------------------------------ MODULE MCSharing ------------------------------
(***************************************************************************)
(* The machines whose actors share memory, checked in one run: `part'      *)
(* names the one that steps, the others stay in one initial state.         *)
(***************************************************************************)
EXTENDS FeedLinks, MemoryRing, ThreadLife, TimerThread, LinkedFrames

VARIABLE part

allVars == << part, vars, ringVars, lifeVars, timerVars, linkedVars >>

ASSUME ThreadsAssumption == Caller = Thread

AllLinks == Provider \X Consumer
AllCalls == EntryPoint

\* The classes of the shared memory, with what bounds them.
TheSettings ==
    { [v1 |-> FALSE, trigger |-> FALSE, starts |-> 1, frames |-> 4],
      [v1 |-> FALSE, trigger |-> FALSE, starts |-> 2, frames |-> 2],
      [v1 |-> TRUE,  trigger |-> FALSE, starts |-> 1, frames |-> 4],
      [v1 |-> TRUE,  trigger |-> FALSE, starts |-> 2, frames |-> 1],
      [v1 |-> TRUE,  trigger |-> TRUE,  starts |-> 1, frames |-> 1] }

\* No call takes the two mutexes in the order opposite to that of a provider cleanup.
Teardown(t) == pc[t] \notin {"insertProvider", "lockProviders"}

MCInit ==
    /\ part \in {"links", "teardown", "ring", "life", "timer", "linked"}
    /\ part # "ring" => setting = CHOOSE s \in RingSettings : ~s.v1
    /\ part # "timer" => mRepeat = TRUE
    /\ part # "linked" => pointing = {CHOOSE p \in Pointer : TRUE}
    /\ Init /\ RingInit /\ LifeInit /\ TimerInit /\ LinkedInit

MCNext ==
    \/ part = "links" /\ Next /\ UNCHANGED << part, ringVars, lifeVars, timerVars, linkedVars >>
    \/ part = "teardown" /\ Next /\ (\A t \in Thread : Teardown(t)') /\ UNCHANGED << part, ringVars, lifeVars, timerVars, linkedVars >>
    \/ part = "ring" /\ RingNext /\ UNCHANGED << part, vars, lifeVars, timerVars, linkedVars >>
    \/ part = "life" /\ LifeNext /\ UNCHANGED << part, vars, ringVars, timerVars, linkedVars >>
    \/ part = "timer" /\ TimerNext /\ UNCHANGED << part, vars, ringVars, lifeVars, linkedVars >>
    \/ part = "linked" /\ LinkedNext /\ ~together' /\ UNCHANGED << part, vars, ringVars, lifeVars, timerVars >>

Links(A) == part = "teardown" /\ A /\ UNCHANGED << part, ringVars, lifeVars, timerVars, linkedVars >>
Ring(A) == part = "ring" /\ A /\ UNCHANGED << part, vars, lifeVars, timerVars, linkedVars >>
Life(A) == part = "life" /\ A /\ UNCHANGED << part, vars, ringVars, timerVars, linkedVars >>

\* FairSpec of FeedLinks, RingSpec of MemoryRing and LifeSpec of ThreadLife: only one of
\* them steps, so that the fairness of two may be that of their disjunction, and the
\* threads that link components are the callers of the thread object.
MCSpec ==
    /\ MCInit /\ [][MCNext]_allVars
    /\ \A t \in Thread : SF_allVars(Links(~aborted /\ CallStep(t)) \/ Life(MemberStep(t)))
    /\ SF_allVars(Life(\E k \in Kernel : KernelStep(k)))
    /\ WF_allVars(Ring(ReaderStep) \/ Life(mStop /\ \E k \in Kernel : RunEnds(k)))

\* Where no registration and no consumer cleanup is made every call returns: the
\* deadlock of the link protocol needs the two mutexes taken in both orders
\* (ozFeedProvider.cpp:130-136 and ozFeedConsumer.cpp:11-15).
TeardownReturns == \A t \in Thread : []<>(part = "teardown" => pc[t] = "idle")

\* Nobody waits for ever for a thread, nor at shared memory that is no longer valid
\* (libgenThread.cpp:336-402, ozMemoryInput.cpp:80-120).
WaitsEnd == CallsEnd /\ ReaderEnds
=============================================================================
