---------------------------- MODULE ProviderWatch ----------------------------
(***************************************************************************)
(* How a consumer watches its providers: waitForProviders before its run   *)
(* loop and checkProviders in every round of it.  Both walk the map of     *)
(* providers under mProviderMutex, but the state of a provider is a plain  *)
(* variable that the provider's own thread changes meanwhile, and every    *)
(* ready(), wait(), ended() or error() reads it anew.  A provider that     *)
(* ends sets its state first and leaves the map, under the mutex, later.   *)
(*                                                                         *)
(* Abstracted: one consumer; frames; the order of the walk (any).  The     *)
(* cleanups are a single removal here (FeedLinks has their mutexes).       *)
(***************************************************************************)
EXTENDS Integers, FiniteSets

CONSTANTS
    Provider,       \* the providers the consumer was registered with
    WaitCount       \* the argument of waitForProviders: 0 for all of them

ASSUME CountAssumption == IsFiniteSet(Provider) /\ WaitCount \in Nat

VARIABLES
    mState,         \* [Provider -> state]
    life,           \* [Provider -> how far its run has come]
    mProviders,     \* SUBSET Provider
    pc,             \* where the consumer's thread is
    waitFor, maxWaitCount,  \* locals of waitForProviders
    todo,           \* the providers the walk has still to visit
    looking,        \* the provider it looks at: {} or a singleton
    counts,         \* [ready, wait, bad: Nat], the counters of waitForProviders
    result,         \* the local of checkProviders
    mStop

walk == << todo, looking >>
wait == << waitFor, maxWaitCount, counts >>
vars == << mState, life, mProviders, pc, wait, walk, result, mStop >>

State == { "wait", "ready", "ended", "error" }
\* A provider runs, is in its cleanup, has been through it; or it runs on but
\* has dropped the consumer because its queue was full.
Life  == { "running", "leaving", "gone", "dropped" }

WaitStep  == { "size", "sizeAgain", "lock", "ready", "wait", "evaluate", "clear" }
CheckStep == { "lockCheck", "checkReady", "checkEnded", "checkError", "decide" }
Label     == WaitStep \cup CheckStep \cup { "loop", "waitFailed", "done", "fatal" }

NoCounts == [ready |-> 0, wait |-> 0, bad |-> 0]

Init ==
    /\ mState       = [p \in Provider |-> "wait"]
    /\ life         = [p \in Provider |-> "running"]
    /\ mProviders   = Provider
    /\ pc           = "size"
    /\ waitFor      = 0
    /\ maxWaitCount = 0
    /\ todo         = {}
    /\ looking      = {}
    /\ counts       = NoCounts
    /\ result       = FALSE
    /\ mStop        = FALSE

\* The consumer holds mProviderMutex while it walks the map.
ProvidersLocked == pc \in { "ready", "wait", "checkReady", "checkEnded", "checkError" }

-----------------------------------------------------------------------------
(* The providers *)

SetState(p, s) ==
    /\ mState' = [mState EXCEPT ![p] = s]
    /\ UNCHANGED << mProviders, pc, wait, walk, result, mStop >>

\* The first frame it distributes makes a provider ready.
SetReady(p) ==
    /\ life[p] = "running" /\ mState[p] = "wait"
    /\ SetState(p, "ready")
    /\ UNCHANGED life

\* A provider that cannot start (LocalFileInput without a file) goes on to its cleanup.
SetError(p) ==
    /\ life[p] = "running" /\ mState[p] = "wait"
    /\ SetState(p, "error")
    /\ UNCHANGED life

\* cleanup: setEnded, which leaves an error as it is, ...
SetEnded(p) ==
    /\ life[p] = "running"
    /\ SetState(p, IF mState[p] = "error" THEN "error" ELSE "ended")
    /\ life' = [life EXCEPT ![p] = "leaving"]

\* ... then the provider takes itself from the consumer's map.
LeaveMap(p) ==
    /\ life[p] = "leaving" /\ ~ProvidersLocked
    /\ mProviders' = mProviders \ {p}
    /\ life' = [life EXCEPT ![p] = "gone"]
    /\ UNCHANGED << mState, pc, wait, walk, result, mStop >>

\* AVInput sets the error when its cleanup is done.
SetErrorAfterCleanup(p) ==
    /\ life[p] = "gone" /\ mState[p] = "ended"
    /\ SetState(p, "error")
    /\ UNCHANGED life

DropConsumer(p) ==
    /\ life[p] = "running" /\ mState[p] = "ready" /\ ~ProvidersLocked
    /\ mProviders' = mProviders \ {p}
    /\ life' = [life EXCEPT ![p] = "dropped"]
    /\ UNCHANGED << mState, pc, wait, walk, result, mStop >>

-----------------------------------------------------------------------------
(* FeedConsumer::waitForProviders *)

\* The size of the map is read twice, before the mutex is taken.
ReadSize ==
    /\ pc = "size"
    /\ waitFor' = IF WaitCount # 0 THEN WaitCount ELSE Cardinality(mProviders)
    /\ pc' = "sizeAgain"
    /\ UNCHANGED << mState, life, mProviders, maxWaitCount, counts, walk, result, mStop >>

ReadSizeAgain ==
    /\ pc = "sizeAgain"
    /\ maxWaitCount' = Cardinality(mProviders) - waitFor
    /\ pc' = "lock"
    /\ UNCHANGED << mState, life, mProviders, waitFor, counts, walk, result, mStop >>

LockProviders(here, next) ==
    /\ pc = here
    /\ todo' = mProviders
    /\ looking' = {}
    /\ pc' = next
    /\ UNCHANGED << mState, life, mProviders, waitFor, maxWaitCount, mStop >>

StartRound ==
    /\ LockProviders("lock", "ready")
    /\ counts' = NoCounts
    /\ UNCHANGED result

Count(what) == counts' = [counts EXCEPT ![what] = @ + 1]

ReadReady(p) ==
    /\ pc = "ready" /\ p \in todo
    /\ todo' = todo \ {p}
    /\ IF mState[p] = "ready"
       THEN Count("ready") /\ UNCHANGED << pc, looking >>
       ELSE pc' = "wait" /\ looking' = {p} /\ UNCHANGED counts
    /\ UNCHANGED << mState, life, mProviders, waitFor, maxWaitCount, result, mStop >>

ReadWait(p) ==
    /\ pc = "wait" /\ p \in looking
    /\ Count(IF mState[p] = "wait" THEN "wait" ELSE "bad")
    /\ pc' = "ready"
    /\ looking' = {}
    /\ UNCHANGED << mState, life, mProviders, waitFor, maxWaitCount, todo, result, mStop >>

EndRound ==
    /\ pc = "ready" /\ todo = {}
    /\ pc' = "evaluate"
    /\ UNCHANGED << mState, life, mProviders, wait, walk, result, mStop >>

\* Mutant: the caller is told that providers are ready when none is bad.
EvaluateBadOnly ==
    /\ pc = "evaluate"
    /\ pc' = IF counts.bad = 0 THEN "loop" ELSE "waitFailed"
    /\ UNCHANGED << mState, life, mProviders, wait, walk, result, mStop >>

Evaluate ==
    /\ pc = "evaluate"
    /\ pc' = IF counts.wait > maxWaitCount /\ counts.bad = 0 THEN "clear"
             ELSE IF counts.ready > 0 /\ counts.bad = 0 THEN "loop" ELSE "waitFailed"
    /\ UNCHANGED << mState, life, mProviders, wait, walk, result, mStop >>

\* The queue is emptied, the thread sleeps and tries again.
ClearQueue ==
    /\ pc = "clear"
    /\ pc' = "lock"
    /\ UNCHANGED << mState, life, mProviders, wait, walk, result, mStop >>

-----------------------------------------------------------------------------
(* FeedConsumer::checkProviders, once in every round of the run loop *)

RunLoop ==
    /\ pc = "loop"
    /\ pc' = IF mStop THEN "done" ELSE "lockCheck"
    /\ UNCHANGED << mState, life, mProviders, wait, walk, result, mStop >>

\* Mutant: no provider at all is as good as ready ones.
StartCheckTrue ==
    /\ LockProviders("lockCheck", "checkReady")
    /\ result' = TRUE
    /\ UNCHANGED counts

StartCheck ==
    /\ LockProviders("lockCheck", "checkReady")
    /\ result' = (mProviders # {})
    /\ UNCHANGED counts

CheckReady(p) ==
    /\ pc = "checkReady" /\ p \in todo
    /\ todo' = todo \ {p}
    /\ IF mState[p] = "ready" THEN UNCHANGED << pc, looking >>
                              ELSE pc' = "checkEnded" /\ looking' = {p}
    /\ UNCHANGED << mState, life, mProviders, wait, result, mStop >>

\* Anything that has not ended passes.
CheckEnded(p) ==
    /\ pc = "checkEnded" /\ p \in looking
    /\ IF mState[p] = "ended" THEN pc' = "checkError" /\ UNCHANGED looking
                              ELSE pc' = "checkReady" /\ looking' = {}
    /\ UNCHANGED << mState, life, mProviders, wait, todo, result, mStop >>

\* Fatal if the provider has an error after all.
CheckError(p) ==
    /\ pc = "checkError" /\ p \in looking
    /\ pc' = IF mState[p] = "error" THEN "fatal" ELSE "checkReady"
    /\ looking' = {}
    /\ result' = FALSE
    /\ UNCHANGED << mState, life, mProviders, wait, todo, mStop >>

EndCheck ==
    /\ pc = "checkReady" /\ todo = {}
    /\ pc' = "decide"
    /\ UNCHANGED << mState, life, mProviders, wait, walk, result, mStop >>

StopIfBad ==
    /\ pc = "decide"
    /\ mStop' = (mStop \/ ~result)
    /\ pc' = "loop"
    /\ UNCHANGED << mState, life, mProviders, wait, walk, result >>

-----------------------------------------------------------------------------

ProviderStep(p) ==
    \/ SetReady(p) \/ SetError(p) \/ SetEnded(p) \/ SetErrorAfterCleanup(p) \/ DropConsumer(p)

ConsumerStep ==
    \/ ReadSize   \/ ReadSizeAgain \/ StartRound \/ EndRound \/ Evaluate \/ ClearQueue
    \/ RunLoop    \/ StartCheck    \/ EndCheck   \/ StopIfBad
    \/ \E p \in Provider : \/ ReadReady(p)  \/ ReadWait(p)
                           \/ CheckReady(p) \/ CheckEnded(p) \/ CheckError(p)

Next == ConsumerStep \/ \E p \in Provider : ProviderStep(p) \/ LeaveMap(p)

Spec == Init /\ [][Next]_vars

\* The consumer's thread runs, and a provider that has begun its cleanup gets the
\* mutex, which the consumer lets go in every round; nothing makes a provider
\* become ready, fail or end.
FairSpec ==
    /\ Spec
    /\ WF_vars(ConsumerStep)
    /\ \A p \in Provider : SF_vars(LeaveMap(p))

-----------------------------------------------------------------------------
(* Properties *)

\* Every variable stays in its type.
TypeOK ==
    /\ mState \in [Provider -> State]
    /\ life \in [Provider -> Life]
    /\ mProviders \subseteq Provider
    /\ pc \in Label
    /\ waitFor \in Nat /\ maxWaitCount \in Int
    /\ todo \subseteq Provider /\ looking \subseteq Provider
    /\ counts \in [{"ready", "wait", "bad"} -> Nat]
    /\ result \in BOOLEAN /\ mStop \in BOOLEAN

InLoop == pc \in CheckStep \cup {"loop"}

\* A consumer that waits for all its providers enters its run loop only when
\* none that is still registered is waiting any more, although it looked at one
\* after the other while they changed (ozFeedConsumer.cpp:118-163).
LoopMeansReady == WaitCount = 0 /\ InLoop => \A p \in mProviders : mState[p] # "wait"

Lost(p) == mState[p] \in {"ended", "error"} \/ life[p] = "dropped"

\* checkProviders stops the component only when a provider has ended or failed
\* or the consumer was dropped, never because a provider has still to start or
\* because it changed while the consumer looked (ozFeedConsumer.cpp:171-208).
StopJustified == mStop => \E p \in Provider : Lost(p)

\* The Fatal "unexpected state" of checkProviders is unreachable: an error that
\* follows ended is set only when the provider has left the map, which it cannot
\* do while the map is being walked (ozFeedConsumer.cpp:186-197, ozAVInput.cpp:369-375).
NeverFatal == pc # "fatal"

\* A component that has lost all its providers, which is for good, leaves its run
\* loop: none of the ways to lose one is missed by checkProviders.
LoopEnds == []<>(~InLoop \/ \E p \in Provider : life[p] \notin {"gone", "dropped"})

-----------------------------------------------------------------------------
(* The inductive invariant behind the three safety properties *)

\* A provider is in the map until it leaves or drops the consumer, and the state
\* it has there is one its thread can have given it.
MapFollowsLife ==
    \A p \in Provider :
        /\ p \in mProviders <=> life[p] \in {"running", "leaving"}
        /\ mState[p] = "ended" => life[p] \in {"leaving", "gone"}
        /\ life[p] \in {"leaving", "gone"} => mState[p] \in {"ended", "error"}

\* A walk visits providers that are in the map, and looks closer at one of them
\* and only in the steps that ask for a second reading.
WalkInMap ==
    /\ \A p, q \in looking : p = q
    /\ ProvidersLocked => todo \cup looking \subseteq mProviders
    /\ looking # {} => pc \in {"wait", "checkEnded", "checkError"}

\* The map does not grow, so when all are waited for none may be missing.
NoneMayWait ==
    WaitCount = 0 =>
        /\ pc = "sizeAgain" => Cardinality(mProviders) <= waitFor
        /\ pc \in {"lock", "ready", "wait", "evaluate", "clear"} => maxWaitCount <= 0

\* As long as the counter of waiting providers is 0, the ones visited do not wait.
VisitedDoNotWait ==
    /\ pc \in {"ready", "wait", "evaluate"} /\ counts.wait = 0
           => \A p \in mProviders \ (todo \cup looking) : mState[p] # "wait"
    /\ pc = "evaluate" => todo = {}

\* What a check holds against a provider is true and stays true.
CheckIsRight ==
    /\ pc = "checkError" => \A p \in looking : mState[p] = "ended"
    /\ pc \in CheckStep \ {"lockCheck"} /\ ~result => \E p \in Provider : Lost(p)
    /\ counts.ready > 0 \/ InLoop => Provider # {}

\* The inductive invariant: it holds the three properties above, the types and what they rest on
\* (FeedConsumer::waitForProviders, checkProviders).
WatchInv ==
    /\ TypeOK /\ MapFollowsLife /\ WalkInMap /\ NoneMayWait /\ VisitedDoNotWait /\ CheckIsRight
    /\ LoopMeansReady /\ StopJustified /\ NeverFatal

-----------------------------------------------------------------------------
(* What the comments in the headers say *)

\* waitForProviders "Returns false if problems occur such as providers going
\* away" (ozFeedConsumer.h:45-46): not otherwise.
FalseMeansProblem == pc = "waitFailed" => \E p \in Provider : Lost(p)
=============================================================================
