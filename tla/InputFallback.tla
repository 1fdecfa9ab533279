---------------------------- MODULE InputFallback ----------------------------
(***************************************************************************)
(* InputFallback: a consumer of several feeds that passes on the frames of *)
(* one of them, the current one.  A frame of a feed of higher priority     *)
(* makes that feed current at once; when the current one has been silent   *)
(* for the timeout the next slot of the list is taken.  It waits for one   *)
(* provider and checks them in every round, which are the actions of       *)
(* ProviderWatch (with WaitCount = 1); what is added here is the queue,    *)
(* the list of slots and their statistics, the rest of the run loop and    *)
(* the providers' side of a frame.                                         *)
(*                                                                         *)
(* A provider that cleans up, or whose frame finds the queue full, calls   *)
(* deregisterProvider from its own thread: statistics and slot go while    *)
(* the loop may still have frames of it.  mProviderStats[] of such a       *)
(* provider is a NULL entry that the next line reads: `crashed'.  The maps *)
(* are changed without a lock; an erase is one step here.                  *)
(***************************************************************************)
EXTENDS ProviderWatch, Sequences

CONSTANTS
    None,               \* NULL
    MAX_QUEUE_SIZE

ASSUME NoneAssumption == None \notin Provider

VARIABLES
    mProviderList,      \* [Slot -> Provider or None]
    timedOut,           \* the listed providers with a lastFrameTime beyond the timeout
    mCurrentProvider,
    mFrameQueue,        \* of providers: a frame is known by its provider
    lastPassed,         \* history: the provider of the last frame passed on
    wasSilent           \* history: that provider has timed out since then

feeds  == << mProviderList, timedOut, mCurrentProvider >>
history == << lastPassed, wasSilent >>
fallbackVars == << vars, feeds, mFrameQueue, history >>

Slot == 0 .. Cardinality(Provider) - 1

FallbackInit ==
    /\ Init
    /\ mProviderList = CHOOSE list \in [Slot -> Provider] :
                           \A i, j \in Slot : list[i] = list[j] => i = j
    /\ timedOut = {}
    /\ mCurrentProvider = None
    /\ mFrameQueue = << >>
    /\ lastPassed = None
    /\ wasSilent = FALSE

\* The providers with an entry in mProviderStats.
Listed == { mProviderList[i] : i \in Slot } \ {None}

priority(p) == CHOOSE i \in Slot : mProviderList[i] = p

\* InputFallback::deregisterProvider
Deregister(p) ==
    /\ mProviderList' = [i \in Slot |-> IF mProviderList[i] = p THEN None ELSE mProviderList[i]]
    /\ timedOut' = timedOut \ {p}

-----------------------------------------------------------------------------
(* The providers *)

QueueFrame(p) ==
    /\ life[p] = "running" /\ mState[p] = "ready" /\ pc # "handle"
    /\ Len(mFrameQueue) < MAX_QUEUE_SIZE
    /\ mFrameQueue' = Append(mFrameQueue, p)
    /\ UNCHANGED << vars, feeds, history >>

\* The queue is full: distributeFrame drops the consumer.
QueueFull(p) ==
    /\ Len(mFrameQueue) >= MAX_QUEUE_SIZE
    /\ DropConsumer(p)
    /\ Deregister(p)
    /\ UNCHANGED << mCurrentProvider, mFrameQueue, history >>

Leave(p) ==
    /\ LeaveMap(p)
    /\ Deregister(p)
    /\ UNCHANGED << mCurrentProvider, mFrameQueue, history >>

Change(p) ==
    /\ SetReady(p) \/ SetError(p) \/ SetEnded(p) \/ SetErrorAfterCleanup(p)
    /\ UNCHANGED << feeds, mFrameQueue, history >>

\* mProviderTimeout has passed since the last frame of a provider was handled.
TimeOut(p) ==
    /\ p \in Listed \ timedOut
    /\ timedOut' = timedOut \cup {p}
    /\ wasSilent' = (wasSilent \/ p = lastPassed)
    /\ UNCHANGED << vars, mProviderList, mCurrentProvider, mFrameQueue, lastPassed >>

-----------------------------------------------------------------------------
(* InputFallback::run *)

Wait ==
    /\ \/ ReadSize \/ ReadSizeAgain \/ StartRound \/ EndRound
       \/ Evaluate /\ pc' # "loop"
       \/ \E p \in Provider : ReadReady(p) \/ ReadWait(p)
    /\ UNCHANGED << feeds, mFrameQueue, history >>

\* waitForProviders empties the queue before it tries again.
Retry ==
    /\ ClearQueue
    /\ mFrameQueue' = << >>
    /\ UNCHANGED << feeds, history >>

\* Mutant: the current provider is left to be found with the first frame.
BeginUnset ==
    /\ Evaluate /\ pc' = "loop"
    /\ UNCHANGED << feeds, mFrameQueue, history >>

Begin ==
    /\ Evaluate /\ pc' = "loop"
    /\ mCurrentProvider' = mProviderList[0]
    /\ UNCHANGED << mProviderList, timedOut, mFrameQueue, history >>

GoTo(here, next) ==
    /\ pc = here
    /\ pc' = next
    /\ UNCHANGED << mState, life, mProviders, wait, walk, result, mStop >>

LoopTop ==
    /\ GoTo("loop", IF mStop THEN "done" ELSE "handle")
    /\ UNCHANGED << feeds, mFrameQueue, history >>

\* mQueueMutex is held for all the frames of the queue.
HandleFrame ==
    /\ pc = "handle" /\ mFrameQueue # << >>
    /\ LET provider == Head(mFrameQueue)
           current  == IF priority(provider) < priority(mCurrentProvider)
                       THEN provider ELSE mCurrentProvider
       IN  /\ {provider, mCurrentProvider} \subseteq Listed
           /\ mCurrentProvider' = current
           /\ timedOut' = timedOut \ {provider}
           /\ IF provider = current THEN lastPassed' = provider /\ wasSilent' = FALSE
                                    ELSE UNCHANGED history
    /\ mFrameQueue' = Tail(mFrameQueue)
    /\ UNCHANGED << vars, mProviderList >>

\* The statistics of the frame's or of the current provider are gone.
HandleFrameOfNone ==
    /\ mFrameQueue # << >>
    /\ ~({Head(mFrameQueue), mCurrentProvider} \subseteq Listed)
    /\ GoTo("handle", "crashed")
    /\ UNCHANGED << feeds, mFrameQueue, history >>

EndFrames ==
    /\ mFrameQueue = << >>
    /\ GoTo("handle", "lockCheck")
    /\ UNCHANGED << feeds, mFrameQueue, history >>

Check ==
    /\ StartCheck \/ EndCheck \/ \E p \in Provider : CheckReady(p) \/ CheckEnded(p) \/ CheckError(p)
    /\ UNCHANGED << feeds, mFrameQueue, history >>

\* The end of checkProviders: as StopIfBad, but the round goes on.
Checked ==
    /\ pc = "decide"
    /\ mStop' = (mStop \/ ~result)
    /\ pc' = "timeout"
    /\ UNCHANGED << mState, life, mProviders, wait, walk, result, feeds, mFrameQueue, history >>

\* Mutant: the timeout is not looked at.
CheckTimeoutNever ==
    /\ GoTo("timeout", "loop")
    /\ UNCHANGED << feeds, mFrameQueue, history >>

\* The slot after the current one, taken or not; NULL itself is called for its name.
CheckTimeout ==
    /\ mCurrentProvider \in Listed
    /\ LET next == priority(mCurrentProvider) + 1
       IN  IF mCurrentProvider \in timedOut /\ next \in Slot
           THEN /\ mCurrentProvider' = mProviderList[next]
                /\ GoTo("timeout", IF mProviderList[next] = None THEN "crashed" ELSE "loop")
           ELSE GoTo("timeout", "loop") /\ UNCHANGED mCurrentProvider
    /\ UNCHANGED << mProviderList, timedOut, mFrameQueue, history >>

CheckTimeoutOfNone ==
    /\ mCurrentProvider \notin Listed
    /\ GoTo("timeout", "crashed")
    /\ UNCHANGED << feeds, mFrameQueue, history >>

-----------------------------------------------------------------------------

FeedStep(p) == QueueFrame(p) \/ QueueFull(p) \/ Leave(p) \/ Change(p) \/ TimeOut(p)

RunStep ==
    \/ Wait \/ Retry \/ Begin \/ LoopTop \/ HandleFrame \/ HandleFrameOfNone \/ EndFrames
    \/ Check \/ Checked \/ CheckTimeout \/ CheckTimeoutOfNone

FallbackNext == RunStep \/ \E p \in Provider : FeedStep(p)

\* The component's thread runs; feeds send, end and fail as they like.
FallbackSpec == FallbackInit /\ [][FallbackNext]_fallbackVars /\ WF_fallbackVars(RunStep)

-----------------------------------------------------------------------------
(* Properties *)

Working == pc \in CheckStep \cup {"loop", "handle", "timeout"}

\* The NULL entries are met only after a provider has been deregistered: as
\* long as all feeds stay, failed ones too, the component works (ozInputFallback.cpp:104-107,125-132).
CrashNeedsDeparture == pc = "crashed" => \E p \in Provider : p \notin mProviders

\* The output flaps when a frame of one feed is followed by one of a feed with lower
\* priority though the first was not silent for the timeout: the order of the frames in
\* the queue alone must not do that (ozInputFallback.cpp:107-118).
Flaps ==
    /\ lastPassed' # lastPassed /\ {lastPassed, lastPassed'} \subseteq Listed
    /\ priority(lastPassed) < priority(lastPassed')
    /\ ~wasSilent

\* The component does not stay with a feed that has gone silent for good while
\* all feeds are there and the second one goes on (ozInputFallback.cpp:126-134).
Silent(p) == p \in timedOut /\ \A i \in 1 .. Len(mFrameQueue) : mFrameQueue[i] # p

FallsBack ==
    <>[](Silent(mProviderList[0]) /\ Listed = Provider /\ Working /\ ~mStop)
        => <>[](mCurrentProvider # mProviderList[0])

\* The fallback stays with what it has as long as that serves, and no provider that went away is
\* dereferenced unless one did (ozInputFallback.cpp:60-150).
FallbackHolds == [][CrashNeedsDeparture' /\ ~Flaps]_fallbackVars

-----------------------------------------------------------------------------
(* The inductive invariant behind FallbackHolds *)

FallbackTyped ==
    /\ mProviderList \in [Slot -> Provider \cup {None}]
    /\ mCurrentProvider \in Provider \cup {None}
    /\ mFrameQueue \in Seq(Provider)
    /\ lastPassed \in Provider \cup {None}
    /\ mProviders \subseteq Provider

\* A provider has one slot, and gives it up only when it leaves the map.
SlotsFollowMap ==
    /\ \A i, j \in Slot : mProviderList[i] = mProviderList[j] /\ i # j => mProviderList[i] = None
    /\ mProviders \subseteq Listed
    /\ Provider \subseteq mProviders => \A i \in Slot : mProviderList[i] # None

\* The loop is entered with a provider, and has a current one as long as none leaves.
CurrentIsThere ==
    /\ Provider = {} => counts = NoCounts /\ ~Working
    /\ Working /\ Provider \subseteq mProviders => mCurrentProvider # None

\* The current provider is never behind the one whose frame was passed on last, until
\* that one has been silent.
PassedIsCurrent ==
    /\ lastPassed \in timedOut => wasSilent
    /\ {lastPassed, mCurrentProvider} \subseteq Listed /\ ~wasSilent
           => priority(mCurrentProvider) <= priority(lastPassed)

\* The inductive invariant: the slots, the current provider and what was passed on agree, and a
\* crash needs a departure (InputFallback::run, deregisterProvider).
FallbackInv ==
    FallbackTyped /\ SlotsFollowMap /\ CurrentIsThere /\ PassedIsCurrent /\ CrashNeedsDeparture
=============================================================================
