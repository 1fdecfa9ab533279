------------------------------ MODULE FeedLinks ------------------------------
(***************************************************************************)
(* How components link and unlink: FeedProvider and FeedConsumer each keep *)
(* a map of their peers under a mutex of their own (mConsumerMutex,        *)
(* mProviderMutex), and every call that changes one map goes on to change  *)
(* the other in a second critical section.  Any thread may be inside any   *)
(* of these calls.  A step of the model is one critical section of the     *)
(* code, or one peer of a loop that keeps its mutex while it calls out.    *)
(*                                                                         *)
(* Abstracted: the maps are the sets of their keys (a link's type and      *)
(* comparators are not kept), a frame queue is its length, and the tests   *)
(* "if it has me, erase me" of the two cleanup loops, which take the same  *)
(* mutex twice in a row, are one step.                                     *)
(***************************************************************************)
EXTENDS Integers, FiniteSets

CONSTANTS
    Provider,       \* the FeedProvider objects
    Consumer,       \* the FeedConsumer objects
    Thread,         \* the threads that call them
    None,           \* not an object: a free mutex, no argument
    ProviderLimit,  \* mProviderLimit of every consumer
    MaxQueueSize,   \* MAX_QUEUE_SIZE
    InitialLinks,   \* the links main made before it started the threads
    Call            \* the entry points the threads use

\* The entry points that code outside the two base classes calls.
EntryPoint == { "registerProvider", "deregisterProvider", "consumerCleanup",
                "providerCleanup", "distributeFrame" }

ASSUME ObjectsAssumption ==
    /\ None \notin Provider \cup Consumer \cup Thread
    /\ Provider \cap Consumer = {}
ASSUME LimitsAssumption == ProviderLimit \in Nat /\ MaxQueueSize \in Nat
ASSUME LinksAssumption  == InitialLinks \subseteq Provider \X Consumer
ASSUME CallAssumption   == Call \subseteq EntryPoint

VARIABLES
    mConsumers,      \* [Provider -> SUBSET Consumer]
    mConsumerMutex,  \* [Provider -> the thread that holds it, or None]
    mProviders,      \* [Consumer -> SUBSET Provider]
    mProviderMutex,  \* [Consumer -> the thread that holds it, or None]
    mFrameQueue,     \* [Consumer -> the number of frames queued]
    mState,          \* [Provider -> state]
    smProviders,     \* the providers FeedProvider::find can return
    aborted,         \* an uncaught Fatal has terminated the process
    pc,              \* where each thread is
    onProvider, onConsumer,  \* the objects of the call it is in
    todo,            \* what its loop over a map has still to visit
    bad              \* distributeFrame's badConsumers

maps  == << mConsumers, mProviders >>
locks == << mConsumerMutex, mProviderMutex >>
local == << pc, onProvider, onConsumer, todo, bad >>
vars  == << maps, locks, mFrameQueue, mState, smProviders, aborted, local >>

\* Steps of a call about one (provider, consumer) pair.
LinkStep   == { "insertProvider", "testConsumer", "insertConsumer", "testProvider" }
UnlinkStep == { "eraseProvider", "retestConsumer", "eraseConsumer", "retestProvider" }
PairStep   == LinkStep \cup UnlinkStep

Label == PairStep \cup
    { "idle", "endProvider", "lockConsumers", "dropProviders",
      "lockProviders", "dropConsumers", "clearQueue",
      "setReady", "lockToOffer", "offerFrame", "dropBad" }

ProvState == { "wait", "ready", "ended", "error" }

Init ==
    /\ mConsumers     = [p \in Provider |-> {c \in Consumer : << p, c >> \in InitialLinks}]
    /\ mConsumerMutex = [p \in Provider |-> None]
    /\ mProviders     = [c \in Consumer |-> {p \in Provider : << p, c >> \in InitialLinks}]
    /\ mProviderMutex = [c \in Consumer |-> None]
    /\ mFrameQueue    = [c \in Consumer |-> 0]
    /\ mState         = [p \in Provider |-> "wait"]
    /\ smProviders    = Provider
    /\ aborted        = FALSE
    /\ pc             = [t \in Thread |-> "idle"]
    /\ onProvider     = [t \in Thread |-> None]
    /\ onConsumer     = [t \in Thread |-> None]
    /\ todo           = [t \in Thread |-> {}]
    /\ bad            = [t \in Thread |-> {}]

-----------------------------------------------------------------------------
(* The calls *)

Goto(t, l) == pc' = [pc EXCEPT ![t] = l]

Invoke(t, call, l, p, c) ==
    /\ call \in Call
    /\ pc[t] = "idle"
    /\ Goto(t, l)
    /\ onProvider' = [onProvider EXCEPT ![t] = p]
    /\ onConsumer' = [onConsumer EXCEPT ![t] = c]
    /\ UNCHANGED << maps, locks, mFrameQueue, mState, smProviders, aborted, todo, bad >>

RegisterProvider(t, p, c)   == Invoke(t, "registerProvider",   "insertProvider", p, c)
DeregisterProvider(t, p, c) == Invoke(t, "deregisterProvider", "eraseProvider",  p, c)
ConsumerCleanup(t, c)       == Invoke(t, "consumerCleanup",    "lockProviders",  None, c)
ProviderCleanup(t, p)       == Invoke(t, "providerCleanup",    "endProvider",    p, None)
DistributeFrame(t, p)       == Invoke(t, "distributeFrame",    "setReady",       p, None)

Return(t) ==
    /\ Goto(t, "idle")
    /\ onProvider' = [onProvider EXCEPT ![t] = None]
    /\ onConsumer' = [onConsumer EXCEPT ![t] = None]

\* A registration or deregistration ends: inside distributeFrame the loop over
\* the bad consumers goes on, anywhere else the call returns.
LeavePair(t) ==
    IF bad[t] # {} THEN Goto(t, "dropBad") /\ UNCHANGED << onProvider, onConsumer >>
                   ELSE Return(t)

Continue(t, l) == Goto(t, l) /\ UNCHANGED << onProvider, onConsumer >>

InConsumers(t) == onConsumer[t] \in mConsumers[onProvider[t]]  \* provider.hasConsumer( consumer )
InProviders(t) == onProvider[t] \in mProviders[onConsumer[t]]  \* consumer.hasProvider( provider )

\* Look a peer up under its mutex: the call is over, or goes on with step next.
Test(t, here, over, next, mutex) ==
    /\ pc[t] = here
    /\ mutex = None
    /\ IF over THEN LeavePair(t) ELSE Continue(t, next)
    /\ UNCHANGED << maps, locks, mFrameQueue, mState, smProviders, aborted, todo, bad >>

\* Change a provider's map of consumers under its mutex.
SetConsumers(t, here, consumers, next) == LET p == onProvider[t] IN
    /\ pc[t] = here
    /\ mConsumerMutex[p] = None
    /\ mConsumers' = [mConsumers EXCEPT ![p] = consumers]
    /\ Continue(t, next)
    /\ UNCHANGED << mProviders, locks, mFrameQueue, mState, smProviders, aborted, todo, bad >>

-----------------------------------------------------------------------------
(* FeedConsumer::registerProvider and FeedProvider::registerConsumer, which *)
(* call each other until each has seen itself in the other's map.           *)

InsertProvider(t) == LET p == onProvider[t]  c == onConsumer[t] IN
    /\ pc[t] = "insertProvider"
    /\ mProviderMutex[c] = None
    /\ IF Cardinality(mProviders[c]) >= ProviderLimit
       THEN /\ aborted' = TRUE
            /\ UNCHANGED << maps, local >>
       ELSE /\ mProviders' = [mProviders EXCEPT ![c] = @ \cup {p}]
            /\ IF p \in mProviders[c] THEN LeavePair(t) ELSE Continue(t, "testConsumer")
            /\ UNCHANGED << mConsumers, aborted, todo, bad >>
    /\ UNCHANGED << locks, mFrameQueue, mState, smProviders >>

TestConsumer(t) ==
    Test(t, "testConsumer", InConsumers(t), "insertConsumer", mConsumerMutex[onProvider[t]])

\* Mutant: registerConsumer does not look whether the consumer still has it.
InsertConsumerOnly(t) == LET p == onProvider[t] IN
    /\ pc[t] = "insertConsumer"
    /\ mConsumerMutex[p] = None
    /\ mConsumers' = [mConsumers EXCEPT ![p] = @ \cup {onConsumer[t]}]
    /\ LeavePair(t)
    /\ UNCHANGED << mProviders, locks, mFrameQueue, mState, smProviders, aborted, todo, bad >>

InsertConsumer(t) ==
    SetConsumers(t, "insertConsumer", mConsumers[onProvider[t]] \cup {onConsumer[t]}, "testProvider")

TestProvider(t) ==
    Test(t, "testProvider", InProviders(t), "insertProvider", mProviderMutex[onConsumer[t]])

-----------------------------------------------------------------------------
(* deregisterProvider and deregisterConsumer with reciprocate set: again    *)
(* each calls the other until neither finds itself in the other's map.      *)

EraseProvider(t) == LET c == onConsumer[t] IN
    /\ pc[t] = "eraseProvider"
    /\ mProviderMutex[c] = None
    /\ mProviders' = [mProviders EXCEPT ![c] = @ \ {onProvider[t]}]
    /\ Continue(t, "retestConsumer")
    /\ UNCHANGED << mConsumers, locks, mFrameQueue, mState, smProviders, aborted, todo, bad >>

RetestConsumer(t) ==
    Test(t, "retestConsumer", ~InConsumers(t), "eraseConsumer", mConsumerMutex[onProvider[t]])

EraseConsumer(t) ==
    SetConsumers(t, "eraseConsumer", mConsumers[onProvider[t]] \ {onConsumer[t]}, "retestProvider")

RetestProvider(t) ==
    Test(t, "retestProvider", ~InProviders(t), "eraseProvider", mProviderMutex[onConsumer[t]])

-----------------------------------------------------------------------------
(* FeedProvider::cleanup: the provider ends, leaves the static map, then    *)
(* holds mConsumerMutex while it takes each consumer's mProviderMutex.      *)

EndProvider(t) == LET p == onProvider[t] IN
    /\ pc[t] = "endProvider"
    /\ mState' = [mState EXCEPT ![p] = IF @ = "error" THEN @ ELSE "ended"]
    /\ smProviders' = smProviders \ {p}
    /\ Continue(t, "lockConsumers")
    /\ UNCHANGED << maps, locks, mFrameQueue, aborted, todo, bad >>

LockConsumers(t) == LET p == onProvider[t] IN
    /\ pc[t] = "lockConsumers"
    /\ mConsumerMutex[p] = None
    /\ mConsumerMutex' = [mConsumerMutex EXCEPT ![p] = t]
    /\ todo' = [todo EXCEPT ![t] = mConsumers[p]]
    /\ Continue(t, "dropProviders")
    /\ UNCHANGED << maps, mProviderMutex, mFrameQueue, mState, smProviders, aborted, bad >>

DropProvider(t, c) ==
    /\ pc[t] = "dropProviders"
    /\ c \in todo[t]
    /\ mProviderMutex[c] = None
    /\ mProviders' = [mProviders EXCEPT ![c] = @ \ {onProvider[t]}]
    /\ todo' = [todo EXCEPT ![t] = @ \ {c}]
    /\ UNCHANGED << mConsumers, locks, mFrameQueue, mState, smProviders, aborted,
                    pc, onProvider, onConsumer, bad >>

ClearConsumers(t) == LET p == onProvider[t] IN
    /\ pc[t] = "dropProviders"
    /\ todo[t] = {}
    /\ mConsumers' = [mConsumers EXCEPT ![p] = {}]
    /\ mConsumerMutex' = [mConsumerMutex EXCEPT ![p] = None]
    /\ Return(t)
    /\ UNCHANGED << mProviders, mProviderMutex, mFrameQueue, mState, smProviders,
                    aborted, todo, bad >>

-----------------------------------------------------------------------------
(* FeedConsumer::cleanup (and deregisterAllProviders): the mirror image,    *)
(* mProviderMutex held while each provider's mConsumerMutex is taken.       *)

LockProviders(t) == LET c == onConsumer[t] IN
    /\ pc[t] = "lockProviders"
    /\ mProviderMutex[c] = None
    /\ mProviderMutex' = [mProviderMutex EXCEPT ![c] = t]
    /\ todo' = [todo EXCEPT ![t] = mProviders[c]]
    /\ Continue(t, "dropConsumers")
    /\ UNCHANGED << maps, mConsumerMutex, mFrameQueue, mState, smProviders, aborted, bad >>

DropConsumer(t, p) ==
    /\ pc[t] = "dropConsumers"
    /\ p \in todo[t]
    /\ mConsumerMutex[p] = None
    /\ mConsumers' = [mConsumers EXCEPT ![p] = @ \ {onConsumer[t]}]
    /\ todo' = [todo EXCEPT ![t] = @ \ {p}]
    /\ UNCHANGED << mProviders, locks, mFrameQueue, mState, smProviders, aborted,
                    pc, onProvider, onConsumer, bad >>

ClearProviders(t) == LET c == onConsumer[t] IN
    /\ pc[t] = "dropConsumers"
    /\ todo[t] = {}
    /\ mProviders' = [mProviders EXCEPT ![c] = {}]
    /\ mProviderMutex' = [mProviderMutex EXCEPT ![c] = None]
    /\ Continue(t, "clearQueue")
    /\ UNCHANGED << mConsumers, mConsumerMutex, mFrameQueue, mState, smProviders,
                    aborted, todo, bad >>

ClearQueue(t) ==
    /\ pc[t] = "clearQueue"
    /\ mFrameQueue' = [mFrameQueue EXCEPT ![onConsumer[t]] = 0]
    /\ Return(t)
    /\ UNCHANGED << maps, locks, mState, smProviders, aborted, todo, bad >>

-----------------------------------------------------------------------------
(* FeedProvider::distributeFrame: offer the frame to every consumer under   *)
(* mConsumerMutex, then deregister the ones that refused it.                *)

SetReady(t) == LET p == onProvider[t] IN
    /\ pc[t] = "setReady"
    /\ mState' = [mState EXCEPT ![p] = IF @ = "wait" THEN "ready" ELSE @]
    /\ Continue(t, "lockToOffer")
    /\ UNCHANGED << maps, locks, mFrameQueue, smProviders, aborted, todo, bad >>

LockToOffer(t) == LET p == onProvider[t] IN
    /\ pc[t] = "lockToOffer"
    /\ mConsumerMutex[p] = None
    /\ mConsumerMutex' = [mConsumerMutex EXCEPT ![p] = t]
    /\ todo' = [todo EXCEPT ![t] = mConsumers[p]]
    /\ Continue(t, "offerFrame")
    /\ UNCHANGED << maps, mProviderMutex, mFrameQueue, mState, smProviders, aborted, bad >>

\* queueFrame: a full queue refuses the frame.
OfferFrame(t, c) ==
    /\ pc[t] = "offerFrame"
    /\ c \in todo[t]
    /\ todo' = [todo EXCEPT ![t] = @ \ {c}]
    /\ IF mFrameQueue[c] >= MaxQueueSize
       THEN bad' = [bad EXCEPT ![t] = @ \cup {c}] /\ UNCHANGED mFrameQueue
       ELSE mFrameQueue' = [mFrameQueue EXCEPT ![c] = @ + 1] /\ UNCHANGED bad
    /\ UNCHANGED << maps, locks, mState, smProviders, aborted, pc, onProvider, onConsumer >>

\* Mutant: the mutex is kept when there is a bad consumer to deregister.
EndOfferLocked(t) ==
    /\ pc[t] = "offerFrame"
    /\ todo[t] = {}
    /\ mConsumerMutex' = [mConsumerMutex EXCEPT ![onProvider[t]] = IF bad[t] = {} THEN None ELSE t]
    /\ LeavePair(t)
    /\ UNCHANGED << maps, mProviderMutex, mFrameQueue, mState, smProviders, aborted, todo, bad >>

EndOffer(t) ==
    /\ pc[t] = "offerFrame"
    /\ todo[t] = {}
    /\ mConsumerMutex' = [mConsumerMutex EXCEPT ![onProvider[t]] = None]
    /\ LeavePair(t)
    /\ UNCHANGED << maps, mProviderMutex, mFrameQueue, mState, smProviders, aborted, todo, bad >>

DropBad(t, c) ==
    /\ pc[t] = "dropBad"
    /\ c \in bad[t]
    /\ bad' = [bad EXCEPT ![t] = @ \ {c}]
    /\ Goto(t, "eraseConsumer")
    /\ onConsumer' = [onConsumer EXCEPT ![t] = c]
    /\ UNCHANGED << maps, locks, mFrameQueue, mState, smProviders, aborted, onProvider, todo >>

\* The run loop of the component empties its queue.
HandleFrames(c) ==
    /\ mFrameQueue[c] > 0
    /\ mFrameQueue' = [mFrameQueue EXCEPT ![c] = 0]
    /\ UNCHANGED << maps, locks, mState, smProviders, aborted, local >>

-----------------------------------------------------------------------------

StartCall(t) ==
    \/ \E p \in Provider, c \in Consumer : RegisterProvider(t, p, c) \/ DeregisterProvider(t, p, c)
    \/ \E c \in Consumer : ConsumerCleanup(t, c)
    \/ \E p \in Provider : ProviderCleanup(t, p) \/ DistributeFrame(t, p)

CallStep(t) ==
    \/ InsertProvider(t) \/ TestConsumer(t)   \/ InsertConsumer(t) \/ TestProvider(t)
    \/ EraseProvider(t)  \/ RetestConsumer(t) \/ EraseConsumer(t)  \/ RetestProvider(t)
    \/ EndProvider(t)    \/ LockConsumers(t)  \/ ClearConsumers(t)
    \/ LockProviders(t)  \/ ClearProviders(t) \/ ClearQueue(t)
    \/ SetReady(t)       \/ LockToOffer(t)    \/ EndOffer(t)
    \/ \E c \in Consumer : DropProvider(t, c) \/ OfferFrame(t, c) \/ DropBad(t, c)
    \/ \E p \in Provider : DropConsumer(t, p)

Next ==
    /\ ~aborted
    /\ \/ \E t \in Thread : StartCall(t) \/ CallStep(t)
       \/ \E c \in Consumer : HandleFrames(c)

Spec == Init /\ [][Next]_vars

\* The operating system runs every thread that can run, and a thread that waits
\* for a mutex which is released again and again gets it in the end: the calls
\* are made at the pace of frames and of connections, never in a tight loop.
FairSpec == Spec /\ \A t \in Thread : SF_vars(~aborted /\ CallStep(t))

-----------------------------------------------------------------------------
(* Properties *)

\* Every variable stays in its type.
TypeOK ==
    /\ mConsumers     \in [Provider -> SUBSET Consumer]
    /\ mConsumerMutex \in [Provider -> Thread \cup {None}]
    /\ mProviders     \in [Consumer -> SUBSET Provider]
    /\ mProviderMutex \in [Consumer -> Thread \cup {None}]
    /\ mFrameQueue    \in [Consumer -> Nat]
    /\ mState         \in [Provider -> ProvState]
    /\ smProviders    \subseteq Provider
    /\ aborted        \in BOOLEAN
    /\ pc             \in [Thread -> Label]
    /\ onProvider     \in [Thread -> Provider \cup {None}]
    /\ onConsumer     \in [Thread -> Consumer \cup {None}]
    /\ todo           \in [Thread -> SUBSET (Provider \cup Consumer)]
    /\ bad            \in [Thread -> SUBSET Consumer]

\* Thread t has a call under way that can still change the link between p and c.
Involved(t, p, c) ==
    \/ pc[t] \in PairStep /\ onProvider[t] = p /\ onConsumer[t] = c
    \/ pc[t] = "dropProviders" /\ onProvider[t] = p
    \/ pc[t] = "dropConsumers" /\ onConsumer[t] = c

\* The two maps agree about every pair that no call is working on, however
\* registrations, deregistrations, the removal of slow consumers and the two
\* cleanups were interleaved (the mutual calls of ozFeedConsumer.cpp:38-71
\* and ozFeedProvider.cpp:126-176).  A one-sided link would be a consumer fed
\* by a provider it no longer knows, or waiting on one that never feeds it.
LinksAgree ==
    \A p \in Provider, c \in Consumer :
        (\A t \in Thread : ~Involved(t, p, c)) => (p \in mProviders[c] <=> c \in mConsumers[p])

-----------------------------------------------------------------------------
(* The inductive invariant behind LinksAgree *)

\* A call has the arguments its steps use.
ArgsOK ==
    \A t \in Thread :
        /\ pc[t] \in PairStep => onProvider[t] \in Provider /\ onConsumer[t] \in Consumer
        /\ pc[t] \in {"endProvider", "lockConsumers", "dropProviders", "setReady",
                      "lockToOffer", "offerFrame", "dropBad"} => onProvider[t] \in Provider
        /\ pc[t] \in {"lockProviders", "dropConsumers", "clearQueue"} => onConsumer[t] \in Consumer
        /\ bad[t] # {} => pc[t] \in UnlinkStep \cup {"offerFrame", "dropBad"}

\* A mutex has the owner whose call is in a section that keeps it, and no other.
LocksHeld ==
    \A t \in Thread :
        /\ \A p \in Provider :
            mConsumerMutex[p] = t <=> pc[t] \in {"dropProviders", "offerFrame"} /\ onProvider[t] = p
        /\ \A c \in Consumer :
            mProviderMutex[c] = t <=> pc[t] = "dropConsumers" /\ onConsumer[t] = c

\* The provider cleanup of p under way in t has passed c, and the mirror image.
PassedConsumer(t, p, c) == pc[t] = "dropProviders" /\ onProvider[t] = p /\ c \notin todo[t]
PassedProvider(t, p, c) == pc[t] = "dropConsumers" /\ onConsumer[t] = c /\ p \notin todo[t]

\* Thread t is going to insert c in mConsumers[p] or erase p from mProviders[c],
MendsProviderOnly(t, p, c) ==
    \/ /\ pc[t] \in {"testConsumer", "insertConsumer", "eraseProvider", "retestProvider"}
       /\ onProvider[t] = p
       /\ onConsumer[t] = c
    \/ pc[t] = "dropConsumers" /\ onConsumer[t] = c

\* and here to insert p in mProviders[c] or erase c from mConsumers[p].
MendsConsumerOnly(t, p, c) ==
    \/ /\ pc[t] \in {"insertProvider", "testProvider", "retestConsumer", "eraseConsumer"}
       /\ onProvider[t] = p
       /\ onConsumer[t] = c
    \/ pc[t] = "dropProviders" /\ onProvider[t] = p

\* A link only one side has, or that a cleanup under way has passed and will
\* not see again, always has a thread that is going to mend it.
ProviderOnlyMended(p, c) ==
    /\ p \in mProviders[c]
    /\ c \notin mConsumers[p] \/ \E t \in Thread : PassedConsumer(t, p, c)
    => \E u \in Thread : MendsProviderOnly(u, p, c)

ConsumerOnlyMended(p, c) ==
    /\ c \in mConsumers[p]
    /\ p \notin mProviders[c] \/ \E t \in Thread : PassedProvider(t, p, c)
    => \E u \in Thread : MendsConsumerOnly(u, p, c)

OneSidedLinksMended ==
    \A p \in Provider, c \in Consumer : ProviderOnlyMended(p, c) /\ ConsumerOnlyMended(p, c)

LinksInv == TypeOK /\ ArgsOK /\ LocksHeld /\ OneSidedLinksMended

-----------------------------------------------------------------------------
(* Liveness *)

\* Every call returns: no thread waits for ever for a mutex, and the mutual
\* calls of registration and deregistration come to an end.
CallsReturn == \A t \in Thread : []<>(pc[t] = "idle")
=============================================================================
