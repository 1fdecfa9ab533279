------------------------------ MODULE FeedFlow ------------------------------
(***************************************************************************)
(* Frames through a tree of components, each a thread of its own that runs *)
(* one of the run loops of the code: it waits for its provider, takes      *)
(* frames from its queue, distributes what it makes of them, checks its    *)
(* provider and, when that is gone or it was stopped, cleans up.           *)
(*                                                                         *)
(* The kinds of loop, by how they take frames from the queue:              *)
(*   source   captures frames, has no queue               (DummyInput)     *)
(*   batch    all of it, under mQueueMutex        (QueuedVideoFilter)      *)
(*   encoder  the first frame of it, under mQueueMutex   (JpegEncoder)     *)
(*   paced    one frame a tick, the rest waits or is skipped (RateLimiter) *)
(*   delay    all of it to a queue of its own     (DelayBufferFilter)      *)
(* A component that only consumes is one that nobody has as provider.      *)
(*                                                                         *)
(* Abstracted: a frame and what is made of it are the number it had at the *)
(* source; every link is queued and takes every frame; the two maps of a   *)
(* link are one flag (FeedLinks shows that they agree); each component has *)
(* one provider at most; a mutex is held in the steps QueueLocked,         *)
(* ConsumersLocked and ProvidersLocked name.                               *)
(***************************************************************************)
EXTENDS Integers, Sequences

CONSTANTS
    Node,           \* the components
    None,
    ProviderOf,     \* [Node -> Node \cup {None}], a tree: None for a source
    Kind,           \* [Node -> the kind of its run loop]
    mSkip,          \* the paced components that skip frames
    Stoppable,      \* the components whose stop() may be called from outside
    MaxQueueSize,   \* MAX_QUEUE_SIZE
    MaxFrames       \* bound: frames a source captures

LoopKind == { "source", "batch", "encoder", "paced", "delay" }

ASSUME NodesAssumption  == None \notin Node
ASSUME TreeAssumption   ==
    /\ ProviderOf \in [Node -> Node \cup {None}]
    /\ Kind \in [Node -> LoopKind]
    /\ \A n \in Node : Kind[n] = "source" <=> ProviderOf[n] = None
    /\ \A n \in Node : ProviderOf[n] # n
ASSUME SubsetAssumption == mSkip \subseteq Node /\ Stoppable \subseteq Node
ASSUME BoundAssumption  == MaxQueueSize \in Nat /\ MaxFrames \in Nat

Frame == 1..MaxFrames

VARIABLES
    pc,          \* [Node -> where its thread is]
    mStop,       \* [Node -> BOOLEAN]
    mState,      \* [Node -> state of the provider part]
    linked,      \* [Node -> still registered with its provider]
    mFrameQueue, \* [Node -> Seq(Frame)]
    position,    \* [Node -> frames of the queue the current batch has passed]
    delayQueue,  \* [Node -> Seq(Frame)], the delay buffer's own queue
    current,     \* [Node -> the frame being distributed, or None]
    todo,        \* [Node -> the consumers distributeFrame has still to visit]
    bad,         \* [Node -> badConsumers]
    accepted,    \* history: the frames queued since the component was last
                 \* seen waiting for its provider
    sent         \* history: the frames distributed

queues == << mFrameQueue, position, delayQueue, accepted >>
offers == << current, todo, bad >>
vars   == << pc, mStop, mState, linked, queues, offers, sent >>

Label == { "waitReady", "waitWait", "clear", "loop", "batch", "release", "offer", "dropBad",
           "check", "end", "unlinkConsumers", "unlinkProvider", "clearQueue", "ended" }

Consumers(n) == {c \in Node : ProviderOf[c] = n /\ linked[c]}

Init ==
    /\ pc          = [n \in Node |-> IF Kind[n] = "source" THEN "loop" ELSE "waitReady"]
    /\ mStop       = [n \in Node |-> FALSE]
    /\ mState      = [n \in Node |-> "wait"]
    /\ linked      = [n \in Node |-> ProviderOf[n] # None]
    /\ mFrameQueue = [n \in Node |-> << >>]
    /\ position    = [n \in Node |-> 0]
    /\ delayQueue  = [n \in Node |-> << >>]
    /\ current     = [n \in Node |-> None]
    /\ todo        = [n \in Node |-> {}]
    /\ bad         = [n \in Node |-> {}]
    /\ accepted    = [n \in Node |-> << >>]
    /\ sent        = [n \in Node |-> << >>]

-----------------------------------------------------------------------------
(* Who holds the mutexes of n *)

\* The batch loops distribute, and drop slow consumers, with the queue locked.
QueueLocked(n) ==
    Kind[n] \in {"batch", "encoder"} /\ pc[n] \in {"batch", "offer", "dropBad"}

\* mConsumerMutex
ConsumersLocked(n) == pc[n] \in {"offer", "unlinkConsumers"}

\* mProviderMutex
ProvidersLocked(n) == pc[n] \in {"waitWait", "unlinkProvider"}

Goto(n, l) == pc' = [pc EXCEPT ![n] = l]

-----------------------------------------------------------------------------
(* FeedProvider::distributeFrame *)

Distribute(n, f) ==
    /\ mState'  = [mState EXCEPT ![n] = IF @ = "wait" THEN "ready" ELSE @]
    /\ current' = [current EXCEPT ![n] = f]
    /\ todo'    = [todo EXCEPT ![n] = Consumers(n)]
    /\ sent'    = [sent EXCEPT ![n] = Append(@, f)]
    /\ Goto(n, "offer")
    /\ UNCHANGED << mStop, linked, bad, accepted >>

\* FeedConsumer::queueFrame of consumer c.
QueueFrame(n, c) ==
    /\ pc[n] = "offer" /\ c \in todo[n] /\ ~QueueLocked(c)
    /\ todo' = [todo EXCEPT ![n] = @ \ {c}]
    /\ IF Len(mFrameQueue[c]) >= MaxQueueSize
       THEN /\ bad' = [bad EXCEPT ![n] = @ \cup {c}]
            /\ UNCHANGED << mFrameQueue, accepted >>
       ELSE /\ mFrameQueue' = [mFrameQueue EXCEPT ![c] = Append(@, current[n])]
            /\ accepted' = [accepted EXCEPT ![c] = Append(@, current[n])]
            /\ UNCHANGED bad
    /\ UNCHANGED << pc, mStop, mState, linked, position, delayQueue, current, sent >>

\* Mutant: the consumers that refused the frame stay registered.
EndOfferKeepBad(n) ==
    /\ pc[n] = "offer" /\ todo[n] = {}
    /\ bad' = [bad EXCEPT ![n] = {}]
    /\ Goto(n, "dropBad")
    /\ UNCHANGED << mStop, mState, linked, queues, current, todo, sent >>

EndOffer(n) ==
    /\ pc[n] = "offer" /\ todo[n] = {}
    /\ Goto(n, "dropBad")
    /\ UNCHANGED << mStop, mState, linked, queues, offers, sent >>

DropBad(n, c) ==
    /\ pc[n] = "dropBad" /\ c \in bad[n] /\ ~ProvidersLocked(c)
    /\ bad' = [bad EXCEPT ![n] = @ \ {c}]
    /\ linked' = [linked EXCEPT ![c] = FALSE]
    /\ UNCHANGED << pc, mStop, mState, queues, current, todo, sent >>

\* distributeFrame returns to the loop that called it.
AfterDistribute == [source |-> "loop", batch |-> "batch", encoder |-> "batch",
                    paced |-> "check", delay |-> "release"]

EndDistribute(n) ==
    /\ pc[n] = "dropBad" /\ bad[n] = {}
    /\ current' = [current EXCEPT ![n] = None]
    /\ Goto(n, AfterDistribute[Kind[n]])
    /\ UNCHANGED << mStop, mState, linked, queues, todo, bad, sent >>

-----------------------------------------------------------------------------
(* FeedConsumer::waitForProviders, for a consumer of one provider. It reads *)
(* the provider's state twice, and empties the queue between two rounds.    *)

WaitReady(n) ==
    /\ pc[n] = "waitReady"
    /\ Goto(n, CASE ~linked[n]                        -> "end"
                 [] linked[n] /\ mState[ProviderOf[n]] = "ready" -> "loop"
                 [] OTHER                             -> "waitWait")
    /\ UNCHANGED << mStop, mState, linked, queues, offers, sent >>

WaitWait(n) ==
    /\ pc[n] = "waitWait"
    /\ Goto(n, IF mState[ProviderOf[n]] = "wait" THEN "clear" ELSE "end")
    /\ UNCHANGED << mStop, mState, linked, queues, offers, sent >>

ClearAndRetry(n) ==
    /\ pc[n] = "clear"
    /\ mFrameQueue' = [mFrameQueue EXCEPT ![n] = << >>]
    /\ accepted' = [accepted EXCEPT ![n] = << >>]
    /\ Goto(n, "waitReady")
    /\ UNCHANGED << mStop, mState, linked, position, delayQueue, offers, sent >>

-----------------------------------------------------------------------------
(* The run loops *)

InLoop(n, kinds) == pc[n] = "loop" /\ ~mStop[n] /\ Kind[n] \in kinds

ExitLoop(n) ==
    /\ pc[n] = "loop" /\ mStop[n]
    /\ Goto(n, "end")
    /\ UNCHANGED << mStop, mState, linked, queues, offers, sent >>

Capture(n) ==
    /\ InLoop(n, {"source"})
    /\ Len(sent[n]) < MaxFrames
    /\ Distribute(n, Len(sent[n]) + 1)
    /\ UNCHANGED << mFrameQueue, position, delayQueue >>

\* Lock the queue; with nothing in it the loop goes on to check the provider.
LockQueue(n) ==
    /\ InLoop(n, {"batch", "encoder"})
    /\ Goto(n, IF mFrameQueue[n] = << >> THEN "check" ELSE "batch")
    /\ UNCHANGED << mStop, mState, linked, queues, offers, sent >>

\* The iterator of the batch loop passes on the next frame of the queue.
RelayNext(n) ==
    /\ pc[n] = "batch" /\ Kind[n] = "batch"
    /\ position[n] < Len(mFrameQueue[n])
    /\ Distribute(n, mFrameQueue[n][position[n] + 1])
    /\ position' = [position EXCEPT ![n] = @ + 1]
    /\ UNCHANGED << mFrameQueue, delayQueue >>

\* The encoder encodes the first frame if someone wants it and drops the rest;
\* the codec may also take the frame and give nothing yet.
EncodeFirst(n) ==
    /\ pc[n] = "batch" /\ Kind[n] = "encoder"
    /\ position[n] = 0 /\ Consumers(n) # {}
    /\ Distribute(n, mFrameQueue[n][1])
    /\ position' = [position EXCEPT ![n] = Len(mFrameQueue[n])]
    /\ UNCHANGED << mFrameQueue, delayQueue >>

BatchDone(n) ==
    /\ pc[n] = "batch"
    /\ Kind[n] = "batch" => position[n] = Len(mFrameQueue[n])

ClearBatch(n) ==
    /\ BatchDone(n)
    /\ mFrameQueue' = [mFrameQueue EXCEPT ![n] = << >>]
    /\ position' = [position EXCEPT ![n] = 0]
    /\ Goto(n, "check")
    /\ UNCHANGED << mStop, mState, linked, delayQueue, accepted, offers, sent >>

\* RateLimiter: the oldest frame, if the limiter has a consumer, and then it
\* alone or the whole queue is removed; the frame is sent with the queue free.
RemainingQueue(n) == IF n \in mSkip THEN << >> ELSE Tail(mFrameQueue[n])

TakeOne(n) ==
    /\ InLoop(n, {"paced"})
    /\ mFrameQueue[n] # << >> /\ Consumers(n) # {}
    /\ Distribute(n, Head(mFrameQueue[n]))
    /\ mFrameQueue' = [mFrameQueue EXCEPT ![n] = RemainingQueue(n)]
    /\ UNCHANGED << position, delayQueue >>

TakeNone(n) ==
    /\ InLoop(n, {"paced"})
    /\ mFrameQueue[n] = << >> \/ Consumers(n) = {}
    /\ mFrameQueue' = [mFrameQueue EXCEPT ![n] = IF @ = << >> THEN @ ELSE RemainingQueue(n)]
    /\ Goto(n, "check")
    /\ UNCHANGED << mStop, mState, linked, position, delayQueue, accepted, offers, sent >>

\* Mutant: the queue replaces what the delay buffer still holds.
TakeAllSwap(n) ==
    /\ InLoop(n, {"delay"})
    /\ delayQueue' = [delayQueue EXCEPT ![n] = mFrameQueue[n]]
    /\ mFrameQueue' = [mFrameQueue EXCEPT ![n] = << >>]
    /\ Goto(n, "release")
    /\ UNCHANGED << mStop, mState, linked, position, accepted, offers, sent >>

\* DelayBufferFilter: move the queue to its own, then send what is old enough.
TakeAll(n) ==
    /\ InLoop(n, {"delay"})
    /\ delayQueue' = [delayQueue EXCEPT ![n] = @ \o mFrameQueue[n]]
    /\ mFrameQueue' = [mFrameQueue EXCEPT ![n] = << >>]
    /\ Goto(n, "release")
    /\ UNCHANGED << mStop, mState, linked, position, accepted, offers, sent >>

ReleaseOld(n) ==
    /\ pc[n] = "release"
    /\ delayQueue[n] # << >>
    /\ Distribute(n, Head(delayQueue[n]))
    /\ delayQueue' = [delayQueue EXCEPT ![n] = Tail(@)]
    /\ UNCHANGED << mFrameQueue, position >>

KeepYoung(n) ==
    /\ pc[n] = "release"
    /\ Goto(n, "check")
    /\ UNCHANGED << mStop, mState, linked, queues, offers, sent >>

\* Mutant: checkProviders tells the caller, which does not look, and stops nothing.
CheckOnly(n) ==
    /\ pc[n] = "check"
    /\ Goto(n, "loop")
    /\ UNCHANGED << mStop, mState, linked, queues, offers, sent >>

\* FeedConsumer::checkProviders
CheckProviders(n) ==
    /\ pc[n] = "check"
    /\ mStop' = [mStop EXCEPT ![n] = @ \/ ~linked[n] \/ mState[ProviderOf[n]] = "ended"]
    /\ Goto(n, "loop")
    /\ UNCHANGED << mState, linked, queues, offers, sent >>

\* A source ends by itself (end of input, an error), any thread may be stopped.
Stop(n) ==
    /\ n \in Stoppable /\ ~mStop[n]
    /\ mStop' = [mStop EXCEPT ![n] = TRUE]
    /\ UNCHANGED << pc, mState, linked, queues, offers, sent >>

-----------------------------------------------------------------------------
(* FeedProvider::cleanup, then FeedConsumer::cleanup *)

SetEnded(n) ==
    /\ pc[n] = "end"
    /\ mState' = [mState EXCEPT ![n] = "ended"]
    /\ Goto(n, "unlinkConsumers")
    /\ UNCHANGED << mStop, linked, queues, offers, sent >>

UnlinkConsumer(n, c) ==
    /\ pc[n] = "unlinkConsumers" /\ c \in Consumers(n) /\ ~ProvidersLocked(c)
    /\ linked' = [linked EXCEPT ![c] = FALSE]
    /\ UNCHANGED << pc, mStop, mState, queues, offers, sent >>

EndProviderCleanup(n) ==
    /\ pc[n] = "unlinkConsumers" /\ Consumers(n) = {}
    /\ Goto(n, IF Kind[n] = "source" THEN "ended" ELSE "unlinkProvider")
    /\ UNCHANGED << mStop, mState, linked, queues, offers, sent >>

UnlinkProvider(n) ==
    /\ pc[n] = "unlinkProvider"
    /\ linked[n] => ~ConsumersLocked(ProviderOf[n])
    /\ linked' = [linked EXCEPT ![n] = FALSE]
    /\ Goto(n, "clearQueue")
    /\ UNCHANGED << mStop, mState, queues, offers, sent >>

ClearQueue(n) ==
    /\ pc[n] = "clearQueue"
    /\ mFrameQueue' = [mFrameQueue EXCEPT ![n] = << >>]
    /\ delayQueue' = [delayQueue EXCEPT ![n] = << >>]
    /\ Goto(n, "ended")
    /\ UNCHANGED << mStop, mState, linked, position, accepted, offers, sent >>

-----------------------------------------------------------------------------

Loop(n) ==
    \/ WaitReady(n) \/ WaitWait(n) \/ ClearAndRetry(n)
    \/ ExitLoop(n)  \/ LockQueue(n) \/ RelayNext(n) \/ EncodeFirst(n) \/ ClearBatch(n)
    \/ TakeOne(n)   \/ TakeNone(n)  \/ TakeAll(n)   \/ CheckProviders(n)
    \/ EndOffer(n)  \/ EndDistribute(n)
    \/ SetEnded(n)  \/ EndProviderCleanup(n) \/ UnlinkProvider(n) \/ ClearQueue(n)
    \/ \E c \in Node : QueueFrame(n, c) \/ DropBad(n, c) \/ UnlinkConsumer(n, c)

Next == \E n \in Node : Loop(n) \/ Capture(n) \/ ReleaseOld(n) \/ KeepYoung(n) \/ Stop(n)

Spec == Init /\ [][Next]_vars

\* Every thread runs; a mutex that a component waits for is held for a number of
\* steps that the captured frames bound; every delayed frame gets old enough.
\* Nothing makes a source capture another frame or end.
FairSpec ==
    /\ Spec
    /\ \A n \in Node : WF_vars(Loop(n))
    /\ \A n \in {m \in Node : Kind[m] = "delay"} : WF_vars(KeepYoung(n)) /\ SF_vars(ReleaseOld(n))

-----------------------------------------------------------------------------
(* Properties *)

FrameSeq == [Node -> Seq(Frame)]

\* Every variable stays in its type, and no queue is longer than its limit.
TypeOK ==
    /\ pc \in [Node -> Label]
    /\ mStop \in [Node -> BOOLEAN]
    /\ mState \in [Node -> {"wait", "ready", "ended"}]
    /\ linked \in [Node -> BOOLEAN]
    /\ mFrameQueue \in FrameSeq /\ \A n \in Node : Len(mFrameQueue[n]) <= MaxQueueSize
    /\ position \in [Node -> Nat] /\ \A n \in Node : position[n] <= Len(mFrameQueue[n])
    /\ delayQueue \in FrameSeq
    /\ current \in [Node -> Frame \cup {None}]
    /\ todo \in [Node -> SUBSET Node] /\ bad \in [Node -> SUBSET Node]
    /\ accepted \in FrameSeq /\ sent \in FrameSeq

\* Between the last time it was seen waiting and the moment it is dropped or
\* leaves, a consumer is given every frame its provider distributes: what it
\* accepted is an unbroken run of what the provider sent, and the run reaches
\* the newest frame as long as the link stands.  A consumer with a full queue
\* is therefore never skipped and fed again (ozFeedProvider.cpp:207-227,
\* ozFeedConsumer.cpp:219-234).
NoGaps ==
    \A c \in {n \in Node : ProviderOf[n] # None} :
        LET p       == ProviderOf[c]
            offered == Len(sent[p]) - (IF c \in todo[p] THEN 1 ELSE 0)
            len     == Len(accepted[c])
        IN  \E i \in 0..(offered - len) :
                /\ accepted[c] = SubSeq(sent[p], i + 1, i + len)
                /\ linked[c] /\ c \notin bad[p] => i + len = offered

\* No component sends a frame twice, out of order, or one it did not accept,
\* whatever its run loop skips (the loops of ozVideoFilter.cpp:70-81,
\* ozJpegEncoder.cpp:124-182, ozRateLimiter.cpp:87-112, ozDelayBuffer.cpp:39-68).
SentInOrder ==
    \A n \in Node :
        /\ \A i, j \in 1..Len(sent[n]) : i < j => sent[n][i] < sent[n][j]
        /\ Kind[n] # "source" =>
            \A i \in 1..Len(sent[n]) : \E j \in 1..Len(accepted[n]) : sent[n][i] = accepted[n][j]

\* The variables stay in their types, a consumer gets an unbroken run of its provider's frames and
\* passes on none but these (ozFeedProvider.cpp:207-227, the run loops).
FramesPassOn == TypeOK /\ NoGaps /\ SentInOrder

\* The batch and delay loops pass on everything they accept, in order, as long
\* as they run.
RelayNode == {n \in Node : Kind[n] \in {"batch", "delay"}}
InLoopStill(n) ==
    ~mStop[n] /\ pc[n] \notin {"end", "unlinkConsumers", "unlinkProvider", "clearQueue", "ended"}

Relays == INSTANCE FrameRelay WITH
    Relay    <- RelayNode,
    accepted <- [n \in RelayNode |-> accepted[n]],
    relayed  <- [n \in RelayNode |-> sent[n]],
    open     <- [n \in RelayNode |-> InLoopStill(n)]
RelaysFrames == Relays!FairSpec

\* When a component has ended, which it then stays, every component it feeds,
\* directly or through others, leaves its loop and ends too: setEnded comes before
\* the first mutex of the cleanup, and checkProviders is called in every round.
EndCascades ==
    \A n \in Node : ProviderOf[n] # None =>
        []<>(mState[ProviderOf[n]] # "ended" \/ mState[n] = "ended")

\* When the sources have ended, every thread ends: the application "then waits
\* for them to terminate" (lifecycle.rst:47).
PipelineTerminates ==
    (\A n \in Node : Kind[n] = "source" => mState[n] = "ended")
        ~> (\A n \in Node : pc[n] = "ended")
=============================================================================
