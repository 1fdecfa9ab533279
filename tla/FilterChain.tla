----------------------------- MODULE FilterChain ------------------------------
(***************************************************************************)
(* Video filters in a row: ImageConvert, ImageScale, ImageTimestamper,     *)
(* SignalChecker and QueuedVideoFilter, each a thread that reads what its  *)
(* provider declares when the provider is ready and from then on reads     *)
(* every frame's bytes as that.  What a filter declares of its own frames  *)
(* it mostly asks its provider for, which asks its own, up to the source:  *)
(* at each new frame, and with an exception that nobody catches where the  *)
(* provider has left meanwhile.                                            *)
(*                                                                         *)
(* Abstracted: heights (as widths), the pictures, the limits of queues;    *)
(* the links are those of FeedLinks, one step a call.                      *)
(***************************************************************************)
EXTENDS Integers, Sequences

CONSTANTS
    Chains,         \* the rows of filters, from the source on; bound: four of them
    Pictures,       \* what a source may supply: [format, width]
    Target,         \* what ImageConvert makes: [format, width]
    MaxFrames       \* bound: frames captured

Filters == {"convert", "scale", "stamp", "check", "video"}

Nothing == [format |-> "none", width |-> 0]

Format == { p.format : p \in Pictures \cup {Target} } \cup {"yuv444", Nothing.format}
Picture == [format : Format, width : Nat]

ASSUME ChainAssumption ==
    /\ \A c \in Chains : c \in Seq(Filters) /\ Len(c) \in 1 .. 4
    /\ \A p \in Pictures \cup {Target} : p \in Picture /\ p.format # Nothing.format
    /\ MaxFrames \in Nat

\* ImageScale( 1/2 ).
mScale(width) == width \div 2
\* Image::getNativePixelFormat
Native(format) == IF format = "yuv420" THEN "yuv444" ELSE format

VARIABLES
    chain,
    picture,        \* what the source supplies
    frames,         \* captured so far
    stage,          \* where the threads are; 0 is the source
    nodeState,
    linked,         \* filter n has its provider in its map, and the provider has it
    declared,       \* what filter n has read of its provider
    mScaleWidth,    \* ImageScale's own
    waiting,        \* the frame queues
    busy,           \* a thread holds its mQueueMutex
    died

fixed == << chain, picture >>
chainVars == << fixed, frames, stage, nodeState, linked, declared, mScaleWidth, waiting, busy, died >>

Nodes == 0 .. Len(chain)
Filter == 1 .. Len(chain)

ChainInit ==
    /\ chain \in Chains /\ picture \in Pictures
    /\ frames = 0
    /\ stage = [n \in Nodes |-> IF n = 0 THEN "loop" ELSE "wait"]
    /\ nodeState = [n \in Nodes |-> "wait"]
    /\ linked = [n \in Filter |-> TRUE]
    /\ declared = [n \in Filter |-> Nothing]
    /\ mScaleWidth = [n \in Filter |-> 0]
    /\ waiting = [n \in Filter |-> << >>]
    /\ busy = [n \in Filter |-> FALSE]
    /\ died = FALSE

\* width() and pixelFormat() of a filter, of whose provider they are `asked'; Nothing stands
\* for the exception.
Answers(n, asked) ==
    IF chain[n] = "convert" THEN Target
    ELSE IF ~linked[n] \/ asked = Nothing THEN Nothing
    ELSE CASE chain[n] = "scale" -> [asked EXCEPT !.width = mScaleWidth[n]]
           [] chain[n] = "stamp" -> [asked EXCEPT !.format = Native(@)]
           [] OTHER              -> asked

Declares[n \in 0 .. 4] ==
    IF n = 0 THEN picture ELSE IF n \notin Nodes THEN Nothing ELSE Answers(n, Declares[n - 1])

-----------------------------------------------------------------------------

Goto(n, s) == stage' = [stage EXCEPT ![n] = s]

\* distributeFrame: ready, and queued with the filter behind.
Distribute(n, frame) ==
    /\ nodeState' = [nodeState EXCEPT ![n] = IF @ = "wait" THEN "ready" ELSE @]
    /\ LET to == { m \in Filter : m = n + 1 /\ linked[m] }
       IN  /\ \A m \in to : ~busy[m]
           /\ waiting' = [m \in Filter |->
                IF m \in to THEN Append(waiting[m], frame)
                ELSE IF m = n THEN Tail(waiting[m]) ELSE waiting[m]]

Capture ==
    /\ stage[0] = "loop" /\ frames < MaxFrames
    /\ frames' = frames + 1
    /\ Distribute(0, [holds |-> picture, declared |-> picture, time |-> frames, originator |-> 0])
    /\ UNCHANGED << fixed, stage, linked, declared, mScaleWidth, busy, died >>

SourceEnds ==
    /\ stage[0] = "loop"
    /\ Goto(0, "unlink")
    /\ nodeState' = [nodeState EXCEPT ![0] = "ended"]
    /\ UNCHANGED << fixed, frames, linked, declared, mScaleWidth, waiting, busy, died >>

\* Mutant: the wait is over if nothing is wrong.
PassesUnlessBad(n) == linked[n] /\ nodeState[n - 1] \in {"wait", "ready"}

\* waitForProviders, of one provider.
Passes(n) == linked[n] /\ nodeState[n - 1] = "ready"

\* The provider is not ready: the queue is emptied, and the thread asks again.
WaitOn(n) ==
    /\ stage[n] = "wait" /\ ~Passes(n)
    /\ linked[n] /\ nodeState[n - 1] = "wait"
    /\ waiting[n] # << >>
    /\ waiting' = [waiting EXCEPT ![n] = << >>]
    /\ UNCHANGED << fixed, frames, stage, nodeState, linked, declared, mScaleWidth, busy, died >>

WaitPasses(n) ==
    /\ stage[n] = "wait" /\ Passes(n)
    /\ Goto(n, "read")
    /\ UNCHANGED << fixed, frames, nodeState, linked, declared, mScaleWidth, waiting, busy, died >>

\* Mutant: a filter cleans up only what it has set up.
ReturnsAtOnceAlways(kind) == TRUE

\* These two clean up only if the wait had passed.
ReturnsAtOnce(kind) == kind \in {"convert", "scale"}

WaitFails(n) ==
    /\ stage[n] = "wait"
    /\ ~linked[n] \/ nodeState[n - 1] = "ended"
    /\ Goto(n, IF ReturnsAtOnce(chain[n]) THEN "returned" ELSE "end")
    /\ UNCHANGED << fixed, frames, nodeState, linked, declared, mScaleWidth, waiting, busy, died >>

\* An exception ends the process, and this thread has its mutex locked if it is in its loop.
Crash ==
    /\ died' = TRUE
    /\ UNCHANGED << fixed, frames, stage, nodeState, linked, declared, mScaleWidth, waiting, busy >>

\* What the filter reads of its provider before its loop.
ReadProvider(n) ==
    /\ stage[n] = "read"
    /\ linked[n] /\ Declares[n - 1] # Nothing
    /\ declared' = [declared EXCEPT ![n] = Declares[n - 1]]
    /\ mScaleWidth' = [mScaleWidth EXCEPT ![n] = IF chain[n] = "scale" THEN mScale(Declares[n - 1].width) ELSE @]
    /\ Goto(n, "loop")
    /\ UNCHANGED << fixed, frames, nodeState, linked, waiting, busy, died >>

ReadThrows(n) ==
    /\ stage[n] = "read" /\ chain[n] # "video"
    /\ ~linked[n] \/ Declares[n - 1] = Nothing
    /\ Crash

\* QueuedVideoFilter reads nothing.
NoRead(n) ==
    /\ stage[n] = "read" /\ chain[n] = "video"
    /\ Goto(n, "loop")
    /\ UNCHANGED << fixed, frames, nodeState, linked, declared, mScaleWidth, waiting, busy, died >>

LockQueue(n) ==
    /\ n # 0 /\ stage[n] = "loop" /\ waiting[n] # << >>
    /\ busy' = [busy EXCEPT ![n] = TRUE]
    /\ Goto(n, "frames")
    /\ UNCHANGED << fixed, frames, nodeState, linked, declared, mScaleWidth, waiting, died >>

\* The filters that send a frame on as it is, if there is nothing to do.
AsIs(n) ==
    \/ chain[n] = "video"
    \/ chain[n] = "convert" /\ declared[n] = Target
    \/ chain[n] = "scale" /\ mScaleWidth[n] = declared[n].width

\* What the bytes of a new frame are.
Makes(n) ==
    CASE chain[n] = "convert" -> Target
      [] chain[n] = "scale"   -> [declared[n] EXCEPT !.width = mScaleWidth[n]]
      [] chain[n] = "stamp"   -> [declared[n] EXCEPT !.format = Native(@)]
      [] chain[n] = "check"   -> Head(waiting[n]).holds

SendAsIs(n) ==
    /\ stage[n] = "frames" /\ waiting[n] # << >> /\ AsIs(n)
    /\ Distribute(n, Head(waiting[n]))
    /\ UNCHANGED << fixed, frames, stage, linked, declared, mScaleWidth, busy, died >>

\* VideoFrame( this, parent, ... ): the time and the originator are the parent's.
NewFrame(n, parent, bytes) == [parent EXCEPT !.holds = bytes, !.declared = Declares[n]]

SendNew(n) ==
    /\ stage[n] = "frames" /\ waiting[n] # << >> /\ ~AsIs(n)
    /\ Declares[n] # Nothing
    /\ Distribute(n, NewFrame(n, Head(waiting[n]), Makes(n)))
    /\ UNCHANGED << fixed, frames, stage, linked, declared, mScaleWidth, busy, died >>

NewThrows(n) ==
    /\ stage[n] = "frames" /\ waiting[n] # << >> /\ ~AsIs(n)
    /\ Declares[n] = Nothing
    /\ Crash

UnlockQueue(n) ==
    /\ stage[n] = "frames" /\ waiting[n] = << >>
    /\ busy' = [busy EXCEPT ![n] = FALSE]
    /\ Goto(n, "check")
    /\ UNCHANGED << fixed, frames, nodeState, linked, declared, mScaleWidth, waiting, died >>

EmptyQueue(n) ==
    /\ n # 0 /\ stage[n] = "loop" /\ waiting[n] = << >>
    /\ Goto(n, "check")
    /\ UNCHANGED << fixed, frames, nodeState, linked, declared, mScaleWidth, waiting, busy, died >>

\* checkProviders, at the end of a round, may ask the thread to stop.
CheckProviders(n) ==
    /\ stage[n] = "check"
    /\ Goto(n, IF ~linked[n] \/ nodeState[n - 1] = "ended" THEN "end" ELSE "loop")
    /\ UNCHANGED << fixed, frames, nodeState, linked, declared, mScaleWidth, waiting, busy, died >>

\* FeedProvider::cleanup, in two steps, then FeedConsumer::cleanup.
EndNode(n) ==
    /\ stage[n] = "end"
    /\ nodeState' = [nodeState EXCEPT ![n] = "ended"]
    /\ Goto(n, "unlink")
    /\ UNCHANGED << fixed, frames, linked, declared, mScaleWidth, waiting, busy, died >>

Unlink(n) ==
    /\ stage[n] = "unlink"
    /\ linked' = [m \in Filter |-> linked[m] /\ m # n + 1]
    /\ Goto(n, IF n = 0 THEN "returned" ELSE "leave")
    /\ UNCHANGED << fixed, frames, nodeState, declared, mScaleWidth, waiting, busy, died >>

ReturnFrom(n) ==
    /\ stage[n] = "leave"
    /\ linked' = [linked EXCEPT ![n] = FALSE]
    /\ waiting' = [waiting EXCEPT ![n] = << >>]
    /\ Goto(n, "returned")
    /\ UNCHANGED << fixed, frames, nodeState, declared, mScaleWidth, busy, died >>

FilterStep(n) ==
    \/ WaitOn(n) \/ WaitPasses(n) \/ WaitFails(n) \/ ReadProvider(n) \/ ReadThrows(n) \/ NoRead(n)
    \/ LockQueue(n) \/ SendAsIs(n) \/ SendNew(n) \/ NewThrows(n) \/ UnlockQueue(n) \/ EmptyQueue(n)
    \/ CheckProviders(n) \/ EndNode(n) \/ ReturnFrom(n)

ThreadRuns(n) == ~died /\ ((n # 0 /\ FilterStep(n)) \/ Unlink(n))

ChainNext == ~died /\ (Capture \/ SourceEnds \/ \E n \in Nodes : (n # 0 /\ FilterStep(n)) \/ Unlink(n))

\* Every thread runs.  Nothing makes the source end or capture another frame.
ChainSpec == ChainInit /\ [][ChainNext]_chainVars /\ \A n \in 0 .. 4 : WF_chainVars(n \in Nodes /\ ThreadRuns(n))

-----------------------------------------------------------------------------
(* Properties *)

\* A filter in its loop finds in every frame on its queue the bytes it takes it to hold,
\* and they are what the frame declares; a frame that one reads wrongly is read past its
\* end.  A filter that nobody asks anything of (QueuedVideoFilter) has nothing to find.
\* An exception is thrown only where a provider has left (ozFeedConsumer.cpp:317-323).
FramesFit ==
    /\ \A n \in Filter :
        /\ \A i \in DOMAIN waiting[n] :
            LET f == waiting[n][i]
            IN  /\ f.originator = 0 /\ f.holds = f.declared
                /\ stage[n] \in {"loop", "frames", "check"} /\ chain[n] # "video" => f.holds = declared[n]
        /\ \A i, j \in DOMAIN waiting[n] : i < j => waiting[n][i].time < waiting[n][j].time
    /\ died => \E n \in Filter : ~linked[n]

\* When the source has ended every filter's thread returns, unless the process dies of
\* the exception or an ImageConvert or ImageScale returned without a cleanup, because
\* it never saw a frame: then the filters behind it wait for ever
\* (ozImageConvert.cpp:61-126, ozImageScale.cpp:65-134).
Deserted == \E n \in Filter :
    chain[n] \in {"convert", "scale"} /\ stage[n] = "returned" /\ nodeState[n] = "wait"
ChainEnds ==
    []<>(nodeState[0] # "ended" \/ died \/ Deserted \/ \A n \in Nodes : stage[n] = "returned")

-----------------------------------------------------------------------------
(* The inductive invariant behind FramesFit *)

SentFrame == [holds : Picture, declared : Picture, time : Nat, originator : {0}]
Inside == {"loop", "frames", "check"}

ChainTyped ==
    /\ chain \in Chains /\ picture \in Pictures /\ frames \in Nat
    /\ stage \in [Nodes -> Inside \cup {"wait", "read", "end", "unlink", "leave", "returned"}]
    /\ nodeState \in [Nodes -> {"wait", "ready", "ended"}]
    /\ linked \in [Filter -> BOOLEAN] /\ busy \in [Filter -> BOOLEAN] /\ died \in BOOLEAN
    /\ declared \in [Filter -> Picture] /\ mScaleWidth \in [Filter -> Nat]
    /\ waiting \in [Filter -> Seq(SentFrame)]

\* out[n] is what every frame that node n sends holds, from the first to the last of them.
Passed(n, p) ==
    CASE chain[n] = "convert" -> Target
      [] chain[n] = "scale"   -> [p EXCEPT !.width = mScale(p.width)]
      [] chain[n] = "stamp"   -> [p EXCEPT !.format = Native(p.format)]
      [] OTHER                -> p
IsOut(out) ==
    /\ out \in [Nodes -> Picture]
    /\ out[0] = picture /\ \A n \in Filter : out[n] = Passed(n, out[n - 1])
    /\ \A n \in Nodes : out[n].format # Nothing.format

\* A filter knows what it scales to once it has read its provider, and whoever has passed
\* the wait for it can rely on that.
Scales(n, out) == chain[n] = "scale" => mScaleWidth[n] = mScale(out[n - 1].width)
ScalesTo(n, out) == \A k \in Filter : k <= n => Scales(k, out)

ReadyScales(out) == \A n \in Nodes : nodeState[n] = "ready" => ScalesTo(n, out)
ReadersScale(out) == \A n \in Filter : stage[n] \in Inside \cup {"read"} => ScalesTo(n - 1, out)
HasRead(out) == \A n \in Filter : stage[n] \in Inside =>
    Scales(n, out) /\ (chain[n] # "video" => declared[n] = out[n - 1])

FramesHold(out) == \A n \in Filter : \A i \in DOMAIN waiting[n] :
    waiting[n][i].holds = out[n - 1] /\ waiting[n][i].declared = out[n - 1]

\* The frames further on are the older ones.
FramesInOrder == \A m \in Filter : \A i \in DOMAIN waiting[m] :
    /\ waiting[m][i].time < frames
    /\ \A j \in DOMAIN waiting[m] : i < j => waiting[m][i].time < waiting[m][j].time
    /\ \A n \in Filter : m < n => \A j \in DOMAIN waiting[n] : waiting[n][j].time < waiting[m][i].time

DiesOfAbsence == died => \E n \in Filter : ~linked[n]

\* The inductive invariant: there is one picture for every link of the chain (ozImageScale.cpp:65-134).
ChainInvOf(out) ==
    /\ ChainTyped /\ IsOut(out)
    /\ ReadyScales(out) /\ ReadersScale(out) /\ HasRead(out)
    /\ FramesHold(out) /\ FramesInOrder /\ DiesOfAbsence
=============================================================================
