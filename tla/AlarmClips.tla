------------------------------ MODULE AlarmClips ------------------------------
(***************************************************************************)
(* Mp4FileOutput: the frames of a motion detector say when there is an     *)
(* alarm, the encoded frames of a camera go into a file as they are.  A    *)
(* file can only begin and end where a key frame comes.                    *)
(*                                                                         *)
(* Abstracted: an encoded frame is its place in `seen', the history of     *)
(* what was handled, and whether it holds an IDR slice; time is in ticks,  *)
(* a frame has the time of its capture, an alarm that of its handling.     *)
(***************************************************************************)
EXTENDS Integers, Sequences, FiniteSets, SequencesExt, FiniteSetsExt

CONSTANTS
    MAX_CLIP_TAIL_AGE, \* ticks of video after the alarm
    MaxClipTime,            \* bound: the clock stops
    MaxSeen,            \* bound: frames handled
    MaxClipQueue           \* bound: frames waiting

ASSUME ClipAssumption == {MAX_CLIP_TAIL_AGE, MaxClipTime, MaxSeen, MaxClipQueue} \subseteq Nat

VARIABLES
    clipTime,            \* time64()
    clipQueue,    \* frames: [what, time]
    alarmState, alarmTime,
    eventCount,     \* the pictures written of events
    videoFrameCount,
    outputContext,  \* whether a file is open
    clips,          \* [place in seen, pts] of the packets of each file
    seen,           \* history: what was handled: [what, time, at], at is when
    running         \* the loop goes on

clipVars == << clipTime, clipQueue, alarmState, alarmTime, eventCount, videoFrameCount, outputContext, clips, seen, running >>

\* Frames of the motion detector, and encoded frames.
Motion == {"alarmed", "quiet"}
Coded == {"key", "delta"}

ClipInit ==
    /\ clipTime = 1 /\ clipQueue = << >>
    /\ alarmState = "IDLE" /\ alarmTime = 0 /\ eventCount = 0 /\ videoFrameCount = 0
    /\ outputContext = FALSE /\ clips = << >>
    /\ seen = << >> /\ running = TRUE

-----------------------------------------------------------------------------

ClipTick ==
    /\ clipTime < MaxClipTime /\ clipTime' = clipTime + 1
    /\ UNCHANGED << clipQueue, alarmState, alarmTime, eventCount, videoFrameCount, outputContext, clips, seen, running >>

queueClipFrame(what) ==
    /\ Len(clipQueue) < MaxClipQueue /\ Len(seen) + Len(clipQueue) < MaxSeen
    /\ clipQueue' = Append(clipQueue, [what |-> what, time |-> clipTime])
    /\ UNCHANGED << clipTime, alarmState, alarmTime, eventCount, videoFrameCount, outputContext, clips, seen, running >>

Handles(what) ==
    /\ running /\ clipQueue # << >> /\ Head(clipQueue).what \in what
    /\ clipQueue' = Tail(clipQueue)
    /\ seen' = Append(seen, [what |-> Head(clipQueue).what, time |-> Head(clipQueue).time, at |-> clipTime])
    /\ UNCHANGED << clipTime, running >>

\* The state after a quiet frame of that time.
StateAfter(time) ==
    CASE alarmState = "ALARM" -> "ALERT"
      [] alarmState = "ALERT" -> IF time - alarmTime > MAX_CLIP_TAIL_AGE THEN "IDLE" ELSE "ALERT"
      [] OTHER -> "IDLE"

Alarmed ==
    /\ Handles({"alarmed"})
    /\ alarmState' = "ALARM" /\ alarmTime' = clipTime
    /\ eventCount' = IF alarmState = "IDLE" THEN eventCount + 1 ELSE eventCount
    /\ UNCHANGED << videoFrameCount, outputContext, clips >>

Quietened ==
    /\ Handles({"quiet"})
    /\ alarmState' = StateAfter(Head(clipQueue).time)
    /\ UNCHANGED << alarmTime, eventCount, videoFrameCount, outputContext, clips >>

\* Mutant: a file is closed as soon as the alarm is over.
OpenAfterAnyFrame(what) == alarmState # "IDLE" /\ (what = "key" \/ outputContext)

\* Whether a file is open when the frame is written: only a key frame opens or closes one.
OpenAfter(what) == IF what = "key" THEN alarmState # "IDLE" ELSE outputContext

\* A file with its header and no packets.
openFile == Append(clips, << >>)

\* The packet, into the file that is open then.
Written ==
    /\ Handles(Coded)
    /\ LET what == Head(clipQueue).what
           open == OpenAfter(what)
           opens == open /\ ~outputContext
           count == IF opens THEN 0 ELSE videoFrameCount
           into == IF opens THEN openFile ELSE clips
       IN  /\ outputContext' = open
           /\ videoFrameCount' = count + 1
           /\ clips' = IF open
                       THEN [into EXCEPT ![Len(into)] = Append(@, [place |-> Len(seen) + 1, pts |-> count])]
                       ELSE clips
    /\ UNCHANGED << alarmState, alarmTime, eventCount >>

\* mStop between two batches; the file that is open is closed.
StopClips ==
    /\ running /\ running' = FALSE /\ outputContext' = FALSE
    /\ UNCHANGED << clipTime, clipQueue, alarmState, alarmTime, eventCount, videoFrameCount, clips, seen >>

ClipNext ==
    \/ ClipTick
    \/ \E what \in Motion \cup Coded : queueClipFrame(what)
    \/ Alarmed \/ Quietened \/ Written \/ StopClips

ClipSpec == ClipInit /\ [][ClipNext]_clipVars

-----------------------------------------------------------------------------

\* An alarm that was handled before place p still counts there: at each quiet frame after it, but
\* the first, the tail was not over.
Counts(p) ==
    \E a \in 1 .. p - 1 :
        /\ seen[a].what = "alarmed"
        /\ LET quiet == { q \in a + 1 .. p - 1 : seen[q].what = "quiet" }
               again == { b \in a + 1 .. p - 1 : seen[b].what = "alarmed" }
           IN  again = {} /\ \A q \in quiet : q = Min(quiet) \/ seen[q].time - seen[a].at <= MAX_CLIP_TAIL_AGE

\* The groups of pictures are kept whole or not at all, and one is kept if and only if an alarm
\* still counted when its key frame came; the files begin with a key frame, are contiguous, and
\* have time stamps that count from 0 (ozMp4FileOutput.cpp:154-187, 209-253).
GroupsAreKept ==
    LET kept == UNION { { clips[c][i].place : i \in DOMAIN clips[c] } : c \in DOMAIN clips }
        coded == { p \in DOMAIN seen : seen[p].what \in Coded }
        keys == { p \in coded : seen[p].what = "key" }
        Before(p) == { k \in keys : k <= p }
    IN  /\ \A p \in coded : p \in kept <=> Before(p) # {} /\ Counts(Max(Before(p)))
        /\ \A c \in DOMAIN clips :
               /\ clips[c][1].place \in keys
               /\ \A i \in DOMAIN clips[c] :
                      /\ clips[c][i].pts = i - 1
                      /\ i > 1 => \A p \in coded : p <= clips[c][i - 1].place \/ p >= clips[c][i].place

-----------------------------------------------------------------------------
(* The inductive invariant behind GroupsAreKept *)

Handled == [what : Motion \cup Coded, time : Int, at : Int]
Packet == [place : Int, pts : Int]

ClipsTyped ==
    /\ seen \in Seq(Handled) /\ clipQueue \in Seq([what : Motion \cup Coded, time : Int])
    /\ clipTime \in Int /\ alarmTime \in Int /\ alarmState \in {"IDLE", "ALARM", "ALERT"}
    /\ outputContext \in BOOLEAN /\ videoFrameCount \in Int /\ running \in BOOLEAN
    /\ clips \in Seq(Seq(Packet))

LastAlarm(a) == seen[a].what = "alarmed" /\ \A b \in a + 1 .. Len(seen) : seen[b].what # "alarmed"

FirstQuiet(a, q) == seen[q].what = "quiet" /\ \A r \in a + 1 .. q - 1 : seen[r].what # "quiet"

InTail(a, first) ==
    \A q \in first + 1 .. Len(seen) : seen[q].what = "quiet" => seen[q].time - seen[a].at <= MAX_CLIP_TAIL_AGE

\* The state follows from the last alarm and the quiet frames after it.
StateFollows ==
    \/ alarmState = "IDLE" /\ \A a \in 1 .. Len(seen) : seen[a].what # "alarmed"
    \/ \E a \in 1 .. Len(seen) :
           /\ LastAlarm(a) /\ alarmTime = seen[a].at
           /\ \/ alarmState = "ALARM" /\ \A q \in a + 1 .. Len(seen) : seen[q].what # "quiet"
              \/ \E first \in a + 1 .. Len(seen) :
                     FirstQuiet(a, first) /\ alarmState = IF InTail(a, first) THEN "ALERT" ELSE "IDLE"

IsCoded(p) == seen[p].what \in Coded

LastKey(p, k) == seen[k].what = "key" /\ \A m \in k + 1 .. p : seen[m].what # "key"

\* If there is a key frame up to a place, there is a last one.
KeysHaveLast ==
    \A p \in 1 .. Len(seen) : \A k \in 1 .. p : seen[k].what = "key" => \E l \in 1 .. p : LastKey(p, l)

\* Whether the group that place p is in is one to keep.
ToKeep(p) == \E k \in 1 .. p : LastKey(p, k) /\ Counts(k)

Kept(p) == \E c \in 1 .. Len(clips) : \E i \in 1 .. Len(clips[c]) : clips[c][i].place = p

FileFits(c) ==
    /\ Len(clips[c]) > 0 /\ seen[clips[c][1].place].what = "key"
    /\ \A i \in 1 .. Len(clips[c]) :
           /\ clips[c][i].pts = i - 1 /\ clips[c][i].place \in 1 .. Len(seen) /\ IsCoded(clips[c][i].place)
           /\ i > 1 => \A p \in 1 .. Len(seen) : IsCoded(p) => p <= clips[c][i - 1].place \/ p >= clips[c][i].place

\* The file that is open ends with the last frame that was written.
OpenIsCurrent ==
    LET n == Len(clips)
        f == Len(clips[n])
    IN  n > 0 /\ videoFrameCount = f /\ \A p \in 1 .. Len(seen) : IsCoded(p) => p <= clips[n][f].place

\* The inductive invariant (ozMp4FileOutput.cpp:154-253).
ClipsInv ==
    /\ ClipsTyped /\ StateFollows /\ KeysHaveLast
    /\ running => (outputContext <=> ToKeep(Len(seen)))
    /\ outputContext => OpenIsCurrent
    /\ \A p \in 1 .. Len(seen) : IsCoded(p) => (Kept(p) <=> ToKeep(p))
    /\ \A c \in 1 .. Len(clips) : FileFits(c)
=============================================================================
