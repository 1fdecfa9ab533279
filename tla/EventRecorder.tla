---------------------------- MODULE EventRecorder ----------------------------
(***************************************************************************)
(* EventRecorder and VideoRecorder: each frame that says whether there is  *)
(* motion moves the recorder between IDLE, ALARM and ALERT.  An alarm in   *)
(* IDLE begins an event: a notification, and the frames of the last        *)
(* seconds, which the recorder stores.  An event goes on until it has been *)
(* quiet long enough.  The time of the last alarm is a function's static   *)
(* variable: all the recorders of the process share it.                    *)
(*                                                                         *)
(* Abstracted: time is in ticks; a component upstream captures one frame a *)
(* tick at most and the recorder handles it then or later, in order; what  *)
(* is written to disk is the sequence of the frames of the event; the      *)
(* clock stands still while a frame is handled, so that the unprotected    *)
(* accesses to the static variable within processFrame cannot disagree.    *)
(***************************************************************************)
EXTENDS Integers, Sequences

CONSTANTS
    Recorder,               \* the recorders of the process
    MAX_EVENT_HEAD_AGE,     \* ticks of video before the event to save
    MAX_EVENT_TAIL_AGE,     \* ticks of video after it
    mMinTime,               \* the shortest recording
    MaxTime,                \* bound: the clock stops
    MaxQueue                \* bound: frames waiting for a recorder

ASSUME AgeAssumption ==
    /\ MAX_EVENT_HEAD_AGE \in Nat /\ MAX_EVENT_TAIL_AGE \in Nat
    /\ mMinTime \in Nat /\ MaxTime \in Nat \ {0} /\ MaxQueue \in Nat

VARIABLES
    now,            \* time64()
    mLastAlarmTime, \* static: shared by all recorders
    mFrameQueue,    \* [Recorder -> Seq of frames]
    mState,         \* [Recorder -> alarm state]
    mAlarmTime,     \* [Recorder -> when its event began]
    mEventCount,    \* [Recorder -> Nat]
    mFrameStore,    \* [Recorder -> Seq of frame times]
    saved,          \* [Recorder -> Seq of frame times], the files of the event
    notified,       \* [Recorder -> Seq of notifications]
    captured,       \* [Recorder -> time of the last frame captured for it]
    handled,        \* history: [Recorder -> Seq of times of the alarm frames handled]
    ownAlarm        \* history: [Recorder -> when it last handled an alarm]

event == << mState, mAlarmTime, mEventCount, mFrameStore, saved, notified >>
vars  == << now, mLastAlarmTime, mFrameQueue, event, captured, handled, ownAlarm >>

\* "other" is a frame that carries no alarm information at all.
FrameKind == { "alarmed", "quiet", "other" }
Time      == 0..MaxTime

Init ==
    /\ now            = 1
    /\ mLastAlarmTime = 0
    /\ mFrameQueue    = [r \in Recorder |-> << >>]
    /\ mState         = [r \in Recorder |-> "IDLE"]
    /\ mAlarmTime     = [r \in Recorder |-> 0]
    /\ mEventCount    = [r \in Recorder |-> 0]
    /\ mFrameStore    = [r \in Recorder |-> << >>]
    /\ saved          = [r \in Recorder |-> << >>]
    /\ notified       = [r \in Recorder |-> << >>]
    /\ captured       = [r \in Recorder |-> 0]
    /\ handled        = [r \in Recorder |-> << >>]
    /\ ownAlarm       = [r \in Recorder |-> 0]

-----------------------------------------------------------------------------

Tick ==
    /\ now < MaxTime
    /\ now' = now + 1
    /\ UNCHANGED << mLastAlarmTime, mFrameQueue, event, captured, handled, ownAlarm >>

Capture(r, kind) ==
    /\ captured[r] < now
    /\ Len(mFrameQueue[r]) < MaxQueue
    /\ captured' = [captured EXCEPT ![r] = now]
    /\ mFrameQueue' = [mFrameQueue EXCEPT ![r] = Append(@, [kind |-> kind, time |-> now])]
    /\ UNCHANGED << now, mLastAlarmTime, event, handled, ownAlarm >>

Notice(r, stage, n) == Append(notified[r], << stage, n >>)

\* Mutant: the frame is stored before an event can begin with it.
StoreFirst(r, time) ==
    mFrameStore' = [mFrameStore EXCEPT ![r] =
        SelectSeq(Append(@, time), LAMBDA t : now - t < MAX_EVENT_HEAD_AGE)]

\* Frames too old for the head of an event are dropped from the store from the
\* front on, up to the first that is not, then the new one is added.
Store(r, time) == LET stored == mFrameStore[r] IN
    \E first \in 1 .. Len(stored) + 1 :
        /\ \A i \in 1 .. first - 1 : now - stored[i] > MAX_EVENT_HEAD_AGE
        /\ first <= Len(stored) => now - stored[first] <= MAX_EVENT_HEAD_AGE
        /\ mFrameStore' = [mFrameStore EXCEPT ![r] = Append(SubSeq(stored, first, Len(stored)), time)]

Handle(r, kind) ==
    /\ mFrameQueue[r] # << >>
    /\ Head(mFrameQueue[r]).kind = kind
    /\ mFrameQueue' = [mFrameQueue EXCEPT ![r] = Tail(@)]
    /\ UNCHANGED << now, captured >>

HandleAlarmFrame(r, kind) == LET time == Head(mFrameQueue[r]).time IN
    /\ Handle(r, kind)
    /\ Store(r, time)
    /\ handled' = [handled EXCEPT ![r] = Append(@, time)]

Ignore(r) ==
    /\ Handle(r, "other")
    /\ UNCHANGED << mLastAlarmTime, event, handled, ownAlarm >>

Alarm(r) ==
    /\ HandleAlarmFrame(r, "alarmed")
    /\ mState' = [mState EXCEPT ![r] = "ALARM"]
    /\ mLastAlarmTime' = now
    /\ ownAlarm' = [ownAlarm EXCEPT ![r] = now]

\* An alarm in IDLE begins an event with the stored frames and this one.
BeginEvent(r) ==
    /\ mState[r] = "IDLE"
    /\ Alarm(r)
    /\ mAlarmTime' = [mAlarmTime EXCEPT ![r] = now]
    /\ mEventCount' = [mEventCount EXCEPT ![r] = @ + 1]
    /\ notified' = [notified EXCEPT ![r] = Notice(r, "BEGIN", mEventCount[r] + 1)]
    /\ saved' = [saved EXCEPT ![r] = Append(mFrameStore[r], Head(mFrameQueue[r]).time)]

ContinueEvent(r) ==
    /\ mState[r] # "IDLE"
    /\ Alarm(r)
    /\ saved' = [saved EXCEPT ![r] = Append(@, Head(mFrameQueue[r]).time)]
    /\ UNCHANGED << mAlarmTime, mEventCount, notified >>

\* The tests that close an event: the frame is more than the tail after the last
\* alarm, and from the first alarm to the last it was long enough.
TailOver(r)   == mLastAlarmTime - Head(mFrameQueue[r]).time < -MAX_EVENT_TAIL_AGE
LongEnough(r) == mLastAlarmTime - mAlarmTime[r] >= mMinTime

\* Mutant: one of the two tests is enough.
ClosesEither(r) == TailOver(r) \/ LongEnough(r)

Closes(r) == TailOver(r) /\ LongEnough(r)

QuietIdle(r) ==
    /\ mState[r] = "IDLE"
    /\ HandleAlarmFrame(r, "quiet")
    /\ UNCHANGED << mLastAlarmTime, mState, mAlarmTime, mEventCount, saved, notified, ownAlarm >>

\* A quiet frame in an event: the event is in ALERT and the frame is saved ...
QuietGoesOn(r) ==
    /\ mState[r] # "IDLE"
    /\ HandleAlarmFrame(r, "quiet")
    /\ ~Closes(r)
    /\ mState' = [mState EXCEPT ![r] = "ALERT"]
    /\ saved' = [saved EXCEPT ![r] = Append(@, Head(mFrameQueue[r]).time)]
    /\ UNCHANGED << mLastAlarmTime, mAlarmTime, mEventCount, notified, ownAlarm >>

\* ... or it closes the event and is not.
QuietCloses(r) ==
    /\ mState[r] # "IDLE"
    /\ HandleAlarmFrame(r, "quiet")
    /\ Closes(r)
    /\ mState' = [mState EXCEPT ![r] = "IDLE"]
    /\ notified' = [notified EXCEPT ![r] = Notice(r, "COMPLETE", mEventCount[r])]
    /\ saved' = [saved EXCEPT ![r] = << >>]
    /\ UNCHANGED << mLastAlarmTime, mAlarmTime, mEventCount, ownAlarm >>

ProcessFrame(r) ==
    \/ Ignore(r)    \/ BeginEvent(r)  \/ ContinueEvent(r)
    \/ QuietIdle(r) \/ QuietGoesOn(r) \/ QuietCloses(r)

Next ==
    \/ Tick
    \/ \E r \in Recorder : ProcessFrame(r) \/ \E kind \in FrameKind : Capture(r, kind)

Spec == Init /\ [][Next]_vars

-----------------------------------------------------------------------------
(* Properties *)

FrameTimes == [Recorder -> Seq(Time)]

\* Every variable stays in its type.
TypeOK ==
    /\ now \in Time /\ mLastAlarmTime \in Time
    /\ mFrameQueue \in [Recorder -> Seq([kind : FrameKind, time : Time])]
    /\ mState \in [Recorder -> {"IDLE", "ALARM", "ALERT"}]
    /\ mAlarmTime \in [Recorder -> Time]
    /\ mEventCount \in [Recorder -> Nat]
    /\ mFrameStore \in FrameTimes /\ saved \in FrameTimes /\ handled \in FrameTimes
    /\ notified \in [Recorder -> Seq({"BEGIN", "COMPLETE"} \X Nat)]
    /\ captured \in [Recorder -> Time] /\ ownAlarm \in [Recorder -> Time]

\* Whoever follows the notifications sees the events one after the other, each
\* begun and completed with its own number, and one open just while the recorder
\* is not idle (ozEventRecorder.cpp:63-107).
EventsAreNotified ==
    \A r \in Recorder :
        /\ Len(notified[r]) = 2 * mEventCount[r] - (IF mState[r] = "IDLE" THEN 0 ELSE 1)
        /\ \A i \in 1..Len(notified[r]) :
            notified[r][i] = << IF i % 2 = 1 THEN "BEGIN" ELSE "COMPLETE", (i + 1) \div 2 >>

\* An open event has every frame since MAX_EVENT_HEAD_AGE before its alarm, once
\* and in order: what is saved is an unbroken run of what the recorder handled,
\* up to the last frame, and it begins early enough (ozEventRecorder.cpp:76-93,112-139).
EventIsComplete ==
    \A r \in Recorder : mState[r] # "IDLE" =>
        \E first \in 1..Len(handled[r]) :
            /\ saved[r] = SubSeq(handled[r], first, Len(handled[r]))
            /\ first > 1 => handled[r][first - 1] < mAlarmTime[r] - MAX_EVENT_HEAD_AGE

\* An event is closed only by a frame that is more than the tail after the last
\* alarm the recorder itself handled, and not before the shortest recording is
\* over, though other recorders move the time of the last alarm.
ClosesAfterTail ==
    [][ \A r \in Recorder : mState[r] # "IDLE" /\ mState'[r] = "IDLE" =>
            /\ Head(mFrameQueue[r]).time > ownAlarm[r] + MAX_EVENT_TAIL_AGE
            /\ now - mAlarmTime[r] >= mMinTime ]_vars

\* An event that is over is closed: MAX_EVENT_TAIL_AGE is the "Number of seconds
\* of video after event to save" (ozEventRecorder.h:26), minTime the "Minimum
\* amount of time (in seconds) to record after an alarm is triggered"
\* (ozEventRecorder.h:51); a frame later than both is not saved any more.
ClosesInTime ==
    \A r \in Recorder : mState[r] = "ALERT" =>
        \/ saved[r][Len(saved[r])] <= ownAlarm[r] + MAX_EVENT_TAIL_AGE
        \/ saved[r][Len(saved[r])] <= mAlarmTime[r] + mMinTime

\* The variables stay in their types, an open event has all its frames and each event is
\* announced and completed once (ozEventRecorder.cpp:63-139).
EventsAreWhole == TypeOK /\ EventIsComplete /\ EventsAreNotified
=============================================================================
