-------------------------- MODULE Recording_proofs --------------------------
(***************************************************************************)
(* Proofs about the machines that put video together and keep it:          *)
(* EventRecorder, InitialFrames, MatrixTiles, AlarmClips and MovieFiles,   *)
(* for any recorders, clients and providers, any ages, times and lengths,  *)
(* any sizes of tiles, any latency of a codec and any number of frames.    *)
(***************************************************************************)
EXTENDS EventRecorder, InitialFrames, MatrixTiles, AlarmClips, MovieFiles, SequenceTheorems, FiniteSetTheorems, TLAPS

-----------------------------------------------------------------------------
(***************************************************************************)
(* EventRecorder.  Events are whole, announced and completed in turn, and  *)
(* not closed too early.                                                   *)
(***************************************************************************)

-----------------------------------------------------------------------------
(* The end of a sequence from a place on *)

From(s, first) == SubSeq(s, first, Len(s))

LEMMA FromProperties ==
    ASSUME NEW S, NEW s \in Seq(S), NEW first \in 1 .. Len(s) + 1
    PROVE  /\ From(s, first) \in Seq(S)
           /\ Len(From(s, first)) = Len(s) + 1 - first
           /\ \A i \in 1 .. Len(s) + 1 - first : From(s, first)[i] = s[first + i - 1]
<1>1. Len(s) \in Nat /\ \A i \in 1 .. Len(s) : s[i] \in S
    BY LenProperties, ElementOfSeq
<1>2. \A i \in first .. Len(s) : s[i] \in S
    BY <1>1
<1>3. first \in Int /\ Len(s) \in Int
    BY <1>1
<1>4. QED
    BY <1>1, <1>2, <1>3, SubSeqProperties DEF From

LEMMA FromAppend ==
    ASSUME NEW S, NEW s \in Seq(S), NEW e \in S, NEW first \in 1 .. Len(s) + 1
    PROVE  Append(From(s, first), e) = From(Append(s, e), first)
<1> DEFINE t == Append(s, e)
           a == Append(From(s, first), e)
           b == From(t, first)
<1>1. Len(s) \in Nat
    BY LenProperties
<1>2. t \in Seq(S) /\ Len(t) = Len(s) + 1 /\ t[Len(s) + 1] = e /\ \A i \in 1 .. Len(s) : t[i] = s[i]
    BY <1>1, AppendProperties
<1>3. From(s, first) \in Seq(S) /\ Len(From(s, first)) = Len(s) + 1 - first
          /\ \A i \in 1 .. Len(s) + 1 - first : From(s, first)[i] = s[first + i - 1]
    BY FromProperties
<1>4. a \in Seq(S) /\ Len(a) = Len(s) + 2 - first /\ a[Len(s) + 2 - first] = e
          /\ \A i \in 1 .. Len(s) + 1 - first : a[i] = From(s, first)[i]
    <2>1. a \in Seq(S) /\ Len(a) = Len(From(s, first)) + 1 /\ a[Len(From(s, first)) + 1] = e
              /\ \A i \in 1 .. Len(From(s, first)) : a[i] = From(s, first)[i]
        <3> DEFINE f == From(s, first)
        <3>1. f \in Seq(S)
            BY <1>3
        <3> HIDE DEF f
        <3>2. Append(f, e) \in Seq(S) /\ Len(Append(f, e)) = Len(f) + 1 /\ Append(f, e)[Len(f) + 1] = e
                  /\ \A i \in 1 .. Len(f) : Append(f, e)[i] = f[i]
            BY <3>1, AppendProperties
        <3>3. QED
            BY <3>2 DEF f
    <2>2. Len(From(s, first)) = Len(s) + 1 - first
        BY <1>3
    <2>3. Len(s) + 1 - first + 1 = Len(s) + 2 - first
        BY <1>1
    <2>4. QED
        BY <2>1, <2>2, <2>3
<1>5. first \in 1 .. Len(t) + 1
    BY <1>1, <1>2
<1> HIDE DEF t, a
<1>6. b \in Seq(S) /\ Len(b) = Len(t) + 1 - first
          /\ \A i \in 1 .. Len(t) + 1 - first : b[i] = t[first + i - 1]
    BY <1>2, <1>5, FromProperties
<1> HIDE DEF b
<1>7. ASSUME NEW i \in 1 .. Len(a) PROVE a[i] = b[i]
    <2>1. CASE i = Len(s) + 2 - first
        BY <1>1, <1>2, <1>4, <1>6, <2>1
    <2>2. CASE i < Len(s) + 2 - first
        <3>1. i \in 1 .. Len(s) + 1 - first /\ first + i - 1 \in 1 .. Len(s)
            BY <1>1, <1>4, <2>2
        <3>2. a[i] = s[first + i - 1]
            BY <1>3, <1>4, <3>1
        <3>3. i \in 1 .. Len(t) + 1 - first
            BY <1>1, <1>2, <3>1
        <3>4. b[i] = t[first + i - 1] /\ t[first + i - 1] = s[first + i - 1]
            BY <1>2, <1>6, <3>1, <3>3
        <3>5. QED
            BY <3>2, <3>4
    <2>3. QED
        BY <1>1, <1>4, <2>1, <2>2
<1>8. a = b
    BY <1>1, <1>2, <1>4, <1>6, <1>7, SeqEqual
<1>9. QED
    BY <1>8 DEF a, b, t

LEMMA FromFrom ==
    ASSUME NEW S, NEW s \in Seq(S), NEW first \in 1 .. Len(s) + 1,
           NEW next \in 1 .. Len(From(s, first)) + 1
    PROVE  /\ first + next - 1 \in 1 .. Len(s) + 1
           /\ From(From(s, first), next) = From(s, first + next - 1)
<1> DEFINE t == From(s, first)
           a == From(t, next)
           b == From(s, first + next - 1)
<1>1. Len(s) \in Nat
    BY LenProperties
<1>2. t \in Seq(S) /\ Len(t) = Len(s) + 1 - first /\ \A i \in 1 .. Len(s) + 1 - first : t[i] = s[first + i - 1]
    BY FromProperties
<1>3. first + next - 1 \in 1 .. Len(s) + 1
    BY <1>1, <1>2
<1>4. b \in Seq(S) /\ Len(b) = Len(s) + 1 - (first + next - 1)
          /\ \A i \in 1 .. Len(s) + 1 - (first + next - 1) : b[i] = s[first + next - 1 + i - 1]
    BY <1>3, FromProperties
<1> HIDE DEF t, b
<1>5. next \in 1 .. Len(t) + 1
    BY DEF t
<1>6. a \in Seq(S) /\ Len(a) = Len(t) + 1 - next /\ \A i \in 1 .. Len(t) + 1 - next : a[i] = t[next + i - 1]
    <2>1. t \in Seq(S) /\ next \in 1 .. Len(t) + 1
        BY <1>2, <1>5
    <2> HIDE DEF a
    <2>2. a = From(t, next)
        BY DEF a
    <2>3. QED
        BY <2>1, <2>2, FromProperties
<1> HIDE DEF a
<1>7. Len(a) = Len(b)
    BY <1>1, <1>2, <1>4, <1>5, <1>6, SMTT(30)
<1>8. ASSUME NEW i \in 1 .. Len(a) PROVE a[i] = b[i]
    <2>1. next + i - 1 \in 1 .. Len(s) + 1 - first /\ i \in 1 .. Len(t) + 1 - next
              /\ i \in 1 .. Len(s) + 1 - (first + next - 1)
        BY <1>1, <1>2, <1>5, <1>6
    <2>2. a[i] = t[next + i - 1] /\ t[next + i - 1] = s[first + (next + i - 1) - 1]
        BY <1>2, <1>6, <2>1
    <2>3. b[i] = s[first + next - 1 + i - 1]
        BY <1>4, <2>1
    <2>4. first + (next + i - 1) - 1 = first + next - 1 + i - 1
        BY <1>1, <1>5, <2>1
    <2>5. QED
        BY <2>2, <2>3, <2>4
<1>9. a = b
    BY <1>4, <1>6, <1>7, <1>8, SeqEqual
<1>10. QED
    BY <1>3, <1>9 DEF a, b, t

-----------------------------------------------------------------------------
(* The invariant *)

\* What is stored is the end of what was handled, and what is not was too old for an
\* event that begins now.
StoreIsEnd ==
    \A r \in Recorder : \E first \in 1 .. Len(handled[r]) + 1 :
        /\ mFrameStore[r] = From(handled[r], first)
        /\ first > 1 => handled[r][first - 1] < now - MAX_EVENT_HEAD_AGE

\* Alarms lie in the past, and the last of all is not before a recorder's own.
AlarmsArePast == mLastAlarmTime <= now /\ \A r \in Recorder : ownAlarm[r] <= mLastAlarmTime

RecorderInv == TypeOK /\ AlarmsArePast /\ StoreIsEnd /\ EventIsComplete /\ EventsAreNotified

LEMMA EmptyIsTyped == ASSUME NEW S PROVE << >> \in Seq(S)
BY EmptySeq

LEMMA RecorderInitially == ASSUME Init PROVE RecorderInv
<1> USE DEF Init
<1>1. TypeOK
    BY AgeAssumption, EmptyIsTyped DEF TypeOK, Time, FrameTimes
<1>2. AlarmsArePast
    BY DEF AlarmsArePast
<1>3. StoreIsEnd
    <2> SUFFICES ASSUME NEW r \in Recorder
                 PROVE  \E first \in 1 .. Len(handled[r]) + 1 :
                            /\ mFrameStore[r] = From(handled[r], first)
                            /\ first > 1 => handled[r][first - 1] < now - MAX_EVENT_HEAD_AGE
        BY DEF StoreIsEnd
    <2>1. handled[r] = << >> /\ mFrameStore[r] = << >> /\ Len(<< >>) = 0
        OBVIOUS
    <2>2. From(<< >>, 1) = << >>
        BY <2>1, SubSeqEmpty DEF From
    <2>3. 1 \in 1 .. Len(handled[r]) + 1
        BY <2>1
    <2>4. QED
        BY <2>1, <2>2, <2>3
<1>4. EventIsComplete
    BY DEF EventIsComplete
<1>5. EventsAreNotified
    <2> SUFFICES ASSUME NEW r \in Recorder
                 PROVE  /\ Len(notified[r]) = 2 * mEventCount[r] - (IF mState[r] = "IDLE" THEN 0 ELSE 1)
                        /\ \A i \in 1..Len(notified[r]) :
                            notified[r][i] = << IF i % 2 = 1 THEN "BEGIN" ELSE "COMPLETE", (i + 1) \div 2 >>
        BY DEF EventsAreNotified
    <2>1. notified[r] = << >> /\ Len(<< >>) = 0 /\ mEventCount[r] = 0 /\ mState[r] = "IDLE"
        OBVIOUS
    <2>2. 1 .. 0 = {}
        OBVIOUS
    <2>3. QED
        BY <2>1, <2>2
<1>6. QED
    BY <1>1, <1>2, <1>3, <1>4, <1>5 DEF RecorderInv

-----------------------------------------------------------------------------
(* What every handled frame does *)

\* A frame taken from the queue has a time and a kind.
LEMMA HandleFacts ==
    ASSUME TypeOK, NEW r \in Recorder, NEW what, Handle(r, what)
    PROVE  /\ Head(mFrameQueue[r]).time \in Time
           /\ mFrameQueue' \in [Recorder -> Seq([kind : FrameKind, time : Time])]
           /\ now' = now /\ captured' = captured
<1> DEFINE Frames == [kind : FrameKind, time : Time]
<1>1. mFrameQueue[r] \in Seq(Frames) /\ mFrameQueue[r] # << >>
    BY DEF TypeOK, Handle
<1>2. Head(mFrameQueue[r]) \in Frames /\ Tail(mFrameQueue[r]) \in Seq(Frames)
    BY <1>1, HeadTailProperties
<1>3. Head(mFrameQueue[r]).time \in Time
    BY <1>2
<1> HIDE DEF Frames
<1>4. mFrameQueue' \in [Recorder -> Seq(Frames)]
    BY <1>2 DEF TypeOK, Handle, Frames
<1>5. QED
    BY <1>3, <1>4 DEF Handle, Frames

\* The store stays the end of what was handled, whatever is dropped from it.
LEMMA StoreFacts ==
    ASSUME RecorderInv, NEW r \in Recorder, NEW what, HandleAlarmFrame(r, what)
    PROVE  /\ mFrameStore' \in FrameTimes /\ handled' \in FrameTimes
           /\ handled'[r] = Append(handled[r], Head(mFrameQueue[r]).time)
           /\ Len(handled'[r]) = Len(handled[r]) + 1
           /\ \A i \in 1 .. Len(handled[r]) : handled'[r][i] = handled[r][i]
           /\ \A s \in Recorder \ {r} : handled'[s] = handled[s] /\ mFrameStore'[s] = mFrameStore[s]
           /\ StoreIsEnd'
<1> DEFINE time == Head(mFrameQueue[r]).time
           h == handled[r]
           stored == mFrameStore[r]
<1>1. /\ time \in Time /\ now' = now /\ TypeOK
      /\ h \in Seq(Time) /\ stored \in Seq(Time) /\ Len(h) \in Nat /\ Len(stored) \in Nat
      /\ now \in Int /\ Time \subseteq Int
      /\ handled \in FrameTimes /\ mFrameStore \in FrameTimes
    <2>1. TypeOK /\ Handle(r, what)
        BY DEF RecorderInv, HandleAlarmFrame
    <2>2. time \in Time /\ now' = now
        BY <2>1, HandleFacts
    <2>3. now \in Time /\ handled \in FrameTimes /\ mFrameStore \in FrameTimes
        BY <2>1 DEF TypeOK
    <2>4. h \in Seq(Time) /\ stored \in Seq(Time)
        BY <2>3 DEF FrameTimes
    <2>5. Len(h) \in Nat /\ Len(stored) \in Nat
        BY <2>4, LenProperties
    <2>6. Time \subseteq Int
        BY AgeAssumption DEF Time
    <2>7. QED
        BY <2>1, <2>2, <2>3, <2>4, <2>5, <2>6
<1>2. /\ handled' = [handled EXCEPT ![r] = Append(h, time)]
      /\ \E first \in 1 .. Len(stored) + 1 :
            /\ \A i \in 1 .. first - 1 : now - stored[i] > MAX_EVENT_HEAD_AGE
            /\ mFrameStore' = [mFrameStore EXCEPT ![r] = Append(From(stored, first), time)]
    BY DEF HandleAlarmFrame, Store, From
<1>3. PICK next \in 1 .. Len(stored) + 1 :
            /\ \A i \in 1 .. next - 1 : now - stored[i] > MAX_EVENT_HEAD_AGE
            /\ mFrameStore' = [mFrameStore EXCEPT ![r] = Append(From(stored, next), time)]
    BY <1>2
<1>4. PICK first \in 1 .. Len(h) + 1 :
            /\ stored = From(h, first)
            /\ first > 1 => h[first - 1] < now - MAX_EVENT_HEAD_AGE
    BY DEF RecorderInv, StoreIsEnd
<1> HIDE DEF h, stored, time
<1>5. /\ Len(stored) = Len(h) + 1 - first
      /\ \A i \in 1 .. Len(h) + 1 - first : stored[i] = h[first + i - 1]
    BY <1>1, <1>4, FromProperties
<1>6. /\ first + next - 1 \in 1 .. Len(h) + 1
      /\ From(stored, next) = From(h, first + next - 1)
    <2>1. next \in 1 .. Len(From(h, first)) + 1
        BY <1>3, <1>4
    <2>2. QED
        BY <1>1, <1>4, <2>1, FromFrom
<1>7. /\ Append(h, time) \in Seq(Time) /\ Len(Append(h, time)) = Len(h) + 1
      /\ \A i \in 1 .. Len(h) : Append(h, time)[i] = h[i]
    BY <1>1, AppendProperties
<1>8. /\ From(stored, next) \in Seq(Time)
      /\ Append(From(stored, next), time) \in Seq(Time)
      /\ Append(From(stored, next), time) = From(Append(h, time), first + next - 1)
    <2>1. From(stored, next) \in Seq(Time)
        BY <1>1, <1>3, FromProperties
    <2>2. Append(From(stored, next), time) \in Seq(Time)
        <3> DEFINE f == From(stored, next)
        <3>1. f \in Seq(Time)
            BY <2>1
        <3> HIDE DEF f
        <3>2. Append(f, time) \in Seq(Time)
            BY <1>1, <3>1, AppendProperties
        <3>3. QED
            BY <3>2 DEF f
    <2> DEFINE k == first + next - 1
    <2>3. k \in 1 .. Len(h) + 1
        BY <1>6
    <2> HIDE DEF k
    <2>4. Append(From(h, k), time) = From(Append(h, time), k)
        BY <1>1, <2>3, FromAppend
    <2>5. From(stored, next) = From(h, k)
        BY <1>6 DEF k
    <2>6. QED
        BY <2>1, <2>2, <2>4, <2>5 DEF k
<1>9. /\ handled' \in FrameTimes /\ mFrameStore' \in FrameTimes
      /\ handled'[r] = Append(h, time)
      /\ mFrameStore'[r] = From(Append(h, time), first + next - 1)
      /\ \A s \in Recorder \ {r} : handled'[s] = handled[s] /\ mFrameStore'[s] = mFrameStore[s]
    BY <1>1, <1>2, <1>3, <1>7, <1>8 DEF FrameTimes
<1>10. first + next - 1 > 1 => Append(h, time)[first + next - 2] < now - MAX_EVENT_HEAD_AGE
    <2> SUFFICES ASSUME first + next - 1 > 1
                 PROVE  Append(h, time)[first + next - 2] < now - MAX_EVENT_HEAD_AGE
        OBVIOUS
    <2>1. first + next - 2 \in 1 .. Len(h) /\ first \in Int /\ next \in Int
        BY <1>1, <1>6
    <2>2. Append(h, time)[first + next - 2] = h[first + next - 2] /\ h[first + next - 2] \in Int
        BY <1>1, <1>7, <2>1, ElementOfSeq
    <2>3. CASE next = 1
        <3>1. first > 1 /\ first + next - 2 = first - 1
            BY <1>1, <2>1, <2>3
        <3>2. QED
            BY <1>4, <2>2, <3>1
    <2>4. CASE next > 1
        <3>1. next - 1 \in 1 .. next - 1 /\ next - 1 \in 1 .. Len(h) + 1 - first
            BY <1>1, <1>3, <1>5, <2>4
        <3>2. now - stored[next - 1] > MAX_EVENT_HEAD_AGE
            BY <1>3, <3>1
        <3>3. stored[next - 1] = h[first + (next - 1) - 1] /\ first + (next - 1) - 1 = first + next - 2
            <4>1. first + (next - 1) - 1 = first + next - 2
                BY <2>1
            <4>2. stored[next - 1] = h[first + (next - 1) - 1]
                BY <1>5, <3>1
            <4>3. QED
                BY <4>1, <4>2
        <3>4. MAX_EVENT_HEAD_AGE \in Int
            BY AgeAssumption
        <3>5. QED
            BY <1>1, <2>2, <3>2, <3>3, <3>4
    <2>5. next = 1 \/ next > 1
        BY <1>1, <1>3
    <2>6. QED
        BY <2>3, <2>4, <2>5
<1>11. StoreIsEnd'
    <2> SUFFICES ASSUME NEW s \in Recorder
                 PROVE  \E k \in 1 .. Len(handled'[s]) + 1 :
                            /\ mFrameStore'[s] = From(handled'[s], k)
                            /\ k > 1 => handled'[s][k - 1] < now' - MAX_EVENT_HEAD_AGE
        BY DEF StoreIsEnd, From
    <2>1. CASE s = r
        <3>1. first + next - 1 \in 1 .. Len(handled'[s]) + 1 /\ (first + next - 1) - 1 = first + next - 2
            BY <1>1, <1>6, <1>7, <1>9, <2>1
        <3>2. QED
            BY <1>1, <1>9, <1>10, <2>1, <3>1
    <2>2. CASE s # r
        BY <1>1, <1>9, <2>2 DEF RecorderInv, StoreIsEnd
    <2>3. QED
        BY <2>1, <2>2
<1>12. QED
    BY <1>7, <1>9, <1>11 DEF h, time
-----------------------------------------------------------------------------
(* The parts of the invariant, recorder by recorder *)

Whole(r) ==
    mState[r] # "IDLE" =>
        \E first \in 1 .. Len(handled[r]) :
            /\ saved[r] = From(handled[r], first)
            /\ first > 1 => handled[r][first - 1] < mAlarmTime[r] - MAX_EVENT_HEAD_AGE

Announced(r) ==
    /\ Len(notified[r]) = 2 * mEventCount[r] - (IF mState[r] = "IDLE" THEN 0 ELSE 1)
    /\ \A i \in 1 .. Len(notified[r]) :
        notified[r][i] = << IF i % 2 = 1 THEN "BEGIN" ELSE "COMPLETE", (i + 1) \div 2 >>

LEMMA WholeIsComplete == EventIsComplete <=> \A r \in Recorder : Whole(r)
BY DEF EventIsComplete, Whole, From

LEMMA AnnouncedIsNotified == EventsAreNotified <=> \A r \in Recorder : Announced(r)
BY DEF EventsAreNotified, Announced

\* A step that leaves a recorder's event alone keeps it whole ...
LEMMA StaysWhole ==
    ASSUME NEW r \in Recorder, Whole(r), mState'[r] = mState[r], saved'[r] = saved[r],
           handled'[r] = handled[r], mAlarmTime'[r] = mAlarmTime[r]
    PROVE  Whole(r)'
BY DEF Whole, From

\* ... and its notifications as they should be.
LEMMA StaysAnnounced ==
    ASSUME NEW r \in Recorder, Announced(r), mState'[r] = "IDLE" <=> mState[r] = "IDLE",
           notified'[r] = notified[r], mEventCount'[r] = mEventCount[r]
    PROVE  Announced(r)'
BY DEF Announced

\* The frame of an open event is added to what is saved: the run stays unbroken.
LEMMA SavedGrows ==
    ASSUME RecorderInv, NEW r \in Recorder, NEW what, HandleAlarmFrame(r, what), mState[r] # "IDLE",
           saved' = [saved EXCEPT ![r] = Append(@, Head(mFrameQueue[r]).time)],
           mAlarmTime' = mAlarmTime
    PROVE  saved' \in FrameTimes /\ Whole(r)'
<1> DEFINE time == Head(mFrameQueue[r]).time
           h == handled[r]
<1>1. /\ time \in Time /\ h \in Seq(Time) /\ saved[r] \in Seq(Time) /\ saved \in FrameTimes
    <2>1. TypeOK /\ Handle(r, what)
        BY DEF RecorderInv, HandleAlarmFrame
    <2>2. time \in Time
        BY <2>1, HandleFacts
    <2>3. QED
        BY <2>1, <2>2 DEF TypeOK, FrameTimes
<1>2. /\ handled'[r] = Append(h, time) /\ Len(handled'[r]) = Len(h) + 1
      /\ \A i \in 1 .. Len(h) : handled'[r][i] = h[i]
    BY StoreFacts
<1>3. saved'[r] = Append(saved[r], time)
    BY <1>1 DEF FrameTimes
<1>4. Whole(r)
    BY WholeIsComplete DEF RecorderInv
<1> HIDE DEF h, time
<1>5. PICK first \in 1 .. Len(h) :
        /\ saved[r] = From(h, first)
        /\ first > 1 => h[first - 1] < mAlarmTime[r] - MAX_EVENT_HEAD_AGE
    BY <1>4 DEF Whole, h
<1>6. Len(h) \in Nat
    BY <1>1, LenProperties
<1>7. saved'[r] = From(handled'[r], first)
    <2>1. first \in 1 .. Len(h) + 1
        BY <1>6
    <2>2. Append(From(h, first), time) = From(Append(h, time), first)
        BY <1>1, <2>1, FromAppend
    <2>3. QED
        BY <1>2, <1>3, <1>5, <2>2
<1>8. first \in 1 .. Len(handled'[r])
    BY <1>2, <1>6
<1>9. first > 1 => handled'[r][first - 1] < mAlarmTime'[r] - MAX_EVENT_HEAD_AGE
    <2> SUFFICES ASSUME first > 1
                 PROVE  handled'[r][first - 1] < mAlarmTime'[r] - MAX_EVENT_HEAD_AGE
        OBVIOUS
    <2>1. first - 1 \in 1 .. Len(h)
        BY <1>6
    <2>2. QED
        BY <1>2, <1>5, <2>1
<1>10. saved' \in FrameTimes
    <2>1. Append(saved[r], time) \in Seq(Time)
        BY <1>1, AppendProperties
    <2>2. QED
        BY <1>1, <2>1 DEF FrameTimes, time
<1>11. QED
    BY <1>7, <1>8, <1>9, <1>10 DEF Whole, From

\* One more notification, of the right stage and number.
LEMMA OneMoreNotice ==
    ASSUME RecorderInv, NEW r \in Recorder, NEW stage \in {"BEGIN", "COMPLETE"}, NEW n \in Nat,
           notified' = [notified EXCEPT ![r] = Notice(r, stage, n)],
           mEventCount'[r] = n,
           \/ /\ mState[r] = "IDLE" /\ mState'[r] # "IDLE"
              /\ stage = "BEGIN" /\ n = mEventCount[r] + 1
           \/ /\ mState[r] # "IDLE" /\ mState'[r] = "IDLE"
              /\ stage = "COMPLETE" /\ n = mEventCount[r]
    PROVE  /\ notified' \in [Recorder -> Seq({"BEGIN", "COMPLETE"} \X Nat)]
           /\ Announced(r)'
<1> DEFINE Notices == {"BEGIN", "COMPLETE"} \X Nat
           old == notified[r]
           e   == << stage, n >>
           new == Append(old, e)
<1>1. notified \in [Recorder -> Seq(Notices)] /\ mEventCount[r] \in Nat
    BY DEF RecorderInv, TypeOK
<1>2. old \in Seq(Notices) /\ e \in Notices
    BY <1>1
<1> HIDE DEF Notices, e
<1>3. /\ new \in Seq(Notices) /\ Len(new) = Len(old) + 1 /\ new[Len(old) + 1] = e
      /\ \A i \in 1 .. Len(old) : new[i] = old[i]
    BY <1>2, AppendProperties
<1>4. Len(old) \in Nat
    BY <1>2, LenProperties
<1>5. Announced(r)
    BY AnnouncedIsNotified DEF RecorderInv
<1>6. notified' = [notified EXCEPT ![r] = new]
    BY DEF Notice, e
<1> HIDE DEF new
<1>7. notified'[r] = new /\ notified' \in [Recorder -> Seq(Notices)]
    BY <1>1, <1>3, <1>6
<1>8. Len(old) = 2 * mEventCount[r] - (IF mState[r] = "IDLE" THEN 0 ELSE 1)
    BY <1>5 DEF Announced
<1>9. Len(new) = 2 * n - (IF mState'[r] = "IDLE" THEN 0 ELSE 1)
    BY <1>1, <1>3, <1>8, SMTT(30)
<1>10. e = << IF Len(new) % 2 = 1 THEN "BEGIN" ELSE "COMPLETE", (Len(new) + 1) \div 2 >>
    <2>1. CASE mState[r] = "IDLE"
        <3>1. stage = "BEGIN" /\ Len(new) = 2 * n - 1
            BY <1>9, <2>1
        <3>2. Len(new) % 2 = 1 /\ (Len(new) + 1) \div 2 = n
            BY <3>1
        <3>3. QED
            BY <3>1, <3>2 DEF e
    <2>2. CASE mState[r] # "IDLE"
        <3>1. stage = "COMPLETE" /\ Len(new) = 2 * n
            BY <1>9, <2>2
        <3>2. Len(new) % 2 = 0 /\ (Len(new) + 1) \div 2 = n
            BY <3>1
        <3>3. QED
            BY <3>1, <3>2 DEF e
    <2>3. QED
        BY <2>1, <2>2
<1>11. ASSUME NEW i \in 1 .. Len(new)
       PROVE  new[i] = << IF i % 2 = 1 THEN "BEGIN" ELSE "COMPLETE", (i + 1) \div 2 >>
    <2>1. CASE i = Len(new)
        BY <1>3, <1>10, <2>1
    <2>2. CASE i # Len(new)
        <3>1. i \in 1 .. Len(old)
            BY <1>3, <1>4, <2>2
        <3>2. new[i] = old[i]
            BY <1>3, <3>1
        <3>3. old[i] = << IF i % 2 = 1 THEN "BEGIN" ELSE "COMPLETE", (i + 1) \div 2 >>
            BY <1>5, <3>1 DEF Announced
        <3>4. QED
            BY <3>2, <3>3
    <2>3. QED
        BY <2>1, <2>2
<1>12. QED
    BY <1>7, <1>9, <1>11 DEF Announced, Notices
-----------------------------------------------------------------------------
(* One lemma for each action *)

\* What every frame that carries alarm information leaves in order.
LEMMA AlarmFrameFacts ==
    ASSUME RecorderInv, NEW r \in Recorder, NEW what, HandleAlarmFrame(r, what)
    PROVE  /\ now' = now /\ now' \in Time /\ captured' \in [Recorder -> Time]
           /\ mFrameQueue' \in [Recorder -> Seq([kind : FrameKind, time : Time])]
           /\ mFrameStore' \in FrameTimes /\ handled' \in FrameTimes
           /\ StoreIsEnd'
           /\ \A s \in Recorder \ {r} : handled'[s] = handled[s]
<1>1. TypeOK /\ Handle(r, what)
    BY DEF RecorderInv, HandleAlarmFrame
<1>2. /\ now' = now /\ captured' = captured
      /\ mFrameQueue' \in [Recorder -> Seq([kind : FrameKind, time : Time])]
    BY <1>1, HandleFacts
<1>3. QED
    BY <1>1, <1>2, StoreFacts DEF TypeOK

\* An alarm makes the last alarm and the recorder's own the present.
LEMMA AlarmSteps ==
    ASSUME RecorderInv, NEW r \in Recorder, Alarm(r)
    PROVE  /\ mLastAlarmTime' \in Time /\ ownAlarm' \in [Recorder -> Time]
           /\ mState' \in [Recorder -> {"IDLE", "ALARM", "ALERT"}]
           /\ mState'[r] = "ALARM" /\ \A s \in Recorder \ {r} : mState'[s] = mState[s]
           /\ AlarmsArePast'
<1>1. HandleAlarmFrame(r, "alarmed") /\ TypeOK /\ AlarmsArePast
    BY DEF Alarm, RecorderInv
<1>2. now' = now
    BY <1>1, AlarmFrameFacts
<1>3. /\ now \in Time /\ ownAlarm \in [Recorder -> Time] /\ mLastAlarmTime \in Time
      /\ mState \in [Recorder -> {"IDLE", "ALARM", "ALERT"}]
    BY <1>1 DEF TypeOK
<1>4. mLastAlarmTime' = now /\ ownAlarm' = [ownAlarm EXCEPT ![r] = now] /\ mState' = [mState EXCEPT ![r] = "ALARM"]
    BY DEF Alarm
<1>5. Time \subseteq Int
    BY AgeAssumption DEF Time
<1>6. AlarmsArePast'
    <2>1. mLastAlarmTime \in Int /\ now \in Int /\ \A s \in Recorder : ownAlarm[s] \in Int
        BY <1>3, <1>5
    <2>2. \A s \in Recorder : ownAlarm'[s] = IF s = r THEN now ELSE ownAlarm[s]
        BY <1>3, <1>4
    <2>3. mLastAlarmTime <= now /\ \A s \in Recorder : ownAlarm[s] <= mLastAlarmTime
        BY <1>1 DEF AlarmsArePast
    <2>4. \A s \in Recorder : ownAlarm'[s] <= now
        BY <2>1, <2>2, <2>3
    <2>5. QED
        BY <1>2, <1>4, <2>1, <2>4 DEF AlarmsArePast
<1>7. QED
    BY <1>3, <1>4, <1>6

LEMMA BeginStep == ASSUME RecorderInv, NEW r \in Recorder, BeginEvent(r) PROVE RecorderInv'
<1> USE DEF BeginEvent
<1> DEFINE time == Head(mFrameQueue[r]).time
           h == handled[r]
<1>1. TypeOK /\ HandleAlarmFrame(r, "alarmed") /\ Alarm(r)
    BY DEF RecorderInv, Alarm
<1>2. /\ now' = now /\ now' \in Time /\ captured' \in [Recorder -> Time]
      /\ mFrameQueue' \in [Recorder -> Seq([kind : FrameKind, time : Time])]
      /\ mFrameStore' \in FrameTimes /\ handled' \in FrameTimes
      /\ StoreIsEnd'
      /\ \A s \in Recorder \ {r} : handled'[s] = handled[s]
    BY <1>1, AlarmFrameFacts
<1>3. /\ mLastAlarmTime' \in Time /\ ownAlarm' \in [Recorder -> Time]
      /\ mState' \in [Recorder -> {"IDLE", "ALARM", "ALERT"}]
      /\ mState'[r] = "ALARM" /\ \A s \in Recorder \ {r} : mState'[s] = mState[s]
      /\ AlarmsArePast'
    BY <1>1, AlarmSteps
<1>4. mAlarmTime' \in [Recorder -> Time] /\ mAlarmTime'[r] = now
          /\ \A s \in Recorder \ {r} : mAlarmTime'[s] = mAlarmTime[s]
    BY <1>1, <1>2 DEF TypeOK
<1>5. mEventCount' \in [Recorder -> Nat] /\ mEventCount'[r] = mEventCount[r] + 1
          /\ mEventCount[r] + 1 \in Nat
          /\ \A s \in Recorder \ {r} : mEventCount'[s] = mEventCount[s]
    BY <1>1 DEF TypeOK
<1>6. notified' \in [Recorder -> Seq({"BEGIN", "COMPLETE"} \X Nat)] /\ Announced(r)'
    <2>1. notified' = [notified EXCEPT ![r] = Notice(r, "BEGIN", mEventCount[r] + 1)]
        OBVIOUS
    <2>2. mState[r] = "IDLE" /\ mState'[r] # "IDLE"
        BY <1>3
    <2>3. QED
        BY <1>5, <2>1, <2>2, OneMoreNotice
<1>7. /\ time \in Time /\ h \in Seq(Time) /\ mFrameStore[r] \in Seq(Time) /\ saved \in FrameTimes
    <2>1. Handle(r, "alarmed")
        BY <1>1 DEF HandleAlarmFrame
    <2>2. time \in Time
        BY <1>1, <2>1, HandleFacts
    <2>3. QED
        BY <1>1, <2>2 DEF TypeOK, FrameTimes
<1>8. /\ handled'[r] = Append(h, time) /\ Len(handled'[r]) = Len(h) + 1
      /\ \A i \in 1 .. Len(h) : handled'[r][i] = h[i]
    BY <1>1, StoreFacts
<1>9. /\ saved' = [saved EXCEPT ![r] = Append(mFrameStore[r], time)]
      /\ saved'[r] = Append(mFrameStore[r], time)
      /\ \A s \in Recorder \ {r} : saved'[s] = saved[s]
    BY <1>7 DEF FrameTimes
<1> HIDE DEF time, h
<1>10. saved' \in FrameTimes
    <2>1. Append(mFrameStore[r], time) \in Seq(Time)
        BY <1>7, AppendProperties
    <2>2. QED
        BY <1>7, <1>9, <2>1 DEF FrameTimes
<1>11. PICK first \in 1 .. Len(h) + 1 :
        /\ mFrameStore[r] = From(h, first)
        /\ first > 1 => h[first - 1] < now - MAX_EVENT_HEAD_AGE
    BY DEF RecorderInv, StoreIsEnd, h
<1>12. Whole(r)'
    <2>1. Len(h) \in Nat
        BY <1>7, LenProperties
    <2>2. Append(From(h, first), time) = From(Append(h, time), first)
        BY <1>7, <1>11, FromAppend
    <2>3. saved'[r] = From(handled'[r], first)
        BY <1>8, <1>9, <1>11, <2>2
    <2>4. first \in 1 .. Len(handled'[r])
        BY <1>8, <1>11, <2>1
    <2>5. first > 1 => handled'[r][first - 1] < mAlarmTime'[r] - MAX_EVENT_HEAD_AGE
        <3> SUFFICES ASSUME first > 1
                     PROVE  handled'[r][first - 1] < mAlarmTime'[r] - MAX_EVENT_HEAD_AGE
            OBVIOUS
        <3>1. first - 1 \in 1 .. Len(h)
            BY <1>11, <2>1
        <3>2. QED
            BY <1>4, <1>8, <1>11, <3>1
    <2>6. QED
        BY <2>3, <2>4, <2>5 DEF Whole, From
<1>13. ASSUME NEW s \in Recorder PROVE Whole(s)' /\ Announced(s)'
    <2>1. Whole(s) /\ Announced(s)
        BY WholeIsComplete, AnnouncedIsNotified DEF RecorderInv
    <2>2. CASE s = r
        BY <1>6, <1>12, <2>2
    <2>3. CASE s # r
        <3>1. notified'[s] = notified[s]
            BY <1>1, <2>3 DEF TypeOK
        <3>2. QED
            BY <1>2, <1>3, <1>4, <1>5, <1>9, <2>1, <2>3, <3>1, StaysWhole, StaysAnnounced
    <2>4. QED
        BY <2>2, <2>3
<1>14. EventIsComplete' /\ EventsAreNotified'
    BY <1>13 DEF EventIsComplete, EventsAreNotified, Whole, Announced, From
<1>15. TypeOK'
    BY <1>2, <1>3, <1>4, <1>5, <1>6, <1>10 DEF TypeOK
<1>16. QED
    BY <1>2, <1>3, <1>14, <1>15 DEF RecorderInv

LEMMA ContinueStep == ASSUME RecorderInv, NEW r \in Recorder, ContinueEvent(r) PROVE RecorderInv'
<1> USE DEF ContinueEvent
<1>1. TypeOK /\ HandleAlarmFrame(r, "alarmed") /\ Alarm(r)
    BY DEF RecorderInv, Alarm
<1>2. /\ now' = now /\ now' \in Time /\ captured' \in [Recorder -> Time]
      /\ mFrameQueue' \in [Recorder -> Seq([kind : FrameKind, time : Time])]
      /\ mFrameStore' \in FrameTimes /\ handled' \in FrameTimes
      /\ StoreIsEnd'
      /\ \A s \in Recorder \ {r} : handled'[s] = handled[s]
    BY <1>1, AlarmFrameFacts
<1>3. /\ mLastAlarmTime' \in Time /\ ownAlarm' \in [Recorder -> Time]
      /\ mState' \in [Recorder -> {"IDLE", "ALARM", "ALERT"}]
      /\ mState'[r] = "ALARM" /\ \A s \in Recorder \ {r} : mState'[s] = mState[s]
      /\ AlarmsArePast'
    BY <1>1, AlarmSteps
<1>4. saved' \in FrameTimes /\ Whole(r)'
    <2>1. saved' = [saved EXCEPT ![r] = Append(@, Head(mFrameQueue[r]).time)] /\ mAlarmTime' = mAlarmTime
        OBVIOUS
    <2>2. QED
        BY <1>1, <2>1, SavedGrows
<1>5. /\ mAlarmTime' = mAlarmTime /\ mEventCount' = mEventCount /\ notified' = notified
      /\ \A s \in Recorder \ {r} : saved'[s] = saved[s]
    BY <1>1 DEF TypeOK, FrameTimes
<1>6. ASSUME NEW s \in Recorder PROVE Whole(s)' /\ Announced(s)'
    <2>1. Whole(s) /\ Announced(s)
        BY WholeIsComplete, AnnouncedIsNotified DEF RecorderInv
    <2>2. mState'[s] = "IDLE" <=> mState[s] = "IDLE"
        BY <1>3
    <2>3. Announced(s)'
        BY <1>5, <2>1, <2>2, StaysAnnounced
    <2>4. Whole(s)'
        BY <1>2, <1>3, <1>4, <1>5, <2>1, StaysWhole
    <2>5. QED
        BY <2>3, <2>4
<1>7. EventIsComplete' /\ EventsAreNotified'
    BY <1>6 DEF EventIsComplete, EventsAreNotified, Whole, Announced, From
<1>8. TypeOK'
    BY <1>1, <1>2, <1>3, <1>4, <1>5 DEF TypeOK
<1>9. QED
    BY <1>2, <1>3, <1>7, <1>8 DEF RecorderInv

\* A quiet frame leaves the alarms where they are.
LEMMA QuietSteps ==
    ASSUME RecorderInv, NEW r \in Recorder, HandleAlarmFrame(r, "quiet"),
           mLastAlarmTime' = mLastAlarmTime, ownAlarm' = ownAlarm
    PROVE  AlarmsArePast' /\ mLastAlarmTime' \in Time /\ ownAlarm' \in [Recorder -> Time]
BY AlarmFrameFacts DEF RecorderInv, AlarmsArePast, TypeOK

LEMMA QuietIdleStep == ASSUME RecorderInv, NEW r \in Recorder, QuietIdle(r) PROVE RecorderInv'
<1> USE DEF QuietIdle
<1>1. TypeOK /\ HandleAlarmFrame(r, "quiet")
    BY DEF RecorderInv
<1>2. /\ now' = now /\ now' \in Time /\ captured' \in [Recorder -> Time]
      /\ mFrameQueue' \in [Recorder -> Seq([kind : FrameKind, time : Time])]
      /\ mFrameStore' \in FrameTimes /\ handled' \in FrameTimes
      /\ StoreIsEnd'
      /\ \A s \in Recorder \ {r} : handled'[s] = handled[s]
    BY <1>1, AlarmFrameFacts
<1>3. AlarmsArePast' /\ mLastAlarmTime' \in Time /\ ownAlarm' \in [Recorder -> Time]
    BY <1>1, QuietSteps
<1>4. /\ mState' = mState /\ mAlarmTime' = mAlarmTime /\ mEventCount' = mEventCount
      /\ saved' = saved /\ notified' = notified
    OBVIOUS
<1>5. ASSUME NEW s \in Recorder PROVE Whole(s)' /\ Announced(s)'
    <2>1. Whole(s) /\ Announced(s)
        BY WholeIsComplete, AnnouncedIsNotified DEF RecorderInv
    <2>2. CASE s = r
        BY <1>4, <2>1, <2>2 DEF Whole, Announced
    <2>3. CASE s # r
        BY <1>2, <1>4, <2>1, <2>3, StaysWhole, StaysAnnounced
    <2>4. QED
        BY <2>2, <2>3
<1>6. EventIsComplete' /\ EventsAreNotified'
    BY <1>5 DEF EventIsComplete, EventsAreNotified, Whole, Announced, From
<1>7. TypeOK'
    BY <1>1, <1>2, <1>3, <1>4 DEF TypeOK
<1>8. QED
    BY <1>2, <1>3, <1>6, <1>7 DEF RecorderInv

LEMMA QuietGoesOnStep == ASSUME RecorderInv, NEW r \in Recorder, QuietGoesOn(r) PROVE RecorderInv'
<1> USE DEF QuietGoesOn
<1>1. TypeOK /\ HandleAlarmFrame(r, "quiet")
    BY DEF RecorderInv
<1>2. /\ now' = now /\ now' \in Time /\ captured' \in [Recorder -> Time]
      /\ mFrameQueue' \in [Recorder -> Seq([kind : FrameKind, time : Time])]
      /\ mFrameStore' \in FrameTimes /\ handled' \in FrameTimes
      /\ StoreIsEnd'
      /\ \A s \in Recorder \ {r} : handled'[s] = handled[s]
    BY <1>1, AlarmFrameFacts
<1>3. AlarmsArePast' /\ mLastAlarmTime' \in Time /\ ownAlarm' \in [Recorder -> Time]
    BY <1>1, QuietSteps
<1>4. /\ mState' \in [Recorder -> {"IDLE", "ALARM", "ALERT"}] /\ mState'[r] = "ALERT"
      /\ \A s \in Recorder \ {r} : mState'[s] = mState[s] /\ saved'[s] = saved[s]
      /\ mAlarmTime' = mAlarmTime /\ mEventCount' = mEventCount /\ notified' = notified
    BY <1>1 DEF TypeOK, FrameTimes
<1>5. saved' \in FrameTimes /\ Whole(r)'
    <2>1. saved' = [saved EXCEPT ![r] = Append(@, Head(mFrameQueue[r]).time)]
        OBVIOUS
    <2>2. QED
        BY <1>1, <1>4, <2>1, SavedGrows
<1>6. ASSUME NEW s \in Recorder PROVE Whole(s)' /\ Announced(s)'
    <2>1. Whole(s) /\ Announced(s)
        BY WholeIsComplete, AnnouncedIsNotified DEF RecorderInv
    <2>2. mState'[s] = "IDLE" <=> mState[s] = "IDLE"
        BY <1>4
    <2>3. Announced(s)'
        BY <1>4, <2>1, <2>2, StaysAnnounced
    <2>4. Whole(s)'
        BY <1>2, <1>4, <1>5, <2>1, StaysWhole
    <2>5. QED
        BY <2>3, <2>4
<1>7. EventIsComplete' /\ EventsAreNotified'
    BY <1>6 DEF EventIsComplete, EventsAreNotified, Whole, Announced, From
<1>8. TypeOK'
    BY <1>1, <1>2, <1>3, <1>4, <1>5 DEF TypeOK
<1>9. QED
    BY <1>2, <1>3, <1>7, <1>8 DEF RecorderInv

LEMMA QuietClosesStep == ASSUME RecorderInv, NEW r \in Recorder, QuietCloses(r) PROVE RecorderInv'
<1> USE DEF QuietCloses
<1>1. TypeOK /\ HandleAlarmFrame(r, "quiet")
    BY DEF RecorderInv
<1>2. /\ now' = now /\ now' \in Time /\ captured' \in [Recorder -> Time]
      /\ mFrameQueue' \in [Recorder -> Seq([kind : FrameKind, time : Time])]
      /\ mFrameStore' \in FrameTimes /\ handled' \in FrameTimes
      /\ StoreIsEnd'
      /\ \A s \in Recorder \ {r} : handled'[s] = handled[s]
    BY <1>1, AlarmFrameFacts
<1>3. AlarmsArePast' /\ mLastAlarmTime' \in Time /\ ownAlarm' \in [Recorder -> Time]
    BY <1>1, QuietSteps
<1>4. /\ mState' \in [Recorder -> {"IDLE", "ALARM", "ALERT"}] /\ mState'[r] = "IDLE"
      /\ \A s \in Recorder \ {r} : mState'[s] = mState[s]
      /\ mAlarmTime' = mAlarmTime /\ mEventCount' = mEventCount
    BY <1>1 DEF TypeOK
<1>5. /\ saved' \in FrameTimes
      /\ \A s \in Recorder \ {r} : saved'[s] = saved[s] /\ notified'[s] = notified[s]
    BY <1>1, EmptyIsTyped DEF TypeOK, FrameTimes
<1>6. notified' \in [Recorder -> Seq({"BEGIN", "COMPLETE"} \X Nat)] /\ Announced(r)'
    <2>1. notified' = [notified EXCEPT ![r] = Notice(r, "COMPLETE", mEventCount[r])] /\ mState[r] # "IDLE"
        OBVIOUS
    <2>2. mEventCount[r] \in Nat
        BY <1>1 DEF TypeOK
    <2>3. QED
        BY <1>4, <2>1, <2>2, OneMoreNotice
<1>7. ASSUME NEW s \in Recorder PROVE Whole(s)' /\ Announced(s)'
    <2>1. Whole(s) /\ Announced(s)
        BY WholeIsComplete, AnnouncedIsNotified DEF RecorderInv
    <2>2. CASE s = r
        BY <1>4, <1>6, <2>2 DEF Whole
    <2>3. CASE s # r
        BY <1>2, <1>4, <1>5, <2>1, <2>3, StaysWhole, StaysAnnounced
    <2>4. QED
        BY <2>2, <2>3
<1>8. EventIsComplete' /\ EventsAreNotified'
    BY <1>7 DEF EventIsComplete, EventsAreNotified, Whole, Announced, From
<1>9. TypeOK'
    BY <1>1, <1>2, <1>3, <1>4, <1>5, <1>6 DEF TypeOK
<1>10. QED
    BY <1>2, <1>3, <1>8, <1>9 DEF RecorderInv

\* Steps that touch neither events nor alarms.
LEMMA ElsewhereStep ==
    ASSUME RecorderInv, UNCHANGED << mLastAlarmTime, event, handled, ownAlarm >>,
           now' \in Time, now' >= now, captured' \in [Recorder -> Time],
           mFrameQueue' \in [Recorder -> Seq([kind : FrameKind, time : Time])]
    PROVE  RecorderInv'
<1>1. /\ now \in Int /\ now' \in Int /\ mLastAlarmTime \in Int /\ MAX_EVENT_HEAD_AGE \in Int
      /\ handled \in FrameTimes /\ Time \subseteq Int
    BY AgeAssumption DEF RecorderInv, TypeOK, Time
<1>2. TypeOK' /\ AlarmsArePast'
    <2>1. TypeOK /\ AlarmsArePast
        BY DEF RecorderInv
    <2>2. TypeOK'
        BY <2>1 DEF TypeOK, event
    <2>3. mLastAlarmTime' = mLastAlarmTime /\ ownAlarm' = ownAlarm
        OBVIOUS
    <2>4. mLastAlarmTime <= now'
        BY <1>1, <2>1 DEF AlarmsArePast
    <2>5. QED
        BY <2>1, <2>2, <2>3, <2>4 DEF AlarmsArePast
<1>3. EventIsComplete' /\ EventsAreNotified'
    BY DEF RecorderInv, EventIsComplete, EventsAreNotified, event
<1>4. StoreIsEnd'
    <2> SUFFICES ASSUME NEW r \in Recorder
                 PROVE  \E k \in 1 .. Len(handled'[r]) + 1 :
                            /\ mFrameStore'[r] = From(handled'[r], k)
                            /\ k > 1 => handled'[r][k - 1] < now' - MAX_EVENT_HEAD_AGE
        BY DEF StoreIsEnd, From
    <2>1. PICK k \in 1 .. Len(handled[r]) + 1 :
            /\ mFrameStore[r] = From(handled[r], k)
            /\ k > 1 => handled[r][k - 1] < now - MAX_EVENT_HEAD_AGE
        BY DEF RecorderInv, StoreIsEnd
    <2>2. handled[r] \in Seq(Time) /\ Len(handled[r]) \in Nat
        BY <1>1, LenProperties DEF FrameTimes
    <2>3. k > 1 => handled[r][k - 1] \in Int
        <3> SUFFICES ASSUME k > 1 PROVE handled[r][k - 1] \in Int
            OBVIOUS
        <3>1. k - 1 \in 1 .. Len(handled[r])
            BY <2>2
        <3>2. handled[r][k - 1] \in Time
            BY <2>2, <3>1, ElementOfSeq
        <3>3. QED
            BY <1>1, <3>2
    <2>4. k > 1 => handled[r][k - 1] < now' - MAX_EVENT_HEAD_AGE
        BY <1>1, <2>1, <2>3
    <2>5. handled' = handled /\ mFrameStore' = mFrameStore
        BY DEF event
    <2>6. QED
        BY <2>1, <2>4, <2>5
<1>5. QED
    BY <1>2, <1>3, <1>4 DEF RecorderInv

LEMMA RecorderStep == ASSUME RecorderInv, [Next]_vars PROVE RecorderInv'
<1>1. TypeOK /\ now \in Int
    <2>1. TypeOK
        BY DEF RecorderInv
    <2>2. now \in Int
        BY <2>1, AgeAssumption DEF TypeOK, Time
    <2>3. QED
        BY <2>1, <2>2
<1>2. CASE Tick
    <2>1. now' \in Time /\ now' >= now
        BY <1>1, <1>2, AgeAssumption DEF TypeOK, Time, Tick
    <2>2. QED
        BY <1>1, <1>2, <2>1, ElsewhereStep DEF TypeOK, Tick
<1>3. ASSUME NEW r \in Recorder, NEW what \in FrameKind, Capture(r, what) PROVE RecorderInv'
    <2> DEFINE Frames == [kind : FrameKind, time : Time]
               arrival  == [kind |-> what, time |-> now]
    <2>1. arrival \in Frames /\ mFrameQueue[r] \in Seq(Frames) /\ mFrameQueue \in [Recorder -> Seq(Frames)]
        BY <1>1 DEF TypeOK
    <2>2. mFrameQueue' = [mFrameQueue EXCEPT ![r] = Append(@, arrival)]
        BY <1>3 DEF Capture
    <2> HIDE DEF Frames, arrival
    <2>3. Append(mFrameQueue[r], arrival) \in Seq(Frames)
        BY <2>1, AppendProperties
    <2>4. mFrameQueue' \in [Recorder -> Seq(Frames)]
        BY <2>1, <2>2, <2>3
    <2>5. now' \in Time /\ now' >= now /\ captured' \in [Recorder -> Time]
        BY <1>1, <1>3 DEF TypeOK, Capture
    <2>6. UNCHANGED << mLastAlarmTime, event, handled, ownAlarm >>
        BY <1>3 DEF Capture
    <2>7. QED
        BY <2>4, <2>5, <2>6, ElsewhereStep DEF Frames
<1>4. ASSUME NEW r \in Recorder, Ignore(r) PROVE RecorderInv'
    <2>1. Handle(r, "other") /\ UNCHANGED << mLastAlarmTime, event, handled, ownAlarm >>
        BY <1>4 DEF Ignore
    <2>2. /\ mFrameQueue' \in [Recorder -> Seq([kind : FrameKind, time : Time])]
          /\ now' = now /\ captured' = captured
        BY <1>1, <2>1, HandleFacts
    <2>3. now' \in Time /\ now' >= now /\ captured' \in [Recorder -> Time]
        BY <1>1, <2>2 DEF TypeOK
    <2>4. QED
        BY <2>1, <2>2, <2>3, ElsewhereStep
<1>5. CASE UNCHANGED vars
    <2>1. UNCHANGED << mLastAlarmTime, event, handled, ownAlarm >> /\ UNCHANGED << now, captured, mFrameQueue >>
        BY <1>5 DEF vars
    <2>2. now' \in Time /\ now' >= now
        BY <1>1, <2>1 DEF TypeOK
    <2>3. /\ captured' \in [Recorder -> Time]
          /\ mFrameQueue' \in [Recorder -> Seq([kind : FrameKind, time : Time])]
        BY <1>1, <2>1 DEF TypeOK
    <2>4. QED
        BY <2>1, <2>2, <2>3, ElsewhereStep
<1>6. QED
    BY <1>2, <1>3, <1>4, <1>5, BeginStep, ContinueStep, QuietIdleStep, QuietGoesOnStep, QuietClosesStep
    DEF Next, ProcessFrame

-----------------------------------------------------------------------------
(* Theorems *)

\* The invariant holds for any recorders, ages and times.
THEOREM RecorderInvariant == Spec => []RecorderInv
BY RecorderInitially, RecorderStep, PTL DEF Spec

\* An open event is a whole run of the frames handled, from early enough before its
\* alarm, and each event is announced and completed in turn (ozEventRecorder.cpp:63-139).
THEOREM EventsAlwaysWhole == Spec => []EventsAreWhole
<1>1. RecorderInv => EventsAreWhole
    BY DEF RecorderInv, EventsAreWhole
<1>2. QED
    BY <1>1, RecorderInvariant, PTL

\* No event is closed within the tail of its recorder's own last alarm or before the
\* shortest recording is over, whatever other recorders do with the shared time of the
\* last alarm (ozEventRecorder.cpp:99-107).
THEOREM NeverClosedEarly == Spec => ClosesAfterTail
<1> DEFINE Closing == \A r \in Recorder : mState[r] # "IDLE" /\ mState'[r] = "IDLE" =>
            /\ Head(mFrameQueue[r]).time > ownAlarm[r] + MAX_EVENT_TAIL_AGE
            /\ now - mAlarmTime[r] >= mMinTime
<1>1. ASSUME RecorderInv, [Next]_vars PROVE [Closing]_vars
    <2> SUFFICES ASSUME NEW r \in Recorder, Next, mState[r] # "IDLE", mState'[r] = "IDLE"
                 PROVE  /\ Head(mFrameQueue[r]).time > ownAlarm[r] + MAX_EVENT_TAIL_AGE
                        /\ now - mAlarmTime[r] >= mMinTime
        BY <1>1
    <2>1. TypeOK /\ AlarmsArePast
        BY <1>1 DEF RecorderInv
    <2>2. QuietCloses(r)
        <3>1. mState \in [Recorder -> {"IDLE", "ALARM", "ALERT"}]
            BY <2>1 DEF TypeOK
        <3>2. CASE Tick
            BY <3>2 DEF Tick, event
        <3>3. ASSUME NEW s \in Recorder, NEW what \in FrameKind, Capture(s, what) PROVE FALSE
            BY <3>3 DEF Capture, event
        <3>4. ASSUME NEW s \in Recorder, ProcessFrame(s) PROVE QuietCloses(r)
            BY <3>1, <3>4 DEF ProcessFrame, Ignore, BeginEvent, ContinueEvent, Alarm, QuietIdle, QuietGoesOn, QuietCloses, event
        <3>5. QED
            BY <3>2, <3>3, <3>4 DEF Next
    <2>3. Head(mFrameQueue[r]).time \in Time
        <3>1. Handle(r, "quiet")
            BY <2>2 DEF QuietCloses, HandleAlarmFrame
        <3>2. QED
            BY <2>1, <3>1, HandleFacts
    <2>4. TailOver(r) /\ LongEnough(r)
        BY <2>2 DEF QuietCloses, Closes
    <2>5. /\ now \in Int /\ mLastAlarmTime \in Int /\ ownAlarm[r] \in Int /\ mAlarmTime[r] \in Int
          /\ Head(mFrameQueue[r]).time \in Int /\ MAX_EVENT_TAIL_AGE \in Int /\ mMinTime \in Int
        BY <2>1, <2>3, AgeAssumption DEF TypeOK, Time
    <2>6. mLastAlarmTime <= now /\ ownAlarm[r] <= mLastAlarmTime
        BY <2>1 DEF AlarmsArePast
    <2> DEFINE time == Head(mFrameQueue[r]).time
    <2>7. mLastAlarmTime - time < -MAX_EVENT_TAIL_AGE /\ mLastAlarmTime - mAlarmTime[r] >= mMinTime
        BY <2>4 DEF TailOver, LongEnough
    <2> HIDE DEF time
    <2>8. time > ownAlarm[r] + MAX_EVENT_TAIL_AGE /\ now - mAlarmTime[r] >= mMinTime
        BY <2>5, <2>6, <2>7 DEF time
    <2>9. QED
        BY <2>8 DEF time
<1>2. QED
    BY <1>1, RecorderInvariant, PTL DEF Spec, ClosesAfterTail

-----------------------------------------------------------------------------
(***************************************************************************)
(* InitialFrames.  A stream starts with the frame its decoder needs.       *)
(***************************************************************************)

(* What Append and the empty sequence are. *)
LEMMA QueueAppended ==
  ASSUME NEW S, NEW q \in Seq(S), NEW f \in S
  PROVE  /\ Append(q, f) \in Seq(S) /\ Len(Append(q, f)) = Len(q) + 1 /\ Len(q) \in Nat
         /\ DOMAIN q = 1 .. Len(q) /\ DOMAIN Append(q, f) = 1 .. Len(q) + 1
         /\ \A i \in 1 .. Len(q) : Append(q, f)[i] = q[i]
         /\ Append(q, f)[Len(q) + 1] = f
OBVIOUS

LEMMA QueueEmptied == ASSUME NEW S PROVE << >> \in Seq(S) /\ DOMAIN << >> = {}
OBVIOUS

(* The initial state satisfies the invariant. *)
LEMMA InitialStarts == InitialInit => InitialInv
<1> SUFFICES ASSUME InitialInit PROVE InitialInv
  OBVIOUS
<1>1. /\ encoderQueue = << >> /\ encoderFrames = 0 /\ encoderStep = "start" /\ outputs = 0
      /\ mSps = FALSE /\ mInitialFrame = 0 /\ mConsumers = {} /\ early = {} /\ kind \in Kinds
      /\ inHand = None
  BY DEF InitialInit
<1>2. joining = [c \in Client |-> "out"] /\ queued = [c \in Client |-> << >>]
  BY DEF InitialInit
<1> DEFINE e == << >>
<1>3. e \in Seq(ClientFrame) /\ e \in Seq(CodedFrame) /\ DOMAIN e = {}
  BY QueueEmptied
<1>4. encoderQueue = e /\ \A c \in Client : queued[c] = e
  BY <1>1, <1>2
<1> HIDE DEF e
<1>5. kind \in {"relay", "h264", "mpeg"}
  BY <1>1, InitialAssumption
<1>6. None \in CodedFrame
  BY DEF None, CodedFrame, Units
<1>7. InitialTyped
  <2>1. joining \in [Client -> {"out", "look", "in"}]
    BY <1>2
  <2>2. queued \in [Client -> Seq(ClientFrame)]
    BY <1>2, <1>3, <1>4
  <2> QED
    BY <1>1, <1>3, <1>4, <1>5, <1>6, <2>1, <2>2 DEF InitialTyped, HandSteps
<1>8. StepsOfInitial /\ HandIsNext
  BY <1>1, <1>5 DEF StepsOfInitial, HandIsNext, HandSteps
<1>9. QueueIsNext /\ SentBefore /\ SentInOrder /\ SentFromInitial
  BY <1>3, <1>4 DEF QueueIsNext, SentBefore, SentInOrder, SentFromInitial, Fresh
<1>10. RelayGives /\ EncoderGives
  BY <1>1, <1>2 DEF RelayGives, EncoderGives
<1> QED
  BY <1>7, <1>8, <1>9, <1>10 DEF InitialInv

(* What the frames are that wait, that are in hand and that clients have. *)
LEMMA NumbersTyped ==
  ASSUME InitialTyped
  PROVE  /\ inHand.n \in Nat /\ encoderFrames \in Nat /\ outputs \in Nat /\ mInitialFrame \in Nat
         /\ \A i \in DOMAIN encoderQueue : encoderQueue[i].n \in Nat
         /\ \A c \in Client : DOMAIN queued[c] = 1 .. Len(queued[c]) /\ Len(queued[c]) \in Nat
         /\ \A c \in Client : \A j \in DOMAIN queued[c] :
                queued[c][j].n \in Nat /\ queued[c][j].again \in BOOLEAN /\ queued[c][j].whole \in BOOLEAN
<1>1. inHand.n \in Nat /\ encoderFrames \in Nat /\ outputs \in Nat /\ mInitialFrame \in Nat
  BY DEF InitialTyped, CodedFrame
<1>2. \A i \in DOMAIN encoderQueue : encoderQueue[i] \in CodedFrame
  BY DEF InitialTyped
<1>3. \A c \in Client : queued[c] \in Seq(ClientFrame)
  BY DEF InitialTyped
<1>4. \A c \in Client : /\ DOMAIN queued[c] = 1 .. Len(queued[c]) /\ Len(queued[c]) \in Nat
                         /\ \A j \in DOMAIN queued[c] : queued[c][j] \in ClientFrame
  <2> TAKE c \in Client
  <2> DEFINE q == queued[c]
  <2>1. q \in Seq(ClientFrame)
    BY <1>3
  <2> HIDE DEF q
  <2>2. DOMAIN q = 1 .. Len(q) /\ Len(q) \in Nat /\ \A j \in DOMAIN q : q[j] \in ClientFrame
    BY <2>1
  <2> QED
    BY <2>2 DEF q
<1> QED
  BY <1>1, <1>2, <1>4 DEF CodedFrame, ClientFrame

(* A client registers: it has nothing yet, and is early unless the frame is there. *)
LEMMA RegisterKeeps ==
  ASSUME InitialInv, NEW c \in Client, Register(c)
  PROVE  InitialInv'
<1>1. /\ joining[c] = "out"
      /\ mConsumers' = mConsumers \cup {c}
      /\ joining' = [joining EXCEPT ![c] = IF kind = "mpeg" THEN "in" ELSE "look"]
      /\ early' = IF mInitialFrame = 0 \/ encoderStep = "copy" THEN early \cup {c} ELSE early
  BY DEF Register
<1>2. /\ kind' = kind
      /\ encoderQueue' = encoderQueue
      /\ encoderFrames' = encoderFrames
      /\ encoderStep' = encoderStep
      /\ inHand' = inHand
      /\ outputs' = outputs
      /\ mSps' = mSps
      /\ mInitialFrame' = mInitialFrame
      /\ queued' = queued
  BY DEF Register, clientVars, encoderVars
<1>3. /\ InitialTyped /\ StepsOfInitial /\ HandIsNext /\ QueueIsNext /\ SentBefore /\ SentInOrder
      /\ SentFromInitial /\ RelayGives /\ EncoderGives
  BY DEF InitialInv
<1>4. InitialTyped'
  BY <1>1, <1>2, <1>3 DEF InitialTyped, HandSteps
<1>5. StepsOfInitial'
  BY <1>1, <1>2, <1>3 DEF InitialTyped, StepsOfInitial, HandSteps
<1>6. HandIsNext'
  BY <1>1, <1>2, <1>3 DEF InitialTyped, HandIsNext, HandSteps
<1>7. QueueIsNext'
  BY <1>1, <1>2, <1>3 DEF InitialTyped, QueueIsNext, HandSteps
<1>8. SentBefore'
  BY <1>1, <1>2, <1>3 DEF InitialTyped, SentBefore, HandSteps
<1>9. SentInOrder'
  BY <1>1, <1>2, <1>3 DEF InitialTyped, SentInOrder, Fresh
<1>10. SentFromInitial'
  BY <1>1, <1>2, <1>3 DEF InitialTyped, SentFromInitial
<1>11. RelayGives'
  BY <1>1, <1>2, <1>3 DEF InitialTyped, RelayGives, HasInitial
<1>12. EncoderGives'
  BY <1>1, <1>2, <1>3 DEF InitialTyped, EncoderGives, HasInitial
<1> QED
  BY <1>4, <1>5, <1>6, <1>7, <1>8, <1>9, <1>10, <1>11, <1>12 DEF InitialInv

(* A loop starts, or does not. *)
LEMMA StartsKeep ==
  ASSUME InitialInv, Starts
  PROVE  InitialInv'
<1>1. /\ encoderStep = "start" /\ encoderStep' \in {"take", "ended", "fatal"}
  BY DEF Starts
<1>2. /\ kind' = kind
      /\ encoderQueue' = encoderQueue
      /\ encoderFrames' = encoderFrames
      /\ inHand' = inHand
      /\ outputs' = outputs
      /\ mSps' = mSps
      /\ mInitialFrame' = mInitialFrame
      /\ mConsumers' = mConsumers
      /\ joining' = joining
      /\ early' = early
      /\ queued' = queued
  BY DEF Starts, clientVars, encoderVars
<1>3. /\ InitialTyped /\ StepsOfInitial /\ HandIsNext /\ QueueIsNext /\ SentBefore /\ SentInOrder
      /\ SentFromInitial /\ RelayGives /\ EncoderGives
  BY DEF InitialInv
<1>4. InitialTyped'
  BY <1>1, <1>2, <1>3 DEF InitialTyped, HandSteps
<1>5. StepsOfInitial'
  BY <1>1, <1>2, <1>3 DEF InitialTyped, StepsOfInitial, HandSteps
<1>6. HandIsNext'
  BY <1>1, <1>2, <1>3 DEF InitialTyped, HandIsNext, HandSteps
<1>7. QueueIsNext'
  BY <1>1, <1>2, <1>3 DEF InitialTyped, QueueIsNext, HandSteps
<1>8. SentBefore'
  BY <1>1, <1>2, <1>3 DEF InitialTyped, SentBefore, HandSteps
<1>9. SentInOrder'
  BY <1>1, <1>2, <1>3 DEF InitialTyped, SentInOrder, Fresh
<1>10. SentFromInitial'
  BY <1>1, <1>2, <1>3 DEF InitialTyped, SentFromInitial
<1>11. RelayGives'
  BY <1>1, <1>2, <1>3 DEF InitialTyped, RelayGives, HasInitial
<1>12. EncoderGives'
  BY <1>1, <1>2, <1>3 DEF InitialTyped, EncoderGives, HasInitial
<1> QED
  BY <1>4, <1>5, <1>6, <1>7, <1>8, <1>9, <1>10, <1>11, <1>12 DEF InitialInv

(* The bytes of the initial frame are there: a relay goes on to send it. *)
LEMMA CopiedKeeps ==
  ASSUME InitialInv, Copied
  PROVE  InitialInv'
<1>1. /\ encoderStep = "copy"
      /\ encoderStep' = IF kind = "relay" THEN "distribute" ELSE "take"
      /\ inHand' = IF kind = "relay" THEN inHand ELSE None
  BY DEF Copied, PassesInitial
<1>2. /\ kind' = kind
      /\ encoderQueue' = encoderQueue
      /\ encoderFrames' = encoderFrames
      /\ outputs' = outputs
      /\ mSps' = mSps
      /\ mInitialFrame' = mInitialFrame
      /\ mConsumers' = mConsumers
      /\ joining' = joining
      /\ early' = early
      /\ queued' = queued
  BY DEF Copied, PassesInitial, clientVars, encoderVars
<1>3. /\ InitialTyped /\ StepsOfInitial /\ HandIsNext /\ QueueIsNext /\ SentBefore /\ SentInOrder
      /\ SentFromInitial /\ RelayGives /\ EncoderGives
  BY DEF InitialInv
<1>4. None \in CodedFrame /\ None.n = 0
  BY DEF None, CodedFrame, Units
<1>5. InitialTyped'
  BY <1>1, <1>2, <1>3, <1>4 DEF InitialTyped, HandSteps
<1>6. StepsOfInitial'
  BY <1>1, <1>2, <1>3, <1>4 DEF InitialTyped, StepsOfInitial, HandSteps
<1>7. HandIsNext'
  BY <1>1, <1>2, <1>3, <1>4 DEF InitialTyped, HandIsNext, HandSteps
<1>8. QueueIsNext'
  BY <1>1, <1>2, <1>3, <1>4 DEF InitialTyped, QueueIsNext, HandSteps
<1>9. SentBefore'
  BY <1>1, <1>2, <1>3, <1>4 DEF InitialTyped, SentBefore, HandSteps
<1>10. SentInOrder'
  BY <1>1, <1>2, <1>3, <1>4 DEF InitialTyped, SentInOrder, Fresh
<1>11. SentFromInitial'
  BY <1>1, <1>2, <1>3, <1>4 DEF InitialTyped, SentFromInitial
<1>12. RelayGives'
  BY <1>1, <1>2, <1>3, <1>4 DEF InitialTyped, StepsOfInitial, RelayGives, HasInitial
<1>13. EncoderGives'
  BY <1>1, <1>2, <1>3, <1>4 DEF InitialTyped, EncoderGives, HasInitial
<1> QED
  BY <1>5, <1>6, <1>7, <1>8, <1>9, <1>10, <1>11, <1>12, <1>13 DEF InitialInv

(* The loop ends and lets its clients go. *)
LEMMA StopKeeps ==
  ASSUME InitialInv, StopEncoder
  PROVE  InitialInv'
<1>1. /\ encoderStep = "take" /\ encoderStep' = "ended"
      /\ mConsumers' = {}
  BY DEF StopEncoder
<1>2. /\ kind' = kind
      /\ encoderQueue' = encoderQueue
      /\ encoderFrames' = encoderFrames
      /\ inHand' = inHand
      /\ outputs' = outputs
      /\ mSps' = mSps
      /\ mInitialFrame' = mInitialFrame
      /\ joining' = joining
      /\ early' = early
      /\ queued' = queued
  BY DEF StopEncoder, clientVars, encoderVars
<1>3. /\ InitialTyped /\ StepsOfInitial /\ HandIsNext /\ QueueIsNext /\ SentBefore /\ SentInOrder
      /\ SentFromInitial /\ RelayGives /\ EncoderGives
  BY DEF InitialInv
<1>4. InitialTyped'
  BY <1>1, <1>2, <1>3 DEF InitialTyped, HandSteps
<1>5. StepsOfInitial'
  BY <1>1, <1>2, <1>3 DEF InitialTyped, StepsOfInitial, HandSteps
<1>6. HandIsNext'
  BY <1>1, <1>2, <1>3 DEF InitialTyped, HandIsNext, HandSteps
<1>7. QueueIsNext'
  BY <1>1, <1>2, <1>3 DEF InitialTyped, QueueIsNext, HandSteps
<1>8. SentBefore'
  BY <1>1, <1>2, <1>3 DEF InitialTyped, SentBefore, HandSteps
<1>9. SentInOrder'
  BY <1>1, <1>2, <1>3 DEF InitialTyped, SentInOrder, Fresh
<1>10. SentFromInitial'
  BY <1>1, <1>2, <1>3 DEF InitialTyped, SentFromInitial
<1>11. RelayGives'
  BY <1>1, <1>2, <1>3 DEF InitialTyped, RelayGives, HasInitial
<1>12. EncoderGives'
  BY <1>1, <1>2, <1>3 DEF InitialTyped, EncoderGives, HasInitial
<1> QED
  BY <1>4, <1>5, <1>6, <1>7, <1>8, <1>9, <1>10, <1>11, <1>12 DEF InitialInv

(* The scan of a relay: the frame may become the initial one, once its parameters are known. *)
LEMMA RelayScanKeeps ==
  ASSUME InitialInv, RelayScans
  PROVE  InitialInv'
<1>1. /\ kind = "relay" /\ encoderStep = "scan"
      /\ mSps' = (mSps \/ inHand.units = "sps")
      /\ encoderStep' \in {"fatal", "copy", "take"}
      /\ encoderStep' = "copy" => mInitialFrame' = inHand.n
      /\ encoderStep' # "copy" => mInitialFrame' = mInitialFrame
      /\ encoderStep' = "take" => inHand' = None
      /\ encoderStep' # "take" => inHand' = inHand
  BY DEF RelayScans, ScanUnits
<1>2. /\ kind' = kind
      /\ encoderQueue' = encoderQueue
      /\ encoderFrames' = encoderFrames
      /\ outputs' = outputs
      /\ mConsumers' = mConsumers
      /\ joining' = joining
      /\ early' = early
      /\ queued' = queued
  BY DEF RelayScans, ScanUnits, clientVars, encoderVars
<1>3. /\ InitialTyped /\ StepsOfInitial /\ HandIsNext /\ QueueIsNext /\ SentBefore /\ SentInOrder
      /\ SentFromInitial /\ RelayGives /\ EncoderGives
  BY DEF InitialInv
<1>4. None \in CodedFrame /\ None.n = 0 /\ inHand.n \in Nat /\ inHand.n > 0 /\ mInitialFrame = 0 /\ mInitialFrame' \in Nat
      /\ \A c \in Client : DOMAIN queued[c] = {}
  <2>1. None \in CodedFrame /\ None.n = 0
    BY DEF None, CodedFrame, Units
  <2>2. inHand.n \in Nat /\ inHand.n > 0 /\ mInitialFrame = 0
    BY <1>1, <1>3 DEF CodedFrame, InitialTyped, StepsOfInitial, HandSteps
  <2>3. mInitialFrame' \in Nat
    BY <1>1, <2>2
  <2>4. \A c \in Client : DOMAIN queued[c] = {}
    BY <1>1, <1>3, <2>2 DEF SentFromInitial
  <2> QED
    BY <2>1, <2>2, <2>3, <2>4
<1>5. InitialTyped'
  <2>1. mSps' \in BOOLEAN
    BY <1>1
  <2> QED
    BY <2>1, <1>1, <1>2, <1>3, <1>4 DEF InitialTyped, HandSteps
<1>6. StepsOfInitial'
  BY <1>1, <1>2, <1>3, <1>4 DEF InitialTyped, StepsOfInitial, HandSteps
<1>7. HandIsNext'
  BY <1>1, <1>2, <1>3, <1>4 DEF InitialTyped, HandIsNext, HandSteps
<1>8. QueueIsNext'
  BY <1>1, <1>2, <1>3, <1>4 DEF InitialTyped, QueueIsNext, HandSteps
<1>9. SentBefore'
  BY <1>1, <1>2, <1>3, <1>4 DEF InitialTyped, SentBefore, HandSteps
<1>10. SentInOrder'
  BY <1>1, <1>2, <1>3, <1>4 DEF InitialTyped, SentInOrder, Fresh
<1>11. SentFromInitial'
  BY <1>1, <1>2, <1>3, <1>4 DEF InitialTyped, SentFromInitial
<1>12. RelayGives'
  BY <1>1, <1>2, <1>3, <1>4 DEF InitialTyped, RelayGives, HasInitial
<1>13. EncoderGives'
  BY <1>1, <1>2, <1>3, <1>4 DEF InitialTyped, EncoderGives, HasInitial
<1> QED
  BY <1>5, <1>6, <1>7, <1>8, <1>9, <1>10, <1>11, <1>12, <1>13 DEF InitialInv

(* The scan of an encoder: its first picture is the initial frame. *)
LEMMA H264ScanKeeps ==
  ASSUME InitialInv, H264Scans
  PROVE  InitialInv'
<1>1. /\ kind = "h264" /\ encoderStep = "scan"
      /\ mSps' = (mSps \/ inHand.units = "sps")
      /\ encoderStep' \in {"fatal", "copy", "take"}
      /\ encoderStep' = "copy" => mInitialFrame' = inHand.n
      /\ encoderStep' # "copy" => mInitialFrame' = mInitialFrame
      /\ encoderStep' = "take" => inHand' = None
      /\ encoderStep' # "take" => inHand' = inHand
  BY DEF H264Scans, ScanUnits
<1>2. /\ kind' = kind
      /\ encoderQueue' = encoderQueue
      /\ encoderFrames' = encoderFrames
      /\ outputs' = outputs
      /\ mConsumers' = mConsumers
      /\ joining' = joining
      /\ early' = early
      /\ queued' = queued
  BY DEF H264Scans, ScanUnits, clientVars, encoderVars
<1>3. /\ InitialTyped /\ StepsOfInitial /\ HandIsNext /\ QueueIsNext /\ SentBefore /\ SentInOrder
      /\ SentFromInitial /\ RelayGives /\ EncoderGives
  BY DEF InitialInv
<1>4. None \in CodedFrame /\ None.n = 0 /\ inHand.n \in Nat /\ inHand.n > 0 /\ mInitialFrame = 0 /\ mInitialFrame' \in Nat
      /\ \A c \in Client : DOMAIN queued[c] = {}
  <2>1. None \in CodedFrame /\ None.n = 0
    BY DEF None, CodedFrame, Units
  <2>2. inHand.n \in Nat /\ inHand.n > 0 /\ mInitialFrame = 0
    BY <1>1, <1>3 DEF CodedFrame, InitialTyped, StepsOfInitial, HandSteps
  <2>3. mInitialFrame' \in Nat
    BY <1>1, <2>2
  <2>4. \A c \in Client : DOMAIN queued[c] = {}
    BY <1>1, <1>3, <2>2 DEF SentFromInitial
  <2> QED
    BY <2>1, <2>2, <2>3, <2>4
<1>5. InitialTyped'
  <2>1. mSps' \in BOOLEAN
    BY <1>1
  <2> QED
    BY <2>1, <1>1, <1>2, <1>3, <1>4 DEF InitialTyped, HandSteps
<1>6. StepsOfInitial'
  BY <1>1, <1>2, <1>3, <1>4 DEF InitialTyped, StepsOfInitial, HandSteps
<1>7. HandIsNext'
  BY <1>1, <1>2, <1>3, <1>4 DEF InitialTyped, HandIsNext, HandSteps
<1>8. QueueIsNext'
  BY <1>1, <1>2, <1>3, <1>4 DEF InitialTyped, QueueIsNext, HandSteps
<1>9. SentBefore'
  BY <1>1, <1>2, <1>3, <1>4 DEF InitialTyped, SentBefore, HandSteps
<1>10. SentInOrder'
  BY <1>1, <1>2, <1>3, <1>4 DEF InitialTyped, SentInOrder, Fresh
<1>11. SentFromInitial'
  BY <1>1, <1>2, <1>3, <1>4 DEF InitialTyped, SentFromInitial
<1>12. RelayGives'
  BY <1>1, <1>2, <1>3, <1>4 DEF InitialTyped, RelayGives, HasInitial
<1>13. EncoderGives'
  BY <1>1, <1>2, <1>3, <1>4 DEF InitialTyped, EncoderGives, HasInitial
<1> QED
  BY <1>5, <1>6, <1>7, <1>8, <1>9, <1>10, <1>11, <1>12, <1>13 DEF InitialInv
(* A frame arrives: it is younger than all there is. *)
LEMMA QueueKeeps ==
  ASSUME InitialInv, NEW u \in Units, queueEncoderFrame(u)
  PROVE  InitialInv'
<1>1. /\ encoderFrames' = encoderFrames + 1
      /\ encoderQueue' = Append(encoderQueue, [n |-> encoderFrames + 1, units |-> u])
  BY DEF queueEncoderFrame
<1>2. /\ kind' = kind /\ encoderStep' = encoderStep /\ inHand' = inHand /\ outputs' = outputs /\ mSps' = mSps
      /\ mInitialFrame' = mInitialFrame /\ mConsumers' = mConsumers /\ joining' = joining /\ early' = early
      /\ queued' = queued
  BY DEF queueEncoderFrame, clientVars
<1>3. /\ InitialTyped /\ StepsOfInitial /\ HandIsNext /\ QueueIsNext /\ SentBefore /\ SentInOrder
      /\ SentFromInitial /\ RelayGives /\ EncoderGives
  BY DEF InitialInv
<1>4. /\ inHand.n \in Nat /\ encoderFrames \in Nat /\ outputs \in Nat /\ mInitialFrame \in Nat
      /\ \A i \in DOMAIN encoderQueue : encoderQueue[i].n \in Nat
      /\ \A c \in Client : \A j \in DOMAIN queued[c] : queued[c][j].n \in Nat
  BY <1>3, NumbersTyped
<1>5. /\ encoderQueue' \in Seq(CodedFrame)
      /\ \A i \in DOMAIN encoderQueue' :
            \/ i \in DOMAIN encoderQueue /\ encoderQueue'[i] = encoderQueue[i]
            \/ encoderQueue'[i].n = encoderFrames + 1
  <2> DEFINE f == [n |-> encoderFrames + 1, units |-> u]
  <2>1. encoderQueue \in Seq(CodedFrame)
    BY <1>3 DEF InitialTyped
  <2>2. f \in CodedFrame /\ f.n = encoderFrames + 1
    BY <1>4 DEF CodedFrame
  <2>3. encoderQueue' = Append(encoderQueue, f)
    BY <1>1
  <2> HIDE DEF f
  <2>4. /\ encoderQueue' \in Seq(CodedFrame) /\ DOMAIN encoderQueue' = 1 .. Len(encoderQueue) + 1
        /\ DOMAIN encoderQueue = 1 .. Len(encoderQueue) /\ Len(encoderQueue) \in Nat
        /\ \A i \in 1 .. Len(encoderQueue) : encoderQueue'[i] = encoderQueue[i]
        /\ encoderQueue'[Len(encoderQueue) + 1] = f
    BY <2>1, <2>2, <2>3, QueueAppended
  <2> QED
    BY <2>2, <2>4
<1>6. InitialTyped'
  BY <1>1, <1>2, <1>3, <1>4, <1>5 DEF InitialTyped, HandSteps
<1>7. StepsOfInitial'
  BY <1>2, <1>3 DEF StepsOfInitial, HandSteps
<1>8. HandIsNext'
  BY <1>1, <1>2, <1>3, <1>4 DEF HandIsNext, HandSteps
<1>9. QueueIsNext'
  <2> SUFFICES ASSUME NEW i \in DOMAIN encoderQueue'
      PROVE  /\ encoderQueue'[i].n \in 1 .. encoderFrames + 1
             /\ kind = "relay" =>
                  /\ mInitialFrame < encoderQueue'[i].n
                  /\ encoderStep \in HandSteps => inHand.n < encoderQueue'[i].n
                  /\ \A c \in Client : \A j \in DOMAIN queued[c] : queued[c][j].n < encoderQueue'[i].n
    BY <1>1, <1>2 DEF QueueIsNext, HandSteps
  <2>1. CASE i \in DOMAIN encoderQueue /\ encoderQueue'[i] = encoderQueue[i]
    BY <2>1, <1>3, <1>4 DEF QueueIsNext
  <2>2. CASE encoderQueue'[i].n = encoderFrames + 1
    <3>1. kind = "relay" => mInitialFrame <= encoderFrames /\ (encoderStep \in HandSteps => inHand.n <= encoderFrames)
      BY <1>3 DEF HandIsNext
    <3>2. kind = "relay" => \A c \in Client : \A j \in DOMAIN queued[c] : queued[c][j].n <= encoderFrames
      BY <1>3 DEF SentBefore
    <3> QED
      BY <2>2, <3>1, <3>2, <1>4
  <2> QED
    BY <2>1, <2>2, <1>5
<1>10. SentBefore'
  BY <1>1, <1>2, <1>3, <1>4 DEF SentBefore, HandSteps
<1>11. SentInOrder' /\ SentFromInitial'
  BY <1>2, <1>3 DEF SentInOrder, SentFromInitial, Fresh
<1>12. RelayGives' /\ EncoderGives'
  BY <1>2, <1>3 DEF RelayGives, EncoderGives, HasInitial
<1> QED
  BY <1>6, <1>7, <1>8, <1>9, <1>10, <1>11, <1>12 DEF InitialInv

(* The loop takes the first frame of its queue, if it is of use, and drops the others. *)
LEMMA TakeKeeps ==
  ASSUME InitialInv, NEW used \in BOOLEAN, NEW next, TakeIf(used, next),
         next \in {"scan", "distribute", "encode"},
         next = "scan" => kind = "relay" /\ mInitialFrame = 0,
         next = "distribute" => kind = "relay" /\ mInitialFrame # 0,
         next = "encode" => kind # "relay"
  PROVE  InitialInv'
<1> DEFINE e == << >>
<1>1. /\ encoderStep = "take" /\ encoderQueue # e /\ encoderQueue' = e
      /\ used => inHand' = Head(encoderQueue) /\ encoderStep' = next
      /\ ~used => inHand' = None /\ encoderStep' = "take"
  BY DEF TakeIf
<1>2. /\ kind' = kind /\ encoderFrames' = encoderFrames /\ outputs' = outputs /\ mSps' = mSps
      /\ mInitialFrame' = mInitialFrame /\ mConsumers' = mConsumers /\ joining' = joining /\ early' = early
      /\ queued' = queued
  BY DEF TakeIf, clientVars
<1>3. /\ InitialTyped /\ StepsOfInitial /\ HandIsNext /\ QueueIsNext /\ SentBefore /\ SentInOrder
      /\ SentFromInitial /\ RelayGives /\ EncoderGives
  BY DEF InitialInv
<1>4. e \in Seq(CodedFrame) /\ DOMAIN e = {}
  BY QueueEmptied
<1>5. None \in CodedFrame
  BY DEF None, CodedFrame, Units
<1>6. 1 \in DOMAIN encoderQueue /\ Head(encoderQueue) = encoderQueue[1] /\ encoderQueue[1] \in CodedFrame
  <2>1. encoderQueue \in Seq(CodedFrame)
    BY <1>3 DEF InitialTyped
  <2> QED
    BY <2>1, <1>1
<1> HIDE DEF e
<1>7. /\ inHand.n \in Nat /\ encoderFrames \in Nat /\ outputs \in Nat /\ mInitialFrame \in Nat
      /\ \A c \in Client : \A j \in DOMAIN queued[c] : queued[c][j].n \in Nat
      /\ encoderQueue[1].n \in Nat
  BY <1>3, <1>6, NumbersTyped
<1>8. /\ encoderQueue[1].n \in 1 .. encoderFrames
      /\ kind = "relay" =>
            /\ mInitialFrame < encoderQueue[1].n
            /\ \A c \in Client : \A j \in DOMAIN queued[c] : queued[c][j].n < encoderQueue[1].n
  BY <1>3, <1>6 DEF QueueIsNext
<1>9. /\ encoderStep' \in {"take", "scan", "distribute", "encode"}
      /\ encoderStep' \in HandSteps => kind = "relay" /\ inHand' = encoderQueue[1]
      /\ encoderStep' = "scan" => mInitialFrame = 0
      /\ encoderStep' = "distribute" => mInitialFrame # 0
      /\ encoderStep' = "encode" => kind # "relay"
      /\ inHand' \in CodedFrame
  BY <1>1, <1>5, <1>6 DEF HandSteps
<1>10. InitialTyped'
  BY <1>1, <1>2, <1>3, <1>4, <1>9 DEF InitialTyped, HandSteps
<1>11. StepsOfInitial'
  BY <1>2, <1>3, <1>7, <1>8, <1>9 DEF StepsOfInitial, HandSteps
<1>12. HandIsNext'
  BY <1>2, <1>3, <1>7, <1>8, <1>9 DEF HandIsNext, HandSteps
<1>13. QueueIsNext'
  BY <1>1, <1>4 DEF QueueIsNext
<1>14. SentBefore'
  <2> SUFFICES ASSUME NEW c \in Client, NEW j \in DOMAIN queued[c]
      PROVE  /\ kind = "relay" => queued[c][j].n <= encoderFrames
             /\ queued[c][j].again => queued[c][j].n = mInitialFrame
             /\ ~queued[c][j].again => /\ kind # "relay" => queued[c][j].n <= outputs
                                       /\ encoderStep' \in HandSteps => queued[c][j].n < inHand'.n
    BY <1>2 DEF SentBefore, HandSteps
  <2>1. encoderStep' \in HandSteps => queued[c][j].n < inHand'.n
    BY <1>8, <1>9
  <2> QED
    BY <2>1, <1>3 DEF SentBefore
<1>15. SentInOrder' /\ SentFromInitial'
  BY <1>2, <1>3 DEF SentInOrder, SentFromInitial, Fresh
<1>16. RelayGives' /\ EncoderGives'
  <2>1. RelayGives'
    BY <1>1, <1>2, <1>3 DEF RelayGives, HasInitial
  <2>2. EncoderGives'
    BY <1>2, <1>3, <1>9 DEF EncoderGives, HasInitial
  <2> QED
    BY <2>1, <2>2
<1> QED
  BY <1>10, <1>11, <1>12, <1>13, <1>14, <1>15, <1>16 DEF InitialInv

(* The codec puts out nothing, or its next picture. *)
LEMMA EncodeKeeps ==
  ASSUME InitialInv, NEW next, Encodes(next), kind # "relay", kind = "mpeg" => next = "distribute",
         kind = "h264" => next = IF mInitialFrame = 0 THEN "scan" ELSE "distribute"
  PROVE  InitialInv'
<1>1. /\ encoderStep = "encode"
      /\ \/ encoderStep' = "take" /\ inHand' = None /\ outputs' = outputs
         \/ /\ encoderStep' = next /\ outputs' = outputs + 1
            /\ inHand' = [n |-> outputs + 1, units |-> IF outputs = 0 THEN "sps" ELSE "slice"]
  BY DEF Encodes
<1>2. /\ kind' = kind /\ encoderFrames' = encoderFrames /\ encoderQueue' = encoderQueue /\ mSps' = mSps
      /\ mInitialFrame' = mInitialFrame /\ mConsumers' = mConsumers /\ joining' = joining /\ early' = early
      /\ queued' = queued
  BY DEF Encodes, clientVars
<1>3. /\ InitialTyped /\ StepsOfInitial /\ HandIsNext /\ QueueIsNext /\ SentBefore /\ SentInOrder
      /\ SentFromInitial /\ RelayGives /\ EncoderGives
  BY DEF InitialInv
<1>4. /\ encoderFrames \in Nat /\ outputs \in Nat /\ mInitialFrame \in Nat
      /\ \A c \in Client : \A j \in DOMAIN queued[c] : queued[c][j].n \in Nat
  BY <1>3, NumbersTyped
<1>5. kind \in {"h264", "mpeg"}
  BY <1>3 DEF InitialTyped
<1>6. /\ None \in CodedFrame
      /\ [n |-> outputs + 1, units |-> IF outputs = 0 THEN "sps" ELSE "slice"] \in CodedFrame
  BY <1>4 DEF None, CodedFrame, Units
<1>7. /\ inHand' \in CodedFrame /\ outputs' \in Nat /\ outputs' >= outputs
      /\ encoderStep' \in {"take", "scan", "distribute"}
      /\ encoderStep' \in HandSteps => inHand'.n = outputs + 1 /\ outputs' = outputs + 1
      /\ encoderStep' = "scan" => mInitialFrame = 0 /\ kind = "h264"
      /\ encoderStep' = "distribute" /\ kind = "h264" => mInitialFrame # 0
  <2>1. CASE encoderStep' = "take" /\ inHand' = None /\ outputs' = outputs
    BY <2>1, <1>4, <1>6 DEF HandSteps
  <2>2. CASE /\ encoderStep' = next /\ outputs' = outputs + 1
             /\ inHand' = [n |-> outputs + 1, units |-> IF outputs = 0 THEN "sps" ELSE "slice"]
    <3>1. inHand' \in CodedFrame /\ inHand'.n = outputs + 1 /\ outputs' \in Nat /\ outputs' >= outputs
      BY <2>2, <1>4, <1>6
    <3>2. /\ encoderStep' \in {"scan", "distribute"}
          /\ encoderStep' = "scan" => mInitialFrame = 0 /\ kind = "h264"
          /\ encoderStep' = "distribute" /\ kind = "h264" => mInitialFrame # 0
      BY <2>2, <1>5
    <3> QED
      BY <2>2, <3>1, <3>2
  <2> QED
    BY <1>1, <2>1, <2>2
<1>8. InitialTyped'
  BY <1>2, <1>3, <1>7 DEF InitialTyped, HandSteps
<1>9. StepsOfInitial'
  BY <1>2, <1>3, <1>4, <1>5, <1>7 DEF StepsOfInitial, HandIsNext, HandSteps
<1>10. HandIsNext'
  BY <1>2, <1>3, <1>4, <1>5, <1>7 DEF HandIsNext, HandSteps
<1>11. QueueIsNext'
  BY <1>2, <1>3, <1>5 DEF QueueIsNext
<1>12. SentBefore'
  <2> SUFFICES ASSUME NEW c \in Client, NEW j \in DOMAIN queued[c]
      PROVE  /\ queued[c][j].again => queued[c][j].n = mInitialFrame
             /\ ~queued[c][j].again => /\ queued[c][j].n <= outputs'
                                       /\ encoderStep' \in HandSteps => queued[c][j].n < inHand'.n
    BY <1>2, <1>5 DEF SentBefore, HandSteps
  <2>1. /\ queued[c][j].again => queued[c][j].n = mInitialFrame
        /\ ~queued[c][j].again => queued[c][j].n <= outputs
    BY <1>3, <1>5 DEF SentBefore
  <2> QED
    BY <2>1, <1>4, <1>7
<1>13. SentInOrder' /\ SentFromInitial'
  BY <1>2, <1>3 DEF SentInOrder, SentFromInitial, Fresh
<1>14. RelayGives' /\ EncoderGives'
  <2>1. RelayGives'
    BY <1>2, <1>5 DEF RelayGives
  <2>2. EncoderGives'
    BY <1>2, <1>3, <1>7 DEF EncoderGives, HasInitial
  <2> QED
    BY <2>1, <2>2
<1> QED
  BY <1>8, <1>9, <1>10, <1>11, <1>12, <1>13, <1>14 DEF InitialInv

(* What a client's frames satisfy. *)
Suits(f) ==
  /\ f \in ClientFrame
  /\ kind = "relay" => f.n <= encoderFrames /\ \A i \in DOMAIN encoderQueue : f.n < encoderQueue[i].n
  /\ f.again => f.n = mInitialFrame
  /\ ~f.again => /\ kind # "relay" => f.n <= outputs
                 /\ encoderStep \in HandSteps => f.n < inHand.n
  /\ kind # "mpeg" => mInitialFrame > 0 /\ f.n >= mInitialFrame
Ascends(q) == \A i, j \in DOMAIN q : ~q[i].again /\ ~q[j].again /\ i < j => q[i].n < q[j].n

(* The parts of the invariant about clients' frames, put together. *)
LEMMA SuitsIs ==
  ASSUME InitialTyped, QueueIsNext, SentBefore, SentInOrder, SentFromInitial
  PROVE  \A c \in Client : /\ queued[c] \in Seq(ClientFrame) /\ Ascends(queued[c])
                           /\ \A j \in DOMAIN queued[c] : Suits(queued[c][j])
<1> TAKE c \in Client
<1>1. queued[c] \in Seq(ClientFrame)
  BY DEF InitialTyped
<1>2. Ascends(queued[c])
  BY DEF Ascends, SentInOrder, Fresh
<1>3. ASSUME NEW j \in DOMAIN queued[c] PROVE Suits(queued[c][j])
  <2>1. queued[c][j] \in ClientFrame
    <3> DEFINE q == queued[c]
    <3>1. q \in Seq(ClientFrame)
      BY <1>1
    <3> HIDE DEF q
    <3>2. \A k \in DOMAIN q : q[k] \in ClientFrame
      BY <3>1
    <3> QED
      BY <3>2, <1>3 DEF q
  <2>2. kind = "relay" => /\ queued[c][j].n <= encoderFrames
                          /\ \A i \in DOMAIN encoderQueue : queued[c][j].n < encoderQueue[i].n
    BY <1>3 DEF SentBefore, QueueIsNext
  <2>3. /\ queued[c][j].again => queued[c][j].n = mInitialFrame
        /\ ~queued[c][j].again => /\ kind # "relay" => queued[c][j].n <= outputs
                                  /\ encoderStep \in HandSteps => queued[c][j].n < inHand.n
    BY <1>3 DEF SentBefore
  <2>4. kind # "mpeg" => mInitialFrame > 0 /\ queued[c][j].n >= mInitialFrame
    BY <1>3 DEF SentFromInitial
  <2> QED
    BY <2>1, <2>2, <2>3, <2>4 DEF Suits
<1> QED
  BY <1>1, <1>2, <1>3

(* A queue that gets a frame: it ascends still if the frame is given again or younger than all. *)
LEMMA StillAscends ==
  ASSUME NEW q \in Seq(ClientFrame), NEW f \in ClientFrame, Ascends(q),
         f.again \/ \A j \in DOMAIN q : ~q[j].again => q[j].n < f.n
  PROVE  /\ Append(q, f) \in Seq(ClientFrame) /\ Ascends(Append(q, f))
         /\ \A j \in DOMAIN Append(q, f) : (j \in DOMAIN q /\ Append(q, f)[j] = q[j]) \/ Append(q, f)[j] = f
         /\ \A j \in DOMAIN q : j \in DOMAIN Append(q, f) /\ Append(q, f)[j] = q[j]
         /\ \E j \in DOMAIN Append(q, f) : Append(q, f)[j] = f
<1> DEFINE a == Append(q, f)
<1>1. /\ a \in Seq(ClientFrame) /\ Len(q) \in Nat /\ DOMAIN q = 1 .. Len(q) /\ DOMAIN a = 1 .. Len(q) + 1
      /\ \A i \in 1 .. Len(q) : a[i] = q[i]
      /\ a[Len(q) + 1] = f
  BY QueueAppended
<1> HIDE DEF a
<1>2. Ascends(a)
  BY <1>1 DEF Ascends
<1>3. /\ \A j \in DOMAIN a : (j \in DOMAIN q /\ a[j] = q[j]) \/ a[j] = f
      /\ \A j \in DOMAIN q : j \in DOMAIN a /\ a[j] = q[j]
      /\ \E j \in DOMAIN a : a[j] = f
  BY <1>1
<1> QED
  BY <1>1, <1>2, <1>3 DEF a

(* A client looks at the initial frame: it is given it, perhaps before all its bytes are there. *)
LEMMA LookKeeps ==
  ASSUME InitialInv, NEW c \in Client, Look(c)
  PROVE  InitialInv'
<1>1. joining[c] = "look" /\ joining' = [joining EXCEPT ![c] = "in"]
  BY DEF Look
<1>2. /\ kind' = kind /\ encoderFrames' = encoderFrames /\ encoderQueue' = encoderQueue /\ mSps' = mSps
      /\ mInitialFrame' = mInitialFrame /\ mConsumers' = mConsumers /\ early' = early /\ encoderStep' = encoderStep
      /\ inHand' = inHand /\ outputs' = outputs
  BY DEF Look, encoderVars
<1>3. /\ InitialTyped /\ StepsOfInitial /\ HandIsNext /\ QueueIsNext /\ SentBefore /\ SentInOrder
      /\ SentFromInitial /\ RelayGives /\ EncoderGives
  BY DEF InitialInv
<1>4. /\ inHand.n \in Nat /\ encoderFrames \in Nat /\ outputs \in Nat /\ mInitialFrame \in Nat
      /\ \A i \in DOMAIN encoderQueue : encoderQueue[i].n \in Nat
  BY <1>3, NumbersTyped
<1>5. \A d \in Client : /\ queued[d] \in Seq(ClientFrame) /\ Ascends(queued[d])
                        /\ \A j \in DOMAIN queued[d] : Suits(queued[d][j])
  BY <1>3, SuitsIs
<1>6. CASE mInitialFrame = 0
  <2>1. queued' = queued
    BY <1>6 DEF Look
  <2>2. InitialTyped'
    BY <1>1, <1>2, <1>3, <2>1 DEF InitialTyped
  <2>3. StepsOfInitial' /\ HandIsNext'
    BY <1>2, <1>3 DEF StepsOfInitial, HandIsNext
  <2>4. QueueIsNext' /\ SentBefore'
    BY <1>2, <1>3, <2>1 DEF QueueIsNext, SentBefore
  <2>5. SentInOrder' /\ SentFromInitial'
    BY <1>2, <1>3, <2>1 DEF SentInOrder, SentFromInitial, Fresh
  <2>6. RelayGives'
    BY <1>1, <1>2, <1>3, <1>6 DEF RelayGives, InitialTyped
  <2>7. EncoderGives'
    BY <1>1, <1>2, <1>3, <1>6, <2>1 DEF EncoderGives, HasInitial, InitialTyped
  <2> QED
    BY <2>2, <2>3, <2>4, <2>5, <2>6, <2>7 DEF InitialInv
<1>7. CASE mInitialFrame # 0
  <2>1. PICK whole \in {encoderStep # "copy", TRUE} :
            queued' = [queued EXCEPT ![c] = Append(@, [n |-> mInitialFrame, again |-> TRUE, whole |-> whole])]
    BY <1>7 DEF Look
  <2> DEFINE f == [n |-> mInitialFrame, again |-> TRUE, whole |-> whole]
             q == queued[c]
             a == Append(q, f)
  <2>2. f \in ClientFrame /\ f.n = mInitialFrame /\ f.again = TRUE /\ (encoderStep # "copy" => f.whole)
    BY <1>4 DEF ClientFrame
  <2>3. queued' = [queued EXCEPT ![c] = a]
    BY <2>1
  <2>4. queued \in [Client -> Seq(ClientFrame)]
    BY <1>3 DEF InitialTyped
  <2>5. q \in Seq(ClientFrame) /\ Ascends(q)
    BY <1>5
  <2> HIDE DEF f
  <2>6. Suits(f)
    <3>1. kind = "relay" => mInitialFrame <= encoderFrames /\ \A i \in DOMAIN encoderQueue : mInitialFrame < encoderQueue[i].n
      BY <1>3 DEF HandIsNext, QueueIsNext
    <3> QED
      BY <3>1, <2>2, <1>4, <1>7 DEF Suits
  <2> HIDE DEF q
  <2>7. /\ a \in Seq(ClientFrame) /\ Ascends(a)
        /\ \A j \in DOMAIN a : (j \in DOMAIN q /\ a[j] = q[j]) \/ a[j] = f
        /\ \A j \in DOMAIN q : j \in DOMAIN a /\ a[j] = q[j]
        /\ \E j \in DOMAIN a : a[j] = f
    BY <2>2, <2>5, StillAscends
  <2> HIDE DEF a
  <2>8. /\ queued' \in [Client -> Seq(ClientFrame)] /\ queued'[c] = a
        /\ \A d \in Client \ {c} : queued'[d] = queued[d]
    BY <2>3, <2>4, <2>7
  <2>9. \A d \in Client : Ascends(queued'[d]) /\ \A j \in DOMAIN queued'[d] : Suits(queued'[d][j])
    <3> TAKE d \in Client
    <3>1. CASE d = c
      <4>1. \A j \in DOMAIN q : Suits(q[j])
        BY <1>5 DEF q
      <4> QED
        BY <3>1, <4>1, <2>6, <2>7, <2>8
    <3>2. CASE d # c
      BY <3>2, <1>5, <2>8
    <3> QED
      BY <3>1, <3>2
  <2>10. InitialTyped'
    BY <1>1, <1>2, <1>3, <2>8 DEF InitialTyped
  <2>11. StepsOfInitial' /\ HandIsNext'
    BY <1>2, <1>3 DEF StepsOfInitial, HandIsNext
  <2>12. QueueIsNext' /\ SentBefore' /\ SentInOrder' /\ SentFromInitial'
    <3>1. QueueIsNext'
      BY <1>2, <1>3, <2>9 DEF QueueIsNext, Suits
    <3>2. SentBefore'
      BY <1>2, <2>9 DEF SentBefore, Suits
    <3>3. SentInOrder'
      BY <2>9 DEF SentInOrder, Fresh, Ascends
    <3>4. SentFromInitial'
      BY <1>2, <2>9 DEF SentFromInitial, Suits
    <3> QED
      BY <3>1, <3>2, <3>3, <3>4
  <2>13. RelayGives'
    <3> SUFFICES ASSUME NEW d \in mConsumers, kind = "relay", joining'[d] = "in", mInitialFrame > 0
        PROVE  HasInitial(d)' \/ encoderStep = "copy" \/ (encoderStep = "distribute" /\ inHand.n = mInitialFrame)
      BY <1>2 DEF RelayGives
    <3>1. d \in Client
      BY <1>3 DEF InitialTyped
    <3>2. CASE d = c
      BY <3>2, <2>2, <2>7, <2>8, <1>2 DEF HasInitial
    <3>3. CASE d # c
      <4>1. joining[d] = "in" /\ queued'[d] = queued[d]
        BY <3>1, <3>3, <1>1, <1>3, <2>8 DEF InitialTyped
      <4> QED
        BY <4>1, <1>2, <1>3 DEF RelayGives, HasInitial
    <3> QED
      BY <3>2, <3>3
  <2>14. EncoderGives'
    <3> SUFFICES ASSUME NEW d \in Client, kind = "h264", joining'[d] # "out", d \notin early
        PROVE  mInitialFrame > 0 /\ encoderStep # "copy" /\ (joining'[d] = "in" => HasInitial(d)')
      BY <1>2 DEF EncoderGives
    <3>1. CASE d = c
      <4>1. mInitialFrame > 0 /\ encoderStep # "copy"
        BY <3>1, <1>1, <1>3 DEF EncoderGives
      <4> QED
        BY <3>1, <4>1, <2>2, <2>7, <2>8, <1>2 DEF HasInitial
    <3>2. CASE d # c
      <4>1. joining'[d] = joining[d] /\ queued'[d] = queued[d]
        BY <3>2, <1>1, <1>3, <2>8 DEF InitialTyped
      <4> QED
        BY <4>1, <1>2, <1>3 DEF EncoderGives, HasInitial
    <3> QED
      BY <3>1, <3>2
  <2> QED
    BY <2>10, <2>11, <2>12, <2>13, <2>14 DEF InitialInv
<1> QED
  BY <1>4, <1>6, <1>7

(* A client deregisters: its queue goes. *)
LEMMA DeregisterKeeps ==
  ASSUME InitialInv, NEW c \in Client, deregisterConsumer(c)
  PROVE  InitialInv'
<1> DEFINE e == << >>
<1>1. /\ mConsumers' = mConsumers \ {c} /\ early' = early \ {c}
      /\ joining' = [joining EXCEPT ![c] = "out"] /\ queued' = [queued EXCEPT ![c] = e]
  BY DEF deregisterConsumer
<1>2. /\ kind' = kind /\ encoderFrames' = encoderFrames /\ encoderQueue' = encoderQueue /\ mSps' = mSps
      /\ mInitialFrame' = mInitialFrame /\ encoderStep' = encoderStep /\ inHand' = inHand /\ outputs' = outputs
  BY DEF deregisterConsumer, encoderVars
<1>3. /\ InitialTyped /\ StepsOfInitial /\ HandIsNext /\ QueueIsNext /\ SentBefore /\ SentInOrder
      /\ SentFromInitial /\ RelayGives /\ EncoderGives
  BY DEF InitialInv
<1>4. e \in Seq(ClientFrame) /\ DOMAIN e = {}
  BY QueueEmptied
<1> HIDE DEF e
<1>5. /\ joining' \in [Client -> {"out", "look", "in"}] /\ joining'[c] = "out"
      /\ queued' \in [Client -> Seq(ClientFrame)] /\ queued'[c] = e
      /\ \A d \in Client \ {c} : queued'[d] = queued[d] /\ joining'[d] = joining[d]
  BY <1>1, <1>3, <1>4 DEF InitialTyped
<1>6. \A d \in Client : queued'[d] = queued[d] \/ DOMAIN queued'[d] = {}
  BY <1>4, <1>5
<1>7. InitialTyped'
  BY <1>1, <1>2, <1>3, <1>5 DEF InitialTyped
<1>8. StepsOfInitial' /\ HandIsNext'
  BY <1>2, <1>3 DEF StepsOfInitial, HandIsNext
<1>9. QueueIsNext'
  BY <1>2, <1>3, <1>6 DEF QueueIsNext
<1>10. SentBefore'
  BY <1>2, <1>3, <1>6 DEF SentBefore
<1>11. SentInOrder' /\ SentFromInitial'
  BY <1>2, <1>3, <1>6 DEF SentInOrder, SentFromInitial, Fresh
<1>12. RelayGives'
  BY <1>1, <1>2, <1>3, <1>5 DEF RelayGives, HasInitial, InitialTyped
<1>13. EncoderGives'
  BY <1>1, <1>2, <1>3, <1>5 DEF EncoderGives, HasInitial
<1> QED
  BY <1>7, <1>8, <1>9, <1>10, <1>11, <1>12, <1>13 DEF InitialInv

(* The frame in hand goes to the clients: it is younger than what they have. *)
LEMMA DistributeKeeps ==
  ASSUME InitialInv, distributeFrame
  PROVE  InitialInv'
<1> DEFINE f == [n |-> inHand.n, again |-> FALSE, whole |-> TRUE]
<1>1. /\ encoderStep = "distribute" /\ encoderStep' = "take" /\ inHand' = None
      /\ queued' = [c \in Client |-> IF c \in mConsumers THEN Append(queued[c], f) ELSE queued[c]]
  BY DEF distributeFrame
<1>2. /\ kind' = kind /\ encoderFrames' = encoderFrames /\ encoderQueue' = encoderQueue /\ mSps' = mSps
      /\ mInitialFrame' = mInitialFrame /\ outputs' = outputs /\ mConsumers' = mConsumers
      /\ joining' = joining /\ early' = early
  BY DEF distributeFrame
<1>3. /\ InitialTyped /\ StepsOfInitial /\ HandIsNext /\ QueueIsNext /\ SentBefore /\ SentInOrder
      /\ SentFromInitial /\ RelayGives /\ EncoderGives
  BY DEF InitialInv
<1>4. /\ inHand.n \in Nat /\ encoderFrames \in Nat /\ outputs \in Nat /\ mInitialFrame \in Nat
      /\ \A i \in DOMAIN encoderQueue : encoderQueue[i].n \in Nat
  BY <1>3, NumbersTyped
<1>5. \A d \in Client : /\ queued[d] \in Seq(ClientFrame) /\ Ascends(queued[d])
                        /\ \A j \in DOMAIN queued[d] : Suits(queued[d][j])
  BY <1>3, SuitsIs
<1>6. f \in ClientFrame /\ f.n = inHand.n /\ f.again = FALSE /\ f.whole = TRUE
  BY <1>4 DEF ClientFrame
<1>7. None \in CodedFrame
  BY DEF None, CodedFrame, Units
<1> HIDE DEF f
<1>8. "distribute" \in HandSteps /\ "take" \notin HandSteps
  BY DEF HandSteps
<1>9. /\ kind = "relay" => f.n <= encoderFrames /\ \A i \in DOMAIN encoderQueue : f.n < encoderQueue[i].n
      /\ kind # "relay" => f.n <= outputs
      /\ kind # "mpeg" => mInitialFrame > 0 /\ f.n >= mInitialFrame
  BY <1>1, <1>3, <1>4, <1>6, <1>8 DEF HandIsNext, QueueIsNext, StepsOfInitial
(* What is left of Suits when the frame is out of hand. *)
<1> DEFINE Suited(g) ==
             /\ g.n \in Nat
             /\ kind = "relay" => g.n <= encoderFrames /\ \A i \in DOMAIN encoderQueue : g.n < encoderQueue[i].n
             /\ g.again => g.n = mInitialFrame
             /\ ~g.again /\ kind # "relay" => g.n <= outputs
             /\ kind # "mpeg" => mInitialFrame > 0 /\ g.n >= mInitialFrame
<1>10. Suited(f)
  BY <1>4, <1>6, <1>9
<1>11. \A d \in Client : \A j \in DOMAIN queued[d] : Suited(queued[d][j])
  BY <1>5 DEF Suits, ClientFrame
<1> HIDE DEF Suited
<1>12. \A d \in Client :
          /\ queued'[d] \in Seq(ClientFrame) /\ Ascends(queued'[d])
          /\ \A j \in DOMAIN queued'[d] : Suited(queued'[d][j])
          /\ \A j \in DOMAIN queued[d] : j \in DOMAIN queued'[d] /\ queued'[d][j] = queued[d][j]
          /\ d \in mConsumers => \E j \in DOMAIN queued'[d] : queued'[d][j] = f
  <2> TAKE d \in Client
  <2> DEFINE q == queued[d]
             a == Append(q, f)
  <2>1. q \in Seq(ClientFrame) /\ Ascends(q) /\ (\A j \in DOMAIN q : Suited(q[j]))
    BY <1>5, <1>11
  <2>2. \A j \in DOMAIN q : ~q[j].again => q[j].n < f.n
    BY <1>1, <1>5, <1>6, <1>8 DEF Suits
  <2>3. queued'[d] = IF d \in mConsumers THEN a ELSE q
    BY <1>1
  <2> HIDE DEF q
  <2>4. /\ a \in Seq(ClientFrame) /\ Ascends(a)
        /\ \A j \in DOMAIN a : (j \in DOMAIN q /\ a[j] = q[j]) \/ a[j] = f
        /\ \A j \in DOMAIN q : j \in DOMAIN a /\ a[j] = q[j]
        /\ \E j \in DOMAIN a : a[j] = f
    BY <2>1, <2>2, <1>6, StillAscends
  <2> HIDE DEF a
  <2>5. \A j \in DOMAIN a : Suited(a[j])
    BY <2>1, <2>4, <1>10
  <2>6. CASE d \in mConsumers
    <3>1. queued'[d] = a
      BY <2>3, <2>6
    <3> QED
      BY <3>1, <2>4, <2>5 DEF q
  <2>7. CASE d \notin mConsumers
    <3>1. queued'[d] = q
      BY <2>3, <2>7
    <3> QED
      BY <3>1, <2>1, <2>7 DEF q
  <2> QED
    BY <2>6, <2>7
<1>13. queued' \in [Client -> Seq(ClientFrame)]
  BY <1>1, <1>12
<1>14. InitialTyped'
  BY <1>1, <1>2, <1>3, <1>7, <1>13 DEF InitialTyped
<1>15. StepsOfInitial' /\ HandIsNext'
  BY <1>1, <1>2, <1>3, <1>8 DEF StepsOfInitial, HandIsNext
<1>16. QueueIsNext'
  BY <1>1, <1>2, <1>3, <1>8, <1>12 DEF QueueIsNext, Suited
<1>17. SentBefore'
  BY <1>1, <1>2, <1>8, <1>12 DEF SentBefore, Suited
<1>18. SentInOrder' /\ SentFromInitial'
  <2>1. SentInOrder'
    BY <1>12 DEF SentInOrder, Fresh, Ascends
  <2>2. SentFromInitial'
    BY <1>2, <1>12 DEF SentFromInitial, Suited
  <2> QED
    BY <2>1, <2>2
<1>19. \A d \in Client : HasInitial(d) => HasInitial(d)'
  BY <1>2, <1>12 DEF HasInitial
<1>20. RelayGives'
  <2> SUFFICES ASSUME NEW d \in mConsumers, kind = "relay", joining[d] = "in", mInitialFrame > 0
      PROVE  HasInitial(d)'
    BY <1>2 DEF RelayGives
  <2>1. d \in Client
    BY <1>3 DEF InitialTyped
  <2>2. HasInitial(d) \/ inHand.n = mInitialFrame
    BY <1>1, <1>3 DEF RelayGives
  <2>3. CASE inHand.n = mInitialFrame
    BY <2>1, <2>3, <1>2, <1>6, <1>12 DEF HasInitial
  <2> QED
    BY <2>1, <2>2, <2>3, <1>19
<1>21. EncoderGives'
  BY <1>1, <1>2, <1>3, <1>19 DEF EncoderGives
<1> QED
  BY <1>14, <1>15, <1>16, <1>17, <1>18, <1>20, <1>21 DEF InitialInv

(* Every step of the model keeps the invariant. *)
LEMMA InitialSteps == InitialInv /\ [InitialNext]_initialVars => InitialInv'
<1> SUFFICES ASSUME InitialInv, [InitialNext]_initialVars PROVE InitialInv'
  OBVIOUS
<1>1. ASSUME NEW c \in Client, Register(c) \/ Look(c) \/ deregisterConsumer(c) PROVE InitialInv'
  BY <1>1, RegisterKeeps, LookKeeps, DeregisterKeeps
<1>2. ASSUME NEW u \in Units, queueEncoderFrame(u) PROVE InitialInv'
  BY <1>2, QueueKeeps
<1>3. ASSUME RelayStarts \/ H264Starts \/ MpegStarts PROVE InitialInv'
  BY <1>3, StartsKeep DEF RelayStarts, H264Starts, MpegStarts
<1>4. ASSUME RelayTakes PROVE InitialInv'
  <2>1. kind = "relay" /\ TakeIf(mInitialFrame = 0 \/ mConsumers # {}, IF mInitialFrame = 0 THEN "scan" ELSE "distribute")
    BY <1>4 DEF RelayTakes
  <2> QED
    BY <2>1, TakeKeeps
<1>5. ASSUME H264Takes PROVE InitialInv'
  <2>1. kind = "h264" /\ TakeIf(mInitialFrame = 0 \/ mConsumers # {}, "encode")
    BY <1>5 DEF H264Takes
  <2> QED
    BY <2>1, TakeKeeps
<1>6. ASSUME MpegTakes PROVE InitialInv'
  <2>1. kind = "mpeg" /\ TakeIf(mConsumers # {}, "encode")
    BY <1>6 DEF MpegTakes
  <2> QED
    BY <2>1, TakeKeeps
<1>7. ASSUME H264Encodes PROVE InitialInv'
  <2>1. kind = "h264" /\ Encodes(IF mInitialFrame = 0 THEN "scan" ELSE "distribute")
    BY <1>7 DEF H264Encodes
  <2> QED
    BY <2>1, EncodeKeeps
<1>8. ASSUME MpegEncodes PROVE InitialInv'
  <2>1. kind = "mpeg" /\ Encodes("distribute")
    BY <1>8 DEF MpegEncodes
  <2> QED
    BY <2>1, EncodeKeeps
<1>9. ASSUME UNCHANGED initialVars PROVE InitialInv'
  BY <1>9 DEF initialVars, clientVars, encoderVars, InitialInv, InitialTyped, StepsOfInitial, HandIsNext, QueueIsNext,
     SentBefore, SentInOrder, SentFromInitial, Fresh, RelayGives, EncoderGives, HasInitial
<1> QED
  BY <1>1, <1>2, <1>3, <1>4, <1>5, <1>6, <1>7, <1>8, <1>9, RelayScanKeeps, H264ScanKeeps, CopiedKeeps, DistributeKeeps,
     StopKeeps DEF InitialNext

(* The invariant says what StreamsStartWell says. *)
LEMMA InitialEnough == InitialInv => StreamsStartWell
<1> SUFFICES ASSUME InitialInv, NEW c \in Client
    PROVE  /\ \A i, j \in Fresh(c) : i < j => queued[c][i].n < queued[c][j].n
           /\ kind # "mpeg" => \A i \in DOMAIN queued[c] : mInitialFrame # 0 /\ queued[c][i].n >= mInitialFrame
           /\ ( /\ c \in mConsumers /\ joining[c] = "in"
                /\ \/ kind = "relay" /\ mInitialFrame # 0 /\ encoderStep \notin {"copy", "distribute"}
                   \/ kind = "h264" /\ c \notin early )
              => HasInitial(c)
  BY DEF StreamsStartWell, HasInitial
<1>1. mInitialFrame \in Nat
  BY DEF InitialInv, InitialTyped
<1>2. \A i, j \in Fresh(c) : i < j => queued[c][i].n < queued[c][j].n
  BY DEF InitialInv, SentInOrder
<1>3. kind # "mpeg" => \A i \in DOMAIN queued[c] : mInitialFrame # 0 /\ queued[c][i].n >= mInitialFrame
  BY DEF InitialInv, SentFromInitial
<1>4. c \in mConsumers /\ joining[c] = "in" /\ kind = "relay" /\ mInitialFrame # 0 /\ encoderStep \notin {"copy", "distribute"}
      => HasInitial(c)
  BY <1>1 DEF InitialInv, RelayGives
<1>5. joining[c] = "in" /\ kind = "h264" /\ c \notin early => HasInitial(c)
  BY DEF InitialInv, EncoderGives
<1> QED
  BY <1>2, <1>3, <1>4, <1>5

(* The inductive invariant, for any clients and any number of frames (ozH264Relay.cpp:60-255). *)
THEOREM InitialInvariant == InitialSpec => []InitialInv
<1>1. InitialInit => InitialInv
  BY InitialStarts
<1>2. InitialInv /\ [InitialNext]_initialVars => InitialInv'
  BY InitialSteps
<1> QED
  BY <1>1, <1>2, PTL DEF InitialSpec

(* A client's stream starts with the frame its decoder needs, and its frames come once and in    *)
(* order, however the registration, the copying of the initial frame and the distribution fall   *)
(* (ozH264Relay.cpp:104-111, 240-247; ozH264Encoder.cpp:308-316).                                *)
THEOREM StreamsAlwaysStartWell == InitialSpec => []StreamsStartWell
BY InitialInvariant, InitialEnough, PTL

-----------------------------------------------------------------------------
(***************************************************************************)
(* MatrixTiles.  A tile shows the pictures of the provider it belongs to.  *)
(***************************************************************************)

(***************************************************************************)
(* Quotients and remainders                                                *)
(***************************************************************************)
LEMMA QuotientIs ==
  ASSUME NEW M \in Nat \ {0}, NEW q \in Int, NEW r \in 0 .. M - 1
  PROVE  (q * M + r) \div M = q /\ (q * M + r) % M = r
OBVIOUS

Splits(a, M, q, r) == q \in Int /\ r \in 0 .. M - 1 /\ q = a \div M /\ r = a % M /\ a = q * M + r

LEMMA QuotientParts ==
  ASSUME NEW M \in Nat \ {0}, NEW a \in Int
  PROVE  \E q, r : Splits(a, M, q, r)
<1>1. \E q \in Int, r \in Int : q = a \div M /\ r = a % M /\ a = q * M + r
  BY Z3
<1>2. a % M \in 0 .. M - 1
  OBVIOUS
<1> QED
  BY <1>1, <1>2 DEF Splits

(* The converse: parts of the right sizes are the quotient and the remainder. *)
LEMMA QuotientOf ==
  ASSUME NEW M, NEW q, NEW r, M \in Nat \ {0}, q \in Int, r \in 0 .. M - 1
  PROVE  Splits(q * M + r, M, q, r)
BY QuotientIs DEF Splits

LEMMA ProductOrder ==
  ASSUME NEW M \in Nat, NEW p \in Int, NEW q \in Int, p <= q
  PROVE  p * M <= q * M
<1>1. (q - p) * M >= 0
  OBVIOUS
<1>2. (q - p) * M = q * M - p * M
  OBVIOUS
<1> QED
  BY <1>1, <1>2

LEMMA QuotientBelow ==
  ASSUME NEW M \in Nat \ {0}, NEW N \in Nat, NEW a \in Nat, a < M * N
  PROVE  a \div M \in 0 .. N - 1 /\ a % M \in 0 .. M - 1
<1>1. PICK q, r : Splits(a, M, q, r)
  BY QuotientParts
<1>4. q \in Int /\ M \in Nat /\ q * M \in Int /\ M * N = N * M /\ N * M \in Int
  BY <1>1 DEF Splits
<1>2. q >= 0
  <2>1. q <= -1 => q * M <= (-1) * M
    BY <1>4, ProductOrder
  <2> QED
    BY <1>1, <1>4, <2>1 DEF Splits
<1>3. q < N
  <2>1. N <= q => N * M <= q * M
    BY <1>4, ProductOrder
  <2> QED
    BY <1>1, <1>4, <2>1 DEF Splits
<1> QED
  BY <1>1, <1>2, <1>3 DEF Splits

LEMMA ProductBelow ==
  ASSUME NEW M \in Nat, NEW N \in Nat, NEW q \in 0 .. N - 1, NEW r \in 0 .. M - 1
  PROVE  q * M + r \in 0 .. M * N - 1
<1>1. q * M >= 0 /\ q * M \in Int
  OBVIOUS
<1>2. (q + 1) * M <= M * N
  OBVIOUS
<1>3. (q + 1) * M = q * M + M
  OBVIOUS
<1>4. M * N \in Int
  OBVIOUS
<1> QED
  BY <1>1, <1>2, <1>3, <1>4

(***************************************************************************)
(* Where the tiles are                                                     *)
(***************************************************************************)

(* A plane's tiles have rows and columns. *)
LEMMA TileSizes ==
  ASSUME NEW plane \in Planes
  PROVE  /\ interWidth(plane) \in Nat \ {0} /\ planeHeight(plane) \in Nat \ {0}
         /\ linesize(plane) \in Nat \ {0} /\ linesize(plane) = interWidth(plane) * mTilesX
         /\ mTilesX \in Nat \ {0} /\ mTilesY \in Nat \ {0} /\ mTiles \in Nat /\ mTiles = mTilesX * mTilesY
         /\ Tile = 0 .. mTilesX * mTilesY - 1
<1> DEFINE M == 2^ChromaLog
<1>1. M \in Nat \ {0} /\ TileWidth % M = 0 /\ TileHeight % M = 0
  BY TileAssumption
<1>2. TileWidth \in Nat \ {0} /\ TileHeight \in Nat \ {0} /\ mTilesX \in Nat \ {0} /\ mTilesY \in Nat \ {0}
  BY TileAssumption
<1> HIDE DEF M
<1>3. ASSUME NEW n \in Nat \ {0}, n % M = 0
      PROVE  n \div M \in Nat \ {0} /\ -((-n) \div M) \in Nat \ {0}
  <2>1. PICK q, r : Splits(n, M, q, r)
    BY <1>1, QuotientParts
  <2>2. q \in Int /\ q = n \div M /\ n = q * M
    BY <1>1, <1>3, <2>1 DEF Splits
  <2>3. q > 0
    <3>1. q <= 0 => q * M <= 0 * M
      BY <1>1, <2>2, ProductOrder
    <3> QED
      BY <1>1, <2>2, <3>1
  <2>4. -n = (-q) * M + 0
    BY <1>1, <2>2
  <2>5. -q \in Int /\ 0 \in 0 .. M - 1
    BY <1>1, <2>2
  <2>6. Splits((-q) * M + 0, M, -q, 0)
    BY <1>1, <2>5, QuotientOf
  <2>7. (-n) \div M = -q
    BY <2>4, <2>6 DEF Splits
  <2> QED
    BY <2>2, <2>3, <2>7
<1>4. interWidth(plane) \in Nat \ {0}
  BY <1>1, <1>2, <1>3 DEF interWidth, M
<1>5. planeHeight(plane) \in Nat \ {0}
  BY <1>1, <1>2, <1>3 DEF planeHeight, M
<1>6. linesize(plane) = interWidth(plane) * mTilesX
  BY DEF linesize
<1>7. linesize(plane) \in Nat \ {0}
  BY <1>2, <1>4, <1>6
<1>8. mTiles = mTilesX * mTilesY /\ mTiles \in Nat
  BY <1>2 DEF mTiles
<1> QED
  BY <1>2, <1>4, <1>5, <1>6, <1>7, <1>8 DEF Tile

(* A viewer sees a tile's pixel where the tile's frame puts it. *)
LEMMA SeenWhereDrawn ==
  ASSUME NEW plane \in Planes, NEW t \in Tile,
         NEW r \in 0 .. planeHeight(plane) - 1, NEW c \in 0 .. interWidth(plane) - 1
  PROVE  LET a == Address(plane, t, r, c)
         IN  TileAt(plane, a) = t /\ RowAt(plane, a) = r /\ ColumnAt(plane, a) = c
<1> DEFINE a == Address(plane, t, r, c)
           W == interWidth(plane)
           H == planeHeight(plane)
           L == linesize(plane)
<1>1. /\ W \in Nat \ {0} /\ H \in Nat \ {0} /\ L \in Nat \ {0} /\ L = W * mTilesX
      /\ mTilesX \in Nat \ {0} /\ mTilesY \in Nat \ {0} /\ t \in Nat /\ t < mTilesX * mTilesY
  BY TileSizes, SMTT(30)
<1>20. t \in Int
  BY <1>1
<1>2. PICK i, j : Splits(t, mTilesX, i, j)
  BY <1>1, <1>20, QuotientParts
<1>3. a = i * H * L + j * W + r * L + c
  BY <1>2 DEF Splits, Address, TileData
<1>4. r \in 0 .. H - 1 /\ c \in 0 .. W - 1
  OBVIOUS
<1>5. TileAt(plane, a) = ((a \div L) \div H) * mTilesX + (a % L) \div W
  BY DEF TileAt
<1>6. RowAt(plane, a) = (a \div L) % H /\ ColumnAt(plane, a) = (a % L) % W
  BY DEF RowAt, ColumnAt
<1> HIDE DEF a, W, H, L
<1>21. i \in Int /\ j \in 0 .. mTilesX - 1 /\ t = i * mTilesX + j
  BY <1>2 DEF Splits
<1>7. j * W + c \in 0 .. L - 1
  BY <1>1, <1>21, <1>4, ProductBelow
<1>8. i * H + r \in Int
  BY <1>1, <1>21, <1>4
<1>9. a = (i * H + r) * L + (j * W + c)
  <2>1. (i * H + r) * L = i * H * L + r * L
    BY <1>1, <1>21, <1>4
  <2>2. i * H * L \in Int /\ r * L \in Int /\ j * W \in Int /\ c \in Int
    BY <1>1, <1>21, <1>4
  <2> QED
    BY <1>3, <2>1, <2>2
<1>10. Splits((i * H + r) * L + (j * W + c), L, i * H + r, j * W + c)
  BY <1>1, <1>7, <1>8, QuotientOf
<1>11. Splits(i * H + r, H, i, r)
  BY <1>1, <1>21, <1>4, QuotientOf
<1>12. Splits(j * W + c, W, j, c)
  <2>1. j \in Int /\ c \in 0 .. W - 1
    BY <1>1, <1>21, <1>4
  <2> QED
    BY <1>1, <2>1, QuotientOf
<1>13. TileAt(plane, a) = t
  BY <1>21, <1>5, <1>9, <1>10, <1>11, <1>12 DEF Splits
<1>14. RowAt(plane, a) = r /\ ColumnAt(plane, a) = c
  BY <1>6, <1>9, <1>10, <1>11, <1>12 DEF Splits
<1> QED
  BY <1>13, <1>14 DEF a

(* At each address there is a pixel of a tile. *)
LEMMA DrawnWhereSeen ==
  ASSUME NEW plane \in Planes, NEW a \in Addresses(plane)
  PROVE  /\ TileAt(plane, a) \in Tile
         /\ RowAt(plane, a) \in 0 .. planeHeight(plane) - 1
         /\ ColumnAt(plane, a) \in 0 .. interWidth(plane) - 1
         /\ Address(plane, TileAt(plane, a), RowAt(plane, a), ColumnAt(plane, a)) = a
<1> DEFINE t == TileAt(plane, a)
           W == interWidth(plane)
           H == planeHeight(plane)
           L == linesize(plane)
<1>1. /\ W \in Nat \ {0} /\ H \in Nat \ {0} /\ L \in Nat \ {0} /\ L = W * mTilesX
      /\ mTilesX \in Nat \ {0} /\ mTilesY \in Nat \ {0} /\ Tile = 0 .. mTilesX * mTilesY - 1
  BY TileSizes
<1>2. a \in Nat /\ a < L * H * mTilesY
  BY <1>1 DEF Addresses
<1>3. t = ((a \div L) \div H) * mTilesX + (a % L) \div W
  BY DEF TileAt
<1>4. RowAt(plane, a) = (a \div L) % H /\ ColumnAt(plane, a) = (a % L) % W
  BY DEF RowAt, ColumnAt
<1>5. \A r, c : Address(plane, t, r, c) = (t \div mTilesX) * H * L + (t % mTilesX) * W + r * L + c
  BY DEF Address, TileData
<1> HIDE DEF t, W, H, L
<1>6. PICK y, x : Splits(a, L, y, x)
  <2>1. a \in Int
    BY <1>2
  <2> QED
    BY <1>1, <2>1, QuotientParts
<1>20. y \in Int /\ x \in 0 .. L - 1 /\ y = a \div L /\ x = a % L /\ a = y * L + x
  BY <1>6 DEF Splits
<1>7. PICK i, r : Splits(y, H, i, r)
  BY <1>1, <1>20, QuotientParts
<1>21. i \in Int /\ r \in 0 .. H - 1 /\ i = y \div H /\ r = y % H /\ y = i * H + r
  BY <1>7 DEF Splits
<1>8. PICK j, c : Splits(x, W, j, c)
  <2>1. x \in Int
    BY <1>1, <1>20
  <2> QED
    BY <1>1, <2>1, QuotientParts
<1>22. j \in Int /\ c \in 0 .. W - 1 /\ j = x \div W /\ c = x % W /\ x = j * W + c
  BY <1>8 DEF Splits
<1>9. y \in 0 .. H * mTilesY - 1
  <2>1. H * mTilesY \in Nat /\ L * (H * mTilesY) = L * H * mTilesY
    BY <1>1
  <2>2. a \in Nat /\ a < L * (H * mTilesY)
    BY <1>2, <2>1
  <2> QED
    BY <1>1, <1>20, <2>1, <2>2, QuotientBelow
<1>10. i \in 0 .. mTilesY - 1
  <2>1. y \in Nat /\ y < H * mTilesY /\ mTilesY \in Nat
    BY <1>1, <1>9
  <2> QED
    BY <1>1, <1>21, <2>1, QuotientBelow
<1>11. j \in 0 .. mTilesX - 1
  <2>1. x \in Nat /\ x < W * mTilesX /\ mTilesX \in Nat
    BY <1>1, <1>20
  <2> QED
    BY <1>1, <1>22, <2>1, QuotientBelow
<1>12. t = i * mTilesX + j
  BY <1>3, <1>20, <1>21, <1>22
<1>13. t \in Tile
  <2>1. mTilesX \in Nat /\ mTilesY \in Nat
    BY <1>1
  <2> QED
    BY <1>1, <1>10, <1>11, <1>12, <2>1, ProductBelow
<1>14. t \div mTilesX = i /\ t % mTilesX = j
  <2>1. Splits(i * mTilesX + j, mTilesX, i, j)
    BY <1>1, <1>21, <1>11, QuotientOf
  <2> QED
    BY <1>12, <2>1 DEF Splits
<1>15. RowAt(plane, a) = r /\ ColumnAt(plane, a) = c
  BY <1>4, <1>20, <1>21, <1>22
<1>16. Address(plane, t, r, c) = i * H * L + j * W + r * L + c
  BY <1>5, <1>14
<1>17. a = i * H * L + j * W + r * L + c
  <2>1. (i * H + r) * L = i * H * L + r * L
    BY <1>1, <1>21
  <2>2. i * H * L \in Int /\ r * L \in Int /\ j * W \in Int /\ c \in Int
    BY <1>1, <1>21, <1>22
  <2> QED
    BY <1>20, <1>21, <1>22, <2>1, <2>2
<1> QED
  BY <1>13, <1>15, <1>16, <1>17, <1>21, <1>22 DEF t, W, H

(* Scaling a picture into a tile changes what a viewer sees of that tile, and of no other. *)
LEMMA ScaledShows ==
  ASSUME NEW p \in Source, NEW t \in Tile,
         painted \in [Tile -> Source \cup {Empty}],
         \A plane \in Planes : \A a \in Addresses(plane) : outputBuffer[plane][a] = Shown(plane, a),
         outputBuffer' = Scaled(outputBuffer, p, t), painted' = [painted EXCEPT ![t] = p]
  PROVE  \A plane \in Planes : \A a \in Addresses(plane) : outputBuffer'[plane][a] = Shown(plane, a)'
<1> SUFFICES ASSUME NEW plane \in Planes, NEW a \in Addresses(plane)
             PROVE  outputBuffer'[plane][a] = Shown(plane, a)'
  OBVIOUS
<1> DEFINE R == 0 .. planeHeight(plane) - 1
           C == 0 .. interWidth(plane) - 1
           here == { rc \in R \X C : Address(plane, t, rc[1], rc[2]) = a }
           k == TileAt(plane, a)
           row == RowAt(plane, a)
           column == ColumnAt(plane, a)
<1>1. outputBuffer'[plane][a] = IF here = {} THEN outputBuffer[plane][a]
                                ELSE LET rc == CHOOSE rc \in here : TRUE IN << p, t, rc[1], rc[2] >>
  BY DEF Scaled
<1>2. Shown(plane, a)' = IF painted'[k] = Empty THEN << >> ELSE << painted'[k], k, row, column >>
  BY DEF Shown
<1>3. outputBuffer[plane][a] = IF painted[k] = Empty THEN << >> ELSE << painted[k], k, row, column >>
  BY DEF Shown
<1>4. k \in Tile /\ row \in R /\ column \in C /\ Address(plane, k, row, column) = a
  BY DrawnWhereSeen
<1>5. \A r \in R, c \in C : Address(plane, t, r, c) = a => k = t /\ row = r /\ column = c
  BY SeenWhereDrawn
<1>6. here = { rc \in R \X C : Address(plane, t, rc[1], rc[2]) = a }
  OBVIOUS
<1>7. p # Empty
  BY TileAssumption
<1> HIDE DEF R, C, here, k, row, column
<1>8. CASE here = {}
  <2>1. k # t
    <3>1. << row, column >> \in R \X C
      BY <1>4
    <3> QED
      BY <1>4, <1>6, <1>8, <3>1
  <2> QED
    BY <1>1, <1>2, <1>3, <1>4, <1>8, <2>1
<1>9. CASE here # {}
  <2>1. PICK rc : rc = (CHOOSE x \in here : TRUE) /\ rc \in here
    BY <1>9
  <2>2. rc \in R \X C /\ Address(plane, t, rc[1], rc[2]) = a
    BY <1>6, <2>1
  <2>3. k = t /\ row = rc[1] /\ column = rc[2]
    BY <1>5, <2>2
  <2>4. outputBuffer'[plane][a] = << p, t, rc[1], rc[2] >>
    BY <1>1, <1>9, <2>1
  <2>5. painted'[k] = p
    BY <2>3
  <2> QED
    BY <1>2, <1>7, <2>3, <2>4, <2>5
<1> QED
  BY <1>8, <1>9

-----------------------------------------------------------------------------
(* The inductive invariant *)

LEMMA TilesInitially == TilesInit => TilesInv
<1> SUFFICES ASSUME TilesInit
             PROVE  TilesInv
  OBVIOUS
<1>1. TilesTyped /\ SlotsAreOfProviders /\ HandIsOfTile
  BY DEF TilesInit, TilesTyped, SlotsAreOfProviders, HandIsOfTile
<1>2. \A t \in Tile : ~confused => ContextFits(t)
  BY DEF TilesInit, ContextFits
<1>3. ASSUME NEW plane \in Planes, NEW a \in Addresses(plane)
      PROVE  outputBuffer[plane][a] = Shown(plane, a)
  <2>1. TileAt(plane, a) \in Tile
    BY DrawnWhereSeen
  <2> QED
    BY <2>1 DEF TilesInit, Shown
<1> QED
  BY <1>1, <1>2, <1>3 DEF TilesInv

(* What a step leaves of the picture when it does not draw. *)
LEMMA PictureKept ==
  ASSUME \A plane \in Planes : \A a \in Addresses(plane) : outputBuffer[plane][a] = Shown(plane, a),
         UNCHANGED << outputBuffer, painted >>
  PROVE  \A plane \in Planes : \A a \in Addresses(plane) : outputBuffer'[plane][a] = Shown(plane, a)'
BY DEF Shown

LEMMA JoinKeepsPictures ==
  ASSUME TilesInv, NEW p \in Source, registerProvider(p)
  PROVE  TilesInv'
<1>1. PICK slot \in Tile : mProviderList[slot] = Empty /\ mProviderList' = [mProviderList EXCEPT ![slot] = p]
  BY DEF registerProvider
<1>2. /\ p \notin mProviders /\ mProviders' = mProviders \cup {p} /\ p # Empty
      /\ UNCHANGED << mInterFrames, mConvertContexts, polled, tileStep, inTile, provider, outputBuffer, painted, confused >>
  BY TileAssumption DEF registerProvider, runVars
<1>3. TilesTyped'
  BY <1>1, <1>2 DEF TilesInv, TilesTyped
<1>4. SlotsAreOfProviders'
  BY <1>1, <1>2 DEF TilesInv, TilesTyped, SlotsAreOfProviders
<1>5. \A t \in Tile : ~confused => ContextFits(t)
  BY DEF TilesInv
<1>6. ASSUME NEW t \in Tile, ~confused'
      PROVE  ContextFits(t)'
  BY <1>1, <1>2, <1>5, <1>6 DEF TilesInv, TilesTyped, ContextFits
<1>7. HandIsOfTile'
  <2>1. Empty \notin Source
    BY TileAssumption
  <2> QED
    BY <1>1, <1>2, <2>1 DEF TilesInv, TilesTyped, HandIsOfTile
<1>8. \A plane \in Planes : \A a \in Addresses(plane) : outputBuffer'[plane][a] = Shown(plane, a)'
  BY <1>2, PictureKept DEF TilesInv
<1> QED
  BY <1>3, <1>4, <1>6, <1>7, <1>8 DEF TilesInv

LEMMA LeaveKeepsPictures ==
  ASSUME TilesInv, NEW p \in Source, deregisterProvider(p)
  PROVE  TilesInv'
<1>1. PICK t \in Tile : /\ mProviderList[t] = p
                        /\ mProviderList' = [mProviderList EXCEPT ![t] = Empty]
                        /\ mConvertContexts' = [mConvertContexts EXCEPT ![t] = Empty]
                        /\ mInterFrames' = mInterFrames \ {t}
  BY DEF deregisterProvider, Released
<1>2. /\ mProviders' = mProviders \ {p} /\ p # Empty /\ confused' = (confused \/ provider = p)
      /\ UNCHANGED << polled, tileStep, inTile, provider, outputBuffer, painted >>
  BY TileAssumption DEF deregisterProvider, runVars
<1>3. TilesTyped'
  BY <1>1, <1>2 DEF TilesInv, TilesTyped
<1>4. SlotsAreOfProviders'
  BY <1>1, <1>2 DEF TilesInv, TilesTyped, SlotsAreOfProviders
<1>5. \A s \in Tile : ~confused => ContextFits(s)
  BY DEF TilesInv
<1>6. ASSUME NEW s \in Tile, ~confused'
      PROVE  ContextFits(s)'
  BY <1>1, <1>2, <1>5, <1>6 DEF TilesInv, TilesTyped, ContextFits
<1>7. HandIsOfTile'
  <2> SUFFICES ASSUME ~confused'
               PROVE  /\ tileStep # "crash"
                      /\ tileStep \in {"prepare", "scale"} => mProviderList'[inTile] = provider
                      /\ tileStep = "scale" => inTile \in mInterFrames' /\ mConvertContexts'[inTile] = SizeOf[provider]
    BY <1>2 DEF HandIsOfTile
  <2>1. ~confused /\ provider # p
    BY <1>2 DEF TilesInv, TilesTyped
  <2>2. /\ tileStep # "crash"
        /\ tileStep \in {"prepare", "scale"} => mProviderList[inTile] = provider
        /\ tileStep = "scale" => inTile \in mInterFrames /\ mConvertContexts[inTile] = SizeOf[provider]
    BY <2>1 DEF TilesInv, HandIsOfTile
  <2> QED
    BY <1>1, <2>1, <2>2 DEF TilesInv, TilesTyped
<1>8. \A plane \in Planes : \A a \in Addresses(plane) : outputBuffer'[plane][a] = Shown(plane, a)'
  BY <1>2, PictureKept DEF TilesInv
<1> QED
  BY <1>3, <1>4, <1>6, <1>7, <1>8 DEF TilesInv

(* The steps that touch neither slots nor picture. *)
LEMMA OthersKeep ==
  ASSUME TilesInv,
         \/ \E p \in Source : FirstFrame(p)
         \/ waitForProviders \/ BeginRound \/ pollFrame \/ Show
  PROVE  TilesInv'
<1>1. UNCHANGED << mProviderList, mProviders, mInterFrames, mConvertContexts, outputBuffer, painted, confused >>
  BY DEF FirstFrame, waitForProviders, BeginRound, pollFrame, Show, slotVars, runVars
<1>2. TilesTyped /\ SlotsAreOfProviders /\ HandIsOfTile /\ \A t \in Tile : ~confused => ContextFits(t)
  BY DEF TilesInv
<1>3. 0 \in Tile /\ Tile = 0 .. mTiles - 1 /\ mTiles \in Nat
  BY TileSizes DEF Tile, Planes
<1>4. TilesTyped' /\ HandIsOfTile'
  <2>1. CASE \E p \in Source : FirstFrame(p)
    BY <1>1, <1>2, <2>1 DEF FirstFrame, slotVars, runVars, TilesTyped, HandIsOfTile
  <2>2. CASE waitForProviders
    BY <1>1, <1>2, <2>2 DEF waitForProviders, slotVars, TilesTyped, HandIsOfTile
  <2>3. CASE BeginRound
    BY <1>1, <1>2, <1>3, <2>3 DEF BeginRound, slotVars, TilesTyped, HandIsOfTile
  <2>4. CASE pollFrame
    <3>1. polled' = polled /\ tileStep = "tile" /\ inTile \in Tile /\ provider = Empty
      BY <1>2, <2>4 DEF pollFrame, TilesTyped
    <3>2. CASE mProviderList[inTile] \in polled
      <4>1. provider' = mProviderList[inTile] /\ provider' \in Source /\ tileStep' = "prepare" /\ inTile' = inTile
        BY <1>2, <2>4, <3>2 DEF pollFrame, TilesTyped
      <4> QED
        BY <1>1, <1>2, <3>1, <4>1 DEF TilesTyped, HandIsOfTile
    <3>3. CASE mProviderList[inTile] \notin polled
      <4>1. provider' = provider /\ inTile' = inTile + 1 /\ tileStep' = IF inTile + 1 = mTiles THEN "show" ELSE "tile"
        BY <2>4, <3>3 DEF pollFrame, OnTo
      <4>2. tileStep' = "tile" => inTile' \in Tile
        BY <1>3, <3>1, <4>1
      <4>3. tileStep' \in {"tile", "show"}
        BY <4>1
      <4> QED
        BY <1>1, <1>2, <3>1, <4>1, <4>2, <4>3 DEF TilesTyped, HandIsOfTile
    <3> QED
      BY <3>2, <3>3
  <2>5. CASE Show
    BY <1>1, <1>2, <2>5 DEF Show, slotVars, TilesTyped, HandIsOfTile
  <2> QED
    BY <2>1, <2>2, <2>3, <2>4, <2>5
<1>5. SlotsAreOfProviders' /\ \A t \in Tile : ~confused' => ContextFits(t)'
  BY <1>1, <1>2 DEF SlotsAreOfProviders, ContextFits
<1>6. \A plane \in Planes : \A a \in Addresses(plane) : outputBuffer'[plane][a] = Shown(plane, a)'
  BY <1>1, PictureKept DEF TilesInv
<1> QED
  BY <1>4, <1>5, <1>6 DEF TilesInv

LEMMA PrepareKeeps ==
  ASSUME TilesInv, Prepare
  PROVE  TilesInv'
<1>1. /\ tileStep = "prepare" /\ tileStep' = "scale" /\ mInterFrames' = mInterFrames \cup {inTile}
      /\ mConvertContexts' = [mConvertContexts EXCEPT ![inTile] =
             IF mConvertContexts[inTile] = Empty THEN SizeOf[provider] ELSE mConvertContexts[inTile]]
      /\ UNCHANGED << mProviderList, mProviders, polled, inTile, provider, outputBuffer, painted, confused >>
  BY DEF Prepare
<1>2. TilesTyped /\ SlotsAreOfProviders /\ HandIsOfTile /\ \A t \in Tile : ~confused => ContextFits(t)
  BY DEF TilesInv
<1>3. inTile \in Tile /\ provider \in Source /\ provider # Empty
  BY <1>1, <1>2, TileAssumption DEF TilesTyped
<1>4. TilesTyped' /\ SlotsAreOfProviders'
  BY <1>1, <1>2, <1>3 DEF TilesTyped, SlotsAreOfProviders
<1>5. ASSUME ~confused
      PROVE  mProviderList[inTile] = provider /\ mConvertContexts'[inTile] = SizeOf[provider]
  <2>1. mProviderList[inTile] = provider
    BY <1>1, <1>2, <1>5 DEF HandIsOfTile
  <2>2. mConvertContexts[inTile] # Empty => mConvertContexts[inTile] = SizeOf[provider]
    BY <1>2, <1>3, <1>5, <2>1 DEF ContextFits
  <2> QED
    BY <1>1, <1>2, <1>3, <2>1, <2>2 DEF TilesTyped
<1>6. ASSUME NEW t \in Tile, ~confused'
      PROVE  ContextFits(t)'
  <2>1. CASE t = inTile
    BY <1>1, <1>3, <1>5, <1>6, <2>1 DEF ContextFits
  <2>2. CASE t # inTile
    BY <1>1, <1>2, <1>6, <2>2 DEF ContextFits, TilesTyped
  <2> QED
    BY <2>1, <2>2
<1>7. HandIsOfTile'
  BY <1>1, <1>2, <1>5 DEF HandIsOfTile
<1>8. \A plane \in Planes : \A a \in Addresses(plane) : outputBuffer'[plane][a] = Shown(plane, a)'
  BY <1>1, PictureKept DEF TilesInv
<1> QED
  BY <1>4, <1>6, <1>7, <1>8 DEF TilesInv

LEMMA ScaleKeeps ==
  ASSUME TilesInv, Scale
  PROVE  TilesInv'
<1>1. TilesTyped /\ SlotsAreOfProviders /\ HandIsOfTile /\ \A t \in Tile : ~confused => ContextFits(t)
  BY DEF TilesInv
<1>2. /\ tileStep = "scale" /\ inTile \in Tile /\ provider \in Source /\ provider' = Empty
      /\ UNCHANGED << mProviderList, mProviders, mInterFrames, mConvertContexts, polled, confused >>
  BY <1>1 DEF Scale, slotVars, TilesTyped
<1>3. SlotsAreOfProviders' /\ \A t \in Tile : ~confused' => ContextFits(t)'
  BY <1>1, <1>2 DEF SlotsAreOfProviders, ContextFits
<1>4. Tile = 0 .. mTiles - 1 /\ mTiles \in Nat
  BY TileSizes DEF Tile, Planes
<1>5. CASE inTile \in mInterFrames /\ mConvertContexts[inTile] = SizeOf[provider]
  <2>1. /\ outputBuffer' = Scaled(outputBuffer, provider, inTile) /\ painted' = [painted EXCEPT ![inTile] = provider]
        /\ inTile' = inTile + 1 /\ tileStep' = IF inTile + 1 = mTiles THEN "show" ELSE "tile"
    BY <1>5 DEF Scale, OnTo
  <2>2. tileStep' \in {"tile", "show"}
    BY <2>1
  <2>3. tileStep' = "tile" => inTile' \in Tile
    BY <1>2, <1>4, <2>1
  <2>4. TilesTyped' /\ HandIsOfTile'
    BY <1>1, <1>2, <2>1, <2>2, <2>3 DEF TilesTyped, HandIsOfTile
  <2>5. painted \in [Tile -> Source \cup {Empty}]
    BY <1>1 DEF TilesTyped
  <2>6. \A plane \in Planes : \A a \in Addresses(plane) : outputBuffer[plane][a] = Shown(plane, a)
    BY DEF TilesInv
  <2>7. \A plane \in Planes : \A a \in Addresses(plane) : outputBuffer'[plane][a] = Shown(plane, a)'
    BY <1>2, <2>1, <2>5, <2>6, ScaledShows
  <2> QED
    BY <1>3, <2>4, <2>7 DEF TilesInv
<1>6. CASE ~(inTile \in mInterFrames /\ mConvertContexts[inTile] = SizeOf[provider])
  <2>1. tileStep' = "crash" /\ UNCHANGED << inTile, outputBuffer, painted >>
    BY <1>6 DEF Scale
  <2>2. confused
    BY <1>1, <1>2, <1>6 DEF HandIsOfTile
  <2>3. TilesTyped' /\ HandIsOfTile'
    BY <1>1, <1>2, <2>1, <2>2 DEF TilesTyped, HandIsOfTile
  <2>4. \A plane \in Planes : \A a \in Addresses(plane) : outputBuffer'[plane][a] = Shown(plane, a)'
    BY <2>1, PictureKept DEF TilesInv
  <2> QED
    BY <1>3, <2>3, <2>4 DEF TilesInv
<1> QED
  BY <1>5, <1>6

(* A step of the picture's thread or of a provider keeps the invariant. *)
LEMMA TilesStep == TilesInv /\ [TilesNext]_tileVars => TilesInv'
<1> SUFFICES ASSUME TilesInv, [TilesNext]_tileVars
             PROVE  TilesInv'
  OBVIOUS
<1>1. CASE UNCHANGED tileVars
  BY <1>1 DEF tileVars, slotVars, TilesInv, TilesTyped, SlotsAreOfProviders, HandIsOfTile, ContextFits, Shown
<1>2. CASE TilesNext
  BY <1>2, JoinKeepsPictures, LeaveKeepsPictures, OthersKeep, PrepareKeeps, ScaleKeeps DEF TilesNext
<1> QED
  BY <1>1, <1>2

(* Each tile's slot, context and picture are its provider's (ozMatrixVideo.cpp:46-96, 164-222). *)
THEOREM TilesInvariant == TilesSpec => []TilesInv
BY TilesInitially, TilesStep, PTL DEF TilesSpec

(* A viewer sees at every address of the picture the pixel of the tile that is there, of the        *)
(* picture that was last scaled into it, and no context is used for another size, for any numbers   *)
(* and sizes of tiles the options allow (ozMatrixVideo.cpp:164-222).                                *)
THEOREM TilesAlwaysShow == TilesSpec => []TilesShowTheirProviders
<1>1. TilesInv => TilesShowTheirProviders
  BY DEF TilesInv, HandIsOfTile, ContextFits, TilesShowTheirProviders
<1> QED
  BY <1>1, TilesInvariant, PTL

-----------------------------------------------------------------------------
(***************************************************************************)
(* AlarmClips.  The files of an alarm hold the groups of pictures it needs. *)
(***************************************************************************)

-----------------------------------------------------------------------------
(* Mp4FileOutput: the groups of pictures that are kept                     *)

(* What `seen' holds after a frame was handled. *)
LEMMA HandledAppends ==
  ASSUME ClipsTyped, NEW what \in SUBSET (Motion \cup Coded), Handles(what)
  PROVE  /\ seen \in Seq(Handled) /\ seen' \in Seq(Handled)
         /\ Len(seen) \in Nat /\ Len(seen') = Len(seen) + 1
         /\ \A i \in 1 .. Len(seen) : seen'[i] = seen[i]
         /\ seen'[Len(seen) + 1] = [what |-> Head(clipQueue).what, time |-> Head(clipQueue).time, at |-> clipTime]
         /\ Head(clipQueue).what \in what /\ Head(clipQueue).time \in Int
         /\ clipQueue' \in Seq([what : Motion \cup Coded, time : Int])
         /\ running /\ UNCHANGED << clipTime, running >>
<1>1. /\ running /\ clipQueue # << >> /\ Head(clipQueue).what \in what
      /\ clipQueue' = Tail(clipQueue)
      /\ seen' = Append(seen, [what |-> Head(clipQueue).what, time |-> Head(clipQueue).time, at |-> clipTime])
      /\ UNCHANGED << clipTime, running >>
  BY DEF Handles
<1>2. seen \in Seq(Handled) /\ clipQueue \in Seq([what : Motion \cup Coded, time : Int]) /\ clipTime \in Int
  BY DEF ClipsTyped
<1>3. Head(clipQueue) \in [what : Motion \cup Coded, time : Int] /\ clipQueue' \in Seq([what : Motion \cup Coded, time : Int])
  <2> DEFINE Q == [what : Motion \cup Coded, time : Int]
  <2>1. clipQueue \in Seq(Q) /\ clipQueue # << >> /\ clipQueue' = Tail(clipQueue)
    BY <1>1, <1>2
  <2> HIDE DEF Q
  <2>2. Head(clipQueue) \in Q /\ clipQueue' \in Seq(Q)
    BY <2>1, HeadTailProperties
  <2> QED
    BY <2>2 DEF Q
<1> DEFINE e == [what |-> Head(clipQueue).what, time |-> Head(clipQueue).time, at |-> clipTime]
<1>4. e \in Handled
  BY <1>2, <1>3 DEF Handled
<1>5. seen' = Append(seen, e)
  BY <1>1
<1> HIDE DEF e
<1>6. /\ seen' \in Seq(Handled) /\ Len(seen) \in Nat /\ Len(seen') = Len(seen) + 1
      /\ \A i \in 1 .. Len(seen) : seen'[i] = seen[i]
      /\ seen'[Len(seen) + 1] = e
  BY <1>2, <1>4, <1>5
<1> QED
  BY <1>1, <1>2, <1>3, <1>6 DEF e

(* The least of a set of numbers. *)
LEMMA LeastIs ==
  ASSUME NEW S \in SUBSET Int, NEW m \in S, \A x \in S : m <= x
  PROVE  Min(S) = m
<1>1. \A x \in S : (\A y \in S : x <= y) => x = m
  OBVIOUS
<1> QED
  BY <1>1 DEF Min

LEMMA GreatestIs ==
  ASSUME NEW S \in SUBSET Int, NEW m \in S, \A x \in S : m >= x
  PROVE  Max(S) = m
<1>1. \A x \in S : (\A y \in S : x >= y) => x = m
  OBVIOUS
<1> QED
  BY <1>1 DEF Max

(* Whether an alarm counts after what was seen. *)
LEMMA StateTells ==
  ASSUME ClipsTyped, StateFollows
  PROVE  Counts(Len(seen) + 1) <=> alarmState # "IDLE"
<1> DEFINE n == Len(seen)
           QuietAfter(a) == { q \in a + 1 .. n + 1 - 1 : seen[q].what = "quiet" }
           Again(a) == { b \in a + 1 .. n + 1 - 1 : seen[b].what = "alarmed" }
           Late(a, q) == ~(q = Min(QuietAfter(a)) \/ seen[q].time - seen[a].at <= MAX_CLIP_TAIL_AGE)
<1>1. Counts(Len(seen) + 1) <=>
        \E a \in 1 .. n + 1 - 1 : seen[a].what = "alarmed" /\ Again(a) = {} /\ \A q \in QuietAfter(a) : ~Late(a, q)
  BY DEF Counts
<1>2. n \in Nat
  BY DEF ClipsTyped
<1>3. n + 1 - 1 = n
  BY <1>2
<1>4. CASE alarmState = "IDLE" /\ \A a \in 1 .. Len(seen) : seen[a].what # "alarmed"
  BY <1>1, <1>3, <1>4
<1>5. ASSUME NEW a \in 1 .. Len(seen), LastAlarm(a),
             \/ alarmState = "ALARM" /\ \A q \in a + 1 .. Len(seen) : seen[q].what # "quiet"
             \/ \E first \in a + 1 .. Len(seen) :
                    FirstQuiet(a, first) /\ alarmState = IF InTail(a, first) THEN "ALERT" ELSE "IDLE"
      PROVE  Counts(Len(seen) + 1) <=> alarmState # "IDLE"
  <2>1. seen[a].what = "alarmed" /\ Again(a) = {}
    BY <1>3, <1>5 DEF LastAlarm
  <2>2. \A b \in 1 .. n : seen[b].what = "alarmed" /\ Again(b) = {} => b = a
    <3> SUFFICES ASSUME NEW b \in 1 .. n, seen[b].what = "alarmed", Again(b) = {}
                 PROVE  b = a
      OBVIOUS
    <3>1. b > a => b \in a + 1 .. Len(seen)
      BY <1>2
    <3>2. b < a => a \in b + 1 .. n + 1 - 1
      BY <1>2
    <3> QED
      BY <1>2, <1>5, <2>1, <3>1, <3>2 DEF LastAlarm
  <2>3. Counts(Len(seen) + 1) <=> \A q \in QuietAfter(a) : ~Late(a, q)
    <3> HIDE DEF QuietAfter, Again, Late, n
    <3> QED
      BY <1>1, <1>3, <1>5, <2>1, <2>2 DEF n
  <2>4. CASE alarmState = "ALARM" /\ \A q \in a + 1 .. Len(seen) : seen[q].what # "quiet"
    <3>1. QuietAfter(a) = {}
      BY <1>3, <2>4
    <3> QED
      BY <2>3, <2>4, <3>1
  <2>5. ASSUME NEW first \in a + 1 .. Len(seen), FirstQuiet(a, first),
               alarmState = IF InTail(a, first) THEN "ALERT" ELSE "IDLE"
        PROVE  Counts(Len(seen) + 1) <=> alarmState # "IDLE"
    <3>1. QuietAfter(a) \in SUBSET Int /\ first \in QuietAfter(a)
      BY <1>2, <1>3, <2>5 DEF FirstQuiet
    <3>2. \A q \in QuietAfter(a) : first <= q
      <4> SUFFICES ASSUME NEW q \in QuietAfter(a), q < first
                   PROVE  FALSE
        BY <3>1
      <4>1. q \in a + 1 .. first - 1 /\ seen[q].what = "quiet"
        BY <1>2, <1>3
      <4> QED
        BY <2>5, <4>1 DEF FirstQuiet
    <3>3. Min(QuietAfter(a)) = first
      <4> HIDE DEF QuietAfter
      <4> QED
        BY <3>1, <3>2, LeastIs
    <3>4. (\A q \in QuietAfter(a) : ~Late(a, q)) <=> InTail(a, first)
      <4>1. ASSUME \A q \in QuietAfter(a) : ~Late(a, q), NEW q \in first + 1 .. Len(seen), seen[q].what = "quiet"
            PROVE  seen[q].time - seen[a].at <= MAX_CLIP_TAIL_AGE
        <5>1. q \in QuietAfter(a) /\ q # first
          BY <1>2, <1>3, <4>1
        <5> QED
          BY <3>3, <4>1, <5>1
      <4>2. ASSUME InTail(a, first), NEW q \in QuietAfter(a)
            PROVE  ~Late(a, q)
        <5>1. q = first \/ q \in first + 1 .. Len(seen)
          BY <1>2, <1>3, <3>2
        <5> QED
          BY <3>3, <4>2, <5>1 DEF InTail
      <4> QED
        BY <4>1, <4>2 DEF InTail
    <3> QED
      <4> HIDE DEF QuietAfter, Late
      <4> QED
        BY <2>3, <2>5, <3>4
  <2> QED
    BY <1>5, <2>4, <2>5
<1> QED
  BY <1>4, <1>5 DEF StateFollows

(* What counted at a place counts there for ever. *)
LEMMA CountsStays ==
  ASSUME NEW p \in 1 .. Len(seen) + 1, Len(seen) \in Nat, Len(seen') = Len(seen) + 1,
         \A i \in 1 .. Len(seen) : seen'[i] = seen[i]
  PROVE  Counts(p)' <=> Counts(p)
<1>1. ASSUME NEW a \in 1 .. p - 1
      PROVE  /\ seen'[a] = seen[a]
             /\ { q \in a + 1 .. p - 1 : seen'[q].what = "quiet" } = { q \in a + 1 .. p - 1 : seen[q].what = "quiet" }
             /\ { q \in a + 1 .. p - 1 : seen'[q].what = "alarmed" } = { q \in a + 1 .. p - 1 : seen[q].what = "alarmed" }
             /\ \A q \in a + 1 .. p - 1 : seen'[q] = seen[q]
  <2>1. \A q \in a .. p - 1 : seen'[q] = seen[q]
    OBVIOUS
  <2>2. \A q \in a + 1 .. p - 1 : seen'[q] = seen[q]
    <3>1. \A q \in a + 1 .. p - 1 : q \in a .. p - 1
      OBVIOUS
    <3> QED
      BY <2>1, <3>1
  <2>3. seen'[a] = seen[a]
    BY <2>1
  <2> QED
    BY <2>2, <2>3
<1> QED
  BY <1>1, ZenonT(60) DEF Counts

LEMMA ClipsInitially == ClipInit => ClipsInv
<1> SUFFICES ASSUME ClipInit
             PROVE  ClipsInv
  OBVIOUS
<1>1. seen = << >> /\ clips = << >> /\ clipQueue = << >> /\ alarmState = "IDLE" /\ ~outputContext /\ Len(seen) = 0 /\ Len(clips) = 0
  BY DEF ClipInit
<1>2. ClipsTyped
  <2>1. \A S : << >> \in Seq(S)
    BY EmptySeq
  <2> DEFINE e == << >>
  <2>2. e \in Seq(Handled) /\ e \in Seq([what : Motion \cup Coded, time : Int]) /\ e \in Seq(Seq(Packet))
    BY <2>1
  <2>3. seen = e /\ clips = e /\ clipQueue = e
    BY <1>1
  <2>4. clipTime = 1 /\ alarmTime = 0 /\ videoFrameCount = 0 /\ running = TRUE /\ outputContext = FALSE
    BY DEF ClipInit
  <2> HIDE DEF e
  <2> QED
    <3>1. seen \in Seq(Handled) /\ clipQueue \in Seq([what : Motion \cup Coded, time : Int]) /\ clips \in Seq(Seq(Packet))
      BY <2>2, <2>3
    <3>2. clipTime \in Int /\ alarmTime \in Int /\ videoFrameCount \in Int /\ alarmState \in {"IDLE", "ALARM", "ALERT"}
      BY <1>1, <2>4
    <3>3. running \in BOOLEAN /\ outputContext \in BOOLEAN
      BY <2>4
    <3> QED
      BY <3>1, <3>2, <3>3 DEF ClipsTyped
<1>3. StateFollows
  BY <1>1 DEF StateFollows
<1>4. ~ToKeep(Len(seen)) /\ KeysHaveLast
  BY <1>1 DEF ToKeep, KeysHaveLast
<1> QED
  BY <1>1, <1>2, <1>3, <1>4 DEF ClipsInv

(* A frame that comes, and the clock. *)
LEMMA WaitingKeeps ==
  ASSUME ClipsInv, ClipTick \/ \E what \in Motion \cup Coded : queueClipFrame(what)
  PROVE  ClipsInv'
<1>1. UNCHANGED << alarmState, alarmTime, videoFrameCount, outputContext, clips, seen, running >>
  BY DEF ClipTick, queueClipFrame
<1>2. ClipsTyped'
  <2>1. ClipsTyped
    BY DEF ClipsInv
  <2>2. CASE ClipTick
    BY <1>1, <2>1, <2>2 DEF ClipTick, ClipsTyped
  <2>3. ASSUME NEW what \in Motion \cup Coded, queueClipFrame(what)
        PROVE  ClipsTyped'
    <3> DEFINE e == [what |-> what, time |-> clipTime]
               Q == [what : Motion \cup Coded, time : Int]
    <3>1. e \in Q /\ clipQueue \in Seq(Q) /\ clipQueue' = Append(clipQueue, e) /\ clipTime' = clipTime
      BY <2>1, <2>3 DEF queueClipFrame, ClipsTyped
    <3> HIDE DEF e, Q
    <3>2. clipQueue' \in Seq(Q)
      BY <3>1
    <3> QED
      BY <1>1, <2>1, <3>1, <3>2 DEF ClipsTyped, Q
  <2> QED
    BY <2>2, <2>3
<1>3. Counts(1)' = Counts(1) /\ \A k : Counts(k)' = Counts(k)
  BY <1>1 DEF Counts
<1>4. /\ StateFollows' = StateFollows /\ KeysHaveLast' = KeysHaveLast /\ ToKeep(Len(seen))' = ToKeep(Len(seen)) /\ OpenIsCurrent' = OpenIsCurrent
  BY <1>1, <1>3 DEF StateFollows, LastAlarm, FirstQuiet, InTail, KeysHaveLast, ToKeep, LastKey, OpenIsCurrent, IsCoded
<1>5. \A p : IsCoded(p)' = IsCoded(p) /\ Kept(p)' = Kept(p) /\ ToKeep(p)' = ToKeep(p)
  BY <1>1, <1>3 DEF IsCoded, Kept, ToKeep, LastKey
<1>6. \A c : FileFits(c)' = FileFits(c)
  BY <1>1 DEF FileFits, IsCoded
<1> QED
  BY <1>1, <1>2, <1>4, <1>5, <1>6 DEF ClipsInv

(* What is said of the places that were there stays true. *)
LEMMA PlacesStay ==
  ASSUME Len(seen) \in Nat, Len(seen') = Len(seen) + 1, \A i \in 1 .. Len(seen) : seen'[i] = seen[i]
  PROVE  \A p \in 1 .. Len(seen) : IsCoded(p)' = IsCoded(p) /\ ToKeep(p)' = ToKeep(p)
<1> SUFFICES ASSUME NEW p \in 1 .. Len(seen)
             PROVE  IsCoded(p)' = IsCoded(p) /\ ToKeep(p)' = ToKeep(p)
  OBVIOUS
<1>1. ASSUME NEW k \in 1 .. p
      PROVE  Counts(k)' <=> Counts(k)
  <2>1. k \in 1 .. Len(seen) + 1
    OBVIOUS
  <2> QED
    BY <2>1, CountsStays
<1>2. \A k \in 1 .. p : LastKey(p, k)' = LastKey(p, k)
  BY SMTT(30) DEF LastKey
<1> QED
  BY <1>1, <1>2 DEF ToKeep, IsCoded

(* The new place is in the group of the one before it, unless it begins one. *)
LEMMA NewPlace ==
  ASSUME Len(seen) \in Nat, Len(seen') = Len(seen) + 1, \A i \in 1 .. Len(seen) : seen'[i] = seen[i]
  PROVE  /\ seen'[Len(seen) + 1].what # "key" => (ToKeep(Len(seen))' <=> ToKeep(Len(seen)))
         /\ seen'[Len(seen) + 1].what = "key" => (ToKeep(Len(seen))' <=> Counts(Len(seen) + 1))
<1> DEFINE n == Len(seen)
<1>1. ASSUME NEW k \in 1 .. n + 1
      PROVE  Counts(k)' <=> Counts(k)
  BY CountsStays
<1>2. ToKeep(Len(seen))' <=> \E k \in 1 .. n + 1 :
          seen'[k].what = "key" /\ (\A m \in k + 1 .. n + 1 : seen'[m].what # "key") /\ Counts(k)
  BY <1>1 DEF ToKeep, LastKey
<1>3. ToKeep(Len(seen)) <=> \E k \in 1 .. n :
          seen[k].what = "key" /\ (\A m \in k + 1 .. n : seen[m].what # "key") /\ Counts(k)
  BY DEF ToKeep, LastKey
<1>4. n \in Nat /\ \A i \in 1 .. n : seen'[i] = seen[i]
  OBVIOUS
<1> HIDE DEF n
<1>5. ASSUME NEW k \in 1 .. n
      PROVE  n + 1 \in k + 1 .. n + 1 /\ k \in 1 .. n + 1 /\ seen'[k] = seen[k]
  BY <1>4
<1>6. CASE seen'[n + 1].what # "key"
  <2>1. ASSUME NEW k \in 1 .. n
        PROVE  (\A m \in k + 1 .. n + 1 : seen'[m].what # "key") <=> (\A m \in k + 1 .. n : seen[m].what # "key")
    <3>1. \A m \in k + 1 .. n : seen'[m] = seen[m] /\ m \in k + 1 .. n + 1
      BY <1>4
    <3>2. \A m \in k + 1 .. n + 1 : m = n + 1 \/ m \in k + 1 .. n
      BY <1>4
    <3> QED
      BY <1>6, <3>1, <3>2
  <2>2. \A k \in 1 .. n + 1 : k = n + 1 \/ k \in 1 .. n
    BY <1>4
  <2>3. ToKeep(Len(seen))' <=> ToKeep(Len(seen))
    BY <1>2, <1>3, <1>5, <1>6, <2>1, <2>2
  <2> QED
    BY <1>6, <2>3 DEF n
<1>7. CASE seen'[n + 1].what = "key"
  <2>1. n + 1 \in 1 .. n + 1 /\ \A m \in n + 1 + 1 .. n + 1 : seen'[m].what # "key"
    BY <1>4
  <2>2. \A k \in 1 .. n + 1 : k = n + 1 \/ k \in 1 .. n
    BY <1>4
  <2>3. ToKeep(Len(seen))' <=> Counts(n + 1)
    BY <1>2, <1>5, <1>7, <2>1, <2>2
  <2> QED
    BY <1>7, <2>3 DEF n
<1> QED
  BY <1>6, <1>7

LEMMA KeysKeepLast ==
  ASSUME Len(seen) \in Nat, Len(seen') = Len(seen) + 1, \A i \in 1 .. Len(seen) : seen'[i] = seen[i], KeysHaveLast
  PROVE  KeysHaveLast'
<1> PICK n : n = Len(seen)
  OBVIOUS
<1> SUFFICES ASSUME NEW p \in 1 .. n + 1, NEW k \in 1 .. p, seen'[k].what = "key"
             PROVE  \E l \in 1 .. p : LastKey(p, l)'
  BY DEF KeysHaveLast
<1>1. CASE p \in 1 .. n
  <2>1. PICK l \in 1 .. p : LastKey(p, l)
    BY <1>1 DEF KeysHaveLast
  <2>2. LastKey(p, l)'
    BY <1>1, <2>1 DEF LastKey
  <2> QED
    BY <2>2
<1>2. CASE p = n + 1 /\ seen'[n + 1].what = "key"
  <2>1. n + 1 \in 1 .. p /\ LastKey(p, n + 1)'
    BY <1>2 DEF LastKey
  <2> QED
    BY <2>1
<1>3. CASE p = n + 1 /\ seen'[n + 1].what # "key"
  <2>1. k \in 1 .. n /\ n \in 1 .. n /\ seen[k].what = "key"
    BY <1>3
  <2>2. PICK l \in 1 .. n : LastKey(n, l)
    BY <2>1 DEF KeysHaveLast
  <2>3. \A m \in l + 1 .. n + 1 : m = n + 1 \/ (m \in l + 1 .. n /\ m \in 1 .. n)
    OBVIOUS
  <2>4. LastKey(p, l)' /\ l \in 1 .. p
    BY <1>3, <2>2, <2>3 DEF LastKey
  <2> QED
    BY <2>4
<1> QED
  BY <1>1, <1>2, <1>3

(* An alarmed and a quiet frame: the state follows. *)
LEMMA AlarmFollows ==
  ASSUME ClipsTyped, StateFollows, Alarmed
  PROVE  StateFollows'
<1> PICK n : n = Len(seen)
  OBVIOUS
<1>1. {"alarmed"} \in SUBSET (Motion \cup Coded) /\ Handles({"alarmed"}) /\ alarmState' = "ALARM" /\ alarmTime' = clipTime
  BY DEF Alarmed, Motion
<1>2. n \in Nat /\ Len(seen') = n + 1 /\ seen'[n + 1].what = "alarmed" /\ seen'[n + 1].at = clipTime
  BY <1>1, HandledAppends
<1>3. LastAlarm(n + 1)' /\ n + 1 \in 1 .. Len(seen')
  BY <1>2 DEF LastAlarm
<1>4. \A q \in n + 1 + 1 .. Len(seen') : seen'[q].what # "quiet"
  BY <1>2
<1> QED
  BY <1>1, <1>2, <1>3, <1>4 DEF StateFollows

LEMMA QuietFollows ==
  ASSUME ClipsTyped, StateFollows, Quietened
  PROVE  StateFollows'
<1> PICK n : n = Len(seen)
  OBVIOUS
<1> DEFINE time == Head(clipQueue).time
<1>1. {"quiet"} \in SUBSET (Motion \cup Coded) /\ Handles({"quiet"}) /\ alarmState' = StateAfter(time) /\ alarmTime' = alarmTime
  BY DEF Quietened, Motion
<1>2. /\ n \in Nat /\ Len(seen') = n + 1 /\ seen'[n + 1].what = "quiet" /\ seen'[n + 1].time = time
      /\ \A i \in 1 .. n : seen'[i] = seen[i]
      /\ time \in Int
  BY <1>1, HandledAppends
<1>3. alarmState \in {"IDLE", "ALARM", "ALERT"} /\ alarmTime \in Int
  BY DEF ClipsTyped
<1> HIDE DEF time
<1>4. ASSUME alarmState = "IDLE", \A a \in 1 .. n : seen[a].what # "alarmed"
      PROVE  StateFollows'
  <2>1. alarmState' = "IDLE"
    BY <1>1, <1>4 DEF StateAfter
  <2>2. \A a \in 1 .. n + 1 : seen'[a].what # "alarmed"
    <3>1. \A a \in 1 .. n + 1 : a = n + 1 \/ a \in 1 .. n
      BY <1>2
    <3> QED
      BY <1>2, <1>4, <3>1
  <2> QED
    BY <1>2, <2>1, <2>2 DEF StateFollows
<1>5. ASSUME NEW a \in 1 .. n, LastAlarm(a), alarmTime = seen[a].at,
             \/ alarmState = "ALARM" /\ \A q \in a + 1 .. n : seen[q].what # "quiet"
             \/ \E first \in a + 1 .. n :
                    FirstQuiet(a, first) /\ alarmState = IF InTail(a, first) THEN "ALERT" ELSE "IDLE"
      PROVE  StateFollows'
  <2>1. a \in 1 .. n + 1 /\ n + 1 \in a + 1 .. n + 1 /\ seen'[a] = seen[a] /\ alarmTime' = seen'[a].at
    BY <1>1, <1>2, <1>5
  <2>2. LastAlarm(a)'
    <3>1. \A b \in a + 1 .. n + 1 : b = n + 1 \/ (b \in a + 1 .. n /\ b \in 1 .. n)
      BY <1>2
    <3> QED
      BY <1>2, <1>5, <2>1, <3>1 DEF LastAlarm
  <2>3. SUFFICES \E first \in a + 1 .. n + 1 :
                     FirstQuiet(a, first)' /\ alarmState' = IF InTail(a, first)' THEN "ALERT" ELSE "IDLE"
    BY <1>2, <2>1, <2>2 DEF StateFollows
  <2>4. CASE alarmState = "ALARM" /\ \A q \in a + 1 .. n : seen[q].what # "quiet"
    <3>1. FirstQuiet(a, n + 1)'
      <4>1. \A r \in a + 1 .. n + 1 - 1 : r \in a + 1 .. n /\ r \in 1 .. n
        BY <1>2
      <4> QED
        BY <1>2, <2>4, <4>1 DEF FirstQuiet
    <3>2. InTail(a, n + 1)'
      BY <1>2 DEF InTail
    <3>3. alarmState' = "ALERT"
      BY <1>1, <2>4 DEF StateAfter
    <3> QED
      BY <2>1, <3>1, <3>2, <3>3
  <2>5. ASSUME NEW first \in a + 1 .. n, FirstQuiet(a, first),
               alarmState = IF InTail(a, first) THEN "ALERT" ELSE "IDLE"
        PROVE  \E f \in a + 1 .. n + 1 :
                   FirstQuiet(a, f)' /\ alarmState' = IF InTail(a, f)' THEN "ALERT" ELSE "IDLE"
    <3>1. first \in a + 1 .. n + 1 /\ first \in 1 .. n
      BY <1>2
    <3>2. FirstQuiet(a, first)'
      <4>1. \A r \in a + 1 .. first - 1 : r \in 1 .. n
        BY <1>2
      <4> QED
        BY <1>2, <2>5, <3>1, <4>1 DEF FirstQuiet
    <3>3. InTail(a, first)' <=> InTail(a, first) /\ time - seen[a].at <= MAX_CLIP_TAIL_AGE
      <4>1. \A q \in first + 1 .. n + 1 : q = n + 1 \/ (q \in first + 1 .. n /\ q \in 1 .. n)
        BY <1>2
      <4>2. \A q \in first + 1 .. n : q \in first + 1 .. n + 1 /\ q \in 1 .. n
        BY <1>2
      <4>3. n + 1 \in first + 1 .. n + 1
        BY <1>2
      <4> QED
        BY <1>2, <2>1, <4>1, <4>2, <4>3 DEF InTail
    <3>4. seen[a].at \in Int /\ MAX_CLIP_TAIL_AGE \in Int
      BY <1>3, <1>5, ClipAssumption
    <3>5. alarmState' = IF InTail(a, first)' THEN "ALERT" ELSE "IDLE"
      <4>1. alarmState' = IF alarmState = "ALERT" THEN IF time - seen[a].at > MAX_CLIP_TAIL_AGE THEN "IDLE" ELSE "ALERT" ELSE "IDLE"
        BY <1>1, <1>5, <2>5 DEF StateAfter
      <4>2. time - seen[a].at > MAX_CLIP_TAIL_AGE <=> ~(time - seen[a].at <= MAX_CLIP_TAIL_AGE)
        BY <1>2, <3>4
      <4> QED
        BY <2>5, <3>3, <4>1, <4>2
    <3> QED
      BY <3>1, <3>2, <3>5
  <2> QED
    BY <1>5, <2>4, <2>5
<1> QED
  BY <1>4, <1>5 DEF StateFollows

(* A frame that is written says nothing of alarms. *)
LEMMA WrittenFollows ==
  ASSUME ClipsTyped, StateFollows, Handles(Coded), UNCHANGED << alarmState, alarmTime >>
  PROVE  StateFollows'
<1> DEFINE n == Len(seen)
<1>1. Coded \in SUBSET (Motion \cup Coded)
  OBVIOUS
<1>2. /\ n \in Nat /\ Len(seen') = n + 1 /\ seen'[n + 1].what \in {"key", "delta"}
      /\ \A i \in 1 .. n : seen'[i] = seen[i]
  BY <1>1, HandledAppends DEF Coded
<1>3. seen'[n + 1].what # "alarmed" /\ seen'[n + 1].what # "quiet"
  BY <1>2
<1>4. \A a \in 1 .. n + 1 : a = n + 1 \/ a \in 1 .. n
  BY <1>2
<1>5. ASSUME alarmState = "IDLE", \A a \in 1 .. n : seen[a].what # "alarmed"
      PROVE  StateFollows'
  BY <1>2, <1>3, <1>4, <1>5 DEF StateFollows
<1>6. ASSUME NEW a \in 1 .. n, LastAlarm(a), alarmTime = seen[a].at,
             \/ alarmState = "ALARM" /\ \A q \in a + 1 .. n : seen[q].what # "quiet"
             \/ \E first \in a + 1 .. n :
                    FirstQuiet(a, first) /\ alarmState = IF InTail(a, first) THEN "ALERT" ELSE "IDLE"
      PROVE  StateFollows'
  <2>1. a \in 1 .. n + 1 /\ seen'[a] = seen[a] /\ alarmTime' = seen'[a].at
    BY <1>2, <1>6
  <2>2. \A b \in a + 1 .. n + 1 : b = n + 1 \/ (b \in a + 1 .. n /\ b \in 1 .. n)
    BY <1>2
  <2>3. LastAlarm(a)'
    BY <1>2, <1>3, <1>6, <2>1, <2>2 DEF LastAlarm
  <2>4. CASE alarmState = "ALARM" /\ \A q \in a + 1 .. n : seen[q].what # "quiet"
    <3>1. \A q \in a + 1 .. n + 1 : seen'[q].what # "quiet"
      BY <1>2, <1>3, <2>2, <2>4
    <3> QED
      BY <1>2, <2>1, <2>3, <2>4, <3>1 DEF StateFollows
  <2>5. ASSUME NEW first \in a + 1 .. n, FirstQuiet(a, first),
               alarmState = IF InTail(a, first) THEN "ALERT" ELSE "IDLE"
        PROVE  StateFollows'
    <3>1. first \in a + 1 .. n + 1 /\ first \in 1 .. n
      BY <1>2
    <3>2. FirstQuiet(a, first)'
      <4>1. \A r \in a + 1 .. first - 1 : r \in 1 .. n
        BY <1>2
      <4> QED
        BY <1>2, <2>5, <3>1, <4>1 DEF FirstQuiet
    <3>3. InTail(a, first)' <=> InTail(a, first)
      <4>1. \A q \in first + 1 .. n + 1 : q = n + 1 \/ (q \in first + 1 .. n /\ q \in 1 .. n)
        BY <1>2
      <4>2. \A q \in first + 1 .. n : q \in first + 1 .. n + 1 /\ q \in 1 .. n
        BY <1>2
      <4> QED
        BY <1>2, <1>3, <2>1, <4>1, <4>2 DEF InTail
    <3> QED
      BY <1>2, <2>1, <2>3, <2>5, <3>1, <3>2, <3>3 DEF StateFollows
  <2> QED
    BY <1>6, <2>4, <2>5
<1> QED
  BY <1>5, <1>6 DEF StateFollows

(* A file that was there fits what was seen before, and fits what is seen now. *)
LEMMA FilesStay ==
  ASSUME ClipsTyped, Len(seen) \in Nat, Len(seen') = Len(seen) + 1, \A i \in 1 .. Len(seen) : seen'[i] = seen[i],
         NEW c \in 1 .. Len(clips), FileFits(c), clips'[c] = clips[c]
  PROVE  FileFits(c)'
<1> PICK n : n = Len(seen)
  OBVIOUS
<1>1. clips[c] \in Seq(Packet) /\ Len(clips[c]) \in Nat /\ n \in Nat
  BY DEF ClipsTyped
<1> PICK f : f = clips[c]
  OBVIOUS
<1>2. /\ Len(f) > 0 /\ seen[f[1].place].what = "key"
      /\ \A i \in 1 .. Len(f) :
           /\ f[i].pts = i - 1 /\ f[i].place \in 1 .. n /\ seen[f[i].place].what \in Coded
           /\ i > 1 => \A p \in 1 .. n : seen[p].what \in Coded => p <= f[i - 1].place \/ p >= f[i].place
  BY DEF FileFits, IsCoded
<1>3. f[1].place \in 1 .. n /\ \A i \in 1 .. Len(f) : f[i].place \in 1 .. n + 1 /\ seen'[f[i].place] = seen[f[i].place]
  BY <1>1, <1>2
<1>4. ASSUME NEW i \in 1 .. Len(f), i > 1, NEW p \in 1 .. n + 1, seen'[p].what \in Coded
      PROVE  p <= f[i - 1].place \/ p >= f[i].place
  <2>1. CASE p = n + 1
    BY <1>1, <1>2, <2>1
  <2>2. CASE p \in 1 .. n
    BY <1>2, <1>4, <2>2
  <2> QED
    BY <1>1, <2>1, <2>2
<1>5. /\ Len(f) > 0 /\ seen'[f[1].place].what = "key"
      /\ \A i \in 1 .. Len(f) :
           /\ f[i].pts = i - 1 /\ f[i].place \in 1 .. n + 1 /\ seen'[f[i].place].what \in Coded
           /\ i > 1 => \A p \in 1 .. n + 1 : seen'[p].what \in Coded => p <= f[i - 1].place \/ p >= f[i].place
  BY <1>1, <1>2, <1>3, <1>4
<1> QED
  BY <1>5 DEF FileFits, IsCoded

(* A frame of a detector leaves the files alone. *)
LEMMA MotionKeeps ==
  ASSUME ClipsInv, Alarmed \/ Quietened
  PROVE  ClipsInv'
<1> PICK n : n = Len(seen)
  OBVIOUS
<1>1. ClipsTyped /\ StateFollows
  BY DEF ClipsInv
<1>2. UNCHANGED << videoFrameCount, outputContext, clips >> /\ Handles(Motion)
  BY DEF Alarmed, Quietened, Handles, Motion
<1>3. /\ n \in Nat /\ Len(seen') = n + 1 /\ \A i \in 1 .. n : seen'[i] = seen[i]
      /\ seen'[n + 1].what \in Motion /\ seen' \in Seq(Handled)
      /\ clipQueue' \in Seq([what : Motion \cup Coded, time : Int]) /\ running /\ UNCHANGED << clipTime, running >>
  <2>1. Motion \in SUBSET (Motion \cup Coded)
    OBVIOUS
  <2>2. /\ seen' \in Seq(Handled) /\ Len(seen) \in Nat /\ Len(seen') = Len(seen) + 1
        /\ \A i \in 1 .. Len(seen) : seen'[i] = seen[i]
        /\ seen'[Len(seen) + 1] = [what |-> Head(clipQueue).what, time |-> Head(clipQueue).time, at |-> clipTime]
        /\ Head(clipQueue).what \in Motion
        /\ clipQueue' \in Seq([what : Motion \cup Coded, time : Int]) /\ running /\ UNCHANGED << clipTime, running >>
    BY <1>1, <1>2, <2>1, HandledAppends
  <2> QED
    BY <2>2
<1>4. seen'[n + 1].what \notin Coded /\ seen'[n + 1].what # "key"
  BY <1>3 DEF Motion, Coded
<1>5. StateFollows'
  BY <1>1, AlarmFollows, QuietFollows
<1>6. ClipsTyped'
  <2>1. alarmState' \in {"IDLE", "ALARM", "ALERT"} /\ alarmTime' \in Int
    BY <1>1 DEF Alarmed, Quietened, StateAfter, ClipsTyped
  <2> QED
    BY <1>1, <1>2, <1>3, <2>1 DEF ClipsTyped
<1>7. ToKeep(Len(seen))' <=> ToKeep(Len(seen))
  BY <1>3, <1>4, NewPlace
<1>8. outputContext' => OpenIsCurrent'
  <2> SUFFICES ASSUME outputContext
               PROVE  OpenIsCurrent'
    BY <1>2
  <2>1. OpenIsCurrent
    BY DEF ClipsInv
  <2>2. \A p \in 1 .. n + 1 : seen'[p].what \in Coded => p \in 1 .. n /\ seen[p].what \in Coded
    BY <1>3, <1>4
  <2> QED
    BY <1>2, <1>3, <2>1, <2>2 DEF OpenIsCurrent, IsCoded
<1>9. ASSUME NEW p \in 1 .. n + 1, IsCoded(p)'
      PROVE  Kept(p)' <=> ToKeep(p)'
  <2>1. p \in 1 .. n
    BY <1>3, <1>4, <1>9 DEF IsCoded
  <2>2. (IsCoded(p)' <=> IsCoded(p)) /\ (ToKeep(p)' <=> ToKeep(p))
    BY <1>3, <2>1, PlacesStay
  <2>3. Kept(p)' <=> Kept(p)
    BY <1>2 DEF Kept
  <2> QED
    BY <1>9, <2>1, <2>2, <2>3 DEF ClipsInv
<1>10. ASSUME NEW c \in 1 .. Len(clips)
       PROVE  FileFits(c)'
  <2>1. FileFits(c)
    BY DEF ClipsInv
  <2> QED
    BY <1>1, <1>2, <1>3, <2>1, FilesStay
<1>11. KeysHaveLast'
  BY <1>3, KeysKeepLast DEF ClipsInv
<1> QED
  BY <1>2, <1>3, <1>5, <1>6, <1>7, <1>8, <1>9, <1>10, <1>11 DEF ClipsInv

(* Stopping closes the file. *)
LEMMA StopKeepsClips ==
  ASSUME ClipsInv, StopClips
  PROVE  ClipsInv'
<1>1. /\ running' = FALSE /\ outputContext' = FALSE
      /\ UNCHANGED << clipTime, clipQueue, alarmState, alarmTime, videoFrameCount, clips, seen >>
  BY DEF StopClips
<1>2. \A k : Counts(k)' <=> Counts(k)
  BY <1>1 DEF Counts
<1>3. \A p : (IsCoded(p)' <=> IsCoded(p)) /\ (Kept(p)' <=> Kept(p)) /\ (ToKeep(p)' <=> ToKeep(p))
  BY <1>1, <1>2 DEF IsCoded, Kept, ToKeep, LastKey
<1>4. \A c : FileFits(c)' <=> FileFits(c)
  BY <1>1 DEF FileFits, IsCoded
<1>5. ClipsTyped'
  BY <1>1 DEF ClipsInv, ClipsTyped
<1>6. StateFollows'
  BY <1>1 DEF ClipsInv, StateFollows, LastAlarm, FirstQuiet, InTail
<1>7. KeysHaveLast'
  BY <1>1 DEF ClipsInv, KeysHaveLast, LastKey
<1> QED
  BY <1>1, <1>3, <1>4, <1>5, <1>6, <1>7 DEF ClipsInv

(* The file that is written to and its packet: g is what it held before. *)
Appended(F, g, n) ==
    /\ F \in Nat /\ F > 0 /\ Len(clips') = F /\ clips' \in Seq(Seq(Packet))
    /\ \A c \in 1 .. F - 1 : c \in 1 .. Len(clips) /\ clips'[c] = clips[c]
    /\ \A c \in 1 .. Len(clips) : c \in 1 .. F - 1 \/ (c = F /\ g = clips[c])
    /\ Len(g) \in Nat /\ Len(clips'[F]) = Len(g) + 1 /\ \A i \in 1 .. Len(g) : clips'[F][i] = g[i]
    /\ clips'[F][Len(g) + 1] = [place |-> n + 1, pts |-> Len(g)]
    /\ videoFrameCount' = Len(g) + 1
    /\ Len(g) > 0 => outputContext /\ F = Len(clips) /\ g = clips[F]
    /\ Len(g) = 0 => ~outputContext

LEMMA PacketAppended ==
  ASSUME ClipsInv, Written, OpenAfter(Head(clipQueue).what)
  PROVE  \E F, g : Appended(F, g, Len(seen))
<1> PICK n : n = Len(seen)
  OBVIOUS
<1>1. clips \in Seq(Seq(Packet)) /\ n \in Nat /\ videoFrameCount \in Int
  BY DEF ClipsInv, ClipsTyped
<1> DEFINE opens == ~outputContext
           into == IF opens THEN Append(clips, << >>) ELSE clips
           count == IF opens THEN 0 ELSE videoFrameCount
           F == Len(into)
           pk == [place |-> n + 1, pts |-> count]
<1>2. /\ videoFrameCount' = count + 1
      /\ clips' = [into EXCEPT ![F] = Append(into[F], pk)]
  BY DEF Written, openFile
<1>3. \E g : /\ into \in Seq(Seq(Packet)) /\ F \in Nat /\ F > 0 /\ into[F] = g /\ g \in Seq(Packet) /\ count = Len(g)
             /\ \A c \in 1 .. F - 1 : c \in 1 .. Len(clips) /\ into[c] = clips[c]
             /\ \A c \in 1 .. Len(clips) : c \in 1 .. F - 1 \/ (c = F /\ g = clips[c])
             /\ Len(g) > 0 => outputContext /\ F = Len(clips) /\ g = clips[F]
             /\ Len(g) = 0 => ~outputContext
  <2>1. CASE opens
    <3> DEFINE e == << >>
    <3>1. e \in Seq(Packet) /\ Len(e) = 0
      BY EmptySeq
    <3>2. into = Append(clips, e) /\ count = 0
      BY <2>1
    <3> HIDE DEF e, into, count
    <3>3. /\ into \in Seq(Seq(Packet)) /\ F = Len(clips) + 1 /\ F \in Nat /\ Len(clips) \in Nat /\ into[F] = e
          /\ \A c \in 1 .. Len(clips) : into[c] = clips[c]
      BY <1>1, <3>1, <3>2
    <3> HIDE DEF F
    <3>4. F > 0 /\ (\A c \in 1 .. F - 1 : c \in 1 .. Len(clips)) /\ (\A c \in 1 .. Len(clips) : c \in 1 .. F - 1)
      BY <3>3
    <3>5. ~(Len(e) > 0) /\ count = Len(e)
      BY <3>1, <3>2
    <3>6. \A c \in 1 .. F - 1 : into[c] = clips[c]
      BY <3>3, <3>4
    <3> WITNESS e
    <3> QED
      BY <2>1, <3>1, <3>3, <3>4, <3>5, <3>6
  <2>2. CASE ~opens
    <3>1. /\ Len(clips) > 0 /\ videoFrameCount = Len(clips[Len(clips)])
      BY <2>2 DEF ClipsInv, OpenIsCurrent
    <3>2. into = clips /\ F = Len(clips) /\ count = videoFrameCount /\ Len(clips) \in Nat
      BY <1>1, <2>2
    <3> HIDE DEF into, count, F
    <3>3. F \in 1 .. Len(clips)
      BY <3>1, <3>2
    <3>4. clips[F] \in Seq(Packet)
      BY <1>1, <3>3
    <3>5. FileFits(F)
      BY <3>3 DEF ClipsInv
    <3>6. Len(clips[F]) > 0 /\ Len(clips[F]) \in Nat
      BY <3>4, <3>5 DEF FileFits
    <3>7. F \in Nat /\ F > 0 /\ (\A c \in 1 .. F - 1 : c \in 1 .. Len(clips)) /\ (\A c \in 1 .. Len(clips) : c \in 1 .. F - 1 \/ c = F)
      BY <3>2, <3>3
    <3> QED
      BY <1>1, <2>2, <3>1, <3>2, <3>4, <3>6, <3>7
  <2> QED
    BY <2>1, <2>2
<1>4. PICK g : /\ into \in Seq(Seq(Packet)) /\ F \in Nat /\ F > 0 /\ into[F] = g /\ g \in Seq(Packet) /\ count = Len(g)
               /\ \A c \in 1 .. F - 1 : c \in 1 .. Len(clips) /\ into[c] = clips[c]
               /\ \A c \in 1 .. Len(clips) : c \in 1 .. F - 1 \/ (c = F /\ g = clips[c])
               /\ Len(g) > 0 => outputContext /\ F = Len(clips) /\ g = clips[F]
               /\ Len(g) = 0 => ~outputContext
  BY <1>3
<1> HIDE DEF into, count
<1>5. pk \in Packet /\ Len(g) \in Nat /\ pk = [place |-> n + 1, pts |-> Len(g)]
  BY <1>1, <1>4 DEF Packet
<1> HIDE DEF pk
<1>6. /\ Append(g, pk) \in Seq(Packet) /\ Len(Append(g, pk)) = Len(g) + 1
      /\ (\A i \in 1 .. Len(g) : Append(g, pk)[i] = g[i]) /\ Append(g, pk)[Len(g) + 1] = pk
  BY <1>4, <1>5
<1>7. clips' = [into EXCEPT ![F] = Append(g, pk)]
  BY <1>2, <1>4
<1>8. /\ clips' \in Seq(Seq(Packet)) /\ Len(clips') = F /\ clips'[F] = Append(g, pk)
      /\ \A c \in 1 .. F - 1 : clips'[c] = into[c]
  <2> DEFINE x == Append(g, pk)
             P == Seq(Packet)
  <2>1. x \in P /\ into \in Seq(P) /\ F = Len(into) /\ F \in Nat /\ F > 0 /\ clips' = [into EXCEPT ![F] = x]
    BY <1>4, <1>6, <1>7
  <2> HIDE DEF x, P, F
  <2>2. clips' \in Seq(P) /\ Len(clips') = F /\ clips'[F] = x /\ \A c \in 1 .. F - 1 : clips'[c] = into[c]
    BY <2>1
  <2> QED
    BY <2>2 DEF x, P
<1> HIDE DEF F
<1>9. Appended(F, g, n)
  BY <1>2, <1>4, <1>5, <1>6, <1>8 DEF Appended
<1> QED
  BY <1>9

LEMMA WrittenKeeps ==
  ASSUME ClipsInv, Written
  PROVE  ClipsInv'
<1> PICK n : n = Len(seen)
  OBVIOUS
<1> PICK what : what = Head(clipQueue).what
  OBVIOUS
<1>1. ClipsTyped /\ StateFollows /\ (running => (outputContext <=> ToKeep(n)))
  BY DEF ClipsInv
<1>2. /\ Handles(Coded) /\ UNCHANGED << alarmState, alarmTime >> /\ outputContext' = OpenAfter(what)
      /\ ~OpenAfter(what) => clips' = clips
      /\ videoFrameCount' = IF OpenAfter(what) /\ ~outputContext THEN 1 ELSE videoFrameCount + 1
  BY DEF Written
<1>3. /\ n \in Nat /\ Len(seen') = n + 1 /\ \A i \in 1 .. n : seen'[i] = seen[i]
      /\ seen'[n + 1].what = what /\ what \in Coded /\ seen' \in Seq(Handled)
      /\ clipQueue' \in Seq([what : Motion \cup Coded, time : Int]) /\ running /\ UNCHANGED << clipTime, running >>
  <2>1. Coded \in SUBSET (Motion \cup Coded)
    OBVIOUS
  <2>2. /\ seen' \in Seq(Handled) /\ Len(seen) \in Nat /\ Len(seen') = Len(seen) + 1
        /\ \A i \in 1 .. Len(seen) : seen'[i] = seen[i]
        /\ seen'[Len(seen) + 1] = [what |-> Head(clipQueue).what, time |-> Head(clipQueue).time, at |-> clipTime]
        /\ Head(clipQueue).what \in Coded
        /\ clipQueue' \in Seq([what : Motion \cup Coded, time : Int]) /\ running /\ UNCHANGED << clipTime, running >>
    BY <1>1, <1>2, <2>1, HandledAppends
  <2> QED
    BY <2>2
<1>4. StateFollows'
  BY <1>1, <1>2, WrittenFollows
<1>5. outputContext' <=> ToKeep(Len(seen))'
  <2>1. CASE what = "key"
    <3>1. outputContext' <=> alarmState # "IDLE"
      BY <1>2, <2>1 DEF OpenAfter
    <3>2. ToKeep(Len(seen))' <=> Counts(Len(seen) + 1)
      BY <1>3, <2>1, NewPlace
    <3> QED
      BY <1>1, <3>1, <3>2, StateTells
  <2>2. CASE what # "key"
    <3>1. outputContext' <=> outputContext
      BY <1>2, <2>2 DEF OpenAfter
    <3>2. ToKeep(Len(seen))' <=> ToKeep(Len(seen))
      BY <1>3, <2>2, NewPlace
    <3> QED
      BY <1>1, <1>3, <3>1, <3>2
  <2> QED
    BY <2>1, <2>2
<1>6. ASSUME NEW p \in 1 .. n
      PROVE  (IsCoded(p)' <=> IsCoded(p)) /\ (ToKeep(p)' <=> ToKeep(p))
  BY <1>3, PlacesStay
<1>7. \A p \in 1 .. n + 1 : p = n + 1 \/ p \in 1 .. n
  BY <1>3
<1>8. outputContext' \in BOOLEAN /\ videoFrameCount' \in Int
  <2>1. outputContext \in BOOLEAN /\ videoFrameCount \in Int
    BY <1>1 DEF ClipsTyped
  <2>2. OpenAfter(what) \in BOOLEAN
    BY <2>1 DEF OpenAfter
  <2>3. videoFrameCount' = 1 \/ videoFrameCount' = videoFrameCount + 1
    BY <1>2
  <2> QED
    BY <1>2, <2>1, <2>2, <2>3
<1>9. ASSUME NEW c \in 1 .. Len(clips)
      PROVE  FileFits(c) /\ (clips'[c] = clips[c] => FileFits(c)') /\ Len(clips[c]) \in Nat
  <2>1. FileFits(c)
    BY DEF ClipsInv
  <2>2. Len(clips[c]) \in Nat
    BY <1>1 DEF ClipsTyped
  <2> QED
    BY <1>1, <1>3, <2>1, <2>2, FilesStay
<1>12. KeysHaveLast'
  BY <1>3, KeysKeepLast DEF ClipsInv
<1>10. CASE ~OpenAfter(what)
  <2>1. clips' = clips /\ ~outputContext'
    BY <1>2, <1>10
  <2>2. ~Kept(n + 1)
    <3> SUFFICES ASSUME NEW c \in 1 .. Len(clips), NEW i \in 1 .. Len(clips[c]), clips[c][i].place = n + 1
                 PROVE  FALSE
      BY DEF Kept
    <3>1. clips[c][i].place \in 1 .. n
      BY <1>9 DEF FileFits
    <3> QED
      BY <1>3, <3>1
  <2>3. ASSUME NEW p \in 1 .. n + 1, IsCoded(p)'
        PROVE  Kept(p)' <=> ToKeep(p)'
    <3>1. Kept(p)' <=> Kept(p)
      BY <2>1 DEF Kept
    <3>2. CASE p = n + 1
      <4>1. ToKeep(p)' <=> ToKeep(Len(seen))'
        BY <1>3, <3>2 DEF ToKeep, LastKey
      <4> QED
        BY <1>5, <2>1, <2>2, <3>1, <3>2, <4>1
    <3>3. CASE p \in 1 .. n
      BY <1>6, <2>3, <3>1, <3>3 DEF ClipsInv
    <3> QED
      BY <1>7, <3>2, <3>3
  <2>4. ClipsTyped'
    BY <1>1, <1>2, <1>3, <1>8, <2>1 DEF ClipsTyped
  <2> QED
    BY <1>3, <1>4, <1>5, <1>9, <1>12, <2>1, <2>3, <2>4 DEF ClipsInv
<1>11. CASE OpenAfter(what)
  <2>1. PICK F, g : Appended(F, g, n)
    BY <1>11, PacketAppended
  <2>2. ClipsTyped'
    BY <1>1, <1>2, <1>3, <1>8, <2>1 DEF ClipsTyped, Appended
  <2>3. ASSUME NEW p \in 1 .. n + 1
        PROVE  Kept(p)' <=> Kept(p) \/ p = n + 1
    <3>1. ASSUME NEW c \in 1 .. Len(clips), NEW i \in 1 .. Len(clips[c]), clips[c][i].place = p
          PROVE  Kept(p)'
      <4>1. CASE c \in 1 .. F - 1
        <5>1. c \in 1 .. Len(clips') /\ clips'[c] = clips[c]
          BY <2>1, <4>1 DEF Appended
        <5> QED
          BY <3>1, <5>1 DEF Kept
      <4>2. CASE c = F /\ g = clips[c]
        <5>1. F \in 1 .. Len(clips') /\ i \in 1 .. Len(clips'[F]) /\ clips'[F][i] = clips[c][i]
          BY <2>1, <4>2 DEF Appended
        <5> QED
          BY <3>1, <5>1 DEF Kept
      <4> QED
        BY <2>1, <4>1, <4>2 DEF Appended
    <3>2. ASSUME p = n + 1
          PROVE  Kept(p)'
      <4>1. F \in 1 .. Len(clips') /\ Len(g) + 1 \in 1 .. Len(clips'[F]) /\ clips'[F][Len(g) + 1].place = n + 1
        BY <2>1 DEF Appended
      <4> QED
        BY <3>2, <4>1 DEF Kept
    <3>3. ASSUME NEW c \in 1 .. Len(clips'), NEW i \in 1 .. Len(clips'[c]), clips'[c][i].place = p, p # n + 1
          PROVE  Kept(p)
      <4>1. CASE c \in 1 .. F - 1
        <5>1. c \in 1 .. Len(clips) /\ clips'[c] = clips[c]
          BY <2>1, <4>1 DEF Appended
        <5> QED
          BY <3>3, <5>1 DEF Kept
      <4>2. CASE c = F
        <5>1. i \in 1 .. Len(g)
          BY <2>1, <3>3, <4>2 DEF Appended
        <5>2. clips'[F][i] = g[i] /\ F \in 1 .. Len(clips) /\ g = clips[F]
          BY <2>1, <5>1 DEF Appended
        <5> QED
          BY <3>3, <4>2, <5>1, <5>2 DEF Kept
      <4> QED
        BY <2>1, <4>1, <4>2 DEF Appended
    <3> QED
      BY <3>1, <3>2, <3>3 DEF Kept
  <2>4. ASSUME NEW p \in 1 .. n + 1, IsCoded(p)'
        PROVE  Kept(p)' <=> ToKeep(p)'
    <3>1. CASE p = n + 1
      <4>1. ToKeep(p)' <=> ToKeep(Len(seen))'
        BY <1>3, <3>1 DEF ToKeep, LastKey
      <4> QED
        BY <1>2, <1>5, <1>11, <2>3, <3>1, <4>1
    <3>2. CASE p \in 1 .. n
      <4>1. p # n + 1
        BY <1>3, <3>2
      <4> QED
        BY <1>6, <2>3, <2>4, <3>2, <4>1 DEF ClipsInv
    <3> QED
      BY <1>7, <3>1, <3>2
  <2>5. Len(g) > 0 => OpenIsCurrent /\ F \in 1 .. Len(clips) /\ g = clips[F] /\ F = Len(clips)
    BY <2>1 DEF Appended, ClipsInv
  <2>6. OpenIsCurrent'
    <3>1. clips'[F][Len(g) + 1].place = n + 1 /\ Len(clips') = F /\ Len(clips'[F]) = Len(g) + 1 /\ F > 0 /\ videoFrameCount' = Len(g) + 1
      BY <2>1 DEF Appended
    <3>2. \A p \in 1 .. n + 1 : p <= n + 1
      BY <1>3
    <3> QED
      BY <1>3, <3>1, <3>2 DEF OpenIsCurrent
  <2>7. FileFits(F)'
    <3>1. Len(g) = 0 => what = "key"
      BY <1>11, <2>1 DEF Appended, OpenAfter
    <3>2. /\ Len(g) \in Nat /\ Len(clips'[F]) = Len(g) + 1 /\ \A i \in 1 .. Len(g) : clips'[F][i] = g[i]
          /\ clips'[F][Len(g) + 1].place = n + 1 /\ clips'[F][Len(g) + 1].pts = Len(g)
      BY <2>1 DEF Appended
    <3>3. Len(g) > 0 => seen[g[1].place].what = "key"
      BY <1>9, <2>5 DEF FileFits
    <3>4. ASSUME NEW i \in 1 .. Len(g)
          PROVE  /\ g[i].pts = i - 1 /\ g[i].place \in 1 .. n /\ seen[g[i].place].what \in Coded
                 /\ i > 1 => \A p \in 1 .. n : seen[p].what \in Coded => p <= g[i - 1].place \/ p >= g[i].place
      <4>1. Len(g) > 0
        BY <3>2
      <4> QED
        BY <1>9, <2>5, <4>1 DEF FileFits, IsCoded
    <3>5. Len(g) > 0 => \A p \in 1 .. n : seen[p].what \in Coded => p <= g[Len(g)].place
      BY <2>5 DEF OpenIsCurrent, IsCoded
    <3> PICK h : h = clips'[F]
      OBVIOUS
    <3>6. seen'[h[1].place].what = "key"
      <4>1. CASE Len(g) = 0
        BY <1>3, <3>1, <3>2, <4>1
      <4>2. CASE Len(g) > 0
        <5>1. 1 \in 1 .. Len(g)
          BY <3>2, <4>2
        <5>2. g[1].place \in 1 .. n /\ h[1] = g[1]
          BY <3>2, <3>4, <5>1
        <5> QED
          BY <1>3, <3>3, <4>2, <5>2
      <4> QED
        BY <3>2, <4>1, <4>2
    <3>7. ASSUME NEW i \in 1 .. Len(g)
          PROVE  /\ h[i].pts = i - 1 /\ h[i].place \in 1 .. n + 1 /\ seen'[h[i].place].what \in Coded
                 /\ i > 1 => \A p \in 1 .. n + 1 : seen'[p].what \in Coded => p <= h[i - 1].place \/ p >= h[i].place
      <4>1. h[i] = g[i] /\ (i > 1 => h[i - 1] = g[i - 1])
        BY <3>2, SMTT(30)
      <4>2. g[i].place \in 1 .. n /\ seen'[g[i].place] = seen[g[i].place] /\ n + 1 >= g[i].place
        BY <1>3, <3>4
      <4>3. ASSUME i > 1, NEW p \in 1 .. n + 1, seen'[p].what \in Coded
            PROVE  p <= g[i - 1].place \/ p >= g[i].place
        <5>1. CASE p = n + 1
          BY <4>2, <5>1
        <5>2. CASE p \in 1 .. n
          BY <1>3, <3>4, <4>3, <5>2
        <5> QED
          BY <1>7, <5>1, <5>2
      <4> QED
        BY <1>3, <3>4, <4>1, <4>2, <4>3
    <3>8. LET i == Len(g) + 1
          IN  /\ h[i].pts = i - 1 /\ h[i].place \in 1 .. n + 1 /\ seen'[h[i].place].what \in Coded
              /\ i > 1 => \A p \in 1 .. n + 1 : seen'[p].what \in Coded => p <= h[i - 1].place \/ p >= h[i].place
      <4>1. h[Len(g) + 1].pts = Len(g) /\ h[Len(g) + 1].place = n + 1 /\ n + 1 \in 1 .. n + 1 /\ Len(g) + 1 - 1 = Len(g)
        BY <1>3, <3>2
      <4>2. ASSUME Len(g) > 0, NEW p \in 1 .. n + 1, seen'[p].what \in Coded
            PROVE  p <= h[Len(g)].place \/ p >= n + 1
        <5>1. CASE p = n + 1
          BY <1>3, <5>1
        <5>2. CASE p \in 1 .. n
          <6>1. seen'[p] = seen[p]
            BY <1>3, <5>2
          <6>2. p <= g[Len(g)].place
            BY <3>5, <4>2, <5>2, <6>1
          <6>3. h[Len(g)] = g[Len(g)]
            BY <3>2, <4>2
          <6> QED
            BY <6>2, <6>3
        <5> QED
          BY <1>7, <5>1, <5>2
      <4> QED
        BY <1>3, <3>2, <4>1, <4>2
    <3>9. \A i \in 1 .. Len(g) + 1 : i = Len(g) + 1 \/ i \in 1 .. Len(g)
      BY <3>2
    <3>10. \A i \in 1 .. Len(g) + 1 :
              /\ h[i].pts = i - 1 /\ h[i].place \in 1 .. n + 1 /\ seen'[h[i].place].what \in Coded
              /\ i > 1 => \A p \in 1 .. n + 1 : seen'[p].what \in Coded => p <= h[i - 1].place \/ p >= h[i].place
      BY <3>7, <3>8, <3>9
    <3> QED
      BY <1>3, <3>2, <3>6, <3>10, SMTT(30) DEF FileFits, IsCoded
  <2>8. \A c \in 1 .. F : FileFits(c)'
    <3>1. ASSUME NEW c \in 1 .. F - 1
          PROVE  FileFits(c)'
      BY <1>9, <2>1 DEF Appended
    <3>2. \A c \in 1 .. F : c = F \/ c \in 1 .. F - 1
      BY <2>1 DEF Appended
    <3> QED
      BY <2>7, <3>1, <3>2
  <2>9. Len(clips') = F
    BY <2>1 DEF Appended
  <2> QED
    BY <1>3, <1>4, <1>5, <1>12, <2>2, <2>4, <2>6, <2>8, <2>9 DEF ClipsInv
<1> QED
  BY <1>10, <1>11

(* A step of the output keeps the invariant. *)
LEMMA ClipsStep == ClipsInv /\ [ClipNext]_clipVars => ClipsInv'
<1> SUFFICES ASSUME ClipsInv, [ClipNext]_clipVars
             PROVE  ClipsInv'
  OBVIOUS
<1>1. CASE UNCHANGED clipVars
  <2>1. UNCHANGED << clipTime, clipQueue, alarmState, alarmTime, videoFrameCount, outputContext, clips, seen, running >>
    BY <1>1 DEF clipVars
  <2>2. \A k : Counts(k)' <=> Counts(k)
    BY <2>1 DEF Counts
  <2>3. \A p : (IsCoded(p)' <=> IsCoded(p)) /\ (Kept(p)' <=> Kept(p)) /\ (ToKeep(p)' <=> ToKeep(p))
    BY <2>1, <2>2 DEF IsCoded, Kept, ToKeep, LastKey
  <2>4. \A c : FileFits(c)' <=> FileFits(c)
    BY <2>1 DEF FileFits, IsCoded
  <2>5. ClipsTyped'
    BY <2>1 DEF ClipsInv, ClipsTyped
  <2>6. StateFollows'
    BY <2>1, SMTT(30) DEF ClipsInv, StateFollows, LastAlarm, FirstQuiet, InTail
  <2>7. OpenIsCurrent' <=> OpenIsCurrent
    BY <2>1 DEF OpenIsCurrent, IsCoded
  <2>8. KeysHaveLast'
    BY <2>1 DEF ClipsInv, KeysHaveLast, LastKey
  <2> QED
    BY <2>1, <2>3, <2>4, <2>5, <2>6, <2>7, <2>8 DEF ClipsInv
<1>2. CASE ClipNext
  BY <1>2, WaitingKeeps, MotionKeeps, WrittenKeeps, StopKeepsClips DEF ClipNext
<1> QED
  BY <1>1, <1>2

(* What Mp4FileOutput knows of alarms, and what its files hold, follows from the frames it has    *)
(* handled (ozMp4FileOutput.cpp:154-253).                                                          *)
THEOREM ClipsInvariant == ClipSpec => []ClipsInv
BY ClipsInitially, ClipsStep, PTL DEF ClipSpec

(* The greatest key frame up to a place is the one the group begins with. *)
LEMMA KeptAsPromised ==
  ASSUME ClipsTyped, KeysHaveLast, NEW p \in 1 .. Len(seen)
  PROVE  LET Before == { k \in { q \in { r \in DOMAIN seen : seen[r].what \in Coded } : seen[q].what = "key" } : k <= p }
         IN  ToKeep(p) <=> Before # {} /\ Counts(Max(Before))
<1> DEFINE B == { k \in { q \in { r \in DOMAIN seen : seen[r].what \in Coded } : seen[q].what = "key" } : k <= p }
<1>1. Len(seen) \in Nat /\ DOMAIN seen = 1 .. Len(seen)
  BY DEF ClipsTyped
<1>2. \A k : k \in B <=> k \in 1 .. p /\ seen[k].what = "key"
  BY <1>1 DEF Coded
<1>3. B \in SUBSET Int
  BY <1>2
<1> HIDE DEF B
<1>4. ASSUME NEW k \in 1 .. p, LastKey(p, k), Counts(k)
      PROVE  B # {} /\ Counts(Max(B))
  <2>1. k \in B
    BY <1>2, <1>4 DEF LastKey
  <2>2. \A x \in B : k >= x
    <3> SUFFICES ASSUME NEW x \in B, x > k
                 PROVE  FALSE
      BY <1>3
    <3>1. x \in k + 1 .. p /\ seen[x].what = "key"
      BY <1>2, <1>3
    <3> QED
      BY <1>4, <3>1 DEF LastKey
  <2>3. Max(B) = k
    BY <1>3, <2>1, <2>2, GreatestIs
  <2> QED
    BY <1>4, <2>1, <2>3
<1>5. ASSUME B # {}, Counts(Max(B))
      PROVE  ToKeep(p)
  <2>1. PICK k \in B : \A x \in B : k >= x
    <3>1. PICK l \in 1 .. p : LastKey(p, l)
      BY <1>2, <1>5 DEF KeysHaveLast
    <3>2. l \in B
      BY <1>2, <3>1 DEF LastKey
    <3>3. \A x \in B : ~(x > l)
      BY <1>2, <3>1 DEF LastKey
    <3>4. \A x \in B : l >= x
      BY <1>3, <3>2, <3>3
    <3> QED
      BY <3>2, <3>4
  <2>2. Max(B) = k
    BY <1>3, <2>1, GreatestIs
  <2>3. k \in 1 .. p /\ seen[k].what = "key"
    BY <1>2
  <2>4. \A m \in k + 1 .. p : seen[m].what # "key"
    <3> SUFFICES ASSUME NEW m \in k + 1 .. p, seen[m].what = "key"
                 PROVE  FALSE
      OBVIOUS
    <3>1. m \in B
      BY <1>2, <2>3
    <3>2. k >= m
      BY <2>1, <3>1
    <3>3. m \in Int /\ k \in Int /\ m >= k + 1
      BY <2>3
    <3> QED
      BY <3>2, <3>3
  <2> QED
    BY <1>5, <2>2, <2>3, <2>4 DEF ToKeep, LastKey
<1> QED
  BY <1>4, <1>5 DEF ToKeep, B

(* Groups of pictures are kept whole or not at all, one is kept if and only if an alarm counts     *)
(* when its key frame comes, and files begin with a key frame, are contiguous and count their      *)
(* packets from 0, for any number of frames, any alarms and any tail (ozMp4FileOutput.cpp:154-253). *)
THEOREM GroupsAlwaysKept == ClipSpec => []GroupsAreKept
<1>1. ClipsInv => GroupsAreKept
  <2> SUFFICES ASSUME ClipsInv
               PROVE  GroupsAreKept
    OBVIOUS
  <2>1. ClipsTyped /\ KeysHaveLast /\ DOMAIN seen = 1 .. Len(seen) /\ Len(seen) \in Nat /\ DOMAIN clips = 1 .. Len(clips)
        /\ \A c \in 1 .. Len(clips) : DOMAIN clips[c] = 1 .. Len(clips[c]) /\ Len(clips[c]) \in Nat
    BY DEF ClipsInv, ClipsTyped
  <2> DEFINE kept == UNION { { clips[c][i].place : i \in DOMAIN clips[c] } : c \in DOMAIN clips }
             coded == { p \in DOMAIN seen : seen[p].what \in Coded }
             keys == { p \in coded : seen[p].what = "key" }
             Before(p) == { k \in keys : k <= p }
  <2>2. \A p : p \in kept <=> Kept(p)
    <3>1. \A p : p \in kept <=> \E c \in DOMAIN clips : p \in { clips[c][i].place : i \in DOMAIN clips[c] }
      OBVIOUS
    <3>2. \A p, c : p \in { clips[c][i].place : i \in DOMAIN clips[c] } <=> \E i \in DOMAIN clips[c] : clips[c][i].place = p
      OBVIOUS
    <3> HIDE DEF kept
    <3>3. \A p : p \in kept <=> \E c \in DOMAIN clips : \E i \in DOMAIN clips[c] : clips[c][i].place = p
      BY <3>1, <3>2
    <3>4. DOMAIN clips = 1 .. Len(clips) /\ \A c \in DOMAIN clips : DOMAIN clips[c] = 1 .. Len(clips[c])
      BY <2>1
    <3>5. \A p : Kept(p) <=> \E c \in DOMAIN clips : \E i \in DOMAIN clips[c] : clips[c][i].place = p
      BY <3>4, Zenon DEF Kept
    <3> QED
      BY <3>3, <3>5
  <2>3. \A p : p \in coded <=> p \in 1 .. Len(seen) /\ IsCoded(p)
    BY <2>1 DEF IsCoded
  <2>4. ASSUME NEW p \in coded
        PROVE  p \in kept <=> Before(p) # {} /\ Counts(Max(Before(p)))
    <3>1. p \in 1 .. Len(seen) /\ IsCoded(p)
      BY <2>3
    <3>2. ToKeep(p) <=> Before(p) # {} /\ Counts(Max(Before(p)))
      BY <2>1, <3>1, KeptAsPromised
    <3>3. Kept(p) <=> ToKeep(p)
      BY <3>1 DEF ClipsInv
    <3> QED
      BY <2>2, <3>2, <3>3
  <2>5. ASSUME NEW c \in DOMAIN clips
        PROVE  /\ clips[c][1].place \in keys
               /\ \A i \in DOMAIN clips[c] :
                      /\ clips[c][i].pts = i - 1
                      /\ i > 1 => \A p \in coded : p <= clips[c][i - 1].place \/ p >= clips[c][i].place
    <3>1. FileFits(c) /\ c \in 1 .. Len(clips)
      BY <2>1 DEF ClipsInv
    <3>2. 1 \in 1 .. Len(clips[c])
      BY <2>1, <3>1 DEF FileFits
    <3>3. clips[c][1].place \in coded /\ seen[clips[c][1].place].what = "key"
      BY <2>3, <3>1, <3>2 DEF FileFits
    <3>4. ASSUME NEW i \in DOMAIN clips[c]
          PROVE  /\ clips[c][i].pts = i - 1
                 /\ i > 1 => \A p \in coded : p <= clips[c][i - 1].place \/ p >= clips[c][i].place
      BY <2>1, <2>3, <3>1 DEF FileFits
    <3> QED
      BY <3>3, <3>4
  <2> HIDE DEF kept, Before
  <2> QED
    BY <2>4, <2>5 DEF GroupsAreKept, kept, Before
<1> QED
  BY <1>1, ClipsInvariant, PTL

-----------------------------------------------------------------------------
(***************************************************************************)
(* MovieFiles.  What was for a file is in it or still in the codec, which  *)
(* is filled first, and emptied from the picture on that completes the     *)
(* file.                                                                   *)
(***************************************************************************)

(* A sequence is its first elements and the others. *)
LEMMA TwoParts ==
    ASSUME NEW S, NEW s \in Seq(S), NEW g \in 0 .. Len(s), NEW a \in Seq(S), NEW b \in Seq(S),
           Len(a) = g, \A i \in 1 .. g : a[i] = s[i],
           Len(b) = Len(s) - g, \A i \in 1 .. Len(s) - g : b[i] = s[g + i]
    PROVE  a \o b = s
<1> DEFINE t == a \o b
<1>1. Len(s) \in Nat
  BY LenProperties
<1>2. /\ t \in Seq(S) /\ Len(t) = Len(a) + Len(b)
      /\ \A i \in 1 .. Len(a) + Len(b) : t[i] = IF i <= Len(a) THEN a[i] ELSE b[i - Len(a)]
  BY ConcatProperties
<1> HIDE DEF t
<1>3. Len(t) = Len(s)
  BY <1>1, <1>2
<1>4. ASSUME NEW i \in 1 .. Len(s) PROVE t[i] = s[i]
  <2>1. CASE i <= g
    BY <1>1, <1>2, <2>1
  <2>2. CASE ~(i <= g)
    <3>1. i - g \in 1 .. Len(s) - g /\ g + (i - g) = i
      BY <1>1, <2>2
    <3> QED
      BY <1>1, <1>2, <2>2, <3>1
  <2> QED
    BY <2>1, <2>2
<1>5. t = s
  BY <1>2, <1>3, <1>4, SeqEqual
<1> QED
  BY <1>5 DEF t

LEMMA CutInTwo ==
    ASSUME NEW S, NEW s \in Seq(S), NEW g \in 0 .. Len(s)
    PROVE  /\ SubSeq(s, 1, g) \in Seq(S) /\ Len(SubSeq(s, 1, g)) = g
           /\ SubSeq(s, g + 1, Len(s)) \in Seq(S) /\ Len(SubSeq(s, g + 1, Len(s))) = Len(s) - g
           /\ SubSeq(s, 1, g) \o SubSeq(s, g + 1, Len(s)) = s
<1> DEFINE a == SubSeq(s, 1, g)
           b == SubSeq(s, g + 1, Len(s))
<1>1. a \in Seq(S) /\ Len(a) = g /\ \A i \in 1 .. g : a[i] = s[i]
  OBVIOUS
<1>2. b \in Seq(S) /\ Len(b) = Len(s) - g /\ \A i \in 1 .. Len(s) - g : b[i] = s[g + i]
  OBVIOUS
<1> HIDE DEF a, b
<1>3. a \o b = s
  BY <1>1, <1>2, TwoParts
<1> QED
  BY <1>1, <1>2, <1>3 DEF a, b

\* The provers do better with names for these.
Joined(s, t) == s \o t
OneMore(s, n) == Append(s, n)

(* More packets at once, in order, leave what is in the file and the codec together. *)
LEMMA Handover ==
    ASSUME NEW S, NEW p \in Seq(S), NEW c \in Seq(S), NEW n \in S, NEW a \in Seq(S), NEW b \in Seq(S)
    PROVE  Joined(a, b) = OneMore(c, n) => Joined(Joined(p, a), b) = OneMore(Joined(p, c), n)
<1>1. Joined(p, c) \in Seq(S) /\ << n >> \in Seq(S)
  BY DEF Joined
<1>2. Joined(Joined(p, a), b) = Joined(p, Joined(a, b))
  BY ConcatAssociative DEF Joined
<1>3. Joined(Joined(p, c), << n >>) = Joined(p, Joined(c, << n >>))
  BY <1>1, ConcatAssociative, SMTT(30) DEF Joined
<1>4. \A d \in Seq(S) : OneMore(d, n) = Joined(d, << n >>)
  BY AppendIsConcat DEF Joined, OneMore
<1>5. OneMore(Joined(p, c), n) = Joined(p, OneMore(c, n))
  BY <1>1, <1>3, <1>4
<1> QED
  BY <1>2, <1>5

(* One more number at the end. *)
LEMMA OneMoreAtEnd ==
    ASSUME NEW S, NEW s \in Seq(S), NEW n \in S
    PROVE  LET t == Append(s, n)
           IN  /\ t \in Seq(S) /\ DOMAIN t = 1 .. Len(s) + 1 /\ DOMAIN s = 1 .. Len(s) /\ Len(s) \in Nat
               /\ t[Len(s) + 1] = n /\ \A k \in DOMAIN s : t[k] = s[k]
<1> DEFINE t == Append(s, n)
<1>1. t \in Seq(S) /\ Len(t) = Len(s) + 1 /\ t[Len(s) + 1] = n /\ \A k \in 1 .. Len(s) : t[k] = s[k]
  BY AppendProperties
<1> HIDE DEF t
<1>2. Len(s) \in Nat /\ DOMAIN s = 1 .. Len(s) /\ DOMAIN t = 1 .. Len(t)
  BY <1>1, LenProperties
<1> QED
  BY <1>1, <1>2 DEF t

LEMMA StillRises ==
    ASSUME NEW s \in Seq(Picture), NEW n \in Picture, Rises(s), \A k \in DOMAIN s : s[k] < n
    PROVE  Rises(Append(s, n))
<1> DEFINE t == Append(s, n)
<1>1. /\ DOMAIN t = 1 .. Len(s) + 1 /\ DOMAIN s = 1 .. Len(s) /\ Len(s) \in Nat
      /\ t[Len(s) + 1] = n /\ \A k \in DOMAIN s : t[k] = s[k]
  BY OneMoreAtEnd
<1> HIDE DEF t
<1>2. ASSUME NEW i \in DOMAIN t, NEW j \in DOMAIN t, i < j PROVE t[i] < t[j]
  <2>1. i \in DOMAIN s
    BY <1>1, <1>2
  <2>2. j \in DOMAIN s \/ j = Len(s) + 1
    BY <1>1, <1>2
  <2> QED
    BY <1>1, <1>2, <2>1, <2>2 DEF Rises
<1> QED
  BY <1>2 DEF t, Rises

(* One more picture. *)
LEMMA EncodedFile ==
    ASSUME MovieTypes, NEW o \in MovieFile, NEW n \in Picture
    PROVE  LET new   == Encoded(o, n)
               given == IF Len(o.codec) + 1 <= latency THEN 0 ELSE IF Drains(o) THEN Len(o.codec) + 1 ELSE 1
           IN  /\ new \in MovieFile
               /\ new.taken = Append(o.taken, n)
               /\ new.full = o.full
               /\ Len(new.packets) = Len(o.packets) + given
               /\ Len(new.codec) = Len(o.codec) + 1 - given
               /\ o.taken = o.packets \o o.codec => new.taken = new.packets \o new.codec
<1> DEFINE new == Encoded(o, n)
           in == Append(o.codec, n)
           given == IF Len(in) <= latency THEN 0 ELSE IF Drains(o) THEN Len(in) ELSE 1
           a == SubSeq(in, 1, given)
           b == SubSeq(in, given + 1, Len(in))
           taken == Append(o.taken, n)
           packets == o.packets \o a
<1>1. o.codec \in Seq(Picture) /\ o.packets \in Seq(Picture) /\ o.taken \in Seq(Picture)
  BY DEF MovieFile
<1>2. in \in Seq(Picture) /\ Len(in) = Len(o.codec) + 1
  BY <1>1
<1>3. new = [o EXCEPT !.taken = taken, !.packets = packets, !.codec = b]
  BY DEF Encoded
<1>4. taken \in Seq(Picture)
  BY <1>1
<1> HIDE DEF new, in
<1>5. given \in 0 .. Len(in)
  BY <1>1, <1>2 DEF MovieTypes
<1> HIDE DEF given
<1>6. a \in Seq(Picture) /\ b \in Seq(Picture) /\ Len(a) = given /\ Len(b) = Len(in) - given
  BY <1>2, <1>5, CutInTwo
<1>7. a \o b = in
  BY <1>2, <1>5, CutInTwo
<1> HIDE DEF a, b
<1>8. packets \in Seq(Picture) /\ Len(packets) = Len(o.packets) + given
  BY <1>1, <1>6, ConcatProperties
<1>9. o.taken = o.packets \o o.codec => taken = packets \o b
  <2>1. Joined(a, b) = OneMore(o.codec, n) => Joined(Joined(o.packets, a), b) = OneMore(Joined(o.packets, o.codec), n)
    BY <1>1, <1>6, Handover
  <2>2. Joined(a, b) = OneMore(o.codec, n)
    BY <1>7 DEF in, Joined, OneMore
  <2>3. o.taken = Joined(o.packets, o.codec) => OneMore(o.taken, n) = Joined(Joined(o.packets, a), b)
    BY <2>1, <2>2
  <2> QED
    BY <2>3 DEF Joined, OneMore
<1> HIDE DEF taken, packets
<1>10. /\ new \in MovieFile /\ new.taken = taken /\ new.full = o.full /\ new.packets = packets /\ new.codec = b
  BY <1>3, <1>4, <1>6, <1>8 DEF MovieFile
<1>11. Len(new.packets) = Len(o.packets) + given /\ Len(new.codec) = Len(o.codec) + 1 - given
  BY <1>2, <1>6, <1>8, <1>10
<1>12. given = IF Len(o.codec) + 1 <= latency THEN 0 ELSE IF Drains(o) THEN Len(o.codec) + 1 ELSE 1
  BY <1>2 DEF given
<1>13. o.taken = o.packets \o o.codec => new.taken = new.packets \o new.codec
  BY <1>9, <1>10
<1>14. new.taken = Append(o.taken, n)
  BY <1>10 DEF taken
<1> DEFINE Together(p, c) == p \o c
<1>15. o.taken = Together(o.packets, o.codec) => new.taken = Together(new.packets, new.codec)
  BY <1>13
<1> HIDE DEF Together
<1> QED
  BY <1>10, <1>11, <1>12, <1>15, <1>14 DEF new, Together

(* What a picture does to a file that it may complete: old is the file before. *)
LEMMA EncodedHolds ==
    ASSUME MovieTypes, NEW old \in MovieFile, FileHolds(old), NEW o \in MovieFile, NEW n \in Picture,
           o.taken = old.taken, o.packets = old.packets, o.codec = old.codec,
           o.full = old.full \/ (writer = "movie" /\ old.full = 0 /\ o.full = n),
           writer = "movie" => old.full < n /\ \A k \in DOMAIN old.taken : old.taken[k] < n
    PROVE  FileHolds(Encoded(o, n))
<1> DEFINE new == Encoded(o, n)
           taken == Append(o.taken, n)
           given == IF Len(o.codec) + 1 <= latency THEN 0 ELSE IF Drains(o) THEN Len(o.codec) + 1 ELSE 1
           Together(p, c) == p \o c
<1>1. /\ new \in MovieFile
      /\ new.taken = taken /\ new.full = o.full
      /\ Len(new.packets) = Len(o.packets) + given
      /\ Len(new.codec) = Len(o.codec) + 1 - given
      /\ o.taken = Together(o.packets, o.codec) => new.taken = Together(new.packets, new.codec)
  BY EncodedFile
<1>2. o.taken \in Seq(Picture) /\ o.packets \in Seq(Picture) /\ o.codec \in Seq(Picture)
  BY DEF MovieFile
<1>3. Len(Together(o.packets, o.codec)) = Len(o.packets) + Len(o.codec) /\ Len(o.packets) \in Nat /\ Len(o.codec) \in Nat
  BY <1>2, ConcatProperties, LenProperties
<1>4. /\ DOMAIN taken = 1 .. Len(o.taken) + 1 /\ DOMAIN o.taken = 1 .. Len(o.taken) /\ Len(o.taken) \in Nat
      /\ taken[Len(o.taken) + 1] = n /\ \A k \in DOMAIN o.taken : taken[k] = o.taken[k]
  BY <1>2, OneMoreAtEnd
<1>5. writer = "movie" => Rises(taken)
  BY <1>2, StillRises DEF FileHolds
<1>6. new.packets \in Seq(Picture) /\ (Len(new.packets) = 0 => new.packets = << >>)
  BY <1>1, SMTT(30) DEF MovieFile
<1>7. o.packets = << >> => Len(o.packets) = 0
  OBVIOUS
<1>8. latency \in Nat
  BY DEF MovieTypes
<1>9. /\ o.taken = Together(o.packets, o.codec)
      /\ Len(o.codec) <= latency
      /\ writer = "video" => old.full = 0
      /\ writer = "movie" => /\ old.full = 0 => Len(o.packets) = 0 \/ Len(o.codec) = latency
                             /\ \A k \in DOMAIN o.taken : o.taken[k] = old.full /\ k > latency => Len(o.packets) >= k
  BY <1>7 DEF FileHolds
<1> HIDE DEF new, taken, Together
<1> DEFINE drains == Drains(o)
<1>100. \/ Len(o.codec) + 1 <= latency /\ given = 0
        \/ ~(Len(o.codec) + 1 <= latency) /\ drains /\ given = Len(o.codec) + 1
        \/ ~(Len(o.codec) + 1 <= latency) /\ ~drains /\ given = 1
  OBVIOUS
<1> HIDE DEF given, drains
<1>10. Len(new.codec) <= latency
  BY <1>1, <1>3, <1>8, <1>9, <1>100
<1>11. ASSUME writer = "movie", new.full = 0 PROVE new.packets = << >> \/ Len(new.codec) = latency
  <2>1. old.full = 0 /\ ~drains
    BY <1>1, <1>11 DEF Drains, Picture, drains
  <2> QED
    BY <1>1, <1>3, <1>6, <1>8, <1>9, <1>11, <1>100, <2>1
<1>12. ASSUME writer = "movie", NEW k \in DOMAIN taken, taken[k] = new.full, k > latency
      PROVE  Len(new.packets) >= k
  <2>1. CASE o.full = old.full
    <3>1. k \in DOMAIN o.taken /\ o.taken[k] = old.full
      BY <1>1, <1>4, <1>12, <2>1 DEF Picture
    <3> QED
      BY <1>1, <1>3, <1>4, <1>9, <1>12, <1>100, <3>1
  <2>2. CASE old.full = 0 /\ o.full = n
    <3>1. Len(o.taken) = Len(o.packets) + Len(o.codec)
      BY <1>3, <1>9
    <3>2. k <= Len(o.packets) + Len(o.codec) + 1 /\ k \in Nat
      <4>1. k \in 1 .. Len(o.taken) + 1
        BY <1>4, <1>12
      <4> DEFINE p == Len(o.packets)
                 c == Len(o.codec)
                 t == Len(o.taken)
      <4>2. t = p + c /\ p \in Nat /\ c \in Nat /\ k \in 1 .. t + 1
        BY <1>3, <3>1, <4>1
      <4> HIDE DEF p, c, t
      <4>3. k <= p + c + 1 /\ k \in Nat
        BY <4>2
      <4> QED
        BY <4>3 DEF p, c
    <3>3. drains
      BY <2>2 DEF Drains, Picture, drains
    <3> QED
      <4> DEFINE p == Len(o.packets)
                 c == Len(o.codec)
                 q == Len(new.packets)
      <4>1. p \in Nat /\ c \in Nat /\ c <= latency /\ (p = 0 \/ c = latency) /\ k <= p + c + 1
        BY <1>3, <1>9, <1>12, <2>2, <3>2
      <4>2. q = p + (IF c + 1 <= latency THEN 0 ELSE c + 1)
        BY <1>1, <1>3, <1>8, <1>100, <3>3
      <4> HIDE DEF p, c, q
      <4>3. q >= k
        BY <1>8, <1>12, <3>2, <4>1, <4>2
      <4> QED
        BY <4>3 DEF q
  <2> QED
    BY <1>12, <2>1, <2>2
<1>13. writer = "video" => new.full = 0
  BY <1>1, <1>9
<1>14. new.taken = taken /\ new.taken = Together(new.packets, new.codec)
  BY <1>1, <1>9
<1>15. FileHolds(new)
  <2>1. new.taken = new.packets \o new.codec
    BY <1>14 DEF Together
  <2> QED
    BY <1>5, <1>10, <1>11, <1>12, <1>13, <1>14, <2>1 DEF FileHolds
<1> QED
  BY <1>15 DEF new

-----------------------------------------------------------------------------
(* What FileHolds means for a closed file. *)

LEMMA PrefixOfBoth ==
    ASSUME NEW S, NEW s \in Seq(S), NEW t \in Seq(S)
    PROVE  IsPrefix(s, Joined(s, t)) /\ Len(Joined(s, t)) - Len(s) = Len(t)
<1> DEFINE j == Joined(s, t)
<1>1. /\ j \in Seq(S) /\ Len(j) = Len(s) + Len(t)
      /\ \A i \in 1 .. Len(s) + Len(t) : j[i] = IF i <= Len(s) THEN s[i] ELSE t[i - Len(s)]
  BY ConcatProperties DEF Joined
<1>2. Len(s) \in Nat /\ Len(t) \in Nat
  BY LenProperties
<1> HIDE DEF j
<1>3. SubSeq(s, 1, Len(s)) = s
  BY SubSeqFull
<1> DEFINE u == SubSeq(j, 1, Len(s))
<1>4. u \in Seq(S) /\ Len(u) = Len(s) /\ \A i \in 1 .. Len(s) : u[i] = j[i]
  BY <1>1, <1>2
<1> HIDE DEF u
<1>5. u = s
  BY <1>1, <1>2, <1>4, SeqEqual
<1>6. IsPrefix(s, j)
  BY <1>1, <1>2, <1>3, <1>5 DEF IsPrefix, u
<1> QED
  BY <1>1, <1>2, <1>6 DEF j

LEMMA CountUpToFull ==
    ASSUME NEW f \in MovieFile, Rises(f.taken), NEW k \in DOMAIN f.taken, f.taken[k] = f.full
    PROVE  UpToFull(f) = k
<1>1. f.taken \in Seq(Picture)
  BY DEF MovieFile
<1>2. k \in Nat /\ DOMAIN f.taken = 1 .. Len(f.taken) /\ Len(f.taken) \in Nat
  BY <1>1, LenProperties
<1>3. \A i \in DOMAIN f.taken : f.taken[i] \in Nat
  BY <1>1, <1>2, ElementOfSeq DEF Picture
<1>4. { i \in DOMAIN f.taken : f.taken[i] <= f.full } = 1 .. k
  <2>1. ASSUME NEW i \in DOMAIN f.taken PROVE f.taken[i] <= f.full <=> i <= k
    <3>1. i < k => f.taken[i] < f.taken[k]
      BY DEF Rises
    <3>2. k < i => f.taken[k] < f.taken[i]
      BY DEF Rises
    <3>3. i \in Nat /\ (i < k \/ i = k \/ k < i)
      BY <1>2
    <3> QED
      BY <1>2, <1>3, <3>1, <3>2, <3>3
  <2>2. k <= Len(f.taken)
    BY <1>2
  <2> QED
    BY <1>2, <2>1, <2>2
<1>5. Cardinality(1 .. k) = k
  BY <1>2, FS_Interval
<1> QED
  BY <1>4, <1>5 DEF UpToFull

LEMMA HoldsMeans ==
    ASSUME MovieTypes, NEW f \in MovieFile, FileHolds(f)
    PROVE  /\ IsPrefix(f.packets, f.taken)
           /\ Len(f.taken) - Len(f.packets) <= latency
           /\ f.full \in {f.taken[k] : k \in DOMAIN f.taken} /\ UpToFull(f) > latency => Len(f.packets) >= UpToFull(f)
<1>1. f.packets \in Seq(Picture) /\ f.codec \in Seq(Picture) /\ f.taken \in Seq(Picture)
  BY DEF MovieFile
<1>2. f.taken = Joined(f.packets, f.codec)
  BY DEF FileHolds, Joined
<1>3. IsPrefix(f.packets, f.taken) /\ Len(f.taken) - Len(f.packets) = Len(f.codec)
  BY <1>1, <1>2, PrefixOfBoth
<1>4. ASSUME NEW k \in DOMAIN f.taken, f.taken[k] = f.full, UpToFull(f) > latency
      PROVE  Len(f.packets) >= UpToFull(f)
  <2>1. writer = "movie"
    <3>1. f.taken[k] # 0
      BY <1>1 DEF Picture
    <3> QED
      BY <1>4, <3>1 DEF FileHolds, MovieTypes
  <2>2. UpToFull(f) = k
    BY <1>4, <2>1, CountUpToFull DEF FileHolds
  <2> QED
    BY <1>4, <2>1, <2>2 DEF FileHolds
<1> QED
  BY <1>3, <1>4 DEF FileHolds

LEMMA MovieInvMeans == MovieInv => FilesHoldTheirFrames
<1> SUFFICES ASSUME MovieInv PROVE FilesHoldTheirFrames
  OBVIOUS
<1>1. ASSUME NEW i \in DOMAIN files PROVE files[i] \in MovieFile /\ FileHolds(files[i])
  BY DEF MovieInv, MovieTypes
<1>2. fileStep = "ended" /\ writer = "movie" => ~IsOpen
  BY DEF IsOpen
<1>3. Len(files) \in Nat
  BY LenProperties DEF MovieInv, MovieTypes
<1>4. /\ fileStep # "fatal" => Len(notices) = 2 * Len(files) + (IF IsOpen THEN 1 ELSE 0)
      /\ \A i \in DOMAIN notices : notices[i] = IF i % 2 = 1 THEN "begin" ELSE "end"
  BY DEF MovieInv, NoticesPair
<1>5. writer = "movie" /\ fileStep = "ended" => Len(notices) = 2 * Len(files)
  BY <1>2, <1>3, <1>4
<1>6. MovieTypes
  BY DEF MovieInv
<1>7. ASSUME NEW i \in DOMAIN files
      PROVE  LET f == files[i] IN
             /\ IsPrefix(f.packets, f.taken)
             /\ Len(f.taken) - Len(f.packets) <= latency
             /\ f.full \in {f.taken[k] : k \in DOMAIN f.taken} /\ UpToFull(f) > latency => Len(f.packets) >= UpToFull(f)
  BY <1>1, <1>6, HoldsMeans
<1> QED
  BY <1>4, <1>5, <1>7 DEF FilesHoldTheirFrames

-----------------------------------------------------------------------------
(* The steps. *)

LEMMA NewFileIsFile == NewFile \in MovieFile
<1>1. << >> \in Seq(Picture)
  BY EmptySeq
<1> QED
  BY <1>1 DEF NewFile, MovieFile

LEMMA NewFileHolds == MovieTypes => NewFile \in MovieFile /\ FileHolds(NewFile)
  BY DEF NewFile, MovieFile, FileHolds, Rises, MovieTypes, Picture

LEMMA MovieInvInit == MovieInit => MovieInv
<1> SUFFICES ASSUME MovieInit PROVE MovieInv
  OBVIOUS
<1>1. MovieTypes
  <2>1. movieQueue = << >> /\ files = << >> /\ videoStore = << >> /\ toWrite = << >> /\ notices = << >>
    BY DEF MovieInit
  <2>2. \A S : << >> \in Seq(S)
    BY EmptySeq
  <2>3. latency \in Nat
    BY MovieAssumption DEF MovieInit
  <2> QED
    BY <2>1, <2>2, <2>3, NewFileIsFile DEF MovieInit, MovieTypes
<1>2. QueueIsNumbered /\ OutIsEarlier /\ NoticesPair
  BY DEF MovieInit, QueueIsNumbered, OutIsEarlier, NoticesPair, NewFile, TakenFrames, IsOpen
<1> QED
  BY <1>1, <1>2, NewFileHolds DEF MovieInit, MovieInv

(* The first of the queue is the next number; the others are numbered from there on. *)
LEMMA FrameIsNext ==
    ASSUME MovieTypes, QueueIsNumbered, movieQueue # << >>, movieQueue' = Tail(movieQueue), movieFrames' = movieFrames
    PROVE  /\ frame \in [n : Picture, media : {"audio", "video"}, alarmed : BOOLEAN]
           /\ frame.n = TakenFrames + 1 /\ TakenFrames' = TakenFrames + 1 /\ TakenFrames \in Int
           /\ QueueIsNumbered'
           /\ movieQueue' \in Seq([n : Picture, media : {"audio", "video"}, alarmed : BOOLEAN])
<1> DEFINE F == [n : Picture, media : {"audio", "video"}, alarmed : BOOLEAN]
           q == movieQueue
           r == Tail(q)
<1>1. q \in Seq(F) /\ movieFrames \in Nat
  BY DEF MovieTypes
<1> HIDE DEF F
<1>2. /\ Len(q) \in Nat \ {0} /\ DOMAIN q = 1 .. Len(q) /\ q[1] \in F /\ Head(q) = q[1]
      /\ r \in Seq(F) /\ Len(r) = Len(q) - 1 /\ DOMAIN r = 1 .. Len(q) - 1 /\ \A i \in 1 .. Len(q) - 1 : r[i] = q[i + 1]
  <2>1. q # << >>
    OBVIOUS
  <2> QED
    BY <1>1, <2>1, HeadTailProperties, LenProperties
<1> HIDE DEF q, r
<1>3. \A i \in 1 .. Len(q) : q[i].n = movieFrames - Len(q) + i
  BY <1>2 DEF QueueIsNumbered, TakenFrames, q
<1>4. q[1].n = movieFrames - Len(q) + 1
  BY <1>2, <1>3
<1>5. \A i \in 1 .. Len(q) - 1 : r[i].n = movieFrames - Len(r) + i
  BY <1>1, <1>2, <1>3
<1>6. movieQueue' = r /\ frame = q[1]
  BY <1>2 DEF frame, q, r
<1>7. TakenFrames = movieFrames - Len(q) /\ TakenFrames' = movieFrames - Len(r)
  BY <1>6 DEF TakenFrames, q
<1>8. QueueIsNumbered'
  <2>1. ASSUME NEW i \in DOMAIN movieQueue' PROVE movieQueue'[i].n = TakenFrames' + i
    BY <1>2, <1>5, <1>6, <1>7, <2>1
  <2> QED
    BY <2>1 DEF QueueIsNumbered
<1>9. TakenFrames \in Int /\ TakenFrames' = TakenFrames + 1 /\ frame.n = TakenFrames + 1
  BY <1>1, <1>2, <1>4, <1>6, <1>7
<1> QED
  BY <1>2, <1>6, <1>8, <1>9 DEF F

(* The notices of a file that is opened or closed. *)
LEMMA OneMoreAnnounced ==
    ASSUME MovieTypes, NoticesPair, NEW what \in {"begin", "end"}, Announce(what), fileStep # "fatal",
           what = IF IsOpen THEN "end" ELSE "begin"
    PROVE  /\ notices' \in Seq({"begin", "end"}) /\ Len(notices') = Len(notices) + 1
           /\ \A i \in DOMAIN notices' : notices'[i] = IF i % 2 = 1 THEN "begin" ELSE "end"
<1>1. notices \in Seq({"begin", "end"}) /\ Len(files) \in Nat
  BY LenProperties DEF MovieTypes
<1> DEFINE more == Append(notices, what)
<1>2. /\ more \in Seq({"begin", "end"}) /\ DOMAIN more = 1 .. Len(notices) + 1 /\ DOMAIN notices = 1 .. Len(notices)
      /\ Len(notices) \in Nat
      /\ more[Len(notices) + 1] = what /\ \A k \in DOMAIN notices : more[k] = notices[k]
  BY <1>1, OneMoreAtEnd
<1>3. Len(more) = Len(notices) + 1
  BY <1>1
<1>4. notices' = more
  BY DEF Announce
<1> HIDE DEF more
<1>5. (Len(notices) + 1) % 2 = IF IsOpen THEN 0 ELSE 1
  BY <1>1 DEF NoticesPair
<1>6. ASSUME NEW i \in DOMAIN more PROVE more[i] = IF i % 2 = 1 THEN "begin" ELSE "end"
  <2>1. CASE i = Len(notices) + 1
    BY <1>2, <1>5, <2>1
  <2>2. CASE i # Len(notices) + 1
    BY <1>2, <2>2 DEF NoticesPair
  <2> QED
    BY <2>1, <2>2
<1> QED
  BY <1>2, <1>3, <1>4, <1>6

(* Steps that leave the file, the queue and the notices alone. *)
LEMMA MovieInvKept ==
    ASSUME MovieInv, MovieTypes', UNCHANGED << writer, latency, movieQueue, movieFrames, out, files, notices, videoState >>,
           fileStep' # "fatal" => fileStep # "fatal" /\ (writer = "movie" => IsOpen' = IsOpen)
    PROVE  MovieInv'
<1>1. UNCHANGED << TakenFrames, QueueIsNumbered, OutIsEarlier >>
  BY DEF TakenFrames, QueueIsNumbered, OutIsEarlier
<1>2. FileHolds(out)' /\ (\A i \in DOMAIN files : FileHolds(files[i]))'
  BY DEF MovieInv, FileHolds
<1>3. fileStep' # "fatal" => IsOpen' = IsOpen
  BY DEF IsOpen
<1> QED
  BY <1>1, <1>2, <1>3 DEF MovieInv, NoticesPair

(* The files that are closed stay as they are. *)
LEMMA ClosedStay ==
    ASSUME MovieInv, UNCHANGED << writer, latency >>,
           \/ files' = files
           \/ files' = Append(files, out)
    PROVE  (\A i \in DOMAIN files : FileHolds(files[i]))' /\ files' \in Seq(MovieFile)
<1>1. files \in Seq(MovieFile) /\ out \in MovieFile
  BY DEF MovieInv, MovieTypes
<1>2. CASE files' = files
  BY <1>1, <1>2 DEF MovieInv, FileHolds
<1>3. CASE files' = Append(files, out)
  <2> DEFINE more == Append(files, out)
  <2>1. /\ more \in Seq(MovieFile) /\ DOMAIN more = 1 .. Len(files) + 1 /\ DOMAIN files = 1 .. Len(files) /\ Len(files) \in Nat
        /\ more[Len(files) + 1] = out /\ \A k \in DOMAIN files : more[k] = files[k]
    BY <1>1, OneMoreAtEnd
  <2>2. files' = more
    BY <1>3
  <2> HIDE DEF more
  <2>3. \A i \in DOMAIN more : FileHolds(more[i])
    BY <2>1 DEF MovieInv
  <2>4. (\A i \in DOMAIN files : FileHolds(files[i]))'
    BY <2>2, <2>3 DEF FileHolds
  <2> QED
    BY <2>1, <2>2, <2>4
<1> QED
  BY <1>2, <1>3

LEMMA QueuesFrame ==
    ASSUME MovieInv, NEW media \in {"audio", "video"}, NEW alarmed \in BOOLEAN, queueMovieFrame(media, alarmed)
    PROVE  MovieInv'
<1> DEFINE F == [n : Picture, media : {"audio", "video"}, alarmed : BOOLEAN]
           f == [n |-> movieFrames + 1, media |-> media, alarmed |-> alarmed]
           more == Append(movieQueue, f)
<1>1. f \in F /\ f.n = movieFrames + 1 /\ movieQueue \in Seq(F) /\ movieFrames \in Nat
  BY DEF MovieInv, MovieTypes, Picture
<1>2. movieQueue' = more /\ movieFrames' = movieFrames + 1 /\ UNCHANGED << writer, hasAudio, latency, mStop, writerVars >>
  BY DEF queueMovieFrame
<1> HIDE DEF f, F
<1>3. /\ more \in Seq(F) /\ DOMAIN more = 1 .. Len(movieQueue) + 1 /\ DOMAIN movieQueue = 1 .. Len(movieQueue)
      /\ Len(movieQueue) \in Nat
      /\ more[Len(movieQueue) + 1] = f /\ \A k \in DOMAIN movieQueue : more[k] = movieQueue[k]
  BY <1>1, OneMoreAtEnd
<1>4. Len(more) = Len(movieQueue) + 1
  BY <1>1
<1> HIDE DEF more
<1>5. TakenFrames' = TakenFrames /\ TakenFrames = movieFrames - Len(movieQueue)
  BY <1>1, <1>2, <1>3, <1>4 DEF TakenFrames
<1>6. ASSUME NEW i \in DOMAIN more PROVE more[i].n = TakenFrames + i
  <2>1. CASE i = Len(movieQueue) + 1
    BY <1>1, <1>3, <1>5, <2>1
  <2>2. CASE i # Len(movieQueue) + 1
    BY <1>3, <2>2 DEF MovieInv, QueueIsNumbered
  <2> QED
    BY <2>1, <2>2
<1>7. QueueIsNumbered'
  BY <1>2, <1>5, <1>6 DEF QueueIsNumbered
<1>8. MovieTypes'
  BY <1>1, <1>2, <1>3 DEF MovieInv, MovieTypes, writerVars, F
<1>9. OutIsEarlier'
  BY <1>2, <1>5 DEF MovieInv, OutIsEarlier, writerVars
<1>10. FileHolds(out)'
  BY <1>2 DEF MovieInv, FileHolds, writerVars
<1>11. (\A i \in DOMAIN files : FileHolds(files[i]))'
  BY <1>2, ClosedStay DEF writerVars
<1>12. NoticesPair'
  BY <1>2 DEF MovieInv, NoticesPair, IsOpen, writerVars
<1> QED
  BY <1>7, <1>8, <1>9, <1>10, <1>11, <1>12 DEF MovieInv

(* A picture or a piece of sound for a movie, which may complete it. *)
LEMMA TimedIsFile ==
    ASSUME MovieTypes, NEW o \in MovieFile, NEW n \in Picture
    PROVE  LET timed == Timed(o, n) IN
           /\ timed \in MovieFile
           /\ timed.taken = o.taken /\ timed.packets = o.packets /\ timed.codec = o.codec
           /\ timed.full = o.full \/ (o.full = 0 /\ timed.full = n)
<1> DEFINE t == o.videoTimeOffset + 1
           full == IF o.full = 0 /\ (~hasAudio \/ o.sounds >= mMaxLength) /\ t >= mMaxLength THEN n ELSE o.full
<1>1. Timed(o, n) = [o EXCEPT !.videoTimeOffset = t, !.full = full]
  BY DEF Timed
<1>2. t \in Nat /\ full \in Nat /\ (full = o.full \/ (o.full = 0 /\ full = n))
  BY DEF MovieFile, Picture
<1> HIDE DEF t, full
<1> QED
  BY <1>1, <1>2 DEF MovieFile

(* One more picture in the file that is written. *)
LEMMA OutHolds ==
    ASSUME MovieInv, UNCHANGED << writer, latency >>, NEW o \in MovieFile, NEW n \in Picture, out' = Encoded(o, n),
           o.taken = out.taken, o.packets = out.packets, o.codec = out.codec,
           o.full = out.full \/ (writer = "movie" /\ out.full = 0 /\ o.full = n),
           writer = "movie" => TakenFrames \in Int /\ n = TakenFrames + 1 /\ TakenFrames' = TakenFrames + 1
    PROVE  out' \in MovieFile /\ FileHolds(out)' /\ OutIsEarlier'
<1>1. MovieTypes /\ out \in MovieFile /\ FileHolds(out)
  BY DEF MovieInv, MovieTypes
<1>2. writer = "movie" => out.full < n /\ \A k \in DOMAIN out.taken : out.taken[k] < n
  <2>1. ASSUME writer = "movie" PROVE out.full < n
    BY <1>1, <2>1 DEF MovieInv, OutIsEarlier, MovieFile
  <2>2. ASSUME writer = "movie", NEW k \in DOMAIN out.taken PROVE out.taken[k] < n
    <3>1. out.taken[k] <= TakenFrames
      BY <2>2 DEF MovieInv, OutIsEarlier
    <3>2. out.taken[k] \in Picture
      BY <1>1, ElementOfSeq, LenProperties DEF MovieFile
    <3> QED
      BY <2>2, <3>1, <3>2 DEF Picture
  <2> QED
    BY <2>1, <2>2
<1>3. FileHolds(Encoded(o, n))
  BY <1>1, <1>2, EncodedHolds
<1>4. FileHolds(out)'
  BY <1>3 DEF FileHolds
<1>5. out' \in MovieFile /\ out'.taken = Append(o.taken, n) /\ out'.full = o.full
  BY <1>1, EncodedFile
<1>6. OutIsEarlier'
  <2> DEFINE taken == Append(o.taken, n)
  <2>1. /\ DOMAIN taken = 1 .. Len(o.taken) + 1 /\ DOMAIN o.taken = 1 .. Len(o.taken) /\ Len(o.taken) \in Nat
        /\ taken[Len(o.taken) + 1] = n /\ \A k \in DOMAIN o.taken : taken[k] = o.taken[k]
    <3>1. o.taken \in Seq(Picture)
      BY DEF MovieFile
    <3> QED
      BY <3>1, OneMoreAtEnd
  <2>2. out'.taken = taken
    BY <1>5
  <2> HIDE DEF taken
  <2> SUFFICES ASSUME writer = "movie"
               PROVE  out'.full <= TakenFrames' /\ \A k \in DOMAIN taken : taken[k] <= TakenFrames'
    BY <2>2 DEF OutIsEarlier
  <2>3. out'.full <= n
    <3>1. out.full \in Nat /\ n \in Nat
      BY <1>1 DEF MovieFile, Picture
    <3>2. out'.full = out.full \/ out'.full = n
      BY <1>5
    <3>3. out.full < n
      BY <1>2
    <3> QED
      BY <3>1, <3>2, <3>3
  <2>4. ASSUME NEW k \in DOMAIN taken PROVE taken[k] <= n
    <3>1. CASE k \in DOMAIN o.taken
      <4>1. taken[k] = out.taken[k] /\ taken[k] < n
        BY <1>2, <2>1, <3>1
      <4>2. out.taken[k] \in Picture
        BY <1>1, <3>1, ElementOfSeq, LenProperties DEF MovieFile
      <4> QED
        BY <4>1, <4>2 DEF Picture
    <3>2. CASE k = Len(o.taken) + 1
      BY <2>1, <3>2 DEF Picture
    <3> QED
      BY <2>1, <3>1, <3>2
  <2> QED
    BY <2>3, <2>4
<1> QED
  BY <1>4, <1>5, <1>6

LEMMA WritesQueue == ASSUME MovieInv, WriteQueue PROVE MovieInv'
<1> DEFINE n == frame.n
           timed == Timed(out, n)
<1>1. /\ frame \in [n : Picture, media : {"audio", "video"}, alarmed : BOOLEAN]
      /\ n = TakenFrames + 1 /\ TakenFrames' = TakenFrames + 1 /\ TakenFrames \in Int
      /\ QueueIsNumbered'
      /\ movieQueue' \in Seq([n : Picture, media : {"audio", "video"}, alarmed : BOOLEAN])
  BY FrameIsNext DEF MovieInv, WriteQueue, TakesFrame
<1>2. n \in Picture /\ MovieTypes /\ out \in MovieFile /\ FileHolds(out) /\ writer = "movie"
  BY <1>1 DEF MovieInv, MovieTypes, WriteQueue
<1>3. UNCHANGED << writer, hasAudio, latency, movieFrames, mStop, toWrite, files, videoState, videoStore, notices >>
  BY DEF WriteQueue
<1>4. /\ timed \in MovieFile
      /\ timed.taken = out.taken /\ timed.packets = out.packets /\ timed.codec = out.codec
      /\ timed.full = out.full \/ (out.full = 0 /\ timed.full = n)
  BY <1>2, TimedIsFile
<1> HIDE DEF n, timed
<1>5. out' \in MovieFile /\ FileHolds(out)' /\ OutIsEarlier'
  <2>1. CASE frame.media # "audio"
    <3>1. out' = Encoded(timed, n)
      BY <2>1 DEF WriteQueue, WriteFrame, n, timed
    <3>2. UNCHANGED << writer, latency >> /\ (timed.full = out.full \/ (writer = "movie" /\ out.full = 0 /\ timed.full = n))
      BY <1>2, <1>3, <1>4
    <3>3. timed \in MovieFile /\ timed.taken = out.taken /\ timed.packets = out.packets /\ timed.codec = out.codec
      BY <1>4
    <3>4. n \in Picture /\ (writer = "movie" => TakenFrames \in Int /\ n = TakenFrames + 1 /\ TakenFrames' = TakenFrames + 1)
      BY <1>1, <1>2
    <3> QED
      BY <3>1, <3>2, <3>3, <3>4, OutHolds
  <2>2. CASE frame.media = "audio"
    <3>1. out' = [timed EXCEPT !.sounds = @ + 1]
      BY <2>2 DEF WriteQueue, WriteFrame, n, timed
    <3>2. /\ out' \in MovieFile /\ out'.taken = out.taken /\ out'.packets = out.packets /\ out'.codec = out.codec
          /\ out'.full = timed.full
      <4> DEFINE sounds == timed.sounds + 1
      <4>1. out' = [timed EXCEPT !.sounds = sounds]
        BY <3>1
      <4>2. sounds \in Nat
        BY <1>4 DEF MovieFile
      <4> HIDE DEF sounds
      <4>3. \A f \in MovieFile :
                LET g == [f EXCEPT !.sounds = sounds]
                IN  g \in MovieFile /\ g.taken = f.taken /\ g.packets = f.packets /\ g.codec = f.codec /\ g.full = f.full
        BY <4>2 DEF MovieFile
      <4> QED
        BY <1>4, <4>1, <4>3
    <3>3. \A k \in DOMAIN out.taken : out.taken[k] \in Nat /\ out.taken[k] <= TakenFrames
      <4>1. \A k \in DOMAIN out.taken : out.taken[k] \in Picture
        BY <1>2, ElementOfSeq, LenProperties DEF MovieFile
      <4> QED
        BY <1>2, <4>1 DEF MovieInv, OutIsEarlier, Picture
    <3>4. out.full <= TakenFrames /\ out.full \in Nat
      BY <1>2 DEF MovieInv, OutIsEarlier, MovieFile
    <3>5. FileHolds(out)'
      <4>1. out'.full = 0 => out.full = 0
        BY <1>2, <1>4, <3>2 DEF Picture
      <4>2. \A k \in DOMAIN out.taken : out.taken[k] = out'.full => out.taken[k] = out.full
        BY <1>1, <1>4, <3>2, <3>3
      <4> QED
        BY <1>2, <1>3, <3>2, <4>1, <4>2 DEF FileHolds
    <3>6. OutIsEarlier'
      <4>1. out'.full <= TakenFrames'
        BY <1>1, <1>4, <3>2, <3>4
      <4>2. \A k \in DOMAIN out.taken : out.taken[k] <= TakenFrames'
        BY <1>1, <3>3
      <4> QED
        BY <3>2, <4>1, <4>2 DEF OutIsEarlier
    <3> QED
      BY <3>2, <3>5, <3>6
  <2> QED
    BY <2>1, <2>2
<1>6. (\A i \in DOMAIN files : FileHolds(files[i]))'
  BY <1>3, ClosedStay
<1>7. fileStep \in {"loop", "queue"} /\ fileStep' \in {"loop", "queue", "close"}
  BY DEF WriteQueue, TakesFrame
<1>8. NoticesPair'
  BY <1>2, <1>3, <1>7 DEF MovieInv, NoticesPair, IsOpen
<1>9. MovieTypes'
  BY <1>1, <1>2, <1>3, <1>5, <1>7 DEF MovieTypes
<1> QED
  BY <1>1, <1>5, <1>6, <1>8, <1>9 DEF MovieInv

(* No frame is taken before it is queued. *)
LEMMA WrittenIsNat == MovieInv => TakenFrames \in Nat
<1> SUFFICES ASSUME MovieInv PROVE TakenFrames \in Nat
  OBVIOUS
<1> DEFINE F == [n : Picture, media : {"audio", "video"}, alarmed : BOOLEAN]
<1>1. movieQueue \in Seq(F) /\ movieFrames \in Nat
  BY DEF MovieInv, MovieTypes
<1>2. Len(movieQueue) \in Nat /\ DOMAIN movieQueue = 1 .. Len(movieQueue)
  BY <1>1, LenProperties
<1>3. CASE Len(movieQueue) = 0
  BY <1>1, <1>3 DEF TakenFrames
<1>4. CASE Len(movieQueue) # 0
  <2>1. 1 \in DOMAIN movieQueue
    BY <1>2, <1>4
  <2>2. movieQueue[1] \in F
    BY <1>1, <1>2, <2>1, ElementOfSeq
  <2>3. movieQueue[1].n \in Picture /\ movieQueue[1].n = TakenFrames + 1
    BY <2>1, <2>2 DEF MovieInv, QueueIsNumbered
  <2>4. TakenFrames \in Int
    BY <1>1, <1>2 DEF TakenFrames
  <2> QED
    BY <2>3, <2>4 DEF Picture
<1> QED
  BY <1>3, <1>4

LEMMA OpensMovie == ASSUME MovieInv, OpenMovie PROVE MovieInv'
<1>1. /\ fileStep = "open" /\ out' = NewFile /\ Announce("begin") /\ fileStep' = "loop"
      /\ UNCHANGED << writer, hasAudio, latency, movieQueue, movieFrames, mStop, toWrite, files, videoState, videoStore >>
  BY DEF OpenMovie
<1>2. MovieTypes /\ NoticesPair
  BY DEF MovieInv
<1>3. writer = "movie" /\ ~IsOpen /\ IsOpen' /\ Len(files) \in Nat /\ notices \in Seq({"begin", "end"})
  BY <1>1, <1>2, LenProperties DEF IsOpen, MovieTypes
<1>4. /\ notices' \in Seq({"begin", "end"}) /\ Len(notices') = Len(notices) + 1
      /\ \A i \in DOMAIN notices' : notices'[i] = IF i % 2 = 1 THEN "begin" ELSE "end"
  BY <1>1, <1>2, <1>3, OneMoreAnnounced
<1>5. NoticesPair'
  BY <1>1, <1>2, <1>3, <1>4 DEF NoticesPair
<1>6. NewFile \in MovieFile /\ FileHolds(NewFile)
  BY <1>2, NewFileHolds
<1>7. MovieTypes'
  BY <1>1, <1>2, <1>4, <1>6 DEF MovieTypes
<1>8. FileHolds(out)'
  BY <1>1, <1>6 DEF FileHolds
<1>9. QueueIsNumbered'
  BY <1>1 DEF MovieInv, QueueIsNumbered, TakenFrames
<1>10. TakenFrames \in Nat
  BY WrittenIsNat
<1>11. OutIsEarlier'
  BY <1>1, <1>10 DEF OutIsEarlier, NewFile, TakenFrames
<1>12. (\A i \in DOMAIN files : FileHolds(files[i]))'
  BY <1>1, ClosedStay
<1> QED
  BY <1>5, <1>7, <1>8, <1>9, <1>11, <1>12 DEF MovieInv

(* A file that is closed: out goes to the closed ones, and stays as it is. *)
LEMMA ClosesFile ==
    ASSUME MovieInv, UNCHANGED << writer, latency, out >>, files' = Append(files, out), Announce("end"),
           fileStep # "fatal", IsOpen, ~IsOpen'
    PROVE  /\ NoticesPair' /\ (\A i \in DOMAIN files : FileHolds(files[i]))' /\ FileHolds(out)'
           /\ files' \in Seq(MovieFile) /\ notices' \in Seq({"begin", "end"})
<1>1. MovieTypes /\ NoticesPair /\ FileHolds(out)
  BY DEF MovieInv
<1>2. files \in Seq(MovieFile) /\ out \in MovieFile /\ notices \in Seq({"begin", "end"})
  BY <1>1 DEF MovieTypes
<1>3. /\ notices' \in Seq({"begin", "end"}) /\ Len(notices') = Len(notices) + 1
      /\ \A i \in DOMAIN notices' : notices'[i] = IF i % 2 = 1 THEN "begin" ELSE "end"
  BY <1>1, OneMoreAnnounced
<1>4. Len(files') = Len(files) + 1 /\ Len(files) \in Nat
  BY <1>2, AppendProperties, LenProperties
<1>5. NoticesPair'
  <2>1. Len(notices) = 2 * Len(files) + 1
    BY <1>1 DEF NoticesPair
  <2>2. Len(notices') = 2 * Len(files')
    BY <1>3, <1>4, <2>1
  <2>3. Len(files') \in Nat
    BY <1>4
  <2> QED
    BY <1>3, <2>2, <2>3, SMTT(30) DEF NoticesPair
<1>6. FileHolds(out)'
  BY <1>1 DEF FileHolds
<1> QED
  BY <1>3, <1>5, <1>6, ClosedStay

LEMMA ClosesMovie == ASSUME MovieInv, CloseMovie PROVE MovieInv'
<1>1. /\ writer = "movie" /\ fileStep \in {"close", "loop"} /\ files' = Append(files, out) /\ Announce("end") /\ fileStep' = "open"
      /\ UNCHANGED << writer, hasAudio, latency, movieQueue, movieFrames, mStop, toWrite, out, videoState, videoStore >>
  BY DEF CloseMovie
<1>2. IsOpen /\ ~IsOpen'
  BY <1>1 DEF IsOpen
<1>3. /\ NoticesPair' /\ (\A i \in DOMAIN files : FileHolds(files[i]))' /\ FileHolds(out)'
      /\ files' \in Seq(MovieFile) /\ notices' \in Seq({"begin", "end"})
  BY <1>1, <1>2, ClosesFile
<1>4. MovieTypes'
  BY <1>1, <1>3 DEF MovieInv, MovieTypes
<1>5. QueueIsNumbered' /\ OutIsEarlier'
  BY <1>1 DEF MovieInv, QueueIsNumbered, TakenFrames, OutIsEarlier
<1> QED
  BY <1>3, <1>4, <1>5 DEF MovieInv

LEMMA Idles == ASSUME MovieInv, stop \/ Wait \/ Fails \/ EndMovie \/ StopVideo PROVE MovieInv'
<1>1. UNCHANGED << writer, latency, hasAudio, movieQueue, movieFrames, toWrite, out, files, notices, videoState, videoStore >>
  BY DEF stop, Wait, Fails, EndMovie, StopVideo, writerVars
<1>2. MovieTypes'
  <2>1. mStop' \in BOOLEAN /\ fileStep' \in {"start", "open", "loop", "queue", "close", "ended", "fatal"}
    BY DEF MovieInv, MovieTypes, stop, Wait, Fails, EndMovie, StopVideo, writerVars
  <2>2. fileStep' \in {"open", "close"} => writer = "movie"
    BY DEF MovieInv, MovieTypes, stop, Wait, Fails, EndMovie, StopVideo, writerVars
  <2> QED
    BY <1>1, <2>1, <2>2 DEF MovieInv, MovieTypes
<1>3. fileStep' # "fatal" => fileStep # "fatal" /\ (writer = "movie" => IsOpen' = IsOpen)
  BY <1>1 DEF MovieInv, MovieTypes, IsOpen, stop, Wait, Fails, EndMovie, StopVideo, writerVars
<1> QED
  BY <1>1, <1>2, <1>3, MovieInvKept

-----------------------------------------------------------------------------
(* The video recorder. *)

(* Clearing out old frames leaves frames. *)
LEMMA StoredIsStore ==
    ASSUME MovieTypes, NEW n \in Picture
    PROVE  Stored(n) \in Seq(Picture)
<1> DEFINE all == Append(videoStore, n)
           first == IF Len(all) > StoreSize THEN Len(all) - StoreSize + 1 ELSE 1
<1>1. all \in Seq(Picture) /\ Len(all) \in Nat /\ DOMAIN all = 1 .. Len(all)
  BY AppendProperties, LenProperties DEF MovieTypes
<1> HIDE DEF all
<1>2. first \in Nat \ {0} /\ StoreSize \in Nat
  BY <1>1, MovieAssumption
<1>3. Stored(n) = SubSeq(all, first, Len(all))
  BY DEF Stored, all
<1> HIDE DEF first
<1>4. \A i \in first .. Len(all) : all[i] \in Picture
  BY <1>1, <1>2, ElementOfSeq
<1>5. SubSeq(all, first, Len(all)) \in Seq(Picture)
  BY <1>1, <1>2, <1>4, SubSeqProperties
<1> QED
  BY <1>3, <1>5

(* What every step of the recorder that takes a frame does. *)
LEMMA VideoSteps ==
    ASSUME MovieInv, VideoStep
    PROVE  /\ writer = "video" /\ fileStep \in {"loop", "queue"} /\ fileStep' \in {"loop", "queue"} /\ toWrite = << >>
           /\ UNCHANGED << writer, hasAudio, latency, movieFrames, mStop >>
           /\ frame.n \in Picture /\ QueueIsNumbered' /\ OutIsEarlier' /\ videoStore' \in Seq(Picture)
           /\ movieQueue' \in Seq([n : Picture, media : {"audio", "video"}, alarmed : BOOLEAN])
<1>1. /\ writer = "video" /\ fileStep \in {"loop", "queue"} /\ fileStep' \in {"loop", "queue"} /\ toWrite = << >>
      /\ UNCHANGED << writer, hasAudio, latency, movieFrames, mStop >>
  BY DEF VideoStep, TakesFrame
<1>2. /\ frame \in [n : Picture, media : {"audio", "video"}, alarmed : BOOLEAN]
      /\ QueueIsNumbered'
      /\ movieQueue' \in Seq([n : Picture, media : {"audio", "video"}, alarmed : BOOLEAN])
  BY FrameIsNext DEF MovieInv, VideoStep, TakesFrame
<1>3. frame.n \in Picture
  BY <1>2
<1>4. videoStore' \in Seq(Picture)
  BY <1>3, StoredIsStore DEF MovieInv, VideoStep
<1>5. OutIsEarlier'
  BY <1>1 DEF OutIsEarlier
<1> QED
  BY <1>1, <1>2, <1>3, <1>4, <1>5

LEMMA BeginsVideo == ASSUME MovieInv, BeginVideo PROVE MovieInv'
<1>1. /\ writer = "video" /\ fileStep \in {"loop", "queue"} /\ fileStep' \in {"loop", "queue"} /\ toWrite = << >>
      /\ UNCHANGED << writer, hasAudio, latency, movieFrames, mStop >>
      /\ frame.n \in Picture /\ QueueIsNumbered' /\ OutIsEarlier' /\ videoStore' \in Seq(Picture)
      /\ movieQueue' \in Seq([n : Picture, media : {"audio", "video"}, alarmed : BOOLEAN])
  BY VideoSteps DEF BeginVideo
<1>2. /\ videoState = "IDLE" /\ videoState' = "ALARM" /\ out' = NewFile /\ toWrite' = Append(videoStore, frame.n)
      /\ Announce("begin") /\ files' = files
  BY DEF BeginVideo
<1>3. MovieTypes /\ NoticesPair
  BY DEF MovieInv
<1>4. ~IsOpen /\ IsOpen' /\ Len(files) \in Nat /\ notices \in Seq({"begin", "end"})
  BY <1>1, <1>2, <1>3, LenProperties DEF IsOpen, MovieTypes
<1>5. /\ notices' \in Seq({"begin", "end"}) /\ Len(notices') = Len(notices) + 1
      /\ \A i \in DOMAIN notices' : notices'[i] = IF i % 2 = 1 THEN "begin" ELSE "end"
  BY <1>1, <1>2, <1>3, <1>4, OneMoreAnnounced
<1>6. NoticesPair'
  <2>1. Len(notices) = 2 * Len(files)
    BY <1>1, <1>3, <1>4 DEF NoticesPair
  <2>2. Len(notices') = 2 * Len(files) + 1 /\ files' = files
    BY <1>2, <1>4, <1>5, <2>1
  <2> QED
    BY <1>4, <1>5, <2>2 DEF NoticesPair
<1>7. NewFile \in MovieFile /\ FileHolds(NewFile)
  BY <1>3, NewFileHolds
<1>8. toWrite' \in Seq(Picture)
  BY <1>1, <1>2, <1>3, AppendProperties DEF MovieTypes
<1>9. MovieTypes'
  BY <1>1, <1>2, <1>3, <1>5, <1>7, <1>8 DEF MovieTypes
<1>10. FileHolds(out)'
  BY <1>1, <1>2, <1>7 DEF FileHolds
<1>11. (\A i \in DOMAIN files : FileHolds(files[i]))'
  BY <1>1, <1>2, ClosedStay
<1> QED
  BY <1>1, <1>6, <1>9, <1>10, <1>11 DEF MovieInv

LEMMA WritesStored == ASSUME MovieInv, WriteStored PROVE MovieInv'
<1>1. /\ fileStep \in {"loop", "queue"} /\ toWrite # << >>
      /\ out' = Encoded(out, Head(toWrite)) /\ toWrite' = Tail(toWrite)
      /\ UNCHANGED << writer, hasAudio, latency, movieQueue, movieFrames, mStop, fileStep, files, videoState, videoStore, notices >>
  BY DEF WriteStored
<1>2. MovieTypes /\ writer = "video" /\ out \in MovieFile /\ toWrite \in Seq(Picture)
  BY <1>1 DEF MovieInv, MovieTypes
<1>3. Head(toWrite) \in Picture /\ Tail(toWrite) \in Seq(Picture)
  BY <1>1, <1>2, HeadTailProperties
<1>4. out' \in MovieFile /\ FileHolds(out)' /\ OutIsEarlier'
  <2> DEFINE n == Head(toWrite)
  <2>1. n \in Picture /\ out' = Encoded(out, n) /\ UNCHANGED << writer, latency >> /\ writer # "movie"
    BY <1>1, <1>2, <1>3
  <2> HIDE DEF n
  <2> QED
    BY <1>2, <2>1, OutHolds
<1>5. MovieTypes'
  BY <1>1, <1>2, <1>3, <1>4 DEF MovieTypes
<1>6. (\A i \in DOMAIN files : FileHolds(files[i]))'
  BY <1>1, ClosedStay
<1>7. QueueIsNumbered' /\ NoticesPair'
  BY <1>1 DEF MovieInv, QueueIsNumbered, TakenFrames, NoticesPair, IsOpen
<1> QED
  BY <1>4, <1>5, <1>6, <1>7 DEF MovieInv

LEMMA ContinuesVideo == ASSUME MovieInv, ContinueVideo PROVE MovieInv'
<1>1. /\ writer = "video" /\ fileStep \in {"loop", "queue"} /\ fileStep' \in {"loop", "queue"} /\ toWrite = << >>
      /\ UNCHANGED << writer, hasAudio, latency, movieFrames, mStop >>
      /\ frame.n \in Picture /\ QueueIsNumbered' /\ videoStore' \in Seq(Picture)
      /\ movieQueue' \in Seq([n : Picture, media : {"audio", "video"}, alarmed : BOOLEAN])
  BY VideoSteps DEF ContinueVideo
<1>2. /\ videoState # "IDLE" /\ videoState' \in {"ALARM", "ALERT"} /\ out' = Encoded(out, frame.n)
      /\ UNCHANGED << toWrite, files, notices >>
  BY DEF ContinueVideo
<1>3. MovieTypes /\ NoticesPair /\ out \in MovieFile
  BY DEF MovieInv, MovieTypes
<1>4. out' \in MovieFile /\ FileHolds(out)' /\ OutIsEarlier'
  BY <1>1, <1>2, <1>3, OutHolds
<1>5. MovieTypes'
  BY <1>1, <1>2, <1>3, <1>4 DEF MovieTypes
<1>6. (\A i \in DOMAIN files : FileHolds(files[i]))'
  BY <1>1, <1>2, ClosedStay
<1>7. NoticesPair'
  BY <1>1, <1>2, <1>3 DEF NoticesPair, IsOpen
<1> QED
  BY <1>1, <1>4, <1>5, <1>6, <1>7 DEF MovieInv

LEMMA EndsVideo == ASSUME MovieInv, EndVideo PROVE MovieInv'
<1>1. /\ writer = "video" /\ fileStep \in {"loop", "queue"} /\ fileStep' \in {"loop", "queue"} /\ toWrite = << >>
      /\ UNCHANGED << writer, hasAudio, latency, movieFrames, mStop >>
      /\ QueueIsNumbered' /\ OutIsEarlier' /\ videoStore' \in Seq(Picture)
      /\ movieQueue' \in Seq([n : Picture, media : {"audio", "video"}, alarmed : BOOLEAN])
  BY VideoSteps DEF EndVideo
<1>2. /\ videoState # "IDLE" /\ videoState' = "IDLE" /\ files' = Append(files, out) /\ Announce("end")
      /\ UNCHANGED << toWrite, out >>
  BY DEF EndVideo
<1>3. IsOpen /\ ~IsOpen'
  BY <1>1, <1>2 DEF IsOpen
<1>4. /\ NoticesPair' /\ (\A i \in DOMAIN files : FileHolds(files[i]))' /\ FileHolds(out)'
      /\ files' \in Seq(MovieFile) /\ notices' \in Seq({"begin", "end"})
  BY <1>1, <1>2, <1>3, ClosesFile
<1>5. MovieTypes'
  BY <1>1, <1>2, <1>4 DEF MovieInv, MovieTypes
<1> QED
  BY <1>1, <1>4, <1>5 DEF MovieInv

LEMMA StaysQuiet == ASSUME MovieInv, Quiet PROVE MovieInv'
<1>1. /\ writer = "video" /\ fileStep \in {"loop", "queue"} /\ fileStep' \in {"loop", "queue"} /\ toWrite = << >>
      /\ UNCHANGED << writer, hasAudio, latency, movieFrames, mStop >>
      /\ QueueIsNumbered' /\ OutIsEarlier' /\ videoStore' \in Seq(Picture)
      /\ movieQueue' \in Seq([n : Picture, media : {"audio", "video"}, alarmed : BOOLEAN])
  BY VideoSteps DEF Quiet
<1>2. UNCHANGED << toWrite, out, files, videoState, notices >>
  BY DEF Quiet
<1>3. MovieTypes'
  BY <1>1, <1>2 DEF MovieInv, MovieTypes
<1>4. FileHolds(out)' /\ (\A i \in DOMAIN files : FileHolds(files[i]))'
  BY <1>1, <1>2 DEF MovieInv, FileHolds
<1>5. NoticesPair'
  BY <1>1, <1>2 DEF MovieInv, NoticesPair, IsOpen
<1> QED
  BY <1>1, <1>3, <1>4, <1>5 DEF MovieInv

LEMMA MovieStutters == ASSUME MovieInv, UNCHANGED movieVars PROVE MovieInv'
<1>1. UNCHANGED << writer, hasAudio, latency, movieQueue, movieFrames, mStop, fileStep, toWrite, out, files, videoState,
                   videoStore, notices >>
  BY DEF movieVars, writerVars
<1>2. MovieTypes'
  BY <1>1 DEF MovieInv, MovieTypes
<1>3. fileStep' # "fatal" => fileStep # "fatal" /\ (writer = "movie" => IsOpen' = IsOpen)
  BY <1>1 DEF IsOpen
<1> QED
  BY <1>1, <1>2, <1>3, MovieInvKept

\* The files of a movie output and of a video recorder keep what the invariant says of them:
\* what was for a file is in it or still in the codec (ozMovieFileOutput.cpp:215-343,
\* ozVideoRecorder.cpp:60-160).
THEOREM MovieInvariant == MovieSpec => []MovieInv
<1>1. MovieInv /\ [MovieNext]_movieVars => MovieInv'
  <2> SUFFICES ASSUME MovieInv, [MovieNext]_movieVars PROVE MovieInv'
    OBVIOUS
  <2>1. ASSUME NEW media \in {"audio", "video"}, NEW alarmed \in BOOLEAN, queueMovieFrame(media, alarmed) PROVE MovieInv'
    BY <2>1, QueuesFrame
  <2>2. CASE stop \/ Wait \/ Fails \/ EndMovie \/ StopVideo
    BY <2>2, Idles
  <2>3. CASE OpenMovie
    BY <2>3, OpensMovie
  <2>4. CASE WriteQueue
    BY <2>4, WritesQueue
  <2>5. CASE CloseMovie
    BY <2>5, ClosesMovie
  <2>6. CASE BeginVideo
    BY <2>6, BeginsVideo
  <2>7. CASE WriteStored
    BY <2>7, WritesStored
  <2>8. CASE ContinueVideo
    BY <2>8, ContinuesVideo
  <2>9. CASE EndVideo
    BY <2>9, EndsVideo
  <2>10. CASE Quiet
    BY <2>10, StaysQuiet
  <2>11. CASE UNCHANGED movieVars
    BY <2>11, MovieStutters
  <2> QED
    BY <2>1, <2>2, <2>3, <2>4, <2>5, <2>6, <2>7, <2>8, <2>9, <2>10, <2>11 DEF MovieNext
<1> QED
  BY MovieInvInit, <1>1, PTL DEF MovieSpec

\* Every closed file has the pictures that were for it, in order and each once, but for what the
\* codec keeps back, and a movie that is complete has all up to the picture that completed it; a
\* file is announced once when it is opened and once when it is closed (ozMovieFileOutput.cpp:215-380,
\* ozVideoRecorder.cpp:355-376, 458-488).
THEOREM FilesAlwaysHold == MovieSpec => []FilesHoldTheirFrames
  BY MovieInvariant, MovieInvMeans, PTL
=============================================================================
