---------------------------- MODULE FeedFlow_proofs ----------------------------
(***************************************************************************)
(* A consumer gets an unbroken run of its provider's frames, and every     *)
(* component passes on, in order, only what it was given; the batch and    *)
(* delay loops implement FrameRelay, but for its fairness: for any tree of *)
(* components, any queue length and any number of frames.                  *)
(***************************************************************************)
EXTENDS FeedFlow, SequenceTheorems, TLAPS

-----------------------------------------------------------------------------
(* Sequences, by their elements *)

\* t is s with e behind it, s without its first element, s followed by r.
Longer(t, s, e) ==
    Len(t) = Len(s) + 1 /\ t[Len(s) + 1] = e /\ \A i \in 1 .. Len(s) : t[i] = s[i]
Shorter(t, s) ==
    Len(t) = Len(s) - 1 /\ \A i \in 1 .. Len(t) : t[i] = s[i + 1]
Joined(t, s, r) ==
    /\ Len(t) = Len(s) + Len(r)
    /\ \A i \in 1 .. Len(s) : t[i] = s[i]
    /\ \A i \in 1 .. Len(r) : t[Len(s) + i] = r[i]

LEMMA AppendIsLonger ==
    ASSUME NEW S, NEW s \in Seq(S), NEW e \in S
    PROVE  Append(s, e) \in Seq(S) /\ Longer(Append(s, e), s, e)
BY AppendProperties DEF Longer

LEMMA TailIsShorter ==
    ASSUME NEW S, NEW s \in Seq(S), s # << >>
    PROVE  /\ Tail(s) \in Seq(S) /\ Shorter(Tail(s), s)
           /\ Head(s) \in S /\ Head(s) = s[1] /\ Len(s) \in Nat /\ Len(s) > 0
<1>1. Len(s) \in Nat /\ Len(s) # 0
    BY LenProperties, EmptySeq
<1>2. /\ Head(s) \in S /\ Tail(s) \in Seq(S) /\ Len(Tail(s)) = Len(s) - 1
      /\ \A i \in 1 .. Len(Tail(s)) : Tail(s)[i] = s[i + 1]
    BY HeadTailProperties
<1>3. Head(s) = s[1]
    BY HeadTailProperties
<1>4. QED
    BY <1>1, <1>2, <1>3 DEF Shorter

LEMMA ConcatIsJoined ==
    ASSUME NEW S, NEW s \in Seq(S), NEW r \in Seq(S)
    PROVE  s \o r \in Seq(S) /\ Joined(s \o r, s, r)
<1>1. Len(s) \in Nat /\ Len(r) \in Nat
    BY LenProperties
<1>2. /\ s \o r \in Seq(S) /\ Len(s \o r) = Len(s) + Len(r)
      /\ \A i \in 1 .. Len(s) + Len(r) : (s \o r)[i] = IF i <= Len(s) THEN s[i] ELSE r[i - Len(s)]
    BY ConcatProperties
<1> DEFINE t == s \o r
<1> HIDE DEF t
<1>3. /\ t \in Seq(S) /\ Len(t) = Len(s) + Len(r)
      /\ \A i \in 1 .. Len(s) + Len(r) : t[i] = IF i <= Len(s) THEN s[i] ELSE r[i - Len(s)]
    BY <1>2 DEF t
<1>4. \A i \in 1 .. Len(s) : t[i] = s[i]
    BY <1>1, <1>3
<1>5. ASSUME NEW i \in 1 .. Len(r) PROVE t[Len(s) + i] = r[i]
    <2>1. Len(s) + i \in 1 .. Len(s) + Len(r) /\ ~(Len(s) + i <= Len(s)) /\ (Len(s) + i) - Len(s) = i
        BY <1>1
    <2>2. QED
        BY <1>3, <2>1
<1>6. QED
    BY <1>3, <1>4, <1>5 DEF t, Joined

LEMMA EmptyIsTyped == ASSUME NEW S PROVE << >> \in Seq(S) /\ Len(<< >>) = 0
BY EmptySeq

LEMMA TypedIsTyped ==
    ASSUME NEW S, NEW s \in Seq(S)
    PROVE  Len(s) \in Nat /\ \A i \in 1 .. Len(s) : s[i] \in S
BY LenProperties, ElementOfSeq

\* A run of elements is a subsequence.
LEMMA RunIsSubSeq ==
    ASSUME NEW S, NEW s \in Seq(S), NEW a \in Seq(S), NEW i \in Nat, i + Len(a) <= Len(s),
           \A k \in 1 .. Len(a) : a[k] = s[i + k]
    PROVE  a = SubSeq(s, i + 1, i + Len(a))
<1> DEFINE b == SubSeq(s, i + 1, i + Len(a))
           len == Len(a)
<1>1. Len(s) \in Nat /\ len \in Nat /\ \A k \in 1 .. Len(s) : s[k] \in S
    BY TypedIsTyped
<1>2. \A k \in i + 1 .. i + len : s[k] \in S
    BY <1>1
<1>3. i + 1 \in Int /\ i + len \in Int
    BY <1>1
<1>4. /\ b \in Seq(S)
      /\ Len(b) = IF i + 1 <= i + len THEN (i + len) - (i + 1) + 1 ELSE 0
      /\ \A k \in 1 .. (i + len) - (i + 1) + 1 : b[k] = s[(i + 1) + k - 1]
    BY <1>2, <1>3, SubSeqProperties
<1> HIDE DEF b
<1>5. Len(b) = len
    BY <1>1, <1>4
<1>6. ASSUME NEW k \in 1 .. len PROVE a[k] = b[k]
    <2>1. k \in 1 .. (i + len) - (i + 1) + 1 /\ (i + 1) + k - 1 = i + k
        BY <1>1
    <2>2. QED
        BY <1>4, <2>1
<1>7. a = b
    BY <1>4, <1>5, <1>6, SeqEqual
<1>8. QED
    BY <1>7 DEF b

-----------------------------------------------------------------------------
(* The order of frames on their way through a component *)

Increasing(s) == \A i, j \in 1 .. Len(s) : i < j => s[i] < s[j]
Before(s, t)  == \A i \in 1 .. Len(s), j \in 1 .. Len(t) : s[i] < t[j]
Within(s, t)  == \A i \in 1 .. Len(s) : \E j \in 1 .. Len(t) : s[i] = t[j]

Ints(s) == Len(s) \in Nat /\ \A i \in 1 .. Len(s) : s[i] \in Int

\* What was sent, then the delay buffer's queue, then the queue from a place on.
Sorted(a, d, q, place) ==
    /\ Increasing(a) /\ Increasing(d) /\ Increasing(q)
    /\ Before(a, d) /\ Before(d, q)
    /\ \A i \in 1 .. Len(a), j \in 1 .. Len(q) : place < j => a[i] < q[j]

LEMMA IncreasingLonger ==
    ASSUME NEW s, NEW t, NEW e, Ints(s), Ints(t), Longer(t, s, e), Increasing(s),
           \A i \in 1 .. Len(s) : s[i] < e
    PROVE  Increasing(t)
BY SMTT(30) DEF Increasing, Longer, Ints

LEMMA IncreasingShorter ==
    ASSUME NEW s, NEW t, Ints(s), Ints(t), Shorter(t, s), Increasing(s)
    PROVE  Increasing(t)
<1> SUFFICES ASSUME NEW i \in 1 .. Len(t), NEW j \in 1 .. Len(t), i < j PROVE t[i] < t[j]
    BY DEF Increasing
<1>1. /\ i + 1 \in 1 .. Len(s) /\ t[i] = s[i + 1] /\ j + 1 \in 1 .. Len(s) /\ t[j] = s[j + 1]
      /\ i + 1 < j + 1
    BY DEF Shorter, Ints
<1>2. QED
    BY <1>1 DEF Increasing

LEMMA BeforeLonger ==
    ASSUME NEW r, NEW s, NEW t, NEW e, Ints(s), Longer(t, s, e), Before(r, s),
           \A i \in 1 .. Len(r) : r[i] < e
    PROVE  Before(r, t)
BY DEF Before, Longer, Ints

LEMMA LongerBefore ==
    ASSUME NEW r, NEW s, NEW t, NEW e, Ints(s), Longer(t, s, e), Before(s, r),
           \A i \in 1 .. Len(r) : e < r[i]
    PROVE  Before(t, r)
BY DEF Before, Longer, Ints

LEMMA BeforeShorter ==
    ASSUME NEW r, NEW s, NEW t, Ints(s), Ints(t), Shorter(t, s), Before(r, s)
    PROVE  Before(r, t)
<1> SUFFICES ASSUME NEW i \in 1 .. Len(r), NEW j \in 1 .. Len(t) PROVE r[i] < t[j]
    BY DEF Before
<1>1. j + 1 \in 1 .. Len(s) /\ t[j] = s[j + 1]
    BY DEF Shorter, Ints
<1>2. QED
    BY <1>1 DEF Before

LEMMA ShorterBefore ==
    ASSUME NEW r, NEW s, NEW t, Ints(s), Ints(t), Shorter(t, s), Before(s, r)
    PROVE  Before(t, r)
<1> SUFFICES ASSUME NEW i \in 1 .. Len(t), NEW j \in 1 .. Len(r) PROVE t[i] < r[j]
    BY DEF Before
<1>1. i + 1 \in 1 .. Len(s) /\ t[i] = s[i + 1]
    BY DEF Shorter, Ints
<1>2. QED
    BY <1>1 DEF Before

LEMMA EmptySorts ==
    ASSUME NEW a, NEW d, NEW q, NEW place, NEW p, Sorted(a, d, q, place)
    PROVE  Sorted(a, d, << >>, p)
<1>1. Len(<< >>) = 0 /\ 1 .. 0 = {}
    BY EmptySeq
<1>2. QED
    BY <1>1 DEF Sorted, Increasing, Before

\* A newer frame comes to the queue.
LEMMA QueueSorts ==
    ASSUME NEW a, NEW d, NEW q, NEW place, NEW e, NEW r,
           Ints(q), Ints(r), Longer(r, q, e), Sorted(a, d, q, place),
           \A i \in 1 .. Len(a) : a[i] < e, \A i \in 1 .. Len(d) : d[i] < e, \A i \in 1 .. Len(q) : q[i] < e
    PROVE  Sorted(a, d, r, place)
<1>1. Increasing(a) /\ Increasing(d) /\ Increasing(q) /\ Before(a, d) /\ Before(d, q)
    BY DEF Sorted
<1>2. Increasing(r) /\ Before(d, r)
    BY <1>1, IncreasingLonger, BeforeLonger
<1>3. ASSUME NEW i \in 1 .. Len(a), NEW j \in 1 .. Len(r), place < j PROVE a[i] < r[j]
    <2>1. CASE j = Len(q) + 1
        BY <2>1 DEF Longer
    <2>2. CASE j # Len(q) + 1
        <3>1. j \in 1 .. Len(q) /\ r[j] = q[j]
            BY <2>2 DEF Longer, Ints
        <3>2. a[i] < q[j]
            BY <1>3, <3>1 DEF Sorted
        <3>3. QED
            BY <3>1, <3>2
    <2>3. QED
        BY <2>1, <2>2
<1>4. QED
    BY <1>1, <1>2, <1>3 DEF Sorted

\* The next frame of the queue is sent, and perhaps others are passed over.
LEMMA SendSorts ==
    ASSUME NEW a, NEW d, NEW q, NEW place \in Nat, NEW p \in Nat, NEW b,
           Ints(a), Ints(q), Ints(b), Sorted(a, d, q, place),
           Len(d) = 0, place < Len(q), place < p, Longer(b, a, q[place + 1])
    PROVE  Sorted(b, d, q, p)
<1> DEFINE e == q[place + 1]
<1>1. Increasing(a) /\ Increasing(d) /\ Increasing(q) /\ Before(d, q)
    BY DEF Sorted
<1>2. place + 1 \in 1 .. Len(q) /\ e \in Int /\ Len(q) \in Nat
    BY DEF Ints
<1>3. \A i \in 1 .. Len(a) : a[i] < e
    BY <1>2 DEF Sorted
<1>4. Increasing(b)
    BY <1>1, <1>3, IncreasingLonger
<1>5. Before(b, d)
    BY DEF Before
<1>6. ASSUME NEW i \in 1 .. Len(b), NEW j \in 1 .. Len(q), p < j PROVE b[i] < q[j]
    <2>1. place + 1 < j /\ place < j
        BY <1>2, <1>6
    <2>2. CASE i = Len(a) + 1
        <3>1. e < q[j]
            BY <1>1, <1>2, <2>1 DEF Increasing
        <3>2. QED
            BY <2>2, <3>1 DEF Longer
    <2>3. CASE i # Len(a) + 1
        <3>1. i \in 1 .. Len(a) /\ b[i] = a[i]
            BY <2>3 DEF Longer, Ints
        <3>2. a[i] < q[j]
            BY <2>1, <3>1 DEF Sorted
        <3>3. QED
            BY <3>1, <3>2
    <2>4. QED
        BY <2>2, <2>3
<1>7. QED
    BY <1>1, <1>4, <1>5, <1>6 DEF Sorted

\* The first frame of the queue, sent or not, is removed.
LEMMA TailSorts ==
    ASSUME NEW a, NEW d, NEW q, NEW place \in {0, 1}, NEW r,
           Ints(q), Ints(r), Shorter(r, q), Sorted(a, d, q, place)
    PROVE  Sorted(a, d, r, 0)
<1>1. Increasing(a) /\ Increasing(d) /\ Increasing(q) /\ Before(a, d) /\ Before(d, q)
    BY DEF Sorted
<1>2. Increasing(r) /\ Before(d, r)
    BY <1>1, IncreasingShorter, BeforeShorter
<1>3. ASSUME NEW i \in 1 .. Len(a), NEW j \in 1 .. Len(r) PROVE a[i] < r[j]
    <2>1. j + 1 \in 1 .. Len(q) /\ place < j + 1 /\ r[j] = q[j + 1]
        BY DEF Shorter, Ints
    <2>2. a[i] < q[j + 1]
        BY <2>1 DEF Sorted
    <2>3. QED
        BY <2>1, <2>2
<1>4. QED
    BY <1>1, <1>2, <1>3 DEF Sorted

\* The delay buffer sends its first frame ...
LEMMA ReleaseSorts ==
    ASSUME NEW a, NEW d, NEW q, NEW b, NEW r,
           Ints(a), Ints(d), Ints(q), Ints(b), Ints(r),
           Sorted(a, d, q, 0), Len(d) > 0, Longer(b, a, d[1]), Shorter(r, d)
    PROVE  Sorted(b, r, q, 0)
<1>1. Increasing(a) /\ Increasing(d) /\ Increasing(q) /\ Before(a, d) /\ Before(d, q)
    BY DEF Sorted
<1>2. 1 \in 1 .. Len(d) /\ d[1] \in Int
    BY DEF Ints
<1>3. Increasing(b)
    <2>1. \A i \in 1 .. Len(a) : a[i] < d[1]
        BY <1>1, <1>2 DEF Before
    <2>2. QED
        BY <1>1, <2>1, IncreasingLonger
<1>4. Increasing(r) /\ Before(r, q) /\ Before(a, r)
    BY <1>1, IncreasingShorter, ShorterBefore, BeforeShorter
<1>5. Before(b, r)
    <2>1. ASSUME NEW j \in 1 .. Len(r) PROVE d[1] < r[j]
        <3>1. j + 1 \in 1 .. Len(d) /\ 1 < j + 1 /\ r[j] = d[j + 1]
            BY DEF Shorter, Ints
        <3>2. d[1] < d[j + 1]
            BY <1>1, <1>2, <3>1 DEF Increasing
        <3>3. QED
            BY <3>1, <3>2
    <2>2. QED
        BY <1>4, <2>1, LongerBefore
<1>6. Before(b, q)
    <2>1. Before(a, q)
        <3>1. \A j \in 1 .. Len(q) : 0 < j
            BY DEF Ints
        <3>2. QED
            BY <3>1 DEF Sorted, Before
    <2>2. \A j \in 1 .. Len(q) : d[1] < q[j]
        BY <1>1, <1>2 DEF Before
    <2>3. QED
        BY <2>1, <2>2, LongerBefore
<1>7. QED
    BY <1>1, <1>3, <1>4, <1>5, <1>6 DEF Sorted, Before

\* ... and takes the queue over.
LEMMA MoveSorts ==
    ASSUME NEW a, NEW d, NEW q, NEW t, Ints(d), Ints(q), Ints(t),
           Sorted(a, d, q, 0), Joined(t, d, q)
    PROVE  Sorted(a, t, << >>, 0)
<1>1. Increasing(a) /\ Increasing(d) /\ Increasing(q) /\ Before(a, d) /\ Before(d, q)
    BY DEF Sorted
<1>2. Len(d) \in Nat /\ Len(q) \in Nat /\ Len(t) = Len(d) + Len(q)
    BY DEF Ints, Joined
<1>3. ASSUME NEW i \in 1 .. Len(t)
      PROVE  \/ i \in 1 .. Len(d) /\ t[i] = d[i]
             \/ i - Len(d) \in 1 .. Len(q) /\ t[i] = q[i - Len(d)]
    <2>1. CASE i <= Len(d)
        <3>1. i \in 1 .. Len(d)
            BY <1>2, <2>1
        <3>2. QED
            BY <3>1 DEF Joined
    <2>2. CASE i > Len(d)
        <3>1. i - Len(d) \in 1 .. Len(q) /\ Len(d) + (i - Len(d)) = i
            BY <1>2, <2>2
        <3>2. QED
            BY <3>1 DEF Joined
    <2>3. QED
        BY <1>2, <2>1, <2>2
<1>4. Increasing(t)
    <2> SUFFICES ASSUME NEW i \in 1 .. Len(t), NEW j \in 1 .. Len(t), i < j PROVE t[i] < t[j]
        BY DEF Increasing
    <2>1. CASE i \in 1 .. Len(d) /\ t[i] = d[i]
        <3>1. CASE j \in 1 .. Len(d) /\ t[j] = d[j]
            BY <1>1, <2>1, <3>1 DEF Increasing
        <3>2. CASE j - Len(d) \in 1 .. Len(q) /\ t[j] = q[j - Len(d)]
            BY <1>1, <2>1, <3>2 DEF Before
        <3>3. QED
            BY <1>3, <3>1, <3>2
    <2>2. CASE i - Len(d) \in 1 .. Len(q) /\ t[i] = q[i - Len(d)]
        <3>1. ~(j \in 1 .. Len(d))
            BY <1>2, <2>2
        <3>2. j - Len(d) \in 1 .. Len(q) /\ t[j] = q[j - Len(d)]
            BY <1>3, <3>1
        <3>3. i - Len(d) < j - Len(d)
            BY <1>2
        <3>4. QED
            BY <1>1, <2>2, <3>2, <3>3 DEF Increasing
    <2>3. QED
        BY <1>3, <2>1, <2>2
<1>5. Before(a, t)
    <2> SUFFICES ASSUME NEW i \in 1 .. Len(a), NEW j \in 1 .. Len(t) PROVE a[i] < t[j]
        BY DEF Before
    <2>1. CASE j \in 1 .. Len(d) /\ t[j] = d[j]
        BY <1>1, <2>1 DEF Before
    <2>2. CASE j - Len(d) \in 1 .. Len(q) /\ t[j] = q[j - Len(d)]
        <3>1. 0 < j - Len(d)
            BY <1>2, <2>2
        <3>2. QED
            BY <2>2, <3>1 DEF Sorted
    <2>3. QED
        BY <1>3, <2>1, <2>2
<1>6. Len(<< >>) = 0 /\ 1 .. 0 = {}
    BY EmptySeq
<1>7. QED
    BY <1>1, <1>4, <1>5, <1>6 DEF Sorted, Increasing, Before

\* The source's next frame.
LEMMA CaptureSorts ==
    ASSUME NEW a, NEW b, NEW d, NEW q, NEW place, Sorted(a, d, q, place), Ints(a),
           Len(d) = 0, Len(q) = 0, \A i \in 1 .. Len(a) : a[i] = i, Longer(b, a, Len(a) + 1)
    PROVE  Sorted(b, d, q, place) /\ \A i \in 1 .. Len(b) : b[i] = i
<1>1. Len(a) \in Nat /\ 1 .. 0 = {}
    BY DEF Ints
<1>2. \A i \in 1 .. Len(b) : b[i] = i
    BY <1>1 DEF Longer
<1>3. QED
    BY <1>1, <1>2 DEF Sorted, Increasing, Before

LEMMA WithinLonger ==
    ASSUME NEW S, NEW s, NEW t \in Seq(S), NEW u, NEW e, Within(s, t), Longer(u, t, e)
    PROVE  Within(s, u)
<1>1. Len(t) \in Nat
    BY TypedIsTyped
<1>2. QED
    BY <1>1 DEF Within, Longer

LEMMA LongerWithin ==
    ASSUME NEW S, NEW s \in Seq(S), NEW t, NEW u, NEW j \in 1 .. Len(t), Within(s, t), Longer(u, s, t[j])
    PROVE  Within(u, t)
<1>1. Len(s) \in Nat
    BY TypedIsTyped
<1>2. QED
    BY <1>1 DEF Within, Longer

LEMMA ShorterWithin ==
    ASSUME NEW s, NEW t, NEW u, Ints(s), Ints(u), Within(s, t), Shorter(u, s)
    PROVE  Within(u, t)
<1> SUFFICES ASSUME NEW i \in 1 .. Len(u) PROVE \E j \in 1 .. Len(t) : u[i] = t[j]
    BY DEF Within
<1>1. i + 1 \in 1 .. Len(s) /\ u[i] = s[i + 1]
    BY DEF Shorter, Ints
<1>2. QED
    BY <1>1 DEF Within

LEMMA JoinedWithin ==
    ASSUME NEW S, NEW s \in Seq(S), NEW r \in Seq(S), NEW t, NEW u, Within(s, t), Within(r, t), Joined(u, s, r)
    PROVE  Within(u, t)
<1>1. Len(s) \in Nat /\ Len(r) \in Nat
    BY TypedIsTyped
<1> SUFFICES ASSUME NEW i \in 1 .. Len(u) PROVE \E j \in 1 .. Len(t) : u[i] = t[j]
    BY DEF Within
<1>2. CASE i <= Len(s)
    BY <1>1, <1>2 DEF Within, Joined
<1>3. CASE i > Len(s)
    <2>1. i - Len(s) \in 1 .. Len(r) /\ Len(s) + (i - Len(s)) = i
        BY <1>1, <1>3 DEF Joined
    <2>2. QED
        BY <2>1 DEF Within, Joined
<1>4. QED
    BY <1>1, <1>2, <1>3

LEMMA EmptyWithin == ASSUME NEW t PROVE Within(<< >>, t)
BY EmptySeq DEF Within

-----------------------------------------------------------------------------
(* The invariant *)

Waiting == {"waitReady", "waitWait", "clear"}
Passing == {"batch", "offer", "dropBad"}
Locking == {"batch", "encoder"}

\* What belongs to the place where a component's thread is.
Placed(n) ==
    /\ pc[n] \notin Passing \/ Kind[n] \notin Locking => position[n] = 0
    /\ pc[n] \in Passing /\ Kind[n] \in Locking => mFrameQueue[n] # << >>
    /\ pc[n] = "batch" => Kind[n] \in Locking
    /\ pc[n] # "offer" => todo[n] = {}
    /\ pc[n] = "offer" => sent[n] # << >> /\ current[n] = sent[n][Len(sent[n])]
    /\ pc[n] \notin {"offer", "dropBad"} => bad[n] = {}
    /\ pc[n] \in Waiting => sent[n] = << >> /\ delayQueue[n] = << >>
    /\ Kind[n] # "delay" => delayQueue[n] = << >>
    /\ Kind[n] = "source" => mFrameQueue[n] = << >>

\* The consumers a component is about to visit are linked and have not refused.
Visits(n) ==
    /\ \A c \in todo[n] : ProviderOf[c] = n /\ linked[c] /\ c \notin bad[n]
    /\ \A c \in bad[n] : ProviderOf[c] = n

\* A component's frames are in order, and all it has are among those it accepted.
Ordered(n) ==
    /\ Sorted(sent[n], delayQueue[n], mFrameQueue[n], position[n])
    /\ Within(delayQueue[n], accepted[n]) /\ Within(mFrameQueue[n], accepted[n])
    /\ IF Kind[n] = "source" THEN \A i \in 1 .. Len(sent[n]) : sent[n][i] = i
                             ELSE Within(sent[n], accepted[n])

\* What a component was offered: all its provider sent, but for the frame that is just
\* going round.
Offered(c) == LET p == ProviderOf[c] IN Len(sent[p]) - (IF c \in todo[p] THEN 1 ELSE 0)

\* What it accepted is a run of that, up to the newest while the link stands.
GapFree(c) == LET p == ProviderOf[c] IN
    \E i \in Nat :
        /\ i + Len(accepted[c]) <= Offered(c)
        /\ \A k \in 1 .. Len(accepted[c]) : accepted[c][k] = sent[p][i + k]
        /\ linked[c] /\ c \notin bad[p] => i + Len(accepted[c]) = Offered(c)

Fed == {n \in Node : ProviderOf[n] # None}

FlowInv ==
    /\ TypeOK
    /\ \A n \in Node : Placed(n) /\ Visits(n) /\ Ordered(n)
    /\ \A c \in Fed : GapFree(c)

LEMMA FedFacts ==
    ASSUME NEW c \in Fed
    PROVE  /\ c \in Node /\ ProviderOf[c] \in Node /\ ProviderOf[c] # c
           /\ Kind[c] # "source"
BY TreeAssumption DEF Fed

LEMMA FramesAreInts == ASSUME NEW s \in Seq(Frame) PROVE Ints(s)
<1>1. Frame \subseteq Int
    BY BoundAssumption DEF Frame
<1>2. QED
    BY <1>1, TypedIsTyped DEF Ints

LEMMA TypeFacts ==
    ASSUME TypeOK, NEW n \in Node
    PROVE  /\ mFrameQueue[n] \in Seq(Frame) /\ delayQueue[n] \in Seq(Frame)
           /\ accepted[n] \in Seq(Frame) /\ sent[n] \in Seq(Frame)
           /\ Ints(mFrameQueue[n]) /\ Ints(delayQueue[n]) /\ Ints(accepted[n]) /\ Ints(sent[n])
           /\ position[n] \in Nat /\ pc[n] \in Label
<1>1. /\ mFrameQueue[n] \in Seq(Frame) /\ delayQueue[n] \in Seq(Frame)
      /\ accepted[n] \in Seq(Frame) /\ sent[n] \in Seq(Frame)
      /\ position[n] \in Nat /\ pc[n] \in Label
    BY DEF TypeOK, FrameSeq
<1>2. QED
    BY <1>1, FramesAreInts

LEMMA FlowInitially == Init => FlowInv
<1> SUFFICES ASSUME Init PROVE FlowInv
    OBVIOUS
<1> USE DEF Init
<1>1. << >> \in Seq(Frame) /\ Len(<< >>) = 0 /\ 1 .. 0 = {}
    BY EmptyIsTyped
<1>2. TypeOK
    <2>1. /\ mFrameQueue \in FrameSeq /\ delayQueue \in FrameSeq /\ accepted \in FrameSeq /\ sent \in FrameSeq
        BY <1>1 DEF FrameSeq
    <2>2. \A n \in Node : Len(mFrameQueue[n]) <= MaxQueueSize
        <3>1. \A n \in Node : mFrameQueue[n] = << >>
            OBVIOUS
        <3>2. 0 <= MaxQueueSize
            BY BoundAssumption
        <3>3. QED
            BY <1>1, <3>1, <3>2
    <2>3. position \in [Node -> Nat] /\ \A n \in Node : position[n] <= Len(mFrameQueue[n])
        BY <1>1
    <2>4. pc \in [Node -> Label]
        BY DEF Label
    <2>5. linked \in [Node -> BOOLEAN] /\ mStop \in [Node -> BOOLEAN]
        OBVIOUS
    <2>6. /\ mState \in [Node -> {"wait", "ready", "ended"}]
          /\ current \in [Node -> Frame \cup {None}]
          /\ todo \in [Node -> SUBSET Node] /\ bad \in [Node -> SUBSET Node]
        OBVIOUS
    <2>7. QED
        BY <2>1, <2>2, <2>3, <2>4, <2>5, <2>6 DEF TypeOK
<1>3. ASSUME NEW n \in Node PROVE Placed(n) /\ Visits(n) /\ Ordered(n)
    <2>1. Placed(n)
        BY DEF Placed, Waiting, Passing
    <2>2. Visits(n)
        BY DEF Visits
    <2>3. Ordered(n)
        BY <1>1 DEF Ordered, Sorted, Increasing, Before, Within
    <2>4. QED
        BY <2>1, <2>2, <2>3
<1>4. ASSUME NEW c \in Fed PROVE GapFree(c)
    <2>1. accepted[c] = << >> /\ Offered(c) = 0
        BY <1>1, FedFacts DEF Offered
    <2>2. /\ 0 + Len(accepted[c]) = Offered(c) /\ 0 + Len(accepted[c]) <= Offered(c)
          /\ \A k \in 1 .. Len(accepted[c]) : accepted[c][k] = sent[ProviderOf[c]][0 + k]
        BY <1>1, <2>1
    <2>3. QED
        BY <2>2 DEF GapFree
<1>5. QED
    BY <1>2, <1>3, <1>4 DEF FlowInv

-----------------------------------------------------------------------------
(* What other steps leave as it is *)

LEMMA StaysPlaced ==
    ASSUME NEW n \in Node, Placed(n), pc'[n] = pc[n], position'[n] = position[n],
           mFrameQueue'[n] = mFrameQueue[n], todo'[n] = todo[n], sent'[n] = sent[n], current'[n] = current[n],
           bad'[n] = bad[n], delayQueue'[n] = delayQueue[n]
    PROVE  Placed(n)'
BY DEF Placed

LEMMA StaysOrdered ==
    ASSUME NEW n \in Node, Ordered(n), position'[n] = position[n], mFrameQueue'[n] = mFrameQueue[n],
           sent'[n] = sent[n], delayQueue'[n] = delayQueue[n], accepted'[n] = accepted[n]
    PROVE  Ordered(n)'
<1>1. Sorted(sent[n], delayQueue[n], mFrameQueue[n], position[n])'
    BY DEF Ordered, Sorted, Increasing, Before
<1>2. Within(delayQueue[n], accepted[n])' /\ Within(mFrameQueue[n], accepted[n])'
    BY DEF Ordered, Within
<1>3. CASE Kind[n] = "source"
    BY <1>1, <1>2, <1>3 DEF Ordered
<1>4. CASE Kind[n] # "source"
    <2>1. Within(sent[n], accepted[n])'
        BY <1>4 DEF Ordered, Within
    <2>2. QED
        BY <1>1, <1>2, <1>4, <2>1 DEF Ordered
<1>5. QED
    BY <1>3, <1>4

\* A link that is not about to be used may go.
LEMMA StaysGapFree ==
    ASSUME NEW c \in Fed, GapFree(c), accepted'[c] = accepted[c],
           sent'[ProviderOf[c]] = sent[ProviderOf[c]],
           c \in todo'[ProviderOf[c]] <=> c \in todo[ProviderOf[c]],
           linked'[c] /\ c \notin bad'[ProviderOf[c]] => linked[c] /\ c \notin bad[ProviderOf[c]]
    PROVE  GapFree(c)'
BY DEF GapFree, Offered

LEMMA StaysVisiting ==
    ASSUME NEW n \in Node, Visits(n), todo'[n] = todo[n], bad'[n] = bad[n],
           \A c \in todo[n] : linked'[c] = linked[c]
    PROVE  Visits(n)'
BY DEF Visits
-----------------------------------------------------------------------------
(* Steps by what they change *)

\* A component moves on, and frames may leave its queues in order; nothing it sent, no
\* link and no consumer is concerned.
LEMMA OwnStep ==
    ASSUME FlowInv, NEW n \in Node, TypeOK', Placed(n)', Ordered(n)',
           UNCHANGED << linked, todo, bad, sent >>,
           \A m \in Node \ {n} :
               /\ pc'[m] = pc[m] /\ current'[m] = current[m] /\ position'[m] = position[m]
               /\ mFrameQueue'[m] = mFrameQueue[m] /\ delayQueue'[m] = delayQueue[m]
               /\ accepted'[m] = accepted[m],
           accepted'[n] = accepted[n] \/ accepted'[n] = << >>
    PROVE  FlowInv'
<1>1. ASSUME NEW m \in Node PROVE (Placed(m) /\ Visits(m) /\ Ordered(m))'
    <2>1. Placed(m) /\ Visits(m) /\ Ordered(m)
        BY DEF FlowInv
    <2>2. Visits(m)'
        BY <2>1, StaysVisiting
    <2>3. CASE m = n
        BY <2>2, <2>3
    <2>4. CASE m # n
        BY <2>1, <2>2, <2>4, StaysPlaced, StaysOrdered
    <2>5. QED
        BY <2>3, <2>4
<1>2. ASSUME NEW c \in Fed PROVE GapFree(c)'
    <2>1. GapFree(c) /\ c \in Node
        BY FedFacts DEF FlowInv
    <2>2. CASE accepted'[c] = accepted[c]
        BY <2>1, <2>2, StaysGapFree
    <2>3. CASE accepted'[c] = << >>
        <3>1. PICK i \in Nat : i + Len(accepted[c]) <= Offered(c)
            BY <2>1 DEF GapFree
        <3>2. Len(accepted[c]) \in Nat /\ Len(sent[ProviderOf[c]]) \in Nat
            BY FedFacts, TypeFacts DEF FlowInv, Ints
        <3>3. Offered(c) \in Nat
            <4>1. Offered(c) \in {Len(sent[ProviderOf[c]]), Len(sent[ProviderOf[c]]) - 1}
                <5>1. CASE c \in todo[ProviderOf[c]]
                    BY <5>1 DEF Offered
                <5>2. CASE c \notin todo[ProviderOf[c]]
                    BY <3>2, <5>2 DEF Offered
                <5>3. QED
                    BY <5>1, <5>2
            <4>2. QED
                BY <3>1, <3>2, <4>1
        <3>4. Offered(c)' = Offered(c)
            BY DEF Offered
        <3>5. Len(<< >>) = 0 /\ 1 .. 0 = {}
            BY EmptyIsTyped
        <3> DEFINE j == Offered(c)
        <3>6. /\ j \in Nat /\ j + Len(accepted'[c]) <= Offered(c)' /\ j + Len(accepted'[c]) = Offered(c)'
              /\ \A k \in 1 .. Len(accepted'[c]) : accepted'[c][k] = sent'[ProviderOf[c]][j + k]
            BY <2>3, <3>3, <3>4, <3>5
        <3> HIDE DEF j
        <3>7. QED
            BY <3>6 DEF GapFree
    <2>4. QED
        BY <2>1, <2>2, <2>3
<1>3. QED
    BY <1>1, <1>2 DEF FlowInv

\* A link that is not about to be used goes, and is no longer on a list.
LEMMA UnlinkStep ==
    ASSUME FlowInv, NEW c \in Node, TypeOK', \A m \in Node : Placed(m)',
           linked' = [linked EXCEPT ![c] = FALSE], \A m \in Node : c \notin todo[m],
           UNCHANGED << queues, todo, sent >>,
           \A m \in Node : bad'[m] = bad[m] \/ bad'[m] = bad[m] \ {c}
    PROVE  FlowInv'
<1>1. linked \in [Node -> BOOLEAN] /\ linked'[c] = FALSE /\ \A d \in Node \ {c} : linked'[d] = linked[d]
    BY DEF FlowInv, TypeOK
<1>2. ASSUME NEW m \in Node PROVE (Placed(m) /\ Visits(m) /\ Ordered(m))'
    <2>1. Visits(m) /\ Ordered(m) /\ todo[m] \subseteq Node
        BY DEF FlowInv, TypeOK
    <2>2. Ordered(m)'
        BY <2>1, StaysOrdered DEF queues
    <2>3. Visits(m)'
        BY <1>1, <2>1 DEF Visits
    <2>4. QED
        BY <2>2, <2>3
<1>3. ASSUME NEW d \in Fed PROVE GapFree(d)'
    <2>1. GapFree(d) /\ d \in Node /\ ProviderOf[d] \in Node
        BY FedFacts DEF FlowInv
    <2>2. linked'[d] /\ d \notin bad'[ProviderOf[d]] => linked[d] /\ d \notin bad[ProviderOf[d]]
        BY <1>1, <2>1
    <2>3. QED
        BY <2>1, <2>2, StaysGapFree DEF queues
<1>4. QED
    BY <1>2, <1>3 DEF FlowInv

\* A frame goes round: it is the newest of what was sent, and every linked consumer is
\* offered it.
LEMMA SendStep ==
    ASSUME FlowInv, NEW n \in Node, NEW f \in Frame, Distribute(n, f), Ordered(n)',
           pc[n] \notin Waiting \cup {"offer", "dropBad"},
           mFrameQueue' \in FrameSeq, delayQueue' \in FrameSeq, position' \in [Node -> Nat],
           Len(mFrameQueue'[n]) <= MaxQueueSize, position'[n] <= Len(mFrameQueue'[n]),
           \A m \in Node \ {n} :
               /\ position'[m] = position[m] /\ mFrameQueue'[m] = mFrameQueue[m]
               /\ delayQueue'[m] = delayQueue[m],
           Kind[n] \in Locking => mFrameQueue'[n] # << >>,
           Kind[n] \notin Locking => position'[n] = 0,
           Kind[n] # "delay" => delayQueue'[n] = << >>,
           Kind[n] = "source" => mFrameQueue'[n] = << >>
    PROVE  FlowInv'
<1> USE DEF Distribute
<1>1. /\ TypeOK /\ Placed(n)
      /\ sent[n] \in Seq(Frame) /\ sent \in [Node -> Seq(Frame)] /\ pc \in [Node -> Label]
      /\ current \in [Node -> Frame \cup {None}] /\ todo \in [Node -> SUBSET Node]
      /\ mState \in [Node -> {"wait", "ready", "ended"}]
    BY DEF FlowInv, TypeOK, FrameSeq
<1>2. todo[n] = {} /\ bad[n] = {}
    BY <1>1 DEF Placed
<1>3. Append(sent[n], f) \in Seq(Frame) /\ Longer(Append(sent[n], f), sent[n], f) /\ Len(sent[n]) \in Nat
    BY <1>1, AppendIsLonger, TypedIsTyped
<1>4. /\ sent' \in FrameSeq /\ Longer(sent'[n], sent[n], f)
      /\ \A m \in Node \ {n} : sent'[m] = sent[m]
    BY <1>1, <1>3 DEF FrameSeq
<1>5. /\ pc' \in [Node -> Label] /\ pc'[n] = "offer" /\ \A m \in Node \ {n} : pc'[m] = pc[m]
    BY <1>1 DEF Goto, Label
<1>6. /\ current' \in [Node -> Frame \cup {None}] /\ current'[n] = f
      /\ \A m \in Node \ {n} : current'[m] = current[m]
    BY <1>1
<1>7. /\ todo' \in [Node -> SUBSET Node] /\ todo'[n] = Consumers(n)
      /\ \A m \in Node \ {n} : todo'[m] = todo[m]
    BY <1>1 DEF Consumers
<1>8. mState' \in [Node -> {"wait", "ready", "ended"}]
    BY <1>1
<1>9. TypeOK'
    <2>1. mStop' = mStop /\ linked' = linked /\ bad' = bad /\ accepted' = accepted
        OBVIOUS
    <2>2. \A m \in Node : Len(mFrameQueue'[m]) <= MaxQueueSize /\ position'[m] <= Len(mFrameQueue'[m])
        BY <1>1 DEF TypeOK
    <2>3. QED
        BY <1>1, <1>4, <1>5, <1>6, <1>7, <1>8, <2>1, <2>2 DEF TypeOK
<1>10. Placed(n)'
    <2>1. Len(sent'[n]) = Len(sent[n]) + 1 /\ sent'[n][Len(sent[n]) + 1] = f
        BY <1>4 DEF Longer
    <2>2. sent'[n] # << >>
        BY <1>3, <2>1, EmptyIsTyped
    <2>3. current'[n] = sent'[n][Len(sent'[n])]
        BY <1>6, <2>1
    <2>4. QED
        BY <1>5, <2>2, <2>3 DEF Placed, Waiting, Passing
<1>11. Visits(n)'
    BY <1>2, <1>7 DEF Visits, Consumers
<1>12. ASSUME NEW m \in Node PROVE (Placed(m) /\ Visits(m) /\ Ordered(m))'
    <2>1. Placed(m) /\ Visits(m) /\ Ordered(m)
        BY DEF FlowInv
    <2>2. CASE m = n
        BY <1>10, <1>11, <2>2
    <2>3. CASE m # n
        <3>1. Placed(m)'
            BY <1>4, <1>5, <1>6, <1>7, <2>1, <2>3, StaysPlaced
        <3>2. Visits(m)'
            BY <1>7, <2>1, <2>3, StaysVisiting
        <3>3. Ordered(m)'
            BY <1>4, <2>1, <2>3, StaysOrdered
        <3>4. QED
            BY <3>1, <3>2, <3>3
    <2>4. QED
        BY <2>2, <2>3
<1>13. ASSUME NEW c \in Fed PROVE GapFree(c)'
    <2>1. GapFree(c) /\ c \in Node /\ ProviderOf[c] \in Node
        BY FedFacts DEF FlowInv
    <2>2. CASE ProviderOf[c] # n
        BY <1>4, <1>7, <2>1, <2>2, StaysGapFree
    <2>3. CASE ProviderOf[c] = n
        <3>1. PICK i \in Nat :
                /\ i + Len(accepted[c]) <= Offered(c)
                /\ \A k \in 1 .. Len(accepted[c]) : accepted[c][k] = sent[n][i + k]
                /\ linked[c] /\ c \notin bad[n] => i + Len(accepted[c]) = Offered(c)
            BY <2>1, <2>3 DEF GapFree
        <3>2. Offered(c) = Len(sent[n])
            <4>1. c \notin todo[ProviderOf[c]]
                BY <1>2, <2>3
            <4>2. QED
                BY <1>3, <2>3, <4>1 DEF Offered
        <3>3. Offered(c)' = IF linked[c] THEN Len(sent[n]) ELSE Len(sent[n]) + 1
            <4>1. c \in todo'[n] <=> linked[c]
                BY <1>7, <2>1, <2>3 DEF Consumers
            <4>2. Len(sent'[n]) = Len(sent[n]) + 1
                BY <1>4 DEF Longer
            <4>3. Offered(c)' = Len(sent'[n]) - (IF c \in todo'[n] THEN 1 ELSE 0)
                BY <2>3 DEF Offered
            <4>4. CASE linked[c]
                <5>1. c \in todo'[n]
                    BY <4>1, <4>4
                <5>2. Offered(c)' = Len(sent[n])
                    BY <1>3, <4>2, <4>3, <5>1
                <5>3. QED
                    BY <4>4, <5>2
            <4>5. CASE ~linked[c]
                <5>1. c \notin todo'[n]
                    BY <4>1, <4>5
                <5>2. Offered(c)' = Len(sent[n]) + 1
                    BY <1>3, <4>2, <4>3, <5>1
                <5>3. QED
                    BY <4>5, <5>2
            <4>6. QED
                BY <4>4, <4>5
        <3>4. Len(accepted[c]) \in Nat
            BY <1>1, <2>1, TypeFacts DEF Ints
        <3>5. /\ i + Len(accepted'[c]) <= Offered(c)'
              /\ linked'[c] /\ c \notin bad'[n] => i + Len(accepted'[c]) = Offered(c)'
            BY <1>2, <1>3, <3>1, <3>2, <3>3, <3>4
        <3>6. ASSUME NEW k \in 1 .. Len(accepted[c]) PROVE accepted'[c][k] = sent'[n][i + k]
            <4>1. i + k \in 1 .. Len(sent[n])
                BY <1>3, <3>1, <3>2, <3>4
            <4>2. QED
                BY <1>4, <3>1, <4>1 DEF Longer
        <3>7. QED
            BY <2>3, <3>5, <3>6 DEF GapFree
    <2>4. QED
        BY <2>2, <2>3
<1>14. QED
    BY <1>9, <1>12, <1>13 DEF FlowInv
\* A consumer takes the frame, or refuses it because its queue is full.
LEMMA QueueStep ==
    ASSUME FlowInv, NEW n \in Node, NEW c \in Node, QueueFrame(n, c)
    PROVE  FlowInv'
<1> USE DEF QueueFrame
<1> DEFINE e == current[n]
<1>1. /\ TypeOK /\ Placed(n) /\ Visits(n) /\ Ordered(n) /\ Ordered(c) /\ Placed(c)
      /\ pc[n] = "offer" /\ c \in todo[n] /\ ~QueueLocked(c)
    BY DEF FlowInv
<1>2. /\ ProviderOf[c] = n /\ c \in Fed /\ linked[c] /\ c \notin bad[n] /\ c # n /\ Kind[c] # "source"
    <2>1. ProviderOf[c] = n /\ linked[c] /\ c \notin bad[n]
        BY <1>1 DEF Visits
    <2>2. c \in Fed
        BY <2>1, NodesAssumption DEF Fed
    <2>3. QED
        BY <2>1, <2>2, FedFacts
<1>3. /\ sent[n] \in Seq(Frame) /\ accepted[c] \in Seq(Frame) /\ mFrameQueue[c] \in Seq(Frame)
      /\ Ints(sent[n]) /\ Ints(accepted[c]) /\ Ints(mFrameQueue[c])
      /\ Ints(sent[c]) /\ Ints(delayQueue[c])
    BY <1>1, TypeFacts
<1>4. sent[n] # << >> /\ e = sent[n][Len(sent[n])]
    BY <1>1 DEF Placed
<1>5. Len(sent[n]) \in Nat /\ Len(sent[n]) > 0 /\ e \in Frame /\ e \in Int
    <2>1. Len(sent[n]) \in Nat /\ Len(sent[n]) > 0
        BY <1>3, <1>4, TailIsShorter
    <2>2. Len(sent[n]) \in 1 .. Len(sent[n])
        BY <2>1
    <2>3. QED
        BY <1>3, <1>4, <2>1, <2>2, TypedIsTyped DEF Ints
<1>6. todo' = [todo EXCEPT ![n] = @ \ {c}] /\ todo' \in [Node -> SUBSET Node] /\ todo'[n] = todo[n] \ {c}
          /\ \A m \in Node \ {n} : todo'[m] = todo[m]
    BY <1>1 DEF TypeOK
<1>7. /\ UNCHANGED << pc, mStop, mState, linked, position, delayQueue, current, sent >>
    OBVIOUS
<1>8. PICK i \in Nat :
        /\ i + Len(accepted[c]) = Len(sent[n]) - 1
        /\ \A k \in 1 .. Len(accepted[c]) : accepted[c][k] = sent[n][i + k]
    <2>1. GapFree(c)
        BY <1>2 DEF FlowInv
    <2>2. Offered(c) = Len(sent[n]) - 1
        BY <1>1, <1>2 DEF Offered
    <2>3. QED
        BY <1>2, <2>1, <2>2 DEF GapFree
<1>9. Len(accepted[c]) \in Nat
    BY <1>3 DEF Ints
\* The frame is newer than all the consumer has.
<1>10. \A k \in 1 .. Len(accepted[c]) : accepted[c][k] < e
    <2>1. Increasing(sent[n])
        BY <1>1 DEF Ordered, Sorted
    <2>2. ASSUME NEW k \in 1 .. Len(accepted[c]) PROVE accepted[c][k] < e
        <3>1. i + k \in 1 .. Len(sent[n]) /\ Len(sent[n]) \in 1 .. Len(sent[n]) /\ i + k < Len(sent[n])
            BY <1>5, <1>8, <1>9
        <3>2. sent[n][i + k] < sent[n][Len(sent[n])]
            BY <2>1, <3>1 DEF Increasing
        <3>3. QED
            BY <1>4, <1>8, <3>2
    <2>3. QED
        BY <2>2
<1>11. ASSUME NEW m \in Node \ {n}, m # c PROVE (Placed(m) /\ Visits(m) /\ Ordered(m))'
    <2>1. Placed(m) /\ Visits(m) /\ Ordered(m)
        BY DEF FlowInv
    <2>2. mFrameQueue'[m] = mFrameQueue[m] /\ accepted'[m] = accepted[m] /\ bad'[m] = bad[m]
        BY <1>1, <1>11, SMTT(30) DEF TypeOK, FrameSeq
    <2>3. QED
        BY <1>6, <1>7, <2>1, <2>2, StaysPlaced, StaysVisiting, StaysOrdered
<1>12. ASSUME NEW d \in Fed, d # c PROVE GapFree(d)'
    <2>1. GapFree(d) /\ d \in Node /\ ProviderOf[d] \in Node
        BY FedFacts DEF FlowInv
    <2>2. accepted'[d] = accepted[d]
        BY <1>1, <1>12, <2>1 DEF TypeOK, FrameSeq
    <2>3. d \in todo'[ProviderOf[d]] <=> d \in todo[ProviderOf[d]]
        BY <1>6, <1>12, <2>1
    <2>4. d \in bad'[ProviderOf[d]] <=> d \in bad[ProviderOf[d]]
        <3>1. bad' = bad \/ bad' = [bad EXCEPT ![n] = @ \cup {c}]
            OBVIOUS
        <3>2. bad \in [Node -> SUBSET Node]
            BY <1>1 DEF TypeOK
        <3>3. QED
            BY <1>12, <2>1, <3>1, <3>2
    <2>5. QED
        BY <1>7, <2>1, <2>2, <2>3, <2>4, StaysGapFree
<1>13. Offered(c)' = Len(sent[n])
    <2>1. c \notin todo'[n]
        BY <1>6
    <2>2. QED
        BY <1>2, <1>5, <1>7, <2>1 DEF Offered
<1> HIDE DEF e
<1>14. CASE Len(mFrameQueue[c]) >= MaxQueueSize
    <2>1. /\ bad' = [bad EXCEPT ![n] = @ \cup {c}] /\ UNCHANGED << mFrameQueue, accepted >>
        BY <1>14
    <2>2. bad' \in [Node -> SUBSET Node] /\ bad'[n] = bad[n] \cup {c} /\ \A m \in Node \ {n} : bad'[m] = bad[m]
        BY <1>1, <2>1 DEF TypeOK
    <2>3. TypeOK'
        BY <1>1, <1>6, <1>7, <2>1, <2>2 DEF TypeOK
    <2>4. Placed(n)' /\ Visits(n)' /\ Ordered(n)'
        <3>1. Placed(n)'
            BY <1>1, <1>7, <2>1 DEF Placed
        <3>2. Visits(n)'
            BY <1>1, <1>2, <1>6, <1>7, <2>2 DEF Visits
        <3>3. QED
            BY <1>1, <1>7, <2>1, <3>1, <3>2, StaysOrdered
    <2>5. Placed(c)' /\ Visits(c)' /\ Ordered(c)'
        <3>1. Visits(c)
            BY DEF FlowInv
        <3>2. QED
            BY <1>1, <1>2, <1>6, <1>7, <2>1, <2>2, <3>1, StaysPlaced, StaysVisiting, StaysOrdered
    <2>6. GapFree(c)'
        <3>1. i + Len(accepted'[c]) <= Offered(c)'
            BY <1>5, <1>8, <1>9, <1>13, <2>1
        <3>2. c \in bad'[n]
            BY <2>2
        <3>3. QED
            BY <1>2, <1>7, <1>8, <2>1, <3>1, <3>2 DEF GapFree
    <2>7. QED
        BY <1>11, <1>12, <2>3, <2>4, <2>5, <2>6 DEF FlowInv
<1>15. CASE ~(Len(mFrameQueue[c]) >= MaxQueueSize)
    <2>1. /\ mFrameQueue' = [mFrameQueue EXCEPT ![c] = Append(@, e)]
          /\ accepted' = [accepted EXCEPT ![c] = Append(@, e)] /\ UNCHANGED bad
        BY <1>15 DEF e
    <2>2. /\ Append(mFrameQueue[c], e) \in Seq(Frame) /\ Longer(Append(mFrameQueue[c], e), mFrameQueue[c], e)
          /\ Append(accepted[c], e) \in Seq(Frame) /\ Longer(Append(accepted[c], e), accepted[c], e)
        BY <1>3, <1>5, AppendIsLonger
    <2>3. /\ mFrameQueue' \in FrameSeq /\ accepted' \in FrameSeq
          /\ Longer(mFrameQueue'[c], mFrameQueue[c], e) /\ Longer(accepted'[c], accepted[c], e)
          /\ mFrameQueue'[n] = mFrameQueue[n] /\ accepted'[n] = accepted[n]
          /\ \A m \in Node \ {c} : mFrameQueue'[m] = mFrameQueue[m]
        BY <1>1, <1>2, <2>1, <2>2 DEF TypeOK, FrameSeq
    <2>4. Len(mFrameQueue[c]) \in Nat /\ Len(mFrameQueue'[c]) = Len(mFrameQueue[c]) + 1
        BY <1>3, <2>3 DEF Ints, Longer
    <2>5. TypeOK'
        <3>1. ASSUME NEW m \in Node PROVE Len(mFrameQueue'[m]) <= MaxQueueSize /\ position[m] <= Len(mFrameQueue'[m])
            <4>1. Len(mFrameQueue[m]) <= MaxQueueSize /\ position[m] <= Len(mFrameQueue[m]) /\ position[m] \in Nat
                BY <1>1 DEF TypeOK
            <4>2. CASE m = c
                BY <1>15, <2>4, <4>1, <4>2, BoundAssumption
            <4>3. CASE m # c
                BY <2>3, <4>1, <4>3
            <4>4. QED
                BY <4>2, <4>3
        <3>2. QED
            BY <1>1, <1>6, <1>7, <2>1, <2>3, <3>1 DEF TypeOK
    <2>6. Placed(n)' /\ Visits(n)' /\ Ordered(n)'
        <3>1. Placed(n)'
            BY <1>1, <1>7, <2>1, <2>3 DEF Placed
        <3>2. Visits(n)'
            BY <1>1, <1>6, <1>7, <2>1 DEF Visits
        <3>3. QED
            BY <1>1, <1>7, <2>3, <3>1, <3>2, StaysOrdered
    <2>7. Placed(c)'
        <3>1. mFrameQueue'[c] # << >>
            BY <2>4, EmptyIsTyped
        <3>2. todo'[c] = todo[c] /\ bad'[c] = bad[c]
            BY <1>2, <1>6, <2>1
        <3>3. QED
            BY <1>1, <1>2, <1>7, <3>1, <3>2 DEF Placed
    <2>8. Visits(c)'
        <3>1. Visits(c)
            BY DEF FlowInv
        <3>2. QED
            BY <1>2, <1>6, <1>7, <2>1, <3>1, StaysVisiting
    <2>9. Ordered(c)'
        <3>1. /\ Sorted(sent[c], delayQueue[c], mFrameQueue[c], position[c])
              /\ Within(delayQueue[c], accepted[c]) /\ Within(mFrameQueue[c], accepted[c])
              /\ Within(sent[c], accepted[c])
            BY <1>1, <1>2 DEF Ordered
        <3>2. /\ \A k \in 1 .. Len(sent[c]) : sent[c][k] < e
              /\ \A k \in 1 .. Len(delayQueue[c]) : delayQueue[c][k] < e
              /\ \A k \in 1 .. Len(mFrameQueue[c]) : mFrameQueue[c][k] < e
            BY <1>10, <3>1 DEF Within
        <3>3. Ints(mFrameQueue'[c])
            BY <2>3, FramesAreInts DEF FrameSeq
        <3>4. Sorted(sent[c], delayQueue[c], mFrameQueue'[c], position[c])
            BY <1>3, <1>5, <2>3, <3>1, <3>2, <3>3, QueueSorts
        <3>5. Within(delayQueue[c], accepted'[c]) /\ Within(sent[c], accepted'[c]) /\ Within(mFrameQueue[c], accepted'[c])
            BY <1>3, <2>3, <3>1, WithinLonger
        <3>6. Within(mFrameQueue'[c], accepted'[c])
            <4>1. Len(accepted[c]) + 1 \in 1 .. Len(accepted'[c]) /\ accepted'[c][Len(accepted[c]) + 1] = e
                BY <1>9, <2>3 DEF Longer
            <4>2. QED
                BY <1>3, <2>3, <3>5, <4>1, LongerWithin
        <3>7. QED
            BY <1>2, <1>7, <3>4, <3>5, <3>6 DEF Ordered, Sorted, Increasing, Before, Within
    <2>10. GapFree(c)'
        <3>1. Len(accepted'[c]) = Len(accepted[c]) + 1
            BY <2>3 DEF Longer
        <3>2. i + Len(accepted'[c]) = Offered(c)' /\ i + Len(accepted'[c]) <= Offered(c)'
            BY <1>5, <1>8, <1>9, <1>13, <3>1
        <3>3. ASSUME NEW k \in 1 .. Len(accepted'[c]) PROVE accepted'[c][k] = sent[n][i + k]
            <4>1. CASE k = Len(accepted[c]) + 1
                <5>1. i + k = Len(sent[n])
                    <6>1. i + Len(accepted[c]) = Len(sent[n]) - 1
                        BY <1>8
                    <6>2. Len(sent[n]) \in Nat
                        BY <1>5
                    <6>3. i + (Len(accepted[c]) + 1) = Len(sent[n])
                        BY <1>9, <6>1, <6>2
                    <6>4. QED
                        BY <4>1, <6>3
                <5>2. QED
                    BY <1>4, <2>3, <4>1, <5>1 DEF Longer
            <4>2. CASE k # Len(accepted[c]) + 1
                <5>1. k \in 1 .. Len(accepted[c])
                    BY <1>9, <3>1, <4>2
                <5>2. QED
                    BY <1>8, <2>3, <5>1 DEF Longer
            <4>3. QED
                BY <4>1, <4>2
        <3>4. QED
            BY <1>2, <1>7, <3>2, <3>3 DEF GapFree
    <2>11. QED
        BY <1>11, <1>12, <2>5, <2>6, <2>7, <2>8, <2>9, <2>10 DEF FlowInv
<1>16. QED
    BY <1>14, <1>15
-----------------------------------------------------------------------------
(* The steps that only move on *)

LEMMA MoveStep ==
    ASSUME FlowInv, NEW n \in Node, NEW l \in Label, Goto(n, l), Placed(n)',
           UNCHANGED << linked, queues, todo, bad, sent >>,
           mStop' \in [Node -> BOOLEAN], mState' \in [Node -> {"wait", "ready", "ended"}],
           current' \in [Node -> Frame \cup {None}], \A m \in Node \ {n} : current'[m] = current[m]
    PROVE  FlowInv'
<1>1. pc' \in [Node -> Label] /\ \A m \in Node \ {n} : pc'[m] = pc[m]
    BY DEF FlowInv, TypeOK, Goto
<1>2. UNCHANGED << mFrameQueue, position, delayQueue, accepted >>
    BY DEF queues
<1>3. TypeOK'
    BY <1>1, <1>2 DEF FlowInv, TypeOK
<1>4. Ordered(n)'
    BY <1>2, StaysOrdered DEF FlowInv
<1>5. QED
    BY <1>1, <1>2, <1>3, <1>4, OwnStep

\* What is known of a component at any place.
LEMMA Known ==
    ASSUME FlowInv, NEW n \in Node
    PROVE  /\ TypeOK /\ Placed(n) /\ Ordered(n) /\ Kind[n] \in LoopKind
           /\ pc \in [Node -> Label] /\ mStop \in [Node -> BOOLEAN]
           /\ mState \in [Node -> {"wait", "ready", "ended"}] /\ current \in [Node -> Frame \cup {None}]
           /\ mFrameQueue \in FrameSeq /\ delayQueue \in FrameSeq /\ accepted \in FrameSeq
           /\ position \in [Node -> Nat]
BY TreeAssumption DEF FlowInv, TypeOK

LEMMA WaitReadyStep == ASSUME FlowInv, NEW n \in Node, WaitReady(n) PROVE FlowInv'
<1>1. /\ Placed(n) /\ pc \in [Node -> Label] /\ mStop \in [Node -> BOOLEAN]
      /\ mState \in [Node -> {"wait", "ready", "ended"}] /\ current \in [Node -> Frame \cup {None}]
    BY Known
<1>2. PICK l \in {"end", "loop", "waitWait"} : Goto(n, l)
    BY DEF WaitReady
<1>3. l \in Label /\ pc'[n] = l
    BY <1>1, <1>2 DEF Label, Goto
<1>4. Placed(n)'
    <2>1. pc[n] = "waitReady" /\ UNCHANGED << mFrameQueue, position, delayQueue, todo, bad, sent >>
        BY DEF WaitReady, queues, offers
    <2>2. QED
        BY <1>1, <1>2, <1>3, <2>1 DEF Placed, Waiting, Passing, Locking
<1>5. /\ UNCHANGED << linked, queues, todo, bad, sent >>
      /\ mStop' \in [Node -> BOOLEAN] /\ mState' \in [Node -> {"wait", "ready", "ended"}]
      /\ current' = current
    BY <1>1 DEF WaitReady, offers
<1>6. QED
    BY <1>1, <1>2, <1>3, <1>4, <1>5, MoveStep

LEMMA WaitWaitStep == ASSUME FlowInv, NEW n \in Node, WaitWait(n) PROVE FlowInv'
<1>1. /\ Placed(n) /\ pc \in [Node -> Label] /\ mStop \in [Node -> BOOLEAN]
      /\ mState \in [Node -> {"wait", "ready", "ended"}] /\ current \in [Node -> Frame \cup {None}]
    BY Known
<1>2. PICK l \in {"clear", "end"} : Goto(n, l)
    BY DEF WaitWait
<1>3. l \in Label /\ pc'[n] = l
    BY <1>1, <1>2 DEF Label, Goto
<1>4. Placed(n)'
    <2>1. pc[n] = "waitWait" /\ UNCHANGED << mFrameQueue, position, delayQueue, todo, bad, sent >>
        BY DEF WaitWait, queues, offers
    <2>2. QED
        BY <1>1, <1>2, <1>3, <2>1 DEF Placed, Waiting, Passing, Locking
<1>5. /\ UNCHANGED << linked, queues, todo, bad, sent >>
      /\ mStop' \in [Node -> BOOLEAN] /\ mState' \in [Node -> {"wait", "ready", "ended"}]
      /\ current' = current
    BY <1>1 DEF WaitWait, offers
<1>6. QED
    BY <1>1, <1>2, <1>3, <1>4, <1>5, MoveStep

LEMMA ExitLoopStep == ASSUME FlowInv, NEW n \in Node, ExitLoop(n) PROVE FlowInv'
<1>1. /\ Placed(n) /\ pc \in [Node -> Label] /\ mStop \in [Node -> BOOLEAN]
      /\ mState \in [Node -> {"wait", "ready", "ended"}] /\ current \in [Node -> Frame \cup {None}]
    BY Known
<1>2. PICK l \in {"end"} : Goto(n, l)
    BY DEF ExitLoop
<1>3. l \in Label /\ pc'[n] = l
    BY <1>1, <1>2 DEF Label, Goto
<1>4. Placed(n)'
    <2>1. pc[n] = "loop" /\ UNCHANGED << mFrameQueue, position, delayQueue, todo, bad, sent >>
        BY DEF ExitLoop, queues, offers
    <2>2. QED
        BY <1>1, <1>2, <1>3, <2>1 DEF Placed, Waiting, Passing, Locking
<1>5. /\ UNCHANGED << linked, queues, todo, bad, sent >>
      /\ mStop' \in [Node -> BOOLEAN] /\ mState' \in [Node -> {"wait", "ready", "ended"}]
      /\ current' = current
    BY <1>1 DEF ExitLoop, offers
<1>6. QED
    BY <1>1, <1>2, <1>3, <1>4, <1>5, MoveStep

LEMMA LockQueueStep == ASSUME FlowInv, NEW n \in Node, LockQueue(n) PROVE FlowInv'
<1>1. /\ Placed(n) /\ pc \in [Node -> Label] /\ mStop \in [Node -> BOOLEAN]
      /\ mState \in [Node -> {"wait", "ready", "ended"}] /\ current \in [Node -> Frame \cup {None}]
    BY Known
<1>2. PICK l \in {"check", "batch"} : Goto(n, l) /\ (l = "batch" => mFrameQueue[n] # << >> /\ Kind[n] \in Locking)
    BY DEF LockQueue, InLoop, Locking
<1>3. l \in Label /\ pc'[n] = l
    BY <1>1, <1>2 DEF Label, Goto
<1>4. Placed(n)'
    <2>1. pc[n] = "loop" /\ UNCHANGED << mFrameQueue, position, delayQueue, todo, bad, sent >>
        BY DEF LockQueue, InLoop, queues, offers
    <2>2. QED
        BY <1>1, <1>2, <1>3, <2>1 DEF Placed, Waiting, Passing, Locking
<1>5. /\ UNCHANGED << linked, queues, todo, bad, sent >>
      /\ mStop' \in [Node -> BOOLEAN] /\ mState' \in [Node -> {"wait", "ready", "ended"}]
      /\ current' = current
    BY <1>1 DEF LockQueue, offers
<1>6. QED
    BY <1>1, <1>2, <1>3, <1>4, <1>5, MoveStep

LEMMA EndOfferStep == ASSUME FlowInv, NEW n \in Node, EndOffer(n) PROVE FlowInv'
<1>1. /\ Placed(n) /\ pc \in [Node -> Label] /\ mStop \in [Node -> BOOLEAN]
      /\ mState \in [Node -> {"wait", "ready", "ended"}] /\ current \in [Node -> Frame \cup {None}]
    BY Known
<1>2. PICK l \in {"dropBad"} : Goto(n, l)
    BY DEF EndOffer
<1>3. l \in Label /\ pc'[n] = l
    BY <1>1, <1>2 DEF Label, Goto
<1>4. Placed(n)'
    <2>1. pc[n] = "offer" /\ todo[n] = {} /\ UNCHANGED << mFrameQueue, position, delayQueue, todo, bad, sent >>
        BY DEF EndOffer, queues, offers
    <2>2. QED
        BY <1>1, <1>2, <1>3, <2>1 DEF Placed, Waiting, Passing, Locking
<1>5. /\ UNCHANGED << linked, queues, todo, bad, sent >>
      /\ mStop' \in [Node -> BOOLEAN] /\ mState' \in [Node -> {"wait", "ready", "ended"}]
      /\ current' = current
    BY <1>1 DEF EndOffer, offers
<1>6. QED
    BY <1>1, <1>2, <1>3, <1>4, <1>5, MoveStep

LEMMA KeepYoungStep == ASSUME FlowInv, NEW n \in Node, KeepYoung(n) PROVE FlowInv'
<1>1. /\ Placed(n) /\ pc \in [Node -> Label] /\ mStop \in [Node -> BOOLEAN]
      /\ mState \in [Node -> {"wait", "ready", "ended"}] /\ current \in [Node -> Frame \cup {None}]
    BY Known
<1>2. PICK l \in {"check"} : Goto(n, l)
    BY DEF KeepYoung
<1>3. l \in Label /\ pc'[n] = l
    BY <1>1, <1>2 DEF Label, Goto
<1>4. Placed(n)'
    <2>1. pc[n] = "release" /\ UNCHANGED << mFrameQueue, position, delayQueue, todo, bad, sent >>
        BY DEF KeepYoung, queues, offers
    <2>2. QED
        BY <1>1, <1>2, <1>3, <2>1 DEF Placed, Waiting, Passing, Locking
<1>5. /\ UNCHANGED << linked, queues, todo, bad, sent >>
      /\ mStop' \in [Node -> BOOLEAN] /\ mState' \in [Node -> {"wait", "ready", "ended"}]
      /\ current' = current
    BY <1>1 DEF KeepYoung, offers
<1>6. QED
    BY <1>1, <1>2, <1>3, <1>4, <1>5, MoveStep

LEMMA CheckProvidersStep == ASSUME FlowInv, NEW n \in Node, CheckProviders(n) PROVE FlowInv'
<1>1. /\ Placed(n) /\ pc \in [Node -> Label] /\ mStop \in [Node -> BOOLEAN]
      /\ mState \in [Node -> {"wait", "ready", "ended"}] /\ current \in [Node -> Frame \cup {None}]
    BY Known
<1>2. PICK l \in {"loop"} : Goto(n, l)
    BY DEF CheckProviders
<1>3. l \in Label /\ pc'[n] = l
    BY <1>1, <1>2 DEF Label, Goto
<1>4. Placed(n)'
    <2>1. pc[n] = "check" /\ UNCHANGED << mFrameQueue, position, delayQueue, todo, bad, sent >>
        BY DEF CheckProviders, queues, offers
    <2>2. QED
        BY <1>1, <1>2, <1>3, <2>1 DEF Placed, Waiting, Passing, Locking
<1>5. /\ UNCHANGED << linked, queues, todo, bad, sent >>
      /\ mStop' \in [Node -> BOOLEAN] /\ mState' \in [Node -> {"wait", "ready", "ended"}]
      /\ current' = current
    BY <1>1 DEF CheckProviders, offers
<1>6. QED
    BY <1>1, <1>2, <1>3, <1>4, <1>5, MoveStep

LEMMA SetEndedStep == ASSUME FlowInv, NEW n \in Node, SetEnded(n) PROVE FlowInv'
<1>1. /\ Placed(n) /\ pc \in [Node -> Label] /\ mStop \in [Node -> BOOLEAN]
      /\ mState \in [Node -> {"wait", "ready", "ended"}] /\ current \in [Node -> Frame \cup {None}]
    BY Known
<1>2. PICK l \in {"unlinkConsumers"} : Goto(n, l)
    BY DEF SetEnded
<1>3. l \in Label /\ pc'[n] = l
    BY <1>1, <1>2 DEF Label, Goto
<1>4. Placed(n)'
    <2>1. pc[n] = "end" /\ UNCHANGED << mFrameQueue, position, delayQueue, todo, bad, sent >>
        BY DEF SetEnded, queues, offers
    <2>2. QED
        BY <1>1, <1>2, <1>3, <2>1 DEF Placed, Waiting, Passing, Locking
<1>5. /\ UNCHANGED << linked, queues, todo, bad, sent >>
      /\ mStop' \in [Node -> BOOLEAN] /\ mState' \in [Node -> {"wait", "ready", "ended"}]
      /\ current' = current
    BY <1>1 DEF SetEnded, offers
<1>6. QED
    BY <1>1, <1>2, <1>3, <1>4, <1>5, MoveStep

LEMMA EndProviderCleanupStep == ASSUME FlowInv, NEW n \in Node, EndProviderCleanup(n) PROVE FlowInv'
<1>1. /\ Placed(n) /\ pc \in [Node -> Label] /\ mStop \in [Node -> BOOLEAN]
      /\ mState \in [Node -> {"wait", "ready", "ended"}] /\ current \in [Node -> Frame \cup {None}]
    BY Known
<1>2. PICK l \in {"ended", "unlinkProvider"} : Goto(n, l)
    BY DEF EndProviderCleanup
<1>3. l \in Label /\ pc'[n] = l
    BY <1>1, <1>2 DEF Label, Goto
<1>4. Placed(n)'
    <2>1. pc[n] = "unlinkConsumers" /\ UNCHANGED << mFrameQueue, position, delayQueue, todo, bad, sent >>
        BY DEF EndProviderCleanup, queues, offers
    <2>2. QED
        BY <1>1, <1>2, <1>3, <2>1 DEF Placed, Waiting, Passing, Locking
<1>5. /\ UNCHANGED << linked, queues, todo, bad, sent >>
      /\ mStop' \in [Node -> BOOLEAN] /\ mState' \in [Node -> {"wait", "ready", "ended"}]
      /\ current' = current
    BY <1>1 DEF EndProviderCleanup, offers
<1>6. QED
    BY <1>1, <1>2, <1>3, <1>4, <1>5, MoveStep

LEMMA EndDistributeStep == ASSUME FlowInv, NEW n \in Node, EndDistribute(n) PROVE FlowInv'
<1> USE DEF EndDistribute
<1>1. /\ Placed(n) /\ pc \in [Node -> Label] /\ mStop \in [Node -> BOOLEAN] /\ Kind[n] \in LoopKind
      /\ mState \in [Node -> {"wait", "ready", "ended"}] /\ current \in [Node -> Frame \cup {None}]
    BY Known
<1>2. PICK l \in {"loop", "batch", "check", "release"} : Goto(n, l) /\ (l = "batch" <=> Kind[n] \in Locking)
    <2>1. \/ Kind[n] = "source" /\ AfterDistribute[Kind[n]] = "loop"
          \/ Kind[n] \in Locking /\ AfterDistribute[Kind[n]] = "batch"
          \/ Kind[n] = "paced" /\ AfterDistribute[Kind[n]] = "check"
          \/ Kind[n] = "delay" /\ AfterDistribute[Kind[n]] = "release"
        BY <1>1 DEF LoopKind, AfterDistribute, Locking
    <2>2. Goto(n, AfterDistribute[Kind[n]])
        OBVIOUS
    <2>3. QED
        BY <2>1, <2>2 DEF Locking
<1>3. l \in Label /\ pc'[n] = l
    BY <1>1, <1>2 DEF Label, Goto
<1>4. UNCHANGED << mFrameQueue, position, delayQueue, todo, bad, sent >>
    BY DEF queues
<1>5. Placed(n)'
    BY <1>1, <1>2, <1>3, <1>4 DEF Placed, Waiting, Passing, Locking
<1>6. current' \in [Node -> Frame \cup {None}] /\ \A m \in Node \ {n} : current'[m] = current[m]
    BY <1>1
<1>7. QED
    BY <1>1, <1>2, <1>3, <1>5, <1>6, MoveStep

LEMMA StopStep == ASSUME FlowInv, NEW n \in Node, Stop(n) PROVE FlowInv'
<1>1. /\ Placed(n) /\ mStop \in [Node -> BOOLEAN] /\ TypeOK /\ Ordered(n)
    BY Known
<1>2. /\ UNCHANGED << linked, todo, bad, sent, pc, current, mState >>
      /\ UNCHANGED << mFrameQueue, position, delayQueue, accepted >>
    BY DEF Stop, queues, offers
<1>3. mStop' \in [Node -> BOOLEAN]
    BY <1>1 DEF Stop
<1>4. TypeOK'
    BY <1>1, <1>2, <1>3 DEF TypeOK
<1>5. Placed(n)' /\ Ordered(n)'
    BY <1>1, <1>2, StaysPlaced, StaysOrdered
<1>6. QED
    BY <1>2, <1>4, <1>5, OwnStep

-----------------------------------------------------------------------------
(* The steps that end a link *)

LEMMA UnlinkConsumerStep ==
    ASSUME FlowInv, NEW n \in Node, NEW c \in Node, UnlinkConsumer(n, c) PROVE FlowInv'
<1> USE DEF UnlinkConsumer
<1>1. /\ UNCHANGED << pc, mStop, mState, sent, todo, bad, current >>
      /\ UNCHANGED << mFrameQueue, position, delayQueue, accepted >>
      /\ linked' = [linked EXCEPT ![c] = FALSE] /\ ProviderOf[c] = n /\ pc[n] = "unlinkConsumers"
    BY DEF queues, offers, Consumers
<1>2. ASSUME NEW m \in Node PROVE Placed(m)' /\ c \notin todo[m]
    <2>1. Placed(m) /\ Visits(m) /\ Placed(n)
        BY DEF FlowInv
    <2>2. Placed(m)'
        BY <1>1, <2>1, StaysPlaced
    <2>3. todo[n] = {}
        BY <1>1, <2>1 DEF Placed
    <2>4. QED
        BY <1>1, <2>1, <2>2, <2>3 DEF Visits
<1>3. TypeOK'
    BY <1>1 DEF FlowInv, TypeOK
<1>4. QED
    BY <1>1, <1>2, <1>3, UnlinkStep DEF queues

LEMMA DropBadStep ==
    ASSUME FlowInv, NEW n \in Node, NEW c \in Node, DropBad(n, c) PROVE FlowInv'
<1> USE DEF DropBad
<1>1. /\ UNCHANGED << pc, mStop, mState, sent, todo, current >>
      /\ UNCHANGED << mFrameQueue, position, delayQueue, accepted >>
      /\ linked' = [linked EXCEPT ![c] = FALSE] /\ pc[n] = "dropBad" /\ c \in bad[n]
      /\ bad' = [bad EXCEPT ![n] = @ \ {c}]
    BY DEF queues
<1>2. bad' \in [Node -> SUBSET Node] /\ bad'[n] = bad[n] \ {c} /\ \A m \in Node \ {n} : bad'[m] = bad[m]
    BY <1>1 DEF FlowInv, TypeOK
<1>3. ASSUME NEW m \in Node PROVE Placed(m)' /\ c \notin todo[m]
    <2>1. Placed(m) /\ Visits(m) /\ Placed(n) /\ Visits(n)
        BY DEF FlowInv
    <2>2. Placed(n)'
        BY <1>1, <2>1 DEF Placed
    <2>3. Placed(m)'
        BY <1>1, <1>2, <2>1, <2>2, StaysPlaced
    <2>4. todo[n] = {} /\ ProviderOf[c] = n
        BY <1>1, <2>1 DEF Placed, Visits
    <2>5. QED
        BY <2>1, <2>3, <2>4 DEF Visits
<1>4. TypeOK'
    BY <1>1, <1>2 DEF FlowInv, TypeOK
<1>5. \A m \in Node : bad'[m] = bad[m] \/ bad'[m] = bad[m] \ {c}
    BY <1>2
<1>6. QED
    BY <1>1, <1>3, <1>4, <1>5, UnlinkStep DEF queues

\* A consumer waits for a provider that is giving out a frame.
LEMMA UnlinkProviderStep == ASSUME FlowInv, NEW n \in Node, UnlinkProvider(n) PROVE FlowInv'
<1> USE DEF UnlinkProvider
<1>1. /\ UNCHANGED << mStop, mState, sent, todo, bad, current >>
      /\ UNCHANGED << mFrameQueue, position, delayQueue, accepted >>
      /\ linked' = [linked EXCEPT ![n] = FALSE] /\ pc[n] = "unlinkProvider"
      /\ linked[n] => ~ConsumersLocked(ProviderOf[n])
    BY DEF queues, offers
<1>2. pc' \in [Node -> Label] /\ pc'[n] = "clearQueue" /\ \A m \in Node \ {n} : pc'[m] = pc[m]
    BY DEF FlowInv, TypeOK, Goto, Label
<1>3. ASSUME NEW m \in Node PROVE Placed(m)' /\ n \notin todo[m]
    <2>1. Placed(m) /\ Visits(m) /\ Placed(n)
        BY DEF FlowInv
    <2>2. Placed(n)'
        BY <1>1, <1>2, <2>1 DEF Placed, Waiting, Passing
    <2>3. Placed(m)'
        BY <1>1, <1>2, <2>1, <2>2, StaysPlaced
    <2>4. n \notin todo[m]
        <3> SUFFICES ASSUME n \in todo[m] PROVE FALSE
            OBVIOUS
        <3>1. ProviderOf[n] = m /\ linked[n]
            BY <2>1 DEF Visits
        <3>2. pc[m] # "offer"
            BY <1>1, <3>1 DEF ConsumersLocked
        <3>3. QED
            BY <2>1, <3>2 DEF Placed
    <2>5. QED
        BY <2>3, <2>4
<1>4. TypeOK'
    BY <1>1, <1>2 DEF FlowInv, TypeOK
<1>5. QED
    BY <1>1, <1>3, <1>4, UnlinkStep DEF queues
-----------------------------------------------------------------------------
(* The steps that take frames from a queue and send none *)

LEMMA TakeStep ==
    ASSUME FlowInv, NEW n \in Node, NEW l \in Label, Goto(n, l), Ordered(n)',
           pc[n] \notin {"offer", "dropBad"}, l \notin Passing,
           UNCHANGED << mStop, mState, linked, current, todo, bad, sent >>,
           mFrameQueue' \in FrameSeq, delayQueue' \in FrameSeq, accepted' \in FrameSeq, position' \in [Node -> Nat],
           Len(mFrameQueue'[n]) <= Len(mFrameQueue[n]), position'[n] = 0,
           Kind[n] # "delay" => delayQueue'[n] = << >>,
           l \in Waiting => sent[n] = << >> /\ delayQueue'[n] = << >>,
           accepted'[n] = accepted[n] \/ accepted'[n] = << >>,
           \A m \in Node \ {n} :
               /\ position'[m] = position[m] /\ mFrameQueue'[m] = mFrameQueue[m]
               /\ delayQueue'[m] = delayQueue[m] /\ accepted'[m] = accepted[m]
    PROVE  FlowInv'
<1>1. /\ TypeOK /\ Placed(n) /\ pc \in [Node -> Label]
      /\ mFrameQueue[n] \in Seq(Frame) /\ mFrameQueue'[n] \in Seq(Frame)
    BY Known DEF FrameSeq
<1>2. pc' \in [Node -> Label] /\ pc'[n] = l /\ \A m \in Node \ {n} : pc'[m] = pc[m]
    BY <1>1 DEF Goto
<1>3. Len(mFrameQueue[n]) \in Nat /\ Len(mFrameQueue'[n]) \in Nat /\ MaxQueueSize \in Nat
    BY <1>1, TypedIsTyped, BoundAssumption
<1>4. \A m \in Node : Len(mFrameQueue'[m]) <= MaxQueueSize /\ position'[m] <= Len(mFrameQueue'[m])
    <2>1. ASSUME NEW m \in Node PROVE Len(mFrameQueue'[m]) <= MaxQueueSize /\ position'[m] <= Len(mFrameQueue'[m])
        <3>1. Len(mFrameQueue[m]) <= MaxQueueSize /\ position[m] <= Len(mFrameQueue[m])
            BY <1>1 DEF TypeOK
        <3>2. CASE m = n
            BY <1>3, <3>1, <3>2
        <3>3. CASE m # n
            BY <3>1, <3>3
        <3>4. QED
            BY <3>2, <3>3
    <2>2. QED
        BY <2>1
<1>5. TypeOK'
    BY <1>1, <1>2, <1>4 DEF TypeOK
<1>6. Placed(n)'
    <2>1. Kind[n] = "source" => mFrameQueue'[n] = << >>
        <3>1. ASSUME Kind[n] = "source" PROVE mFrameQueue'[n] = << >>
            <4>1. Len(mFrameQueue[n]) = 0
                BY <1>1, <3>1, EmptyIsTyped DEF Placed
            <4>2. Len(mFrameQueue'[n]) = 0
                BY <1>3, <4>1
            <4>3. QED
                BY <1>1, <4>2, EmptySeq
        <3>2. QED
            BY <3>1
    <2>2. bad'[n] = {} /\ todo'[n] = {}
        BY <1>1 DEF Placed
    <2>3. pc'[n] # "offer" /\ pc'[n] # "batch" /\ pc'[n] \notin Passing
        BY <1>2 DEF Passing
    <2>4. pc'[n] \in Waiting => sent'[n] = << >> /\ delayQueue'[n] = << >>
        BY <1>2
    <2>5. QED
        BY <2>1, <2>2, <2>3, <2>4 DEF Placed
<1>7. QED
    BY <1>2, <1>5, <1>6, OwnStep

LEMMA EmptyTypes ==
    ASSUME FlowInv, NEW n \in Node
    PROVE  /\ << >> \in Seq(Frame) /\ Len(<< >>) = 0
           /\ Len(mFrameQueue[n]) \in Nat /\ 0 <= Len(mFrameQueue[n])
           /\ [mFrameQueue EXCEPT ![n] = << >>] \in FrameSeq
<1>1. << >> \in Seq(Frame) /\ Len(<< >>) = 0
    BY EmptyIsTyped
<1>2. mFrameQueue \in [Node -> Seq(Frame)] /\ Len(mFrameQueue[n]) \in Nat
    BY Known, TypedIsTyped DEF FrameSeq
<1>3. QED
    BY <1>1, <1>2 DEF FrameSeq

\* The queue is emptied, whatever was in it.
LEMMA EmptyOrdered ==
    ASSUME FlowInv, NEW n \in Node, mFrameQueue'[n] = << >>,
           delayQueue'[n] = delayQueue[n], accepted'[n] = accepted[n], sent'[n] = sent[n]
    PROVE  Ordered(n)'
<1>1. Ordered(n)
    BY DEF FlowInv
<1>2. Sorted(sent[n], delayQueue[n], << >>, position'[n])
    BY <1>1, EmptySorts DEF Ordered
<1>3. Sorted(sent[n], delayQueue[n], mFrameQueue[n], position[n])'
    BY <1>2 DEF Sorted, Increasing, Before
<1>4. Within(mFrameQueue[n], accepted[n])'
    BY EmptyWithin DEF Within
<1>5. Within(delayQueue[n], accepted[n])'
    BY <1>1 DEF Ordered, Within
<1>6. CASE Kind[n] = "source"
    BY <1>1, <1>3, <1>4, <1>5, <1>6 DEF Ordered
<1>7. CASE Kind[n] # "source"
    <2>1. Within(sent[n], accepted[n])'
        BY <1>1, <1>7 DEF Ordered, Within
    <2>2. QED
        BY <1>3, <1>4, <1>5, <1>7, <2>1 DEF Ordered
<1>8. QED
    BY <1>6, <1>7

\* Its first frame is removed.
LEMMA ShorterOrdered ==
    ASSUME FlowInv, NEW n \in Node, position[n] = 0, position'[n] = 0, mFrameQueue'[n] \in Seq(Frame),
           Shorter(mFrameQueue'[n], mFrameQueue[n]), Kind[n] # "source",
           delayQueue'[n] = delayQueue[n], accepted'[n] = accepted[n], sent'[n] = sent[n]
    PROVE  Ordered(n)'
<1>1. Ordered(n) /\ TypeOK
    BY DEF FlowInv
<1>2. Ints(mFrameQueue[n]) /\ Ints(mFrameQueue'[n])
    BY <1>1, TypeFacts, FramesAreInts
<1>3. Sorted(sent[n], delayQueue[n], mFrameQueue'[n], 0)
    BY <1>1, <1>2, TailSorts DEF Ordered
<1>4. Sorted(sent[n], delayQueue[n], mFrameQueue[n], position[n])'
    BY <1>3 DEF Sorted, Increasing, Before
<1>5. Within(mFrameQueue'[n], accepted[n])
    BY <1>1, <1>2, ShorterWithin DEF Ordered
<1>6. Within(mFrameQueue[n], accepted[n])' /\ Within(delayQueue[n], accepted[n])' /\ Within(sent[n], accepted[n])'
    BY <1>1, <1>5 DEF Ordered, Within
<1>7. QED
    BY <1>4, <1>6 DEF Ordered

LEMMA ClearBatchStep == ASSUME FlowInv, NEW n \in Node, ClearBatch(n) PROVE FlowInv'
<1>1. /\ Placed(n) /\ mFrameQueue \in FrameSeq /\ delayQueue \in FrameSeq /\ accepted \in FrameSeq
      /\ position \in [Node -> Nat]
    BY Known
<1>2. /\ pc[n] = "batch" /\ Goto(n, "check")
      /\ UNCHANGED << mStop, mState, linked, current, todo, bad, sent, delayQueue, accepted >>
      /\ mFrameQueue' = [mFrameQueue EXCEPT ![n] = << >>] /\ position' = [position EXCEPT ![n] = 0]
    BY DEF ClearBatch, BatchDone, offers
<1>3. /\ mFrameQueue' \in FrameSeq /\ mFrameQueue'[n] = << >> /\ Len(mFrameQueue'[n]) <= Len(mFrameQueue[n])
      /\ \A m \in Node \ {n} : mFrameQueue'[m] = mFrameQueue[m]
    BY <1>1, <1>2, EmptyTypes DEF FrameSeq
<1>4. position' \in [Node -> Nat] /\ position'[n] = 0 /\ \A m \in Node \ {n} : position'[m] = position[m]
    BY <1>1, <1>2
<1>5. Ordered(n)'
    BY <1>2, <1>3, EmptyOrdered
<1>6. "check" \in Label /\ "check" \notin Passing \cup Waiting
    BY DEF Label, Passing, Waiting
<1>7. Kind[n] # "delay" => delayQueue'[n] = << >>
    BY <1>1, <1>2 DEF Placed
<1>8. QED
    BY <1>1, <1>2, <1>3, <1>4, <1>5, <1>6, <1>7, TakeStep

LEMMA ClearAndRetryStep == ASSUME FlowInv, NEW n \in Node, ClearAndRetry(n) PROVE FlowInv'
<1>1. /\ Placed(n) /\ Ordered(n) /\ mFrameQueue \in FrameSeq /\ delayQueue \in FrameSeq /\ accepted \in FrameSeq
      /\ position \in [Node -> Nat]
    BY Known
<1>2. /\ pc[n] = "clear" /\ Goto(n, "waitReady")
      /\ UNCHANGED << mStop, mState, linked, current, todo, bad, sent, delayQueue, position >>
      /\ mFrameQueue' = [mFrameQueue EXCEPT ![n] = << >>] /\ accepted' = [accepted EXCEPT ![n] = << >>]
    BY DEF ClearAndRetry, offers
<1>3. /\ mFrameQueue' \in FrameSeq /\ mFrameQueue'[n] = << >> /\ Len(mFrameQueue'[n]) <= Len(mFrameQueue[n])
      /\ \A m \in Node \ {n} : mFrameQueue'[m] = mFrameQueue[m]
    BY <1>1, <1>2, EmptyTypes DEF FrameSeq
<1>4. accepted' \in FrameSeq /\ accepted'[n] = << >> /\ \A m \in Node \ {n} : accepted'[m] = accepted[m]
    BY <1>1, <1>2, EmptyTypes DEF FrameSeq
<1>5. sent[n] = << >> /\ delayQueue[n] = << >> /\ position[n] = 0
    BY <1>1, <1>2 DEF Placed, Waiting, Passing
<1>6. Ordered(n)'
    <2>1. Len(<< >>) = 0 /\ 1 .. 0 = {}
        BY EmptyIsTyped
    <2>2. Sorted(sent[n], delayQueue[n], mFrameQueue[n], position[n])'
        BY <1>2, <1>3, <1>5, <2>1 DEF Sorted, Increasing, Before
    <2>3. Within(delayQueue[n], accepted[n])' /\ Within(mFrameQueue[n], accepted[n])' /\ Within(sent[n], accepted[n])'
        BY <1>2, <1>3, <1>5, <2>1 DEF Within
    <2>4. \A i \in 1 .. Len(sent'[n]) : sent'[n][i] = i
        BY <1>2, <1>5, <2>1
    <2>5. QED
        BY <2>2, <2>3, <2>4 DEF Ordered
<1>7. "waitReady" \in Label /\ "waitReady" \notin Passing
    BY DEF Label, Passing
<1>8. QED
    BY <1>1, <1>2, <1>3, <1>4, <1>5, <1>6, <1>7, TakeStep

LEMMA TakeNoneStep == ASSUME FlowInv, NEW n \in Node, TakeNone(n) PROVE FlowInv'
<1>1. /\ Placed(n) /\ Ordered(n) /\ mFrameQueue \in FrameSeq /\ delayQueue \in FrameSeq /\ accepted \in FrameSeq
      /\ position \in [Node -> Nat] /\ mFrameQueue[n] \in Seq(Frame)
    BY Known DEF FrameSeq
<1>2. /\ pc[n] = "loop" /\ Goto(n, "check") /\ Kind[n] = "paced"
      /\ UNCHANGED << mStop, mState, linked, current, todo, bad, sent, delayQueue, position, accepted >>
      /\ mFrameQueue' = [mFrameQueue EXCEPT ![n] = IF @ = << >> THEN @ ELSE RemainingQueue(n)]
    BY DEF TakeNone, InLoop, offers
<1>3. position[n] = 0
    BY <1>1, <1>2 DEF Placed, Passing
<1> DEFINE r == IF mFrameQueue[n] = << >> THEN mFrameQueue[n] ELSE RemainingQueue(n)
<1> HIDE DEF r
<1>4. /\ r \in Seq(Frame) /\ Len(r) <= Len(mFrameQueue[n])
      /\ r = mFrameQueue[n] \/ r = << >> \/ (mFrameQueue[n] # << >> /\ Shorter(r, mFrameQueue[n]))
    <2>1. Len(mFrameQueue[n]) \in Nat /\ << >> \in Seq(Frame) /\ Len(<< >>) <= Len(mFrameQueue[n])
        BY EmptyTypes
    <2>2. CASE mFrameQueue[n] = << >>
        <3>1. r = mFrameQueue[n] /\ r = << >>
            BY <2>2 DEF r
        <3>2. QED
            BY <2>1, <3>1
    <2>3. CASE mFrameQueue[n] # << >> /\ n \in mSkip
        <3>1. r = << >>
            BY <2>3 DEF r, RemainingQueue
        <3>2. QED
            BY <2>1, <3>1
    <2>4. CASE mFrameQueue[n] # << >> /\ n \notin mSkip
        <3>1. Tail(mFrameQueue[n]) \in Seq(Frame) /\ Shorter(Tail(mFrameQueue[n]), mFrameQueue[n])
            BY <1>1, <2>4, TailIsShorter
        <3>2. r = Tail(mFrameQueue[n])
            BY <2>4 DEF r, RemainingQueue
        <3>3. Len(Tail(mFrameQueue[n])) <= Len(mFrameQueue[n])
            BY <2>1, <3>1 DEF Shorter
        <3>4. QED
            BY <2>4, <3>1, <3>2, <3>3
    <2>5. QED
        BY <2>2, <2>3, <2>4
<1>5. /\ mFrameQueue' \in FrameSeq /\ mFrameQueue'[n] = r
      /\ \A m \in Node \ {n} : mFrameQueue'[m] = mFrameQueue[m]
    BY <1>1, <1>2, <1>4 DEF FrameSeq, r
<1>6. Ordered(n)'
    <2>1. CASE r = mFrameQueue[n]
        BY <1>1, <1>2, <1>5, <2>1, StaysOrdered
    <2>2. CASE r = << >>
        BY <1>2, <1>5, <2>2, EmptyOrdered
    <2>3. CASE mFrameQueue[n] # << >> /\ Shorter(r, mFrameQueue[n])
        BY <1>1, <1>2, <1>3, <1>4, <1>5, <2>3, ShorterOrdered
    <2>4. QED
        BY <1>4, <2>1, <2>2, <2>3
<1>7. "check" \in Label /\ "check" \notin Passing \cup Waiting
    BY DEF Label, Passing, Waiting
<1>8. Kind[n] # "delay" => delayQueue'[n] = << >>
    BY <1>1, <1>2 DEF Placed
<1>9. QED
    BY <1>1, <1>2, <1>3, <1>4, <1>5, <1>6, <1>7, <1>8, TakeStep

LEMMA TakeAllStep == ASSUME FlowInv, NEW n \in Node, TakeAll(n) PROVE FlowInv'
<1> DEFINE t == delayQueue[n] \o mFrameQueue[n]
<1>1. /\ Placed(n) /\ Ordered(n) /\ mFrameQueue \in FrameSeq /\ delayQueue \in FrameSeq /\ accepted \in FrameSeq
      /\ position \in [Node -> Nat] /\ mFrameQueue[n] \in Seq(Frame) /\ delayQueue[n] \in Seq(Frame)
    BY Known DEF FrameSeq
<1>2. /\ pc[n] = "loop" /\ Goto(n, "release") /\ Kind[n] = "delay"
      /\ UNCHANGED << mStop, mState, linked, current, todo, bad, sent, position, accepted >>
      /\ mFrameQueue' = [mFrameQueue EXCEPT ![n] = << >>] /\ delayQueue' = [delayQueue EXCEPT ![n] = t]
    BY DEF TakeAll, InLoop, offers
<1>3. position[n] = 0
    BY <1>1, <1>2 DEF Placed, Passing
<1>4. t \in Seq(Frame) /\ Joined(t, delayQueue[n], mFrameQueue[n])
    BY <1>1, ConcatIsJoined
<1> HIDE DEF t
<1>5. /\ delayQueue' \in FrameSeq /\ delayQueue'[n] = t /\ \A m \in Node \ {n} : delayQueue'[m] = delayQueue[m]
    BY <1>1, <1>2, <1>4 DEF FrameSeq
<1>6. /\ mFrameQueue' \in FrameSeq /\ mFrameQueue'[n] = << >> /\ Len(mFrameQueue'[n]) <= Len(mFrameQueue[n])
      /\ \A m \in Node \ {n} : mFrameQueue'[m] = mFrameQueue[m]
    BY <1>1, <1>2, EmptyTypes DEF FrameSeq
<1>7. Ordered(n)'
    <2>1. Ints(mFrameQueue[n]) /\ Ints(delayQueue[n]) /\ Ints(t)
        BY <1>1, <1>4, FramesAreInts
    <2>2. Sorted(sent[n], t, << >>, 0)
        BY <1>1, <1>3, <1>4, <2>1, MoveSorts DEF Ordered
    <2>3. Sorted(sent[n], delayQueue[n], mFrameQueue[n], position[n])'
        BY <1>2, <1>3, <1>5, <1>6, <2>2 DEF Sorted, Increasing, Before
    <2>4. Within(t, accepted[n])
        BY <1>1, <1>4, JoinedWithin DEF Ordered
    <2>5. Within(delayQueue[n], accepted[n])' /\ Within(mFrameQueue[n], accepted[n])'
        BY <1>2, <1>5, <1>6, <2>4, EmptyWithin DEF Within
    <2>6. Within(sent[n], accepted[n])'
        BY <1>1, <1>2 DEF Ordered, Within
    <2>7. QED
        BY <1>2, <2>3, <2>5, <2>6 DEF Ordered
<1>8. "release" \in Label /\ "release" \notin Passing \cup Waiting
    BY DEF Label, Passing, Waiting
<1>9. QED
    BY <1>1, <1>2, <1>3, <1>5, <1>6, <1>7, <1>8, TakeStep

LEMMA ClearQueueStep == ASSUME FlowInv, NEW n \in Node, ClearQueue(n) PROVE FlowInv'
<1>1. /\ Placed(n) /\ Ordered(n) /\ mFrameQueue \in FrameSeq /\ delayQueue \in FrameSeq /\ accepted \in FrameSeq
      /\ position \in [Node -> Nat]
    BY Known
<1>2. /\ pc[n] = "clearQueue" /\ Goto(n, "ended")
      /\ UNCHANGED << mStop, mState, linked, current, todo, bad, sent, position, accepted >>
      /\ mFrameQueue' = [mFrameQueue EXCEPT ![n] = << >>] /\ delayQueue' = [delayQueue EXCEPT ![n] = << >>]
    BY DEF ClearQueue, offers
<1>3. position[n] = 0
    BY <1>1, <1>2 DEF Placed, Passing
<1>4. /\ delayQueue' \in FrameSeq /\ delayQueue'[n] = << >> /\ \A m \in Node \ {n} : delayQueue'[m] = delayQueue[m]
    BY <1>1, <1>2, EmptyTypes DEF FrameSeq
<1>5. /\ mFrameQueue' \in FrameSeq /\ mFrameQueue'[n] = << >> /\ Len(mFrameQueue'[n]) <= Len(mFrameQueue[n])
      /\ \A m \in Node \ {n} : mFrameQueue'[m] = mFrameQueue[m]
    BY <1>1, <1>2, EmptyTypes DEF FrameSeq
<1>6. Ordered(n)'
    <2>1. Len(<< >>) = 0 /\ 1 .. 0 = {}
        BY EmptyIsTyped
    <2>2. Increasing(sent[n])
        BY <1>1 DEF Ordered, Sorted
    <2>3. Sorted(sent[n], delayQueue[n], mFrameQueue[n], position[n])'
        BY <1>2, <1>4, <1>5, <2>1, <2>2 DEF Sorted, Increasing, Before
    <2>4. Within(delayQueue[n], accepted[n])' /\ Within(mFrameQueue[n], accepted[n])'
        BY <1>4, <1>5, <2>1 DEF Within
    <2>5. CASE Kind[n] = "source"
        BY <1>1, <1>2, <2>3, <2>4, <2>5 DEF Ordered
    <2>6. CASE Kind[n] # "source"
        <3>1. Within(sent[n], accepted[n])'
            BY <1>1, <1>2, <2>6 DEF Ordered, Within
        <3>2. QED
            BY <2>3, <2>4, <2>6, <3>1 DEF Ordered
    <2>7. QED
        BY <2>5, <2>6
<1>7. "ended" \in Label /\ "ended" \notin Passing \cup Waiting
    BY DEF Label, Passing, Waiting
<1>8. QED
    BY <1>1, <1>2, <1>3, <1>4, <1>5, <1>6, <1>7, TakeStep
-----------------------------------------------------------------------------
(* The steps that send a frame *)

LEMMA SentLonger ==
    ASSUME FlowInv, NEW n \in Node, NEW f \in Frame, Distribute(n, f)
    PROVE  /\ sent[n] \in Seq(Frame) /\ sent'[n] \in Seq(Frame) /\ Longer(sent'[n], sent[n], f)
           /\ accepted' = accepted /\ Ints(sent[n]) /\ Ints(sent'[n])
<1>1. sent \in [Node -> Seq(Frame)] /\ sent[n] \in Seq(Frame)
    BY DEF FlowInv, TypeOK, FrameSeq
<1>2. Append(sent[n], f) \in Seq(Frame) /\ Longer(Append(sent[n], f), sent[n], f)
    BY <1>1, AppendIsLonger
<1>3. sent'[n] = Append(sent[n], f) /\ accepted' = accepted
    BY <1>1 DEF Distribute
<1>4. QED
    BY <1>1, <1>2, <1>3, FramesAreInts

LEMMA SendOrdered ==
    ASSUME FlowInv, NEW n \in Node, NEW f \in Frame, Distribute(n, f), Kind[n] # "source",
           Sorted(sent'[n], delayQueue'[n], mFrameQueue'[n], position'[n]),
           Within(delayQueue'[n], accepted[n]), Within(mFrameQueue'[n], accepted[n]),
           NEW j \in 1 .. Len(accepted[n]), f = accepted[n][j]
    PROVE  Ordered(n)'
<1>1. /\ sent[n] \in Seq(Frame) /\ Longer(sent'[n], sent[n], f) /\ accepted' = accepted
    BY SentLonger
<1>2. Within(sent[n], accepted[n])
    BY DEF FlowInv, Ordered
<1>3. Within(sent'[n], accepted[n])
    BY <1>1, <1>2, LongerWithin
<1>4. Sorted(sent[n], delayQueue[n], mFrameQueue[n], position[n])'
    BY DEF Sorted, Increasing, Before
<1>5. Within(delayQueue[n], accepted[n])' /\ Within(mFrameQueue[n], accepted[n])' /\ Within(sent[n], accepted[n])'
    BY <1>1, <1>3 DEF Within
<1>6. QED
    BY <1>4, <1>5 DEF Ordered

\* What a component that is no source can send, by its place.
LEMMA SendFacts ==
    ASSUME FlowInv, NEW n \in Node
    PROVE  /\ mFrameQueue \in FrameSeq /\ delayQueue \in FrameSeq /\ position \in [Node -> Nat]
           /\ mFrameQueue[n] \in Seq(Frame) /\ delayQueue[n] \in Seq(Frame)
           /\ Ints(mFrameQueue[n]) /\ Ints(delayQueue[n])
           /\ \A k \in 1 .. Len(mFrameQueue[n]) : mFrameQueue[n][k] \in Frame
           /\ \A k \in 1 .. Len(delayQueue[n]) : delayQueue[n][k] \in Frame
           /\ Len(mFrameQueue[n]) \in Nat /\ Len(delayQueue[n]) \in Nat
           /\ Len(mFrameQueue[n]) <= MaxQueueSize /\ position[n] <= Len(mFrameQueue[n]) /\ position[n] \in Nat
           /\ Sorted(sent[n], delayQueue[n], mFrameQueue[n], position[n])
           /\ Within(delayQueue[n], accepted[n]) /\ Within(mFrameQueue[n], accepted[n])
<1>1. TypeOK /\ Ordered(n)
    BY DEF FlowInv
<1>2. mFrameQueue[n] \in Seq(Frame) /\ delayQueue[n] \in Seq(Frame)
      /\ Ints(mFrameQueue[n]) /\ Ints(delayQueue[n])
    BY <1>1, TypeFacts
<1>3. /\ \A k \in 1 .. Len(mFrameQueue[n]) : mFrameQueue[n][k] \in Frame
      /\ \A k \in 1 .. Len(delayQueue[n]) : delayQueue[n][k] \in Frame
      /\ Len(mFrameQueue[n]) \in Nat /\ Len(delayQueue[n]) \in Nat
    BY <1>2, TypedIsTyped
<1>4. /\ mFrameQueue \in FrameSeq /\ delayQueue \in FrameSeq /\ position \in [Node -> Nat]
      /\ Len(mFrameQueue[n]) <= MaxQueueSize /\ position[n] <= Len(mFrameQueue[n]) /\ position[n] \in Nat
    BY <1>1 DEF TypeOK
<1>5. /\ Sorted(sent[n], delayQueue[n], mFrameQueue[n], position[n])
      /\ Within(delayQueue[n], accepted[n]) /\ Within(mFrameQueue[n], accepted[n])
    BY <1>1 DEF Ordered
<1>6. QED
    BY <1>2, <1>3, <1>4, <1>5

LEMMA CaptureStep == ASSUME FlowInv, NEW n \in Node, Capture(n) PROVE FlowInv'
<1> DEFINE f == Len(sent[n]) + 1
<1>1. /\ Placed(n) /\ Ordered(n) /\ TypeOK
    BY DEF FlowInv
<1>2. /\ pc[n] = "loop" /\ Kind[n] = "source" /\ Len(sent[n]) < MaxFrames /\ Distribute(n, f)
      /\ UNCHANGED << mFrameQueue, position, delayQueue >>
    BY DEF Capture, InLoop
<1>3. Len(sent[n]) \in Nat /\ Ints(sent[n])
    BY <1>1, TypeFacts DEF Ints
<1>4. f \in Frame
    BY <1>2, <1>3, BoundAssumption DEF Frame
<1>5. Longer(sent'[n], sent[n], Len(sent[n]) + 1) /\ accepted' = accepted
    BY <1>2, <1>4, SentLonger
<1>6. position[n] = 0 /\ mFrameQueue[n] = << >> /\ delayQueue[n] = << >>
    BY <1>1, <1>2 DEF Placed, Passing
<1>7. Ordered(n)'
    <2>1. Len(mFrameQueue[n]) = 0 /\ Len(delayQueue[n]) = 0
        BY <1>6, EmptyIsTyped
    <2>2. Sorted(sent'[n], delayQueue[n], mFrameQueue[n], position[n]) /\ \A i \in 1 .. Len(sent'[n]) : sent'[n][i] = i
        BY <1>1, <1>2, <1>3, <1>5, <2>1, CaptureSorts DEF Ordered
    <2>3. Sorted(sent[n], delayQueue[n], mFrameQueue[n], position[n])'
        BY <1>2, <2>2 DEF Sorted, Increasing, Before
    <2>4. Within(delayQueue[n], accepted[n])' /\ Within(mFrameQueue[n], accepted[n])'
        BY <1>1, <1>2, <1>5 DEF Ordered, Within
    <2>5. QED
        BY <1>2, <2>2, <2>3, <2>4 DEF Ordered
<1>8. pc[n] \notin Waiting \cup {"offer", "dropBad"} /\ Kind[n] \notin Locking
    BY <1>2 DEF Waiting, Locking
<1>9. /\ mFrameQueue' \in FrameSeq /\ delayQueue' \in FrameSeq /\ position' \in [Node -> Nat]
      /\ Len(mFrameQueue'[n]) <= MaxQueueSize /\ position'[n] <= Len(mFrameQueue'[n])
    BY <1>2, SendFacts
<1>10. \A m \in Node \ {n} : /\ position'[m] = position[m] /\ mFrameQueue'[m] = mFrameQueue[m]
                             /\ delayQueue'[m] = delayQueue[m]
    BY <1>2
<1> HIDE DEF f
<1>11. QED
    BY <1>2, <1>4, <1>6, <1>7, <1>8, <1>9, <1>10, SendStep

\* A batch or encoder loop sends a frame of the locked queue and moves its place on.
LEMMA SendPlaceStep ==
    ASSUME FlowInv, NEW n \in Node, NEW p \in Nat, pc[n] = "batch", Kind[n] \in Locking,
           position[n] < p, p <= Len(mFrameQueue[n]), Distribute(n, mFrameQueue[n][position[n] + 1]),
           position' = [position EXCEPT ![n] = p], UNCHANGED << mFrameQueue, delayQueue >>
    PROVE  FlowInv'
<1> DEFINE f == mFrameQueue[n][position[n] + 1]
<1>1. /\ mFrameQueue \in FrameSeq /\ delayQueue \in FrameSeq /\ position \in [Node -> Nat]
      /\ Ints(mFrameQueue[n]) /\ Len(mFrameQueue[n]) \in Nat
      /\ \A k \in 1 .. Len(mFrameQueue[n]) : mFrameQueue[n][k] \in Frame
      /\ Len(mFrameQueue[n]) <= MaxQueueSize /\ position[n] \in Nat
      /\ Sorted(sent[n], delayQueue[n], mFrameQueue[n], position[n])
      /\ Within(delayQueue[n], accepted[n]) /\ Within(mFrameQueue[n], accepted[n]) /\ Placed(n)
    BY SendFacts, Known
<1>2. position[n] + 1 \in 1 .. Len(mFrameQueue[n]) /\ position[n] < Len(mFrameQueue[n])
    BY <1>1
<1>3. f \in Frame
    BY <1>1, <1>2
<1>4. PICK j \in 1 .. Len(accepted[n]) : f = accepted[n][j]
    BY <1>1, <1>2 DEF Within
<1>5. delayQueue[n] = << >> /\ mFrameQueue[n] # << >> /\ Kind[n] # "delay" /\ Kind[n] # "source"
    BY <1>1 DEF Placed, Passing, Locking
<1>6. position' \in [Node -> Nat] /\ position'[n] = p /\ \A m \in Node \ {n} : position'[m] = position[m]
    BY <1>1
<1>7. Ordered(n)'
    <2>1. Longer(sent'[n], sent[n], f) /\ Ints(sent[n]) /\ Ints(sent'[n])
        BY <1>3, SentLonger
    <2>2. Len(delayQueue[n]) = 0
        BY <1>5, EmptyIsTyped
    <2>3. Sorted(sent'[n], delayQueue[n], mFrameQueue[n], p)
        BY <1>1, <1>2, <2>1, <2>2, SendSorts
    <2>4. /\ Sorted(sent'[n], delayQueue'[n], mFrameQueue'[n], position'[n])
          /\ Within(delayQueue'[n], accepted[n]) /\ Within(mFrameQueue'[n], accepted[n])
        BY <1>1, <1>6, <2>3
    <2>5. QED
        BY <1>3, <1>4, <1>5, <2>4, SendOrdered
<1>8. pc[n] \notin Waiting \cup {"offer", "dropBad"}
    BY DEF Waiting
<1> HIDE DEF f
<1>9. Distribute(n, f)
    BY DEF f
<1>10. QED
    BY <1>1, <1>3, <1>5, <1>6, <1>7, <1>8, <1>9, SendStep

LEMMA RelayNextStep == ASSUME FlowInv, NEW n \in Node, RelayNext(n) PROVE FlowInv'
<1>1. /\ pc[n] = "batch" /\ Kind[n] = "batch" /\ position[n] < Len(mFrameQueue[n])
      /\ Distribute(n, mFrameQueue[n][position[n] + 1]) /\ UNCHANGED << mFrameQueue, delayQueue >>
      /\ position' = [position EXCEPT ![n] = position[n] + 1]
    BY DEF RelayNext
<1>2. position[n] \in Nat /\ Len(mFrameQueue[n]) \in Nat
    BY SendFacts
<1>3. position[n] + 1 \in Nat /\ position[n] < position[n] + 1 /\ position[n] + 1 <= Len(mFrameQueue[n])
    BY <1>1, <1>2
<1>4. Kind[n] \in Locking
    BY <1>1 DEF Locking
<1>5. QED
    BY <1>1, <1>3, <1>4, SendPlaceStep

LEMMA EncodeFirstStep == ASSUME FlowInv, NEW n \in Node, EncodeFirst(n) PROVE FlowInv'
<1>1. /\ pc[n] = "batch" /\ Kind[n] = "encoder" /\ position[n] = 0
      /\ Distribute(n, mFrameQueue[n][1]) /\ UNCHANGED << mFrameQueue, delayQueue >>
      /\ position' = [position EXCEPT ![n] = Len(mFrameQueue[n])]
    BY DEF EncodeFirst
<1>2. Kind[n] \in Locking
    BY <1>1 DEF Locking
<1>3. mFrameQueue[n] # << >> /\ mFrameQueue[n] \in Seq(Frame)
    BY <1>1, <1>2, Known, SendFacts DEF Placed, Passing
<1>4. Len(mFrameQueue[n]) \in Nat /\ Len(mFrameQueue[n]) > 0
    BY <1>3, TailIsShorter
<1>5. position[n] < Len(mFrameQueue[n]) /\ position[n] + 1 = 1 /\ Len(mFrameQueue[n]) <= Len(mFrameQueue[n])
    BY <1>1, <1>4
<1>6. QED
    BY <1>1, <1>2, <1>4, <1>5, SendPlaceStep

LEMMA TakeOneStep == ASSUME FlowInv, NEW n \in Node, TakeOne(n) PROVE FlowInv'
<1> DEFINE q == mFrameQueue[n]
           f == Head(q)
<1>1. /\ mFrameQueue \in FrameSeq /\ delayQueue \in FrameSeq /\ position \in [Node -> Nat]
      /\ q \in Seq(Frame) /\ Ints(q) /\ Len(q) \in Nat /\ Len(q) <= MaxQueueSize
      /\ Sorted(sent[n], delayQueue[n], q, position[n])
      /\ Within(delayQueue[n], accepted[n]) /\ Within(q, accepted[n]) /\ Placed(n)
    BY SendFacts, Known
<1>2. /\ pc[n] = "loop" /\ Kind[n] = "paced" /\ q # << >> /\ Distribute(n, f)
      /\ mFrameQueue' = [mFrameQueue EXCEPT ![n] = RemainingQueue(n)] /\ UNCHANGED << position, delayQueue >>
    BY DEF TakeOne, InLoop
<1>3. position[n] = 0 /\ delayQueue[n] = << >>
    BY <1>1, <1>2 DEF Placed, Passing
<1>4. Tail(q) \in Seq(Frame) /\ Shorter(Tail(q), q) /\ f \in Frame /\ f = q[1] /\ Len(q) > 0
    BY <1>1, <1>2, TailIsShorter
<1>5. PICK j \in 1 .. Len(accepted[n]) : f = accepted[n][j]
    <2>1. 1 \in 1 .. Len(q)
        BY <1>1, <1>4
    <2>2. QED
        BY <1>1, <1>4, <2>1 DEF Within
<1> DEFINE r == RemainingQueue(n)
<1> HIDE DEF q, f, r
<1>6. Longer(sent'[n], sent[n], f) /\ Ints(sent[n]) /\ Ints(sent'[n])
    BY <1>2, <1>4, SentLonger
<1>7. Sorted(sent'[n], delayQueue[n], q, 1)
    <2>1. Len(delayQueue[n]) = 0
        BY <1>3, EmptyIsTyped
    <2>2. 0 < Len(q) /\ 0 + 1 = 1 /\ Longer(sent'[n], sent[n], q[0 + 1])
        BY <1>1, <1>4, <1>6
    <2>3. QED
        BY <1>1, <1>3, <1>6, <2>1, <2>2, SendSorts
<1>8. /\ r \in Seq(Frame) /\ Len(r) \in Nat /\ Len(r) <= Len(q)
      /\ Sorted(sent'[n], delayQueue[n], r, 0) /\ Within(r, accepted[n])
    <2>1. CASE n \in mSkip
        <3>1. r = << >>
            BY <2>1 DEF r, RemainingQueue
        <3>2. r \in Seq(Frame) /\ Len(r) = 0
            BY <3>1, EmptyIsTyped
        <3>3. Sorted(sent'[n], delayQueue[n], r, 0) /\ Within(r, accepted[n])
            BY <1>7, <3>1, EmptySorts, EmptyWithin
        <3>4. QED
            BY <1>1, <3>2, <3>3
    <2>2. CASE n \notin mSkip
        <3>1. r = Tail(q)
            BY <2>2 DEF r, q, RemainingQueue
        <3>2. r \in Seq(Frame) /\ Shorter(r, q) /\ Ints(r)
            BY <1>4, <3>1, FramesAreInts
        <3>3. Len(r) \in Nat /\ Len(r) <= Len(q)
            BY <1>1, <3>2 DEF Ints, Shorter
        <3>4. Sorted(sent'[n], delayQueue[n], r, 0) /\ Within(r, accepted[n])
            BY <1>1, <1>7, <3>2, TailSorts, ShorterWithin
        <3>5. QED
            BY <3>2, <3>3, <3>4
    <2>3. QED
        BY <2>1, <2>2
<1>9. /\ mFrameQueue' \in FrameSeq /\ mFrameQueue'[n] = r
      /\ \A m \in Node \ {n} : mFrameQueue'[m] = mFrameQueue[m]
    BY <1>1, <1>2, <1>8 DEF FrameSeq, r
<1>10. Ordered(n)'
    <2>1. /\ Sorted(sent'[n], delayQueue'[n], mFrameQueue'[n], position'[n])
          /\ Within(delayQueue'[n], accepted[n]) /\ Within(mFrameQueue'[n], accepted[n])
        BY <1>1, <1>2, <1>3, <1>8, <1>9
    <2>2. QED
        BY <1>2, <1>4, <1>5, <2>1, SendOrdered
<1>11. pc[n] \notin Waiting \cup {"offer", "dropBad"} /\ Kind[n] \notin Locking
    BY <1>2 DEF Waiting, Locking
<1>12. Len(mFrameQueue'[n]) <= MaxQueueSize /\ position'[n] <= Len(mFrameQueue'[n]) /\ position'[n] = 0
    BY <1>1, <1>2, <1>3, <1>8, <1>9, BoundAssumption
<1>13. QED
    BY <1>1, <1>2, <1>3, <1>4, <1>9, <1>10, <1>11, <1>12, SendStep

LEMMA ReleaseOldStep == ASSUME FlowInv, NEW n \in Node, ReleaseOld(n) PROVE FlowInv'
<1> DEFINE d == delayQueue[n]
           f == Head(d)
<1>1. /\ mFrameQueue \in FrameSeq /\ delayQueue \in FrameSeq /\ position \in [Node -> Nat]
      /\ d \in Seq(Frame) /\ Ints(d) /\ Len(d) \in Nat /\ Len(mFrameQueue[n]) <= MaxQueueSize
      /\ position[n] <= Len(mFrameQueue[n]) /\ Ints(mFrameQueue[n])
      /\ Sorted(sent[n], d, mFrameQueue[n], position[n])
      /\ Within(d, accepted[n]) /\ Within(mFrameQueue[n], accepted[n]) /\ Placed(n)
    BY SendFacts, Known
<1>2. /\ pc[n] = "release" /\ d # << >> /\ Distribute(n, f)
      /\ delayQueue' = [delayQueue EXCEPT ![n] = Tail(d)] /\ UNCHANGED << position, mFrameQueue >>
    BY DEF ReleaseOld
<1>3. position[n] = 0 /\ Kind[n] = "delay"
    BY <1>1, <1>2 DEF Placed, Passing
<1>4. Tail(d) \in Seq(Frame) /\ Shorter(Tail(d), d) /\ f \in Frame /\ f = d[1] /\ Len(d) > 0
    BY <1>1, <1>2, TailIsShorter
<1>5. PICK j \in 1 .. Len(accepted[n]) : f = accepted[n][j]
    <2>1. 1 \in 1 .. Len(d)
        BY <1>1, <1>4
    <2>2. QED
        BY <1>1, <1>4, <2>1 DEF Within
<1> DEFINE r == Tail(d)
<1> HIDE DEF d, f, r
<1>6. Longer(sent'[n], sent[n], d[1]) /\ Ints(sent[n]) /\ Ints(sent'[n])
    BY <1>2, <1>4, SentLonger
<1>7. r \in Seq(Frame) /\ Ints(r) /\ Shorter(r, d)
    BY <1>4, FramesAreInts DEF r
<1>8. Sorted(sent'[n], r, mFrameQueue[n], 0) /\ Within(r, accepted[n])
    BY <1>1, <1>3, <1>4, <1>6, <1>7, ReleaseSorts, ShorterWithin
<1>9. delayQueue' \in FrameSeq /\ delayQueue'[n] = r /\ \A m \in Node \ {n} : delayQueue'[m] = delayQueue[m]
    BY <1>1, <1>2, <1>7 DEF FrameSeq, r
<1>10. Ordered(n)'
    <2>1. /\ Sorted(sent'[n], delayQueue'[n], mFrameQueue'[n], position'[n])
          /\ Within(delayQueue'[n], accepted[n]) /\ Within(mFrameQueue'[n], accepted[n])
        BY <1>1, <1>2, <1>3, <1>8, <1>9
    <2>2. Kind[n] # "source"
        BY <1>3
    <2>3. QED
        BY <1>2, <1>4, <1>5, <2>1, <2>2, SendOrdered
<1>11. pc[n] \notin Waiting \cup {"offer", "dropBad"} /\ Kind[n] \notin Locking
    BY <1>2, <1>3 DEF Waiting, Locking
<1>12. QED
    BY <1>1, <1>2, <1>3, <1>4, <1>9, <1>10, <1>11, SendStep

-----------------------------------------------------------------------------
(* Every step keeps the invariant *)

LEMMA FlowStep == FlowInv /\ [Next]_vars => FlowInv'
<1> SUFFICES ASSUME FlowInv, [Next]_vars PROVE FlowInv'
    OBVIOUS
<1>1. ASSUME NEW n \in Node, Loop(n) PROVE FlowInv'
    <2>1. CASE \E c \in Node : QueueFrame(n, c) \/ DropBad(n, c) \/ UnlinkConsumer(n, c)
        BY <2>1, QueueStep, DropBadStep, UnlinkConsumerStep
    <2>2. CASE \/ WaitReady(n) \/ WaitWait(n) \/ ExitLoop(n) \/ LockQueue(n) \/ CheckProviders(n)
               \/ EndOffer(n) \/ EndDistribute(n) \/ SetEnded(n) \/ EndProviderCleanup(n)
        BY <2>2, WaitReadyStep, WaitWaitStep, ExitLoopStep, LockQueueStep, CheckProvidersStep,
           EndOfferStep, EndDistributeStep, SetEndedStep, EndProviderCleanupStep
    <2>3. CASE \/ ClearAndRetry(n) \/ ClearBatch(n) \/ TakeNone(n) \/ TakeAll(n) \/ ClearQueue(n)
        BY <2>3, ClearAndRetryStep, ClearBatchStep, TakeNoneStep, TakeAllStep, ClearQueueStep
    <2>4. CASE \/ RelayNext(n) \/ EncodeFirst(n) \/ TakeOne(n) \/ UnlinkProvider(n)
        BY <2>4, RelayNextStep, EncodeFirstStep, TakeOneStep, UnlinkProviderStep
    <2>5. QED
        BY <1>1, <2>1, <2>2, <2>3, <2>4 DEF Loop
<1>2. ASSUME NEW n \in Node, Capture(n) \/ ReleaseOld(n) \/ KeepYoung(n) \/ Stop(n) PROVE FlowInv'
    BY <1>2, CaptureStep, ReleaseOldStep, KeepYoungStep, StopStep
<1>3. CASE UNCHANGED vars
    <2>1. /\ UNCHANGED << pc, mStop, mState, linked, mFrameQueue, position, delayQueue, accepted, sent >>
          /\ UNCHANGED << current, todo, bad >>
        BY <1>3 DEF vars, queues, offers
    <2>2. TypeOK'
        BY <2>1 DEF FlowInv, TypeOK
    <2>3. ASSUME NEW n \in Node PROVE (Placed(n) /\ Visits(n) /\ Ordered(n))'
        BY <2>1, StaysPlaced, StaysVisiting, StaysOrdered DEF FlowInv
    <2>4. ASSUME NEW c \in Fed PROVE GapFree(c)'
        BY <2>1, StaysGapFree DEF FlowInv
    <2>5. QED
        BY <2>2, <2>3, <2>4 DEF FlowInv
<1>4. QED
    BY <1>1, <1>2, <1>3 DEF Next

\* The invariant says what the run checks.
LEMMA InvariantIsEnough == FlowInv => FramesPassOn
<1> SUFFICES ASSUME FlowInv PROVE FramesPassOn
    OBVIOUS
<1>1. TypeOK
    BY DEF FlowInv
<1>2. NoGaps
    <2> SUFFICES ASSUME NEW c \in {n \in Node : ProviderOf[n] # None}
                 PROVE  LET p       == ProviderOf[c]
                            offered == Len(sent[p]) - (IF c \in todo[p] THEN 1 ELSE 0)
                            len     == Len(accepted[c])
                        IN  \E i \in 0..(offered - len) :
                                /\ accepted[c] = SubSeq(sent[p], i + 1, i + len)
                                /\ linked[c] /\ c \notin bad[p] => i + len = offered
        BY DEF NoGaps
    <2> DEFINE p       == ProviderOf[c]
               offered == Len(sent[p]) - (IF c \in todo[p] THEN 1 ELSE 0)
               len     == Len(accepted[c])
    <2>1. c \in Fed /\ c \in Node /\ p \in Node
        BY FedFacts DEF Fed
    <2>2. PICK i \in Nat :
            /\ i + len <= offered
            /\ \A k \in 1 .. len : accepted[c][k] = sent[p][i + k]
            /\ linked[c] /\ c \notin bad[p] => i + len = offered
        BY <2>1 DEF FlowInv, GapFree, Offered
    <2>3. accepted[c] \in Seq(Frame) /\ sent[p] \in Seq(Frame) /\ len \in Nat /\ Len(sent[p]) \in Nat
        BY <1>1, <2>1, TypeFacts, TypedIsTyped
    <2>4. offered \in Int /\ offered <= Len(sent[p])
        <3>1. CASE c \in todo[p]
            BY <2>3, <3>1
        <3>2. CASE c \notin todo[p]
            BY <2>3, <3>2
        <3>3. QED
            BY <3>1, <3>2
    <2> HIDE DEF p, offered
    <2>5. i \in 0 .. (offered - len) /\ i + len <= Len(sent[p])
        BY <2>2, <2>3, <2>4
    <2>6. accepted[c] = SubSeq(sent[p], i + 1, i + len)
        BY <2>2, <2>3, <2>5, RunIsSubSeq
    <2>7. QED
        BY <2>2, <2>5, <2>6 DEF p, offered
<1>3. SentInOrder
    <2> SUFFICES ASSUME NEW n \in Node
                 PROVE  /\ Increasing(sent[n])
                        /\ Kind[n] # "source" => Within(sent[n], accepted[n])
        BY DEF SentInOrder, Increasing, Within
    <2>1. Ordered(n)
        BY DEF FlowInv
    <2>2. QED
        BY <2>1 DEF Ordered, Sorted
<1>4. QED
    BY <1>1, <1>2, <1>3 DEF FramesPassOn

-----------------------------------------------------------------------------
(* Theorems *)

\* The inductive invariant of the frame flow holds in every reachable state: every queue is in
\* order behind what was sent, and every consumer was given an unbroken run.
THEOREM FlowInvariant == Spec => []FlowInv
<1>1. Init => FlowInv
    BY FlowInitially
<1>2. FlowInv /\ [Next]_vars => FlowInv'
    BY FlowStep
<1>3. QED
    BY <1>1, <1>2, PTL DEF Spec

\* In any tree of components, a consumer gets an unbroken run of what its provider distributes, up
\* to the newest frame as long as its link stands, and no run loop sends a frame twice, out of order
\* or unasked (ozFeedProvider.cpp:207-227, ozFeedConsumer.cpp:219-234, the run loops).
THEOREM FramesAlwaysPassOn == Spec => []FramesPassOn
<1>1. FlowInv => FramesPassOn
    BY InvariantIsEnough
<1>2. QED
    BY <1>1, FlowInvariant, PTL

-----------------------------------------------------------------------------
(* The refinement of FrameRelay: what a batch or delay loop still carries *)

\* Of the accepted frames a, the first s were sent; the delay buffer's queue d and then the
\* queue q from place p on are the rest.
Carries(a, s, d, q, p) ==
    /\ Len(a) = s + Len(d) + (Len(q) - p)
    /\ \A k \in 1 .. Len(d) : a[s + k] = d[k]
    /\ \A k \in 1 .. Len(q) - p : a[s + Len(d) + k] = q[p + k]

LEMMA CarriesQueued ==
    ASSUME NEW a, NEW b, NEW s \in Nat, NEW d, NEW q, NEW r, NEW p \in Nat, NEW e,
           Ints(a), Ints(d), Ints(q), p <= Len(q),
           Carries(a, s, d, q, p), Longer(b, a, e), Longer(r, q, e)
    PROVE  Carries(b, s, d, r, p)
<1>1. /\ Len(a) \in Nat /\ Len(d) \in Nat /\ Len(q) \in Nat
      /\ Len(a) = s + Len(d) + (Len(q) - p) /\ Len(b) = Len(a) + 1 /\ Len(r) = Len(q) + 1
    BY DEF Ints, Carries, Longer
<1>2. ASSUME NEW k \in 1 .. Len(d) PROVE b[s + k] = d[k]
    <2>1. s + k \in 1 .. Len(a)
        BY <1>1
    <2>2. QED
        BY <2>1 DEF Carries, Longer
<1>3. ASSUME NEW k \in 1 .. Len(r) - p PROVE b[s + Len(d) + k] = r[p + k]
    <2>1. CASE k = Len(r) - p
        <3>1. s + Len(d) + k = Len(a) + 1 /\ p + k = Len(q) + 1
            BY <1>1, <2>1
        <3>2. QED
            BY <3>1 DEF Longer
    <2>2. CASE k # Len(r) - p
        <3>1. k \in 1 .. Len(q) - p /\ s + Len(d) + k \in 1 .. Len(a) /\ p + k \in 1 .. Len(q)
            BY <1>1, <2>2
        <3>2. a[s + Len(d) + k] = q[p + k]
            BY <3>1 DEF Carries
        <3>3. QED
            BY <3>1, <3>2 DEF Longer
    <2>3. QED
        BY <2>1, <2>2
<1>4. Len(b) = s + Len(d) + (Len(r) - p)
    BY <1>1
<1>5. QED
    BY <1>2, <1>3, <1>4 DEF Carries

LEMMA CarriesSent ==
    ASSUME NEW a, NEW s \in Nat, NEW d, NEW q, NEW p \in Nat,
           Ints(a), Ints(q), Len(d) = 0, p < Len(q), Carries(a, s, d, q, p)
    PROVE  s < Len(a) /\ a[s + 1] = q[p + 1] /\ Carries(a, s + 1, d, q, p + 1)
<1>1. Len(a) \in Nat /\ Len(q) \in Nat /\ Len(a) = s + (Len(q) - p)
    BY DEF Ints, Carries
<1>2. \A k \in 1 .. Len(q) - p : a[s + k] = q[p + k]
    <2>1. ASSUME NEW k \in 1 .. Len(q) - p PROVE a[s + k] = q[p + k]
        <3>1. s + Len(d) + k = s + k
            OBVIOUS
        <3>2. QED
            BY <3>1 DEF Carries
    <2>2. QED
        BY <2>1
<1>3. 1 \in 1 .. Len(q) - p
    BY <1>1
<1>4. ASSUME NEW k \in 1 .. Len(q) - (p + 1) PROVE a[s + 1 + Len(d) + k] = q[p + 1 + k]
    <2>1. k + 1 \in 1 .. Len(q) - p /\ s + (k + 1) = s + 1 + Len(d) + k /\ p + (k + 1) = p + 1 + k
        BY <1>1
    <2>2. a[s + (k + 1)] = q[p + (k + 1)]
        BY <1>2, <2>1
    <2>3. QED
        BY <2>1, <2>2
<1>5. Len(a) = s + 1 + Len(d) + (Len(q) - (p + 1)) /\ s < Len(a)
    BY <1>1
<1>6. \A k \in 1 .. Len(d) : a[s + 1 + k] = d[k]
    OBVIOUS
<1>7. QED
    BY <1>2, <1>3, <1>4, <1>5, <1>6 DEF Carries

LEMMA CarriesReleased ==
    ASSUME NEW a, NEW s \in Nat, NEW d, NEW q, NEW r,
           Ints(a), Ints(d), Ints(q), Len(d) > 0, Shorter(r, d), Carries(a, s, d, q, 0)
    PROVE  s < Len(a) /\ a[s + 1] = d[1] /\ Carries(a, s + 1, r, q, 0)
<1>1. /\ Len(a) \in Nat /\ Len(d) \in Nat /\ Len(q) \in Nat
      /\ Len(a) = s + Len(d) + (Len(q) - 0) /\ Len(r) = Len(d) - 1
    BY DEF Ints, Carries, Shorter
<1>2. s < Len(a) /\ 1 \in 1 .. Len(d) /\ Len(a) = s + 1 + Len(r) + (Len(q) - 0)
    BY <1>1
<1>3. ASSUME NEW k \in 1 .. Len(r) PROVE a[s + 1 + k] = r[k]
    <2>1. k + 1 \in 1 .. Len(d) /\ s + (k + 1) = s + 1 + k
        BY <1>1
    <2>2. a[s + (k + 1)] = d[k + 1]
        BY <2>1 DEF Carries
    <2>3. QED
        BY <2>1, <2>2 DEF Shorter
<1>4. ASSUME NEW k \in 1 .. Len(q) - 0 PROVE a[s + 1 + Len(r) + k] = q[0 + k]
    <2>1. s + Len(d) + k = s + 1 + Len(r) + k
        BY <1>1
    <2>2. QED
        BY <2>1 DEF Carries
<1>5. a[s + 1] = d[1]
    BY <1>2 DEF Carries
<1>6. QED
    BY <1>2, <1>3, <1>4, <1>5 DEF Carries

LEMMA CarriesMoved ==
    ASSUME NEW a, NEW s \in Nat, NEW d, NEW q, NEW t,
           Ints(a), Ints(d), Ints(q), Joined(t, d, q), Carries(a, s, d, q, 0)
    PROVE  Carries(a, s, t, << >>, 0)
<1>1. /\ Len(a) \in Nat /\ Len(d) \in Nat /\ Len(q) \in Nat /\ Len(<< >>) = 0
      /\ Len(a) = s + Len(d) + (Len(q) - 0) /\ Len(t) = Len(d) + Len(q)
    BY EmptySeq DEF Ints, Carries, Joined
<1>2. ASSUME NEW k \in 1 .. Len(t) PROVE a[s + k] = t[k]
    <2>1. CASE k <= Len(d)
        <3>1. k \in 1 .. Len(d)
            BY <1>1, <2>1
        <3>2. QED
            BY <3>1 DEF Carries, Joined
    <2>2. CASE k > Len(d)
        <3>1. /\ k - Len(d) \in 1 .. Len(q) - 0 /\ k - Len(d) \in 1 .. Len(q) /\ Len(d) + (k - Len(d)) = k
              /\ s + Len(d) + (k - Len(d)) = s + k /\ 0 + (k - Len(d)) = k - Len(d)
            BY <1>1, <2>2
        <3>2. a[s + Len(d) + (k - Len(d))] = q[0 + (k - Len(d))]
            BY <3>1 DEF Carries
        <3>3. t[Len(d) + (k - Len(d))] = q[k - Len(d)]
            BY <3>1 DEF Joined
        <3>4. QED
            BY <3>1, <3>2, <3>3
    <2>3. QED
        BY <1>1, <2>1, <2>2
<1>3. Len(a) = s + Len(t) + (Len(<< >>) - 0) /\ 1 .. Len(<< >>) - 0 = {}
    BY <1>1
<1>4. QED
    BY <1>2, <1>3 DEF Carries

LEMMA CarriesCleared ==
    ASSUME NEW a, NEW s \in Nat, NEW d, NEW q, Ints(d), Ints(q), Carries(a, s, d, q, Len(q))
    PROVE  Carries(a, s, d, << >>, 0)
<1>1. Len(d) \in Nat /\ Len(q) \in Nat /\ Len(<< >>) = 0 /\ Len(a) = s + Len(d) + (Len(q) - Len(q))
    BY EmptySeq DEF Ints, Carries
<1>2. Len(a) = s + Len(d) + (Len(<< >>) - 0) /\ 1 .. Len(<< >>) - 0 = {}
    BY <1>1
<1>3. QED
    BY <1>2 DEF Carries

LEMMA CarriesNothing == Carries(<< >>, Len(<< >>), << >>, << >>, 0)
<1>1. Len(<< >>) = 0
    BY EmptySeq
<1>2. QED
    BY <1>1 DEF Carries
-----------------------------------------------------------------------------
(* The relays *)

Carried(n) ==
    pc[n] # "ended" => Carries(accepted[n], Len(sent[n]), delayQueue[n], mFrameQueue[n], position[n])

CarriedInv == \A n \in RelayNode : Carried(n)

\* A step of the flow is a step of the relays, or none to them.
Relayed == CarriedInv' /\ [Relays!Next]_(Relays!vars)

LEMMA CarriedStays ==
    ASSUME NEW n \in Node, Carried(n), pc'[n] = "ended" \/ pc[n] # "ended",
           accepted'[n] = accepted[n], sent'[n] = sent[n], delayQueue'[n] = delayQueue[n],
           mFrameQueue'[n] = mFrameQueue[n], position'[n] = position[n]
    PROVE  Carried(n)'
BY DEF Carried, Carries

\* A component moves on by itself: the relays see at most that it closes.
LEMMA OwnRelayed ==
    ASSUME CarriedInv, NEW n \in Node, UNCHANGED << accepted, sent >>,
           \A m \in Node \ {n} :
               /\ pc'[m] = pc[m] /\ mStop'[m] = mStop[m] /\ position'[m] = position[m]
               /\ mFrameQueue'[m] = mFrameQueue[m] /\ delayQueue'[m] = delayQueue[m],
           n \in RelayNode => Carried(n)',
           InLoopStill(n)' => InLoopStill(n)
    PROVE  Relayed
<1>1. ASSUME NEW m \in RelayNode \ {n} PROVE Carried(m)' /\ InLoopStill(m)' = InLoopStill(m)
    <2>1. m \in Node \ {n} /\ Carried(m)
        BY DEF RelayNode, CarriedInv
    <2>2. Carried(m)'
        <3>1. CASE pc[m] = "ended"
            BY <2>1, <3>1 DEF Carried
        <3>2. CASE pc[m] # "ended"
            BY <2>1, <3>2, CarriedStays
        <3>3. QED
            BY <3>1, <3>2
    <2>3. pc'[m] = pc[m] /\ mStop'[m] = mStop[m]
        BY <2>1
    <2>4. InLoopStill(m)' = InLoopStill(m)
        BY <2>3 DEF InLoopStill
    <2>5. QED
        BY <2>2, <2>4
<1>2. CarriedInv'
    BY <1>1 DEF CarriedInv, RelayNode
<1> DEFINE a == [m \in RelayNode |-> accepted[m]]
           s == [m \in RelayNode |-> sent[m]]
           o == [m \in RelayNode |-> InLoopStill(m)]
<1>3. RelayNode' = RelayNode
    BY DEF RelayNode
<1>4. a' = a /\ s' = s
    BY <1>3
<1>5. CASE n \in RelayNode /\ InLoopStill(n) # InLoopStill(n)'
    <2>1. InLoopStill(n)' = FALSE
        BY <1>5 DEF InLoopStill
    <2>2. o' = [o EXCEPT ![n] = FALSE]
        BY <1>1, <1>3, <2>1
    <2>3. Relays!Close(n)
        BY <1>4, <2>2 DEF Relays!Close
    <2>4. QED
        BY <1>2, <1>5, <2>3 DEF Relayed, Relays!Next
<1>6. CASE ~(n \in RelayNode /\ InLoopStill(n) # InLoopStill(n)')
    <2>1. o' = o
        BY <1>1, <1>3, <1>6
    <2>2. UNCHANGED Relays!vars
        BY <1>4, <2>1 DEF Relays!vars
    <2>3. QED
        BY <1>2, <2>2 DEF Relayed
<1>7. QED
    BY <1>5, <1>6

\* A component sends a frame: a relay passes on the next it carries.
LEMMA SendRelayed ==
    ASSUME FlowInv, CarriedInv, NEW n \in Node, NEW f \in Frame, Distribute(n, f), pc[n] # "ended",
           InLoopStill(n)' <=> InLoopStill(n),
           \A m \in Node \ {n} :
               /\ position'[m] = position[m]
               /\ mFrameQueue'[m] = mFrameQueue[m] /\ delayQueue'[m] = delayQueue[m],
           n \in RelayNode =>
               /\ Carried(n)'
               /\ Len(sent[n]) < Len(accepted[n]) /\ f = accepted[n][Len(sent[n]) + 1]
    PROVE  Relayed
<1>1. /\ pc' = [pc EXCEPT ![n] = "offer"] /\ sent' = [sent EXCEPT ![n] = Append(@, f)]
      /\ UNCHANGED << mStop, accepted >> /\ pc \in [Node -> Label] /\ sent \in [Node -> Seq(Frame)]
    BY Known DEF Distribute, Goto, FlowInv, TypeOK, FrameSeq
<1>2. \A m \in Node \ {n} : pc'[m] = pc[m] /\ sent'[m] = sent[m]
    BY <1>1
<1>3. ASSUME NEW m \in RelayNode \ {n} PROVE Carried(m)' /\ InLoopStill(m)' = InLoopStill(m)
    <2>1. m \in Node \ {n} /\ Carried(m)
        BY DEF RelayNode, CarriedInv
    <2>2. Carried(m)'
        <3>1. CASE pc[m] = "ended"
            BY <1>2, <2>1, <3>1 DEF Carried
        <3>2. CASE pc[m] # "ended"
            BY <1>1, <1>2, <2>1, <3>2, CarriedStays
        <3>3. QED
            BY <3>1, <3>2
    <2>3. pc'[m] = pc[m] /\ mStop'[m] = mStop[m]
        BY <1>1, <1>2, <2>1
    <2>4. InLoopStill(m)' = InLoopStill(m)
        BY <2>3 DEF InLoopStill
    <2>5. QED
        BY <2>2, <2>4
<1>4. CarriedInv'
    BY <1>3 DEF CarriedInv, RelayNode
<1> DEFINE a == [m \in RelayNode |-> accepted[m]]
           s == [m \in RelayNode |-> sent[m]]
           o == [m \in RelayNode |-> InLoopStill(m)]
<1>5. RelayNode' = RelayNode
    BY DEF RelayNode
<1>6. a' = a
    BY <1>1, <1>5
<1>7. o' = o
    <2>1. InLoopStill(n)' = InLoopStill(n)
        BY DEF InLoopStill
    <2>2. QED
        BY <1>3, <1>5, <2>1
<1>8. CASE n \in RelayNode
    <2>1. s' = [s EXCEPT ![n] = Append(s[n], a[n][Len(s[n]) + 1])]
        <3>1. n \in Node /\ s[n] = sent[n] /\ a[n] = accepted[n] /\ s \in [RelayNode -> Seq(Frame)]
            BY <1>1, <1>8 DEF RelayNode
        <3>2. f = a[n][Len(s[n]) + 1]
            BY <1>8, <3>1
        <3>3. sent'[n] = Append(s[n], f) /\ \A m \in RelayNode \ {n} : sent'[m] = sent[m]
            BY <1>1, <1>2, <3>1 DEF RelayNode
        <3>4. s' = [m \in RelayNode |-> sent'[m]]
            BY <1>5
        <3>5. QED
            BY <1>8, <3>1, <3>2, <3>3, <3>4
    <2>2. Len(s[n]) < Len(a[n])
        BY <1>8
    <2>3. Relays!PassOn(n)
        BY <1>6, <1>7, <2>1, <2>2 DEF Relays!PassOn
    <2>4. QED
        BY <1>4, <1>8, <2>3 DEF Relayed, Relays!Next
<1>9. CASE n \notin RelayNode
    <2>1. s' = s
        BY <1>2, <1>5, <1>9 DEF RelayNode
    <2>2. UNCHANGED Relays!vars
        BY <1>6, <1>7, <2>1 DEF Relays!vars
    <2>3. QED
        BY <1>4, <2>2 DEF Relayed
<1>10. QED
    BY <1>8, <1>9
\* A consumer takes a frame: if it is a relay, it has accepted it; or it refuses it.
LEMMA QueueRelayed ==
    ASSUME FlowInv, CarriedInv, NEW n \in Node, NEW c \in Node, QueueFrame(n, c)
    PROVE  Relayed
<1> DEFINE e == current[n]
           a == [m \in RelayNode |-> accepted[m]]
           s == [m \in RelayNode |-> sent[m]]
           o == [m \in RelayNode |-> InLoopStill(m)]
<1>1. /\ UNCHANGED << pc, mStop, position, delayQueue, sent >> /\ pc[n] = "offer" /\ TypeOK /\ Placed(n)
    BY Known DEF QueueFrame
<1>2. RelayNode' = RelayNode
    BY DEF RelayNode
<1>3. o' = o
    <2>1. \A m \in RelayNode : InLoopStill(m)' = InLoopStill(m)
        BY <1>1 DEF InLoopStill
    <2>2. QED
        BY <1>2, <2>1
<1>4. s' = s
    BY <1>1, <1>2
<1>5. CASE UNCHANGED << mFrameQueue, accepted >>
    <2>1. CarriedInv'
        BY <1>1, <1>2, <1>5 DEF CarriedInv, Carried, Carries
    <2>2. a' = a
        BY <1>2, <1>5
    <2>3. QED
        BY <1>3, <1>4, <2>1, <2>2 DEF Relayed, Relays!vars
<1>6. CASE /\ mFrameQueue' = [mFrameQueue EXCEPT ![c] = Append(@, e)]
           /\ accepted' = [accepted EXCEPT ![c] = Append(@, e)]
    <2>1. /\ mFrameQueue \in [Node -> Seq(Frame)] /\ accepted \in [Node -> Seq(Frame)]
          /\ mFrameQueue[c] \in Seq(Frame) /\ accepted[c] \in Seq(Frame)
        BY <1>1 DEF TypeOK, FrameSeq
    <2>2. e \in Frame
        <3>1. sent[n] \in Seq(Frame) /\ sent[n] # << >> /\ e = sent[n][Len(sent[n])]
            BY <1>1, TypeFacts DEF Placed
        <3>2. Len(sent[n]) \in 1 .. Len(sent[n])
            BY <3>1, TailIsShorter
        <3>3. QED
            BY <3>1, <3>2, TypedIsTyped
    <2> HIDE DEF e
    <2>3. /\ mFrameQueue'[c] = Append(mFrameQueue[c], e) /\ accepted'[c] = Append(accepted[c], e)
          /\ \A m \in Node \ {c} : mFrameQueue'[m] = mFrameQueue[m] /\ accepted'[m] = accepted[m]
        BY <1>6, <2>1
    <2>4. /\ Longer(mFrameQueue'[c], mFrameQueue[c], e) /\ Longer(accepted'[c], accepted[c], e)
        BY <2>1, <2>2, <2>3, AppendIsLonger
    <2>5. ASSUME NEW m \in RelayNode PROVE Carried(m)'
        <3>1. m \in Node /\ Carried(m)
            BY DEF RelayNode, CarriedInv
        <3>2. CASE m # c
            BY <1>1, <2>3, <3>1, <3>2 DEF Carried, Carries
        <3>3. CASE m = c
            <4>1. CASE pc[c] = "ended"
                BY <1>1, <3>3, <4>1 DEF Carried
            <4>2. CASE pc[c] # "ended"
                <5>1. /\ Ints(accepted[c]) /\ Ints(delayQueue[c]) /\ Ints(mFrameQueue[c]) /\ Ints(sent[c])
                      /\ position[c] <= Len(mFrameQueue[c]) /\ position[c] \in Nat
                    BY <1>1, TypeFacts DEF TypeOK
                <5>2. Len(sent[c]) \in Nat
                    BY <5>1 DEF Ints
                <5>3. Carries(accepted[c], Len(sent[c]), delayQueue[c], mFrameQueue[c], position[c])
                    BY <3>1, <3>3, <4>2 DEF Carried
                <5>4. Carries(accepted'[c], Len(sent[c]), delayQueue[c], mFrameQueue'[c], position[c])
                    BY <2>4, <5>1, <5>2, <5>3, CarriesQueued
                <5>5. QED
                    BY <1>1, <3>3, <5>4 DEF Carried, Carries
            <4>3. QED
                BY <4>1, <4>2
        <3>4. QED
            BY <3>2, <3>3
    <2>6. CarriedInv'
        BY <1>2, <2>5 DEF CarriedInv
    <2>7. CASE c \in RelayNode
        <3>1. a' = [a EXCEPT ![c] = Append(a[c], e)]
            <4>1. a[c] = accepted[c] /\ a' = [m \in RelayNode |-> accepted'[m]]
                BY <1>2, <2>7
            <4>2. \A m \in RelayNode \ {c} : accepted'[m] = accepted[m]
                BY <2>3 DEF RelayNode
            <4>3. QED
                BY <2>3, <2>7, <4>1, <4>2
        <3>2. PICK f \in Frame : f = e
            BY <2>2
        <3>3. Relays!Accept(c, f)
            BY <1>3, <1>4, <3>1, <3>2 DEF Relays!Accept
        <3>4. Relays!Next
            BY <2>7, <3>2, <3>3 DEF Relays!Next
        <3>5. QED
            BY <2>6, <3>4 DEF Relayed
    <2>8. CASE c \notin RelayNode
        <3>1. a' = a
            BY <1>2, <2>3, <2>8 DEF RelayNode
        <3>2. QED
            BY <1>3, <1>4, <2>6, <3>1 DEF Relayed, Relays!vars
    <2>9. QED
        BY <2>7, <2>8
<1>7. QED
    BY <1>5, <1>6 DEF QueueFrame

\* A waiting component empties its queue: nothing of it was sent yet.
LEMMA RetryRelayed ==
    ASSUME FlowInv, CarriedInv, NEW n \in Node, ClearAndRetry(n)
    PROVE  Relayed
<1> DEFINE a == [m \in RelayNode |-> accepted[m]]
           s == [m \in RelayNode |-> sent[m]]
           o == [m \in RelayNode |-> InLoopStill(m)]
<1>1. /\ UNCHANGED << mStop, position, delayQueue, sent >> /\ pc[n] = "clear" /\ TypeOK /\ Placed(n)
      /\ mFrameQueue' = [mFrameQueue EXCEPT ![n] = << >>] /\ accepted' = [accepted EXCEPT ![n] = << >>]
      /\ pc' = [pc EXCEPT ![n] = "waitReady"]
    BY Known DEF ClearAndRetry, Goto
<1>2. /\ pc'[n] = "waitReady" /\ mFrameQueue'[n] = << >> /\ accepted'[n] = << >>
      /\ \A m \in Node \ {n} : pc'[m] = pc[m] /\ mFrameQueue'[m] = mFrameQueue[m] /\ accepted'[m] = accepted[m]
    BY <1>1 DEF TypeOK, FrameSeq
<1>3. sent[n] = << >> /\ delayQueue[n] = << >> /\ position[n] = 0
    BY <1>1 DEF Placed, Waiting, Passing
<1>4. RelayNode' = RelayNode
    BY DEF RelayNode
<1>5. ASSUME NEW m \in RelayNode PROVE Carried(m)' /\ InLoopStill(m)' = InLoopStill(m)
    <2>1. m \in Node /\ Carried(m)
        BY DEF RelayNode, CarriedInv
    <2>2. CASE m = n
        <3>1. Carries(accepted'[n], Len(sent'[n]), delayQueue'[n], mFrameQueue'[n], position'[n])
            BY <1>1, <1>2, <1>3, CarriesNothing
        <3>2. Carried(n)'
            BY <3>1 DEF Carried, Carries
        <3>3. InLoopStill(n)' = InLoopStill(n)
            BY <1>1, <1>2 DEF InLoopStill
        <3>4. QED
            BY <2>2, <3>2, <3>3
    <2>3. CASE m # n
        BY <1>1, <1>2, <2>1, <2>3 DEF Carried, Carries, InLoopStill
    <2>4. QED
        BY <2>2, <2>3
<1>6. CarriedInv'
    BY <1>4, <1>5 DEF CarriedInv
<1>7. s' = s /\ o' = o
    <2>1. s' = s
        BY <1>1, <1>4
    <2>2. o' = o
        BY <1>4, <1>5
    <2>3. QED
        BY <2>1, <2>2
<1>8. CASE n \in RelayNode
    <2>1. a' = [a EXCEPT ![n] = << >>]
        BY <1>2, <1>4, <1>8 DEF RelayNode
    <2>2. s[n] = << >>
        BY <1>3, <1>8
    <2>3. Relays!Discard(n)
        BY <1>7, <2>1, <2>2 DEF Relays!Discard
    <2>4. QED
        BY <1>6, <1>8, <2>3 DEF Relayed, Relays!Next
<1>9. CASE n \notin RelayNode
    <2>1. a' = a
        BY <1>2, <1>4, <1>9 DEF RelayNode
    <2>2. QED
        BY <1>6, <1>7, <2>1 DEF Relayed, Relays!vars
<1>10. QED
    BY <1>8, <1>9
-----------------------------------------------------------------------------
(* The other steps *)

Closing == {"end", "unlinkConsumers", "unlinkProvider", "clearQueue", "ended"}

\* A thread never comes back to its loop.
LEMMA StaysClosed ==
    ASSUME TypeOK, NEW n \in Node, NEW l, Goto(n, l), l \in Closing \/ pc[n] \notin Closing,
           mStop'[n] = mStop[n] \/ mStop'[n] = TRUE
    PROVE  InLoopStill(n)' => InLoopStill(n)
<1>1. pc'[n] = l
    BY DEF Goto, TypeOK
<1>2. InLoopStill(n)' => mStop'[n] = FALSE /\ l \notin Closing
    BY <1>1 DEF InLoopStill, Closing, TypeOK
<1>3. mStop[n] \in BOOLEAN
    BY DEF TypeOK
<1>4. QED
    BY <1>2, <1>3 DEF InLoopStill, Closing

LEMMA MoveRelayed ==
    ASSUME FlowInv, CarriedInv, NEW n \in Node, NEW l \in Label, Goto(n, l), pc[n] # "ended",
           l \in Closing \/ pc[n] \notin Closing, UNCHANGED << queues, sent >>,
           mStop'[n] = mStop[n] \/ mStop'[n] = TRUE, \A m \in Node \ {n} : mStop'[m] = mStop[m]
    PROVE  Relayed
<1>1. TypeOK /\ pc \in [Node -> Label] /\ UNCHANGED << mFrameQueue, position, delayQueue, accepted >>
    BY Known DEF queues
<1>2. \A m \in Node \ {n} : pc'[m] = pc[m]
    BY <1>1 DEF Goto
<1>3. InLoopStill(n)' => InLoopStill(n)
    BY <1>1, StaysClosed
<1>4. n \in RelayNode => Carried(n)'
    BY <1>1, CarriedStays DEF CarriedInv
<1>5. QED
    BY <1>1, <1>2, <1>3, <1>4, OwnRelayed

LEMMA QuietRelayed ==
    ASSUME FlowInv, CarriedInv, UNCHANGED << pc, queues, sent >>, NEW n \in Node,
           mStop'[n] = mStop[n] \/ mStop'[n] = TRUE, \A m \in Node \ {n} : mStop'[m] = mStop[m]
    PROVE  Relayed
<1>1. TypeOK /\ UNCHANGED << mFrameQueue, position, delayQueue, accepted >>
    BY DEF queues, FlowInv
<1>2. mStop[n] \in BOOLEAN
    BY <1>1 DEF TypeOK
<1>3. InLoopStill(n)' => InLoopStill(n)
    BY <1>2 DEF InLoopStill
<1>4. n \in RelayNode => Carried(n)'
    BY <1>1 DEF CarriedInv, Carried, Carries
<1>5. QED
    BY <1>1, <1>3, <1>4, OwnRelayed

LEMMA MovesRelayed ==
    ASSUME FlowInv, CarriedInv, NEW n \in Node,
           \/ WaitReady(n) \/ WaitWait(n) \/ ExitLoop(n) \/ LockQueue(n) \/ CheckProviders(n)
           \/ EndOffer(n) \/ EndDistribute(n) \/ SetEnded(n) \/ EndProviderCleanup(n)
           \/ UnlinkProvider(n) \/ KeepYoung(n)
    PROVE  Relayed
<1>1. TypeOK /\ Kind[n] \in LoopKind /\ mStop \in [Node -> BOOLEAN]
    BY Known
<1>2. CASE WaitReady(n)
    <2>1. PICK l \in {"end", "loop", "waitWait"} : Goto(n, l)
        BY <1>2 DEF WaitReady
    <2>2. pc[n] = "waitReady" /\ UNCHANGED << queues, sent, mStop >>
        BY <1>2 DEF WaitReady
    <2>3. QED
        BY <2>1, <2>2, MoveRelayed DEF Label, Closing
<1>3. CASE WaitWait(n)
    <2>1. PICK l \in {"end", "clear"} : Goto(n, l)
        BY <1>3 DEF WaitWait
    <2>2. pc[n] = "waitWait" /\ UNCHANGED << queues, sent, mStop >>
        BY <1>3 DEF WaitWait
    <2>3. QED
        BY <2>1, <2>2, MoveRelayed DEF Label, Closing
<1>4. CASE ExitLoop(n)
    <2>1. Goto(n, "end") /\ pc[n] = "loop" /\ UNCHANGED << queues, sent, mStop >>
        BY <1>4 DEF ExitLoop
    <2>2. QED
        BY <2>1, MoveRelayed DEF Label, Closing
<1>5. CASE LockQueue(n)
    <2>1. PICK l \in {"check", "batch"} : Goto(n, l)
        BY <1>5 DEF LockQueue
    <2>2. pc[n] = "loop" /\ UNCHANGED << queues, sent, mStop >>
        BY <1>5 DEF LockQueue, InLoop
    <2>3. QED
        BY <2>1, <2>2, MoveRelayed DEF Label, Closing
<1>6. CASE CheckProviders(n)
    <2>1. Goto(n, "loop") /\ pc[n] = "check" /\ UNCHANGED << queues, sent >>
        BY <1>6 DEF CheckProviders
    <2>2. mStop' = [mStop EXCEPT ![n] = @ \/ ~linked[n] \/ mState[ProviderOf[n]] = "ended"]
        BY <1>6 DEF CheckProviders
    <2>3. mStop'[n] = mStop[n] \/ mStop'[n] = TRUE
        <3>1. CASE ~linked[n] \/ mState[ProviderOf[n]] = "ended"
            BY <1>1, <2>2, <3>1
        <3>2. CASE ~(~linked[n] \/ mState[ProviderOf[n]] = "ended")
            BY <1>1, <2>2, <3>2
        <3>3. QED
            BY <3>1, <3>2
    <2>4. \A m \in Node \ {n} : mStop'[m] = mStop[m]
        BY <1>1, <2>2
    <2>5. "loop" \in Label /\ "loop" \notin Closing /\ pc[n] \notin Closing /\ pc[n] # "ended"
        BY <2>1 DEF Label, Closing
    <2>6. QED
        BY <2>1, <2>3, <2>4, <2>5, MoveRelayed
<1>7. CASE EndOffer(n)
    <2>1. Goto(n, "dropBad") /\ pc[n] = "offer" /\ UNCHANGED << queues, sent, mStop >>
        BY <1>7 DEF EndOffer
    <2>2. QED
        BY <2>1, MoveRelayed DEF Label, Closing
<1>8. CASE EndDistribute(n)
    <2>1. Goto(n, AfterDistribute[Kind[n]]) /\ pc[n] = "dropBad" /\ UNCHANGED << queues, sent, mStop >>
        BY <1>8 DEF EndDistribute
    <2>2. AfterDistribute[Kind[n]] \in {"loop", "batch", "check", "release"}
        BY <1>1 DEF LoopKind, AfterDistribute
    <2>3. PICK l \in {"loop", "batch", "check", "release"} : Goto(n, l)
        BY <2>1, <2>2
    <2>4. QED
        BY <2>1, <2>3, MoveRelayed DEF Label, Closing
<1>9. CASE SetEnded(n)
    <2>1. Goto(n, "unlinkConsumers") /\ pc[n] = "end" /\ UNCHANGED << queues, sent, mStop >>
        BY <1>9 DEF SetEnded
    <2>2. QED
        BY <2>1, MoveRelayed DEF Label, Closing
<1>10. CASE EndProviderCleanup(n)
    <2>1. PICK l \in {"ended", "unlinkProvider"} : Goto(n, l)
        BY <1>10 DEF EndProviderCleanup
    <2>2. pc[n] = "unlinkConsumers" /\ UNCHANGED << queues, sent, mStop >>
        BY <1>10 DEF EndProviderCleanup
    <2>3. QED
        BY <2>1, <2>2, MoveRelayed DEF Label, Closing
<1>11. CASE UnlinkProvider(n)
    <2>1. Goto(n, "clearQueue") /\ pc[n] = "unlinkProvider" /\ UNCHANGED << queues, sent, mStop >>
        BY <1>11 DEF UnlinkProvider
    <2>2. QED
        BY <2>1, MoveRelayed DEF Label, Closing
<1>12. CASE KeepYoung(n)
    <2>1. Goto(n, "check") /\ pc[n] = "release" /\ UNCHANGED << queues, sent, mStop >>
        BY <1>12 DEF KeepYoung
    <2>2. QED
        BY <2>1, MoveRelayed DEF Label, Closing
<1>13. QED
    BY <1>2, <1>3, <1>4, <1>5, <1>6, <1>7, <1>8, <1>9, <1>10, <1>11, <1>12
LEMMA TakeRelayed ==
    ASSUME FlowInv, CarriedInv, NEW n \in Node,
           \/ ClearBatch(n) \/ TakeNone(n) \/ TakeAll(n) \/ ClearQueue(n)
    PROVE  Relayed
<1>1. /\ TypeOK /\ Placed(n) /\ pc \in [Node -> Label] /\ mFrameQueue \in [Node -> Seq(Frame)]
      /\ delayQueue \in [Node -> Seq(Frame)] /\ position \in [Node -> Nat]
      /\ accepted[n] \in Seq(Frame) /\ Ints(accepted[n]) /\ Ints(delayQueue[n]) /\ Ints(mFrameQueue[n])
      /\ delayQueue[n] \in Seq(Frame) /\ mFrameQueue[n] \in Seq(Frame) /\ Len(sent[n]) \in Nat
    BY Known, TypeFacts DEF FrameSeq, Ints
<1>2. n \in RelayNode /\ pc[n] # "ended" =>
          Carries(accepted[n], Len(sent[n]), delayQueue[n], mFrameQueue[n], position[n])
    BY DEF CarriedInv, Carried
<1>3. CASE ClearBatch(n)
    <2>1. /\ UNCHANGED << mStop, delayQueue, accepted, sent >> /\ pc[n] = "batch"
          /\ Kind[n] = "batch" => position[n] = Len(mFrameQueue[n])
          /\ mFrameQueue' = [mFrameQueue EXCEPT ![n] = << >>] /\ position' = [position EXCEPT ![n] = 0]
          /\ Goto(n, "check")
        BY <1>3 DEF ClearBatch, BatchDone
    <2>2. /\ pc'[n] = "check" /\ mFrameQueue'[n] = << >> /\ position'[n] = 0
          /\ \A m \in Node \ {n} :
                pc'[m] = pc[m] /\ mFrameQueue'[m] = mFrameQueue[m] /\ position'[m] = position[m]
        BY <1>1, <2>1 DEF Goto
    <2>3. n \in RelayNode => Carried(n)'
        <3>1. ASSUME n \in RelayNode PROVE Carried(n)'
            <4>1. Kind[n] = "batch"
                BY <1>1, <2>1, <3>1 DEF Placed, Locking, RelayNode
            <4>2. Carries(accepted[n], Len(sent[n]), delayQueue[n], << >>, 0)
                BY <1>1, <1>2, <2>1, <3>1, <4>1, CarriesCleared
            <4>3. QED
                BY <2>1, <2>2, <4>2 DEF Carried, Carries
        <3>2. QED
            BY <3>1
    <2>4. InLoopStill(n)' => InLoopStill(n)
        BY <1>1, <2>1, StaysClosed DEF Closing
    <2>5. QED
        BY <2>1, <2>2, <2>3, <2>4, OwnRelayed
<1>4. CASE TakeNone(n)
    <2>1. /\ UNCHANGED << mStop, delayQueue, accepted, sent, position >> /\ pc[n] = "loop"
          /\ Kind[n] = "paced" /\ Goto(n, "check")
          /\ mFrameQueue' = [mFrameQueue EXCEPT ![n] = IF @ = << >> THEN @ ELSE RemainingQueue(n)]
        BY <1>4 DEF TakeNone, InLoop
    <2>2. \A m \in Node \ {n} : pc'[m] = pc[m] /\ mFrameQueue'[m] = mFrameQueue[m]
        BY <1>1, <2>1 DEF Goto
    <2>3. n \notin RelayNode
        BY <2>1 DEF RelayNode
    <2>4. InLoopStill(n)' => InLoopStill(n)
        BY <1>1, <2>1, StaysClosed DEF Closing
    <2>5. QED
        BY <2>1, <2>2, <2>3, <2>4, OwnRelayed
<1>5. CASE TakeAll(n)
    <2> DEFINE t == delayQueue[n] \o mFrameQueue[n]
    <2>1. /\ UNCHANGED << mStop, accepted, sent, position >> /\ pc[n] = "loop" /\ Kind[n] = "delay"
          /\ mFrameQueue' = [mFrameQueue EXCEPT ![n] = << >>] /\ delayQueue' = [delayQueue EXCEPT ![n] = t]
          /\ Goto(n, "release")
        BY <1>5 DEF TakeAll, InLoop
    <2>2. /\ mFrameQueue'[n] = << >> /\ delayQueue'[n] = t
          /\ \A m \in Node \ {n} :
                pc'[m] = pc[m] /\ mFrameQueue'[m] = mFrameQueue[m] /\ delayQueue'[m] = delayQueue[m]
        BY <1>1, <2>1 DEF Goto
    <2>3. Joined(t, delayQueue[n], mFrameQueue[n])
        BY <1>1, ConcatIsJoined
    <2> HIDE DEF t
    <2>4. position[n] = 0
        BY <1>1, <2>1 DEF Placed, Passing
    <2>5. n \in RelayNode => Carried(n)'
        <3>1. ASSUME n \in RelayNode PROVE Carried(n)'
            <4>1. Carries(accepted[n], Len(sent[n]), t, << >>, 0)
                BY <1>1, <1>2, <2>1, <2>3, <2>4, <3>1, CarriesMoved
            <4>2. Carries(accepted'[n], Len(sent'[n]), delayQueue'[n], mFrameQueue'[n], position'[n])
                BY <2>1, <2>2, <2>4, <4>1
            <4>3. QED
                BY <4>2 DEF Carried, Carries
        <3>2. QED
            BY <3>1
    <2>6. InLoopStill(n)' => InLoopStill(n)
        BY <1>1, <2>1, StaysClosed DEF Closing
    <2>7. QED
        BY <2>1, <2>2, <2>5, <2>6, OwnRelayed
<1>6. CASE ClearQueue(n)
    <2>1. /\ UNCHANGED << mStop, accepted, sent, position >> /\ pc[n] = "clearQueue" /\ Goto(n, "ended")
          /\ mFrameQueue' = [mFrameQueue EXCEPT ![n] = << >>]
          /\ delayQueue' = [delayQueue EXCEPT ![n] = << >>]
        BY <1>6 DEF ClearQueue
    <2>2. /\ pc'[n] = "ended"
          /\ \A m \in Node \ {n} :
                pc'[m] = pc[m] /\ mFrameQueue'[m] = mFrameQueue[m] /\ delayQueue'[m] = delayQueue[m]
        BY <1>1, <2>1 DEF Goto
    <2>3. Carried(n)'
        BY <2>2 DEF Carried
    <2>4. InLoopStill(n)' => InLoopStill(n)
        BY <1>1, <2>1, StaysClosed DEF Closing
    <2>5. QED
        BY <2>1, <2>2, <2>3, <2>4, OwnRelayed
<1>7. QED
    BY <1>3, <1>4, <1>5, <1>6

LEMMA SendsRelayed ==
    ASSUME FlowInv, CarriedInv, NEW n \in Node,
           \/ Capture(n) \/ RelayNext(n) \/ EncodeFirst(n) \/ TakeOne(n) \/ ReleaseOld(n)
    PROVE  Relayed
<1>1. /\ TypeOK /\ Placed(n) /\ pc \in [Node -> Label] /\ mFrameQueue \in [Node -> Seq(Frame)]
      /\ delayQueue \in [Node -> Seq(Frame)] /\ position \in [Node -> Nat] /\ position[n] \in Nat
      /\ accepted[n] \in Seq(Frame) /\ Ints(accepted[n]) /\ Ints(delayQueue[n]) /\ Ints(mFrameQueue[n])
      /\ delayQueue[n] \in Seq(Frame) /\ mFrameQueue[n] \in Seq(Frame)
      /\ sent[n] \in Seq(Frame) /\ Ints(sent[n]) /\ Len(sent[n]) \in Nat
    BY Known, TypeFacts DEF FrameSeq, Ints
<1>2. n \in RelayNode /\ pc[n] # "ended" =>
          Carries(accepted[n], Len(sent[n]), delayQueue[n], mFrameQueue[n], position[n])
    BY DEF CarriedInv, Carried
<1>3. ASSUME NEW f \in Frame, Distribute(n, f), pc[n] \notin Closing
      PROVE  (InLoopStill(n)' <=> InLoopStill(n)) /\ Len(sent'[n]) = Len(sent[n]) + 1 /\ accepted' = accepted
    <2>1. Longer(sent'[n], sent[n], f) /\ accepted' = accepted
        BY <1>3, SentLonger
    <2>2. pc'[n] = "offer" /\ mStop' = mStop
        BY <1>1, <1>3 DEF Distribute, Goto
    <2>3. InLoopStill(n)' <=> InLoopStill(n)
        BY <1>3, <2>2 DEF InLoopStill, Closing
    <2>4. QED
        BY <2>1, <2>3 DEF Longer
<1>4. CASE Capture(n) \/ EncodeFirst(n) \/ TakeOne(n)
    <2>1. /\ Kind[n] \in {"source", "encoder", "paced"} /\ pc[n] \in {"loop", "batch"}
          /\ UNCHANGED delayQueue /\ \A m \in Node \ {n} :
                position'[m] = position[m] /\ mFrameQueue'[m] = mFrameQueue[m]
        BY <1>1, <1>4 DEF Capture, EncodeFirst, TakeOne, InLoop
    <2>2. PICK f \in Frame : Distribute(n, f)
        <3>1. CASE Capture(n)
            <4>1. Len(sent[n]) + 1 \in Frame
                BY <1>1, <3>1, BoundAssumption DEF Capture, Frame
            <4>2. QED
                BY <3>1, <4>1 DEF Capture
        <3>2. CASE EncodeFirst(n)
            <4>1. mFrameQueue[n] # << >> /\ Distribute(n, mFrameQueue[n][1])
                BY <1>1, <3>2 DEF EncodeFirst, Placed, Passing, Locking
            <4>2. mFrameQueue[n][1] \in Frame
                BY <1>1, <4>1, TailIsShorter
            <4>3. QED
                BY <4>1, <4>2
        <3>3. CASE TakeOne(n)
            <4>1. mFrameQueue[n] # << >> /\ Distribute(n, Head(mFrameQueue[n]))
                BY <3>3 DEF TakeOne
            <4>2. Head(mFrameQueue[n]) \in Frame
                BY <1>1, <4>1, TailIsShorter
            <4>3. QED
                BY <4>1, <4>2
        <3>4. QED
            BY <1>4, <3>1, <3>2, <3>3
    <2>3. pc[n] \notin Closing /\ pc[n] # "ended" /\ n \notin RelayNode
        BY <2>1 DEF Closing, RelayNode
    <2>4. InLoopStill(n)' <=> InLoopStill(n)
        BY <1>3, <2>2, <2>3
    <2>5. QED
        BY <2>1, <2>2, <2>3, <2>4, SendRelayed
<1>5. CASE RelayNext(n)
    <2> DEFINE f == mFrameQueue[n][position[n] + 1]
    <2>1. /\ pc[n] = "batch" /\ Kind[n] = "batch" /\ position[n] < Len(mFrameQueue[n]) /\ Distribute(n, f)
          /\ UNCHANGED << mFrameQueue, delayQueue >> /\ position' = [position EXCEPT ![n] = @ + 1]
        BY <1>5 DEF RelayNext
    <2>2. position'[n] = position[n] + 1 /\ \A m \in Node \ {n} : position'[m] = position[m]
        BY <1>1, <2>1
    <2>3. f \in Frame
        <3>1. position[n] + 1 \in 1 .. Len(mFrameQueue[n])
            BY <1>1, <2>1 DEF Ints
        <3>2. QED
            BY <1>1, <3>1, TypedIsTyped
    <2>4. Len(delayQueue[n]) = 0
        BY <1>1, <2>1, EmptyIsTyped DEF Placed
    <2>5. n \in RelayNode /\ pc[n] # "ended" /\ pc[n] \notin Closing
        BY <2>1 DEF RelayNode, Closing
    <2>6. /\ Len(sent[n]) < Len(accepted[n]) /\ accepted[n][Len(sent[n]) + 1] = f
          /\ Carries(accepted[n], Len(sent[n]) + 1, delayQueue[n], mFrameQueue[n], position[n] + 1)
        BY <1>1, <1>2, <2>1, <2>4, <2>5, CarriesSent
    <2> HIDE DEF f
    <2>7. (InLoopStill(n)' <=> InLoopStill(n)) /\ Len(sent'[n]) = Len(sent[n]) + 1 /\ accepted' = accepted
        BY <1>3, <2>1, <2>3, <2>5
    <2>8. Carried(n)'
        BY <2>1, <2>2, <2>6, <2>7 DEF Carried, Carries
    <2>9. QED
        BY <2>1, <2>2, <2>3, <2>5, <2>6, <2>7, <2>8, SendRelayed
<1>6. CASE ReleaseOld(n)
    <2> DEFINE d == delayQueue[n]
               f == Head(d)
    <2>1. /\ pc[n] = "release" /\ d # << >> /\ Distribute(n, f)
          /\ UNCHANGED << mFrameQueue, position >> /\ delayQueue' = [delayQueue EXCEPT ![n] = Tail(d)]
        BY <1>6 DEF ReleaseOld
    <2>2. Shorter(Tail(d), d) /\ f \in Frame /\ f = d[1] /\ Len(d) > 0
        BY <1>1, <2>1, TailIsShorter
    <2>3. Kind[n] = "delay" /\ position[n] = 0
        BY <1>1, <2>1 DEF Placed, Passing
    <2>4. n \in RelayNode /\ pc[n] # "ended" /\ pc[n] \notin Closing
        BY <2>1, <2>3 DEF RelayNode, Closing
    <2> DEFINE r == Tail(d)
    <2>5. /\ delayQueue'[n] = r /\ \A m \in Node \ {n} : delayQueue'[m] = delayQueue[m]
        BY <1>1, <2>1
    <2>6. Ints(d) /\ Carries(accepted[n], Len(sent[n]), d, mFrameQueue[n], 0)
        BY <1>1, <1>2, <2>3, <2>4
    <2> HIDE DEF d, f, r
    <2>7. Shorter(r, d)
        BY <2>2 DEF r
    <2>8. /\ Len(sent[n]) < Len(accepted[n]) /\ accepted[n][Len(sent[n]) + 1] = f
          /\ Carries(accepted[n], Len(sent[n]) + 1, r, mFrameQueue[n], 0)
        BY <1>1, <2>2, <2>6, <2>7, CarriesReleased
    <2>9. (InLoopStill(n)' <=> InLoopStill(n)) /\ Len(sent'[n]) = Len(sent[n]) + 1 /\ accepted' = accepted
        BY <1>3, <2>1, <2>2, <2>4
    <2>10. Carried(n)'
        BY <2>1, <2>3, <2>5, <2>8, <2>9, ZenonT(60) DEF Carried, Carries
    <2>11. QED
        BY <2>1, <2>2, <2>4, <2>5, <2>8, <2>9, <2>10, SendRelayed
<1>7. QED
    BY <1>4, <1>5, <1>6

-----------------------------------------------------------------------------
(* The refinement *)

LEMMA RelayedInitially == Init => CarriedInv /\ Relays!Init
<1> SUFFICES ASSUME Init PROVE CarriedInv /\ Relays!Init
    OBVIOUS
<1>1. ASSUME NEW n \in RelayNode
      PROVE  /\ accepted[n] = << >> /\ sent[n] = << >> /\ delayQueue[n] = << >> /\ mFrameQueue[n] = << >>
             /\ position[n] = 0 /\ InLoopStill(n) = TRUE
    BY DEF Init, RelayNode, InLoopStill
<1>2. CarriedInv
    <2>1. ASSUME NEW n \in RelayNode PROVE Carried(n)
        BY <1>1, CarriesNothing DEF Carried
    <2>2. QED
        BY <2>1 DEF CarriedInv
<1>3. Relays!Init
    BY <1>1 DEF Relays!Init
<1>4. QED
    BY <1>2, <1>3

LEMMA RelayedStep == FlowInv /\ CarriedInv /\ [Next]_vars => Relayed
<1> SUFFICES ASSUME FlowInv, CarriedInv, [Next]_vars PROVE Relayed
    OBVIOUS
<1>1. ASSUME NEW n \in Node, Loop(n) PROVE Relayed
    <2>1. CASE \E c \in Node : QueueFrame(n, c)
        BY <2>1, QueueRelayed
    <2>2. CASE \E c \in Node : DropBad(n, c) \/ UnlinkConsumer(n, c)
        <3>1. UNCHANGED << pc, queues, sent, mStop >>
            BY <2>2 DEF DropBad, UnlinkConsumer
        <3>2. QED
            BY <3>1, QuietRelayed
    <2>3. CASE \/ WaitReady(n) \/ WaitWait(n) \/ ExitLoop(n) \/ LockQueue(n) \/ CheckProviders(n)
               \/ EndOffer(n) \/ EndDistribute(n) \/ SetEnded(n) \/ EndProviderCleanup(n) \/ UnlinkProvider(n)
        BY <2>3, MovesRelayed
    <2>4. CASE ClearAndRetry(n)
        BY <2>4, RetryRelayed
    <2>5. CASE ClearBatch(n) \/ TakeNone(n) \/ TakeAll(n) \/ ClearQueue(n)
        BY <2>5, TakeRelayed
    <2>6. CASE RelayNext(n) \/ EncodeFirst(n) \/ TakeOne(n)
        BY <2>6, SendsRelayed
    <2>7. QED
        BY <1>1, <2>1, <2>2, <2>3, <2>4, <2>5, <2>6 DEF Loop
<1>2. ASSUME NEW n \in Node, Capture(n) \/ ReleaseOld(n) \/ KeepYoung(n) PROVE Relayed
    BY <1>2, SendsRelayed, MovesRelayed
<1>3. ASSUME NEW n \in Node, Stop(n) PROVE Relayed
    <2>1. UNCHANGED << pc, queues, sent >> /\ mStop' = [mStop EXCEPT ![n] = TRUE]
        BY <1>3 DEF Stop
    <2>2. mStop'[n] = TRUE /\ \A m \in Node \ {n} : mStop'[m] = mStop[m]
        BY <2>1 DEF FlowInv, TypeOK
    <2>3. QED
        BY <2>1, <2>2, QuietRelayed
<1>4. CASE UNCHANGED vars
    <2>1. UNCHANGED << pc, mStop, mFrameQueue, position, delayQueue, accepted, sent >>
        BY <1>4 DEF vars, queues
    <2>2. RelayNode' = RelayNode
        BY DEF RelayNode
    <2>3. CarriedInv'
        BY <2>1, <2>2 DEF CarriedInv, Carried, Carries
    <2>4. UNCHANGED Relays!vars
        BY <2>1, <2>2 DEF Relays!vars, InLoopStill
    <2>5. QED
        BY <2>3, <2>4 DEF Relayed
<1>5. QED
    BY <1>1, <1>2, <1>3, <1>4 DEF Next

\* The batch and delay loops implement FrameRelay, without its fairness: in any tree of components,
\* what such a loop sends is, frame by frame, what it accepted, until it leaves its loop
\* (ozVideoFilter.cpp:64-90, ozDelayBuffer.cpp:35-70).
THEOREM FlowRelaysFrames == Spec => Relays!Spec
<1>1. Init => CarriedInv /\ Relays!Init
    BY RelayedInitially
<1>2. FlowInv /\ CarriedInv /\ [Next]_vars => CarriedInv' /\ [Relays!Next]_(Relays!vars)
    BY RelayedStep DEF Relayed
<1>3. QED
    BY <1>1, <1>2, FlowInvariant, PTL DEF Spec, Relays!Spec
================================================================================
