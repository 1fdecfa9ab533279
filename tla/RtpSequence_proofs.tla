------------------------- MODULE RtpSequence_proofs -------------------------
(***************************************************************************)
(* Proofs about RTP, sent and received.  RtpSequence: the numbers of the   *)
(* packets are followed, and the loss that is reported is what did not     *)
(* arrive, for any source, any order of arrival and any width of the       *)
(* numbers.  RtspPackets: a receiver puts any frame together from its      *)
(* packets, whatever their size.                                           *)
(***************************************************************************)
EXTENDS RtpSequence, RtspPackets, FiniteSetTheorems, SequenceTheorems, WellFoundedInduction, TLAPS

-----------------------------------------------------------------------------
(***************************************************************************)
(* What the sizes of the numbers mean, and the handling of a packet.       *)
(***************************************************************************)

(***************************************************************************)
(* RtpSession: the packets' numbers                                        *)
(***************************************************************************)
Divides(a, M, q, r) == q \in Int /\ r \in 0 .. M - 1 /\ r = a % M /\ a = q * M + r

LEMMA RemainderParts ==
  ASSUME NEW M \in Nat \ {0}, NEW a \in Int
  PROVE  \E q, r : Divides(a, M, q, r)
<1>1. \E q \in Int, r \in Int : q = a \div M /\ r = a % M /\ a = q * M + r
  BY Z3
<1>2. a % M \in 0 .. M - 1
  OBVIOUS
<1> QED
  BY <1>1, <1>2 DEF Divides

(* The remainder of a number within a cycle of the least ones. *)
LEMMA RemainderNear ==
  ASSUME NEW M \in Nat \ {0}, NEW a \in Int
  PROVE  /\ a \in 0 .. M - 1 => a % M = a
         /\ a \in -M .. -1 => a % M = a + M
         /\ a \in M .. 2 * M - 1 => a % M = a - M
<1>1. ASSUME NEW r \in 0 .. M - 1, NEW q \in Int
      PROVE  (q * M + r) % M = r
  OBVIOUS
<1>2. a \in 0 .. M - 1 => (0 * M + a) % M = a
  BY <1>1
<1>3. a \in -M .. -1 => a + M \in 0 .. M - 1 /\ (-1) * M + (a + M) = a
  OBVIOUS
<1>4. a \in M .. 2 * M - 1 => a - M \in 0 .. M - 1 /\ 1 * M + (a - M) = a
  OBVIOUS
<1>5. 0 * M + a = a
  OBVIOUS
<1>6. a \in -M .. -1 => ((-1) * M + (a + M)) % M = a + M
  BY <1>1, <1>3
<1>7. a \in M .. 2 * M - 1 => (1 * M + (a - M)) % M = a - M
  BY <1>1, <1>4
<1> QED
  BY <1>2, <1>3, <1>4, <1>5, <1>6, <1>7

(* The numbers of two packets less than a cycle apart. *)
(* The remainders a and b of n and k are as far apart as these, or a cycle more or less. *)
Apart(n, k, M, a, b) == (n - k) - (a - b) \in {-M, 0, M} /\ a \in 0 .. M - 1 /\ b \in 0 .. M - 1

LEMMA NumbersApart ==
  ASSUME NEW M \in Nat \ {0}, NEW n \in Int, NEW k \in Int, n - k <= M, k - n <= M
  PROVE  Apart(n, k, M, n % M, k % M)
<1>1. PICK q, r : Divides(n, M, q, r)
  BY RemainderParts
<1>2. PICK p, s : Divides(k, M, p, s)
  BY RemainderParts
<1>3. /\ q \in Int /\ r \in 0 .. M - 1 /\ r = n % M /\ n = q * M + r
      /\ p \in Int /\ s \in 0 .. M - 1 /\ s = k % M /\ k = p * M + s
  BY <1>1, <1>2 DEF Divides
<1> PICK d : d = q - p
  OBVIOUS
<1>4. d \in Int /\ d * M = q * M - p * M /\ d * M \in Int
  BY <1>3
<1>5. d * M = (n - k) - (r - s)
  BY <1>3, <1>4
<1>6. d * M <= 2 * M - 1 /\ d * M >= -(2 * M - 1)
  BY <1>3, <1>5
<1>7. d >= 2 => (d - 2) * M >= 0
  BY <1>4
<1>8. d <= -2 => (-2 - d) * M >= 0
  BY <1>4
<1>9. (d - 2) * M = d * M - 2 * M /\ (-2 - d) * M = -2 * M - d * M
  BY <1>4
<1>10. d < 2 /\ d > -2
  BY <1>4, <1>6, <1>7, <1>8, <1>9
<1>11. d * M \in {-M, 0, M}
  <2>1. d = -1 \/ d = 0 \/ d = 1
    BY <1>4, <1>10
  <2> QED
    BY <1>4, <2>1
<1>12. (n - k) - (r - s) \in {-M, 0, M}
  BY <1>3, <1>4, <1>5, <1>11
<1>13. r = n % M /\ s = k % M /\ r \in 0 .. M - 1 /\ s \in 0 .. M - 1
  BY <1>3
<1> QED
  BY <1>12, <1>13 DEF Apart

LEMMA RemainderSmall ==
  ASSUME NEW M \in Nat \ {0}, NEW a \in Nat
  PROVE  a % M <= a
<1>1. PICK q, r : Divides(a, M, q, r)
  BY RemainderParts
<1>2. q \in Int /\ r \in 0 .. M - 1 /\ r = a % M /\ a = q * M + r
  BY <1>1 DEF Divides
<1>3. q < 0 => (-1 - q) * M >= 0
  BY <1>2
<1>4. (-1 - q) * M = -M - q * M
  BY <1>2
<1>5. q >= 0
  BY <1>2, <1>3, <1>4
<1>6. q * M >= 0
  BY <1>5, <1>2
<1> QED
  BY <1>2, <1>6

LEMMA QuotientBelow ==
  ASSUME NEW M \in Nat \ {0}, NEW N \in Nat, NEW a \in Nat, a < M * N
  PROVE  a \div M \in 0 .. N - 1
<1>1. PICK q \in Int, r \in Int : q = a \div M /\ r = a % M /\ a = q * M + r
  BY Z3
<1>2. r \in 0 .. M - 1
  BY <1>1
<1>3. q < 0 => (-1 - q) * M >= 0
  BY <1>1
<1>4. (-1 - q) * M = -M - q * M
  BY <1>1
<1>5. q >= N => (q - N) * M >= 0
  BY <1>1
<1>6. (q - N) * M = q * M - N * M /\ N * M = M * N /\ M * N \in Int /\ q * M \in Int
  BY <1>1
<1>7. q >= 0 /\ q < N
  BY <1>1, <1>2, <1>3, <1>4, <1>5, <1>6
<1> QED
  BY <1>1, <1>7

(* The sizes of things. *)
LEMMA SequenceSizes ==
  /\ OZ_RTP_SEQ_MOD \in Nat \ {0} /\ MAX_DROPOUT \in Nat /\ MAX_MISORDER \in Nat /\ MaxNumber \in Nat /\ Word \in Nat
  /\ 1 < MAX_DROPOUT /\ MAX_DROPOUT < OZ_RTP_SEQ_MOD - MAX_MISORDER
  /\ Garbage \in 0 .. Word - 1 /\ Word > 256 * MaxNumber /\ Word \in Nat \ {0}
  /\ \A n \in FirstNumbers : n \in 1 .. MaxNumber
BY SequenceAssumption

LEMMA SequenceInitially == SequenceInit => SequenceInv
<1> SUFFICES ASSUME SequenceInit
             PROVE  SequenceInv
  OBVIOUS
<1>1. /\ number \in 1 .. MaxNumber /\ flight = {} /\ base = 0 /\ newest = 0
      /\ interval = [known |-> FALSE, from |-> 0, got |-> {}]
  BY SequenceSizes DEF SequenceInit, NewInterval
<1>2. rtp = [mBaseSeq |-> 0, mMaxSeq |-> OZ_RTP_SEQ_MOD - 1, mBadSeq |-> OZ_RTP_SEQ_MOD + 1, mCycles |-> 0,
             mProbation |-> 2, mExpectedPrior |-> 0, mReceivedPackets |-> Garbage, mReceivedPrior |-> 0,
             mLostFraction |-> 0]
  BY DEF SequenceInit, NewSession, MIN_SEQUENTIAL
<1>3. rtp \in SessionType
  BY <1>2, SequenceSizes DEF SessionType, MIN_SEQUENTIAL
<1>4. SequenceTyped
  BY <1>1, <1>3, SequenceSizes DEF SequenceTyped
<1>5. Tracked
  BY <1>1, <1>2 DEF Tracked
<1>6. IntervalCounted
  BY <1>1, FS_EmptySet DEF IntervalCounted
<1> QED
  BY <1>4, <1>5, <1>6 DEF SequenceInv

(* What a packet of a number does to a session. *)
LEMMA CountedIs ==
  ASSUME NEW r \in SessionType
  PROVE  /\ Counted(r) \in SessionType
         /\ Counted(r) = [r EXCEPT !.mReceivedPackets = Counted(r).mReceivedPackets]
         /\ Counted(r).mReceivedPackets \in {r.mReceivedPackets + 1, r.mReceivedPackets + 1 - Word}
<1>1. r.mReceivedPackets \in 0 .. Word - 1 /\ Word \in Nat \ {0}
  BY SequenceSizes DEF SessionType
<1> DEFINE x == (r.mReceivedPackets + 1) % Word
<1>2. x \in {r.mReceivedPackets + 1, r.mReceivedPackets + 1 - Word} /\ x \in 0 .. Word - 1
  <2>1. r.mReceivedPackets + 1 \in Int
    BY <1>1
  <2>2. /\ r.mReceivedPackets + 1 \in 0 .. Word - 1 => x = r.mReceivedPackets + 1
        /\ r.mReceivedPackets + 1 \in Word .. 2 * Word - 1 => x = r.mReceivedPackets + 1 - Word
    BY <1>1, <2>1, RemainderNear
  <2> HIDE DEF x
  <2> QED
    BY <1>1, <2>2
<1>3. Counted(r) = [r EXCEPT !.mReceivedPackets = x]
  BY DEF Counted
<1> HIDE DEF x
<1> QED
  BY <1>2, <1>3 DEF SessionType

LEMMA InitSeqIs ==
  ASSUME NEW r \in SessionType, NEW seq \in 0 .. OZ_RTP_SEQ_MOD - 1
  PROVE  InitSeq(r, seq) \in SessionType
<1>1. 0 \in 0 .. Word - 1 /\ OZ_RTP_SEQ_MOD + 1 \in 0 .. OZ_RTP_SEQ_MOD + 1
  BY SequenceSizes
<1> QED
  BY <1>1 DEF InitSeq, SessionType

(* In probation: it goes on, or counting begins with this packet. *)
LEMMA ProbationIs ==
  ASSUME NEW r \in SessionType, NEW seq \in 0 .. OZ_RTP_SEQ_MOD - 1, r.mProbation > 0
  PROVE  LET s == InProbation(r, seq)
         IN  /\ s \in SessionType
             /\ \/ /\ s.mProbation = 1 /\ s.mReceivedPackets = r.mReceivedPackets /\ s.mReceivedPrior = r.mReceivedPrior
                \/ /\ s.mProbation = 0 /\ r.mProbation = 1
                   /\ s.mBaseSeq = seq /\ s.mMaxSeq = seq /\ s.mCycles = 0 /\ s.mExpectedPrior = 0
                   /\ s.mReceivedPrior = r.mReceivedPrior
                   /\ s.mReceivedPackets \in {r.mReceivedPackets + 1, r.mReceivedPackets + 1 - Word}
<1> DEFINE s == InProbation(r, seq)
<1>1. r.mProbation \in 1 .. 2
  BY DEF SessionType, MIN_SEQUENTIAL
<1>2. CASE seq # r.mMaxSeq + 1
  <2>1. s = [r EXCEPT !.mProbation = 1, !.mMaxSeq = seq]
    BY <1>2 DEF InProbation, MIN_SEQUENTIAL
  <2> HIDE DEF s
  <2>2. s \in SessionType
    <3>1. 1 \in 0 .. 2
      OBVIOUS
    <3> DEFINE t == [r EXCEPT !.mProbation = 1]
    <3>2. t \in SessionType
      BY <3>1 DEF SessionType, MIN_SEQUENTIAL
    <3>3. s = [t EXCEPT !.mMaxSeq = seq]
      BY <2>1
    <3> HIDE DEF t
    <3> QED
      BY <3>2, <3>3 DEF SessionType
  <2>3. s.mProbation = 1 /\ s.mReceivedPackets = r.mReceivedPackets /\ s.mReceivedPrior = r.mReceivedPrior
    BY <2>1 DEF SessionType
  <2> QED
    BY <2>2, <2>3 DEF s
<1>3. CASE seq = r.mMaxSeq + 1 /\ r.mProbation > 1
  <2>1. s = [r EXCEPT !.mProbation = r.mProbation - 1, !.mMaxSeq = seq] /\ r.mProbation - 1 = 1
    BY <1>1, <1>3 DEF InProbation
  <2> HIDE DEF s
  <2>2. s \in SessionType
    <3>1. 1 \in 0 .. 2
      OBVIOUS
    <3> DEFINE t == [r EXCEPT !.mProbation = 1]
    <3>2. t \in SessionType
      BY <3>1 DEF SessionType, MIN_SEQUENTIAL
    <3>3. s = [t EXCEPT !.mMaxSeq = seq]
      BY <2>1
    <3> HIDE DEF t
    <3> QED
      BY <3>2, <3>3 DEF SessionType
  <2>3. s.mProbation = 1 /\ s.mReceivedPackets = r.mReceivedPackets /\ s.mReceivedPrior = r.mReceivedPrior
    BY <2>1 DEF SessionType
  <2> QED
    BY <2>2, <2>3 DEF s
<1>4. CASE seq = r.mMaxSeq + 1 /\ ~(r.mProbation > 1)
  <2> DEFINE t == [r EXCEPT !.mProbation = 0]
             u == InitSeq(t, seq)
  <2>1. s = Counted(u) /\ r.mProbation = 1
    BY <1>1, <1>4 DEF InProbation
  <2>2. t \in SessionType
    BY DEF SessionType, MIN_SEQUENTIAL
  <2>3. u \in SessionType
    BY <2>2, InitSeqIs
  <2>4. /\ u.mProbation = 0 /\ u.mBaseSeq = seq /\ u.mMaxSeq = seq /\ u.mCycles = 0 /\ u.mExpectedPrior = 0
        /\ u.mReceivedPackets = r.mReceivedPackets /\ u.mReceivedPrior = r.mReceivedPrior
    BY DEF InitSeq, SessionType
  <2> HIDE DEF t, u, s
  <2>5. /\ s \in SessionType /\ s = [u EXCEPT !.mReceivedPackets = s.mReceivedPackets]
        /\ s.mReceivedPackets \in {u.mReceivedPackets + 1, u.mReceivedPackets + 1 - Word}
    BY <2>1, <2>3, CountedIs
  <2>6. /\ s.mProbation = 0 /\ s.mBaseSeq = seq /\ s.mMaxSeq = seq /\ s.mCycles = 0 /\ s.mExpectedPrior = 0
        /\ s.mReceivedPrior = r.mReceivedPrior
    BY <2>3, <2>4, <2>5 DEF SessionType
  <2> QED
    BY <2>1, <2>4, <2>5, <2>6 DEF s
<1> QED
  BY <1>2, <1>3, <1>4

(* After it: a packet that counts. *)
LEMMA AheadIs ==
  ASSUME NEW r \in SessionType, NEW seq \in 0 .. OZ_RTP_SEQ_MOD - 1, r.mCycles + OZ_RTP_SEQ_MOD < Word \/ ~(seq < r.mMaxSeq)
  PROVE  LET s == Ahead(r, seq)
         IN  /\ s \in SessionType /\ s.mProbation = r.mProbation /\ s.mMaxSeq = seq /\ s.mBaseSeq = r.mBaseSeq
             /\ s.mBadSeq = r.mBadSeq
             /\ s.mCycles = IF seq < r.mMaxSeq THEN r.mCycles + OZ_RTP_SEQ_MOD ELSE r.mCycles
             /\ s.mExpectedPrior = r.mExpectedPrior /\ s.mReceivedPrior = r.mReceivedPrior
             /\ s.mReceivedPackets \in {r.mReceivedPackets + 1, r.mReceivedPackets + 1 - Word}
<1> DEFINE s == Ahead(r, seq)
           cycles == IF seq < r.mMaxSeq THEN (r.mCycles + OZ_RTP_SEQ_MOD) % Word ELSE r.mCycles
           t == [r EXCEPT !.mMaxSeq = seq, !.mCycles = cycles]
<1>1. r.mCycles \in 0 .. Word - 1 /\ OZ_RTP_SEQ_MOD \in Nat \ {0} /\ Word \in Nat \ {0}
  BY SequenceSizes DEF SessionType
<1>2. cycles = IF seq < r.mMaxSeq THEN r.mCycles + OZ_RTP_SEQ_MOD ELSE r.mCycles
  <2>1. CASE seq < r.mMaxSeq
    <3>1. r.mCycles + OZ_RTP_SEQ_MOD \in 0 .. Word - 1 /\ r.mCycles + OZ_RTP_SEQ_MOD \in Int
      BY <1>1, <2>1
    <3>2. (r.mCycles + OZ_RTP_SEQ_MOD) % Word = r.mCycles + OZ_RTP_SEQ_MOD
      BY <1>1, <3>1, RemainderNear
    <3> QED
      BY <2>1, <3>2
  <2> QED
    BY <2>1
<1>3. s = Counted(t)
  BY DEF Ahead
<1> HIDE DEF s, cycles
<1>4. cycles \in 0 .. Word - 1
  BY <1>1, <1>2
<1>5. t \in SessionType
  BY <1>4 DEF SessionType
<1>6. /\ t.mProbation = r.mProbation /\ t.mMaxSeq = seq /\ t.mBaseSeq = r.mBaseSeq /\ t.mBadSeq = r.mBadSeq /\ t.mCycles = cycles
      /\ t.mExpectedPrior = r.mExpectedPrior /\ t.mReceivedPrior = r.mReceivedPrior /\ t.mReceivedPackets = r.mReceivedPackets
  BY DEF SessionType
<1> HIDE DEF t
<1>7. /\ s \in SessionType /\ s = [t EXCEPT !.mReceivedPackets = s.mReceivedPackets]
      /\ s.mReceivedPackets \in {t.mReceivedPackets + 1, t.mReceivedPackets + 1 - Word}
  BY <1>3, <1>5, CountedIs
<1>8. /\ s.mProbation = t.mProbation /\ s.mMaxSeq = t.mMaxSeq /\ s.mBaseSeq = t.mBaseSeq /\ s.mBadSeq = t.mBadSeq
      /\ s.mCycles = t.mCycles /\ s.mExpectedPrior = t.mExpectedPrior /\ s.mReceivedPrior = t.mReceivedPrior
  BY <1>5, <1>7 DEF SessionType
<1> QED
  BY <1>2, <1>6, <1>7, <1>8 DEF s

(* A number far away: the session starts again with it, or remembers that it came. *)
LEMMA FarAwayIs ==
  ASSUME NEW r \in SessionType, NEW seq \in 0 .. OZ_RTP_SEQ_MOD - 1
  PROVE  LET s == FarAway(r, seq)
         IN  /\ s \in SessionType /\ s.mProbation = r.mProbation
             /\ \/ /\ seq = r.mBadSeq /\ s.mBadSeq > OZ_RTP_SEQ_MOD
                   /\ s.mBaseSeq = seq /\ s.mMaxSeq = seq /\ s.mCycles = 0
                \/ /\ seq # r.mBadSeq
                   /\ s.mBaseSeq = r.mBaseSeq /\ s.mMaxSeq = r.mMaxSeq /\ s.mCycles = r.mCycles
<1> DEFINE s == FarAway(r, seq)
<1>1. CASE seq = r.mBadSeq
  <2> DEFINE u == InitSeq(r, seq)
  <2>1. s = Counted(u)
    BY <1>1 DEF FarAway
  <2>2. u \in SessionType
    BY InitSeqIs
  <2>3. /\ u.mProbation = r.mProbation /\ u.mBaseSeq = seq /\ u.mMaxSeq = seq /\ u.mCycles = 0 /\ u.mBadSeq = OZ_RTP_SEQ_MOD + 1
    BY DEF InitSeq, SessionType
  <2> HIDE DEF u, s
  <2>4. /\ s \in SessionType /\ s = [u EXCEPT !.mReceivedPackets = s.mReceivedPackets]
    BY <2>1, <2>2, CountedIs
  <2>5. /\ s.mProbation = u.mProbation /\ s.mBaseSeq = u.mBaseSeq /\ s.mMaxSeq = u.mMaxSeq /\ s.mCycles = u.mCycles /\ s.mBadSeq = u.mBadSeq
    BY <2>2, <2>4 DEF SessionType
  <2>6. OZ_RTP_SEQ_MOD + 1 > OZ_RTP_SEQ_MOD
    BY SequenceSizes
  <2> QED
    BY <1>1, <2>3, <2>4, <2>5, <2>6 DEF s
<1>2. CASE seq # r.mBadSeq
  <2> DEFINE b == (seq + 1) % OZ_RTP_SEQ_MOD
  <2>1. b \in 0 .. OZ_RTP_SEQ_MOD + 1
    <3>1. seq + 1 \in Int /\ OZ_RTP_SEQ_MOD \in Nat \ {0}
      BY SequenceSizes
    <3>2. b \in 0 .. OZ_RTP_SEQ_MOD - 1
      BY <3>1
    <3> HIDE DEF b
    <3> QED
      BY <3>1, <3>2
  <2>2. s = [r EXCEPT !.mBadSeq = b]
    BY <1>2 DEF FarAway
  <2> HIDE DEF s, b
  <2>3. s \in SessionType
    BY <2>1, <2>2 DEF SessionType
  <2>4. s.mProbation = r.mProbation /\ s.mBaseSeq = r.mBaseSeq /\ s.mMaxSeq = r.mMaxSeq /\ s.mCycles = r.mCycles
    BY <2>2 DEF SessionType
  <2> QED
    BY <1>2, <2>3, <2>4 DEF s
<1> QED
  BY <1>1, <1>2

(* The network, the source and the other parts of a compound leave the session alone. *)
LEMMA SourceKeeps ==
  ASSUME SequenceInv, Send \/ Restart \/ Lose \/ CompoundArrives \/ Refuse \/ Description \/ Bye
  PROVE  SequenceInv'
<1>1. UNCHANGED << rtp, base, newest, interval >>
  BY DEF Send, Restart, Lose, CompoundArrives, Refuse, Description, Bye
<1>2. number' \in 1 .. MaxNumber /\ flight' \subseteq (1 .. MaxNumber) \X (1 .. 2)
  <2>1. number \in 1 .. MaxNumber /\ flight \subseteq (1 .. MaxNumber) \X (1 .. 2) /\ MaxNumber \in Nat
    BY SequenceSizes DEF SequenceInv, SequenceTyped
  <2>2. CASE Send
    BY <2>1, <2>2 DEF Send
  <2>3. CASE Restart
    <3>1. PICK j \in Jumps : number + j < MaxNumber /\ number' = number + j /\ flight' = flight
      BY <2>3 DEF Restart
    <3>2. j \in Nat
      BY SequenceAssumption
    <3> QED
      BY <2>1, <3>1, <3>2
  <2>4. CASE Lose
    BY <2>1, <2>4 DEF Lose
  <2>5. CASE CompoundArrives \/ Refuse \/ Description \/ Bye
    BY <2>1, <2>5 DEF CompoundArrives, Refuse, Description, Bye
  <2> QED
    BY <2>2, <2>3, <2>4, <2>5
<1> QED
  BY <1>1, <1>2 DEF SequenceInv, SequenceTyped, Tracked, IntervalCounted

(* A report: the new interval begins with nothing received. *)
LEMMA StatsAre ==
  ASSUME NEW r \in SessionType
  PROVE  LET s == updateRtcpStats(r)
             expected == (r.mCycles + r.mMaxSeq - r.mBaseSeq + 1) % Word
             expectedInterval == (expected - r.mExpectedPrior) % Word
             lostInterval == (expectedInterval - (r.mReceivedPackets - r.mReceivedPrior)) % Word
         IN  /\ s \in SessionType
             /\ s.mProbation = r.mProbation /\ s.mMaxSeq = r.mMaxSeq /\ s.mBaseSeq = r.mBaseSeq /\ s.mCycles = r.mCycles
             /\ s.mReceivedPackets = r.mReceivedPackets /\ s.mReceivedPrior = r.mReceivedPackets
             /\ s.mExpectedPrior = expected
             /\ s.mLostFraction = IF expectedInterval = 0 \/ lostInterval = 0 THEN 0
                                  ELSE (((lostInterval * 256) % Word) \div expectedInterval) % 256
<1> DEFINE s == updateRtcpStats(r)
           expected == (r.mCycles + r.mMaxSeq - r.mBaseSeq + 1) % Word
           expectedInterval == (expected - r.mExpectedPrior) % Word
           lostInterval == (expectedInterval - (r.mReceivedPackets - r.mReceivedPrior)) % Word
           fraction == IF expectedInterval = 0 \/ lostInterval = 0 THEN 0
                       ELSE (((lostInterval * 256) % Word) \div expectedInterval) % 256
<1>1. s = [r EXCEPT !.mExpectedPrior = expected, !.mReceivedPrior = r.mReceivedPackets, !.mLostFraction = fraction]
  BY DEF updateRtcpStats
<1>2. /\ r.mCycles \in Int /\ r.mMaxSeq \in Int /\ r.mBaseSeq \in Int /\ r.mExpectedPrior \in Int
      /\ r.mReceivedPackets \in 0 .. Word - 1 /\ r.mReceivedPrior \in Int /\ Word \in Nat \ {0}
  BY SequenceSizes DEF SessionType
<1>3. expected \in 0 .. Word - 1
  BY <1>2
<1> HIDE DEF expected
<1>4. expectedInterval \in 0 .. Word - 1
  BY <1>2, <1>3
<1> HIDE DEF expectedInterval
<1>5. lostInterval \in 0 .. Word - 1
  BY <1>2, <1>4
<1> HIDE DEF lostInterval
<1>6. fraction \in Int
  <2>1. CASE expectedInterval = 0 \/ lostInterval = 0
    BY <2>1
  <2>2. CASE expectedInterval # 0 /\ lostInterval # 0
    <3> DEFINE w == (lostInterval * 256) % Word
    <3>1. w \in Int
      BY <1>2, <1>5
    <3> HIDE DEF w
    <3> DEFINE q == w \div expectedInterval
    <3>2. q \in Int
      BY <1>4, <2>2, <3>1
    <3> HIDE DEF q
    <3>3. q % 256 \in Int
      BY <3>2
    <3> QED
      BY <2>2, <3>3 DEF q, w
  <2> QED
    BY <2>1, <2>2
<1> HIDE DEF s, fraction
<1>7. s \in SessionType
  <2> DEFINE t == [r EXCEPT !.mExpectedPrior = expected, !.mReceivedPrior = r.mReceivedPackets]
  <2>1. t \in SessionType
    BY <1>2, <1>3 DEF SessionType
  <2>2. s = [t EXCEPT !.mLostFraction = fraction]
    BY <1>1
  <2> HIDE DEF t
  <2> QED
    BY <1>6, <2>1, <2>2 DEF SessionType
<1>8. /\ s.mProbation = r.mProbation /\ s.mMaxSeq = r.mMaxSeq /\ s.mBaseSeq = r.mBaseSeq /\ s.mCycles = r.mCycles
      /\ s.mReceivedPackets = r.mReceivedPackets /\ s.mReceivedPrior = r.mReceivedPackets
      /\ s.mExpectedPrior = expected /\ s.mLostFraction = fraction
  BY <1>1 DEF SessionType
<1> QED
  BY <1>7, <1>8 DEF s, fraction, lostInterval, expectedInterval, expected

(* What the session expects so far. *)
LEMMA ExpectedIs ==
  ASSUME SequenceInv, base > 0
  PROVE  /\ (rtp.mCycles + rtp.mMaxSeq - rtp.mBaseSeq + 1) % Word = newest - base + 1
         /\ newest - base + 1 \in 0 .. Word - 1
<1>1. /\ base \in 0 .. MaxNumber /\ newest \in 0 .. MaxNumber /\ base <= newest
      /\ rtp.mCycles + rtp.mMaxSeq - rtp.mBaseSeq = newest - base
  BY DEF SequenceInv, SequenceTyped, Tracked
<1>2. newest - base + 1 \in 0 .. Word - 1 /\ newest - base + 1 \in Int /\ Word \in Nat \ {0}
  BY <1>1, SequenceSizes
<1>3. (newest - base + 1) % Word = newest - base + 1
  BY <1>2, RemainderNear
<1> QED
  BY <1>1, <1>2, <1>3

LEMMA ReportKeeps ==
  ASSUME SequenceInv, SenderReport
  PROVE  SequenceInv'
<1>1. /\ rtp' = updateRtcpStats(rtp) /\ interval' = [known |-> TRUE, from |-> newest, got |-> {}]
      /\ UNCHANGED << number, flight, base, newest >>
  BY DEF SenderReport, NewInterval
<1>2. rtp \in SessionType /\ SequenceTyped /\ Tracked
  BY DEF SequenceInv, SequenceTyped
<1>3. /\ rtp' \in SessionType
      /\ rtp'.mProbation = rtp.mProbation /\ rtp'.mMaxSeq = rtp.mMaxSeq /\ rtp'.mBaseSeq = rtp.mBaseSeq /\ rtp'.mCycles = rtp.mCycles
      /\ rtp'.mReceivedPackets = rtp.mReceivedPackets /\ rtp'.mReceivedPrior = rtp.mReceivedPackets
      /\ rtp'.mExpectedPrior = (rtp.mCycles + rtp.mMaxSeq - rtp.mBaseSeq + 1) % Word
  BY <1>1, <1>2, StatsAre
<1>4. SequenceTyped'
  BY <1>1, <1>2, <1>3 DEF SequenceTyped
<1>5. Tracked'
  BY <1>1, <1>2, <1>3 DEF Tracked
<1>6. IntervalCounted'
  <2>1. interval'.got = {} /\ interval'.from = newest /\ IsFiniteSet({}) /\ Cardinality({}) = 0
    BY <1>1, FS_EmptySet
  <2>2. rtp'.mReceivedPackets - rtp'.mReceivedPrior = 0
    BY <1>2, <1>3 DEF SessionType
  <2>3. base > 0 => rtp'.mExpectedPrior = newest - base + 1 /\ newest \in base - 1 .. newest
    BY <1>3, ExpectedIs DEF SequenceInv, SequenceTyped, Tracked
  <2>4. newest \in Nat
    BY <1>2 DEF SequenceTyped
  <2> QED
    BY <1>1, <2>1, <2>2, <2>3, <2>4 DEF IntervalCounted
<1> QED
  BY <1>4, <1>5, <1>6 DEF SequenceInv

(* How a number is ahead of another is seen in their remainders, if they are less than a cycle apart. *)
LEMMA AheadOrNot ==
  ASSUME NEW n \in 1 .. MaxNumber, NEW k \in Nat,
         k - n <= OZ_RTP_SEQ_MOD - MAX_DROPOUT, n - k <= OZ_RTP_SEQ_MOD - MAX_MISORDER
  PROVE  LET delta == (seqN(n) - seqN(k)) % OZ_RTP_SEQ_MOD
             gap == (n - k) - (seqN(n) - seqN(k))
         IN  /\ seqN(n) \in 0 .. OZ_RTP_SEQ_MOD - 1 /\ seqN(k) \in 0 .. OZ_RTP_SEQ_MOD - 1
             /\ n - k \in 1 .. MAX_DROPOUT - 1 =>
                    delta < MAX_DROPOUT /\ gap = IF seqN(n) < seqN(k) THEN OZ_RTP_SEQ_MOD ELSE 0
             /\ delta < MAX_DROPOUT =>
                    n - k \in 1 .. MAX_DROPOUT - 1 \/ seqN(n) = seqN(k)
<1> PICK M, D, S, a, b : M = OZ_RTP_SEQ_MOD /\ D = MAX_DROPOUT /\ S = MAX_MISORDER /\ a = seqN(n) /\ b = seqN(k)
  OBVIOUS
<1>1. M \in Nat \ {0} /\ D \in Nat /\ S \in Nat /\ 1 < D /\ D < M - S /\ n \in Int /\ k \in Int
  BY SequenceSizes
<1>2. n - k <= M /\ k - n <= M /\ k - n <= M - D /\ n - k <= M - S
  BY <1>1
<1>3. a = n % M /\ b = k % M
  BY DEF seqN
<1>4. (n - k) - (a - b) \in {-M, 0, M} /\ a \in 0 .. M - 1 /\ b \in 0 .. M - 1
  <2>1. Apart(n, k, M, n % M, k % M)
    BY <1>1, <1>2, NumbersApart
  <2> QED
    BY <1>3, <2>1 DEF Apart
<1>5. (a - b) % M = IF a < b THEN a - b + M ELSE a - b
  <2>1. a - b \in Int /\ (a < b => a - b \in -M .. -1) /\ (~(a < b) => a - b \in 0 .. M - 1)
    BY <1>1, <1>4
  <2> QED
    BY <1>1, <2>1, RemainderNear
<1> PICK delta : delta = (a - b) % M
  OBVIOUS
<1>6. n - k \in 1 .. D - 1 => delta < D /\ (n - k) - (a - b) = IF a < b THEN M ELSE 0
  BY <1>1, <1>2, <1>4, <1>5
<1>7. delta < D => n - k \in 1 .. D - 1 \/ a = b
  <2>1. CASE a < b
    <3>1. delta = a - b + M
      BY <1>5, <2>1
    <3>2. (n - k) - (a - b) = M \/ delta >= D
      BY <1>1, <1>2, <1>4, <2>1, <3>1
    <3> QED
      BY <1>1, <1>4, <2>1, <3>1, <3>2
  <2>2. CASE a > b
    <3>1. delta = a - b
      BY <1>4, <1>5, <2>2
    <3>2. (n - k) - (a - b) = 0 \/ delta >= D
      BY <1>1, <1>2, <1>4, <2>2, <3>1
    <3> QED
      BY <1>1, <1>4, <2>2, <3>1, <3>2
  <2> QED
    BY <1>4, <2>1, <2>2
<1> QED
  BY <1>4, <1>6, <1>7

(* The packet that arrives. *)
LEMMA ArriveKeeps ==
  ASSUME SequenceInv, Arrive
  PROVE  SequenceInv'
<1>1. PICK f \in flight :
         LET n == f[1]
             r == updateSeq(rtp, seqN(n))
             counting == rtp.mProbation = 1 /\ r.mProbation = 0
             restarted == rtp.mProbation = 0 /\ seqN(n) = rtp.mBadSeq /\ r.mBadSeq > OZ_RTP_SEQ_MOD
         IN  /\ InReach(n)
             /\ rtp' = r
             /\ flight' = (flight \ {f}) \cup (IF f[2] > 1 THEN {<< n, 1 >>} ELSE {})
             /\ base' = IF counting \/ restarted THEN n ELSE base
             /\ newest' = IF counting \/ restarted THEN n ELSE IF n - newest \in 1 .. MAX_DROPOUT - 1 THEN n ELSE newest
             /\ interval' =
                  IF counting THEN [interval EXCEPT !.from = n - 1, !.got = IF interval.known THEN {n} ELSE {}]
                  ELSE IF base > 0 /\ interval.known /\ ~restarted /\ n - newest \in 1 .. MAX_DROPOUT - 1
                  THEN [interval EXCEPT !.got = @ \cup {n}]
                  ELSE NewInterval(base = 0 /\ interval.known, newest)
  BY DEF Arrive
<1> PICK n, seq : n = f[1] /\ seq = seqN(n)
  OBVIOUS
<1> DEFINE counting == rtp.mProbation = 1 /\ rtp'.mProbation = 0
           restarted == rtp.mProbation = 0 /\ seq = rtp.mBadSeq /\ rtp'.mBadSeq > OZ_RTP_SEQ_MOD
<1>2. /\ InReach(n) /\ rtp' = updateSeq(rtp, seq)
      /\ base' = IF counting \/ restarted THEN n ELSE base
      /\ newest' = IF counting \/ restarted THEN n ELSE IF n - newest \in 1 .. MAX_DROPOUT - 1 THEN n ELSE newest
      /\ interval' =
           IF counting THEN [interval EXCEPT !.from = n - 1, !.got = IF interval.known THEN {n} ELSE {}]
           ELSE IF base > 0 /\ interval.known /\ ~restarted /\ n - newest \in 1 .. MAX_DROPOUT - 1
           THEN [interval EXCEPT !.got = interval.got \cup {n}]
           ELSE [known |-> base = 0 /\ interval.known, from |-> newest, got |-> {}]
  BY <1>1 DEF NewInterval
<1> HIDE DEF counting, restarted
<1>3. SequenceTyped /\ Tracked /\ IntervalCounted /\ rtp \in SessionType
  BY DEF SequenceInv, SequenceTyped
<1>4. n \in 1 .. MaxNumber /\ number' = number /\ flight' \subseteq (1 .. MaxNumber) \X (1 .. 2)
  <2>1. flight \subseteq (1 .. MaxNumber) \X (1 .. 2) /\ number' = number
    BY <1>3 DEF SequenceTyped, Arrive
  <2>2. n \in 1 .. MaxNumber
    BY <2>1
  <2>3. << n, 1 >> \in (1 .. MaxNumber) \X (1 .. 2)
    BY <2>2
  <2>4. flight' = (flight \ {f}) \cup (IF f[2] > 1 THEN {<< n, 1 >>} ELSE {})
    BY <1>1
  <2> QED
    BY <2>1, <2>2, <2>3, <2>4
<1>5. base \in 0 .. MaxNumber /\ newest \in 0 .. MaxNumber /\ interval \in [known : BOOLEAN, from : Int, got : SUBSET Nat]
  BY <1>3 DEF SequenceTyped
<1>6. base' \in 0 .. MaxNumber /\ newest' \in 0 .. MaxNumber
  BY <1>2, <1>4, <1>5
<1>7. interval' \in [known : BOOLEAN, from : Int, got : SUBSET Nat]
  <2>1. n \in Nat /\ newest \in Int /\ n - 1 \in Int
    BY <1>4, <1>5
  <2>2. interval.got \cup {n} \in SUBSET Nat /\ (IF interval.known THEN {n} ELSE {}) \in SUBSET Nat
    BY <1>5, <2>1
  <2>3. (base = 0 /\ interval.known) \in BOOLEAN
    OBVIOUS
  <2>4. CASE counting
    BY <1>2, <1>5, <2>1, <2>2, <2>4
  <2>5. CASE ~counting /\ base > 0 /\ interval.known /\ ~restarted /\ n - newest \in 1 .. MAX_DROPOUT - 1
    BY <1>2, <1>5, <2>2, <2>5
  <2>6. CASE ~counting /\ ~(base > 0 /\ interval.known /\ ~restarted /\ n - newest \in 1 .. MAX_DROPOUT - 1)
    BY <1>2, <2>1, <2>3, <2>6
  <2> QED
    BY <2>4, <2>5, <2>6
<1>8. seq \in 0 .. OZ_RTP_SEQ_MOD - 1
  BY <1>4, SequenceSizes DEF seqN
<1>20. /\ OZ_RTP_SEQ_MOD \in Nat \ {0} /\ MAX_DROPOUT \in Nat /\ MaxNumber \in Nat /\ Word \in Nat /\ Word > 256 * MaxNumber
  BY SequenceSizes
<1>9. SUFFICES rtp' \in SessionType /\ Tracked' /\ IntervalCounted'
  BY <1>3, <1>4, <1>6, <1>7 DEF SequenceInv, SequenceTyped
<1>10. CASE rtp.mProbation > 0
  <2>1. rtp' = InProbation(rtp, seq) /\ ~restarted /\ base = 0
    BY <1>2, <1>3, <1>5, <1>10 DEF updateSeq, restarted, Tracked, SessionType
  <2>2. /\ rtp' \in SessionType
        /\ \/ /\ rtp'.mProbation = 1 /\ rtp'.mReceivedPackets = rtp.mReceivedPackets /\ rtp'.mReceivedPrior = rtp.mReceivedPrior
           \/ /\ rtp'.mProbation = 0 /\ rtp.mProbation = 1
              /\ rtp'.mBaseSeq = seq /\ rtp'.mMaxSeq = seq /\ rtp'.mCycles = 0 /\ rtp'.mExpectedPrior = 0
              /\ rtp'.mReceivedPrior = rtp.mReceivedPrior
              /\ rtp'.mReceivedPackets \in {rtp.mReceivedPackets + 1, rtp.mReceivedPackets + 1 - Word}
    BY <1>3, <1>8, <1>10, <2>1, ProbationIs
  <2>3. interval.known => interval.got = {} /\ rtp.mReceivedPackets - rtp.mReceivedPrior \in {0, 0 - Word}
    BY <1>3, <2>1, FS_EmptySet DEF IntervalCounted
  <2>4. rtp.mReceivedPackets \in 0 .. Word - 1 /\ rtp.mReceivedPrior \in 0 .. Word - 1 /\ Word \in Nat \ {0}
    BY <1>3, SequenceSizes DEF SessionType
  <2>5. interval.known => rtp.mReceivedPackets - rtp.mReceivedPrior = 0
    BY <2>3, <2>4
  <2>6. CASE rtp'.mProbation = 1
    <3>1. ~counting /\ base' = 0 /\ interval' = [known |-> base = 0 /\ interval.known, from |-> newest, got |-> {}]
      BY <1>2, <2>1, <2>6 DEF counting
    <3>2. Tracked'
      BY <2>6, <3>1 DEF Tracked
    <3>3. interval'.got = {} /\ IsFiniteSet({}) /\ Cardinality({}) = 0 /\ (interval'.known => interval.known)
      BY <3>1, FS_EmptySet
    <3>4. interval'.known => rtp'.mReceivedPackets - rtp'.mReceivedPrior = 0
      BY <2>2, <2>5, <2>6, <3>3
    <3>5. IntervalCounted'
      BY <3>1, <3>3, <3>4 DEF IntervalCounted
    <3> QED
      BY <2>2, <3>2, <3>5
  <2>7. CASE rtp'.mProbation = 0
    <3>1. rtp.mProbation = 1 /\ counting
      BY <2>2, <2>7 DEF counting
    <3>2. /\ base' = n /\ newest' = n /\ n > 0
          /\ interval' = [interval EXCEPT !.from = n - 1, !.got = IF interval.known THEN {n} ELSE {}]
      BY <1>2, <1>4, <3>1
    <3>3. /\ rtp'.mBaseSeq = seq /\ rtp'.mMaxSeq = seq /\ rtp'.mCycles = 0 /\ rtp'.mExpectedPrior = 0
          /\ rtp'.mReceivedPrior = rtp.mReceivedPrior
          /\ rtp'.mReceivedPackets \in {rtp.mReceivedPackets + 1, rtp.mReceivedPackets + 1 - Word}
      BY <2>2, <2>7
    <3>4. Tracked'
      BY <1>4, <1>8, <2>7, <3>2, <3>3 DEF Tracked
    <3>5. interval'.known = interval.known /\ interval'.from = n - 1 /\ interval'.got = IF interval.known THEN {n} ELSE {}
      BY <1>5, <3>2
    <3>6. IsFiniteSet({n}) /\ Cardinality({n}) = 1 /\ IsFiniteSet({})
      BY FS_EmptySet, FS_AddElement, FS_Singleton
    <3>7. interval.known => rtp'.mReceivedPackets - rtp'.mReceivedPrior \in {1, 1 - Word}
      BY <2>4, <2>5, <3>3
    <3>8. n - 1 \in n - 1 .. n /\ {n} \subseteq n - 1 + 1 .. n /\ 0 = n - 1 - n + 1
      BY <1>4
    <3>9. IntervalCounted'
      BY <3>2, <3>3, <3>5, <3>6, <3>7, <3>8 DEF IntervalCounted
    <3> QED
      BY <2>2, <3>4, <3>9
  <2> QED
    BY <2>2, <2>6, <2>7
<1>11. CASE ~(rtp.mProbation > 0)
  <2>1. rtp.mProbation = 0 /\ base > 0 /\ ~counting
    <3>1. rtp.mProbation \in 0 .. 2
      BY <1>3 DEF SessionType, MIN_SEQUENTIAL
    <3>2. rtp.mProbation = 0
      BY <1>11, <3>1
    <3> QED
      BY <1>3, <3>2 DEF Tracked, counting
  <2>20. (base = 0 /\ interval.known) = FALSE
    <3>1. base # 0
      BY <1>5, <2>1
    <3> QED
      BY <3>1, Zenon
  <2>2. /\ base <= newest /\ rtp.mMaxSeq = seqN(newest) /\ rtp.mBaseSeq = seqN(base)
        /\ rtp.mCycles + rtp.mMaxSeq - rtp.mBaseSeq = newest - base
    BY <1>3, <2>1 DEF Tracked
  <2>3. newest - n <= OZ_RTP_SEQ_MOD - MAX_DROPOUT /\ n - newest <= OZ_RTP_SEQ_MOD - MAX_MISORDER /\ newest \in Nat
    BY <1>2, <1>5, <2>1 DEF InReach
  <2> PICK max, delta : max = rtp.mMaxSeq /\ delta = (seq - max) % OZ_RTP_SEQ_MOD
    OBVIOUS
  <2>4. /\ n - newest \in 1 .. MAX_DROPOUT - 1 =>
               delta < MAX_DROPOUT /\ (n - newest) - (seq - max) = IF seq < max THEN OZ_RTP_SEQ_MOD ELSE 0
        /\ delta < MAX_DROPOUT => n - newest \in 1 .. MAX_DROPOUT - 1 \/ seq = max
    BY <1>4, <2>2, <2>3, AheadOrNot
  <2>5. rtp' = IF delta < MAX_DROPOUT THEN Ahead(rtp, seq)
               ELSE IF delta <= OZ_RTP_SEQ_MOD - MAX_MISORDER THEN FarAway(rtp, seq) ELSE rtp
    BY <1>2, <1>11 DEF updateSeq
  <2>6. /\ max \in 0 .. OZ_RTP_SEQ_MOD - 1 /\ rtp.mBaseSeq \in 0 .. OZ_RTP_SEQ_MOD - 1 /\ rtp.mCycles \in 0 .. Word - 1
        /\ rtp.mReceivedPackets \in 0 .. Word - 1 /\ rtp.mReceivedPrior \in 0 .. Word - 1
    BY <1>3 DEF SessionType
  <2>7. CASE delta < MAX_DROPOUT
    <3>1. rtp' = Ahead(rtp, seq)
      BY <2>5, <2>7
    <3>2. seq < max => rtp.mCycles + OZ_RTP_SEQ_MOD < Word
      <4>1. rtp.mBaseSeq <= base
        <5>1. base % OZ_RTP_SEQ_MOD <= base
          BY <1>5, SequenceSizes, RemainderSmall
        <5> QED
          BY <2>2, <5>1 DEF seqN
      <4>2. seq < max => (n - newest) - (seq - max) = OZ_RTP_SEQ_MOD
        BY <1>8, <2>4, <2>6, <2>7
      <4> QED
        BY <1>4, <1>5, <1>8, <2>2, <2>6, <4>1, <4>2, SequenceSizes
    <3>3. /\ rtp' \in SessionType /\ rtp'.mProbation = rtp.mProbation /\ rtp'.mMaxSeq = seq /\ rtp'.mBaseSeq = rtp.mBaseSeq
          /\ rtp'.mBadSeq = rtp.mBadSeq
          /\ rtp'.mCycles = IF seq < max THEN rtp.mCycles + OZ_RTP_SEQ_MOD ELSE rtp.mCycles
          /\ rtp'.mExpectedPrior = rtp.mExpectedPrior /\ rtp'.mReceivedPrior = rtp.mReceivedPrior
          /\ rtp'.mReceivedPackets \in {rtp.mReceivedPackets + 1, rtp.mReceivedPackets + 1 - Word}
      BY <1>3, <1>8, <3>1, <3>2, AheadIs
    <3>4. ~restarted
      BY <1>8, <3>3, SequenceSizes DEF restarted
    <3>5. base' = base /\ newest' = IF n - newest \in 1 .. MAX_DROPOUT - 1 THEN n ELSE newest
      BY <1>2, <2>1, <3>4
    <3>6. CASE n - newest \in 1 .. MAX_DROPOUT - 1
      <4>1. newest' = n /\ (n - newest) - (seq - max) = IF seq < max THEN OZ_RTP_SEQ_MOD ELSE 0
        BY <2>4, <3>5, <3>6
      <4>2. base' <= newest' /\ n > newest
        BY <1>4, <1>5, <2>2, <3>5, <3>6, <4>1
      <4>3. rtp'.mCycles + rtp'.mMaxSeq - rtp'.mBaseSeq = newest' - base'
        <5>1. rtp.mBaseSeq \in Int /\ rtp.mCycles \in Int /\ max \in Int /\ seq \in Int /\ n \in Int /\ newest \in Int /\ base \in Int
          BY <1>4, <1>5, <1>8, <2>6
        <5>2. rtp.mCycles + max - rtp.mBaseSeq = newest - base
          BY <2>2
        <5>3. rtp'.mCycles + seq - rtp.mBaseSeq = n - base
          <6>1. CASE seq < max
            <7>1. rtp'.mCycles = rtp.mCycles + OZ_RTP_SEQ_MOD /\ (n - newest) - (seq - max) = OZ_RTP_SEQ_MOD
              BY <3>3, <4>1, <6>1
            <7> PICK m, v, w : m = OZ_RTP_SEQ_MOD /\ v = rtp.mCycles /\ w = rtp.mBaseSeq
              OBVIOUS
            <7>2. m \in Int /\ v \in Int /\ w \in Int
              BY <1>20, <5>1
            <7>3. v + max - w = newest - base /\ (n - newest) - (seq - max) = m
              BY <5>2, <7>1
            <7>4. n = newest + ((seq - max) + m)
              BY <5>1, <7>2, <7>3
            <7>5. v = (newest - base) - (max - w)
              BY <5>1, <7>2, <7>3
            <7>6. (v + m) + (seq - w) = n - base
              BY <5>1, <7>2, <7>4, <7>5
            <7>7. rtp'.mCycles = v + m
              BY <7>1
            <7> QED
              BY <7>6, <7>7
          <6>2. CASE ~(seq < max)
            <7>1. rtp'.mCycles = rtp.mCycles /\ (n - newest) - (seq - max) = 0
              BY <3>3, <4>1, <6>2
            <7>2. n = newest + seq - max
              BY <5>1, <7>1
            <7> QED
              BY <5>1, <5>2, <7>1, <7>2
          <6> QED
            BY <6>1, <6>2
        <5> QED
          BY <3>3, <3>5, <4>1, <5>3
      <4>4. Tracked'
        BY <2>1, <2>2, <3>3, <3>5, <4>1, <4>2, <4>3 DEF Tracked
      <4>5. CASE interval.known
        <5>1. interval' = [interval EXCEPT !.got = interval.got \cup {n}]
          BY <1>2, <2>1, <3>4, <3>6, <4>5
        <5>2. interval'.known /\ interval'.from = interval.from /\ interval'.got = interval.got \cup {n}
          BY <1>5, <4>5, <5>1
        <5>3. /\ IsFiniteSet(interval.got)
              /\ rtp.mReceivedPackets - rtp.mReceivedPrior \in {Cardinality(interval.got), Cardinality(interval.got) - Word}
              /\ interval.from \in base - 1 .. newest /\ interval.got \subseteq interval.from + 1 .. newest
              /\ rtp.mExpectedPrior = interval.from - base + 1
          BY <1>3, <2>1, <4>5 DEF IntervalCounted
        <5>4. n \notin interval.got
          BY <1>4, <1>5, <4>2, <5>3
        <5>5. IsFiniteSet(interval'.got) /\ Cardinality(interval'.got) = Cardinality(interval.got) + 1 /\ Cardinality(interval.got) \in Nat
          BY <5>2, <5>3, <5>4, FS_AddElement, FS_CardinalityType
        <5> PICK c, c1 : c = Cardinality(interval.got) /\ c1 = Cardinality(interval'.got)
          OBVIOUS
        <5>9. c \in Nat /\ c1 = c + 1 /\ rtp.mReceivedPackets - rtp.mReceivedPrior \in {c, c - Word}
          BY <5>3, <5>5
        <5>6. rtp'.mReceivedPackets - rtp'.mReceivedPrior \in {c1, c1 - Word}
          <6>1. rtp'.mReceivedPackets \in 0 .. Word - 1 /\ rtp'.mReceivedPrior \in 0 .. Word - 1 /\ Word \in Nat
            BY <3>3, SequenceSizes DEF SessionType
          <6>2. c <= Word - 2
            <7>1. interval.got \in SUBSET (1 .. newest)
              BY <1>5, <2>1, <5>3
            <7>2. c <= newest
              <8>1. 1 \in Int /\ newest \in Int /\ newest - 1 + 1 = newest /\ (1 > newest => newest = 0)
                BY <1>5
              <8>2. IsFiniteSet(1 .. newest) /\ Cardinality(1 .. newest) = newest
                BY <8>1, FS_Interval
              <8> QED
                BY <7>1, <8>2, FS_Subset
            <7> QED
              BY <1>4, <1>5, <1>20, <4>2, <5>9, <7>2
          <6> QED
            BY <2>6, <3>3, <5>9, <6>1, <6>2
        <5>7. /\ interval'.from \in base - 1 .. n /\ interval'.got \subseteq interval'.from + 1 .. n /\ n \in interval'.got
          BY <1>4, <1>5, <4>2, <5>2, <5>3
        <5>8. IntervalCounted'
          BY <2>1, <3>3, <3>5, <4>1, <5>2, <5>3, <5>5, <5>6, <5>7 DEF IntervalCounted
        <5> QED
          BY <3>3, <4>4, <5>8
      <4>6. CASE ~interval.known
        <5>1. interval' = [known |-> base = 0 /\ interval.known, from |-> newest, got |-> {}]
          BY <1>2, <2>1, <4>6
        <5>2. ~interval'.known /\ interval'.got = {} /\ IsFiniteSet({})
          BY <4>6, <5>1, FS_EmptySet
        <5> QED
          BY <3>3, <4>4, <5>2 DEF IntervalCounted
      <4> QED
        BY <4>5, <4>6
    <3>7. CASE n - newest \notin 1 .. MAX_DROPOUT - 1
      <4>1. newest' = newest /\ seq = max
        BY <2>4, <2>7, <3>5, <3>7
      <4>2. rtp'.mCycles = rtp.mCycles /\ rtp'.mMaxSeq = rtp.mMaxSeq
        BY <1>8, <3>3, <4>1
      <4>3. Tracked'
        BY <2>1, <2>2, <3>3, <3>5, <4>1, <4>2 DEF Tracked
      <4>4. interval' = [known |-> base = 0 /\ interval.known, from |-> newest, got |-> {}]
        BY <1>2, <2>1, <3>7
      <4>5. ~interval'.known /\ interval'.got = {} /\ IsFiniteSet({})
        BY <2>1, <2>20, <4>4, FS_EmptySet
      <4> QED
        BY <3>3, <4>3, <4>5 DEF IntervalCounted
    <3> QED
      BY <3>6, <3>7
  <2>8. CASE ~(delta < MAX_DROPOUT)
    <3>1. n - newest \notin 1 .. MAX_DROPOUT - 1
      BY <2>4, <2>8
    <3>2. interval' = [known |-> base = 0 /\ interval.known, from |-> newest, got |-> {}]
      BY <1>2, <2>1, <3>1
    <3>3. ~interval'.known /\ interval'.got = {} /\ IsFiniteSet({})
      BY <2>1, <2>20, <3>2, FS_EmptySet
    <3>4. IntervalCounted'
      BY <3>3 DEF IntervalCounted
    <3>5. /\ rtp' \in SessionType /\ rtp'.mProbation = rtp.mProbation
          /\ \/ /\ seq = rtp.mBadSeq /\ rtp'.mBadSeq > OZ_RTP_SEQ_MOD
                /\ rtp'.mBaseSeq = seq /\ rtp'.mMaxSeq = seq /\ rtp'.mCycles = 0
             \/ /\ ~restarted
                /\ rtp'.mBaseSeq = rtp.mBaseSeq /\ rtp'.mMaxSeq = rtp.mMaxSeq /\ rtp'.mCycles = rtp.mCycles
      <4>1. CASE delta <= OZ_RTP_SEQ_MOD - MAX_MISORDER
        <5>1. rtp' = FarAway(rtp, seq)
          BY <2>5, <2>8, <4>1
        <5> QED
          BY <1>3, <1>8, <5>1, FarAwayIs DEF restarted
      <4>2. CASE ~(delta <= OZ_RTP_SEQ_MOD - MAX_MISORDER)
        <5>1. rtp' = rtp
          BY <2>5, <2>8, <4>2
        <5>2. ~restarted
          BY <1>8, <5>1, SequenceSizes DEF restarted
        <5> QED
          BY <1>3, <5>1, <5>2
      <4> QED
        BY <4>1, <4>2
    <3>6. CASE restarted
      <4>1. base' = n /\ newest' = n /\ n > 0 /\ n <= n
        BY <1>2, <1>4, <3>6
      <4>2. rtp'.mBaseSeq = seq /\ rtp'.mMaxSeq = seq /\ rtp'.mCycles = 0
        BY <3>5, <3>6
      <4>3. rtp'.mCycles + rtp'.mMaxSeq - rtp'.mBaseSeq = 0 /\ n - n = 0
        BY <1>4, <1>8, <4>2
      <4>4. Tracked'
        BY <2>1, <3>5, <4>1, <4>2, <4>3 DEF Tracked
      <4> QED
        BY <3>4, <3>5, <4>4
    <3>7. CASE ~restarted
      <4>1. base' = base /\ newest' = newest
        BY <1>2, <2>1, <3>1, <3>7
      <4>2. rtp'.mBaseSeq = rtp.mBaseSeq /\ rtp'.mMaxSeq = rtp.mMaxSeq /\ rtp'.mCycles = rtp.mCycles
        BY <2>1, <3>5, <3>7 DEF restarted
      <4>3. Tracked'
        BY <2>1, <2>2, <3>5, <4>1, <4>2 DEF Tracked
      <4> QED
        BY <3>4, <3>5, <4>3
    <3> QED
      BY <3>6, <3>7
  <2> QED
    BY <2>7, <2>8
<1> QED
  BY <1>10, <1>11

LEMMA SequenceStep == SequenceInv /\ [SequenceNext]_sequenceVars => SequenceInv'
<1> SUFFICES ASSUME SequenceInv, [SequenceNext]_sequenceVars
             PROVE  SequenceInv'
  OBVIOUS
<1>1. CASE UNCHANGED sequenceVars
  BY <1>1 DEF sequenceVars, SequenceInv, SequenceTyped, Tracked, IntervalCounted
<1>2. CASE SequenceNext
  BY <1>2, SourceKeeps, ReportKeeps, ArriveKeeps DEF SequenceNext
<1> QED
  BY <1>1, <1>2

(* The share that a report tells is the share that is missing. *)
LEMMA ReportTells ==
  ASSUME SequenceInv, SenderReport, base > 0, interval.known, newest - interval.from > 0
  PROVE  generateRr(rtp').fraction =
             (256 * (newest - interval.from - Cardinality(interval.got))) \div (newest - interval.from)
<1> PICK expected, c : expected = newest - interval.from /\ c = Cardinality(interval.got)
  OBVIOUS
<1>1. rtp \in SessionType /\ rtp' = updateRtcpStats(rtp)
  BY DEF SequenceInv, SequenceTyped, SenderReport
<1>2. /\ IsFiniteSet(interval.got)
      /\ rtp.mReceivedPackets - rtp.mReceivedPrior \in {c, c - Word}
      /\ interval.from \in base - 1 .. newest /\ interval.got \subseteq interval.from + 1 .. newest
      /\ newest > interval.from => newest \in interval.got
      /\ rtp.mExpectedPrior = interval.from - base + 1
  BY DEF SequenceInv, IntervalCounted
<1>3. base \in 0 .. MaxNumber /\ newest \in 0 .. MaxNumber /\ interval.from \in Int
  BY DEF SequenceInv, SequenceTyped
<1>4. expected \in 1 .. MaxNumber /\ newest > interval.from
  <2>1. MaxNumber \in Nat
    BY SequenceSizes
  <2>2. interval.from >= base - 1 /\ base >= 1
    BY <1>2, <1>3
  <2> QED
    BY <1>3, <2>1, <2>2
<1>5. c \in Nat /\ c >= 1 /\ c <= expected
  <2>1. c \in Nat
    BY <1>2, FS_CardinalityType
  <2>2. c # 0
    BY <1>2, <1>4, FS_EmptySet
  <2>3. c <= Cardinality(interval.from + 1 .. newest)
    <3>1. interval.from + 1 \in Int /\ newest \in Int
      BY <1>3
    <3> QED
      BY <1>2, <3>1, FS_Interval, FS_Subset
  <2>4. Cardinality(interval.from + 1 .. newest) = expected
    <3>1. interval.from + 1 \in Int /\ newest \in Int /\ ~(interval.from + 1 > newest) /\ newest - (interval.from + 1) + 1 = expected
      BY <1>3, <1>4
    <3> QED
      BY <3>1, FS_Interval
  <2> QED
    BY <2>1, <2>2, <2>3, <2>4
<1>6. Word \in Nat \ {0} /\ Word > 256 * MaxNumber /\ MaxNumber \in Nat
  BY SequenceSizes
<1>7. (rtp.mCycles + rtp.mMaxSeq - rtp.mBaseSeq + 1) % Word = newest - base + 1
  BY ExpectedIs
<1>8. (newest - base + 1) - rtp.mExpectedPrior = expected
  BY <1>2, <1>3
<1>9. expected % Word = expected
  <2>1. expected \in 0 .. Word - 1 /\ expected \in Int
    BY <1>4, <1>6
  <2> QED
    BY <1>6, <2>1, RemainderNear
<1> PICK missing : missing = expected - c
  OBVIOUS
<1>10. missing \in 0 .. expected - 1
  BY <1>4, <1>5
<1> PICK short : short = expected - (rtp.mReceivedPackets - rtp.mReceivedPrior)
  OBVIOUS
<1>11. short % Word = missing
  <2>1. rtp.mReceivedPackets \in Int /\ rtp.mReceivedPrior \in Int
    BY <1>1 DEF SessionType
  <2>2. short = missing \/ short = missing + Word
    BY <1>2, <1>4, <1>5, <1>6, <2>1
  <2>3. missing \in 0 .. Word - 1 /\ missing + Word \in Word .. 2 * Word - 1 /\ missing + Word - Word = missing
    BY <1>4, <1>6, <1>10
  <2>4. missing % Word = missing /\ (missing + Word) % Word = missing
    <3>1. missing \in Int /\ missing + Word \in Int
      BY <1>4, <1>6, <1>10
    <3>2. missing % Word = missing
      BY <1>6, <2>3, <3>1, RemainderNear
    <3>3. (missing + Word) % Word = missing + Word - Word
      BY <1>6, <2>3, <3>1, RemainderNear
    <3> QED
      BY <2>3, <3>2, <3>3
  <2> QED
    BY <2>2, <2>4
<1>12. (missing * 256) % Word = 256 * missing
  <2>1. missing * 256 \in 0 .. Word - 1 /\ missing * 256 \in Int /\ missing * 256 = 256 * missing
    BY <1>4, <1>6, <1>10
  <2> QED
    BY <1>6, <2>1, RemainderNear
<1> PICK share : share = (256 * missing) \div expected
  OBVIOUS
<1>13. share \in 0 .. 255
  <2>1. expected \in Nat \ {0} /\ 256 * missing \in Nat /\ 256 * missing < expected * 256 /\ 256 \in Nat
    BY <1>4, <1>6, <1>10
  <2> QED
    <3>1. (256 * missing) \div expected \in 0 .. 256 - 1
      BY <2>1, QuotientBelow, ZenonT(60)
    <3>2. share \in 0 .. 256 - 1
      BY <3>1, Zenon
    <3> QED
      BY <3>2
<1>14. share % 256 = share
  <2>1. 256 \in Nat \ {0} /\ share \in Int /\ share \in 0 .. 256 - 1
    BY <1>13
  <2> QED
    BY <2>1, RemainderNear, ZenonT(60)
<1>15. rtp'.mLostFraction = IF expected = 0 \/ missing = 0 THEN 0 ELSE share % 256
  <2>1. LET exp == (rtp.mCycles + rtp.mMaxSeq - rtp.mBaseSeq + 1) % Word
            expectedInterval == (exp - rtp.mExpectedPrior) % Word
            lostInterval == (expectedInterval - (rtp.mReceivedPackets - rtp.mReceivedPrior)) % Word
        IN  rtp'.mLostFraction = IF expectedInterval = 0 \/ lostInterval = 0 THEN 0
                                 ELSE (((lostInterval * 256) % Word) \div expectedInterval) % 256
    BY <1>1, StatsAre
  <2>2. rtp'.mLostFraction = IF expected = 0 \/ short % Word = 0 THEN 0
                             ELSE ((((short % Word) * 256) % Word) \div expected) % 256
    <3> PICK e, i : e = (rtp.mCycles + rtp.mMaxSeq - rtp.mBaseSeq + 1) % Word /\ i = (e - rtp.mExpectedPrior) % Word
      OBVIOUS
    <3>1. LET lostInterval == (i - (rtp.mReceivedPackets - rtp.mReceivedPrior)) % Word
          IN  rtp'.mLostFraction = IF i = 0 \/ lostInterval = 0 THEN 0
                                   ELSE (((lostInterval * 256) % Word) \div i) % 256
      BY <2>1, ZenonT(60)
    <3>2. e = newest - base + 1
      BY <1>7, Zenon
    <3>3. i = expected
      BY <1>8, <1>9, <3>2, Zenon
    <3> QED
      BY <3>1, <3>3, ZenonT(60)
  <2> QED
    BY <1>11, <1>12, <2>2
<1>16. missing = 0 => share = 0
  <2>1. missing = 0 => 256 * missing = 0 * expected + 0
    BY <1>4
  <2> QED
    BY <1>4, <1>10, <1>13, <2>1
<1> QED
  BY <1>4, <1>14, <1>15, <1>16 DEF generateRr

(* What a session knows of its packets is right as long as it goes on (ozRtpSession.cpp:58-160, 240-270). *)
THEOREM SequenceInvariant == SequenceSpec => []SequenceInv
BY SequenceInitially, SequenceStep, PTL DEF SequenceSpec

(* The newest packet's place is known over wraps, losses, repeats and restarts, and each report of  *)
(* an interval that nothing disturbed tells the share that is missing, for any size of the numbers  *)
(* and the words, any dropout and misorder, and any source and network (ozRtpSession.cpp:82-160,    *)
(* 240-270).                                                                                        *)
THEOREM SequenceAlwaysHolds == SequenceSpec => SequenceHolds
<1>1. SequenceInv /\ SequenceInv' /\ [SequenceNext]_sequenceVars => [NumbersTracked' /\ LossReported]_sequenceVars
  <2> SUFFICES ASSUME SequenceInv, SequenceInv'
               PROVE  NumbersTracked' /\ LossReported
    OBVIOUS
  <2>1. NumbersTracked'
    <3>1. base' > 0 => rtp'.mCycles + rtp'.mMaxSeq - rtp'.mBaseSeq = newest' - base'
      <4>1. Tracked'
        BY DEF SequenceInv
      <4> QED
        BY <4>1 DEF Tracked
    <3>2. generateRr(rtp').lastSeq = rtp'.mCycles + rtp'.mMaxSeq
      BY DEF generateRr
    <3>3. rtp'.mCycles \in Int /\ rtp'.mMaxSeq \in Int /\ rtp'.mBaseSeq \in Int
      <4>1. rtp' \in SessionType
        BY DEF SequenceInv, SequenceTyped
      <4> QED
        BY <4>1 DEF SessionType
    <3>4. base' > 0 => (rtp'.mCycles + rtp'.mMaxSeq) - rtp'.mBaseSeq = newest' - base'
      BY <3>1, <3>3
    <3> QED
      BY <3>2, <3>4 DEF NumbersTracked
  <2>2. LossReported
    BY ReportTells DEF LossReported
  <2> QED
    BY <2>1, <2>2
<1> QED
  BY <1>1, SequenceInvariant, PTL DEF SequenceSpec, SequenceHolds

-----------------------------------------------------------------------------
(***************************************************************************)
(* RtspPackets: a frame in packets.  The search in words finds what a      *)
(* search byte by byte would, so a NAL unit ends where the next one's      *)
(* start code is; what a receiver has put together is followed packet by   *)
(* packet.                                                                 *)
(***************************************************************************)

(* The least of a set of naturals. *)
LEMMA Least == ASSUME NEW S \in SUBSET Nat, S # {} PROVE \E n \in S : \A m \in S : n <= m
<1> DEFINE R == OpToRel(<, Nat)
<1>1. IsWellFoundedOn(R, Nat)
  BY NatLessThanWellFounded
<1>2. \A x, y \in Nat : x < y => << x, y >> \in R
  BY DEF OpToRel
<1> HIDE DEF R
<1>3. PICK n \in S : \A m \in S : ~(<< m, n >> \in R)
  BY <1>1, WFMin
<1>4. \A m \in S : ~(m < n)
  BY <1>2, <1>3
<1> QED
  BY <1>4

LEMMA FirstIs ==
  ASSUME NEW P \in SUBSET Nat, NEW none
  PROVE  /\ P = {} => First(P, none) = none
         /\ P # {} => First(P, none) \in P /\ \A q \in P : First(P, none) <= q
<1>1. ASSUME P # {} PROVE Min(P) \in P /\ \A q \in P : Min(P) <= q
  <2>1. PICK n \in P : \A m \in P : n <= m
    BY <1>1, Least
  <2> QED
    BY <2>1 DEF Min
<1> QED
  BY <1>1 DEF First

(* What is in a set and before all of it is its first. *)
LEMMA FirstIsThis ==
  ASSUME NEW P \in SUBSET Nat, NEW n \in P, \A q \in P : n <= q, NEW none
  PROVE  First(P, none) = n
<1>1. PICK m \in P : m = First(P, none) /\ m <= n
  BY FirstIs
<1>2. m \in Nat /\ n \in Nat /\ n <= m
  OBVIOUS
<1> QED
  BY <1>1, <1>2

LEMMA LeastOfTwoIs == ASSUME NEW m \in Nat, NEW n \in Nat PROVE Min({m, n}) = IF m <= n THEN m ELSE n
  BY DEF Min

-----------------------------------------------------------------------------
(* Where the start codes are *)

Codes == { c \in 0 .. tail - 4 : IsCode(c) }
CodesFrom(p) == { c \in Codes : c >= p }

LEMMA TailType == ASSUME frame \in Seq(Nat) PROVE tail \in Nat /\ \A p \in 0 .. tail - 1 : Byte(p) \in Nat
<1>1. Len(frame) \in Nat /\ DOMAIN frame = 1 .. Len(frame) /\ \A i \in 1 .. Len(frame) : frame[i] \in Nat
  BY LenProperties, ElementOfSeq
<1> QED
  BY <1>1 DEF tail, Byte

LEMMA AlignedIs == ASSUME NEW p \in Nat, align \in 0 .. 3 PROVE Aligned(p) \in Nat /\ p < Aligned(p)
<1>1. (align + p) % 4 \in 0 .. 3
  OBVIOUS
<1> QED
  BY <1>1 DEF Aligned

(* The word that a byte is in, counted from the first one. *)
Word4(a, d) == d - ((d - a) % 4)

LEMMA WordOf ==
  ASSUME NEW a \in Nat, NEW d \in Nat, a <= d
  PROVE  LET w == Word4(a, d) IN w \in Nat /\ a <= w /\ w <= d /\ d <= w + 3 /\ (w - a) % 4 = 0
<1> DEFINE r == (d - a) % 4
<1>1. r \in 0 .. 3 /\ r <= d - a /\ (d - a - r) % 4 = 0
  OBVIOUS
<1>2. Word4(a, d) = d - r
  BY DEF Word4
<1> HIDE DEF r
<1>3. (d - r) - a = d - a - r
  BY <1>1
<1> QED
  BY <1>1, <1>2, <1>3

(* Words do not overlap. *)
LEMMA WordsApart ==
  ASSUME NEW a \in Nat, NEW v \in Nat, NEW w \in Nat, (v - a) % 4 = 0, (w - a) % 4 = 0, v < w
  PROVE  v + 4 <= w
  OBVIOUS

(* A start code in a word with a zero is found there. *)
LEMMA CodeInWord ==
  ASSUME NEW w \in Nat, NEW d \in w .. w + 3, IsCode(d)
  PROVE  InWord(w, d)
<1>1. CASE d = w
  BY <1>1 DEF InWord, IsCode
<1>2. CASE d = w + 1
  <2>1. Byte(w + 1) = 0
    BY <1>2 DEF IsCode
  <2> QED
    BY <1>2, <2>1 DEF InWord
<1>3. CASE d = w + 2
  <2>1. Byte(w + 3) = 0
    BY <1>3 DEF IsCode
  <2> QED
    BY <1>3, <2>1 DEF InWord
<1>4. CASE d = w + 3
  <2>1. Byte(w + 3) = 0
    BY <1>4 DEF IsCode
  <2> QED
    BY <1>4, <2>1 DEF InWord
<1> QED
  BY <1>1, <1>2, <1>3, <1>4

(* The search in words finds the first start code. *)
LEMMA FindCodeIs ==
  ASSUME frame \in Seq(Nat), align \in 0 .. 3, NEW p \in Nat
  PROVE  FindCode(p) = First(CodesFrom(p), tail)
<1> DEFINE a       == Aligned(p)
           words   == { w \in a .. tail - 7 : (w - a) % 4 = 0 }
           ends    == { w \in a .. tail : (w - a) % 4 = 0 /\ w >= tail - 6 }
           rest    == IF a >= tail - 3 THEN tail ELSE First(ends, tail)
           byBytes == { q \in p .. tail - 4 : q < a /\ IsCode(q) }
           byWords == { q \in a .. tail - 4 : \E w \in words : InWord(w, q) }
           atEnd   == { q \in rest .. tail - 4 : IsCode(q) }
           D       == CodesFrom(p)
<1>1. FindCode(p) = First(byBytes, First(byWords, First(atEnd, tail)))
  BY DEF FindCode
<1>2. tail \in Nat
  BY TailType
<1>3. a \in Nat /\ p < a
  BY AlignedIs
<1>4. \A q : q \in D <=> q \in 0 .. tail - 4 /\ q >= p /\ IsCode(q)
  BY DEF CodesFrom, Codes
<1>5. \A q : q \in byBytes <=> q \in D /\ q < a
  BY <1>2, <1>3, <1>4
<1>6. \A q \in byWords : q \in D /\ q >= a /\ \E w \in words : q \in w .. w + 3
  <2> SUFFICES ASSUME NEW q \in byWords PROVE q \in D /\ q >= a /\ \E w \in words : q \in w .. w + 3
    OBVIOUS
  <2>1. PICK w \in words : InWord(w, q)
    OBVIOUS
  <2>2. w \in Nat /\ q \in 0 .. tail - 4 /\ q >= a /\ q >= p
    BY <1>2, <1>3
  <2>3. q \in w .. w + 3 /\ IsCode(q)
    BY <2>1, <2>2 DEF InWord
  <2> QED
    BY <1>4, <2>2, <2>3
<1>7. \A d \in D : d >= a => d \in byWords \/ Word4(a, d) \in ends
  <2> SUFFICES ASSUME NEW d \in D, d >= a PROVE d \in byWords \/ Word4(a, d) \in ends
    OBVIOUS
  <2> DEFINE w == Word4(a, d)
  <2>1. d \in Nat /\ d <= tail - 4 /\ IsCode(d)
    BY <1>2, <1>4
  <2>2. w \in Nat /\ a <= w /\ w <= d /\ d <= w + 3 /\ (w - a) % 4 = 0
    BY <1>3, <2>1, WordOf
  <2> HIDE DEF w
  <2>3. InWord(w, d)
    BY <2>1, <2>2, CodeInWord
  <2>4. CASE w <= tail - 7
    <3>1. w \in words
      BY <1>2, <1>3, <2>2, <2>4
    <3> QED
      BY <1>2, <1>3, <2>1, <2>2, <2>3, <3>1
  <2>5. CASE ~(w <= tail - 7)
    <3>1. w \in ends
      BY <1>2, <1>3, <2>1, <2>2, <2>5
    <3> QED
      BY <3>1 DEF w
  <2> QED
    BY <2>4, <2>5
<1>8. D \in SUBSET Nat /\ byBytes \in SUBSET Nat /\ byWords \in SUBSET Nat /\ ends \in SUBSET Nat
  BY <1>2, <1>3, <1>4, <1>5
<1>9. \A w \in ends : w >= a
  BY <1>2, <1>3
<1>10. \A q : q \in atEnd <=> q \in rest .. tail - 4 /\ IsCode(q)
  OBVIOUS
<1>11. a >= tail - 3 => rest = tail
  OBVIOUS
<1>12. ~(a >= tail - 3) => rest = First(ends, tail)
  OBVIOUS
<1>13. \A w \in ends : w >= tail - 6 /\ (w - a) % 4 = 0
  OBVIOUS
<1>14. \A w \in words : w \in Nat /\ w <= tail - 7 /\ (w - a) % 4 = 0
  BY <1>2, <1>3
<1> HIDE DEF a, words, ends, rest, byBytes, byWords, atEnd, D
<1>15. \A d : d \in atEnd => d \in D
  <2>1. CASE a >= tail - 3
    BY <1>2, <1>3, <1>10, <1>11, <2>1
  <2>2. CASE ~(a >= tail - 3)
    <3>1. rest \in Nat /\ rest >= a
      <4>1. CASE ends = {}
        <5>1. rest = tail
          BY <1>8, <1>12, <2>2, <4>1, FirstIs
        <5> QED
          BY <1>2, <1>3, <2>2, <5>1
      <4>2. CASE ends # {}
        BY <1>8, <1>9, <1>12, <2>2, <4>2, FirstIs
      <4> QED
        BY <4>1, <4>2
    <3> QED
      BY <1>2, <1>3, <1>4, <1>10, <3>1
  <2> QED
    BY <2>1, <2>2
<1>16. \A d \in D : d >= a /\ Word4(a, d) \in ends => d \in atEnd
  <2> SUFFICES ASSUME NEW d \in D, d >= a, Word4(a, d) \in ends PROVE d \in atEnd
    OBVIOUS
  <2>1. d \in Nat /\ d <= tail - 4 /\ IsCode(d)
    BY <1>2, <1>4
  <2>2. Word4(a, d) \in Nat /\ Word4(a, d) <= d
    BY <1>3, <2>1, WordOf
  <2>3. rest = First(ends, tail)
    BY <1>2, <1>3, <1>12, <2>1
  <2>4. rest \in ends /\ rest <= Word4(a, d)
    BY <1>8, <2>3, FirstIs
  <2>5. rest \in Nat
    BY <1>8, <2>4
  <2> QED
    BY <1>2, <1>10, <2>1, <2>2, <2>4, <2>5
<1>17. CASE byBytes # {}
  <2>2. PICK m \in byBytes : FindCode(p) = m /\ \A q \in byBytes : m <= q
    BY <1>1, <1>8, <1>17, FirstIs
  <2>3. m \in D /\ m < a
    BY <1>5
  <2>4. \A q \in D : m <= q
    BY <1>3, <1>5, <1>8, <2>2, <2>3
  <2> QED
    BY <1>8, <2>2, <2>3, <2>4, FirstIsThis DEF D
<1>18. CASE byBytes = {} /\ byWords # {}
  <2>1. FindCode(p) = First(byWords, First(atEnd, tail))
    BY <1>1, <1>18 DEF First
  <2>2. PICK m \in byWords : FindCode(p) = m /\ \A q \in byWords : m <= q
    BY <1>8, <1>18, <2>1, FirstIs
  <2>3. m \in D /\ m >= a /\ \E w \in words : m \in w .. w + 3
    BY <1>6
  <2>4. PICK v \in words : m \in v .. v + 3
    BY <2>3
  <2>5. v \in Nat /\ v <= tail - 7 /\ (v - a) % 4 = 0
    BY <1>14
  <2>6. ASSUME NEW q \in D PROVE m <= q
    <3>1. q \in Nat /\ q >= a
      BY <1>3, <1>5, <1>8, <1>18
    <3>2. CASE q \in byWords
      BY <2>2, <3>2
    <3>3. CASE Word4(a, q) \in ends
      <4> DEFINE w == Word4(a, q)
      <4>1. w \in Nat /\ w <= q /\ (w - a) % 4 = 0
        BY <1>3, <3>1, WordOf
      <4>2. w >= tail - 6
        BY <1>13, <3>3
      <4> HIDE DEF w
      <4>3. v < w
        BY <1>2, <2>5, <4>1, <4>2
      <4>4. v + 4 <= w
        BY <1>3, <2>5, <4>1, <4>3, WordsApart
      <4> QED
        BY <1>3, <2>4, <2>5, <3>1, <4>1, <4>4
    <3> QED
      BY <1>7, <3>1, <3>2, <3>3
  <2> QED
    BY <1>8, <2>2, <2>3, <2>6, FirstIsThis DEF D
<1>19. CASE byBytes = {} /\ byWords = {}
  <2>1. FindCode(p) = First(atEnd, tail)
    BY <1>1, <1>19 DEF First
  <2>2. \A q \in D : q >= a
    BY <1>3, <1>5, <1>8, <1>19
  <2>3. D \subseteq atEnd
    BY <1>7, <1>16, <1>19, <2>2
  <2>4. atEnd = D
    BY <1>15, <2>3
  <2> QED
    BY <2>1, <2>4 DEF D
<1> QED
  BY <1>17, <1>18, <1>19

-----------------------------------------------------------------------------
(* Where the NAL units are *)

LEMMA BeginsAre ==
  ASSUME frame \in Seq(Nat)
  PROVE  /\ Begins \in SUBSET Nat
         /\ \A q \in Nat : q \in Begins => q - 3 \in Codes /\ q >= 3 /\ q < tail
         /\ \A c \in Codes : c \in Nat /\ c + 3 \in Begins /\ c <= tail - 4
<1>1. tail \in Nat
  BY TailType
<1>2. ASSUME NEW c \in Codes PROVE c \in Nat /\ c + 3 \in Begins /\ c <= tail - 4
  <2>1. c \in 0 .. tail - 4 /\ IsCode(c)
    BY DEF Codes
  <2>2. c + 3 \in 3 .. tail - 1 /\ (c + 3) - 3 = c
    BY <1>1, <2>1
  <2>3. IsCode((c + 3) - 3)
    BY <2>1, <2>2
  <2> QED
    BY <1>1, <2>1, <2>2, <2>3 DEF Begins
<1>3. ASSUME NEW q \in Begins PROVE q \in Nat /\ q - 3 \in Codes /\ q >= 3 /\ q < tail
  BY <1>1 DEF Begins, Codes
<1> QED
  BY <1>2, <1>3

(* What the code finds from a place: the next start code, and behind it the next NAL unit. *)
Leads(p, next) ==
    \/ CodesFrom(p) = {} /\ next = tail
    \/ /\ next \in p .. tail - 1 /\ Skip(next) \in Begins /\ Skip(next) >= p + 3
       /\ \A q \in Begins : q >= p + 3 => Skip(next) <= q

LEMMA StartCodeIs ==
  ASSUME frame \in Seq(Nat), align \in 0 .. 3, NEW p \in Nat
  PROVE  Leads(p, h264StartCode(p))
<1> DEFINE out == First(CodesFrom(p), tail)
           next == IF p < out /\ out < tail /\ Byte(out - 1) = 0 THEN out - 1 ELSE out
<1>1. h264StartCode(p) = next
  BY FindCodeIs DEF h264StartCode
<1>2. tail \in Nat /\ \A i \in 0 .. tail - 1 : Byte(i) \in Nat
  BY TailType
<1>3. CodesFrom(p) \in SUBSET Nat /\ CodesFrom(p) \subseteq Codes
  BY <1>2 DEF CodesFrom, Codes
<1>4. CASE CodesFrom(p) = {}
  <2>1. out = tail
    BY <1>3, <1>4, FirstIs
  <2> HIDE DEF out
  <2>2. next = tail
    BY <1>2, <2>1
  <2> QED
    BY <1>1, <1>4, <2>2 DEF Leads
<1>5. CASE CodesFrom(p) # {}
  <2>1. out \in CodesFrom(p) /\ \A q \in CodesFrom(p) : out <= q
    BY <1>3, <1>5, FirstIs
  <2> HIDE DEF out
  <2>2. out \in Nat /\ out >= p /\ out <= tail - 4 /\ Byte(out) = 0 /\ Byte(out + 1) = 0 /\ Byte(out + 2) = 1
    BY <1>2, <2>1 DEF CodesFrom, Codes, IsCode
  <2>3. next \in p .. tail - 1 /\ next \in {out - 1, out} /\ (next = out - 1 => Byte(next) = 0)
    BY <1>2, <2>2
  <2> HIDE DEF next
  <2> DEFINE N == { q \in next .. tail - 1 : Byte(q) # 0 }
  <2>4. N \in SUBSET Nat
    BY <1>2, <2>3
  <2>5. out + 2 \in N
    BY <1>2, <2>2, <2>3
  <2>6. ASSUME NEW q \in N PROVE out + 2 <= q
    <3>1. q \in Nat /\ next <= q /\ Byte(q) # 0
      BY <1>2, <2>3
    <3>2. q # out - 1 /\ q # out /\ q # out + 1
      BY <1>2, <2>2, <2>3, <3>1
    <3> QED
      BY <2>2, <2>3, <3>1, <3>2
  <2> HIDE DEF N
  <2>7. First(N, tail) = out + 2
    BY <2>4, <2>5, <2>6, FirstIsThis
  <2>8. Skip(next) = out + 3
    BY <2>2, <2>7 DEF Skip, N
  <2>9. ASSUME NEW q \in Begins, q >= p + 3 PROVE out + 3 <= q
    <3>1. q \in Nat /\ q - 3 \in Codes
      BY BeginsAre
    <3>2. q - 3 \in CodesFrom(p)
      BY <3>1, <2>9 DEF CodesFrom
    <3>3. out <= q - 3
      BY <2>1, <3>2
    <3> QED
      BY <2>2, <3>1, <3>3
  <2>10. out + 3 \in Begins /\ out + 3 >= p + 3
    BY <1>3, <2>1, <2>2, BeginsAre
  <2> QED
    BY <1>1, <2>3, <2>8, <2>9, <2>10 DEF Leads
<1> QED
  BY <1>4, <1>5

(* A NAL unit ends where the code finds the next start code. *)
LEMMA EndIs ==
  ASSUME frame \in Seq(Nat), align \in 0 .. 3, NEW p \in Nat
  PROVE  Ends(p) = h264StartCode(p)
<1> DEFINE B == { q \in p + 3 .. tail - 1 : q \in Begins }
           C == CodesFrom(p)
<1>1. tail \in Nat
  BY TailType
<1>2. B \in SUBSET Nat /\ C \in SUBSET Nat
  BY <1>1 DEF CodesFrom, Codes
<1>3. ASSUME NEW c \in C PROVE c + 3 \in B /\ c \in Nat
  <2>1. c \in Codes /\ c >= p /\ c \in Nat
    BY <1>2 DEF CodesFrom
  <2>2. c + 3 \in Begins /\ c <= tail - 4
    BY <2>1, BeginsAre
  <2> QED
    BY <1>1, <2>1, <2>2
<1>4. ASSUME NEW q \in B PROVE q - 3 \in C /\ q \in Nat
  <2>1. q \in Begins /\ q >= p + 3 /\ q \in Nat
    BY <1>1, <1>2
  <2>2. q - 3 \in Codes
    BY <2>1, BeginsAre
  <2> QED
    BY <2>1, <2>2 DEF CodesFrom
<1>5. Ends(p) = LET next == First(B, tail + 3) - 3 IN IF next < tail /\ next > p /\ Byte(next - 1) = 0 THEN next - 1 ELSE next
  BY DEF Ends
<1>6. h264StartCode(p) = LET out == First(C, tail) IN IF p < out /\ out < tail /\ Byte(out - 1) = 0 THEN out - 1 ELSE out
  BY FindCodeIs DEF h264StartCode
<1> HIDE DEF B, C
<1>7. First(B, tail + 3) - 3 = First(C, tail) /\ First(C, tail) \in Nat
  <2>1. CASE C = {}
    <3>1. B = {}
      BY <1>4, <2>1
    <3>2. First(B, tail + 3) = tail + 3 /\ First(C, tail) = tail
      BY <1>2, <2>1, <3>1, FirstIs
    <3> QED
      BY <1>1, <3>2
  <2>2. CASE C # {}
    <3>1. PICK c \in C : First(C, tail) = c /\ \A d \in C : c <= d
      BY <1>2, <2>2, FirstIs
    <3>2. c + 3 \in B /\ c \in Nat
      BY <1>3
    <3>3. ASSUME NEW q \in B PROVE c + 3 <= q
      <4>1. q - 3 \in C /\ q \in Nat
        BY <1>4
      <4>2. c <= q - 3
        BY <3>1, <4>1
      <4> QED
        BY <3>2, <4>1, <4>2
    <3>4. First(B, tail + 3) = c + 3
      BY <1>2, <3>2, <3>3, FirstIsThis
    <3> QED
      BY <3>1, <3>2, <3>4
  <2> QED
    BY <2>1, <2>2
<1>8. First(B, tail + 3) - 3 > p <=> p < First(C, tail)
  BY <1>7
<1> QED
  BY <1>5, <1>6, <1>7, <1>8

(* NAL units do not begin in each other's start codes. *)
LEMMA BeginsApart ==
  ASSUME frame \in Seq(Nat), NEW b \in Begins, NEW q \in Begins, b < q
  PROVE  b + 3 <= q
<1>1. b \in Nat /\ q \in Nat /\ b >= 3 /\ q >= 3
  BY BeginsAre
<1>2. IsCode(b - 3) /\ IsCode(q - 3)
  BY BeginsAre DEF Codes
<1>3. Byte(b - 3 + 2) = 1 /\ Byte(b - 3 + 1) = 0 /\ Byte(q - 3) = 0 /\ Byte(q - 3 + 1) = 0
  BY <1>2 DEF IsCode
<1>4. Byte(b - 1) = 1 /\ Byte(q - 3) = 0 /\ Byte(q - 2) = 0
  BY <1>1, <1>3
<1>5. q - 3 # b - 1 /\ q - 2 # b - 1
  BY <1>4
<1> QED
  BY <1>1, <1>5

(* Behind a NAL unit comes the next one or the end of the frame. *)
Follows(b, next) ==
    /\ next \in b .. tail
    /\ next = tail => \A q \in Begins : q <= b
    /\ next < tail => Skip(next) \in Begins /\ b < Skip(next) /\ \A q \in Begins : b < q => Skip(next) <= q

LEMMA UnitFollows ==
  ASSUME frame \in Seq(Nat), align \in 0 .. 3, NEW b \in Begins
  PROVE  h264StartCode(b) = Ends(b) /\ Follows(b, Ends(b))
<1>1. b \in Nat /\ b < tail /\ tail \in Nat /\ Begins \in SUBSET Nat
  BY BeginsAre, TailType
<1>2. h264StartCode(b) = Ends(b)
  BY <1>1, EndIs
<1> DEFINE next == Ends(b)
<1>3. Leads(b, next)
  BY <1>1, <1>2, StartCodeIs
<1> HIDE DEF next
<1>4. CASE CodesFrom(b) = {} /\ next = tail
  <2>1. ASSUME NEW q \in Begins, b < q PROVE FALSE
    <3>1. b + 3 <= q /\ q \in Nat /\ q - 3 \in Codes
      BY <1>1, <2>1, BeginsApart, BeginsAre
    <3>2. q - 3 \in CodesFrom(b)
      BY <1>1, <3>1 DEF CodesFrom
    <3> QED
      BY <1>4, <3>2
  <2>2. \A q \in Begins : q <= b
    BY <1>1, <2>1
  <2>3. next \in b .. tail
    BY <1>1, <1>4
  <2>4. Follows(b, next)
    BY <1>1, <1>4, <2>2, <2>3 DEF Follows
  <2> QED
    BY <1>2, <2>4 DEF next
<1>5. CASE /\ next \in b .. tail - 1 /\ Skip(next) \in Begins /\ Skip(next) >= b + 3
           /\ \A q \in Begins : q >= b + 3 => Skip(next) <= q
  <2>1. \A q \in Begins : b < q => Skip(next) <= q
    BY <1>1, <1>5, BeginsApart
  <2>2. next \in b .. tail /\ next # tail
    BY <1>1, <1>5
  <2>3. b < Skip(next)
    <3>1. PICK q \in Begins : q = Skip(next) /\ q >= b + 3
      BY <1>5
    <3>2. q \in Nat
      BY <1>1
    <3> QED
      BY <1>1, <3>1, <3>2
  <2>4. Follows(b, next)
    BY <1>5, <2>1, <2>2, <2>3 DEF Follows
  <2> QED
    BY <1>2, <2>4 DEF next
<1> QED
  BY <1>3, <1>4, <1>5 DEF Leads

(* How many NAL units there are. *)
Before(n) == { q \in Begins : q < n }

LEMMA UnitsCounted ==
  ASSUME frame \in Seq(Nat), NEW b \in Begins
  PROVE  /\ Cardinality(Before(b)) \in Nat
         /\ Number(b) = Cardinality(Before(b)) + 1
         /\ \A n \in Nat : b < n /\ (\A q \in Begins : q < n => q <= b) => Cardinality(Before(n)) = Number(b)
         /\ \A q \in Begins : q < b => Number(q) \in 1 .. Cardinality(Before(b))
<1>1. Begins \in SUBSET Nat /\ b \in Nat /\ tail \in Nat
  BY BeginsAre, TailType
<1>2. IsFiniteSet(Begins)
  <2>1. IsFiniteSet(0 .. tail)
    BY <1>1, FS_Interval
  <2>2. Begins \subseteq 0 .. tail
    BY <1>1, BeginsAre
  <2> QED
    BY <2>1, <2>2, FS_Subset
<1>3. \A S \in SUBSET Begins : IsFiniteSet(S) /\ Cardinality(S) \in Nat
  BY <1>2, FS_Subset, FS_CardinalityType
<1>4. ASSUME NEW q \in Begins PROVE Number(q) = Cardinality(Before(q)) + 1 /\ Number(q) = Cardinality({ p \in Begins : p <= q })
  <2>1. Before(q) \in SUBSET Begins /\ q \notin Before(q)
    BY <1>1 DEF Before
  <2>2. Cardinality(Before(q) \cup {q}) = Cardinality(Before(q)) + 1
    BY <1>3, <2>1, FS_AddElement
  <2>3. \A p \in Begins : p <= q <=> p < q \/ p = q
    BY <1>1
  <2>4. { p \in Begins : p <= q } = Before(q) \cup {q}
    BY <2>3 DEF Before
  <2> QED
    BY <2>2, <2>4 DEF Number
<1>5. ASSUME NEW n \in Nat, b < n, \A q \in Begins : q < n => q <= b PROVE Cardinality(Before(n)) = Number(b)
  <2>1. \A q \in Begins : q < n <=> q <= b
    BY <1>1, <1>5
  <2>2. Before(n) = { q \in Begins : q <= b }
    BY <2>1 DEF Before
  <2> QED
    BY <1>4, <2>2
<1>6. ASSUME NEW q \in Begins, q < b PROVE Number(q) \in 1 .. Cardinality(Before(b))
  <2>0. \A p \in Begins : p <= q => p < b
    BY <1>1, <1>6
  <2>1. { p \in Begins : p <= q } \subseteq Before(b) /\ Before(b) \in SUBSET Begins
    BY <2>0 DEF Before
  <2>2. Cardinality({ p \in Begins : p <= q }) <= Cardinality(Before(b))
    BY <1>3, <2>1, FS_Subset
  <2>3. Cardinality(Before(q)) \in Nat /\ Cardinality(Before(b)) \in Nat
    BY <1>3, <2>1 DEF Before
  <2>4. Number(q) = Cardinality(Before(q)) + 1 /\ Number(q) <= Cardinality(Before(b))
    BY <1>4, <2>2
  <2> QED
    BY <2>3, <2>4
<1>7. Cardinality(Before(b)) \in Nat
  BY <1>3 DEF Before
<1> QED
  BY <1>4, <1>5, <1>6, <1>7

-----------------------------------------------------------------------------
(* What a receiver has *)

Things == [nals : Seq(Seq(Nat)), open : Seq(Nat)]

(* After each of the packets. *)
Runs(h264, packets, n, got) ==
    /\ got = [i \in 0 .. n |-> got[i]]
    /\ got[0] = NothingGot
    /\ \A i \in 1 .. n : got[i] = Receive(h264, got[i - 1], packets[i])

LEMMA RunsAreOne ==
  ASSUME NEW h264, NEW p, NEW q, NEW m \in Nat, NEW n \in Nat, m <= n, \A i \in 1 .. m : p[i] = q[i],
         NEW f, NEW g, Runs(h264, p, m, f), Runs(h264, q, n, g), NEW k \in 0 .. m
  PROVE  f[k] = g[k]
<1> SUFFICES ASSUME f[k] # g[k] PROVE FALSE
  OBVIOUS
<1> DEFINE Bad == { i \in 0 .. m : f[i] # g[i] }
<1>1. Bad \in SUBSET Nat /\ Bad # {}
  OBVIOUS
<1>2. PICK i \in Bad : \A j \in Bad : i <= j
  BY <1>1, Least
<1>3. i # 0
  BY DEF Runs
<1>4. i \in 1 .. m /\ i \in 1 .. n /\ i - 1 \in 0 .. m /\ ~(i <= i - 1)
  BY <1>3
<1>5. f[i - 1] = g[i - 1]
  BY <1>2, <1>4
<1>6. f[i] = Receive(h264, f[i - 1], p[i]) /\ g[i] = Receive(h264, g[i - 1], q[i])
  BY <1>4 DEF Runs
<1>7. p[i] = q[i] /\ f[i] # g[i]
  BY <1>4
<1> QED
  BY <1>5, <1>6, <1>7

LEMMA RunsFurther ==
  ASSUME NEW h264, NEW packets, NEW n \in Nat, NEW f, Runs(h264, packets, n, f)
  PROVE  \E g : Runs(h264, packets, n + 1, g)
<1> DEFINE g == [i \in 0 .. n + 1 |-> IF i = n + 1 THEN Receive(h264, f[n], packets[n + 1]) ELSE f[i]]
<1>1. g = [i \in 0 .. n + 1 |-> g[i]]
  OBVIOUS
<1>2. g[n + 1] = Receive(h264, f[n], packets[n + 1]) /\ \A i \in 0 .. n : g[i] = f[i]
  OBVIOUS
<1> HIDE DEF g
<1>3. g[0] = NothingGot
  BY <1>2 DEF Runs
<1>4. ASSUME NEW i \in 1 .. n + 1 PROVE g[i] = Receive(h264, g[i - 1], packets[i])
  <2>1. CASE i = n + 1
    <3>1. i - 1 = n
      BY <2>1
    <3> QED
      BY <1>2, <2>1, <3>1
  <2>2. CASE i \in 1 .. n
    <3>1. i - 1 \in 0 .. n /\ i \in 0 .. n
      BY <2>2
    <3>2. f[i] = Receive(h264, f[i - 1], packets[i])
      BY <2>2 DEF Runs
    <3> QED
      BY <1>2, <3>1, <3>2
  <2> QED
    BY <2>1, <2>2
<1> QED
  BY <1>1, <1>3, <1>4 DEF Runs

LEMMA RunsAreThere ==
  ASSUME NEW h264, NEW packets, NEW n \in Nat
  PROVE  \E f : Runs(h264, packets, n, f)
<1> DEFINE Bad == { i \in Nat : ~ \E f : Runs(h264, packets, i, f) }
<1>1. 0 \notin Bad
  <2> DEFINE f == [i \in 0 .. 0 |-> NothingGot]
  <2>1. f = [i \in 0 .. 0 |-> f[i]] /\ f[0] = NothingGot
    OBVIOUS
  <2> HIDE DEF f
  <2>2. Runs(h264, packets, 0, f)
    BY <2>1 DEF Runs
  <2> QED
    BY <2>2
<1>2. ASSUME Bad # {} PROVE FALSE
  <2>1. Bad \in SUBSET Nat
    OBVIOUS
  <2>2. PICK i \in Bad : \A j \in Bad : i <= j
    BY <1>2, <2>1, Least
  <2>3. i \in Nat /\ i # 0
    BY <1>1
  <2>4. i - 1 \in Nat /\ ~(i <= i - 1) /\ (i - 1) + 1 = i
    BY <2>3
  <2>5. i - 1 \notin Bad
    BY <2>2, <2>4
  <2>6. PICK f : Runs(h264, packets, i - 1, f)
    BY <2>4, <2>5
  <2>7. \E g : Runs(h264, packets, (i - 1) + 1, g)
    BY <2>4, <2>6, RunsFurther
  <2> QED
    BY <2>4, <2>7
<1> QED
  BY <1>2

LEMMA ReceivedIsRun ==
  ASSUME NEW h264, NEW packets, Len(packets) \in Nat
  PROVE  \E f : Runs(h264, packets, Len(packets), f) /\ ReceivedFrom(h264, packets) = f[Len(packets)]
<1> DEFINE n == Len(packets)
           Then(f) == [i \in 0 .. n |-> IF i = 0 THEN NothingGot ELSE Receive(h264, f[i - 1], packets[i])]
           got == CHOOSE f : f = Then(f)
<1>1. ReceivedFrom(h264, packets) = got[n]
  BY DEF ReceivedFrom
<1>2. n \in Nat
  OBVIOUS
<1> HIDE DEF n
<1>3. PICK f : Runs(h264, packets, n, f)
  BY <1>2, RunsAreThere
<1>4. f = Then(f)
  <2>1. DOMAIN f = 0 .. n /\ f = [i \in 0 .. n |-> f[i]]
    BY <1>3 DEF Runs
  <2>2. ASSUME NEW i \in 0 .. n PROVE f[i] = IF i = 0 THEN NothingGot ELSE Receive(h264, f[i - 1], packets[i])
    <3>1. i # 0 => i \in 1 .. n
      BY <1>2
    <3> QED
      BY <1>3, <3>1 DEF Runs
  <2> QED
    BY <2>1, <2>2
<1>5. got = Then(got)
  BY <1>4
<1>6. Runs(h264, packets, n, got)
  <2>1. DOMAIN got = 0 .. n /\ got = [i \in 0 .. n |-> got[i]]
    BY <1>5
  <2>2. \A i \in 0 .. n : got[i] = IF i = 0 THEN NothingGot ELSE Receive(h264, got[i - 1], packets[i])
    BY <1>5
  <2> HIDE DEF got, Then
  <2> QED
    BY <1>2, <2>1, <2>2 DEF Runs
<1> HIDE DEF got
<1> QED
  BY <1>1, <1>6 DEF n

(* Nothing without packets, and one packet more is received on top of the others. *)
LEMMA ReceivedNothing == ASSUME NEW h264 PROVE ReceivedFrom(h264, << >>) = NothingGot
<1>1. Len(<< >>) = 0
  OBVIOUS
<1>2. PICK f : Runs(h264, << >>, 0, f) /\ ReceivedFrom(h264, << >>) = f[0]
  BY <1>1, ReceivedIsRun
<1> QED
  BY <1>2 DEF Runs

LEMMA ReceivedOneMore ==
  ASSUME NEW h264, NEW S, NEW packets \in Seq(S), NEW x \in S
  PROVE  ReceivedFrom(h264, Append(packets, x)) = Receive(h264, ReceivedFrom(h264, packets), x)
<1> DEFINE n == Len(packets)
           more == Append(packets, x)
<1>1. n \in Nat /\ Len(more) = n + 1 /\ more[n + 1] = x /\ \A i \in 1 .. n : more[i] = packets[i]
  BY AppendProperties, LenProperties
<1> HIDE DEF more
<1>2. PICK f : Runs(h264, packets, n, f) /\ ReceivedFrom(h264, packets) = f[n]
  BY <1>1, ReceivedIsRun
<1>3. PICK g : Runs(h264, more, n + 1, g) /\ ReceivedFrom(h264, more) = g[n + 1]
  BY <1>1, ReceivedIsRun
<1> HIDE DEF n
<1>4. f[n] = g[n]
  <2>1. n + 1 \in Nat /\ n <= n + 1 /\ n \in 0 .. n /\ \A i \in 1 .. n : packets[i] = more[i]
    BY <1>1
  <2>2. Runs(h264, packets, n, f) /\ Runs(h264, more, n + 1, g)
    BY <1>2, <1>3
  <2>3. n \in Nat
    BY <1>1
  <2> QED
    BY <2>1, <2>2, <2>3, RunsAreOne
<1>5. g[n + 1] = Receive(h264, g[n], more[n + 1])
  <2>1. n + 1 \in 1 .. n + 1 /\ (n + 1) - 1 = n
    BY <1>1
  <2>2. g[n + 1] = Receive(h264, g[(n + 1) - 1], more[n + 1])
    BY <1>3, <2>1 DEF Runs
  <2> QED
    BY <2>1, <2>2
<1> QED
  BY <1>1, <1>2, <1>3, <1>4, <1>5 DEF more

(* What one packet changes. *)
LEMMA OneChanges ==
  ASSUME NEW got \in Things, NEW z
  PROVE  /\ [got EXCEPT !.open = z] = [nals |-> got.nals, open |-> z]
         /\ [got EXCEPT !.nals = z] = [nals |-> z, open |-> got.open]
  BY DEF Things

LEMMA BothKinds ==
  ASSUME NEW got \in Things, NEW x
  PROVE  /\ Receive(TRUE, got, x) = ReceiveNal(got, x)
         /\ Receive(FALSE, got, x) = [nals |-> got.nals, open |-> got.open \o x.data]
  BY OneChanges DEF Receive

LEMMA WholeUnit ==
  ASSUME NEW got \in Things, NEW x, x.fu = NoFu
  PROVE  ReceiveNal(got, x) = [nals |-> Append(got.nals, x.data), open |-> got.open]
<1>1. ReceiveNal(got, x) = [got EXCEPT !.nals = Append(got.nals, x.data)]
  BY DEF ReceiveNal
<1> QED
  BY <1>1, OneChanges

Fu(header, start, end) == [header |-> header, start |-> start, end |-> end]

LEMMA FusAre ==
  /\ NoFu \in Fus
  /\ \A header \in Nat, start, end \in BOOLEAN : Fu(header, start, end) \in Fus /\ Fu(header, start, end) # NoFu
  BY DEF Fu, Fus, NoFu

LEMMA FirstFragment ==
  ASSUME NEW got \in Things, NEW x, NEW header \in Nat, NEW end \in BOOLEAN, x.fu = Fu(header, TRUE, end)
  PROVE  ReceiveNal(got, x) = [nals |-> got.nals, open |-> << header >> \o x.data]
<1>0. x.fu # NoFu
  BY FusAre
<1>1. x.fu # NoFu /\ x.fu.start /\ x.fu.header = header
  BY <1>0 DEF Fu
<1>2. ReceiveNal(got, x) = [got EXCEPT !.open = << header >> \o x.data]
  BY <1>1 DEF ReceiveNal
<1> QED
  BY <1>2, OneChanges

LEMMA LaterFragment ==
  ASSUME NEW got \in Things, NEW x, NEW header \in Nat, x.fu = Fu(header, FALSE, FALSE)
  PROVE  ReceiveNal(got, x) = [nals |-> got.nals, open |-> got.open \o x.data]
<1>0. x.fu # NoFu
  BY FusAre
<1>1. x.fu # NoFu /\ ~x.fu.start /\ ~x.fu.end
  BY <1>0 DEF Fu
<1>2. ReceiveNal(got, x) = [got EXCEPT !.open = got.open \o x.data]
  BY <1>1 DEF ReceiveNal
<1> QED
  BY <1>2, OneChanges

LEMMA LastFragment ==
  ASSUME NEW got \in Things, NEW x, NEW header \in Nat, x.fu = Fu(header, FALSE, TRUE)
  PROVE  ReceiveNal(got, x) = [nals |-> Append(got.nals, got.open \o x.data), open |-> << >>]
<1>0. x.fu # NoFu
  BY FusAre
<1>1. x.fu # NoFu /\ ~x.fu.start /\ x.fu.end
  BY <1>0 DEF Fu
<1> QED
  BY <1>1 DEF ReceiveNal

LEMMA ReceiveType ==
  ASSUME NEW got \in Things, NEW x \in Packets, NEW h264 \in BOOLEAN
  PROVE  Receive(h264, got, x) \in Things
<1>1. got.nals \in Seq(Seq(Nat)) /\ got.open \in Seq(Nat)
  BY DEF Things
<1>2. x.data \in Seq(Nat) /\ x.fu \in Fus
  BY DEF Packets
<1>3. got.open \o x.data \in Seq(Nat) /\ << >> \in Seq(Nat)
  BY <1>1, <1>2, ConcatProperties
<1>4. \A unit \in Seq(Nat) : Append(got.nals, unit) \in Seq(Seq(Nat))
  BY <1>1, AppendProperties
<1>5. ASSUME NEW nals \in Seq(Seq(Nat)), NEW open \in Seq(Nat) PROVE [nals |-> nals, open |-> open] \in Things
  BY DEF Things
<1>6. CASE x.fu = NoFu
  <2>1. ReceiveNal(got, x) \in Things
    <3>1. Append(got.nals, x.data) \in Seq(Seq(Nat))
      BY <1>2, <1>4
    <3> QED
      BY <1>1, <1>5, <1>6, <3>1, WholeUnit
  <2> QED
    BY <1>1, <1>3, <1>5, <2>1, BothKinds
<1>7. ASSUME NEW header \in Nat, NEW start \in BOOLEAN, NEW end \in BOOLEAN, x.fu = Fu(header, start, end)
      PROVE  Receive(h264, got, x) \in Things
  <2>1. CASE start = TRUE
    <3>1. << header >> \o x.data \in Seq(Nat)
      <4>1. << header >> \in Seq(Nat)
        OBVIOUS
      <4> QED
        BY <1>2, <4>1, ConcatProperties
    <3>2. ReceiveNal(got, x) \in Things
      BY <1>1, <1>5, <1>7, <2>1, <3>1, FirstFragment
    <3> QED
      BY <1>1, <1>3, <1>5, <3>2, BothKinds
  <2>2. CASE start = FALSE /\ end = FALSE
    <3>1. ReceiveNal(got, x) \in Things
      BY <1>1, <1>3, <1>5, <1>7, <2>2, LaterFragment
    <3> QED
      BY <1>1, <1>3, <1>5, <3>1, BothKinds
  <2>3. CASE start = FALSE /\ end = TRUE
    <3>1. ReceiveNal(got, x) \in Things
      BY <1>1, <1>3, <1>4, <1>5, <1>7, <2>3, LastFragment
    <3> QED
      BY <1>1, <1>3, <1>5, <3>1, BothKinds
  <2> QED
    BY <2>1, <2>2, <2>3
<1>8. x.fu = NoFu \/ \E header \in Nat, start, end \in BOOLEAN : x.fu = Fu(header, start, end)
  BY <1>2 DEF Fus, Fu
<1> QED
  BY <1>6, <1>7, <1>8

LEMMA ReceivedType ==
  ASSUME NEW h264 \in BOOLEAN, NEW packets \in Seq(Packets)
  PROVE  ReceivedFrom(h264, packets) \in Things
<1> DEFINE n == Len(packets)
<1>1. n \in Nat
  BY LenProperties
<1>2. PICK f : Runs(h264, packets, n, f) /\ ReceivedFrom(h264, packets) = f[n]
  BY <1>1, ReceivedIsRun
<1>3. \A i \in 1 .. n : packets[i] \in Packets
  BY ElementOfSeq
<1> HIDE DEF n
<1> DEFINE Bad == { i \in 0 .. n : f[i] \notin Things }
<1>4. ASSUME Bad # {} PROVE FALSE
  <2>1. Bad \in SUBSET Nat
    BY <1>1
  <2>2. PICK i \in Bad : \A j \in Bad : i <= j
    BY <1>4, <2>1, Least
  <2>3. NothingGot \in Things
    BY DEF NothingGot, Things
  <2>4. i # 0
    BY <1>2, <2>3 DEF Runs
  <2>5. i \in 1 .. n /\ i - 1 \in 0 .. n /\ ~(i <= i - 1)
    BY <1>1, <2>4
  <2>6. f[i - 1] \in Things
    BY <2>2, <2>5
  <2>7. packets[i] \in Packets
    BY <1>3, <2>5
  <2>8. f[i] = Receive(h264, f[i - 1], packets[i])
    BY <1>2, <2>5 DEF Runs
  <2> QED
    BY <2>6, <2>7, <2>8, ReceiveType
<1> QED
  BY <1>1, <1>2, <1>4

-----------------------------------------------------------------------------
(* The bytes between two places *)

LEMMA BytesAre ==
  ASSUME frame \in Seq(Nat), NEW i \in Nat, NEW k \in Nat, i <= k, k <= tail
  PROVE  /\ Bytes(i, k) \in Seq(Nat) /\ Len(Bytes(i, k)) = k - i
         /\ i = k => Bytes(i, k) = << >>
         /\ i < k => Byte(i) \in Nat /\ << Byte(i) >> \o Bytes(i + 1, k) = Bytes(i, k)
         /\ \A j \in i .. k : Bytes(i, j) \o Bytes(j, k) = Bytes(i, k)
         /\ Bytes(0, tail) = frame
<1>1. Len(frame) \in Nat /\ tail = Len(frame) /\ \A j \in 1 .. Len(frame) : frame[j] \in Nat
  BY LenProperties, ElementOfSeq DEF tail
<1>2. Bytes(i, k) \in Seq(Nat) /\ Len(Bytes(i, k)) = k - i
  <2>1. i + 1 \in Int /\ k \in Int /\ \A j \in i + 1 .. k : frame[j] \in Nat
    BY <1>1
  <2>2. SubSeq(frame, i + 1, k) \in Seq(Nat) /\ Len(SubSeq(frame, i + 1, k)) = IF i + 1 <= k THEN k - (i + 1) + 1 ELSE 0
    BY <2>1, SubSeqProperties
  <2>3. (IF i + 1 <= k THEN k - (i + 1) + 1 ELSE 0) = k - i
    OBVIOUS
  <2> QED
    BY <2>2, <2>3 DEF Bytes
<1>3. i = k => Bytes(i, k) = << >>
  BY SubSeqEmpty DEF Bytes
<1>4. ASSUME i < k PROVE Byte(i) \in Nat /\ << Byte(i) >> \o Bytes(i + 1, k) = Bytes(i, k)
  <2>1. i + 1 \in 1 .. Len(frame) /\ k \in i + 1 .. Len(frame)
    BY <1>1, <1>4
  <2>2. SubSeq(frame, i + 1, k) = << frame[i + 1] >> \o SubSeq(frame, (i + 1) + 1, k)
    BY <2>1, SubSeqRecursiveFirst
  <2> QED
    BY <1>1, <2>1, <2>2 DEF Byte, Bytes
<1>5. ASSUME NEW j \in i .. k PROVE Bytes(i, j) \o Bytes(j, k) = Bytes(i, k)
  <2>1. i + 1 \in 1 .. Len(frame) + 1 /\ j \in (i + 1) - 1 .. Len(frame) /\ k \in j .. Len(frame)
    BY <1>1
  <2> QED
    BY <2>1, ConcatAdjacentSubSeq DEF Bytes
<1>6. Bytes(0, tail) = frame
  BY <1>1, SubSeqFull DEF Bytes
<1> QED
  BY <1>2, <1>3, <1>4, <1>5, <1>6

-----------------------------------------------------------------------------
(* Units that have been received *)

Has(got, n) == Len(got.nals) = Cardinality(Before(n)) /\ \A q \in Begins : q < n => got.nals[Number(q)] = Bytes(q, Ends(q))

LEMMA HasOneMore ==
  ASSUME frame \in Seq(Nat), NEW b \in Begins, NEW got \in Things, Has(got, b),
         NEW more, more.nals = Append(got.nals, Bytes(b, Ends(b))), Bytes(b, Ends(b)) \in Seq(Nat),
         NEW n \in Nat, b < n, \A q \in Begins : q < n => q <= b
  PROVE  Has(more, n)
<1>1. Begins \in SUBSET Nat
  BY BeginsAre
<1>2. got.nals \in Seq(Seq(Nat)) /\ Len(got.nals) = Cardinality(Before(b)) /\ Len(got.nals) \in Nat
  BY UnitsCounted DEF Has, Things
<1>3. /\ Len(more.nals) = Len(got.nals) + 1
      /\ more.nals[Len(got.nals) + 1] = Bytes(b, Ends(b))
      /\ \A i \in 1 .. Len(got.nals) : more.nals[i] = got.nals[i]
  BY <1>2, AppendProperties
<1>4. Number(b) = Len(got.nals) + 1 /\ Cardinality(Before(n)) = Number(b)
  BY <1>2, UnitsCounted
<1>5. ASSUME NEW q \in Begins, q < n PROVE more.nals[Number(q)] = Bytes(q, Ends(q))
  <2>1. CASE q = b
    BY <1>3, <1>4, <2>1
  <2>2. CASE q < b
    <3>1. Number(q) \in 1 .. Len(got.nals)
      BY <1>2, <2>2, UnitsCounted
    <3>2. got.nals[Number(q)] = Bytes(q, Ends(q))
      BY <2>2 DEF Has
    <3> QED
      BY <1>3, <3>1, <3>2
  <2>3. q <= b /\ q \in Nat /\ b \in Nat
    BY <1>1, <1>5
  <2>4. q = b \/ q < b
    BY <2>3
  <2> QED
    BY <2>1, <2>2, <2>4
<1> QED
  BY <1>3, <1>4, <1>5 DEF Has

(* Once a NAL unit has been received, what the code goes on with is next. *)
LEMMA HasNext ==
  ASSUME frame \in Seq(Nat), align \in 0 .. 3, NEW b \in Begins, NEW got \in Things, Has(got, b),
         NEW more, more.nals = Append(got.nals, Bytes(b, Ends(b)))
  PROVE  /\ Ends(b) < tail => Skip(Ends(b)) \in Begins /\ Has(more, Skip(Ends(b)))
         /\ ~(Ends(b) < tail) => Ends(b) = tail /\ Has(more, tail)
<1> DEFINE next == Ends(b)
<1>1. b \in Nat /\ b < tail /\ tail \in Nat /\ Begins \in SUBSET Nat
  BY BeginsAre, TailType
<1>2. Follows(b, next)
  BY UnitFollows
<1>3. next \in b .. tail /\ next \in Nat
  BY <1>1, <1>2 DEF Follows
<1> HIDE DEF next
<1>4. Bytes(b, next) \in Seq(Nat)
  <2>1. b <= next /\ next <= tail
    BY <1>1, <1>3
  <2> QED
    BY <1>1, <1>3, <2>1, BytesAre
<1>5. ASSUME next < tail PROVE Skip(next) \in Begins /\ Has(more, Skip(next))
  <2>1. Skip(next) \in Begins /\ b < Skip(next) /\ \A q \in Begins : b < q => Skip(next) <= q
    BY <1>2, <1>5 DEF Follows
  <2>2. PICK n \in Nat : n = Skip(next)
    BY <1>1, <2>1
  <2>3. b < n /\ \A q \in Begins : q < n => q <= b
    BY <1>1, <2>1, <2>2
  <2>4. Has(more, n)
    BY <1>4, <2>3, HasOneMore DEF next
  <2> QED
    BY <2>1, <2>2, <2>4
<1>6. ASSUME ~(next < tail) PROVE next = tail /\ Has(more, tail)
  <2>1. next = tail
    BY <1>1, <1>3, <1>6
  <2>2. \A q \in Begins : q <= b
    BY <1>2, <2>1 DEF Follows
  <2>3. Has(more, tail)
    BY <1>1, <1>4, <2>2, HasOneMore DEF next
  <2> QED
    BY <2>1, <2>3
<1> QED
  BY <1>5, <1>6 DEF next

(* The frame stays, so what is said about it is said of what was received. *)
LEMMA FrameStays ==
  ASSUME frame' = frame
  PROVE  /\ Begins' = Begins /\ tail' = tail
         /\ Skip(startPos)' = Skip(startPos')
         /\ \A n : NalsUpTo(n)' <=> Has(Received', n)
         /\ NalsUpTo(tail)' <=> Has(Received', tail)
         /\ \A b : /\ Ends(b)' = Ends(b) /\ Byte(b)' = Byte(b)
                  /\ Bytes(b, startPos)' = Bytes(b, startPos')
<1>1. tail' = tail /\ \A n : Byte(n)' = Byte(n)
  BY DEF tail, Byte
<1>2. Begins' = Begins
  BY DEF Begins, IsCode, tail, Byte
<1>3. \A n : Ends(n)' = Ends(n) /\ Number(n)' = Number(n)
  BY <1>2 DEF Ends, Number, tail, Byte
<1>4. Skip(startPos)' = Skip(startPos')
  BY DEF Skip, tail, Byte
<1>5. \A n, m : Bytes(n, m)' = Bytes(n, m)
  BY DEF Bytes
<1>6. \A n : Bytes(n, startPos)' = Bytes(n, startPos')
  BY DEF Bytes
<1>7. \A n : NalsUpTo(n)' <=> Has(Received', n)
  <2> SUFFICES ASSUME NEW n PROVE NalsUpTo(n)' <=> Has(Received', n)
    OBVIOUS
  <2>1. \A q : Bytes(q, Ends(q))' = Bytes(q, Ends(q))
    BY <1>3 DEF Bytes
  <2> QED
    BY <1>2, <1>3, <2>1 DEF NalsUpTo, Has, Before
<1>8. NalsUpTo(tail)' <=> Has(Received', tail)
  <2>1. \A q : Bytes(q, Ends(q))' = Bytes(q, Ends(q))
    BY <1>3 DEF Bytes
  <2> QED
    BY <1>1, <1>2, <1>3, <2>1 DEF NalsUpTo, Has, Before
<1> QED
  BY <1>1, <1>2, <1>3, <1>4, <1>6, <1>7, <1>8

LEMMA HasIs == ASSUME NEW n PROVE NalsUpTo(n) <=> Has(Received, n)
  BY DEF NalsUpTo, Has, Before

-----------------------------------------------------------------------------
(* The steps *)

USE PacketAssumption

LEMMA FrameTypes == ASSUME PacketTypes PROVE frame \in Seq(Nat) /\ align \in 0 .. 3
  BY DEF PacketTypes

LEMMA NextNumber == ASSUME NEW n \in Nat, NEW M \in Nat \ {0} PROVE ((n % M) + 1) % M = (n + 1) % M
<1>1. \E q \in Int, r \in Int : q = n \div M /\ r = n % M /\ n = q * M + r
  BY Z3
<1>2. PICK q \in Int, r \in Int : r = n % M /\ n = q * M + r
  BY <1>1
<1>3. r \in 0 .. M - 1
  BY <1>2
<1>4. ASSUME NEW k \in Int, NEW i \in 0 .. M - 1 PROVE (k * M + i) % M = i
  OBVIOUS
<1>5. CASE r + 1 \in 0 .. M - 1
  <2> DEFINE i == r + 1
  <2>0. i \in 0 .. M - 1
    BY <1>5
  <2> HIDE DEF i
  <2>1. (q * M + i) % M = i /\ (0 * M + i) % M = i
    BY <1>4, <2>0
  <2>2. q * M \in Int /\ q * M + i = n + 1 /\ 0 * M + i = r + 1
    BY <1>2 DEF i
  <2> QED
    BY <1>2, <2>1, <2>2 DEF i
<1>6. CASE r + 1 = M
  <2>1. ((q + 1) * M + 0) % M = 0 /\ (1 * M + 0) % M = 0
    BY <1>4
  <2>2. (q + 1) * M + 0 = n + 1 /\ 1 * M + 0 = r + 1
    <3>1. (q + 1) * M = q * M + M
      BY Z3
    <3> QED
      BY <1>2, <1>6, <3>1
  <2> QED
    BY <1>2, <2>1, <2>2
<1> QED
  BY <1>3, <1>5, <1>6

(* A packet that fits and says whether it is the last one. *)
LEMMA OnePacketMore ==
  ASSUME PacketTypes, PacketsAreGood, at # "sent",
         NEW fu \in Fus, NEW data \in Seq(Nat), NEW marker \in BOOLEAN, buildPacket(fu, data, marker),
         marker <=> at' = "sent", Len(data) + (IF fu = NoFu THEN 0 ELSE 2) <= OZ_RTP_MAX_PACKET_SIZE,
         isH264' = isH264
  PROVE  /\ mSeq' \in Nat /\ mPacketQueue' \in Seq(Packets) /\ PacketsAreGood'
         /\ Received \in Things /\ \E x : x.fu = fu /\ x.data = data /\ Received' = Receive(isH264, Received, x)
<1> DEFINE x == [seq |-> mSeq, m |-> marker, fu |-> fu, data |-> data]
           n == Len(mPacketQueue)
<1>1. mPacketQueue \in Seq(Packets) /\ mSeq \in Nat /\ isH264 \in BOOLEAN /\ n \in Nat
  BY LenProperties DEF PacketTypes
<1>2. mPacketQueue' = Append(mPacketQueue, x) /\ mSeq' = (mSeq + 1) % NumberMod
  BY DEF buildPacket
<1>3. x \in Packets
  BY <1>1 DEF Packets
<1>4. x.seq = mSeq /\ x.m = marker /\ x.fu = fu /\ x.data = data
  OBVIOUS
<1> HIDE DEF x
<1>5. /\ mPacketQueue' \in Seq(Packets) /\ Len(mPacketQueue') = n + 1 /\ mPacketQueue'[n + 1] = x
      /\ \A i \in 1 .. n : mPacketQueue'[i] = mPacketQueue[i]
  BY <1>1, <1>2, <1>3, AppendProperties
<1>6. mSeq' \in Nat /\ mSeq = n % NumberMod /\ mSeq' = (n + 1) % NumberMod
  <2>1. mSeq = n % NumberMod
    BY DEF PacketsAreGood
  <2> HIDE DEF n
  <2>2. ((n % NumberMod) + 1) % NumberMod = (n + 1) % NumberMod
    BY <1>1, NextNumber
  <2>3. (mSeq + 1) % NumberMod \in Nat
    BY <1>1
  <2> QED
    BY <1>2, <2>1, <2>2, <2>3
<1>7. Received \in Things /\ Received' = Receive(isH264, Received, x)
  BY <1>1, <1>2, <1>3, ReceivedType, ReceivedOneMore DEF Received
<1>8. ASSUME NEW i \in 1 .. n + 1
      PROVE  LET packet == mPacketQueue'[i] IN
             /\ packet.m <=> at' = "sent" /\ i = n + 1
             /\ Len(packet.data) + (IF packet.fu = NoFu THEN 0 ELSE 2) <= OZ_RTP_MAX_PACKET_SIZE
             /\ packet.seq = (i - 1) % NumberMod
  <2>1. CASE i = n + 1
    <3>1. i - 1 = n
      BY <1>1, <2>1
    <3> QED
      BY <1>4, <1>5, <1>6, <2>1, <3>1
  <2>2. CASE i \in 1 .. n
    <3>1. i # n + 1
      BY <1>1, <2>2
    <3>2. mPacketQueue'[i] = mPacketQueue[i]
      BY <1>5, <2>2
    <3> DEFINE packet == mPacketQueue[i]
    <3>3. /\ packet.m <=> at = "sent" /\ i = n
          /\ Len(packet.data) + (IF packet.fu = NoFu THEN 0 ELSE 2) <= OZ_RTP_MAX_PACKET_SIZE
          /\ packet.seq = (i - 1) % NumberMod
      BY <2>2 DEF PacketsAreGood
    <3>4. ~packet.m
      BY <3>3
    <3> HIDE DEF packet
    <3>5. mPacketQueue'[i] = packet
      BY <3>2 DEF packet
    <3> QED
      BY <3>1, <3>3, <3>4, <3>5
  <2>3. i = n + 1 \/ i \in 1 .. n
    BY <1>1
  <2> QED
    BY <2>1, <2>2, <2>3
<1>9. PacketsAreGood'
  BY <1>5, <1>6, <1>8 DEF PacketsAreGood, NoFu
<1> QED
  BY <1>4, <1>5, <1>6, <1>7, <1>9

LEMMA PacketStart == PacketInit => PacketInv
<1> SUFFICES ASSUME PacketInit PROVE PacketInv
  OBVIOUS
<1>1. frame \in Seq(Nat)
  BY DEF PacketInit
<1>2. << >> \in Seq(Packets) /\ Len(mPacketQueue) = 0 /\ 0 % NumberMod = 0
  BY DEF PacketInit
<1>3. PacketTypes
  BY <1>2 DEF PacketInit, PacketTypes
<1>4. PacketsAreGood
  BY <1>2 DEF PacketInit, PacketsAreGood
<1>5. Received = NothingGot
  BY ReceivedNothing DEF Received, PacketInit
<1>6. NalsAreSent
  BY <1>5 DEF NalsAreSent, PacketInit, NothingGot
<1>7. BytesAreSent
  <2>0. tail \in Nat /\ 0 \in Nat /\ 0 <= 0 /\ 0 <= tail
    BY <1>1, TailType
  <2>1. Bytes(0, 0) = << >> /\ tail \in Nat
    BY <1>1, <2>0, BytesAre
  <2> QED
    BY <1>5, <2>1 DEF BytesAreSent, PacketInit, NothingGot
<1> QED
  BY <1>3, <1>4, <1>6, <1>7 DEF PacketInv

LEMMA SendPieceStep ==
  ASSUME PacketInv, SendPiece PROVE PacketInv'
<1>1. PacketTypes /\ PacketsAreGood /\ BytesAreSent /\ isH264 = FALSE /\ at = "start"
  BY DEF PacketInv, SendPiece, PacketTypes
<1>2. frame \in Seq(Nat) /\ tail \in Nat /\ startPos \in Nat /\ startPos <= tail
  BY <1>1, FrameTypes, TailType DEF PacketTypes, BytesAreSent
<1> DEFINE to == Min({tail, startPos + OZ_RTP_MAX_PACKET_SIZE})
<1>3. to = IF tail <= startPos + OZ_RTP_MAX_PACKET_SIZE THEN tail ELSE startPos + OZ_RTP_MAX_PACKET_SIZE
  BY <1>2, LeastOfTwoIs
<1>4. /\ buildPacket(NoFu, Bytes(startPos, to), to = tail) /\ startPos' = to /\ at' = IF to = tail THEN "sent" ELSE "start"
      /\ UNCHANGED << frame, isH264, align, nextStartPos, nalHeader, first >>
  BY DEF SendPiece
<1> HIDE DEF to
<1>5. to \in Nat /\ startPos <= to /\ to <= tail /\ to - startPos <= OZ_RTP_MAX_PACKET_SIZE
  BY <1>2, <1>3
<1>6. Bytes(startPos, to) \in Seq(Nat) /\ Len(Bytes(startPos, to)) = to - startPos
  BY <1>2, <1>5, BytesAre
<1>7. Bytes(0, startPos) \in Seq(Nat) /\ Bytes(0, startPos) \o Bytes(startPos, to) = Bytes(0, to)
  <2>1. 0 \in Nat /\ 0 <= startPos /\ 0 <= to /\ startPos \in 0 .. to
    BY <1>2, <1>5
  <2> QED
    BY <1>2, <1>5, <2>1, BytesAre
<1>8. NoFu \in Fus /\ at # "sent" /\ (to = tail) \in BOOLEAN /\ ((to = tail) <=> at' = "sent") /\ isH264' = isH264
      /\ Len(Bytes(startPos, to)) + (IF NoFu = NoFu THEN 0 ELSE 2) <= OZ_RTP_MAX_PACKET_SIZE
  BY <1>1, <1>4, <1>5, <1>6 DEF Fus
<1>9. /\ mSeq' \in Nat /\ mPacketQueue' \in Seq(Packets) /\ PacketsAreGood' /\ Received \in Things
      /\ \E x : x.fu = NoFu /\ x.data = Bytes(startPos, to) /\ Received' = Receive(isH264, Received, x)
  BY <1>1, <1>4, <1>6, <1>8, OnePacketMore
<1>10. Received' = [nals |-> Received.nals, open |-> Received.open \o Bytes(startPos, to)]
  BY <1>1, <1>9, BothKinds
<1>11. Received' = [nals |-> << >>, open |-> Bytes(0, to)]
  BY <1>1, <1>7, <1>10 DEF BytesAreSent
<1>12. Bytes(0, startPos)' = Bytes(0, to) /\ tail' = tail
  BY <1>4, FrameStays
<1>13. BytesAreSent'
  BY <1>4, <1>5, <1>11, <1>12 DEF BytesAreSent
<1>14. PacketTypes'
  BY <1>1, <1>4, <1>5, <1>9 DEF PacketTypes
<1> QED
  BY <1>1, <1>4, <1>9, <1>13, <1>14 DEF PacketInv

(* What a step to the next NAL unit needs. *)
LEMMA GoesOn ==
  ASSUME PacketTypes, frame' = frame, isH264' = isH264, isH264, align' = align, nextStartPos' = nextStartPos, nalHeader' = nalHeader,
         first' = first, PacketsAreGood', mSeq' \in Nat, mPacketQueue' \in Seq(Packets), NEW next \in Nat, GoOn(next),
         Received'.open = << >>,
         next < tail => Skip(next) \in Begins /\ Has(Received', Skip(next)),
         ~(next < tail) => Has(Received', tail)
  PROVE  PacketInv'
<1>1. startPos' = next /\ at' = IF next < tail THEN "nal" ELSE "sent"
  BY DEF GoOn
<1>2. PacketTypes'
  BY <1>1 DEF PacketTypes
<1>3. /\ Begins' = Begins /\ Skip(startPos)' = Skip(next) /\ \A n : NalsUpTo(n)' <=> Has(Received', n)
      /\ NalsUpTo(tail)' <=> Has(Received', tail)
  BY <1>1, FrameStays
<1>4. NalsAreSent'
  BY <1>1, <1>3 DEF NalsAreSent
<1> QED
  BY <1>2, <1>4 DEF PacketInv

LEMMA FindFirstStep ==
  ASSUME PacketInv, FindFirst PROVE PacketInv'
<1>1. PacketTypes /\ PacketsAreGood /\ NalsAreSent /\ isH264 /\ at = "start"
  BY DEF PacketInv, FindFirst
<1>2. frame \in Seq(Nat) /\ align \in 0 .. 3
  BY <1>1, FrameTypes
<1>3. tail \in Nat
  BY <1>2, TailType
<1> DEFINE next == h264StartCode(0)
<1>4. Leads(0, next)
  BY <1>2, StartCodeIs
<1>5. GoOn(next) /\ UNCHANGED << frame, isH264, align, nextStartPos, nalHeader, first, mSeq, mPacketQueue >>
  BY DEF FindFirst
<1> HIDE DEF next
<1>6. mPacketQueue = << >>
  BY <1>1 DEF NalsAreSent
<1>7. Received' = NothingGot
  BY <1>5, <1>6, ReceivedNothing DEF Received
<1>8. Begins \in SUBSET Nat
  BY <1>2, BeginsAre
<1>9. ASSUME NEW n, \A q \in Begins : ~(q < n) PROVE Has(NothingGot, n)
  <2>1. Before(n) = {}
    BY <1>9 DEF Before
  <2>2. Cardinality(Before(n)) = 0
    BY <2>1, FS_EmptySet
  <2> QED
    BY <1>9, <2>2 DEF Has, NothingGot
<1>10. next \in Nat /\ (next < tail => Skip(next) \in Begins /\ Has(NothingGot, Skip(next))) /\ (~(next < tail) => Has(NothingGot, tail))
  <2>1. CASE CodesFrom(0) = {} /\ next = tail
    <3>1. ASSUME NEW q \in Begins PROVE FALSE
      <4>1. q - 3 \in Codes /\ q - 3 >= 0
        BY <1>2, <1>8, BeginsAre
      <4> QED
        BY <2>1, <4>1 DEF CodesFrom
    <3>2. Has(NothingGot, tail)
      BY <1>9, <3>1
    <3> QED
      BY <1>3, <2>1, <3>2
  <2>2. CASE /\ next \in 0 .. tail - 1 /\ Skip(next) \in Begins /\ Skip(next) >= 0 + 3
             /\ \A q \in Begins : q >= 0 + 3 => Skip(next) <= q
    <3>1. ASSUME NEW q \in Begins PROVE ~(q < Skip(next))
      <4>1. q \in Nat /\ q >= 3 /\ Skip(next) \in Nat
        BY <1>2, <1>8, <2>2, BeginsAre
      <4>2. Skip(next) <= q
        BY <2>2, <4>1
      <4> QED
        BY <4>1, <4>2
    <3>2. Has(NothingGot, Skip(next))
      BY <1>9, <3>1
    <3> QED
      BY <1>3, <2>2, <3>2
  <2> QED
    BY <1>4, <2>1, <2>2 DEF Leads
<1>11. PacketsAreGood'
  <2>2. Len(mPacketQueue) = 0 /\ mPacketQueue' = mPacketQueue /\ mSeq' = mSeq
    BY <1>5, <1>6
  <2>3. mSeq = 0 % NumberMod
    BY <1>1, <2>2 DEF PacketsAreGood
  <2>4. Len(mPacketQueue') = 0 /\ \A i \in 1 .. 0 : FALSE
    BY <2>2
  <2> QED
    BY <2>2, <2>3, <2>4 DEF PacketsAreGood
<1>12. Received'.open = << >> /\ mSeq' \in Nat /\ mPacketQueue' \in Seq(Packets)
  BY <1>1, <1>5, <1>7 DEF NothingGot, PacketTypes
<1> QED
  BY <1>1, <1>5, <1>7, <1>10, <1>11, <1>12, GoesOn

(* The NAL unit that the code is at. *)
LEMMA AtUnit ==
  ASSUME PacketInv, at = "nal"
  PROVE  /\ PacketTypes /\ PacketsAreGood /\ NalsAreSent /\ isH264 = TRUE /\ frame \in Seq(Nat) /\ align \in 0 .. 3
         /\ \E b \in Begins : /\ Skip(startPos) = b /\ h264StartCode(b) = Ends(b) /\ Has(Received, b)
                             /\ b \in Nat /\ b < tail /\ tail \in Nat /\ Ends(b) \in b .. tail
<1>1. PacketTypes /\ PacketsAreGood /\ NalsAreSent /\ isH264 = TRUE
  BY DEF PacketInv, BytesAreSent, PacketTypes
<1>2. frame \in Seq(Nat) /\ align \in 0 .. 3
  BY <1>1, FrameTypes
<1>3. PICK b \in Begins : Skip(startPos) = b /\ NalsUpTo(b)
  BY <1>1 DEF NalsAreSent
<1>4. b \in Nat /\ b < tail /\ tail \in Nat
  BY <1>2, BeginsAre, TailType
<1>5. h264StartCode(b) = Ends(b) /\ Ends(b) \in b .. tail
  BY <1>2, UnitFollows DEF Follows
<1> QED
  BY <1>1, <1>2, <1>3, <1>4, <1>5, HasIs

LEMMA SendNalStep ==
  ASSUME PacketInv, SendNal PROVE PacketInv'
<1>1. at = "nal"
  BY DEF SendNal
<1>2. PacketTypes /\ PacketsAreGood /\ NalsAreSent /\ isH264 = TRUE /\ frame \in Seq(Nat) /\ align \in 0 .. 3
  BY <1>1, AtUnit
<1>3. PICK b \in Begins : /\ Skip(startPos) = b /\ h264StartCode(b) = Ends(b) /\ Has(Received, b)
                          /\ b \in Nat /\ b < tail /\ tail \in Nat /\ Ends(b) \in b .. tail
  BY <1>1, AtUnit
<1> DEFINE next == Ends(b)
<1>4. /\ next - b <= OZ_RTP_MAX_PACKET_SIZE /\ buildPacket(NoFu, Bytes(b, next), next = tail) /\ GoOn(next)
      /\ UNCHANGED << frame, isH264, align, nextStartPos, nalHeader, first >>
  BY <1>3 DEF SendNal
<1> HIDE DEF next
<1>5. next \in Nat /\ b <= next /\ next <= tail
  BY <1>3 DEF next
<1>6. Bytes(b, next) \in Seq(Nat) /\ Len(Bytes(b, next)) = next - b
  BY <1>2, <1>3, <1>5, BytesAre
<1>7. /\ NoFu \in Fus /\ at # "sent" /\ (next = tail) \in BOOLEAN /\ ((next = tail) <=> at' = "sent") /\ isH264' = isH264
      /\ Len(Bytes(b, next)) + (IF NoFu = NoFu THEN 0 ELSE 2) <= OZ_RTP_MAX_PACKET_SIZE
  BY <1>1, <1>3, <1>4, <1>5, <1>6 DEF Fus, GoOn
<1>8. /\ mSeq' \in Nat /\ mPacketQueue' \in Seq(Packets) /\ PacketsAreGood' /\ Received \in Things
      /\ \E x : x.fu = NoFu /\ x.data = Bytes(b, next) /\ Received' = Receive(isH264, Received, x)
  BY <1>2, <1>4, <1>6, <1>7, OnePacketMore
<1>9. Received' = [nals |-> Append(Received.nals, Bytes(b, next)), open |-> Received.open]
  BY <1>2, <1>8, BothKinds, WholeUnit
<1>10. Received'.nals = Append(Received.nals, Bytes(b, Ends(b))) /\ Received'.open = << >>
  BY <1>1, <1>2, <1>9 DEF next, NalsAreSent
<1>11. /\ next < tail => Skip(next) \in Begins /\ Has(Received', Skip(next))
       /\ ~(next < tail) => Has(Received', tail)
  BY <1>2, <1>3, <1>8, <1>10, HasNext DEF next
<1> QED
  BY <1>2, <1>4, <1>5, <1>8, <1>10, <1>11, GoesOn

LEMMA SplitNalStep ==
  ASSUME PacketInv, SplitNal PROVE PacketInv'
<1>1. at = "nal"
  BY DEF SplitNal
<1>2. PacketTypes /\ PacketsAreGood /\ NalsAreSent /\ isH264 = TRUE /\ frame \in Seq(Nat) /\ align \in 0 .. 3
  BY <1>1, AtUnit
<1>3. PICK b \in Begins : /\ Skip(startPos) = b /\ h264StartCode(b) = Ends(b) /\ Has(Received, b)
                          /\ b \in Nat /\ b < tail /\ tail \in Nat /\ Ends(b) \in b .. tail
  BY <1>1, AtUnit
<1>4. /\ Ends(b) - b > OZ_RTP_MAX_PACKET_SIZE /\ nalHeader' = Byte(b) /\ startPos' = b + 1 /\ nextStartPos' = Ends(b)
      /\ first' = TRUE /\ at' = "fragment" /\ UNCHANGED << frame, isH264, align, mSeq, mPacketQueue >>
  BY <1>3 DEF SplitNal
<1>5. Byte(b) \in Nat /\ Ends(b) \in Nat
  BY <1>2, <1>3, TailType
<1>6. PacketTypes'
  BY <1>2, <1>3, <1>4, <1>5 DEF PacketTypes
<1>7. PacketsAreGood'
  BY <1>1, <1>2, <1>4 DEF PacketsAreGood
<1>8. Received' = Received
  BY <1>4 DEF Received
<1>9. Begins' = Begins /\ Ends(b)' = Ends(b) /\ Byte(b)' = Byte(b) /\ (NalsUpTo(b)' <=> Has(Received', b))
  BY <1>4, FrameStays
<1>10. InFragments(b)'
  <2>1. b < startPos' /\ startPos' < nextStartPos' /\ nextStartPos' - startPos' + 2 > OZ_RTP_MAX_PACKET_SIZE
    BY <1>3, <1>4, <1>5
  <2> QED
    BY <1>4, <1>9, <2>1 DEF InFragments
<1>11. NalsAreSent'
  BY <1>3, <1>4, <1>8, <1>9, <1>10 DEF NalsAreSent
<1> QED
  BY <1>2, <1>4, <1>6, <1>7, <1>11 DEF PacketInv

(* The NAL unit that is sent in fragments. *)
LEMMA InUnit ==
  ASSUME PacketInv, at = "fragment"
  PROVE  /\ PacketTypes /\ PacketsAreGood /\ isH264 = TRUE /\ frame \in Seq(Nat) /\ align \in 0 .. 3
         /\ \E b \in Begins : InFragments(b) /\ Has(Received, b) /\ b \in Nat /\ tail \in Nat /\ nextStartPos <= tail
<1>1. PacketTypes /\ PacketsAreGood /\ NalsAreSent /\ isH264 = TRUE
  BY DEF PacketInv, BytesAreSent, PacketTypes
<1>2. frame \in Seq(Nat) /\ align \in 0 .. 3
  BY <1>1, FrameTypes
<1>3. PICK b \in Begins : InFragments(b) /\ NalsUpTo(b)
  BY <1>1 DEF NalsAreSent
<1>4. b \in Nat /\ tail \in Nat
  BY <1>2, BeginsAre, TailType
<1>5. Ends(b) \in b .. tail
  BY <1>2, UnitFollows DEF Follows
<1>6. nextStartPos <= tail
  BY <1>3, <1>4, <1>5 DEF InFragments
<1> QED
  BY <1>1, <1>2, <1>3, <1>4, <1>6, HasIs

LEMMA SendFragmentStep ==
  ASSUME PacketInv, SendFragment PROVE PacketInv'
<1>1. at = "fragment" /\ nextStartPos - startPos + 2 > OZ_RTP_MAX_PACKET_SIZE
  BY DEF SendFragment
<1>2. PacketTypes /\ PacketsAreGood /\ isH264 = TRUE /\ frame \in Seq(Nat) /\ align \in 0 .. 3
  BY <1>1, InUnit
<1>3. PICK b \in Begins : InFragments(b) /\ Has(Received, b) /\ b \in Nat /\ tail \in Nat /\ nextStartPos <= tail
  BY <1>1, InUnit
<1> DEFINE to == startPos + OZ_RTP_MAX_PACKET_SIZE - 2
           data == Bytes(startPos, to)
<1>4. /\ buildPacket(Fu(nalHeader, first, FALSE), data, FALSE) /\ startPos' = to /\ first' = FALSE
      /\ UNCHANGED << frame, isH264, align, at, nextStartPos, nalHeader >>
  BY DEF SendFragment, Fu
<1>5. startPos \in Nat /\ nextStartPos \in Nat /\ nalHeader \in Nat /\ first \in BOOLEAN /\ b < startPos
  BY <1>2, <1>3 DEF PacketTypes, InFragments
<1>6. to \in Nat /\ startPos < to /\ to < nextStartPos /\ to - startPos = OZ_RTP_MAX_PACKET_SIZE - 2 /\ to <= tail
  BY <1>1, <1>3, <1>5
<1> HIDE DEF to
<1>7. data \in Seq(Nat) /\ Len(data) = to - startPos
  <2>1. startPos <= to
    BY <1>5, <1>6
  <2> QED
    BY <1>2, <1>5, <1>6, <2>1, BytesAre
<1> HIDE DEF data
<1>8. /\ Fu(nalHeader, first, FALSE) \in Fus /\ Fu(nalHeader, first, FALSE) # NoFu
      /\ at # "sent" /\ (FALSE <=> at' = "sent") /\ isH264' = isH264 /\ FALSE \in BOOLEAN
  BY <1>1, <1>4, <1>5, FusAre
<1>9. Len(data) + (IF Fu(nalHeader, first, FALSE) = NoFu THEN 0 ELSE 2) <= OZ_RTP_MAX_PACKET_SIZE
  BY <1>6, <1>7, <1>8
<1>10. /\ mSeq' \in Nat /\ mPacketQueue' \in Seq(Packets) /\ PacketsAreGood' /\ Received \in Things
       /\ \E x : x.fu = Fu(nalHeader, first, FALSE) /\ x.data = data /\ Received' = Receive(isH264, Received, x)
  BY <1>2, <1>4, <1>7, <1>8, <1>9, OnePacketMore
<1>11. Received' = [nals |-> Received.nals, open |-> Bytes(b, to)]
  <2>1. CASE first = TRUE
    <3>1. Received' = [nals |-> Received.nals, open |-> << nalHeader >> \o data]
      BY <1>2, <1>5, <1>10, <2>1, BothKinds, FirstFragment
    <3>2. startPos = b + 1 /\ nalHeader = Byte(b)
      BY <1>3, <2>1 DEF InFragments
    <3>3. b < to /\ b <= to
      BY <1>3, <1>5, <1>6
    <3>4. << Byte(b) >> \o Bytes(b + 1, to) = Bytes(b, to)
      BY <1>2, <1>3, <1>6, <3>3, BytesAre
    <3> QED
      BY <3>1, <3>2, <3>4 DEF data
  <2>2. CASE first = FALSE
    <3>1. Received' = [nals |-> Received.nals, open |-> Received.open \o data]
      BY <1>2, <1>5, <1>10, <2>2, BothKinds, LaterFragment
    <3>2. Received.open = Bytes(b, startPos)
      BY <1>3, <2>2 DEF InFragments
    <3>3. b <= to /\ startPos \in b .. to
      BY <1>3, <1>5, <1>6
    <3>4. Bytes(b, startPos) \o Bytes(startPos, to) = Bytes(b, to)
      BY <1>2, <1>3, <1>6, <3>3, BytesAre
    <3> QED
      BY <3>1, <3>2, <3>4 DEF data
  <2> QED
    BY <1>5, <2>1, <2>2
<1>12. /\ Begins' = Begins /\ Ends(b)' = Ends(b) /\ Byte(b)' = Byte(b) /\ (NalsUpTo(b)' <=> Has(Received', b))
       /\ Bytes(b, startPos)' = Bytes(b, to)
  BY <1>4, FrameStays
<1>13. InFragments(b)'
  <2>1. nextStartPos = Ends(b) /\ nalHeader = Byte(b)
    BY <1>3 DEF InFragments
  <2>2. b < to
    BY <1>3, <1>5, <1>6
  <2> QED
    BY <1>4, <1>6, <1>11, <1>12, <2>1, <2>2 DEF InFragments
<1>14. Has(Received', b)
  BY <1>3, <1>11 DEF Has
<1>15. NalsAreSent'
  BY <1>1, <1>4, <1>12, <1>13, <1>14 DEF NalsAreSent
<1>16. PacketTypes'
  BY <1>2, <1>4, <1>6, <1>10 DEF PacketTypes
<1> QED
  BY <1>2, <1>4, <1>10, <1>15, <1>16 DEF PacketInv

LEMMA SendLastFragmentStep ==
  ASSUME PacketInv, SendLastFragment PROVE PacketInv'
<1>1. at = "fragment" /\ nextStartPos - startPos + 2 <= OZ_RTP_MAX_PACKET_SIZE
  BY DEF SendLastFragment
<1>2. PacketTypes /\ PacketsAreGood /\ isH264 = TRUE /\ frame \in Seq(Nat) /\ align \in 0 .. 3
  BY <1>1, InUnit
<1>3. PICK b \in Begins : InFragments(b) /\ Has(Received, b) /\ b \in Nat /\ tail \in Nat /\ nextStartPos <= tail
  BY <1>1, InUnit
<1> DEFINE next == nextStartPos
           data == Bytes(startPos, next)
<1>4. /\ buildPacket(Fu(nalHeader, first, TRUE), data, next = tail) /\ GoOn(next)
      /\ UNCHANGED << frame, isH264, align, nextStartPos, nalHeader, first >>
  BY DEF SendLastFragment, Fu
<1>5. startPos \in Nat /\ next \in Nat /\ nalHeader \in Nat /\ first \in BOOLEAN /\ b < startPos /\ startPos < next /\ next = Ends(b)
  BY <1>2, <1>3 DEF PacketTypes, InFragments
<1>6. first = FALSE
  BY <1>1, <1>2, <1>3, <1>5 DEF InFragments
<1>7. data \in Seq(Nat) /\ Len(data) = next - startPos
  <2>1. startPos <= next /\ next <= tail
    BY <1>3, <1>5
  <2> QED
    BY <1>2, <1>5, <2>1, BytesAre
<1> HIDE DEF data
<1>8. /\ Fu(nalHeader, first, TRUE) \in Fus /\ Fu(nalHeader, first, TRUE) # NoFu
      /\ at # "sent" /\ (next = tail) \in BOOLEAN /\ isH264' = isH264
  BY <1>1, <1>4, <1>5, FusAre
<1>9. /\ (next = tail) <=> at' = "sent"
      /\ Len(data) + (IF Fu(nalHeader, first, TRUE) = NoFu THEN 0 ELSE 2) <= OZ_RTP_MAX_PACKET_SIZE
  BY <1>1, <1>3, <1>4, <1>5, <1>7, <1>8 DEF GoOn
<1>10. /\ mSeq' \in Nat /\ mPacketQueue' \in Seq(Packets) /\ PacketsAreGood' /\ Received \in Things
       /\ \E x : x.fu = Fu(nalHeader, first, TRUE) /\ x.data = data /\ Received' = Receive(isH264, Received, x)
  BY <1>2, <1>4, <1>7, <1>8, <1>9, OnePacketMore
<1>11. Received' = [nals |-> Append(Received.nals, Received.open \o data), open |-> << >>]
  BY <1>2, <1>5, <1>6, <1>10, BothKinds, LastFragment
<1>12. Received.open \o data = Bytes(b, Ends(b))
  <2>1. Received.open = Bytes(b, startPos)
    BY <1>3, <1>6 DEF InFragments
  <2>2. b <= next /\ startPos \in b .. next
    BY <1>3, <1>5
  <2>3. Bytes(b, startPos) \o Bytes(startPos, next) = Bytes(b, next)
    BY <1>2, <1>3, <1>5, <2>2, BytesAre
  <2> QED
    BY <1>5, <2>1, <2>3 DEF data
<1>13. Received'.nals = Append(Received.nals, Bytes(b, Ends(b))) /\ Received'.open = << >>
  BY <1>11, <1>12
<1>14. /\ next < tail => Skip(next) \in Begins /\ Has(Received', Skip(next))
       /\ ~(next < tail) => Has(Received', tail)
  BY <1>2, <1>3, <1>5, <1>10, <1>13, HasNext
<1> QED
  BY <1>2, <1>4, <1>5, <1>10, <1>13, <1>14, GoesOn

LEMMA PacketStutters ==
  ASSUME PacketInv, UNCHANGED packetVars PROVE PacketInv'
<1>1. /\ frame' = frame /\ isH264' = isH264 /\ align' = align /\ at' = at /\ startPos' = startPos /\ nextStartPos' = nextStartPos
      /\ nalHeader' = nalHeader /\ first' = first /\ mSeq' = mSeq /\ mPacketQueue' = mPacketQueue
  BY DEF packetVars
<1>2. PacketTypes' <=> PacketTypes
  BY <1>1 DEF PacketTypes
<1>3. PacketsAreGood' <=> PacketsAreGood
  BY <1>1 DEF PacketsAreGood
<1>4. Received' = Received
  BY <1>1 DEF Received
<1>5. /\ Begins' = Begins /\ tail' = tail /\ Skip(startPos)' = Skip(startPos)
      /\ \A n : NalsUpTo(n)' <=> NalsUpTo(n)
      /\ NalsUpTo(tail)' <=> NalsUpTo(tail)
      /\ \A n : Ends(n)' = Ends(n) /\ Byte(n)' = Byte(n) /\ Bytes(n, startPos)' = Bytes(n, startPos)
  BY <1>1, <1>4, FrameStays, HasIs
<1>6. \A n : InFragments(n)' <=> InFragments(n)
  BY <1>1, <1>4, <1>5 DEF InFragments
<1>7. NalsAreSent' <=> NalsAreSent
  BY <1>1, <1>4, <1>5, <1>6 DEF NalsAreSent
<1>8. BytesAreSent' <=> BytesAreSent
  BY <1>1, <1>4, <1>5 DEF BytesAreSent
<1> QED
  BY <1>1, <1>2, <1>3, <1>7, <1>8 DEF PacketInv

LEMMA PacketStep == PacketInv /\ [PacketNext]_packetVars => PacketInv'
  BY FindFirstStep, SendNalStep, SplitNalStep, SendFragmentStep, SendLastFragmentStep, SendPieceStep, PacketStutters DEF PacketNext

(* For any frame and any size of packets, the packets that have been built are good and *)
(* a receiver of them has the NAL units, or the bytes, up to where the code is.         *)
THEOREM PacketInvariant == PacketSpec => []PacketInv
<1>1. PacketInit => PacketInv
  BY PacketStart
<1>2. PacketInv /\ [PacketNext]_packetVars => PacketInv'
  BY PacketStep
<1> QED
  BY <1>1, <1>2, PTL DEF PacketSpec

LEMMA FrameFollows == PacketInv => FrameIsInPackets
<1> SUFFICES ASSUME PacketInv, at = "sent" PROVE FrameIsInPackets
  BY DEF FrameIsInPackets
<1>1. PacketTypes /\ PacketsAreGood
  BY DEF PacketInv
<1>2. IF isH264 THEN NalsUpTo(tail) /\ Received.open = << >> ELSE Received = [nals |-> << >>, open |-> frame]
  <2>1. CASE isH264
    BY <2>1 DEF PacketInv, NalsAreSent
  <2>2. CASE ~isH264
    <3>1. Received = [nals |-> << >>, open |-> Bytes(0, startPos)] /\ startPos = tail
      BY <2>2 DEF PacketInv, BytesAreSent
    <3>2. frame \in Seq(Nat) /\ tail \in Nat /\ 0 \in Nat /\ 0 <= tail /\ tail <= tail
      BY <1>1, FrameTypes, TailType
    <3>3. Bytes(0, tail) = frame
      BY <3>2, BytesAre
    <3> QED
      BY <2>2, <3>1, <3>3
  <2> QED
    BY <2>1, <2>2
<1>3. mPacketQueue \in Seq(Packets)
  BY <1>1 DEF PacketTypes
<1>4. DOMAIN mPacketQueue = 1 .. Len(mPacketQueue) /\ Len(mPacketQueue) \in Nat
  BY <1>3, LenProperties
<1>5. ASSUME NEW i \in DOMAIN mPacketQueue
      PROVE  LET packet == mPacketQueue[i] IN
             /\ packet.m <=> i = Len(mPacketQueue)
             /\ Len(packet.data) + (IF packet.fu = NoFu THEN 0 ELSE 2) <= OZ_RTP_MAX_PACKET_SIZE
             /\ packet.seq = (mPacketQueue[1].seq + i - 1) % NumberMod
  <2>1. i \in 1 .. Len(mPacketQueue) /\ 1 \in 1 .. Len(mPacketQueue) /\ i \in Nat
    BY <1>4
  <2> DEFINE packet == mPacketQueue[i]
  <2>2. /\ packet.m <=> at = "sent" /\ i = Len(mPacketQueue)
        /\ Len(packet.data) + (IF packet.fu = NoFu THEN 0 ELSE 2) <= OZ_RTP_MAX_PACKET_SIZE
        /\ packet.seq = (i - 1) % NumberMod
    BY <1>1, <2>1 DEF PacketsAreGood
  <2>3. mPacketQueue[1].seq = (1 - 1) % NumberMod
    BY <1>1, <2>1 DEF PacketsAreGood
  <2>4. mPacketQueue[1].seq = 0
    BY <2>3
  <2>5. mPacketQueue[1].seq + i - 1 = i - 1
    BY <2>1, <2>4
  <2> HIDE DEF packet
  <2>6. packet.m <=> i = Len(mPacketQueue)
    BY <2>2
  <2> QED
    BY <2>2, <2>5, <2>6 DEF packet
<1> QED
  BY <1>2, <1>5 DEF FrameIsInPackets

(* Whatever the frame, the alignment of its bytes and the size of the packets: once it has been *)
(* sent, a receiver puts its NAL units, or its bytes, together from the packets                 *)
(* (ozRtspStream.cpp:183-265, ozFfmpeg.cpp:102-153).                                            *)
THEOREM FrameAlwaysInPackets == PacketSpec => []FrameIsInPackets
<1>1. PacketInv => FrameIsInPackets
  BY FrameFollows
<1> QED
  BY <1>1, PacketInvariant, PTL

=============================================================================
