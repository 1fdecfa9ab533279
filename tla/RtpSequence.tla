----------------------------- MODULE RtpSequence -----------------------------
(***************************************************************************)
(* What an RtpSession knows of the packets of a source, and the reports    *)
(* RtpCtrlManager makes of it: updateSeq for every packet, recvPackets for *)
(* every compound RTCP packet, updateRtcpStats for every report.           *)
(*                                                                         *)
(* The two classes are modelled as they are offered to their callers: the  *)
(* server sends RTP and does not pass them what it receives yet.  Times,   *)
(* jitter and the sums over all reports are left out.                      *)
(*                                                                         *)
(* Packets have their place in the source's order, and its last bits as    *)
(* their sequence number.  The network loses, delays and repeats them; the *)
(* source may restart, which is a jump of its numbers.                     *)
(***************************************************************************)
EXTENDS Integers, Sequences, FiniteSets, SequencesExt

CONSTANTS
    OZ_RTP_SEQ_MOD,     \* 2^16 in the code
    MAX_DROPOUT,        \* 3000 in the code
    MAX_MISORDER,       \* 100 in the code
    Word,               \* 2^32 in the code
    Garbage,            \* what memory held before
    FirstNumbers,       \* bound: the places the source starts at
    Jumps,              \* bound: how far a restart takes the numbers
    MaxNumber,          \* bound: the last place
    MaxFlight,          \* bound: the packets under way
    Compounds           \* bound: compound RTCP packets

ASSUME SequenceAssumption ==
    /\ {OZ_RTP_SEQ_MOD, MAX_DROPOUT, MAX_MISORDER, Word, MaxNumber, MaxFlight} \subseteq Nat
    /\ 1 < MAX_DROPOUT /\ MAX_DROPOUT < OZ_RTP_SEQ_MOD - MAX_MISORDER
    /\ Garbage \in 0 .. Word - 1 /\ Word > 256 * MaxNumber /\ Word % OZ_RTP_SEQ_MOD = 0
    /\ FirstNumbers \subseteq 1 .. MaxNumber /\ Jumps \subseteq Nat

VARIABLES
    number,     \* the place of the source's next packet
    flight,     \* the packets under way, and how often they will arrive
    rtp,        \* the RtpSession
    compound,   \* what is left of a compound packet, in the hands of recvPackets
    control,    \* the control channel: "open", "stopped" by a BYE, or "spins"
    base,       \* for the properties: the packet counting began with, 0 if it has not
    newest,     \* for the properties: the newest packet since
    last,       \* for the properties: the last packet that arrived
    interval    \* for the properties: what arrived since the last report

sequenceVars == << number, flight, rtp, compound, control, base, newest, last, interval >>

MIN_SEQUENTIAL == 2

seqN(n) == n % OZ_RTP_SEQ_MOD

-----------------------------------------------------------------------------
(* RtpSession *)

\* RtpSession::init: it leaves the received packets and those of the last report alone.
InitSeq(r, seq) ==
    [r EXCEPT !.mBaseSeq = seq, !.mMaxSeq = seq, !.mBadSeq = OZ_RTP_SEQ_MOD + 1, !.mCycles = 0, !.mExpectedPrior = 0]

\* mReceivedPackets and mReceivedPrior are whatever the memory held.
NewSession(received, prior) ==
    [mBaseSeq |-> 0, mMaxSeq |-> OZ_RTP_SEQ_MOD - 1, mBadSeq |-> OZ_RTP_SEQ_MOD + 1, mCycles |-> 0,
     mProbation |-> MIN_SEQUENTIAL, mExpectedPrior |-> 0, mReceivedPackets |-> received, mReceivedPrior |-> prior,
     mLostFraction |-> 0]

Counted(r) == [r EXCEPT !.mReceivedPackets = (@ + 1) % Word]

\* mMaxSeq + 1 is an int: in probation nothing follows the last number.
InProbation(r, seq) ==
    IF seq # r.mMaxSeq + 1 THEN [r EXCEPT !.mProbation = MIN_SEQUENTIAL - 1, !.mMaxSeq = seq]
    ELSE IF r.mProbation > 1 THEN [r EXCEPT !.mProbation = @ - 1, !.mMaxSeq = seq]
    ELSE Counted(InitSeq([r EXCEPT !.mProbation = 0], seq))

\* Mutant: wrapping is not noticed.
AheadInCycle(r, seq) == Counted([r EXCEPT !.mMaxSeq = seq])

\* A number that is smaller than the last one has wrapped.
Ahead(r, seq) ==
    Counted([r EXCEPT !.mMaxSeq = seq, !.mCycles = IF seq < r.mMaxSeq THEN (@ + OZ_RTP_SEQ_MOD) % Word ELSE @])

\* Two in a row are a restart.
FarAway(r, seq) ==
    IF seq = r.mBadSeq THEN Counted(InitSeq(r, seq)) ELSE [r EXCEPT !.mBadSeq = (seq + 1) % OZ_RTP_SEQ_MOD]

updateSeq(r, seq) ==
    LET uDelta == (seq - r.mMaxSeq) % OZ_RTP_SEQ_MOD
    IN  IF r.mProbation > 0 THEN InProbation(r, seq)
        ELSE IF uDelta < MAX_DROPOUT THEN Ahead(r, seq)
        ELSE IF uDelta <= OZ_RTP_SEQ_MOD - MAX_MISORDER THEN FarAway(r, seq)
        ELSE r

\* Unsigned: lostInterval <= 0 is lostInterval = 0.
updateRtcpStats(r) ==
    LET expected == (r.mCycles + r.mMaxSeq - r.mBaseSeq + 1) % Word
        expectedInterval == (expected - r.mExpectedPrior) % Word
        lostInterval == (expectedInterval - (r.mReceivedPackets - r.mReceivedPrior)) % Word
    IN  [r EXCEPT
            !.mExpectedPrior = expected, !.mReceivedPrior = r.mReceivedPackets,
            !.mLostFraction = IF expectedInterval = 0 \/ lostInterval = 0 THEN 0
                              ELSE (((lostInterval * 256) % Word) \div expectedInterval) % 256]

\* What a report says (RtpCtrlManager::generateRr).
generateRr(r) == [fraction |-> r.mLostFraction, lastSeq |-> r.mCycles + r.mMaxSeq]

-----------------------------------------------------------------------------
(* The source and the network *)

\* What a report has to tell of the time since the one before: known is FALSE when packets
\* came twice, late, far ahead or after a restart, and before the first report.
NewInterval(known, from) == [known |-> known, from |-> from, got |-> {}]

SequenceInit ==
    /\ number \in FirstNumbers
    /\ flight = {}
    /\ rtp = NewSession(Garbage, 0)
    /\ compound = << >> /\ control = "open"
    /\ base = 0 /\ newest = 0 /\ last = number /\ interval = NewInterval(FALSE, 0)

Receives == compound = << >> /\ control = "open"

Send ==
    /\ Receives
    /\ number < MaxNumber /\ Cardinality(flight) < MaxFlight
    /\ \E copies \in 1 .. 2 : flight' = flight \cup {<< number, copies >>}
    /\ number' = number + 1
    /\ UNCHANGED << rtp, compound, control, base, newest, last, interval >>

Restart ==
    /\ Receives
    /\ \E j \in Jumps :
           /\ number + j < MaxNumber
           /\ number' = number + j
    /\ UNCHANGED << flight, rtp, compound, control, base, newest, last, interval >>

Lose ==
    /\ Receives
    /\ number < MaxNumber
    /\ number' = number + 1
    /\ UNCHANGED << flight, rtp, compound, control, base, newest, last, interval >>

\* Less than a cycle is lost at a time, and no packet is a cycle late.
InReach(n) ==
    LET known == IF base > 0 THEN newest ELSE last
    IN  known - n <= OZ_RTP_SEQ_MOD - MAX_DROPOUT /\ n - known <= OZ_RTP_SEQ_MOD - MAX_MISORDER

Arrive ==
    /\ Receives
    /\ \E f \in flight :
           LET n == f[1]
               r == updateSeq(rtp, seqN(n))
               counting == rtp.mProbation = 1 /\ r.mProbation = 0
               restarted == rtp.mProbation = 0 /\ seqN(n) = rtp.mBadSeq /\ r.mBadSeq > OZ_RTP_SEQ_MOD
           IN  /\ InReach(n)
               /\ rtp' = r
               /\ flight' = (flight \ {f}) \cup (IF f[2] > 1 THEN {<< n, 1 >>} ELSE {})
               /\ base' = IF counting \/ restarted THEN n ELSE base
               /\ newest' = IF counting \/ restarted THEN n ELSE IF n - newest \in 1 .. MAX_DROPOUT - 1 THEN n ELSE newest
               /\ last' = IF base' > 0 THEN 0 ELSE n
               /\ interval' =
                    IF counting THEN [interval EXCEPT !.from = n - 1, !.got = IF interval.known THEN {n} ELSE {}]
                    ELSE IF base > 0 /\ interval.known /\ ~restarted /\ n - newest \in 1 .. MAX_DROPOUT - 1
                    THEN [interval EXCEPT !.got = @ \cup {n}]
                    ELSE NewInterval(base = 0 /\ interval.known, newest)
    /\ UNCHANGED << number, compound, control >>

-----------------------------------------------------------------------------
(* RtpCtrlManager::recvPackets, a packet of the compound at a time *)

CompoundArrives ==
    /\ Receives
    /\ compound' \in Compounds
    /\ UNCHANGED << number, flight, rtp, control, base, newest, last, interval >>

HandlePacket(pt) == compound # << >> /\ control = "open" /\ Head(compound).pt = pt

Words(packets) == FoldSeq(LAMBDA p, n : p.words + n, 0, packets)

\* generateRr and generateSdes, queued as one packet.
SenderReport ==
    /\ HandlePacket("SR")
    /\ Head(compound).known
    /\ rtp' = updateRtcpStats(rtp)
    /\ compound' = Tail(compound)
    /\ interval' = NewInterval(TRUE, newest)
    /\ UNCHANGED << number, flight, control, base, newest, last >>

\* It returns -1, and the rest of the compound is not looked at: another source's report or
\* description, an item that is not a name, a receiver report or an application's packet.
Refuse ==
    /\ compound # << >> /\ control = "open"
    /\ Head(compound).pt \in {"RR", "APP"} \/ (Head(compound).pt \in {"SR", "SDES"} /\ ~Head(compound).known)
    /\ compound' = << >>
    /\ UNCHANGED << number, flight, rtp, control, base, newest, last, interval >>

\* The names are read again until they account for all that is left of the compound.
Description ==
    /\ HandlePacket("SDES")
    /\ Head(compound).known
    /\ LET contentLen == Words(compound) - 1
           read == Head(compound).count * (Head(compound).words - 1)
       IN  IF contentLen = 0 \/ (read > 0 /\ contentLen % read = 0)
           THEN compound' = Tail(compound) /\ control' = control
           ELSE compound' = compound /\ control' = "spins"
    /\ UNCHANGED << number, flight, rtp, base, newest, last, interval >>

Bye ==
    /\ HandlePacket("BYE")
    /\ control' = "stopped"
    /\ compound' = << >>
    /\ UNCHANGED << number, flight, rtp, base, newest, last, interval >>

SequenceNext ==
    \/ Send \/ Restart \/ Lose \/ Arrive
    \/ CompoundArrives \/ SenderReport \/ Refuse \/ Description \/ Bye

SequenceSpec == SequenceInit /\ [][SequenceNext]_sequenceVars

-----------------------------------------------------------------------------
(* Properties *)

\* RtpSession::maxSeq and mBaseSeq give the newest packet's distance from the first one that
\* counts, over wraps, losses, late and repeated packets, and again after a restart
\* (RtpSession::updateSeq).
NumbersTracked == base > 0 => generateRr(rtp).lastSeq - rtp.mBaseSeq = newest - base

\* When no packet came twice, late, far ahead or after a restart since the last report, a report tells
\* what share of the packets since then is missing (RtpSession::updateRtcpStats).
LossReported ==
    LET expected == newest - interval.from
        missing  == expected - Cardinality(interval.got)
    IN  (SenderReport /\ base > 0 /\ interval.known /\ expected > 0)
            => generateRr(rtp').fraction = (256 * missing) \div expected

\* What RtpSession keeps and reports of the packets' numbers is right, over wraps and restarts
\* (RtpSession::updateSeq, RtpSession::updateRtcpStats).
SequenceHolds == [][NumbersTracked' /\ LossReported]_sequenceVars

-----------------------------------------------------------------------------
(* The inductive invariant behind SequenceHolds *)

SessionType ==
    [mBaseSeq : 0 .. OZ_RTP_SEQ_MOD - 1, mMaxSeq : 0 .. OZ_RTP_SEQ_MOD - 1, mBadSeq : 0 .. OZ_RTP_SEQ_MOD + 1,
     mCycles : 0 .. Word - 1, mProbation : 0 .. MIN_SEQUENTIAL, mExpectedPrior : 0 .. Word - 1,
     mReceivedPackets : 0 .. Word - 1, mReceivedPrior : 0 .. Word - 1, mLostFraction : Int]

SequenceTyped ==
    /\ number \in 1 .. MaxNumber /\ flight \subseteq (1 .. MaxNumber) \X (1 .. 2)
    /\ rtp \in SessionType
    /\ base \in 0 .. MaxNumber /\ newest \in 0 .. MaxNumber
    /\ interval \in [known : BOOLEAN, from : Int, got : SUBSET Nat]

\* Since it counts, the session knows the newest packet's place from the first one's.
Tracked ==
    /\ rtp.mProbation = 0 <=> base > 0
    /\ base > 0 =>
           /\ base <= newest /\ rtp.mMaxSeq = seqN(newest) /\ rtp.mBaseSeq = seqN(base)
           /\ rtp.mCycles + rtp.mMaxSeq - rtp.mBaseSeq = newest - base

\* It has counted the packets of an interval that nothing disturbed, the newest among them.
IntervalCounted ==
    /\ IsFiniteSet(interval.got)
    /\ interval.known =>
           /\ rtp.mReceivedPackets - rtp.mReceivedPrior \in {Cardinality(interval.got), Cardinality(interval.got) - Word}
           /\ base = 0 => interval.got = {}
           /\ base > 0 =>
                  /\ interval.from \in base - 1 .. newest /\ interval.got \subseteq interval.from + 1 .. newest
                  /\ newest > interval.from => newest \in interval.got
                  /\ rtp.mExpectedPrior = interval.from - base + 1

\* The inductive invariant (ozRtpSession.cpp:58-160, 240-270).
SequenceInv == SequenceTyped /\ Tracked /\ IntervalCounted
=============================================================================
