------------------------------ MODULE RtspPackets ------------------------------
(***************************************************************************)
(* How an encoded frame becomes RTP packets: h264StartCode finds the NAL   *)
(* units of an H.264 frame, RtspStream::packetiseFrame sends one in one    *)
(* packet or in FU-A fragments, RtpDataManager::buildPacket numbers and    *)
(* queues the packets.  Other encodings are cut into pieces.               *)
(*                                                                         *)
(* Positions count from 0 as in the code; a position is a pointer.         *)
(***************************************************************************)
EXTENDS Integers, Sequences, FiniteSets, FiniteSetsExt

CONSTANTS
    Frames,                 \* the frames: sequences of bytes
    OZ_RTP_MAX_PACKET_SIZE, \* bound: a packet's data, larger than 2
    Alignments,             \* bound: what the address of the frame may be mod 4
    NumberMod                  \* mSeq is counted modulo this: 2^16 in the code

ASSUME PacketAssumption ==
    /\ Frames \subseteq Seq(Nat) /\ OZ_RTP_MAX_PACKET_SIZE \in Nat /\ OZ_RTP_MAX_PACKET_SIZE > 2
    /\ Alignments \subseteq 0 .. 3 /\ NumberMod \in Nat \ {0}

VARIABLES
    frame,          \* the frame's bytes
    isH264,         \* the encoder is an H264Encoder or an H264Relay
    align,          \* the address of its first byte, mod 4
    at,             \* "start", "nal", "fragment" or "sent"
    startPos,       \* where the code is in the frame
    nextStartPos,   \* where the next start code is
    nalHeader,      \* the first byte of the NAL unit that is sent in fragments
    first,          \* the next fragment is its first one
    mSeq,
    mPacketQueue    \* the packets: numbers, markers, FU headers, data

packetVars == << frame, isH264, align, at, startPos, nextStartPos, nalHeader, first, mSeq, mPacketQueue >>

tail == Len(frame)
Byte(p) == frame[p + 1]
Bytes(from, to) == SubSeq(frame, from + 1, to)

-----------------------------------------------------------------------------
(* h264StartCode *)

IsCode(p) == Byte(p) = 0 /\ Byte(p + 1) = 0 /\ Byte(p + 2) = 1

First(P, none) == IF P = {} THEN none ELSE Min(P)

\* The first multiple of four behind p.
Aligned(p) == p + 4 - ((align + p) % 4)

\* Mutant: the words are searched only if their first byte is zero.
InWordOfFirst(w, p) == Byte(w) = 0 /\ p \in w .. w + 3 /\ IsCode(p)

\* A word with a zero byte is looked at: a start code may be at any of its bytes.
InWord(w, p) ==
    /\ \E i \in 0 .. 3 : Byte(w + i) = 0
    /\ \/ Byte(w + 1) = 0 /\ p \in {w, w + 1} /\ IsCode(p)
       \/ Byte(w + 3) = 0 /\ p \in {w + 2, w + 3} /\ IsCode(p)

\* _h264StartCode: byte by byte up to a multiple of four, then in words, then byte by byte.
FindCode(p) ==
    LET a       == Aligned(p)
        words   == { w \in a .. tail - 7 : (w - a) % 4 = 0 }
        rest    == IF a >= tail - 3 THEN tail ELSE First({ w \in a .. tail : (w - a) % 4 = 0 /\ w >= tail - 6 }, tail)
        byBytes == { q \in p .. tail - 4 : q < a /\ IsCode(q) }
        byWords == { q \in a .. tail - 4 : \E w \in words : InWord(w, q) }
        atEnd   == { q \in rest .. tail - 4 : IsCode(q) }
    IN  First(byBytes, First(byWords, First(atEnd, tail)))

\* A zero before the code belongs to it.
h264StartCode(p) ==
    LET out == FindCode(p) IN
    IF p < out /\ out < tail /\ Byte(out - 1) = 0 THEN out - 1 ELSE out

\* Behind the zeros and the one of a start code.
Skip(p) == First({ q \in p .. tail - 1 : Byte(q) # 0 }, tail) + 1

-----------------------------------------------------------------------------

PacketInit ==
    /\ frame \in Frames
    /\ isH264 \in BOOLEAN
    /\ align \in Alignments
    /\ at = "start"
    /\ startPos = 0 /\ nextStartPos = 0
    /\ nalHeader = 0 /\ first = FALSE
    /\ mSeq = 0
    /\ mPacketQueue = << >>

\* RtpDataManager::buildPacket.  fu says what the first two bytes are.
buildPacket(fu, data, last) ==
    /\ mPacketQueue' = Append(mPacketQueue, [seq |-> mSeq, m |-> last, fu |-> fu, data |-> data])
    /\ mSeq' = (mSeq + 1) % NumberMod

NoFu == [header |-> -1, start |-> FALSE, end |-> FALSE]

GoOn(p) ==
    /\ startPos' = p
    /\ at' = IF p < tail THEN "nal" ELSE "sent"

FindFirst ==
    /\ at = "start" /\ isH264
    /\ GoOn(h264StartCode(0))
    /\ UNCHANGED << frame, isH264, align, nextStartPos, nalHeader, first, mSeq, mPacketQueue >>

\* A NAL unit in one packet.
SendNal ==
    /\ at = "nal"
    /\ LET p    == Skip(startPos)
           next == h264StartCode(p)
       IN  /\ next - p <= OZ_RTP_MAX_PACKET_SIZE
           /\ buildPacket(NoFu, Bytes(p, next), next = tail)
           /\ GoOn(next)
    /\ UNCHANGED << frame, isH264, align, nextStartPos, nalHeader, first >>

SplitNal ==
    /\ at = "nal"
    /\ LET p    == Skip(startPos)
           next == h264StartCode(p)
       IN  /\ next - p > OZ_RTP_MAX_PACKET_SIZE
           /\ nalHeader' = Byte(p)
           /\ startPos' = p + 1
           /\ nextStartPos' = next
    /\ first' = TRUE
    /\ at' = "fragment"
    /\ UNCHANGED << frame, isH264, align, mSeq, mPacketQueue >>

\* OZ_RTP_MAX_PACKET_SIZE - 2 bytes behind the FU indicator and the FU header.
SendFragment ==
    /\ at = "fragment" /\ nextStartPos - startPos + 2 > OZ_RTP_MAX_PACKET_SIZE
    /\ LET to == startPos + OZ_RTP_MAX_PACKET_SIZE - 2 IN
       /\ buildPacket([header |-> nalHeader, start |-> first, end |-> FALSE], Bytes(startPos, to), FALSE)
       /\ startPos' = to
    /\ first' = FALSE
    /\ UNCHANGED << frame, isH264, align, at, nextStartPos, nalHeader >>

SendLastFragment ==
    /\ at = "fragment" /\ nextStartPos - startPos + 2 <= OZ_RTP_MAX_PACKET_SIZE
    /\ buildPacket([header |-> nalHeader, start |-> first, end |-> TRUE], Bytes(startPos, nextStartPos), nextStartPos = tail)
    /\ GoOn(nextStartPos)
    /\ UNCHANGED << frame, isH264, align, nextStartPos, nalHeader, first >>

\* Another encoding.
SendPiece ==
    /\ at = "start" /\ ~isH264
    /\ LET to == Min({tail, startPos + OZ_RTP_MAX_PACKET_SIZE}) IN
       /\ buildPacket(NoFu, Bytes(startPos, to), to = tail)
       /\ startPos' = to
       /\ at' = IF to = tail THEN "sent" ELSE "start"
    /\ UNCHANGED << frame, isH264, align, nextStartPos, nalHeader, first >>

PacketNext == FindFirst \/ SendNal \/ SplitNal \/ SendFragment \/ SendLastFragment \/ SendPiece

PacketSpec == PacketInit /\ [][PacketNext]_packetVars

-----------------------------------------------------------------------------
(* Properties *)

\* Where a NAL unit begins: behind each 0 0 1 that something follows.
Begins == { p \in 3 .. tail - 1 : IsCode(p - 3) }

\* And where it ends: at the next start code of three or four bytes, or at the end.
Ends(p) ==
    LET next == First({ q \in p + 3 .. tail - 1 : q \in Begins }, tail + 3) - 3
    IN  IF next < tail /\ next > p /\ Byte(next - 1) = 0 THEN next - 1 ELSE next

\* How many NAL units begin up to a place.
Number(p) == Cardinality({ q \in Begins : q <= p })

NothingGot == [nals |-> << >>, open |-> << >>]

\* What a receiver of H.264 has after a packet: whole NAL units and the one it is in.
ReceiveNal(got, packet) ==
    CASE packet.fu = NoFu -> [got EXCEPT !.nals = Append(@, packet.data)]
      [] packet.fu # NoFu /\ packet.fu.start -> [got EXCEPT !.open = << packet.fu.header >> \o packet.data]
      [] packet.fu # NoFu /\ ~packet.fu.start /\ packet.fu.end ->
            [nals |-> Append(got.nals, got.open \o packet.data), open |-> << >>]
      [] OTHER -> [got EXCEPT !.open = @ \o packet.data]

\* A receiver of another encoding puts the bytes together.
Receive(h264, got, packet) == IF h264 THEN ReceiveNal(got, packet) ELSE [got EXCEPT !.open = @ \o packet.data]

ReceivedFrom(h264, packets) ==
    LET got[i \in 0 .. Len(packets)] == IF i = 0 THEN NothingGot ELSE Receive(h264, got[i - 1], packets[i])
    IN  got[Len(packets)]

Received == ReceivedFrom(isH264, mPacketQueue)

\* The NAL units that begin before a place have been received.
NalsUpTo(p) ==
    /\ Len(Received.nals) = Cardinality({ q \in Begins : q < p })
    /\ \A q \in Begins : q < p => Received.nals[Number(q)] = Bytes(q, Ends(q))

\* From the packets of a frame a receiver puts together its NAL units, or for another
\* encoding its bytes; only the last packet has the marker, no packet is too large, and
\* they are numbered in order (ozRtspStream.cpp:183-265, ozFfmpeg.cpp:102-153, ozRtpData.cpp:48-84).
FrameIsInPackets ==
    at = "sent" =>
        /\ IF isH264 THEN NalsUpTo(tail) /\ Received.open = << >>
                     ELSE Received = [nals |-> << >>, open |-> frame]
        /\ \A i \in DOMAIN mPacketQueue :
               LET packet == mPacketQueue[i] IN
               /\ packet.m <=> i = Len(mPacketQueue)
               /\ Len(packet.data) + (IF packet.fu = NoFu THEN 0 ELSE 2) <= OZ_RTP_MAX_PACKET_SIZE
               /\ packet.seq = (mPacketQueue[1].seq + i - 1) % NumberMod

-----------------------------------------------------------------------------
(***************************************************************************)
(* Why FrameIsInPackets holds: an inductive invariant.                     *)
(***************************************************************************)

Fus == {NoFu} \cup [header : Nat, start : BOOLEAN, end : BOOLEAN]
Packets == [seq : Nat, m : BOOLEAN, fu : Fus, data : Seq(Nat)]

PacketTypes ==
    /\ frame \in Frames /\ isH264 \in BOOLEAN /\ align \in Alignments
    /\ at \in {"start", "nal", "fragment", "sent"} /\ startPos \in Nat /\ nextStartPos \in Nat /\ nalHeader \in Nat
    /\ first \in BOOLEAN /\ mSeq \in Nat /\ mPacketQueue \in Seq(Packets)

\* Each packet fits and has the next number, and the last of the frame has the marker.
PacketsAreGood ==
    /\ mSeq = Len(mPacketQueue) % NumberMod
    /\ \A i \in 1 .. Len(mPacketQueue) :
           LET packet == mPacketQueue[i] IN
           /\ packet.m <=> at = "sent" /\ i = Len(mPacketQueue)
           /\ Len(packet.data) + (IF packet.fu = NoFu THEN 0 ELSE 2) <= OZ_RTP_MAX_PACKET_SIZE
           /\ packet.seq = (i - 1) % NumberMod

\* Nothing is sent, a NAL unit is about to be, or some of its fragments are.
InFragments(b) ==
    /\ nextStartPos = Ends(b) /\ nalHeader = Byte(b) /\ b < startPos /\ startPos < nextStartPos
    /\ first => startPos = b + 1 /\ nextStartPos - startPos + 2 > OZ_RTP_MAX_PACKET_SIZE
    /\ ~first => Received.open = Bytes(b, startPos)

NalsAreSent ==
    /\ at # "fragment" => Received.open = << >>
    /\ at = "start" => startPos = 0 /\ mPacketQueue = << >>
    /\ at = "nal" => \E b \in Begins : Skip(startPos) = b /\ NalsUpTo(b)
    /\ at = "fragment" => \E b \in Begins : InFragments(b) /\ NalsUpTo(b)
    /\ at = "sent" => NalsUpTo(tail)

BytesAreSent ==
    /\ at \in {"start", "sent"} /\ startPos <= tail
    /\ at = "sent" => startPos = tail
    /\ Received = [nals |-> << >>, open |-> Bytes(0, startPos)]

PacketInv ==
    /\ PacketTypes /\ PacketsAreGood
    /\ IF isH264 THEN NalsAreSent ELSE BytesAreSent
=============================================================================
