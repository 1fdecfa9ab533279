------------------------------- MODULE Reception -------------------------------
(***************************************************************************)
(* How the requests of a client are put together again.  The Listener reads *)
(* what has arrived, which may be any number of bytes, and passes it to     *)
(* recvRequest of the connection, which keeps what is incomplete in         *)
(* mRequest (HTTP, RTSP, the handshake of RTMP) or in the payload of the    *)
(* chunk stream (RTMP).                                                     *)
(*                                                                         *)
(* A byte is known by what it is and by the message it is of.  "text" and   *)
(* "end" (\r\n\r\n) make up requests, '$', channel, two bytes of length and *)
(* data an interleaved packet.  RTMP: "C0", "C1", "C2", then chunks of      *)
(* "basic" (format and chunk stream id), for formats 0 to 2 "header", and   *)
(* data.  What recvRequest makes of a request is left to ClientServing.     *)
(***************************************************************************)
EXTENDS Integers, Sequences, FiniteSets, SequencesExt

CONSTANTS
    Dialogues,      \* [Protocol -> a set of what a client may send: sequences of sequences of bytes]
    mRxChunkSize,   \* bound: data bytes in a full chunk
    HandshakeSize   \* bound: bytes of C1, and of C2

Protocol == {"HTTP", "RTSP", "RTMP"}

ASSUME ReceptionAssumption ==
    /\ DOMAIN Dialogues = Protocol
    /\ mRxChunkSize \in Nat \ {0} /\ HandshakeSize \in Nat \ {0}

VARIABLES
    protocol,       \* the connection's kind
    sent,           \* all that the client sends
    wire,           \* what of it has not been read
    request,        \* recvRequest's argument, as far as it is not consumed
    receiving,      \* in recvRequest
    mRequest,       \* the incomplete request
    shake,          \* RtmpConnection::mState
    mMessageLength, \* [chunk stream -> length of the message it is in]
    mPayload,       \* [chunk stream -> what has come of it]
    handled,        \* what handleRequest has been called with
    link,           \* "open", "closed" by the server, or "lost": Panic, or data read as headers
    odd             \* history: a read fell in one of the ways recvRequest is not made for

receptionVars == << protocol, sent, wire, request, receiving, mRequest, shake,
                    mMessageLength, mPayload, handled, link, odd >>

ChunkStream == {2, 3}

ReceptionInit ==
    /\ protocol \in Protocol
    /\ sent \in { FlattenSeq(d) : d \in Dialogues[protocol] }
    /\ wire = sent
    /\ request = << >> /\ mRequest = << >>
    /\ receiving = FALSE
    /\ shake = "UNITIALIZED"
    /\ mMessageLength = [c \in ChunkStream |-> 0]
    /\ mPayload = [c \in ChunkStream |-> << >>]
    /\ handled = << >>
    /\ link = "open"
    /\ odd = FALSE

rtmp == << shake, mMessageLength, mPayload >>

\* Listener::run
Read(n) ==
    /\ link = "open" /\ ~receiving
    /\ request' = SubSeq(wire, 1, n)
    /\ wire' = SubSeq(wire, n + 1, Len(wire))
    /\ receiving' = TRUE
    /\ UNCHANGED << protocol, sent, mRequest, rtmp, handled, link, odd >>

Receiving(p) == receiving /\ protocol = p /\ UNCHANGED << protocol, sent, wire >>

Merged == mRequest \o request

Store(bytes) ==
    /\ mRequest' = bytes
    /\ request' = << >> /\ receiving' = FALSE
    /\ UNCHANGED << handled, link >>

\* Where the first request ends, or 0.
EndOf(bytes) == SelectInSeq(bytes, LAMBDA b : b.is = "end")

-----------------------------------------------------------------------------
(* HttpConnection::recvRequest *)

HttpIncomplete ==
    /\ Receiving("HTTP")
    /\ Last(Merged).is # "end"
    /\ Store(Merged)
    /\ UNCHANGED << rtmp, odd >>

\* What is behind the end of a request counts as one of its headers, and is none.
HttpRequest ==
    /\ Receiving("HTTP")
    /\ Last(Merged).is = "end"
    /\ IF EndOf(Merged) = Len(Merged)
       THEN handled' = Append(handled, Merged) /\ UNCHANGED << link, odd >>
       ELSE link' = "closed" /\ odd' = TRUE /\ UNCHANGED handled
    /\ mRequest' = << >> /\ request' = << >> /\ receiving' = FALSE
    /\ UNCHANGED rtmp

-----------------------------------------------------------------------------
(* RtspConnection::recvRequest *)

IsInterleaved == request[1].is = "$" \/ (mRequest # << >> /\ mRequest[1].is = "$")

Huge == 1000

\* The length field; text taken for it is a large number.
length == IF Len(Merged) >= 4 /\ Merged[3].is = "length" /\ Merged[4].is = "length"
          THEN Merged[3].len ELSE Huge

\* A request that is split before a '$' is taken for a packet.
Misread == Merged[1].is = "text"

RtspDone ==
    /\ Receiving("RTSP") /\ request = << >>
    /\ receiving' = FALSE
    /\ UNCHANGED << request, mRequest, rtmp, handled, link, odd >>

RtspPacketIncomplete ==
    /\ Receiving("RTSP") /\ request # << >> /\ IsInterleaved
    /\ Len(Merged) <= 4 \/ length + 2 > Len(Merged)
    /\ Store(Merged)
    /\ odd' = (odd \/ Misread)
    /\ UNCHANGED rtmp

\* Up to two bytes are missing: ByteBuffer::range panics.
RtspPacketShort ==
    /\ Receiving("RTSP") /\ request # << >> /\ IsInterleaved
    /\ Len(Merged) > 4 /\ length + 2 <= Len(Merged) /\ Len(Merged) < 4 + length
    /\ link' = "lost" /\ odd' = TRUE
    /\ receiving' = FALSE
    /\ UNCHANGED << request, mRequest, rtmp, handled >>

RtspPacket ==
    /\ Receiving("RTSP") /\ request # << >> /\ IsInterleaved
    /\ Len(Merged) > 4 /\ 4 + length <= Len(Merged)
    /\ handled' = Append(handled, SubSeq(Merged, 1, 4 + length))
    /\ request' = SubSeq(Merged, 5 + length, Len(Merged))
    /\ mRequest' = << >>
    /\ odd' = (odd \/ Misread)
    /\ UNCHANGED << receiving, rtmp, link >>

RtspTextIncomplete ==
    /\ Receiving("RTSP") /\ request # << >> /\ ~IsInterleaved
    /\ EndOf(Merged) = 0
    /\ Store(Merged)
    /\ UNCHANGED << rtmp, odd >>

\* The whole request is consumed from the new bytes, though some of it was stored.
RtspText ==
    /\ Receiving("RTSP") /\ request # << >> /\ ~IsInterleaved
    /\ EndOf(Merged) # 0
    /\ handled' = Append(handled, SubSeq(Merged, 1, EndOf(Merged)))
    /\ request' = SubSeq(request, EndOf(Merged) + 1, Len(request))
    /\ mRequest' = << >>
    /\ odd' = (odd \/ (mRequest # << >> /\ EndOf(Merged) < Len(Merged)))
    /\ UNCHANGED << receiving, rtmp, link >>

-----------------------------------------------------------------------------
(* RtmpConnection::recvRequest and RtmpSession::recvRequest *)

Shaking == shake # "HANDSHAKE_DONE"

TakeC0 ==
    /\ Receiving("RTMP") /\ shake = "UNITIALIZED"
    /\ request' = Tail(request)
    /\ shake' = "GOT_C0"
    /\ UNCHANGED << receiving, mRequest, mMessageLength, mPayload, handled, link, odd >>

\* C1 or C2 is not complete.
ShakeIncomplete ==
    /\ Receiving("RTMP") /\ shake \in {"GOT_C0", "SENT_S2"}
    /\ Len(Merged) < HandshakeSize
    /\ Store(Merged)
    /\ UNCHANGED << rtmp, odd >>

\* The digests agree, or the client does not use them.  What came behind C1 is dropped;
\* a client waits for S1 before it sends C2.
TakeC1 ==
    /\ Receiving("RTMP") /\ shake = "GOT_C0"
    /\ Len(Merged) >= HandshakeSize
    /\ shake' = "SENT_S2"
    /\ odd' = (odd \/ Len(Merged) > HandshakeSize)
    /\ mRequest' = << >> /\ request' = << >> /\ receiving' = FALSE
    /\ UNCHANGED << mMessageLength, mPayload, handled, link >>

TakeC2 ==
    /\ Receiving("RTMP") /\ shake = "SENT_S2"
    /\ Len(Merged) >= HandshakeSize
    /\ shake' = "HANDSHAKE_DONE"
    /\ request' = SubSeq(Merged, HandshakeSize + 1, Len(Merged))
    /\ mRequest' = << >>
    /\ UNCHANGED << receiving, mMessageLength, mPayload, handled, link, odd >>

HasHeader == request[1].is = "basic" /\ (request[1].format # 3 => Len(request) > 1 /\ request[2].is = "header")

\* RtmpRequest::build
messageLength == IF request[1].format \in {0, 1} THEN request[2].len ELSE mMessageLength[request[1].chunk]
bytesToLoad == messageLength - Len(mPayload[request[1].chunk])

\* A chunk as far as it is in this read.  A second message of its chunk stream is added
\* to the first, which waits for the end of the read.
TakeChunk ==
    /\ Receiving("RTMP") /\ ~Shaking /\ request # << >>
    /\ HasHeader /\ bytesToLoad >= 0
    /\ LET c     == request[1].chunk
           start == IF request[1].format = 3 THEN 2 ELSE 3
           whole == Min({bytesToLoad, mRxChunkSize})
           size  == Min({whole, Len(request) + 1 - start})
       IN  /\ mMessageLength' = [mMessageLength EXCEPT ![c] = messageLength]
           /\ mPayload' = [mPayload EXCEPT ![c] = @ \o SubSeq(request, start, start + size - 1)]
           /\ request' = SubSeq(request, start + size, Len(request))
           /\ odd' = (odd \/ size < whole \/ (request[1].format # 3 /\ mPayload[c] # << >>))
    /\ UNCHANGED << receiving, mRequest, shake, handled, link >>

\* A header is cut off, data are taken for a header, or a second message is shorter than
\* the first.
TakeGarbage ==
    /\ Receiving("RTMP") /\ ~Shaking /\ request # << >>
    /\ ~(HasHeader /\ bytesToLoad >= 0)
    /\ link' = "lost" /\ odd' = TRUE
    /\ receiving' = FALSE
    /\ UNCHANGED << request, mRequest, rtmp, handled >>

\* Mutant: the payload is not cleared.
RtmpDoneKeeping ==
    /\ Receiving("RTMP") /\ ~Shaking /\ request = << >>
    /\ LET Complete == { c \in ChunkStream : Len(mPayload[c]) = mMessageLength[c] /\ mPayload[c] # << >> }
       IN  handled' = handled \o [i \in 1 .. Cardinality(Complete) |-> mPayload[SetToSortSeq(Complete, <)[i]]]
    /\ receiving' = FALSE
    /\ UNCHANGED << request, mRequest, shake, mMessageLength, mPayload, link, odd >>

\* All messages that are complete, in the order of their chunk streams.
RtmpDone ==
    /\ Receiving("RTMP") /\ ~Shaking /\ request = << >>
    /\ LET Complete == { c \in ChunkStream : Len(mPayload[c]) = mMessageLength[c] /\ mPayload[c] # << >> }
       IN  /\ handled' = handled \o [i \in 1 .. Cardinality(Complete) |-> mPayload[SetToSortSeq(Complete, <)[i]]]
           /\ mPayload' = [c \in ChunkStream |-> IF c \in Complete THEN << >> ELSE mPayload[c]]
    /\ receiving' = FALSE
    /\ UNCHANGED << request, mRequest, shake, mMessageLength, link, odd >>

-----------------------------------------------------------------------------

ReceptionNext ==
    \/ \E n \in 1 .. Len(wire) : Read(n)
    \/ HttpIncomplete \/ HttpRequest
    \/ RtspDone \/ RtspPacketIncomplete \/ RtspPacketShort \/ RtspPacket \/ RtspTextIncomplete \/ RtspText
    \/ TakeC0 \/ ShakeIncomplete \/ TakeC1 \/ TakeC2 \/ TakeChunk \/ TakeGarbage \/ RtmpDone

ReceptionSpec == ReceptionInit /\ [][ReceptionNext]_receptionVars

-----------------------------------------------------------------------------
(* Properties *)

\* The bytes of a message that handleRequest is to see.
IsContent(b) == b.is \notin {"C0", "C1", "C2", "basic", "header"}

Message(m) == SelectSeq(sent, LAMBDA b : b.of = m /\ IsContent(b))

\* What the handlers are given are whole messages, each once and in the order in which
\* they were sent (on one chunk stream), and nothing is lost between them, however the
\* network cuts the bytes up, but for reads that are odd
\* (ozHttpConnection.cpp:92-107, ozRtspConnection.cpp:300-364, ozRtmpSession.cpp:666-727).
HandledAsSent ==
    /\ \A i \in DOMAIN handled : handled[i] = Message(handled[i][1].of)
    /\ \A i, j \in DOMAIN handled :
           i < j /\ handled[i][1].chunk = handled[j][1].chunk => handled[i][1].of < handled[j][1].of

NothingLost ==
    \A c \in { sent[i].chunk : i \in DOMAIN sent } :
        LET Content(bytes) == SelectSeq(bytes, LAMBDA b : b.chunk = c /\ IsContent(b))
            Came == FlattenSeq(handled) \o (IF c \in ChunkStream THEN mPayload[c] ELSE << >>)
        IN  Content(Came) \o Content(mRequest) \o Content(request) \o Content(wire) = Content(sent)

ReceivedAsSent == ~odd => HandledAsSent /\ NothingLost /\ link = "open"

\* The commands of an RTSP client are assembled and handled (ozRtspConnection.cpp:288,
\* and ozConnection.h:93 on mRequest).
RequestsAssembled ==
    protocol = "RTSP" /\ (\A i \in DOMAIN sent : sent[i].is \in {"text", "end"})
        => HandledAsSent /\ NothingLost
=============================================================================
