------------------------------ MODULE RtmpDelivery ------------------------------
(***************************************************************************)
(* What an RTMP client makes of the chunks that reach it.  The Listener's  *)
(* thread builds the messages of a response and sends them together when   *)
(* it has handled what it read; a stream's thread sends onMetaData, and    *)
(* then video messages one chunk at a time.  Both use the chunk stream     *)
(* OZ_RTMP_CSID_CONTROL, and the size of a chunk, mTxChunkSize, is changed *)
(* by the Listener before the client is told.                              *)
(*                                                                         *)
(* The client takes a chunk for what the protocol says: a header begins a  *)
(* message, a header of type 1 is of the message stream of the one before, *)
(* a chunk has as many bytes as the size of chunks and the rest of the     *)
(* message allow.                                                          *)
(***************************************************************************)
EXTENDS Integers, Sequences, FiniteSets, FiniteSetsExt

CONSTANTS
    Player,         \* the message streams that are played
    Small, Large,   \* bound: mTxChunkSize before and after the first play
    Lengths,        \* bound: the lengths of video messages
    InitialFrames,  \* bound: mInitialFrames
    MaxMessages     \* bound: the video messages of a stream

ASSUME DeliveryAssumption ==
    /\ Player \subseteq Nat \ {0} /\ Small \in Nat \ {0} /\ Large \in Nat \ {0} /\ Lengths \subseteq Nat \ {0}
    /\ InitialFrames \in Nat /\ MaxMessages \in Nat

VARIABLES
    mTxChunkSize,
    response,       \* the chunks the Listener has built and not sent
    where,          \* [Player -> where the stream's thread is]
    payload,        \* [Player -> bytes of the video message that are not sent]
    video,          \* [Player -> the message it sends]
    mInitialFrames, \* [Player -> video messages that get a header of type 1]
    videos,         \* [Player -> video messages it has begun]
    mState,         \* RtmpSession's, as far as it matters: "CREATED", "PLAYING" or "STOPPED"
    client,         \* what the client knows of the connection
    race            \* history: threads have met in a way nobody prevents

deliveryVars == << mTxChunkSize, response, where, payload, video, mInitialFrames, videos, mState, client, race >>

\* OZ_RTMP_CSID_LOW_LEVEL, OZ_RTMP_CSID_HIGH_LEVEL, OZ_RTMP_CSID_CONTROL
LOW_LEVEL == 2
HIGH_LEVEL == 3
CONTROL == 4

Where == {"none", "meta", "loop", "sending", "ended"}

Nothing == [is |-> "nothing"]

Msg(is, sid, len) == [is |-> is, sid |-> sid, len |-> len]

-----------------------------------------------------------------------------
(* RtmpSession::addResponsePayload, buildResponse0 *)

\* A message in chunks: a header of type 0, then continuations.
buildResponse0(c, m, size) ==
    [i \in 1 .. (m.len + size - 1) \div size |->
        [type |-> IF i = 1 THEN 0 ELSE 3, chunk |-> c, msg |-> m,
         len |-> Min({size, m.len - (i - 1) * size})]]

-----------------------------------------------------------------------------
(* The client *)

NewClient ==
    [size |-> Small,
     open |-> [c \in {LOW_LEVEL, HIGH_LEVEL, CONTROL} |-> Nothing],    \* the message it is in
     left |-> [c \in {LOW_LEVEL, HIGH_LEVEL, CONTROL} |-> 0],          \* its bytes that are to come
     sid  |-> [c \in {LOW_LEVEL, HIGH_LEVEL, CONTROL} |-> 0],          \* the last header's message stream
     wrong |-> FALSE]

\* The chunk is what the client takes it for.
Understood(k, chunk) ==
    LET c == chunk.chunk IN
    /\ IF chunk.type = 3 THEN k.open[c] = chunk.msg ELSE k.open[c] = Nothing
    /\ chunk.len = Min({k.size, IF chunk.type = 3 THEN k.left[c] ELSE chunk.msg.len})
    /\ chunk.type = 1 => k.sid[c] = chunk.msg.sid

Take(k, chunk) ==
    LET c    == chunk.chunk
        left == (IF chunk.type = 3 THEN k.left[c] ELSE chunk.msg.len) - chunk.len
    IN  IF k.wrong \/ ~Understood(k, chunk) THEN [k EXCEPT !.wrong = TRUE]
        ELSE [k EXCEPT !.open[c] = IF left = 0 THEN Nothing ELSE chunk.msg,
                       !.left[c] = left,
                       !.sid[c] = IF chunk.type = 0 THEN chunk.msg.sid ELSE @,
                       !.size = IF left = 0 /\ chunk.msg.is = "Set Chunk Size" THEN Large ELSE @]

\* RtmpConnection::sendResponse: a mutex keeps the chunks of a call together.
send(chunks) ==
    LET after[i \in 0 .. Len(chunks)] == IF i = 0 THEN client ELSE Take(after[i - 1], chunks[i])
    IN  client' = after[Len(chunks)]

-----------------------------------------------------------------------------

DeliveryInit ==
    /\ mTxChunkSize = Small
    /\ response = << >>
    /\ where = [p \in Player |-> "none"]
    /\ payload = [p \in Player |-> 0]
    /\ video = [p \in Player |-> Nothing]
    /\ mInitialFrames = [p \in Player |-> InitialFrames]
    /\ videos = [p \in Player |-> 0]
    /\ mState = "CREATED"
    /\ client = NewClient
    /\ race = FALSE

streams == << where, payload, video, mInitialFrames, videos >>

\* connect and createStream: messages shorter and longer than a chunk.
HandleCommand ==
    /\ mState = "CREATED"
    /\ response = << >>
    /\ response' = buildResponse0(LOW_LEVEL, Msg("control", 0, Small), mTxChunkSize)
                   \o buildResponse0(HIGH_LEVEL, Msg("_result", 0, 2 * Small), mTxChunkSize)
    /\ UNCHANGED << mTxChunkSize, streams, mState, client, race >>

onStatus(p) == buildResponse0(CONTROL, Msg("onStatus", p, 2 * Small), Large)

\* Mutant: the size is changed before Set Chunk Size is built, and not sent.
HandlePlayUntold(p) ==
    /\ mState # "STOPPED" /\ where[p] = "none"
    /\ mTxChunkSize' = Large
    /\ response' = response \o buildResponse0(LOW_LEVEL, Msg("Stream Begin", 1, Small), Large)
                   \o onStatus(p) \o onStatus(p)
    /\ where' = [where EXCEPT ![p] = "meta"]
    /\ mState' = "PLAYING"
    /\ race' = (race \/ \E q \in Player : where[q] # "none")
    /\ UNCHANGED << payload, video, mInitialFrames, videos, client >>

\* play.  The stream's thread runs before the response is sent.
HandlePlay(p) ==
    /\ mState # "STOPPED" /\ where[p] = "none"
    /\ mTxChunkSize' = Large
    /\ response' = response \o buildResponse0(LOW_LEVEL, Msg("Set Chunk Size", 0, Small), mTxChunkSize)
                   \o buildResponse0(LOW_LEVEL, Msg("Stream Begin", 1, Small), Large)
                   \o onStatus(p) \o onStatus(p)
    /\ where' = [where EXCEPT ![p] = "meta"]
    /\ mState' = "PLAYING"
    /\ race' = (race \/ \E q \in Player : where[q] # "none")
    /\ UNCHANGED << payload, video, mInitialFrames, videos, client >>

\* A sequence again and again.
Times(n, s) == [i \in 1 .. n * Len(s) |-> s[((i - 1) % Len(s)) + 1]]

\* closeStream: a status for each stream; the threads see it when they come round.
HandleClose(p) ==
    /\ mState = "PLAYING" /\ where[p] # "none"
    /\ response' = response \o Times(Cardinality({ q \in Player : where[q] # "none" }), onStatus(p))
    /\ mState' = "STOPPED"
    /\ UNCHANGED << mTxChunkSize, streams, client, race >>

\* RtmpConnection::recvRequest has handled what was read.
SendResponse ==
    /\ response # << >>
    /\ send(response)
    /\ response' = << >>
    /\ race' = (race \/ \E p \in Player : where[p] = "sending")
    /\ UNCHANGED << mTxChunkSize, streams, mState >>

-----------------------------------------------------------------------------
(* RtmpStream::run and sendFrame *)

\* The client has not been told the size of the chunk that is sent to it.
Early == response # << >> /\ client.size # mTxChunkSize

\* onMetaData
SendMeta(p) ==
    /\ where[p] = "meta"
    /\ send(buildResponse0(CONTROL, Msg("onMetaData", p, 2 * Small), mTxChunkSize))
    /\ where' = [where EXCEPT ![p] = "loop"]
    /\ race' = (race \/ Early)
    /\ UNCHANGED << mTxChunkSize, response, payload, video, mInitialFrames, videos, mState >>

\* buildPacket and the send of one chunk; the first ones of a message have a header,
\* of type 1 for the first messages.
SendChunk(p, type, m, size) ==
    LET n == Min({mTxChunkSize, size}) IN
    /\ send(<< [type |-> type, chunk |-> CONTROL, msg |-> m, len |-> n] >>)
    /\ payload' = [payload EXCEPT ![p] = size - n]
    /\ where' = [where EXCEPT ![p] = IF n = size THEN "loop" ELSE "sending"]
    /\ race' = (race \/ Early)
    /\ UNCHANGED << mTxChunkSize, response, mState >>

BeginVideo(p, len) ==
    /\ where[p] = "loop" /\ videos[p] < MaxMessages
    /\ LET m == Msg("video", p, len) IN
       /\ SendChunk(p, IF mInitialFrames[p] > 0 THEN 1 ELSE 0, m, len)
       /\ video' = [video EXCEPT ![p] = m]
    /\ mInitialFrames' = [mInitialFrames EXCEPT ![p] = IF @ > 0 THEN @ - 1 ELSE 0]
    /\ videos' = [videos EXCEPT ![p] = @ + 1]

ContinueVideo(p) ==
    /\ where[p] = "sending"
    /\ SendChunk(p, 3, video[p], payload[p])
    /\ UNCHANGED << video, mInitialFrames, videos >>

\* mStop, or nothing can be written.
End(p) ==
    /\ where[p] \in {"meta", "loop"}
    /\ where' = [where EXCEPT ![p] = "ended"]
    /\ UNCHANGED << mTxChunkSize, response, payload, video, mInitialFrames, videos, mState, client, race >>

DeliveryNext ==
    \/ HandleCommand \/ SendResponse
    \/ \E p \in Player :
           \/ HandlePlay(p) \/ HandleClose(p) \/ SendMeta(p) \/ ContinueVideo(p) \/ End(p)
           \/ \E len \in Lengths : BeginVideo(p, len)

DeliverySpec == DeliveryInit /\ [][DeliveryNext]_deliveryVars

-----------------------------------------------------------------------------
(* Properties *)

\* The client puts every message together again and takes it for one of its message
\* stream, though messages of two threads share a chunk stream, chunks change their size
\* and headers are short, but where a stream sends before the response to its play, a
\* response is sent amid a video message, or a second stream is played
\* (ozRtmpSession.cpp:485-556, 607-636, ozRtmpConnection.cpp:316-327, ozRtmpStream.cpp:43-106, 176-183).
ClientUnderstands ==
    /\ ~race => ~client.wrong
    /\ \A p \in Player : where[p] = "loop" /\ ~race => client.open[CONTROL] = Nothing

-----------------------------------------------------------------------------
(***************************************************************************)
(* Why ClientUnderstands holds: an inductive invariant.                    *)
(***************************************************************************)

ChunkStreams == {LOW_LEVEL, HIGH_LEVEL, CONTROL}

ChunkedMessages ==
    [is : {"control", "_result", "Set Chunk Size", "Stream Begin", "onStatus", "onMetaData", "video"},
     sid : Nat, len : Nat \ {0}]

Chunks == [type : {0, 1, 3}, chunk : ChunkStreams, msg : ChunkedMessages, len : Nat]

Clients ==
    [size : Nat \ {0}, open : [ChunkStreams -> ChunkedMessages \union {Nothing}], left : [ChunkStreams -> Nat],
     sid : [ChunkStreams -> Nat], wrong : BOOLEAN]

DeliveryTypes ==
    /\ mTxChunkSize \in Nat \ {0}
    /\ where \in [Player -> Where] /\ payload \in [Player -> Nat] /\ video \in [Player -> ChunkedMessages \union {Nothing}]
    /\ mInitialFrames \in [Player -> Nat] /\ videos \in [Player -> Nat]
    /\ mState \in {"CREATED", "PLAYING", "STOPPED"} /\ client \in Clients /\ race \in BOOLEAN

Plays(p) == where[p] # "none"

\* One stream is played, in chunks of the larger size.
OnePlays ==
    /\ \A p, q \in Player : Plays(p) /\ Plays(q) => p = q
    /\ \A p \in Player : Plays(p) => mTxChunkSize = Large /\ mState # "CREATED"

\* The client has understood it all, and is in no message but the one a stream is sending.
Between(k) == ~k.wrong /\ \A c \in ChunkStreams : k.open[c] = Nothing

InVideo(p) ==
    /\ ~client.wrong
    /\ \A c \in ChunkStreams \ {CONTROL} : client.open[c] = Nothing
    /\ client.open[CONTROL] = video[p] /\ client.left[CONTROL] = payload[p]
    /\ payload[p] # 0 /\ video[p] \in ChunkedMessages /\ video[p].sid = p /\ video[p].is = "video"

ClientIsWhereStreamIs ==
    /\ (\A p \in Player : where[p] # "sending") => Between(client)
    /\ \A p \in Player : where[p] = "sending" => InVideo(p)
    /\ \A p \in Player : where[p] \in {"loop", "sending"} => client.sid[CONTROL] = p

\* k becomes l with the chunks.
Takes(k, chunks, l) ==
    \E after \in [0 .. Len(chunks) -> Clients] :
        /\ after[0] = k /\ after[Len(chunks)] = l
        /\ \A i \in 1 .. Len(chunks) : after[i] = Take(after[i - 1], chunks[i])

\* A client between two messages that takes chunks to be of a size understands these; then it takes
\* them to be of the other size, and its message stream is one of those or the one it was.
Leads(chunks, from, to, sids) ==
    /\ chunks \in Seq(Chunks)
    /\ \A k \in Clients : Between(k) /\ k.size = from =>
           \E l \in Clients : Takes(k, chunks, l) /\ Between(l) /\ l.size = to /\ l.sid[CONTROL] \in sids \union {k.sid[CONTROL]}

\* With what is built and not sent, the client learns the size that is used.
ResponseIsGood ==
    /\ response = << >> => client.size = mTxChunkSize
    /\ Leads(response, client.size, mTxChunkSize, { p \in Player : Plays(p) })

DeliveryInv ==
    ~race => DeliveryTypes /\ OnePlays /\ ClientIsWhereStreamIs /\ ResponseIsGood
=============================================================================
