----------------------------- MODULE ClientServing -----------------------------
(***************************************************************************)
(* Connections, sessions and streams.  One thread, the Listener's, accepts *)
(* connections, reads requests (see Reception) and handles them; it makes  *)
(* and starts the streams, each a thread, and when a connection goes it    *)
(* stops them, joins them and deletes them.  What the three protocols      *)
(* delete, and when, differs.                                              *)
(*                                                                         *)
(* HTTP: a GET makes a session and a stream, kept under the connection.    *)
(* RTMP: the connection has one session, which may play several streams.   *)
(* RTSP: a session is made by SETUP, has up to two streams (tracks) and is *)
(* never deleted; TEARDOWN deletes its streams, a closed connection        *)
(* deletes nothing.                                                        *)
(*                                                                         *)
(* Abstracted: one source, in states of FeedProvider; frames, and their    *)
(* encoders but for the lock of the RTMP encoder's consumers; responses,   *)
(* and clients that do not read them.                                      *)
(***************************************************************************)
EXTENDS Integers, Sequences, FiniteSets, SequencesExt

CONSTANTS
    Client,         \* bound: the connections
    Kinds,          \* a set of functions, [Client -> {"HTTP", "RTSP", "RTMP"}]
    MaxStreams,     \* bound: the streams that are made
    MaxSessions,    \* bound: the sessions an RTSP client sets up
    DataPort        \* the even ports of RtspController's mDataPortRange

ASSUME ServingAssumption ==
    /\ Client # {} /\ Kinds \subseteq [Client -> {"HTTP", "RTSP", "RTMP"}]
    /\ MaxStreams \in Nat \ {0} /\ MaxSessions \in Nat \ {0}
    /\ DataPort \subseteq Nat \ {0}

VARIABLES
    kind,           \* [Client -> its protocol]
    conn,           \* [Client -> "none", "open", "closing" or "deleted"]
    described,      \* [Client -> RtspConnection::mEncoder is set]
    rtmpState,      \* [Client -> RtmpSession::mState]
    sessions,       \* the sessions that the controllers know
    encoded,        \* the RTSP sessions with an encoder
    life,           \* [Threads -> how far the stream has come]
    stopped,        \* the streams whose mStop is set
    session,        \* [Threads -> its session]
    track,          \* [Threads -> trackID, or the RTMP message stream]
    port,           \* [Threads -> mSourcePorts[0], or 0]
    lost,           \* streams that no session knows
    mAssignedPorts,
    listener,       \* "select", "closing", "teardown", "hung", "stopped", or "crashed" with the process
    toJoin,         \* the streams it stops, joins and deletes
    source,         \* the source's mState
    mutexHeld,      \* RTMP streams that ended with mQueueMutex locked
    encoderStuck,   \* the RTMP encoder waits for such a mutex, with mConsumerMutex locked
    abandoned,      \* history: the RTSP streams that were there when their connection went
    cause           \* history: what the process has crashed of, or "none"

threads == << life, stopped, session, track, port, lost >>
clientVars == << conn, described, rtmpState, sessions, encoded >>
locks == << mutexHeld, encoderStuck >>
history == << abandoned, cause >>
servingVars == << kind, clientVars, threads, mAssignedPorts, listener, toJoin, source, locks, history >>

Threads == 1 .. MaxStreams
Session == Client \X (1 .. MaxSessions)
Owner(t) == session[t][1]

\* Where the thread is: not made, made, in waitForProviders, in its loop, ended, deleted.
Life == {"none", "made", "waiting", "sending", "ended", "deleted"}
Alive(t) == life[t] \notin {"none", "deleted"}
\* Its connection has gone.
Orphan(t) == Alive(t) /\ conn[Owner(t)] = "deleted"

ServingInit ==
    /\ kind \in Kinds
    /\ conn = [c \in Client |-> "none"]
    /\ described = [c \in Client |-> FALSE]
    /\ rtmpState = [c \in Client |-> "UNINITIALIZED"]
    /\ sessions = {} /\ encoded = {}
    /\ life = [t \in Threads |-> "none"]
    /\ stopped = {}
    /\ session = [t \in Threads |-> CHOOSE s \in Session : TRUE]
    /\ track = [t \in Threads |-> 0]
    /\ port = [t \in Threads |-> 0]
    /\ lost = {}
    /\ mAssignedPorts = {}
    /\ listener = "select" /\ toJoin = << >>
    /\ source \in {"PROV_WAIT", "PROV_READY"}
    /\ mutexHeld = {} /\ encoderStuck = FALSE
    /\ abandoned = {} /\ cause = "none"

Unmade == { t \in Threads : life[t] = "none" }
\* The next stream that is made.
NewOne == CHOOSE t \in Unmade : TRUE
Made(s) == { t \in Threads : session[t] = s /\ t \notin lost /\ Alive(t) }

-----------------------------------------------------------------------------
(* The listener: connections *)

\* A request of c, of the protocol p, is handled.
Serves(p, c) == listener = "select" /\ conn[c] = "open" /\ kind[c] = p

\* Controller::newConnection
Accept(c) ==
    /\ listener = "select" /\ conn[c] = "none"
    /\ conn' = [conn EXCEPT ![c] = "open"]
    /\ UNCHANGED << kind, described, rtmpState, sessions, encoded, threads, mAssignedPorts, listener, toJoin,
                    source, locks, history >>

\* delete connection: the destructors of HttpConnection and RtmpConnection delete the
\* session; RtspConnection has none.
Close(c) ==
    /\ listener' = "closing"
    /\ conn' = [conn EXCEPT ![c] = "closing"]
    /\ toJoin' = IF kind[c] = "RTSP" THEN << >> ELSE SetToSeq(Made(<< c, 1 >>))

\* Zero bytes to read.
HangUp(c) ==
    /\ listener = "select" /\ conn[c] = "open"
    /\ Close(c)
    /\ UNCHANGED << kind, described, rtmpState, sessions, encoded, threads, mAssignedPorts, source, locks, history >>

\* stop(), join() and delete of the next stream.  TEARDOWN has stopped all of them.
StopNext ==
    /\ listener = "closing" /\ toJoin # << >> /\ Head(toJoin) \notin stopped
    /\ stopped' = stopped \cup {Head(toJoin)}
    /\ UNCHANGED << kind, clientVars, life, session, track, port, lost, mAssignedPorts, listener, toJoin,
                    source, locks, history >>

Joined(t) == t \in stopped /\ life[t] \in {"made", "ended"}

\* ~RtmpStream waits for mConsumerMutex in deregisterProvider.
Deletable(t) == kind[Owner(t)] = "RTMP" => ~encoderStuck

DeleteNext ==
    /\ listener = "closing" /\ toJoin # << >>
    /\ Joined(Head(toJoin)) /\ Deletable(Head(toJoin))
    /\ life' = [life EXCEPT ![Head(toJoin)] = "deleted"]
    /\ mutexHeld' = mutexHeld \ {Head(toJoin)}
    /\ toJoin' = Tail(toJoin)
    /\ UNCHANGED << kind, clientVars, stopped, session, track, port, lost, mAssignedPorts, listener, source,
                    encoderStuck, history >>

Closed(c) ==
    /\ listener = "closing" /\ toJoin = << >> /\ conn[c] = "closing"
    /\ conn' = [conn EXCEPT ![c] = "deleted"]
    /\ sessions' = IF kind[c] = "RTSP" THEN sessions ELSE sessions \ {<< c, 1 >>}
    /\ abandoned' = abandoned \cup { t \in Threads : Alive(t) /\ Owner(t) = c /\ kind[c] = "RTSP" }
    /\ listener' = "select"
    /\ UNCHANGED << kind, described, rtmpState, encoded, threads, mAssignedPorts, toJoin, source, locks, cause >>

\* Listener::stop; the connections and their streams stay as they are.
StopListener ==
    /\ listener = "select"
    /\ listener' = "stopped"
    /\ UNCHANGED << kind, clientVars, threads, mAssignedPorts, toJoin, source, locks, history >>

\* The process ends: Panic aborts, a NULL pointer or a deleted object is used, or an exception leaves
\* the listener's thread.
Crash(why) ==
    /\ listener' = "crashed" /\ cause' = why
    /\ UNCHANGED << conn, described, rtmpState, threads, mAssignedPorts, toJoin, abandoned >>

NewStream(t, s, n, p, where) ==
    /\ life' = [life EXCEPT ![t] = where]
    /\ session' = [session EXCEPT ![t] = s]
    /\ track' = [track EXCEPT ![t] = n]
    /\ port' = [port EXCEPT ![t] = p]
    /\ UNCHANGED stopped

-----------------------------------------------------------------------------
(* HTTP *)

\* GET of a stream name that the controller does not know: answered, and kept open.
GetUnknown(c) ==
    /\ Serves("HTTP", c)
    /\ UNCHANGED servingVars

\* GET of a source that is not found, or not ready.
GetRefused(c) ==
    /\ Serves("HTTP", c)
    /\ sessions' = sessions \cup {<< c, 1 >>}
    /\ Close(c)
    /\ UNCHANGED << kind, described, rtmpState, encoded, threads, mAssignedPorts, source, locks, history >>

\* The session of a second GET cannot be inserted under the same key and is lost.
Get(c) ==
    /\ Serves("HTTP", c) /\ source = "PROV_READY" /\ Unmade # {}
    /\ sessions' = sessions \cup {<< c, 1 >>}
    /\ lost' = IF << c, 1 >> \in sessions THEN lost \cup {NewOne} ELSE lost
    /\ NewStream(NewOne, << c, 1 >>, 0, 0, "waiting")
    /\ UNCHANGED << kind, conn, described, rtmpState, encoded, mAssignedPorts, listener, toJoin, source, locks, history >>

-----------------------------------------------------------------------------
(* RTMP *)

Command(c, from, to) ==
    /\ Serves("RTMP", c) /\ rtmpState[c] \in from
    /\ sessions' = sessions \cup {<< c, 1 >>}
    /\ rtmpState' = [rtmpState EXCEPT ![c] = to]
    /\ UNCHANGED << kind, conn, described, encoded, mAssignedPorts, listener, toJoin, source, locks, history >>

\* RtmpSession::handleRequest.  A command that the state does not expect is ignored.
connect(c) == Command(c, {"UNINITIALIZED"}, "CONNECTED") /\ UNCHANGED threads
createStream(c) == Command(c, {"CONNECTED"}, "STREAM_CREATED") /\ UNCHANGED threads

\* Whatever the state of the source is.  A second stream of the same message stream
\* cannot be inserted and is lost.
play(c, n) ==
    /\ Command(c, {"STREAM_CREATED", "PLAYING"}, "PLAYING") /\ Unmade # {}
    /\ ~encoderStuck
    /\ lost' = IF \E t \in Made(<< c, 1 >>) : track[t] = n THEN lost \cup {NewOne} ELSE lost
    /\ NewStream(NewOne, << c, 1 >>, n, 0, "waiting")

\* registerProvider waits for the encoder's mConsumerMutex.
playStuck(c) ==
    /\ Serves("RTMP", c) /\ rtmpState[c] \in {"STREAM_CREATED", "PLAYING"} /\ Unmade # {}
    /\ encoderStuck
    /\ listener' = "hung"
    /\ UNCHANGED << kind, clientVars, threads, mAssignedPorts, toJoin, source, locks, history >>

\* The streams are stopped, and stay until the connection goes.
closeStream(c) ==
    /\ Command(c, {"STREAM_CREATED", "PLAYING"}, "STOPPED")
    /\ stopped' = stopped \cup Made(<< c, 1 >>)
    /\ UNCHANGED << life, session, track, port, lost >>

-----------------------------------------------------------------------------
(* RTSP *)

Describe(c) ==
    /\ Serves("RTSP", c)
    /\ described' = [described EXCEPT ![c] = TRUE]
    /\ UNCHANGED << kind, conn, rtmpState, sessions, encoded, threads, mAssignedPorts, listener, toJoin, source,
                    locks, history >>

\* A request is refused in a way that closes the connection: DESCRIBE of an unknown
\* source, a SETUP that RtspSession::recvRequest refuses in a session that stays.
Refused(c) ==
    /\ Serves("RTSP", c)
    /\ Close(c)
    /\ \E new \in SUBSET { << c, n >> : n \in 1 .. MaxSessions } :
           /\ Cardinality(new) <= 1 /\ new \cap sessions = {}
           /\ sessions' = sessions \cup new
           /\ encoded' = IF described[c] THEN encoded \cup new ELSE encoded
    /\ UNCHANGED << kind, described, rtmpState, threads, mAssignedPorts, source, locks, history >>

\* The RtspController knows the session.
Known(s) == s \in sessions /\ kind[s[1]] = "RTSP"

\* The session of a SETUP: the one it names, or a new one.
SetupSession(c, s) ==
    \/ Known(s) /\ UNCHANGED << sessions, encoded >>
    \/ /\ s[1] = c /\ s \notin sessions
       /\ \A n \in 1 .. s[2] - 1 : << c, n >> \in sessions
       /\ sessions' = sessions \cup {s}
       /\ encoded' = IF described[c] THEN encoded \cup {s} ELSE encoded

\* A number of no session: its NULL is used.  A session whose connection is deleted uses that.
\* Without DESCRIBE there is no encoder.
SetupMisused(c, s) ==
    /\ Serves("RTSP", c)
    /\ \/ UNCHANGED << sessions, encoded >> /\ Crash("session")
       \/ Known(s) /\ conn[s[1]] = "deleted" /\ UNCHANGED << sessions, encoded >> /\ Crash("connection")
       \/ /\ source = "PROV_READY" /\ conn[s[1]] # "deleted"
          /\ SetupSession(c, s) /\ s \notin encoded'
          /\ Crash("encoder")
    /\ UNCHANGED << kind, source, locks >>

\* A SETUP of the track n comes as far as its Transport header.
TakesSetup(c, s, n) ==
    /\ Serves("RTSP", c) /\ source = "PROV_READY"
    /\ conn[s[1]] # "deleted"
    /\ SetupSession(c, s)
    /\ \A t \in Made(s) : track[t] # n

\* newStream finds no transport and profile in the header and returns NULL, which is used.
SetupUnparsed(c, s, n) ==
    /\ TakesSetup(c, s, n)
    /\ Crash("NULL")
    /\ UNCHANGED << kind, source, locks >>

\* The constructor of RtspStream throws an RtspException for a transport, profile, lower transport,
\* mode or port that it does not know, before it takes a port; nobody catches it.
SetupThrows(c, s, n) ==
    /\ TakesSetup(c, s, n)
    /\ Crash("RtspException")
    /\ UNCHANGED << kind, source, locks >>

FreePorts == DataPort \ mAssignedPorts
FirstFree == { p \in FreePorts : \A q \in FreePorts : p <= q }

Setup(c, s, n, interleaved) ==
    /\ TakesSetup(c, s, n) /\ s \in encoded' /\ Unmade # {}
    /\ \E p \in IF interleaved THEN {0} ELSE FirstFree :
           /\ NewStream(NewOne, s, n, p, "made")
           /\ mAssignedPorts' = IF interleaved THEN mAssignedPorts ELSE mAssignedPorts \cup {p}
    /\ UNCHANGED << kind, conn, described, rtmpState, lost, listener, toJoin, source, locks, history >>

\* RtspController::requestPorts panics, before the encoder is used.
SetupNoPort(c, s, n) ==
    /\ TakesSetup(c, s, n)
    /\ FreePorts = {}
    /\ Crash("ports")
    /\ UNCHANGED << kind, source, locks >>

\* Thread::start of a stream that runs, or has run, only logs an error.
Play(c, s) ==
    /\ Serves("RTSP", c) /\ Known(s)
    /\ life' = [t \in Threads |-> IF t \in Made(s) /\ life[t] = "made" THEN "waiting" ELSE life[t]]
    /\ UNCHANGED << kind, clientVars, stopped, session, track, port, lost, mAssignedPorts, listener, toJoin, source,
                    locks, history >>

\* mConnection->validateRequestUrl, of a connection that may be deleted.
GetParameter(c, s) ==
    /\ Serves("RTSP", c) /\ Known(s) /\ conn[s[1]] = "deleted"
    /\ Crash("connection")
    /\ UNCHANGED << kind, sessions, encoded, source, locks >>

Teardown(c, s) ==
    /\ Serves("RTSP", c) /\ Known(s)
    /\ stopped' = stopped \cup Made(s)
    /\ toJoin' = SetToSeq(Made(s))
    /\ listener' = "teardown"
    /\ UNCHANGED << kind, clientVars, life, session, track, port, lost, mAssignedPorts, source, locks, history >>

\* Mutant: ~RtspStream without releasePorts.
TornDownKeepingPorts ==
    /\ listener = "teardown" /\ \A i \in DOMAIN toJoin : Joined(toJoin[i])
    /\ \A i \in DOMAIN toJoin : conn[Owner(toJoin[i])] # "deleted"
    /\ life' = [t \in Threads |-> IF t \in ToSet(toJoin) THEN "deleted" ELSE life[t]]
    /\ toJoin' = << >> /\ listener' = "select"
    /\ UNCHANGED << kind, clientVars, stopped, session, track, port, lost, mAssignedPorts, source, locks, history >>

\* All are joined, then all are deleted; ~RtspStream gives its ports back.
TornDown ==
    /\ listener = "teardown" /\ \A i \in DOMAIN toJoin : Joined(toJoin[i])
    /\ \A i \in DOMAIN toJoin : conn[Owner(toJoin[i])] # "deleted"
    /\ life' = [t \in Threads |-> IF t \in ToSet(toJoin) THEN "deleted" ELSE life[t]]
    /\ mAssignedPorts' = mAssignedPorts \ { port[toJoin[i]] : i \in DOMAIN toJoin }
    /\ toJoin' = << >> /\ listener' = "select"
    /\ UNCHANGED << kind, clientVars, stopped, session, track, port, lost, source, locks, history >>

\* releasePorts goes through the connection of the session, which is deleted.
TornDownLate ==
    /\ listener = "teardown" /\ \A i \in DOMAIN toJoin : Joined(toJoin[i])
    /\ \E i \in DOMAIN toJoin : conn[Owner(toJoin[i])] = "deleted"
    /\ Crash("connection")
    /\ UNCHANGED << kind, sessions, encoded, source, locks >>

-----------------------------------------------------------------------------
(* The streams' threads, the encoder of RTMP, the source *)

\* The process has not ended.
Running == listener # "crashed"

Advance(t, from, to) ==
    /\ Running /\ life[t] = from
    /\ life' = [life EXCEPT ![t] = to]
    /\ UNCHANGED << kind, clientVars, session, track, port, lost, mAssignedPorts, listener, toJoin, source,
                    encoderStuck, history >>

\* waitForProviders does not look at mStop.
Ready(t) == source = "PROV_READY" /\ Advance(t, "waiting", "sending") /\ UNCHANGED << stopped, mutexHeld >>

\* Mutant: an ended provider is waited for.
NotReadyWaits(t) == source = "PROV_ENDED" /\ Advance(t, "waiting", "waiting") /\ UNCHANGED << stopped, mutexHeld >>

NotReady(t) == source = "PROV_ENDED" /\ Advance(t, "waiting", "ended") /\ UNCHANGED << stopped, mutexHeld >>

SeeStop(t) == t \in stopped /\ Advance(t, "sending", "ended") /\ UNCHANGED << stopped, mutexHeld >>

\* Nothing can be written for the timeout of the select, or a write fails.  RtmpStream::run
\* breaks with mQueueMutex locked.  An RTSP stream has no timeout, only errors.
TimeoutOrError(t) ==
    /\ t \notin stopped
    /\ Advance(t, "sending", "ended")
    /\ stopped' = stopped \cup {t}
    /\ mutexHeld' = IF kind[Owner(t)] = "RTMP" THEN mutexHeld \cup {t} ELSE mutexHeld

\* A stream writes through its deleted connection, but for an RTSP one with ports: that may end the
\* process, fail, or be seen by nobody.
WriteLate(t) ==
    /\ Running /\ life[t] = "sending" /\ Orphan(t)
    /\ kind[Owner(t)] = "RTSP" => port[t] = 0
    /\ Crash("connection")
    /\ UNCHANGED << kind, sessions, encoded, source, locks >>

\* The encoder queues a frame for a stream whose mQueueMutex stays locked.
EncoderBlocks ==
    /\ Running /\ mutexHeld # {} /\ ~encoderStuck
    /\ encoderStuck' = TRUE
    /\ UNCHANGED << kind, clientVars, threads, mAssignedPorts, listener, toJoin, source, mutexHeld, history >>

SourceChanges ==
    /\ Running
    /\ \/ source = "PROV_WAIT" /\ source' \in {"PROV_READY", "PROV_ENDED"}
       \/ source = "PROV_READY" /\ source' = "PROV_ENDED"
    /\ UNCHANGED << kind, clientVars, threads, mAssignedPorts, listener, toJoin, locks, history >>

-----------------------------------------------------------------------------

ThreadStep(t) == Ready(t) \/ NotReady(t) \/ SeeStop(t)

ListenerStep == StopNext \/ DeleteNext \/ (\E c \in Client : Closed(c)) \/ TornDown \/ TornDownLate

\* Which of the two tracks of a session is set up first makes no difference.
NextTrack(s) == IF \E t \in Made(s) : track[t] = 0 THEN 1 ELSE 0

Request(c) ==
    \/ HangUp(c) \/ GetUnknown(c) \/ GetRefused(c) \/ Get(c)
    \/ connect(c) \/ createStream(c) \/ (\E n \in {1, 2} : play(c, n)) \/ playStuck(c) \/ closeStream(c)
    \/ Describe(c) \/ Refused(c)
    \/ \E s \in Session :
           \/ SetupMisused(c, s) \/ SetupUnparsed(c, s, NextTrack(s)) \/ SetupThrows(c, s, NextTrack(s))
           \/ SetupNoPort(c, s, NextTrack(s)) \/ \E i \in BOOLEAN : Setup(c, s, NextTrack(s), i)
           \/ Play(c, s) \/ GetParameter(c, s) \/ Teardown(c, s)

ServingNext ==
    \/ \E c \in Client : Accept(c) \/ Request(c)
    \/ ListenerStep \/ StopListener
    \/ \E t \in Threads : ThreadStep(t) \/ TimeoutOrError(t) \/ WriteLate(t)
    \/ EncoderBlocks \/ SourceChanges

\* The threads run, and the writes of a stream return.
ServingSpec ==
    /\ ServingInit /\ [][ServingNext]_servingVars
    /\ WF_servingVars(ListenerStep)
    /\ \A t \in Threads : WF_servingVars(ThreadStep(t))

-----------------------------------------------------------------------------
(* Properties *)

\* A stream that is alive has its connection, whatever the clients do and when, but for two kinds: those
\* that no session knows, of a second GET or a second play of one message stream, and those an
\* RTSP client has left behind without TEARDOWN; nobody can make such a stream later
\* (ozHttpController.cpp:46-67, ozHttpSession.cpp:28-39, ozRtmpSession.cpp:27-38, ozRtspConnection.cpp:256-271).
StreamsHaveConnections ==
    \A t \in Threads : Orphan(t) => t \in lost \/ (t \in abandoned /\ kind[Owner(t)] = "RTSP")

\* The ports are those of the streams that are alive, abandoned ones included, each of one stream:
\* the process ends for want of a port only when that many streams hold one
\* (ozRtspController.cpp:96-121, ozRtspStream.cpp:142-172).
LivePorts == { t \in Threads : Alive(t) /\ port[t] # 0 }

PortsAreOfStreams ==
    /\ mAssignedPorts = { port[t] : t \in LivePorts }
    /\ Cardinality(mAssignedPorts) = Cardinality(LivePorts)
    /\ cause = "ports" => mAssignedPorts = DataPort

\* An HTTP or RTMP session goes with its connection.  An RTSP stream is in a session that is known,
\* so that a TEARDOWN reaches it, and is the only one of its track there
\* (ozHttpController.cpp:46-67, ozRtmpController.cpp:34-42, ozRtspSession.cpp:70-86).
SessionsAreOfClients ==
    /\ \A s \in sessions : kind[s[1]] # "RTSP" => conn[s[1]] \in {"open", "closing"} /\ s[2] = 1
    /\ \A t \in Threads : Alive(t) /\ kind[Owner(t)] = "RTSP" => t \notin lost /\ session[t] \in sessions
    /\ \A t, u \in Threads :
           Alive(t) /\ Alive(u) /\ kind[Owner(t)] = "RTSP" /\ session[t] = session[u] /\ track[t] = track[u]
               => t = u

\* A queue stays locked only by an RTMP stream that has ended and is not deleted, and the encoder
\* hangs only on such a queue (ozRtmpStream.cpp:310-321).
LocksAreOfStreams ==
    /\ mutexHeld \subseteq { t \in stopped \cap Threads : life[t] = "ended" /\ kind[Owner(t)] = "RTMP" }
    /\ encoderStuck => mutexHeld # {}

\* A deleted connection is used only for a session that an RTSP client has left, or a stream that
\* no session knows (ozRtspSession.cpp:52, 139, ozRtspStream.cpp:170, 397, ozHttpStream.cpp:135).
CrashesAreKnown ==
    /\ listener = "crashed" <=> cause # "none"
    /\ cause = "connection" =>
           \/ \E s \in sessions : kind[s[1]] = "RTSP" /\ conn[s[1]] = "deleted"
           \/ \E t \in Threads \cap lost : Orphan(t)

\* The listener comes back to its clients again and again, after each connection it deletes
\* and each TEARDOWN, if the source does not stay in PROV_WAIT and no RTMP stream times out
\* (libgenThread.cpp:375-402, ozRtmpStream.cpp:310-321, ozFeedConsumer.cpp:119-161).
ListenerServes ==
    []<>(listener \notin {"closing", "teardown", "hung"} \/ source = "PROV_WAIT" \/ encoderStuck)

\* What is taken is somebody's: streams and sessions have their connections but for those that are
\* lost or abandoned, ports their streams, locked queues an ended stream, and what ends the process
\* has its cause (ozHttpController.cpp:46-67, ozRtspController.cpp:96-121, ozRtspSession.cpp:48-165).
ResourcesAreOfClients ==
    StreamsHaveConnections /\ PortsAreOfStreams /\ SessionsAreOfClients /\ LocksAreOfStreams /\ CrashesAreKnown

-----------------------------------------------------------------------------
(* The inductive invariant behind ResourcesAreOfClients *)

ServingTyped ==
    /\ kind \in [Client -> {"HTTP", "RTSP", "RTMP"}]
    /\ conn \in [Client -> {"none", "open", "closing", "deleted"}]
    /\ life \in [Threads -> Life]
    /\ session \in [Threads -> Session]
    /\ port \in [Threads -> DataPort \cup {0}]
    /\ toJoin \in Seq(Threads)

SessionsTyped ==
    /\ sessions \in SUBSET Session /\ track \in [Threads -> Nat]
    /\ lost \cap Unmade = {}

\* HTTP and RTMP: one session a connection, and no ports.
OneSession == \A t \in Threads : Alive(t) /\ kind[Owner(t)] # "RTSP" => session[t] = << Owner(t), 1 >> /\ port[t] = 0

\* What the listener is about to delete is there, and of the connection that goes nothing else is.
ToJoinIsAlive ==
    /\ listener \in {"closing", "teardown"} =>
           /\ \A i \in DOMAIN toJoin : Alive(toJoin[i])
           /\ \A i, j \in DOMAIN toJoin : toJoin[i] = toJoin[j] => i = j
    /\ listener = "closing" => \A i \in DOMAIN toJoin : kind[Owner(toJoin[i])] # "RTSP"
    /\ listener = "teardown" => \A i \in DOMAIN toJoin : kind[Owner(toJoin[i])] = "RTSP"
    /\ \A t \in Threads :
           conn[Owner(t)] = "closing" /\ Alive(t) /\ t \notin lost /\ kind[Owner(t)] # "RTSP"
               => \E i \in DOMAIN toJoin : toJoin[i] = t

\* One connection goes at a time.
OneCloses ==
    \A c, d \in Client : conn[c] = "closing" => listener \in {"closing", "crashed"} /\ (conn[d] = "closing" => c = d)

\* A port is of one stream.
OnePortEach == \A t, u \in LivePorts : port[t] = port[u] => t = u

\* Whose the streams and ports are, and what the listener is about to delete.
OwnersInv ==
    /\ ServingTyped /\ OneSession /\ OneCloses /\ ToJoinIsAlive /\ OnePortEach
    /\ StreamsHaveConnections /\ PortsAreOfStreams

\* The inductive invariant: whose the streams and ports are, whose the sessions, what a thread that
\* has ended still holds, and what the process has ended of (ozListener.cpp:75-167, protocols/).
ServingInv == OwnersInv /\ SessionsTyped /\ SessionsAreOfClients /\ LocksAreOfStreams /\ CrashesAreKnown
=============================================================================
