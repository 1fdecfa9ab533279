---------------------------- MODULE InitialFrames ----------------------------
(***************************************************************************)
(* The frame a stream starts with: H264Relay, H264Encoder and MpegEncoder. *)
(* A relay and an H.264 encoder keep the first frame that holds the        *)
(* decoder's parameters and give it to each client that registers later.   *)
(* The client's thread looks at mInitialFrame without a lock while the run *)
(* thread copies it there.                                                 *)
(*                                                                         *)
(* Abstracted: a relay's frame is its number and what NAL units it holds;  *)
(* what an encoder puts out is numbered by itself, the codec may hold a    *)
(* picture back; a client's queue is what was queued to it.                *)
(***************************************************************************)
EXTENDS Integers, Sequences

CONSTANTS
    Client,     \* the streams that register
    Kinds,      \* bound: of "relay", "h264", "mpeg"
    MaxEncoderFrames,  \* bound: frames that arrive
    MaxEncoderQueue   \* bound: frames waiting

ASSUME InitialAssumption == Kinds \subseteq {"relay", "h264", "mpeg"} /\ MaxEncoderFrames \in Nat /\ MaxEncoderQueue \in Nat

VARIABLES
    kind,           \* what runs
    encoderQueue,
    encoderFrames,        \* frames queued so far
    encoderStep,             \* "start", "take", "encode", "scan", "copy", "distribute", "ended", "fatal"
    inHand,         \* the frame the loop handles
    outputs,        \* pictures the codec put out
    mSps,
    mInitialFrame,  \* its number, or 0
    mConsumers,
    joining,        \* [Client -> "out", "look" or "in"]
    early,          \* the clients that registered before there was a whole initial frame
    queued          \* [Client -> Seq of [n, again, whole]]

clientVars == << mConsumers, joining, early, queued >>
encoderVars == << encoderQueue, encoderStep, inHand, outputs, mSps, mInitialFrame >>
initialVars == << kind, encoderFrames, encoderVars, clientVars >>

\* An SPS of less than four bytes makes the process panic.
Units == {"slice", "sps", "short sps"}
None == [n |-> 0, units |-> "slice"]

InitialInit ==
    /\ kind \in Kinds
    /\ encoderQueue = << >> /\ encoderFrames = 0
    /\ encoderStep = "start" /\ inHand = None /\ outputs = 0
    /\ mSps = FALSE /\ mInitialFrame = 0
    /\ mConsumers = {} /\ joining = [c \in Client |-> "out"] /\ early = {}
    /\ queued = [c \in Client |-> << >>]

-----------------------------------------------------------------------------
(* The clients *)

\* Encoder::registerConsumer, and then a look at mInitialFrame outside its mutex.
Register(c) ==
    /\ joining[c] = "out"
    /\ mConsumers' = mConsumers \cup {c}
    /\ joining' = [joining EXCEPT ![c] = IF kind = "mpeg" THEN "in" ELSE "look"]
    /\ early' = IF mInitialFrame = 0 \/ encoderStep = "copy" THEN early \cup {c} ELSE early
    /\ UNCHANGED << kind, encoderFrames, encoderVars, queued >>

\* While it is copied the size is there before the bytes are.
Look(c) ==
    /\ joining[c] = "look"
    /\ joining' = [joining EXCEPT ![c] = "in"]
    /\ IF mInitialFrame = 0
       THEN UNCHANGED queued
       ELSE \E whole \in {encoderStep # "copy", TRUE} :
                queued' = [queued EXCEPT ![c] = Append(@, [n |-> mInitialFrame, again |-> TRUE, whole |-> whole])]
    /\ UNCHANGED << kind, encoderFrames, encoderVars, mConsumers, early >>

deregisterConsumer(c) ==
    /\ joining[c] = "in"
    /\ mConsumers' = mConsumers \ {c}
    /\ joining' = [joining EXCEPT ![c] = "out"]
    /\ early' = early \ {c}
    /\ queued' = [queued EXCEPT ![c] = << >>]
    /\ UNCHANGED << kind, encoderFrames, encoderVars >>

queueEncoderFrame(units) ==
    /\ encoderFrames < MaxEncoderFrames /\ Len(encoderQueue) < MaxEncoderQueue
    /\ encoderFrames' = encoderFrames + 1
    /\ encoderQueue' = Append(encoderQueue, [n |-> encoderFrames + 1, units |-> units])
    /\ UNCHANGED << kind, encoderStep, inHand, outputs, mSps, mInitialFrame, clientVars >>

-----------------------------------------------------------------------------
(* The run loops *)

\* The codec may be missing, the providers may not come.
Starts ==
    /\ encoderStep = "start" /\ encoderStep' \in {"take", "ended", "fatal"}
    /\ UNCHANGED << kind, encoderFrames, encoderQueue, inHand, outputs, mSps, mInitialFrame, clientVars >>

RelayStarts == kind = "relay" /\ Starts
H264Starts == kind = "h264" /\ Starts
MpegStarts == kind = "mpeg" /\ Starts

\* The first frame of the queue, if it is of use; the others are dropped.
TakeIf(used, next) ==
    /\ encoderStep = "take" /\ encoderQueue # << >>
    /\ encoderQueue' = << >>
    /\ inHand' = IF used THEN Head(encoderQueue) ELSE None
    /\ encoderStep' = IF used THEN next ELSE "take"
    /\ UNCHANGED << kind, encoderFrames, outputs, mSps, mInitialFrame, clientVars >>

RelayTakes == kind = "relay" /\ TakeIf(mInitialFrame = 0 \/ mConsumers # {}, IF mInitialFrame = 0 THEN "scan" ELSE "distribute")
H264Takes == kind = "h264" /\ TakeIf(mInitialFrame = 0 \/ mConsumers # {}, "encode")
MpegTakes == kind = "mpeg" /\ TakeIf(mConsumers # {}, "encode")

\* The codec puts out nothing, or its next picture; the first one holds the parameters.
Encodes(next) ==
    /\ encoderStep = "encode"
    /\ \/ encoderStep' = "take" /\ inHand' = None /\ UNCHANGED outputs
       \/ /\ encoderStep' = next
          /\ outputs' = outputs + 1
          /\ inHand' = [n |-> outputs + 1, units |-> IF outputs = 0 THEN "sps" ELSE "slice"]
    /\ UNCHANGED << kind, encoderFrames, encoderQueue, mSps, mInitialFrame, clientVars >>

H264Encodes == kind = "h264" /\ Encodes(IF mInitialFrame = 0 THEN "scan" ELSE "distribute")
MpegEncodes == kind = "mpeg" /\ Encodes("distribute")

\* The scan of the NAL units: an encoder's first picture is the initial frame, a relay's is
\* one with an SPS in it or after one.
ScanUnits(suits) ==
    /\ encoderStep = "scan"
    /\ mSps' = (mSps \/ inHand.units = "sps")
    /\ encoderStep' = IF inHand.units = "short sps" THEN "fatal" ELSE IF suits THEN "copy" ELSE "take"
    /\ mInitialFrame' = IF encoderStep' = "copy" THEN inHand.n ELSE mInitialFrame
    /\ inHand' = IF encoderStep' = "take" THEN None ELSE inHand
    /\ UNCHANGED << kind, encoderFrames, encoderQueue, outputs, clientVars >>

RelayScans == kind = "relay" /\ ScanUnits(mSps \/ inHand.units = "sps")
H264Scans == kind = "h264" /\ ScanUnits(TRUE)

\* Mutant: a relay keeps its first frame to itself, as an encoder does.
PassesNone == FALSE

PassesInitial == kind = "relay"

\* The bytes of mInitialFrame are there.
Copied ==
    /\ encoderStep = "copy"
    /\ encoderStep' = IF PassesInitial THEN "distribute" ELSE "take"
    /\ inHand' = IF PassesInitial THEN inHand ELSE None
    /\ UNCHANGED << kind, encoderFrames, encoderQueue, outputs, mSps, mInitialFrame, clientVars >>

distributeFrame ==
    /\ encoderStep = "distribute"
    /\ queued' = [c \in Client |->
           IF c \in mConsumers THEN Append(queued[c], [n |-> inHand.n, again |-> FALSE, whole |-> TRUE]) ELSE queued[c]]
    /\ encoderStep' = "take" /\ inHand' = None
    /\ UNCHANGED << kind, encoderFrames, encoderQueue, outputs, mSps, mInitialFrame, mConsumers, joining, early >>

\* mStop is looked at between two frames; cleanup lets the clients go.
StopEncoder ==
    /\ encoderStep = "take" /\ encoderStep' = "ended"
    /\ mConsumers' = {}
    /\ UNCHANGED << kind, encoderFrames, encoderQueue, inHand, outputs, mSps, mInitialFrame, joining, early, queued >>

InitialNext ==
    \/ \E c \in Client : Register(c) \/ Look(c) \/ deregisterConsumer(c)
    \/ \E u \in Units : queueEncoderFrame(u)
    \/ RelayStarts \/ RelayTakes \/ RelayScans
    \/ H264Starts \/ H264Takes \/ H264Encodes \/ H264Scans
    \/ MpegStarts \/ MpegTakes \/ MpegEncodes
    \/ Copied \/ distributeFrame \/ StopEncoder

InitialSpec == InitialInit /\ [][InitialNext]_initialVars

-----------------------------------------------------------------------------

\* The places on a client's queue of the frames that were distributed.
Fresh(c) == { i \in DOMAIN queued[c] : ~queued[c][i].again }

\* A client that is registered has the frame its decoder needs: a relay's client always, however
\* its registration falls into the copying of the frame, an encoder's client if it came when the
\* frame was there.  Beside it each frame comes once, in order, whole, and none before the
\* decoder's parameters were known (ozH264Relay.cpp:104-111, 240-247; ozH264Encoder.cpp:308-316).
StreamsStartWell ==
    \A c \in Client :
        /\ \A i, j \in Fresh(c) : i < j => queued[c][i].n < queued[c][j].n
        /\ kind # "mpeg" => \A i \in DOMAIN queued[c] : mInitialFrame # 0 /\ queued[c][i].n >= mInitialFrame
        /\ ( /\ c \in mConsumers /\ joining[c] = "in"
             /\ \/ kind = "relay" /\ mInitialFrame # 0 /\ encoderStep \notin {"copy", "distribute"}
                \/ kind = "h264" /\ c \notin early )
           => \E i \in DOMAIN queued[c] : queued[c][i].n = mInitialFrame /\ queued[c][i].whole

-----------------------------------------------------------------------------
(* The inductive invariant behind StreamsStartWell *)

HandSteps == {"scan", "copy", "distribute"}
CodedFrame == [n : Nat, units : Units]
ClientFrame == [n : Nat, again : BOOLEAN, whole : BOOLEAN]

InitialTyped ==
    /\ kind \in {"relay", "h264", "mpeg"} /\ encoderFrames \in Nat /\ outputs \in Nat /\ mInitialFrame \in Nat
    /\ encoderQueue \in Seq(CodedFrame) /\ inHand \in CodedFrame /\ mSps \in BOOLEAN
    /\ encoderStep \in HandSteps \cup {"start", "take", "encode", "ended", "fatal"}
    /\ mConsumers \subseteq Client /\ early \subseteq Client
    /\ joining \in [Client -> {"out", "look", "in"}] /\ queued \in [Client -> Seq(ClientFrame)]

\* Where the loop is says what there is of the initial frame, which is chosen once.
StepsOfInitial ==
    /\ encoderStep = "scan" => mInitialFrame = 0
    /\ encoderStep = "copy" => mInitialFrame = inHand.n
    /\ encoderStep \in HandSteps => inHand.n > 0
    /\ encoderStep = "distribute" /\ kind # "mpeg" => mInitialFrame > 0 /\ inHand.n >= mInitialFrame
    /\ kind = "relay" => encoderStep # "encode"
    /\ kind = "mpeg" => mInitialFrame = 0 /\ encoderStep \notin {"scan", "copy"}

\* Frames arrive and pictures come out in order: what is in hand is younger than what was sent.
HandIsNext ==
    /\ kind = "relay" => mInitialFrame <= encoderFrames
    /\ kind # "relay" => mInitialFrame <= outputs
    /\ encoderStep \in HandSteps =>
           /\ kind = "relay" => inHand.n <= encoderFrames
           /\ kind # "relay" => inHand.n = outputs
QueueIsNext == \A i \in DOMAIN encoderQueue :
    /\ encoderQueue[i].n \in 1 .. encoderFrames
    /\ kind = "relay" =>
           /\ mInitialFrame < encoderQueue[i].n
           /\ encoderStep \in HandSteps => inHand.n < encoderQueue[i].n
           /\ \A c \in Client : \A j \in DOMAIN queued[c] : queued[c][j].n < encoderQueue[i].n

\* A client's frames: those of the queue are older than what is in hand, the others the initial one.
SentBefore == \A c \in Client : \A j \in DOMAIN queued[c] : LET f == queued[c][j] IN
    /\ kind = "relay" => f.n <= encoderFrames
    /\ f.again => f.n = mInitialFrame
    /\ ~f.again => /\ kind # "relay" => f.n <= outputs
                   /\ encoderStep \in HandSteps => f.n < inHand.n
SentInOrder == \A c \in Client : \A i, j \in Fresh(c) : i < j => queued[c][i].n < queued[c][j].n
SentFromInitial == kind # "mpeg" => \A c \in Client : \A i \in DOMAIN queued[c] :
    mInitialFrame > 0 /\ queued[c][i].n >= mInitialFrame

HasInitial(c) == \E i \in DOMAIN queued[c] : queued[c][i].n = mInitialFrame /\ queued[c][i].whole

\* Whoever does not have the initial frame is about to get it.
RelayGives == \A c \in mConsumers : kind = "relay" /\ joining[c] = "in" /\ mInitialFrame > 0 =>
    HasInitial(c) \/ encoderStep = "copy" \/ (encoderStep = "distribute" /\ inHand.n = mInitialFrame)
EncoderGives == \A c \in Client : kind = "h264" /\ joining[c] # "out" /\ c \notin early =>
    mInitialFrame > 0 /\ encoderStep # "copy" /\ (joining[c] = "in" => HasInitial(c))

\* The inductive invariant (ozH264Relay.cpp:104-111, 240-247; ozH264Encoder.cpp:308-316).
InitialInv ==
    /\ InitialTyped /\ StepsOfInitial /\ HandIsNext /\ QueueIsNext /\ SentBefore /\ SentInOrder /\ SentFromInitial
    /\ RelayGives /\ EncoderGives
=============================================================================
