------------------------------ MODULE MCServing ------------------------------
(***************************************************************************)
(* The machines between a client and an encoder, checked in one run:       *)
(* `part' names the one that steps, the others stay in one initial state.  *)
(***************************************************************************)
EXTENDS
    EncoderPool, MCReception, ClientServing, RtspPackets, RtmpDelivery,
    RtpSequence, ByteBuffer, AmfRecords

VARIABLE part

allVars == << part, vars, receptionVars, servingVars, packetVars, deliveryVars, sequenceVars, bufferVars, amfVars >>

\* All clients speak one protocol.
TheKinds == { [c \in Client |-> p] : p \in {"HTTP", "RTSP", "RTMP"} }

\* NAL units: short ones of zeros, ones and twos that hold no start code and do not end
\* in a zero, and longer ones.
Units(n) ==
    { s \in [1 .. n -> 0 .. 2] :
        /\ s[1] # 0 /\ s[n] # 0
        /\ \A i \in 1 .. n - 2 : ~(s[i] = 0 /\ s[i + 1] = 0) }

SomeUnits == UNION { Units(n) : n \in 1 .. 3 } \cup { [i \in 1 .. n |-> i] : n \in 4 .. 9 }

Code3 == << 0, 0, 1 >>
Code4 == << 0, 0, 0, 1 >>

TheFrames ==
    { Code4 \o u : u \in Units(5) } \cup
    { Code4 \o u \o c \o v : c \in {Code3, Code4}, u, v \in SomeUnits }

\* A source report without clients, compounds with a SDES in front, a BYE: pt, words, count, known.
Rtcp(pt, words, count, known) == [pt |-> pt, words |-> words, count |-> count, known |-> known]

TheCompounds ==
    { << Rtcp("SR", 7, 0, TRUE) >>, << Rtcp("SDES", 4, 1, TRUE), Rtcp("RR", 3, 1, FALSE) >>,
      << Rtcp("SDES", 5, 1, TRUE), Rtcp("BYE", 2, 1, TRUE) >>, << Rtcp("BYE", 2, 1, TRUE) >> }

TheStrings == {<< >>, << 1 >>, << 2, 3 >>}

\* Values, objects with one or two fields of which the second may be an object, and arrays: the
\* names and texts hold the bytes that mark ends.
Simple == { Value(NUMBER, 9), Value(BOOLEAN_, 1), Value(NULL, 0), Value(STRING_, << >>), Value(STRING_, << 0, 9 >>) }
Names == {<< >>, << 0 >>, << 1, 9 >>, << 9 >>}
OneField == { << Field(n, s) >> : n \in Names, s \in Simple }
TwoFields ==
    { << Field(n, s), Field(<< 1 >>, Value(OBJECT, o)) >> : n \in Names, s \in Simple, o \in OneField \cup {<< >>} }
Values ==
    Simple \cup { Value(OBJECT, o) : o \in OneField \cup TwoFields \cup {<< >>} } \cup { Value(ARRAY, o) : o \in OneField }

TheMessages == { << m >> : m \in Values } \cup { << m, w >> : m \in Simple, w \in Values \ Simple }

MCInit ==
    /\ part \in {"pool", "reception", "serving", "packets", "delivery", "sequence", "buffer", "amf"}
    /\ part # "reception" => protocol = "HTTP" /\ sent = Text(1)
    /\ part # "serving" => kind = [c \in Client |-> "HTTP"] /\ source = "PROV_WAIT"
    /\ part # "packets" => frame = Code4 \o << 1 >> \o Code3 \o << 1 >> /\ isH264 = TRUE /\ align = 0
    /\ part # "buffer" => buf = NewBuffer(<< >>) /\ contents = << >>
    /\ part # "amf" => message = << Value(NULL, 0) >>
    /\ Init /\ ReceptionInit /\ ServingInit /\ DeliveryInit
    /\ SequenceInit /\ BufferInit /\ AmfInit /\ PacketInit

MCNext ==
    \/ part = "pool" /\ Next /\ UNCHANGED << part, receptionVars, servingVars, packetVars, deliveryVars, sequenceVars, bufferVars, amfVars >>
    \/ part = "reception" /\ ReceptionNext /\ UNCHANGED << part, vars, servingVars, packetVars, deliveryVars, sequenceVars, bufferVars, amfVars >>
    \/ part = "serving" /\ ServingNext /\ UNCHANGED << part, vars, receptionVars, packetVars, deliveryVars, sequenceVars, bufferVars, amfVars >>
    \/ part = "packets" /\ PacketNext /\ UNCHANGED << part, vars, receptionVars, servingVars, deliveryVars, sequenceVars, bufferVars, amfVars >>
    \/ part = "delivery" /\ DeliveryNext /\ UNCHANGED << part, vars, receptionVars, servingVars, packetVars, sequenceVars, bufferVars, amfVars >>
    \/ part = "sequence" /\ SequenceNext /\ UNCHANGED << part, vars, receptionVars, servingVars, packetVars, deliveryVars, bufferVars, amfVars >>
    \/ part = "buffer" /\ BufferNext /\ UNCHANGED << part, vars, receptionVars, servingVars, packetVars, deliveryVars, sequenceVars, amfVars >>
    \/ part = "amf" /\ AmfNext /\ UNCHANGED << part, vars, receptionVars, servingVars, packetVars, deliveryVars, sequenceVars, bufferVars >>

Pool(A) == part = "pool" /\ A /\ UNCHANGED << part, receptionVars, servingVars, packetVars, deliveryVars, sequenceVars, bufferVars, amfVars >>
Serving(A) == part = "serving" /\ A /\ UNCHANGED << part, vars, receptionVars, packetVars, deliveryVars, sequenceVars, bufferVars, amfVars >>

\* FairSpec of EncoderPool and ServingSpec of ClientServing.
MCSpec ==
    /\ MCInit /\ [][MCNext]_allVars
    /\ \A s \in Stream : WF_allVars(Pool(Connect(s)))
    /\ \A e \in Encoder :
           /\ WF_allVars(Pool(EncoderStep(e)))
           /\ WF_allVars(Pool(QueueFrame(e)))
           /\ WF_allVars(Pool(TimePasses(e)))
    /\ WF_allVars(Serving(ListenerStep))
    /\ \A t \in Threads : WF_allVars(Serving(ThreadStep(t)))
=============================================================================
