SPECIFICATION MCSpec
CONSTANTS
    None = None
    Stream = {s1, s2}
    Encoder = {e1, e2}
    Dialogues <- TheDialogues
    mRxChunkSize = 2
    HandshakeSize = 2
    Client = {a, b}
    Kinds <- TheKinds
    MaxStreams = 2
    MaxSessions = 1
    DataPort = {8000}
    Frames <- TheFrames
    OZ_RTP_MAX_PACKET_SIZE = 4
    Alignments = {0, 1, 2, 3}
    NumberMod = 4
    Player = {1, 2}
    Small = 1
    Large = 2
    Lengths = {1, 3}
    InitialFrames = 2
    MaxMessages = 3
    OZ_RTP_SEQ_MOD = 6
    MAX_DROPOUT = 3
    MAX_MISORDER = 2
    Word = 6144
    Garbage = 6143
    FirstNumbers = {2}
    Jumps = {3}
    MaxNumber = 8
    MaxFlight = 2
    Compounds <- TheCompounds
    Strings <- TheStrings
    MaxAllocation = 5
    Messages <- TheMessages
INVARIANTS
    PoolInv ReceivedAsSent ResourcesAreOfClients FrameIsInPackets ClientUnderstands BufferIsQueue MessageDecoded
PROPERTIES
    UnusedEncoderEnds ListenerServes SequenceHolds
CHECK_DEADLOCK FALSE
