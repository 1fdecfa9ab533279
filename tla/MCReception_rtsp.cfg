SPECIFICATION ReceptionSpec
CONSTANTS
    Dialogues <- TheDialogues
    mRxChunkSize = 2
    HandshakeSize = 2
CHECK_DEADLOCK FALSE
INVARIANT RequestsAssembled
