SPECIFICATION FairSpec
CONSTANTS
    None = None
    src = src  filter = filter  delay = delay  enc = enc  lim = lim  out = out
    Node <- Short
    ProviderOf <- ShortProvider
    Kind <- ShortKind
    mSkip = {}
    Stoppable <- OnlySource
    MaxQueueSize = 2
    MaxFrames = 1
CHECK_DEADLOCK FALSE
PROPERTY PipelineTerminates
