SPECIFICATION FairSpec
CONSTANTS
    None = None
    src = src  filter = filter  delay = delay  enc = enc  lim = lim  out = out
    Node <- Chain
    ProviderOf <- ChainProvider
    Kind <- ChainKind
    mSkip = {}
    Stoppable <- OnlySource
    MaxQueueSize = 2
    MaxFrames = 2
CHECK_DEADLOCK FALSE
PROPERTIES RelaysFrames EndCascades
