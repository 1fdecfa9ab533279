SPECIFICATION Spec
CONSTANTS
    None = None
    src = src  filter = filter  delay = delay  enc = enc  lim = lim  out = out
    Node <- Fork
    ProviderOf <- ForkProvider
    Kind <- ForkKind
    mSkip = {}
    Stoppable <- OnlySource
    MaxQueueSize = 1
    MaxFrames = 2
CHECK_DEADLOCK FALSE
INVARIANT FramesPassOn
