SPECIFICATION MCSpec
CONSTANTS
    Provider = {p1, p2, p3}
    WaitCount = 0
    Chains <- MCChains
    Pictures <- MCPictures
    Target <- MCTarget
    MaxFrames = 2
    Zone = {1, 2}
    Level = {0, 100}
    mRefBlend = 2
    mVarBlend = 4
    mBlendAlarmedImages = FALSE
    MaxScenes = 1
INVARIANTS WatchInv FramesFit
PROPERTIES LoopEnds ChainEnds AlarmsHold AlarmEnds
CHECK_DEADLOCK FALSE
