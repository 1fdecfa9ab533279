SPECIFICATION MCSpec
CONSTANTS
    Recorder = {r1, r2}
    MAX_EVENT_HEAD_AGE = 1
    MAX_EVENT_TAIL_AGE = 1
    mMinTime = 1
    MaxTime = 5
    MaxQueue = 1
    MAX_CLIP_TAIL_AGE = 1
    MaxClipTime = 3
    MaxSeen = 5
    MaxClipQueue = 1
    Latencies = {0, 1, 2}
    mMaxLength = 3
    StoreSize = 2
    MaxMovieFrames = 6
    MaxMovieQueue = 3
    Client = {c1, c2}
    Kinds = {"relay", "h264", "mpeg"}
    MaxEncoderFrames = 3
    MaxEncoderQueue = 2
    p1 = p1  p2 = p2
    Source = {p1, p2}
    SizeOf <- MCSizeOf
    Empty = Empty
    mTilesX = 2
    mTilesY = 2
    TileWidth = 2
    TileHeight = 2
    ChromaLog = 1
    MaxComings = 4
SYMMETRY RecorderSymmetry
CHECK_DEADLOCK FALSE
INVARIANTS EventsAreWhole StreamsStartWell FilesHoldTheirFrames GroupsAreKept TilesShowTheirProviders
PROPERTY ClosesAfterTail
