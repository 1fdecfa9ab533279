SPECIFICATION Spec
CONSTANTS
    Recorder = {r1, r2}
    MAX_EVENT_HEAD_AGE = 1
    MAX_EVENT_TAIL_AGE = 1
    mMinTime = 0
    MaxTime = 6
    MaxQueue = 1
CHECK_DEADLOCK FALSE
INVARIANT ClosesInTime
