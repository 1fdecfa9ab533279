SPECIFICATION Spec
CONSTANTS
    Provider = {p1}
    WaitCount = 0
CHECK_DEADLOCK FALSE
INVARIANT FalseMeansProblem
