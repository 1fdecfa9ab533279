SPECIFICATION LinkedSpec
CONSTANTS
    NULL = NULL
    Pointer = {p1, p2, p3, p4}
    Splicer = {s1, s2}
CHECK_DEADLOCK FALSE
INVARIANT FreedUnreferenced
