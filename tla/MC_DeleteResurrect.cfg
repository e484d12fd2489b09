CONSTANTS
    Keys <- MCKeys
    Values <- MCValues
    Tomb = Tomb
    None = None
    Junk = Junk
    NoHolder = NoHolder
    k1 = k1
    k2 = k2
    v1 = v1
    v2 = v2
    w1 = w1
    w2 = w2
    Writers <- MCOneWriter
    FlushThreshold = 1
    MaxOps = 4
    MaxCrashes = 0
SPECIFICATION Spec
INVARIANT DeleteHidesOldValue
CHECK_DEADLOCK FALSE
