CONSTANTS
    Keys <- MCKeys
    Values <- MCValues
    Writers <- MCOneWriter
    ThreadCounts <- MCThreadCounts
    Tomb = Tomb
    None = None
    Junk = Junk
    NoHolder = NoHolder
    k1 = k1
    k2 = k2
    v1 = v1
    v2 = v2
    w1 = w1
    FlushThreshold = 1
    MaxOps = 3
    MaxCrashes = 0
    Now = 1
    MaxCompactions = 1
SPECIFICATION CompactSpec
PROPERTY CompactionPreservesReads
CHECK_DEADLOCK FALSE
