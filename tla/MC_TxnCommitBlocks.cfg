CONSTANTS
    Keys <- MCKeys
    Values <- MCValues
    Writers <- MCTwoWriters
    Txns <- MCTwoWriters
    Tomb = Tomb
    None = None
    Junk = Junk
    NoHolder = NoHolder
    k1 = k1
    k2 = k2
    v1 = v1
    v2 = v2
    w1 = w1
    w2 = w2
    FlushThreshold = 1
    MaxOps = 0
    MaxTxnOps = 0
    MaxCrashes = 0
SPECIFICATION TxnSpec
PROPERTY CommitReturns
CHECK_DEADLOCK FALSE
