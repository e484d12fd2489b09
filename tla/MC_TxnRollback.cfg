CONSTANTS
    Keys <- MCKeys
    Values <- MCValues
    Writers <- MCOneWriter
    Txns <- MCOneWriter
    Tomb = Tomb
    None = None
    Junk = Junk
    NoHolder = NoHolder
    k1 = k1
    k2 = k2
    v1 = v1
    v2 = v2
    w1 = w1
    w2 = w2
    FlushThreshold = 2
    MaxOps = 0
    MaxTxnOps = 2
    MaxCrashes = 0
SPECIFICATION TxnSpec
PROPERTY RollbackRestoresPrior
CHECK_DEADLOCK FALSE
