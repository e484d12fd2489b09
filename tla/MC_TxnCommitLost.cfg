CONSTANTS
    Keys <- MCKeys
    Values <- MCValues
    Writers <- MCOneWriter
    Txns <- MCOneWriter
    Tomb = Tomb
    None = None
    Junk = Junk
    NoHolder = NoHolder
    k1 = k1
    k2 = k2
    v1 = v1
    v2 = v2
    w1 = w1
    w2 = w2
    FlushThreshold = 3
    MaxOps = 0
    MaxTxnOps = 1
    MaxCrashes = 1
SPECIFICATION TxnSpec
PROPERTY RecoveryRestoresAcked
CHECK_DEADLOCK FALSE
