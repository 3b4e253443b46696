SPECIFICATION Spec
CONSTANTS
    Threads = {t1, t2, t3}
    Rows = {1, 2}
    WordCnt = 2
    Queries <- WarmQueries
    InitVal = InitVal
    NoVal = NoVal
    MaxTxn = 5
    RtsLen = 2
    Settings <- BothSettings
INVARIANTS
    WholeCopies
    Serializable
PROPERTY LeaseCutOnRetry
CONSTRAINT AfterWarmUp
SYMMETRY Symmetry
