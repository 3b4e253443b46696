SPECIFICATION Spec
CONSTANTS
    Threads = {t1, t2, t3}
    Rows = {r1, r2}
    r1 = r1
    r2 = r2
    CC_ALG = "DL_DETECT"
    Queries <- CrossingQueries
    InitVal = InitVal
    NoVal = NoVal
    AbortBufferEnable = TRUE
    AbortBufferSize = 1
    MaxTxn = 1
INVARIANTS
    TypeOK
    LockExclusion
    LocksMatchAccesses
    NoLostWakeup
    AbortBufferHasRoom
PROPERTY Serializable
SYMMETRY Symmetry
