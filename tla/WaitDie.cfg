SPECIFICATION FairSpec
CONSTANTS
    Threads = {t1, t2, t3}
    Rows = {r1, r2}
    r1 = r1
    r2 = r2
    CC_ALG = "WAIT_DIE"
    Queries <- WriterQueries
    InitVal = InitVal
    NoVal = NoVal
    AbortBufferEnable = TRUE
    AbortBufferSize = 1
    MaxTxn = 1
INVARIANTS
    WaitDieOrder
    NoDeadlock
PROPERTIES
    Serializable
    Termination
