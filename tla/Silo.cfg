SPECIFICATION Spec
CONSTANTS
    Threads = {t1, t2, t3}
    Rows = {1, 2}
    WordCnt = 2
    Queries <- SkewQueries
    InitVal = InitVal
    NoVal = NoVal
    WritesLocal = TRUE
    MaxTxn = 1
    Settings <- BothSettings
INVARIANTS
    LockBits
    TidGrows
    TidNamesVersion
    WholeCopies
    NoLockCycle
    Serializable
    CommittedImages
SYMMETRY Symmetry
