\* Three transactions at a time, four in all.
CONSTANTS
    Threads = {t1, t2, t3}
    Rows = {1, 2}
    WordCnt = 1
    Queries <- MCQueries
    InitVal = InitVal
    NoVal = NoVal
    NoThread = NoThread
    MaxTxn = 4
SPECIFICATION Spec
SYMMETRY Symmetry
INVARIANTS
    Serializable
    LatchesGivenBack
    NoLatchCycle
PROPERTIES
    WtsGrows
