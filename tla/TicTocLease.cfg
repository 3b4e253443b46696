SPECIFICATION Spec
CONSTANTS
    Threads = {t1, t2, t3}
    Rows = {1, 2, 3}
    WordCnt = 1
    Queries <- PlayQueries
    InitVal = InitVal
    NoVal = NoVal
    MaxTxn = 7
    RtsLen = 2
    Settings <- OnlySettings
CONSTRAINT ByThePlay
INVARIANT SerializableInSomeOrder
SYMMETRY Symmetry
