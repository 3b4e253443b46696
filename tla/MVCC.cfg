\* Four transactions in all, and a history of one version that grows.
CONSTANTS
    t0 = t0
    t1 = t1
    t2 = t2
    Threads = {t0, t1, t2}
    Thread0 = t0
    Rows = {1, 2}
    Setups <- MCSetups
    HisLen = 1
    TsWrap = 1000
    NoBuf = NoBuf
    NoTs = 999
    MaxTxn = 4
SPECIFICATION Spec
SYMMETRY Symmetry
INVARIANTS
    Serializable
    WaitsForOlder
    HistorySound
    FindsCorrectVersion
