\* Three threads that register, exit and reuse slots; exits at epochs 0 and 1
\* may collect, and a call of ebr_sync goes from epoch 0 or 1 to 3 or 4.
CONSTANTS
    Threads = {t1, t2, t3}
    Nodes = {n1}
    EBR_GC_THRESHOLD = 1
    EBR_MAX_THREADS = 3
    MaxEpoch = 2
    MaxSyncEpoch = 1
    MaxSyncs = 1
    NoThread = NoThread
    NoSlot = NoSlot
SPECIFICATION Spec
CONSTRAINT SyncBesideOne
SYMMETRY Symmetry
INVARIANTS
    ReclaimSafe
    OwnSlot
    EveryNodeOnce
PROPERTIES
    SyncFreesAll
