\* The claim of try_gc's comment, with threads that exit.
CONSTANTS
    Threads = {t1, t2, t3}
    Nodes = {n1}
    EBR_GC_THRESHOLD = 1
    EBR_MAX_THREADS = 3
    MaxEpoch = 2
    MaxSyncEpoch = 0
    MaxSyncs = 0
    NoThread = NoThread
    NoSlot = NoSlot
SPECIFICATION Spec
SYMMETRY Symmetry
INVARIANTS
    NoUseAfterFree
