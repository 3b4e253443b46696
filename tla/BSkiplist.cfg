\* Three calls at a time on lists of up to three levels.
CONSTANTS
    Workers = {1, 2, 3}
    Loader = 0
    Keys <- MCKeys
    LevelOf <- MCLevelOf
    MAX_LEVEL = 3
    B = 2
    NodeCnt = 12
    Plans <- MCPlans
    ScanLen = 3
    NoNode = NoNode
    NoThread = NoThread
    NoCall = NoCall
SPECIFICATION Spec
INVARIANTS
    NoLockLeft
    InOrder
    RetiredUnreachable
    ScanCompleteUntorn
    ScanAscending
    ScanLeafLive
    Linearizable
PROPERTY WritesExclusive
