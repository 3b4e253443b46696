\* A scan moves right from a node that is being written.
CONSTANTS
    Workers = {1, 2, 3}
    Loader = 0
    Keys <- MCKeys
    LevelOf <- MCLevelOf
    MAX_LEVEL = 3
    B = 2
    NodeCnt = 12
    Plans <- MCPlans
    ScanLen = 3
    NoNode = NoNode
    NoThread = NoThread
    NoCall = NoCall
SPECIFICATION Spec
INVARIANTS
    ScanComplete
