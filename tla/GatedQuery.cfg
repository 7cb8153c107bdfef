SPECIFICATION Spec
CONSTANTS
    TileN = 4
    KGroup = 2
    GroupSize = 4
    MBlock = 2
    RowTile = 2
    Lanes = 2
    Groups = 2
    NormWidth = 8
    NormGroup = 4
    TileM = 2
    FmaLanes = 2
    Channels = 2
    MaxPatches = 5
    MaxWorkers = 3
    Calls <- GatedCalls
INVARIANTS GatedQueriesKept
CHECK_DEADLOCK FALSE
