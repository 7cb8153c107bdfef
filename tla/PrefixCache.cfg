CONSTANTS
    SinkCount = 1
    RecentWindow = 1
    HysteresisDiv = 3
    HysteresisMax = 2
    ConvLCache = 2
    Procs = {p1, p2}
    Prompts <- MCPrompts
    SystemLen = 1
    MinPrefixLen = 2
    CheckpointInterval = 2
    MaxSize = 4
    ChunkSize = 2
    CacheModels <- DenseModels
    MaxPrefills = 2
SPECIFICATION Spec
INVARIANTS Published RecomputedIfDense
PROPERTIES LongestHit WithinMaxSize
CHECK_DEADLOCK FALSE
SYMMETRY Symmetry
CONSTRAINT Bound
