SPECIFICATION Spec
CONSTANTS
    Networks <- MCModels
    Tokens = {1, 2}
    Prompts <- MCPrompts
    ConvLCache = 2
    SlidingPeriod = 2
    MaxPos = 4
    MaxChunk = 2
    MaxText = 5
    MaxFolded = 4
INVARIANTS ImplementsKvCache RowsFromScratch
