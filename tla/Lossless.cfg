CONSTANTS
    SinkCount = 1
    RecentWindow = 1
    HysteresisDiv = 3
    HysteresisMax = 2
    ConvLCache = 2
    Tokens = {1, 2, 3}
    Prompt <- APrompt
    MaxTokens = 3
    Certain = 4
    Setups <- SameOdds
SPECIFICATION SampledSpec
INVARIANT Lossless
CHECK_DEADLOCK FALSE
