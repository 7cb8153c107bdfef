CONSTANTS
  Models <- MCModels
  Spelling <- MCSpelling
  MaxTokens = 4
  MaxToolIterations = 1
  MinPat = 1
  MaxPat = 2
  Reps = 3
  MaxTurns = 2
  None = None
SPECIFICATION Spec
INVARIANTS CacheIsConversation PrintedOnce ThinkBounded ToolsAnswered
CHECK_DEADLOCK FALSE
