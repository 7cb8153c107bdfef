CONSTANTS
  Callers = {c1, c2}
  NumWorkers = 3
  MaxTotal = 4
  Totals = {1, 4}
  Caps = {2}
  Priorities = {}
  Panics = {TRUE, FALSE}
  DecodeCap = 2
  None = None
SPECIFICATION Spec
INVARIANTS NoUseAfterReturn OneCoordinator SlotAccounted NoLostWakeup CompletionAccounted
PROPERTIES ImplementsParallelFor
CHECK_DEADLOCK FALSE
