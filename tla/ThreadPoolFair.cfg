CONSTANTS
  Callers = {c1, c2, c3}
  NumWorkers = 2
  MaxTotal = 2
  Totals = {2}
  Caps = {2}
  Priorities = {0, 12}
  Panics = {FALSE}
  DecodeCap = 0
  None = None
SPECIFICATION FairSpec
PROPERTIES NoOvertaking TopPriorityCallsReturn DropEnds
CHECK_DEADLOCK FALSE
