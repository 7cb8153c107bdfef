CONSTANT MaxTokens = 8
SPECIFICATION Spec
INVARIANTS OrderlyIfDisciplined WellClosed JsonAgrees
CHECK_DEADLOCK FALSE
