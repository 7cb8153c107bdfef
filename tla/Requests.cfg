CONSTANTS
  Requests = {r1, r2}
  Embeds = {e1, e2}
  MaxClients = 2
  Threads = {t1, t2}
  MaxConcurrent = 1
  Capacity = 1
  MaxReports = 1
  MaxSteps = 1
  SessionDir = TRUE
  None = None
SPECIFICATION FairSpec
INVARIANTS PermitsConserved OwnProgress
PROPERTIES StreamConcluded EveryoneAnswered
CHECK_DEADLOCK FALSE
