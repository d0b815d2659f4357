SPECIFICATION Spec
CONSTANTS
  p1 = p1
  p2 = p2
  t1 = t1
  t2 = t2
  t3 = t3
  NULL = NULL
  Programs = {p1}
  Threads = {t1, t2}
  ProgramOf <- MCProgramOf
  Mails = {"m1", "m2"}
  Retries = 2
  Stale = 2
  MaxCrashes = 0
  Faults = {"again"}
INVARIANT UnlockedInTheEnd
CHECK_DEADLOCK FALSE
