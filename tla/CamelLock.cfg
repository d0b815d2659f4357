SPECIFICATION FairSpec
CONSTANTS
  p1 = p1
  p2 = p2
  t1 = t1
  t2 = t2
  t3 = t3
  NULL = NULL
  Programs = {p1, p2}
  Threads = {t1, t3}
  ProgramOf <- MCProgramOf
  Mails = {"m1", "m2"}
  Retries = 2
  Stale = 2
  MaxCrashes = 2
  Faults = {}
INVARIANTS ExclusiveLock SpoolMailKept
PROPERTIES MailPickedUp
CHECK_DEADLOCK FALSE
