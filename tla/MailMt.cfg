SPECIFICATION FairSpec
CONSTANTS
  d = d
  d2 = d2
  u = u
  s = s
  NULL = NULL
  Jobs = {d, u, s}
  Class <- MCClass
  Info <- MCInfo
  Cancelable = {d, s}
  MaxActors = 3
  Callers = {d}
  Events = {e1}
  DestroyPending = FALSE
  PoolSize = 1
ACTION_CONSTRAINT Bound
CHECK_DEADLOCK FALSE
INVARIANTS QueueServed NoUseAfterFree NoLostActivity
PROPERTIES CallsReturn WaitEnds DestroyReturns
