\* Three threads, two keys that nest, two object addresses.
SPECIFICATION Spec
CONSTANTS
  t1 = t1
  t2 = t2
  t3 = t3
  o1 = o1
  o2 = o2
  k1 = k1
  k2 = k2
  NULL = NULL
  Freed = Freed
  Threads = {t1, t2, t3}
  Objects = {o1, o2}
  Keys <- MCKeys
  Rank <- MCRank
  RenameOntoOpen = FALSE
SYMMETRY Symmetry
INVARIANTS
  ExclusiveBuilder
  TablesInverse
  BoundAreLive
  WaitersKeepReservation
  NoLostWakeup
PROPERTY CacheSpec
