\* Two threads that open, one that deletes and renames.
SPECIFICATION StoreFairSpec
CONSTANTS
  t1 = t1
  t2 = t2
  t3 = t3
  o1 = o1
  o2 = o2
  o3 = o3
  o4 = o4
  inbox = inbox
  sent = sent
  trash = trash
  NULL = NULL
  Freed = Freed
  Threads = {t1, t2, t3}
  Objects = {o1, o2, o3, o4}
  Keys <- MCKeys
  Rank <- MCRank
  RenameOntoOpen = FALSE
  Trash = trash
  Opens <- MCOpens
  Deletes <- MCDeletes
  Renames <- MCRenames
  Races = {}
INVARIANTS
  TrashComplete
  CachedHasMailbox
  NoStandstill
PROPERTIES
  WaitersDrain
  ReservationMovesOn
