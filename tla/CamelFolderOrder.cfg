SPECIFICATION Spec
CONSTANTS
  Threads = {t1, t2}
  Session = session
  Uids = {m1, m2}
  NoJob = NoJob
  Filters = TRUE
  Hides = TRUE
  Races = {}
  MaxChanges = 3
INVARIANT ListFollowsFolder
SYMMETRY Symmetry
