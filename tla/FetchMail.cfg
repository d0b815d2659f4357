SPECIFICATION FairSpec
CONSTANTS
  Messages = 3
  Limit = 2
  Ahead = 2
  MaxCrashes = 1
  Faults = {}
INVARIANTS CachedIsOwn NoMailLost FiledOnce SendWindow
PROPERTIES FetchEnds
