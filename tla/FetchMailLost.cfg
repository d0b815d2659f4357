SPECIFICATION Spec
CONSTANTS
  Messages = 2
  Limit = 2
  Ahead = 1
  MaxCrashes = 0
  Faults = {"append"}
INVARIANTS NoMailLost
