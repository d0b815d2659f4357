SPECIFICATION FairSpec
CONSTANTS
  x = x
  y = y
  get = get
  append = append
  refresh = refresh
  store = store
  fetch = fetch
  Jobs = {store, append, refresh}
  Async = {fetch}
  Folders = {x, y}
  NULL = NULL
  Kind <- MCKind
  FolderOf <- MCFolderOf
  Pri <- MCPri
  Parts <- MCParts
  MAX_COMMANDS = 2
  Faults = {}
  Growing = {y}
INVARIANTS
  CommandRunsInItsFolder
  SelectionAgrees
  WireInStep
  AnsweredWhenDone
PROPERTY JobsAnswered
CHECK_DEADLOCK FALSE
