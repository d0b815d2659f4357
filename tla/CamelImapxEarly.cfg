SPECIFICATION Spec
CONSTANTS
  x = x
  y = y
  get = get
  append = append
  refresh = refresh
  store = store
  fetch = fetch
  Jobs = {store}
  Async = {fetch}
  Folders = {x, y}
  NULL = NULL
  Kind <- MCKind
  FolderOf <- MCFolderOf
  Pri <- MCPri
  Parts <- TwoStores
  MAX_COMMANDS = 2
  Faults = {"earlyAnswer"}
  Growing = {y}
INVARIANT AnsweredWhenDone
CHECK_DEADLOCK FALSE
