SPECIFICATION NetSpec
CONSTANTS
  t1 = t1
  t2 = t2
  NULL = NULL
  Threads = {t1, t2}
  PipeOf <- MCPipeOf
  MaxQueue = 2
INVARIANTS
  PipesInStep
  UncancelSilences
  LookupsMeet
PROPERTIES
  CancelWakesDescriptor
  LookupsEnd
