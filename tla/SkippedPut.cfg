CONSTANTS
  c1 = c1
  c2 = c2
  None = None
  Client <- OneClient
  Kinds <- PutsAndGets
  TakesSnapshots = FALSE
  N = 2
  MaxCalls = 2
  MaxFailures = 1
  MaxTimeouts = 0
  MaxElections = 0
  MaxIndex = 2
SPECIFICATION Spec
CHECK_DEADLOCK FALSE
INVARIANT EveryPutIsExecuted
