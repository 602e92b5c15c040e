CONSTANTS
  c1 = c1
  c2 = c2
  None = None
  Client <- OneClient
  Kinds <- Puts
  TakesSnapshots = TRUE
  N = 2
  MaxCalls = 1
  MaxFailures = 1
  MaxTimeouts = 0
  MaxElections = 1
  MaxIndex = 2
SPECIFICATION Spec
CHECK_DEADLOCK FALSE
INVARIANTS
  TypeOK
  HandedInOrder
