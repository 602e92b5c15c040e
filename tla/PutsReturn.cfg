CONSTANTS
  c1 = c1
  c2 = c2
  None = None
  Client <- OneClient
  Kinds <- PutsAndGets
  TakesSnapshots = FALSE
  N = 2
  MaxCalls = 3
  MaxFailures = 0
  MaxTimeouts = 1
  MaxElections = 0
  MaxIndex = 4
SPECIFICATION FairSpec
CHECK_DEADLOCK FALSE
INVARIANTS
  ReadYourWrites
PROPERTIES
  PutsReturn
