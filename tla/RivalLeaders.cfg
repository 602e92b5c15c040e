CONSTANTS
  c1 = c1
  c2 = c2
  None = None
  Client <- TwoClients
  Kinds <- Puts
  TakesSnapshots = FALSE
  N = 2
  MaxCalls = 1
  MaxFailures = 0
  MaxTimeouts = 1
  MaxElections = 1
  MaxIndex = 2
SPECIFICATION Spec
CHECK_DEADLOCK FALSE
SYMMETRY Symmetry
INVARIANTS
  TableIsReplay
  AckedIsExecuted
  WaitersHaveTheirOwnQueue
  ServerInv
  ReplayInv
PROPERTIES
  PutsTakeEffectOnce
