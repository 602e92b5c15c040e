\* Two coroutines on one socket, a timer of the main thread, and stop().
CONSTANTS
  c1 = c1
  c2 = c2
  Coroutine <- TwoCoroutines
  Fd = {f}
  Nil = Nil
  MaxOps <- TwoAndOne
  MaxTimers = 1
SPECIFICATION FairSpec
INVARIANTS
  TypeOK
  OneWaker
  PendingCounted
  NoMissedTimer
  OwnTimeout
  EndIsDrained
PROPERTIES
  StopReturns
CHECK_DEADLOCK FALSE
