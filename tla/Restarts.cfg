\* Two nodes trade the leadership, two heartbeat rounds overlap; the second node ends
\* and starts again.
CONSTANTS
  s1 = s1
  s2 = s2
  Server = {s1, s2}
  a = a
  Command = {a}
  Nil = Nil
  Leader = s1
  Behind = s2
  MaxTerm = 2
  MaxIndex = 3
  MaxRounds = 2
  MaxRestarts = 1
SPECIFICATION OneCrashSpec
INVARIANTS
  TypeOK
  IndexInv
  ReplicationInv
  NoIndexThrow
  AckedIsHeld
  Durable
CHECK_DEADLOCK FALSE
