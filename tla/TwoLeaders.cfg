\* A second leader overwrites what the first one logged.
CONSTANTS
  s1 = s1
  s2 = s2
  s3 = s3
  Server = {s1, s2, s3}
  a = a
  b = b
  Command = {a, b}
  Nil = Nil
  Leader = s1
  Behind = s3
  MaxTerm = 2
  MaxIndex = 2
  MaxRounds = 1
  MaxRestarts = 0
SPECIFICATION ElectedSpec
INVARIANTS
  ElectionSafety
  ElectionInv
  SameEntry
  EntriesInv
  CommitIsHeld
PROPERTIES
  NothingTakenBack
CHECK_DEADLOCK FALSE
