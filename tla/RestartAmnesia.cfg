\* A restarted node votes again in a term it voted in.
CONSTANTS
  s1 = s1
  s2 = s2
  s3 = s3
  Server = {s1, s2, s3}
  a = a
  Command = {a}
  Nil = Nil
  Leader = s1
  Behind = s3
  MaxTerm = 1
  MaxIndex = 0
  MaxRounds = 0
  MaxRestarts = 1
SPECIFICATION CrashSpec
INVARIANTS
  ElectionSafety
CHECK_DEADLOCK FALSE
