\* A stale suffix lets a leader commit what no majority has.
CONSTANTS
  F = F
  L = L
  N = N
  Server = {F, L, N}
  Command = {a}
  Nil = Nil
  MaxTerm = 5
  MaxIndex = 3
  MaxRounds = 2
  MaxRestarts = 0
SPECIFICATION ScriptSpec
INVARIANT CommittedIsReplicated
CHECK_DEADLOCK FALSE
