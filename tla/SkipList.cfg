\* Three keys and three levels; every order of the operations.
CONSTANTS
  K = 3
  Value = {a, b}
  Default = a
  MaxLevel = 3
  Null = Null
SPECIFICATION Spec
INVARIANTS
  TypeOK
  LevelsAreSublists
  SizeIsExact
PROPERTIES
  IsTable
