CONSTANTS
  Ids = {0, 1, 2, 3, 4, 5, 6}
  AnyIds = {0, 1, 2}
  MaxOps = 6
  Files <- MCFiles
SPECIFICATION Spec
INVARIANTS
  TypeOK
  ReadsRight
  PrintsRight
  GeneratedAccepted
CHECK_DEADLOCK FALSE
