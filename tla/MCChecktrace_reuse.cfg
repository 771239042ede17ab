CONSTANTS
  Ids = {0, 1, 2, 3, 4, 5, 6}
  AnyIds = {0, 1}
  MaxOps = 4
  Files <- MCFiles
SPECIFICATION Spec
INVARIANTS
  ReusedIdDies
CHECK_DEADLOCK FALSE
