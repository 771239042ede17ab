CONSTANTS
  PAGE = 192
  MaxPage = 4
  WORD = 1000
  Ids = {0, 1, 2}
  NumTraces = 2
  Reps = 2
  RunLibc = TRUE
  TraceFiles <- MCTraceFiles
SPECIFICATION Spec
INVARIANTS
  BlamedForEmptyOnly
  DataKept
PROPERTIES
  ImplementsContract
