CONSTANTS
  ALIGNMENT = 2
  PAGE = 4
  Pages = {1, 2}
  Slack = {0}
  Ids = {0, 1}
  OpSizes <- OddSizes
  MaxLen = 3
  Headers <- WrongHeaders
  NumTraces = 1
  Reps = 2
  RunLibc = FALSE
  TraceFiles <- MCTraceFiles
  Fresh <- Empty
  mm_init <- AnyInit
  mm_malloc <- AnyMalloc
  mm_free <- AnyFree
  memset <- NoAccess
  mem_reset <- Unmapped
  Mapped <- MappedPages
  Held <- HeldAddresses
  Aborted <- Never
SPECIFICATION FairSpec
INVARIANTS
  OnlyContainmentMissed
  IndicesInRange
  ScoreSound
PROPERTIES
  AcceptedIsMapped
  Terminates
