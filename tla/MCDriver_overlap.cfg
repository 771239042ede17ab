CONSTANTS
  ALIGNMENT = 2
  PAGE = 4
  Pages = {1, 2}
  Slack = {0}
  Ids = {0, 1}
  OpSizes = {1, 4}
  MaxLen = 2
  Headers <- RightHeader
  NumTraces = 1
  Reps = 1
  RunLibc = FALSE
  TraceFiles <- MCTraceFiles
  Fresh <- Empty
  mm_init <- AnyInit
  mm_malloc <- AnyMalloc
  mm_free <- AnyFree
  memset <- NoAccess
  mem_reset <- Unmapped
  Mapped <- MappedPages
  Held <- HeldAddresses
  Aborted <- Never
SPECIFICATION Spec
INVARIANT AcceptedApart
