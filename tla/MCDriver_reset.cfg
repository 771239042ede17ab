CONSTANTS
  ALIGNMENT = 2
  PAGE = 4
  Pages = {1, 2}
  Slack = {0}
  Ids = {0}
  OpSizes = {0, 2}
  MaxLen = 2
  Headers <- RightHeader
  NumTraces = 2
  Reps = 1
  RunLibc = FALSE
  TraceFiles <- MCTraceFiles
  Fresh <- Empty
  mm_init <- TrustedInit
  mm_malloc <- TrustedMalloc
  mm_free <- TrustedFree
  memset <- NoAccess
  mem_reset <- Unmapped
  Mapped <- MappedPages
  Held <- HeldAddresses
  Aborted <- Never
SPECIFICATION Spec
INVARIANT StartsEmpty
