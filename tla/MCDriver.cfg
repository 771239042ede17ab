CONSTANTS
  ALIGNMENT = 4
  PAGE = 4
  Pages = {1, 2, 4, 5, 7, 8}
  Slack = {0}
  Ids = {0, 1}
  OpSizes = {1, 5}
  MaxLen = 3
  Headers <- RightHeader
  NumTraces = 1
  Reps = 2
  RunLibc = TRUE
  TraceFiles <- MCTraceFiles
  Fresh <- Empty
  mm_init <- TrustedInit
  mm_malloc <- TrustedMalloc
  mm_free <- TrustedFree
  memset <- NoAccess
  mem_reset <- Unmapped
  Mapped <- MappedPages
  Held <- HeldAddresses
  Aborted <- Never
SPECIFICATION Spec
INVARIANTS
  TypeOK
  NoFalseAlarm
  RangesExact
  FreesHeld
  UtilSound
  StartsEmpty
  LibcLeaksExact
