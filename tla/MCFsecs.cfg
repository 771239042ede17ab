CONSTANTS
  K = 2
  MaxSamples = 3
  EpsPercent = 10
  W = 8
  NEVENT = 2
  THRESHOLD = 3
  RECORDTHRESH = 2
  Runs = 2
  SECOND = 8
  MAX_ETIME = 14
  Works = {10, 11, 14}
  COST = 4
  Starts = {0, 7, 62}
SPECIFICATION FairSpec
INVARIANTS
  TypeOK
  SamplingExact
  TimeExact
PROPERTIES
  CompensatedWithin
  Returns
