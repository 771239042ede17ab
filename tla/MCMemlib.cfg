CONSTANTS
  MaxPage = 4
  Runs <- MCRuns
  MaxCalls = 3
SPECIFICATION FairSpec
INVARIANTS
  TypeOK
  ListExact
  MapExact
PROPERTIES
  ImplementsSupply
  Returns
