CONSTANTS
  PAGE = 12
  WORD = 64
  MaxPage = 3
  Sizes <- MCSizes
SPECIFICATION Spec
INVARIANTS
  BlocksApart
  NoIdleChunk
  Inv
PROPERTY ImplementsMalloc
