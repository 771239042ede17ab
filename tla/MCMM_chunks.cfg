CONSTANTS
  PAGE = 8
  WORD = 64
  MaxPage = 3
  Sizes <- ChunkSizes
  Junk <- HeaderLike
SPECIFICATION Spec
INVARIANTS
  LinksExact
PROPERTIES
  ImplementsBlockHeap
