CONSTANTS
  PAGE = 15
  WORD = 64
  MaxPage = 1
  Sizes <- BlockSizes
  Junk <- HeaderLike
SPECIFICATION Spec
INVARIANTS
  TypeOK
  BlocksExact
  LinksExact
PROPERTIES
  PayloadKept
  ImplementsBlockHeap
