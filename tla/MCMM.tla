-------------------------------- MODULE MCMM --------------------------------
(***************************************************************************)
(* Small instances of MM.  A client's data is granules that look like the  *)
(* header of a free block, a footer and list links at once.                *)
(***************************************************************************)
EXTENDS MM

\* One page, up to four blocks of three sizes: splitting and merging.
BlockSizes == {0, 16, 17, 33}
\* A chunk of one page holds one block, a chunk of two pages two.
ChunkSizes == {0, 16, 96}

HeaderLike == {<<3, 0>>}
=============================================================================
