----------------------------- MODULE BlockHeap -----------------------------
(***************************************************************************)
(* The allocator of mm.c as an algorithm on intervals of addresses.        *)
(*                                                                         *)
(* A chunk is a run of pages obtained with one mem_map; behind its page    *)
(* header the chunk is cut into blocks, each either free or used.  Every   *)
(* interval is a pair <<lo, hi>> that stands for the granules lo .. hi-1.  *)
(*                                                                         *)
(* Three things of mm.c are abstracted here and kept in module MM: the     *)
(* words that encode the blocks (headers, footers, list links), the two    *)
(* linked lists, and the order in which find_fit meets the free blocks, so *)
(* that what holds here holds for every placement policy.                  *)
(***************************************************************************)
EXTENDS Layout

VARIABLES
  chunks,  \* the chunks on the page list
  free,    \* the free blocks
  used,    \* the allocated blocks
  leaked   \* granules still mapped that no page list reaches any more

vars == <<chunks, free, used, leaked>>

-----------------------------------------------------------------------------
Blocks == free \cup used

Fits(n) == {b \in free : Size(b) >= n}

(* Where mmap may put a region of n granules: any free run of pages. *)
Regions(n) ==
  {c \in {<<PageStart(k), PageStart(k) + n>> : k \in 1 .. MaxPage} :
     /\ c[2] <= End
     /\ Cells(c) \cap leaked = {}
     /\ \A d \in chunks : Apart(c, d)}

-----------------------------------------------------------------------------
Init == /\ chunks = {}
        /\ free = {}
        /\ used = {}
        /\ leaked = {}

(* mm_malloc when find_fit succeeds. *)
MallocFit(sz) ==
  LET n == TotalSize(sz) IN
  \E b \in Fits(n) :
    /\ used' = used \cup {Taken(b, n)}
    /\ free' = (free \ {b}) \cup Rest(b, n)
    /\ UNCHANGED <<chunks, leaked>>

(* mm_malloc when no free block fits: one new chunk serves the request. *)
MallocMap(sz) ==
  LET n == TotalSize(sz) IN
  /\ Fits(n) = {}
  /\ \E c \in Regions(MapSize(sz)) :
       /\ chunks' = chunks \cup {c}
       /\ used' = used \cup {Taken(Usable(c), n)}
       /\ free' = free \cup Rest(Usable(c), n)
       /\ UNCHANGED leaked

mm_malloc(sz) == sz # 0 /\ (MallocFit(sz) \/ MallocMap(sz))

(* Mutants: coalesce that forgets the next block, and one that leaves the  *)
(* previous block on the free list.                                        *)
coalesce_PrevOnly(b) ==
  (free \ Below(free, b)) \cup {<<Merged(free, b)[1], b[2]>>}
coalesce_KeepsPrev(b) ==
  (free \ Above(free, b)) \cup {Merged(free, b)}

(* The free blocks after block b was freed and merged with its neighbours. *)
coalesce(b) ==
  (free \ (Below(free, b) \cup Above(free, b))) \cup {Merged(free, b)}

(* Mutants: the test for a full page without the comparison of the sizes,  *)
(* and one that never succeeds for a chunk of several pages.               *)
FullPages_AnySize(F)  == {c \in chunks : \E b \in F : b[1] = Usable(c)[1]}
FullPages_OnePage(F)  == {c \in chunks : Usable(c) \in F /\ Size(c) = PAGE}

(* The chunks that the free blocks F leave without an allocated block. *)
FullPages(F) == {c \in chunks : Usable(c) \in F}

mm_free(b) ==
  LET F == coalesce(b) IN
  /\ used' = used \ {b}
  /\ free' = F \ {Usable(c) : c \in FullPages(F)}
  /\ chunks' = chunks \ FullPages(F)
  /\ UNCHANGED leaked

(* mm_init forgets both lists; what was mapped stays mapped. *)
mm_init ==
  /\ chunks' = {} /\ free' = {} /\ used' = {}
  /\ leaked' = leaked \cup UNION {Cells(c) : c \in chunks}

(* mem_reset unmaps every page, whoever holds it. *)
mem_reset ==
  /\ chunks' = {} /\ free' = {} /\ used' = {}
  /\ leaked' = {}

Next ==
  \/ \E sz \in Sizes : mm_malloc(sz)
  \/ \E b \in used : mm_free(b)
  \/ mm_init
  \/ mem_reset

Spec == Init /\ [][Next]_vars

-----------------------------------------------------------------------------
(* Every chunk and every block is a non-empty interval of the address      *)
(* space: no step of mm_malloc or coalesce computes an empty or inverted   *)
(* block, or one past the last page.                                       *)
TypeOK ==
  /\ chunks \subseteq Interval
  /\ free \subseteq Interval
  /\ used \subseteq Interval
  /\ leaked \subseteq Granule

(* Chunks never overlap each other or a leaked page. *)
ChunksApart ==
  /\ \A c, d \in chunks : c = d \/ Apart(c, d)
  /\ \A c \in chunks : Cells(c) \cap leaked = {}

(* A chunk has room for its page header and one block. *)
ChunksRoomy == \A c \in chunks : Usable(c)[1] < c[2]

(* Every block lies behind the page header of one chunk and has room for a *)
(* header, a payload granule (the free-list links) and a footer.           *)
BlocksInChunks ==
  \A b \in Blocks : /\ Size(b) >= HDRSIZE + 1 + FDRSIZE
                    /\ \E c \in chunks : Inside(b, Usable(c))

(* Across every order of mallocs and frees no two blocks share a granule,  *)
(* and no block is both on the free list and held by the client: the       *)
(* client's payloads never overlap each other or a block the allocator may *)
(* hand out or write list links into.                                      *)
BlocksApart ==
  /\ free \cap used = {}
  /\ \A a, b \in Blocks : a = b \/ Apart(a, b)

(* The blocks tile their chunk without a hole: one starts right behind the *)
(* page header, and where a block ends another one starts or the chunk     *)
(* ends.  get_prev_block and get_next_block step from block to block by    *)
(* adding sizes and rely on it after any sequence of splits and merges.    *)
Tiled ==
  /\ \A c \in chunks : \E b \in Blocks : b[1] = Usable(c)[1]
  /\ \A b \in Blocks : \/ \E a \in Blocks : a[1] = b[2]
                       \/ \E c \in chunks : c[2] = b[2]

(* Coalescing is immediate and complete: mm_free merges on both sides and  *)
(* mm_malloc puts a remainder only where no free block follows, so two     *)
(* free blocks never touch.                                                *)
NoAdjacentFree == \A a, b \in free : a[2] # b[1]

(* mm_free has just given back every chunk that one free block fills. *)
NoFullPage == \A c \in chunks : Usable(c) \notin free

(* A chunk is given back to the system as soon as its last allocated block *)
(* is freed, in whatever order its blocks were freed: the allocator never  *)
(* holds a chunk without an allocated block (check_and_unmap_full_pages    *)
(* only compares the first block's size with the page's).                  *)
NoIdleChunk ==
  \A c \in chunks : \E b \in used : Inside(b, Usable(c))

(* The inductive invariant. *)
Inv ==
  /\ TypeOK
  /\ ChunksApart
  /\ ChunksRoomy
  /\ BlocksInChunks
  /\ BlocksApart
  /\ Tiled
  /\ NoAdjacentFree
  /\ NoFullPage

-----------------------------------------------------------------------------
(* The client sees the granules between the tags of its blocks. *)
Payload(b) == <<b[1] + HDRSIZE, b[2] - FDRSIZE>>

Contract == INSTANCE Malloc WITH
              Bytes  <- ALIGNMENT,
              live   <- {Payload(b) : b \in used},
              mapped <- leaked \cup UNION {Cells(c) : c \in chunks}

(* The algorithm keeps the contract of malloc and free: payloads are large *)
(* enough and never overlap, freeing one unmaps no memory under another,   *)
(* and serving a request unmaps nothing.                                   *)
ImplementsMalloc == Contract!Spec
=============================================================================
