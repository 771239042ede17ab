------------------------------- MODULE Words -------------------------------
(***************************************************************************)
(* The functions of mm.c at the level of the words they read and write:    *)
(* block headers and footers, the links of the free list stored in the     *)
(* payload of the free blocks, and the page headers that chain the mapped  *)
(* chunks.                                                                 *)
(*                                                                         *)
(* Memory maps every granule to its two words.  A free block's header is   *)
(* at h, its links at bp = h + HDRSIZE, its footer in its last granule:    *)
(*                                                                         *)
(*   h            header   <<size, allocated>>                             *)
(*   h + HDRSIZE  links    <<prev, next>>     (client data when allocated) *)
(*   ...                                                                   *)
(*   h + size - 1 footer   <<size, padding>>                               *)
(*                                                                         *)
(* The operators carry the names of the functions; they map a heap (what   *)
(* mm.c and the pages it mapped hold) to the heap after the call.  A load  *)
(* or a store outside the mapped pages, and a call of abort(), crash the   *)
(* heap.  mmap and munmap do not fail.                                     *)
(***************************************************************************)
EXTENDS Layout, Sequences, SequencesExt, FiniteSets

NULL == 0

(* mmap hands out pages full of zeros. *)
Zero == <<0, 0>>

EmptyHeap ==
  [mem            |-> [a \in Granule |-> Zero],
   mapped         |-> {},
   free_list_head |-> NULL,
   page_list_head |-> NULL,
   crashed        |-> FALSE]

-----------------------------------------------------------------------------
(* Loads and stores.  Reads(H, A) is heap H after loads from the granules  *)
(* A; where a function stores to what it loaded, the store will do.        *)
Crash(H) == [H EXCEPT !.crashed = TRUE]

Load(H, a)  == IF a \in H.mapped THEN H.mem[a] ELSE Zero
Reads(H, A) == IF A \subseteq H.mapped THEN H ELSE Crash(H)

Store(H, a, w) == IF a \in H.mapped THEN [H EXCEPT !.mem[a] = w] ELSE Crash(H)

Store1(H, a, w) == Store(H, a, <<w, Load(H, a)[2]>>)
Store2(H, a, w) == Store(H, a, <<Load(H, a)[1], w>>)

BLOCK_SIZE(H, h)     == Load(H, h)[1]
GET_ALLOC(H, h)      == Load(H, h)[2]
SET_SIZE(H, h, n)    == Store1(H, h, n)
SET_ALLOC(H, h)      == Store2(H, h, 1)
SET_FREE(H, h)       == Store2(H, h, 0)
FREE_PREV_PTR(H, bp) == Load(H, bp)[1]
FREE_NEXT_PTR(H, bp) == Load(H, bp)[2]

(* A page header takes two granules. *)
prev_chunk(H, pc) == Load(H, pc)[1]
next_chunk(H, pc) == Load(H, pc)[2]
page_size(H, pc)  == Load(H, pc + 1)[1]
page_end(H, pc)   == Load(H, pc + 1)[2]

(* The addresses met on the list that starts at head, next(a) following a. *)
(* A walk of more steps than there are granules is on a cycle.             *)
Longest == PAGE * (MaxPage + 1)

Chain(head, next(_)) ==
  LET walk[n \in Nat] ==
        [a \in Nat |-> IF a = NULL \/ n = 0 THEN <<>> ELSE <<a>> \o walk[n - 1][next(a)]]
  IN  walk[Longest][head]

FreeList(H) == Chain(H.free_list_head, LAMBDA bp : FREE_NEXT_PTR(H, bp))
PageList(H) == Chain(H.page_list_head, LAMBDA pc : next_chunk(H, pc))

(* The nodes a search of list visits that ends at index hit; 0 is no hit.  *)
Visited(list, hit) == {list[i] : i \in {j \in DOMAIN list : hit = 0 \/ j <= hit}}

-----------------------------------------------------------------------------
(* The chunk whose blocks contain address a, or NULL; the page headers     *)
(* read to find it.                                                        *)
chunk_index(H, a) ==
  SelectInSeq(PageList(H), LAMBDA pc : pc + PAGEHDRSIZE <= a /\ a < page_end(H, pc))

find_page_chunk_for_addr(H, a) ==
  LET hit == chunk_index(H, a)
  IN  IF hit = 0 THEN NULL ELSE PageList(H)[hit]

ReadToFind(H, a) ==
  {pc + i : pc \in Visited(PageList(H), chunk_index(H, a)), i \in {0, 1}}

(* granules lo .. lo+n-1 lie behind the page header of chunk pc *)
Within(H, pc, lo, n) == pc + PAGEHDRSIZE <= lo /\ lo + n <= page_end(H, pc)

write_footer(H, h) ==
  LET f  == h + BLOCK_SIZE(H, h) - FDRSIZE
      pc == find_page_chunk_for_addr(H, h)
      R  == Reads(H, {h} \cup ReadToFind(H, h))
  IN  IF pc # NULL /\ ~ Within(H, pc, f, FDRSIZE)
      THEN Crash(R)
      ELSE Store1(R, f, BLOCK_SIZE(H, h))

get_prev_block(H, h) ==
  LET pc        == find_page_chunk_for_addr(H, h)
      prev_f    == h - FDRSIZE
      prev_size == Load(H, prev_f)[1]
  IN  IF /\ pc # NULL
         /\ Within(H, pc, prev_f, FDRSIZE)
         /\ prev_size >= HDRSIZE + FDRSIZE
         /\ prev_size <= page_end(H, pc) - (pc + PAGEHDRSIZE)
         /\ Within(H, pc, h - prev_size, HDRSIZE)
      THEN h - prev_size ELSE NULL

(* Mutant: no test that the next block is still in the chunk. *)
get_next_block_Unbounded(H, h) == h + BLOCK_SIZE(H, h)

get_next_block(H, h) ==
  LET pc     == find_page_chunk_for_addr(H, h)
      next_h == h + BLOCK_SIZE(H, h)
  IN  IF /\ pc # NULL
         /\ Within(H, pc, next_h - FDRSIZE, FDRSIZE)
         /\ Within(H, pc, next_h, HDRSIZE)
      THEN next_h ELSE NULL

insert_free_block(H, bp) ==
  LET head == H.free_list_head
      H1 == Store(H, bp, <<NULL, head>>)
      H2 == IF head # NULL THEN Store1(H1, head, bp) ELSE H1
  IN  [H2 EXCEPT !.free_list_head = bp]

(* Mutant: the next block keeps its prev link. *)
remove_free_block_OneWay(H, bp) ==
  LET prev == FREE_PREV_PTR(H, bp)
      next == FREE_NEXT_PTR(H, bp)
      H1 == IF prev # NULL THEN Store2(H, prev, next)
            ELSE [H EXCEPT !.free_list_head = next]
  IN  Store(H1, bp, <<NULL, NULL>>)

remove_free_block(H, bp) ==
  LET prev == FREE_PREV_PTR(H, bp)
      next == FREE_NEXT_PTR(H, bp)
      H1 == IF prev # NULL THEN Store2(H, prev, next)
            ELSE [H EXCEPT !.free_list_head = next]
      H2 == IF next # NULL THEN Store1(H1, next, prev) ELSE H1
  IN  Store(H2, bp, <<NULL, NULL>>)

(* Mutant: the tags are not counted. *)
find_fit_PayloadOnly(H, asize) ==
  LET fit == SelectInSeq(FreeList(H),
        LAMBDA bp : BLOCK_SIZE(H, bp - HDRSIZE) >= asize)
  IN  IF fit = 0 THEN NULL ELSE FreeList(H)[fit]

(* First fit; the headers and links read to find it. *)
fit_index(H, asize) ==
  SelectInSeq(FreeList(H),
    LAMBDA bp : /\ GET_ALLOC(H, bp - HDRSIZE) = 0
                /\ BLOCK_SIZE(H, bp - HDRSIZE) >= Tagged(asize))

find_fit(H, asize) ==
  LET fit == fit_index(H, asize)
  IN  IF fit = 0 THEN NULL ELSE FreeList(H)[fit]

ReadToFit(H, asize) ==
  {bp - i : bp \in Visited(FreeList(H), fit_index(H, asize)), i \in {0, HDRSIZE}}

split_block(H, h, asize) ==
  LET alloc_size == Tagged(asize)
      remaining  == BLOCK_SIZE(H, h) - alloc_size
      next_h     == h + alloc_size
      A == write_footer(SET_ALLOC(SET_SIZE(H, h, alloc_size), h), h)
      R == write_footer(SET_FREE(SET_SIZE(A, next_h, remaining), next_h), next_h)
  IN  IF Splits(BLOCK_SIZE(H, h), alloc_size)
      THEN insert_free_block(R, next_h + HDRSIZE)
      ELSE write_footer(SET_ALLOC(H, h), h)

(* The granules of set gone go back to the system. *)
Unmap(H, gone) ==
  [H EXCEPT !.mapped = @ \ gone,
            !.mem    = [a \in Granule |-> IF a \in gone THEN Zero ELSE @[a]]]

(* mem_unmap aborts unless it is given whole pages that are mapped. *)
mem_unmap(H, p, n) ==
  IF p % PAGE = 0 /\ n % PAGE = 0 /\ p .. p + n - 1 \subseteq H.mapped
  THEN Unmap(H, p .. p + n - 1) ELSE Crash(H)

(* Mutant: only the block of the full chunk is unmapped. *)
unmap_if_full_Block(H, pc) ==
  LET h  == pc + PAGEHDRSIZE
      H1 == [remove_free_block(H, h + HDRSIZE) EXCEPT !.page_list_head = next_chunk(H, pc)]
  IN  IF GET_ALLOC(H, h) = 0 /\ BLOCK_SIZE(H, h) = page_size(H, pc) - PAGEHDRSIZE
      THEN mem_unmap(H1, h, BLOCK_SIZE(H, h))
      ELSE H

(* What the loop of check_and_unmap_full_pages does to chunk pc. *)
unmap_if_full(H, pc) ==
  LET h    == pc + PAGEHDRSIZE
      prev == prev_chunk(H, pc)
      next == next_chunk(H, pc)
      H1 == remove_free_block(H, h + HDRSIZE)
      H2 == IF prev # NULL THEN Store2(H1, prev, next)
            ELSE [H1 EXCEPT !.page_list_head = next]
      H3 == IF next # NULL THEN Store1(H2, next, prev) ELSE H2
  IN  IF GET_ALLOC(H, h) = 0 /\ BLOCK_SIZE(H, h) = page_size(H, pc) - PAGEHDRSIZE
      THEN mem_unmap(H3, pc, page_size(H, pc))
      ELSE H

(* Mutant: the next chunk is read when the chunk is gone. *)
page_turn_ReadsLate(s) ==
  LET H == unmap_if_full(s.heap, s.pc)
  IN  IF s.pc = NULL THEN s
      ELSE [heap |-> Reads(H, {s.pc, s.pc + 1, s.pc + PAGEHDRSIZE}), pc |-> next_chunk(H, s.pc)]

(* A turn of the loop: the next chunk is read before the chunk goes.       *)
page_turn(s) ==
  LET H == Reads(s.heap, {s.pc, s.pc + 1, s.pc + PAGEHDRSIZE})
  IN  IF s.pc = NULL THEN s
      ELSE [heap |-> unmap_if_full(H, s.pc), pc |-> next_chunk(H, s.pc)]

check_and_unmap_full_pages(H) ==
  LET loop[n \in Nat] ==
        IF n = 0 THEN [heap |-> H, pc |-> H.page_list_head] ELSE page_turn(loop[n - 1])
  IN  loop[Longest].heap

(* Mutants: coalesce that does not rewrite the footer, that merges with    *)
(* the next block whether it is free or not, that never merges.            *)
coalesce_NoFooter(H, bp) ==
  LET b      == bp - HDRSIZE
      prev_h == get_prev_block(H, b)
      H1 == IF prev_h # NULL /\ GET_ALLOC(H, prev_h) = 0
            THEN SET_SIZE(remove_free_block(H, prev_h + HDRSIZE), prev_h,
                          BLOCK_SIZE(H, prev_h) + BLOCK_SIZE(H, b))
            ELSE insert_free_block(H, bp)
  IN  check_and_unmap_full_pages(H1)
coalesce_TakesNext(H, bp) ==
  LET b      == bp - HDRSIZE
      next_h == get_next_block(H, b)
      H1 == IF next_h # NULL
            THEN SET_SIZE(remove_free_block(H, next_h + HDRSIZE), b,
                          BLOCK_SIZE(H, b) + BLOCK_SIZE(H, next_h))
            ELSE H
  IN  check_and_unmap_full_pages(insert_free_block(write_footer(H1, b), bp))
coalesce_Never(H, bp) == check_and_unmap_full_pages(insert_free_block(H, bp))

(* What is read to find the neighbours of block b and whether they are free. *)
ReadAround(H, b) ==
  LET pc == find_page_chunk_for_addr(H, b) IN
  {b} \cup ReadToFind(H, b)
      \cup {f \in {b - FDRSIZE} : pc # NULL /\ Within(H, pc, f, FDRSIZE)}
      \cup ({get_prev_block(H, b), get_next_block(H, b)} \ {NULL})

(* Block b is merged with its free neighbours. *)
merge(H, b, prev_h, next_h) ==
  LET prev_free == prev_h # NULL /\ GET_ALLOC(H, prev_h) = 0
      next_free == next_h # NULL /\ GET_ALLOC(H, next_h) = 0
      h  == IF prev_free THEN prev_h ELSE b
      H1 == IF prev_free
            THEN LET R == remove_free_block(H, prev_h + HDRSIZE)
                 IN  SET_SIZE(R, prev_h, BLOCK_SIZE(R, prev_h) + BLOCK_SIZE(R, b))
            ELSE H
      H2 == IF next_free
            THEN LET R == remove_free_block(H1, next_h + HDRSIZE)
                 IN  SET_SIZE(R, h, BLOCK_SIZE(R, h) + BLOCK_SIZE(R, next_h))
            ELSE H1
  IN  check_and_unmap_full_pages(
        insert_free_block(write_footer(H2, h), h + HDRSIZE))

coalesce(H, bp) ==
  LET b == bp - HDRSIZE
  IN  merge(Reads(H, ReadAround(H, b)), b, get_prev_block(H, b), get_next_block(H, b))

-----------------------------------------------------------------------------
(* Where mmap may put n granules, a whole number of pages; it fails for    *)
(* n = 0.                                                                  *)
Regions(H, n) ==
  {p \in {PageStart(k) : k \in 1 .. MaxPage} :
     0 < n /\ p + n <= End /\ (p .. p + n - 1) \cap H.mapped = {}}

(* The heap after the pages at region became a chunk with one free block. *)
NewChunk(H, region, mapsize) ==
  LET head == H.page_list_head
      h  == region + PAGEHDRSIZE
      H0 == [H EXCEPT !.mapped = @ \cup (region .. region + mapsize - 1)]
      H1 == Store(Store(H0, region, <<NULL, head>>),
                  region + 1, <<mapsize, region + mapsize>>)
      H2 == IF head # NULL THEN Store1(H1, head, region) ELSE H1
      H3 == [H2 EXCEPT !.page_list_head = region]
  IN  write_footer(Store(H3, h, <<mapsize - PAGEHDRSIZE, 0>>), h)

(* What mm_malloc may return for sz # 0, with the heap after the call. *)
Malloc(G, sz) ==
  LET asize   == ALIGN(sz)
      H       == Reads(G, ReadToFit(G, asize))
      bp      == find_fit(H, asize)
      payload == PAGEHDRSIZE + HDRSIZE
  IN  IF bp # NULL
      THEN {[p |-> bp, heap |-> split_block(remove_free_block(H, bp), bp - HDRSIZE, asize)]}
      ELSE {[p    |-> region + payload,
             heap |-> split_block(NewChunk(H, region, MapSize(sz)), region + PAGEHDRSIZE, asize)] :
              region \in Regions(H, MapSize(sz))}

Free(H, ptr) ==
  LET h == ptr - HDRSIZE
  IN  IF ptr = NULL THEN H ELSE coalesce(write_footer(SET_FREE(H, h), h), ptr)

InitHeap(H) == [H EXCEPT !.free_list_head = NULL, !.page_list_head = NULL]

(* mem_reset gives back every page of the page map, so its tests succeed;  *)
(* mm.c keeps its list heads.                                              *)
ResetHeap(H) == Unmap(H, Granule)

(* The client fills the granules G of its block with word w. *)
Fill(H, G, w) == [H EXCEPT !.mem = [a \in Granule |-> IF a \in G THEN w ELSE @[a]]]

-----------------------------------------------------------------------------
(* What the words say: the blocks met by stepping from header to header.   *)
Headers(H, pc) ==
  Chain(pc + PAGEHDRSIZE,
        LAMBDA h : IF h + BLOCK_SIZE(H, h) < page_end(H, pc)
                   THEN h + BLOCK_SIZE(H, h) ELSE NULL)

AllHeaders(H) == UNION {ToSet(Headers(H, pc)) : pc \in ToSet(PageList(H))}

BlocksOf(H, alloc) ==
  {<<h, h + BLOCK_SIZE(H, h)>> : h \in {x \in AllHeaders(H) : GET_ALLOC(H, x) = alloc}}

ChunksOf(H) == {<<pc, page_end(H, pc)>> : pc \in ToSet(PageList(H))}

(* A doubly linked list: no address twice, every prev link the inverse of  *)
(* a next link.                                                            *)
DoublyLinked(list, prev(_)) ==
  /\ IsInjective(list)
  /\ \A i \in DOMAIN list : prev(list[i]) = IF i = 1 THEN NULL ELSE list[i - 1]
=============================================================================
