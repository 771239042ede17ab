--------------------------------- MODULE MM ---------------------------------
(***************************************************************************)
(* mm.c in the hands of any client: the functions of module Words as       *)
(* actions, called in any order, with a client that writes to its blocks.  *)
(***************************************************************************)
EXTENDS Words

CONSTANT Junk   \* words a client writes into its payload

ASSUME MMAssumption == Junk \subseteq Nat \X Nat

VARIABLES
  heap,   \* the allocator's globals, the mapped granules and their words
  live,   \* the client's blocks: payload address -> bytes asked for
  ready   \* FALSE between mem_reset and the next mm_init

vars == <<heap, live, ready>>

Return(H, bp, sz) ==
  /\ heap' = H
  /\ live' = [p \in DOMAIN live \cup {bp} |-> IF p = bp THEN sz ELSE live[p]]
  /\ UNCHANGED ready

(* A request of 0 bytes returns NULL and changes nothing. *)
mm_malloc(sz) ==
  /\ ready /\ sz # 0
  /\ \E r \in Malloc(heap, sz) : Return(r.heap, r.p, sz)

mm_free(ptr) ==
  /\ ready
  /\ heap' = Free(heap, ptr)
  /\ live' = [p \in DOMAIN live \ {ptr} |-> live[p]]
  /\ UNCHANGED ready

mm_init ==
  /\ heap' = InitHeap(heap)
  /\ live' = <<>>
  /\ ready' = TRUE

mem_reset ==
  /\ ready
  /\ heap' = ResetHeap(heap)
  /\ live' = <<>>
  /\ ready' = FALSE

(* The client fills its block with words of its own. *)
Payload(p) == p .. p + ALIGN(live[p]) - 1

client_write(p, w) ==
  /\ heap' = Fill(heap, Payload(p), w)
  /\ UNCHANGED <<live, ready>>

Init == heap = EmptyHeap /\ live = <<>> /\ ready = FALSE

Next ==
  /\ ~ heap.crashed
  /\ \/ \E sz \in Sizes : mm_malloc(sz)
     \/ \E p \in DOMAIN live : mm_free(p)
     \/ \E p \in DOMAIN live, w \in Junk : client_write(p, w)
     \/ mm_init
     \/ mem_reset

Spec == Init /\ [][Next]_vars

-----------------------------------------------------------------------------
Word == Nat

(* The words are numbers, the lists of live blocks are addresses. *)
TypeOK ==
  /\ heap.mem \in [Granule -> Word \X Word]
  /\ heap.mapped \subseteq Granule
  /\ {heap.free_list_head, heap.page_list_head} \subseteq Granule \cup {NULL}
  /\ heap.crashed \in BOOLEAN
  /\ DOMAIN live \subseteq Granule /\ \A p \in DOMAIN live : live[p] \in Sizes
  /\ ready \in BOOLEAN

(* No call ever loads or stores through a pointer that leaves the mapped   *)
(* pages (a link of an unmapped chunk, a footer address computed from a    *)
(* bad size), or trips the abort of write_footer or one of mem_unmap's,    *)
(* which asks for whole pages that are mapped: whatever clients left in    *)
(* the payloads the words are carved from.                                 *)
NoCrash == ~ heap.crashed

(* Boundary tags: stepping from header to header through a chunk ends      *)
(* exactly at its end, and every block carries its size in both tags, so   *)
(* that get_prev_block and get_next_block find the true neighbours even    *)
(* though stale tags and client data lie in between.                       *)
TagsAgree ==
  ready => \A pc \in ToSet(PageList(heap)) :
    LET hs == Headers(heap, pc) IN
    /\ Last(hs) + BLOCK_SIZE(heap, Last(hs)) = page_end(heap, pc)
    /\ \A h \in ToSet(hs) :
         LET n == BLOCK_SIZE(heap, h) IN
         /\ n >= HDRSIZE + 1 + FDRSIZE
         /\ Load(heap, h + n - FDRSIZE)[1] = n
         /\ GET_ALLOC(heap, h) \in {0, 1}

(* The free list is a doubly linked list of exactly the free blocks: none  *)
(* is lost or left dangling by splitting, merging or unmapping.            *)
FreeListExact ==
  ready => /\ DoublyLinked(FreeList(heap), LAMBDA bp : FREE_PREV_PTR(heap, bp))
           /\ ToSet(FreeList(heap)) = {b[1] + HDRSIZE : b \in BlocksOf(heap, 0)}

(* The page list is doubly linked, its chunks are mapped, and each records *)
(* its own extent; unlinking a chunk while the list is walked keeps it so. *)
PageListExact ==
  ready => /\ DoublyLinked(PageList(heap), LAMBDA pc : prev_chunk(heap, pc))
           /\ \A pc \in ToSet(PageList(heap)) :
                /\ page_end(heap, pc) = pc + page_size(heap, pc)
                /\ pc .. page_end(heap, pc) - 1 \subseteq heap.mapped

(* The blocks the client holds are the blocks marked allocated, each with  *)
(* room for the bytes asked for between its tags.                          *)
LiveIsAllocated ==
  ready => /\ DOMAIN live = {b[1] + HDRSIZE : b \in BlocksOf(heap, 1)}
           /\ \A p \in DOMAIN live :
                live[p] <= ALIGNMENT *
                  (BLOCK_SIZE(heap, p - HDRSIZE) - HDRSIZE - FDRSIZE)

(* The blocks are what tags and client take them for, whichever way they   *)
(* were split and merged.                                                  *)
BlocksExact == TagsAgree /\ LiveIsAllocated

(* Both lists hold what they should, and nothing was ever loaded or stored *)
(* through a link that dangles.                                            *)
LinksExact == NoCrash /\ FreeListExact /\ PageListExact

(* No call to the allocator changes the contents of a block the client     *)
(* holds: while other blocks are split, merged, linked and unmapped, a     *)
(* payload changes only when its owner writes to it.                       *)
PayloadKept ==
  [][\A p \in DOMAIN live \cap DOMAIN live' :
        \/ \A a \in Payload(p) : heap'.mem[a] = heap.mem[a]
        \/ \E w \in Junk : client_write(p, w)]_vars

(* The words implement the interval algorithm: every call of mm.c is one   *)
(* of its steps, with first fit as the choice among the blocks that fit.   *)
Held(S) == IF ready THEN S ELSE {}

BH == INSTANCE BlockHeap WITH
        chunks <- Held(ChunksOf(heap)),
        free   <- Held(BlocksOf(heap, 0)),
        used   <- Held(BlocksOf(heap, 1)),
        leaked <- Held(heap.mapped \
                       UNION {c[1] .. c[2] - 1 : c \in ChunksOf(heap)})

ImplementsBlockHeap == BH!Spec
=============================================================================
