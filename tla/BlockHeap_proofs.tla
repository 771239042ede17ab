-------------------------- MODULE BlockHeap_proofs --------------------------
(***************************************************************************)
(* Proofs about BlockHeap, for every page size, every address space and    *)
(* every set of request sizes.                                             *)
(*                                                                         *)
(* The argument is one about tilings.  Tiling(C, B) says that the blocks B *)
(* tile the chunks C behind their page headers.  Each operation of mm.c is *)
(* a sequence of four elementary steps that preserve it: cut a block       *)
(* (split_block), join two neighbours (coalesce), add a chunk with one     *)
(* block (mem_map in mm_malloc), drop chunks of one block                  *)
(* (check_and_unmap_full_pages).  There is a lemma for each.               *)
(***************************************************************************)
EXTENDS BlockHeap, Structures

USE DEF ALIGNMENT, HDRSIZE, FDRSIZE, PAGEHDRSIZE, MIN_BLOCK_SIZE

(* The payload of a block holds the request, and a mapped chunk holds the  *)
(* page header and the block: no sum leaves the range of size_t.           *)
LEMMA SizesSuffice ==
  ASSUME NEW sz \in Sizes, sz # 0
  PROVE  /\ ALIGN(sz) \in Nat /\ ALIGN(sz) >= 1 /\ ALIGN(sz) * ALIGNMENT >= sz
         /\ TotalSize(sz) \in Nat /\ TotalSize(sz) >= 3
         /\ TotalSize(sz) = ALIGN(sz) + 2
         /\ MapSize(sz) \in Nat /\ MapSize(sz) >= TotalSize(sz) + PAGEHDRSIZE
<1> DEFINE a == (sz + 15) \div 16
<1>1. /\ sz \in Nat \ {0} /\ PAGE \in Nat \ {0} /\ WORD \in Nat
      /\ sz + 16 * (4 + PAGE) <= 16 * WORD
  BY LayoutAssumption
<1>2. /\ a \in Nat /\ a >= 1 /\ a * 16 >= sz /\ a + 4 + PAGE <= WORD
      /\ sz + 15 \in Nat /\ sz + 15 < 16 * WORD /\ 16 * WORD \in Nat
  BY <1>1
<1>3. ALIGN(sz) = a
  <2>1. (sz + 15) % (16 * WORD) = sz + 15
    BY <1>2, NoWrap
  <2> QED
    BY <2>1 DEF ALIGN
<1> HIDE DEF a
<1>4. TotalSize(sz) = a + 2
  <2>1. (1 + a + 1) % WORD = 1 + a + 1
    BY <1>1, <1>2, NoWrap
  <2> QED
    BY <2>1, <1>2, <1>3 DEF TotalSize, Tagged
<1> DEFINE n == a + 4
<1>5. n \in Nat
  BY <1>2
<1>6. MapSize(sz) = ((n + PAGE - 1) \div PAGE) * PAGE
  <2>1. (a + 2 + 2 + PAGE - 1) % WORD = a + 2 + 2 + PAGE - 1
    BY <1>1, <1>2, NoWrap
  <2>2. a + 2 + 2 + PAGE - 1 = n + PAGE - 1
    BY <1>1, <1>2
  <2> QED
    BY <2>1, <2>2, <1>4 DEF MapSize
<1> HIDE DEF n
<1>7. (n + PAGE - 1) \div PAGE \in Nat /\ ((n + PAGE - 1) \div PAGE) * PAGE >= n
  BY <1>1, <1>5, RoundUp
<1>8. MapSize(sz) \in Nat
  BY <1>1, <1>6, <1>7
<1> QED
  BY <1>2, <1>3, <1>4, <1>6, <1>7, <1>8 DEF n

(* The address space, without the product in the definition of End. *)
LEMMA IntervalMembers ==
  /\ PAGE \in Nat \ {0} /\ End \in Int
  /\ \A i : i \in Interval <=> /\ i \in Int \X Int
                              /\ PAGE <= i[1] /\ i[1] < i[2] /\ i[2] <= End
<1>1. PAGE \in Nat \ {0} /\ MaxPage \in Nat
  BY LayoutAssumption
<1>2. End \in Int /\ End >= PAGE
  <2>1. (MaxPage + 1) * PAGE = MaxPage * PAGE + PAGE /\ MaxPage * PAGE \in Nat
    BY <1>1
  <2> QED
    BY <2>1, <1>1 DEF End, PageStart
<1>3. Granule = PAGE .. End - 1
  BY DEF Granule, End, PageStart
<1> QED
  BY <1>1, <1>2, <1>3 DEF Interval

(* A region mmap returns lies in the address space, apart from all chunks. *)
LEMMA RegionFits ==
  ASSUME NEW n \in Nat, n >= 5, NEW c \in Regions(n)
  PROVE  /\ c \in Interval /\ c[2] - c[1] = n
         /\ Cells(c) \cap leaked = {}
         /\ \A d \in chunks : Apart(c, d)
<1>1. PICK k \in 1 .. MaxPage : c = <<PageStart(k), PageStart(k) + n>>
  BY DEF Regions
<1>2. k \in Nat /\ k >= 1 /\ PAGE \in Nat \ {0}
  BY LayoutAssumption
<1>3. k * PAGE \in Nat /\ k * PAGE >= PAGE
  <2>1. k * PAGE = (k - 1) * PAGE + PAGE /\ (k - 1) * PAGE \in Nat
    BY <1>2
  <2> QED
    BY <2>1, <1>2
<1>4. /\ c \in Int \X Int /\ c[1] >= PAGE /\ c[2] = c[1] + n
      /\ c[1] < c[2] /\ c[2] <= End
  BY <1>1, <1>3, <1>2 DEF PageStart, Regions, End
<1>5. c \in Interval
  BY <1>4, IntervalMembers
<1> QED
  BY <1>4, <1>5 DEF Regions

-----------------------------------------------------------------------------
(* The invariant, of any chunks C, free blocks F, used blocks U and leaked *)
(* granules L.                                                             *)
Sound(C, F, U, L) ==
  /\ C \subseteq Interval
  /\ WellTiled(C, F, U)
  /\ L \subseteq Granule
  /\ \A c \in C : Cells(c) \cap L = {}
  /\ \A c \in C : Usable(c) \notin F

(* The blocks of a tiling are intervals of the address space.              *)
LEMMA BlocksInSpace ==
  ASSUME NEW C \in SUBSET Interval, NEW B, Tiling(C, B)
  PROVE  B \subseteq Interval
<1> SUFFICES ASSUME NEW b \in B PROVE b \in Interval
  OBVIOUS
<1>1. PICK c \in C : c[1] + PAGEHDRSIZE <= b[1] /\ b[2] <= c[2]
  BY DEF Tiling, Placed
<1>2. /\ b \in Int \X Int /\ b[1] \in Int /\ b[2] \in Int /\ b[2] - b[1] >= 3
      /\ c[1] \in Int /\ c[2] \in Int
  BY DEF Tiling, Placed, ChunkSet
<1>3. PAGE <= c[1] /\ c[2] <= End
  BY IntervalMembers
<1> QED
  BY <1>1, <1>2, <1>3, IntervalMembers

(* The invariant of the state is the one of its four sets; the proof only  *)
(* regroups the conjuncts, so it serves for the primed state too.          *)
LEMMA Regroup ==
  ASSUME NEW C, NEW B, C \cup B \subseteq Interval
  PROVE  Tiling(C, B) <=>
           /\ \A c, d \in C : c = d \/ Apart(c, d)
           /\ \A c \in C : Usable(c)[1] < c[2]
           /\ \A b \in B : /\ Size(b) >= HDRSIZE + 1 + FDRSIZE
                           /\ \E c \in C : Inside(b, Usable(c))
           /\ \A a, b \in B : a = b \/ Apart(a, b)
           /\ \A c \in C : \E b \in B : b[1] = Usable(c)[1]
           /\ \A b \in B : (\E a \in B : a[1] = b[2]) \/ (\E c \in C : c[2] = b[2])
<1>1. C \subseteq Int \X Int /\ B \subseteq Int \X Int
  BY IntervalMembers
<1> QED
  BY <1>1 DEF Tiling, ChunkSet, Placed, Separate, Cover, Usable, Inside, Size

(* The invariant as a predicate on the values of the variables.            *)
LEMMA InvIsSound == Inv <=> Sound(chunks, free, used, leaked)
<1>1. Inv => chunks \cup free \cup used \subseteq Interval
  BY DEF Inv, TypeOK
<1>2. Sound(chunks, free, used, leaked) => chunks \cup free \cup used \subseteq Interval
  BY BlocksInSpace DEF Sound, WellTiled
<1>3. CASE chunks \cup free \cup used \subseteq Interval
  <2>0. chunks \cup Blocks \subseteq Interval
    BY <1>3 DEF Blocks
  <2>1. Tiling(chunks, Blocks) <=>
           /\ \A c, d \in chunks : c = d \/ Apart(c, d)
           /\ ChunksRoomy /\ BlocksInChunks /\ Tiled
           /\ \A a, b \in Blocks : a = b \/ Apart(a, b)
    BY <2>0, Regroup, ZenonT(60) DEF ChunksRoomy, BlocksInChunks, Tiled
  <2>2. (TypeOK /\ NoAdjacentFree /\ NoFullPage) <=>
           /\ leaked \subseteq Granule
           /\ \A a, b \in free : a[2] # b[1]
           /\ \A c \in chunks : Usable(c) \notin free
    BY <1>3 DEF TypeOK, NoAdjacentFree, NoFullPage
  <2> QED
    BY <1>3, <2>1, <2>2 DEF Sound, WellTiled, Inv, ChunksApart, BlocksApart, Blocks
<1> QED
  BY <1>1, <1>2, <1>3

(* The same for the values after a step.                                   *)
LEMMA NextIsSound == Inv' <=> Sound(chunks', free', used', leaked')
<1>1. Inv' => chunks' \cup free' \cup used' \subseteq Interval
  BY DEF Inv, TypeOK
<1>2. Sound(chunks', free', used', leaked') => chunks' \cup free' \cup used' \subseteq Interval
  BY BlocksInSpace DEF Sound, WellTiled
<1>3. CASE chunks' \cup free' \cup used' \subseteq Interval
  <2>0. chunks' \cup Blocks' \subseteq Interval
    BY <1>3 DEF Blocks
  <2>1. Tiling(chunks', Blocks') <=>
           /\ \A c, d \in chunks' : c = d \/ Apart(c, d)
           /\ ChunksRoomy' /\ BlocksInChunks' /\ Tiled'
           /\ \A a, b \in Blocks' : a = b \/ Apart(a, b)
    BY <2>0, Regroup, ZenonT(60) DEF ChunksRoomy, BlocksInChunks, Tiled
  <2>2. (TypeOK' /\ NoAdjacentFree' /\ NoFullPage') <=>
           /\ leaked' \subseteq Granule
           /\ \A a, b \in free' : a[2] # b[1]
           /\ \A c \in chunks' : Usable(c) \notin free'
    BY <1>3 DEF TypeOK, NoAdjacentFree, NoFullPage
  <2> QED
    BY <1>3, <2>1, <2>2 DEF Sound, WellTiled, Inv, ChunksApart, BlocksApart, Blocks
<1> QED
  BY <1>1, <1>2, <1>3

-----------------------------------------------------------------------------
(* The actions. *)

(* Taking a block from the free list keeps the heap sound.                 *)
LEMMA MallocFitSound ==
  ASSUME Inv, NEW sz \in Sizes, sz # 0, MallocFit(sz)
  PROVE  Inv'
<1> DEFINE n == TotalSize(sz)
<1>1. n \in Nat /\ n >= 3
  BY SizesSuffice, LayoutAssumption
<1>2. PICK b \in Fits(n) : /\ used' = used \cup {Taken(b, n)}
                           /\ free' = (free \ {b}) \cup Rest(b, n)
                           /\ UNCHANGED <<chunks, leaked>>
  BY DEF MallocFit
<1> HIDE DEF n
<1>3. b \in free /\ Size(b) >= n
  BY DEF Fits
<1>4. Sound(chunks, free, used, leaked)
  BY InvIsSound
<1>5. WellTiled(chunks, free', used') /\ \A c \in chunks : Usable(c) \notin free'
  <2>1. WellTiled(chunks, free, used) /\ \A c \in chunks : Usable(c) \notin free \ {b}
    BY <1>4 DEF Sound
  <2> QED
    BY <2>1, <1>1, <1>2, <1>3, SplitSound
<1>6. Sound(chunks', free', used', leaked')
  BY <1>2, <1>4, <1>5 DEF Sound
<1> QED
  BY <1>6, NextIsSound

(* Mapping a chunk and taking a block of it keeps the heap sound.          *)
LEMMA MallocMapSound ==
  ASSUME Inv, NEW sz \in Sizes, sz # 0, MallocMap(sz)
  PROVE  Inv'
<1> DEFINE n == TotalSize(sz)
<1>1. n \in Nat /\ n >= 3 /\ MapSize(sz) \in Nat /\ MapSize(sz) >= n + PAGEHDRSIZE
  BY SizesSuffice, LayoutAssumption
<1>2. PICK c \in Regions(MapSize(sz)) :
        /\ chunks' = chunks \cup {c}
        /\ used' = used \cup {Taken(Usable(c), n)}
        /\ free' = free \cup Rest(Usable(c), n)
        /\ UNCHANGED leaked
  BY DEF MallocMap
<1> HIDE DEF n
<1>3. /\ c \in Interval /\ c[2] - c[1] = MapSize(sz)
      /\ Cells(c) \cap leaked = {} /\ \A d \in chunks : Apart(c, d)
  BY <1>1, RegionFits
<1>4. c \in Int \X Int /\ c[1] \in Int /\ c[2] \in Int /\ c[2] - c[1] >= n + 2
  BY <1>1, <1>3, IntervalMembers
<1> DEFINE u == Usable(c)
           F == free \cup {u}
           C == chunks \cup {c}
<1>5. u[1] = c[1] + 2 /\ u[2] = c[2] /\ Size(u) >= n
  BY <1>1, <1>4 DEF Usable, Size
<1>6. Sound(chunks, free, used, leaked)
  BY InvIsSound
<1>8. WellTiled(C, F, used) /\ u \notin free \cup used
  <2>1. c[2] - c[1] >= 5
    BY <1>1, <1>4
  <2> QED
    BY <2>1, <1>3, <1>4, <1>6, MapSound DEF Sound
<1>10. \A d \in C : Usable(d) \notin F \ {u}
  <2>1. F \ {u} \subseteq free
    OBVIOUS
  <2>2. Usable(c) \notin free
    BY <1>8
  <2> QED
    BY <2>1, <2>2, <1>6 DEF Sound
<1>11. WellTiled(C, free', used') /\ \A d \in C : Usable(d) \notin free'
  <2>1. /\ WellTiled(C, (F \ {u}) \cup Rest(u, n), used \cup {Taken(u, n)})
        /\ \A d \in C : Usable(d) \notin (F \ {u}) \cup Rest(u, n)
    <3>1. u \in F
      OBVIOUS
    <3> HIDE DEF u, F, C
    <3> QED
      BY <3>1, <1>1, <1>5, <1>8, <1>10, SplitSound
  <2>2. F \ {u} = free
    BY <1>8
  <2> QED
    BY <2>1, <2>2, <1>2
<1>12. Sound(chunks', free', used', leaked')
  BY <1>2, <1>3, <1>6, <1>11 DEF Sound
<1> QED
  BY <1>12, NextIsSound

(* Coalescing a freed block, and unmapping a chunk that is all free, keeps *)
(* the heap sound.                                                         *)
LEMMA FreeSound ==
  ASSUME Inv, NEW b \in used, mm_free(b)
  PROVE  Inv'
<1> DEFINE F == coalesce(b)
           U == used \ {b}
<1>1. Sound(chunks, free, used, leaked)
  BY InvIsSound
<1>2. WellTiled(chunks, F, U)
  BY <1>1, CoalesceSound DEF Sound, coalesce
<1>3. /\ used' = U
      /\ free' = F \ {Usable(c) : c \in FullPages(F)}
      /\ chunks' = chunks \ FullPages(F)
      /\ leaked' = leaked
  BY DEF mm_free
<1> HIDE DEF F, U
<1>4. WellTiled(chunks', free', used') /\ \A c \in chunks' : Usable(c) \notin free'
  <2>1. FullPages(F) \subseteq chunks /\ \A c \in chunks : c \in FullPages(F) <=> Usable(c) \in F
    BY DEF FullPages
  <2> QED
    BY <2>1, <1>2, <1>3, UnmapSound
<1>5. Sound(chunks', free', used', leaked')
  BY <1>1, <1>3, <1>4 DEF Sound
<1> QED
  BY <1>5, NextIsSound

(* A heap without chunks is sound, whatever has leaked.                    *)
LEMMA NoBlocksSound ==
  ASSUME NEW L, L \subseteq Granule
  PROVE  Sound({}, {}, {}, L)
BY DEF Sound, WellTiled, Tiling, ChunkSet, Placed, Separate, Cover

(* mm_init, which forgets the chunks that are mapped, keeps the heap       *)
(* sound.                                                                  *)
LEMMA InitSound ==
  ASSUME Inv, mm_init
  PROVE  Inv'
<1>1. Sound(chunks, free, used, leaked)
  BY InvIsSound
<1>2. UNION {Cells(c) : c \in chunks} \subseteq Granule
  <2> SUFFICES ASSUME NEW c \in chunks PROVE Cells(c) \subseteq Granule
    OBVIOUS
  <2>1. c \in Interval
    BY <1>1 DEF Sound, WellTiled
  <2>2. c[1] \in Int /\ c[2] \in Int /\ PAGE <= c[1] /\ c[2] <= End /\ End \in Int /\ PAGE \in Int
    BY <2>1, IntervalMembers
  <2> QED
    BY <2>2 DEF Cells, Granule, End, PageStart
<1>3. leaked' \subseteq Granule
  BY <1>1, <1>2 DEF mm_init, Sound
<1>4. Sound(chunks', free', used', leaked')
  BY <1>3, NoBlocksSound DEF mm_init
<1> QED
  BY <1>4, NextIsSound

-----------------------------------------------------------------------------
(* Whatever sizes are asked for, in whatever order blocks are freed, and   *)
(* whichever fitting block find_fit returns: blocks tile their chunks, do  *)
(* not overlap, and free neighbours are merged.                            *)
THEOREM Invariance == Spec => []Inv
<1>1. Init => Inv
  BY NoBlocksSound, InvIsSound DEF Init
<1>2. Inv /\ [Next]_vars => Inv'
  <2> SUFFICES ASSUME Inv, [Next]_vars PROVE Inv'
    OBVIOUS
  <2>1. ASSUME NEW sz \in Sizes, mm_malloc(sz) PROVE Inv'
    BY <2>1, MallocFitSound, MallocMapSound DEF mm_malloc
  <2>2. ASSUME NEW b \in used, mm_free(b) PROVE Inv'
    BY <2>2, FreeSound
  <2>3. CASE mm_init
    BY <2>3, InitSound
  <2>4. CASE mem_reset
    <3>1. Sound(chunks', free', used', leaked')
      BY <2>4, NoBlocksSound DEF mem_reset
    <3> QED
      BY <3>1, NextIsSound
  <2>5. CASE UNCHANGED vars
    <3>1. Sound(chunks', free', used', leaked')
      BY <2>5, InvIsSound DEF vars
    <3> QED
      BY <3>1, NextIsSound
  <2> QED
    BY <2>1, <2>2, <2>3, <2>4, <2>5 DEF Next
<1> QED
  BY <1>1, <1>2, PTL DEF Spec

(* Every interval the allocator computes is a non-empty part of the        *)
(* address space.                                                          *)
THEOREM TypeCorrect == Spec => []TypeOK
<1>1. Inv => TypeOK
  BY DEF Inv
<1> QED
  BY <1>1, Invariance, PTL

(* Blocks never overlap and none is both free and allocated. *)
THEOREM NoOverlap == Spec => []BlocksApart
<1>1. Inv => BlocksApart
  BY DEF Inv
<1> QED
  BY <1>1, Invariance, PTL

(* No chunk is held without an allocated block in it: the first block of   *)
(* the chunk is used, or it is free and, not filling the chunk, followed   *)
(* by a block that must be used because free neighbours are merged.        *)
THEOREM ChunksInUse == Spec => []NoIdleChunk
<1>1. ASSUME Inv PROVE NoIdleChunk
  <2> SUFFICES ASSUME NEW c \in chunks
               PROVE  \E b \in used : Inside(b, Usable(c))
    BY DEF NoIdleChunk
  <2>1. /\ Tiling(chunks, Blocks) /\ \A p, q \in free : p[2] # q[1]
        /\ Usable(c) \notin free
    BY <1>1, InvIsSound DEF Sound, WellTiled, Blocks
  <2>2. \A d \in chunks : /\ d[1] \in Int /\ d[2] \in Int
                         /\ Usable(d)[1] = d[1] + PAGEHDRSIZE /\ Usable(d)[2] = d[2]
    BY <2>1 DEF Tiling, ChunkSet, Usable
  <2>3. \A b \in Blocks : /\ b = <<b[1], b[2]>> /\ b[1] \in Int /\ b[2] \in Int
                         /\ b[2] - b[1] >= 3
    BY <2>1 DEF Tiling, Placed
  <2>4. ASSUME NEW b \in Blocks, b[1] >= c[1] + PAGEHDRSIZE, b[1] < c[2]
        PROVE  Inside(b, Usable(c))
    <3>1. PICK d \in chunks : d[1] + PAGEHDRSIZE <= b[1] /\ b[2] <= d[2]
      BY <2>1 DEF Tiling, Placed
    <3>2. c = d \/ Apart(c, d)
      BY <2>1 DEF Tiling, ChunkSet
    <3>3. b[1] \in Int /\ b[2] \in Int /\ b[2] - b[1] >= 3
      BY <2>3
    <3> QED
      BY <3>1, <3>2, <3>3, <2>2, <2>4 DEF Apart, Inside
  <2>5. PICK f \in Blocks : f[1] = c[1] + PAGEHDRSIZE
    BY <2>1 DEF Tiling, Cover
  <2>6. c[1] + PAGEHDRSIZE < c[2]
    BY <2>1 DEF Tiling, ChunkSet
  <2>7. Inside(f, Usable(c))
    BY <2>2, <2>3, <2>4, <2>5, <2>6
  <2>8. CASE f \in used
    BY <2>7, <2>8
  <2>9. CASE f \in free
    <3>1. f[2] < c[2]
      <4>1. f[2] <= c[2]
        BY <2>7, <2>2 DEF Inside
      <4>2. ASSUME f[2] = c[2] PROVE FALSE
        BY <4>2, <2>9, <2>5, <2>3, <2>1 DEF Usable
      <4> QED
        BY <4>1, <4>2, <2>2, <2>3
    <3>2. \A d \in chunks : d[2] # f[2]
      <4> SUFFICES ASSUME NEW d \in chunks, d[2] = f[2] PROVE FALSE
        OBVIOUS
      <4>1. c # d /\ Apart(c, d) /\ d[1] + PAGEHDRSIZE < d[2]
        BY <3>1, <2>2, <2>1 DEF Tiling, ChunkSet
      <4> QED
        BY <4>1, <3>1, <2>2, <2>3, <2>5 DEF Apart
    <3>3. PICK g \in Blocks : g[1] = f[2]
      BY <3>2, <2>1 DEF Tiling, Cover
    <3>4. g \in used
      BY <3>3, <2>1, <2>9 DEF Blocks
    <3>5. Inside(g, Usable(c))
      BY <3>1, <3>3, <2>2, <2>3, <2>4, <2>5
    <3> QED
      BY <3>4, <3>5
  <2> QED
    BY <2>8, <2>9 DEF Blocks
<1> QED
  BY <1>1, Invariance, PTL

-----------------------------------------------------------------------------
(* The contract. *)

Mapped == leaked \cup UNION {Cells(c) : c \in chunks}
Live   == {Payload(b) : b \in used}

(* The payload of a used block is not empty, lies in a chunk, and shares   *)
(* nothing with that of another block.                                     *)
LEMMA PayloadsApart ==
  ASSUME NEW C, NEW F, NEW U, WellTiled(C, F, U)
  PROVE  /\ \A b \in U : /\ b[1] \in Int /\ b[2] \in Int /\ b = <<b[1], b[2]>>
                        /\ Payload(b)[1] = b[1] + 1 /\ Payload(b)[2] = b[2] - 1
                        /\ b[2] - b[1] >= 3
                        /\ Contract!Cells(Payload(b)) \subseteq UNION {Cells(c) : c \in C}
         /\ \A a, b \in U : a # b => Contract!Disjoint(Payload(a), Payload(b))
<1>1. \A b \in U \cup C : b \in Int \X Int /\ b[1] \in Int /\ b[2] \in Int
  BY DEF WellTiled, Tiling, Placed, ChunkSet
<1>2. ASSUME NEW b \in U
      PROVE  /\ Payload(b)[1] = b[1] + 1 /\ Payload(b)[2] = b[2] - 1
             /\ b[2] - b[1] >= 3
             /\ Contract!Cells(Payload(b)) \subseteq UNION {Cells(c) : c \in C}
  <2>1. b[2] - b[1] >= 3
    BY DEF WellTiled, Tiling, Placed
  <2>2. PICK c \in C : c[1] + PAGEHDRSIZE <= b[1] /\ b[2] <= c[2]
    BY DEF WellTiled, Tiling, Placed
  <2>3. Contract!Cells(Payload(b)) \subseteq Cells(c)
    BY <1>1, <2>2 DEF Contract!Cells, Cells, Payload
  <2> QED
    BY <2>1, <2>3 DEF Payload
<1>3. ASSUME NEW a \in U, NEW b \in U, a # b
      PROVE  Contract!Disjoint(Payload(a), Payload(b))
  <2>1. Apart(a, b)
    BY <1>3 DEF WellTiled, Tiling, Separate
  <2> QED
    BY <1>1, <1>2, <2>1 DEF Apart, Contract!Disjoint, Contract!Cells
<1> QED
  BY <1>1, <1>2, <1>3

(* What mm_malloc adds is one block, large enough for the request. *)
LEMMA MallocAdds ==
  ASSUME Inv, NEW sz \in Sizes, mm_malloc(sz)
  PROVE  /\ sz # 0
         /\ chunks \subseteq chunks' /\ leaked' = leaked
         /\ \E t : /\ used' = used \cup {t} /\ t \notin used
                  /\ Size(t) >= TotalSize(sz)
<1>1. sz \in Nat \ {0}
  BY LayoutAssumption DEF mm_malloc
<1> DEFINE n == TotalSize(sz)
<1>2. n \in Nat /\ n >= 3 /\ MapSize(sz) \in Nat /\ MapSize(sz) >= n + PAGEHDRSIZE
  BY <1>1, SizesSuffice
<1>3. Inv'
  BY MallocFitSound, MallocMapSound DEF mm_malloc
<1> HIDE DEF n
<1>4. ASSUME NEW b, b[1] \in Int, b[2] \in Int, Size(b) >= n
      PROVE  Size(Taken(b, n)) >= n /\ Taken(b, n)[1] = b[1]
             /\ Taken(b, n)[2] \in Int /\ Taken(b, n)[2] <= b[2]
  BY <1>4, <1>2 DEF Taken, Splits, Size
<1>5. CASE MallocFit(sz)
  <2>1. PICK b \in Fits(n) : /\ used' = used \cup {Taken(b, n)}
                             /\ UNCHANGED <<chunks, leaked>>
    BY <1>5 DEF MallocFit, n
  <2>2. /\ b \in free /\ Size(b) >= n /\ b[1] \in Int /\ b[2] \in Int
        /\ b \in Blocks /\ b \notin used
    BY <2>1, IntervalMembers DEF Fits, Inv, TypeOK, BlocksApart, Blocks
  <2>3. Taken(b, n) \notin used
    <3> SUFFICES ASSUME Taken(b, n) \in used PROVE FALSE
      OBVIOUS
    <3>1. Taken(b, n) = b \/ Apart(Taken(b, n), b)
      BY <2>2 DEF Inv, BlocksApart, Blocks
    <3> QED
      BY <3>1, <2>2, <1>2, <1>4 DEF Apart, Size
  <2> QED
    BY <2>1, <2>2, <2>3, <1>1, <1>4 DEF n
<1>6. CASE MallocMap(sz)
  <2>1. PICK c \in Regions(MapSize(sz)) :
          /\ chunks' = chunks \cup {c} /\ UNCHANGED leaked
          /\ used' = used \cup {Taken(Usable(c), n)}
    BY <1>6 DEF MallocMap, n
  <2>2. /\ c \in Interval /\ c[2] - c[1] = MapSize(sz)
        /\ \A d \in chunks : Apart(c, d)
    BY <1>2, RegionFits
  <2>3. /\ c[1] \in Int /\ c[2] \in Int /\ Usable(c)[1] = c[1] + 2 /\ Usable(c)[2] = c[2]
        /\ Size(Usable(c)) >= n
    BY <2>2, <1>2, IntervalMembers DEF Usable, Size
  <2> DEFINE t == Taken(Usable(c), n)
  <2>4. Size(t) >= n /\ t[1] = c[1] + 2 /\ t[2] \in Int /\ t[2] <= c[2]
    BY <2>3, <1>4
  <2> HIDE DEF t
  <2>5. t \notin used
    <3> SUFFICES ASSUME t \in used PROVE FALSE
      OBVIOUS
    <3>1. PICK d \in chunks : d[1] + PAGEHDRSIZE <= t[1] /\ t[2] <= d[2]
      BY DEF Inv, BlocksInChunks, Blocks, Inside, Usable
    <3>2. d[1] \in Int /\ d[2] \in Int /\ Apart(c, d)
      BY <2>2, IntervalMembers DEF Inv, TypeOK
    <3> QED
      BY <3>1, <3>2, <2>3, <2>4, <1>2 DEF Apart, Size
  <2> QED
    BY <2>1, <2>4, <2>5, <1>1 DEF n, t
<1> QED
  BY <1>5, <1>6 DEF mm_malloc

(* The allocator keeps its contract, whatever the page size, the requests, *)
(* the order of the calls and the placement policy.                        *)
THEOREM KeepsContract == Spec => ImplementsMalloc
<1>1. Init => Contract!Init
  BY DEF Init, Contract!Init
<1>2. Inv /\ Inv' /\ [Next]_vars => [Contract!Next]_(Contract!vars)
  <2> SUFFICES ASSUME Inv, Inv', [Next]_vars
               PROVE  Contract!Next \/ UNCHANGED Contract!vars
    OBVIOUS
  <2>a. WellTiled(chunks, free, used) /\ WellTiled(chunks', free', used')
    BY InvIsSound, NextIsSound DEF Sound
  <2>1. ASSUME NEW sz \in Sizes, mm_malloc(sz) PROVE Contract!malloc(sz)
    <3>1. /\ sz # 0 /\ sz \in Nat
          /\ chunks \subseteq chunks' /\ leaked' = leaked
      BY <2>1, MallocAdds, LayoutAssumption
    <3>2. PICK t : used' = used \cup {t} /\ t \notin used /\ Size(t) >= TotalSize(sz)
      BY <2>1, MallocAdds
    <3> DEFINE p == Payload(t)
    <3>3. /\ t \in used' /\ t[1] \in Int /\ t[2] \in Int
          /\ p[1] = t[1] + 1 /\ p[2] = t[2] - 1
          /\ Contract!Cells(p) \subseteq Mapped'
      BY <2>a, <3>2, PayloadsApart DEF Mapped
    <3>4. (p[2] - p[1]) * ALIGNMENT >= sz
      <4>1. ALIGN(sz) \in Nat /\ ALIGN(sz) * ALIGNMENT >= sz /\ TotalSize(sz) = ALIGN(sz) + 2
        BY <3>1, SizesSuffice
      <4>2. p[2] - p[1] >= ALIGN(sz)
        BY <3>2, <3>3, <4>1 DEF Size
      <4> QED
        BY <4>1, <4>2, <3>1, <3>3
    <3>5. \A b \in used : Contract!Disjoint(p, Payload(b))
      BY <2>a, <3>2, PayloadsApart
    <3>6. Live' = Live \cup {p}
      BY <3>2 DEF Live
    <3>7. Mapped \subseteq Mapped'
      BY <3>1 DEF Mapped
    <3>8. p \in Live'
      BY <3>3 DEF Live
    <3>9. \A q \in Live : Contract!Disjoint(p, q)
      BY <3>5 DEF Live
    <3> HIDE DEF p
    <3>10. (p[2] - p[1]) * ALIGNMENT >= sz /\ Contract!Cells(p) \subseteq Mapped'
      BY <3>3, <3>4
    <3> QED
      BY <3>1, <3>6, <3>7, <3>8, <3>9, <3>10, Zenon DEF Contract!malloc, Live, Mapped
  <2>2. ASSUME NEW b \in used, mm_free(b) PROVE Contract!free(Payload(b))
    <3>1. used' = used \ {b} /\ leaked' = leaked /\ chunks' \subseteq chunks
      BY <2>2 DEF mm_free
    <3>2. \A a \in used : Payload(a) = Payload(b) => a = b
      <4> SUFFICES ASSUME NEW a \in used, Payload(a) = Payload(b) PROVE a = b
        OBVIOUS
      <4>1. a[1] = b[1] /\ a[2] = b[2]
        BY <2>a, PayloadsApart
      <4> QED
        BY <2>a, <4>1, PayloadsApart
    <3>3. Live' = Live \ {Payload(b)}
      BY <3>1, <3>2 DEF Live
    <3>4. Mapped' \subseteq Mapped
      BY <3>1 DEF Mapped
    <3>5. \A q \in Live' : Contract!Cells(q) \subseteq Mapped'
      BY <2>a, PayloadsApart DEF Live, Mapped
    <3> QED
      BY <3>3, <3>4, <3>5 DEF Contract!free, Live, Mapped
  <2>3. CASE mm_init
    BY <2>3 DEF mm_init, Contract!init, Contract!Next
  <2>4. CASE mem_reset
    BY <2>4 DEF mem_reset, Contract!reset, Contract!Next
  <2>5. CASE UNCHANGED vars
    BY <2>5 DEF vars, Contract!vars
  <2>6. ASSUME NEW b \in used, mm_free(b) PROVE Contract!Next
    BY <2>2, <2>6 DEF Contract!Next
  <2> QED
    BY <2>1, <2>3, <2>4, <2>5, <2>6 DEF Next, Contract!Next
<1> QED
  BY <1>1, <1>2, Invariance, PTL DEF Spec, ImplementsMalloc, Contract!Spec
=============================================================================
