----------------------------- MODULE Lab_proofs -----------------------------
(***************************************************************************)
(* Proofs about Lab: mm.c keeps the contract that the driver's checks rest *)
(* on, so that what is proved of the driver with any such allocator holds  *)
(* of the whole program.                                                   *)
(***************************************************************************)
EXTENDS Lab, TLAPS

(* What is proved of mm.c.  Only its functions matter here, not MM's       *)
(* client.                                                                 *)
P == INSTANCE MM_proofs WITH
  PAGE <- PAGE \div 16, Sizes <- Requested, Junk <- {}, live <- <<>>, ready <- TRUE

(* Granules per page. *)
PageSize == PAGE \div 16

-----------------------------------------------------------------------------
(* The assumptions of the modules that make up the program. *)
LEMMA Constants ==
  /\ PAGE \in Nat /\ PageSize \in Nat /\ PageSize > 0 /\ PAGE = 16 * PageSize
  /\ MaxPage \in Nat /\ WORD \in Nat /\ Requested \subseteq Nat /\ Ids \subseteq Nat
  /\ \A sz \in Requested : sz + 16 * (4 + PageSize) <= 16 * WORD
<1>1. /\ PAGE \in Nat \ {0} /\ PAGE % 16 = 0 /\ MaxPage \in Nat /\ WORD \in Nat /\ Ids \subseteq Nat
      /\ \A f \in TraceFiles : f.ops \in Seq([cmd : {"a", "r", "f"}, id : Ids, size : Nat])
      /\ \A sz \in Requested : sz + 16 * (1 + 1 + 2) + PAGE <= 16 * WORD
  BY LabAssumption DEF LabAssumption, M!ALIGNMENT, M!HDRSIZE, M!FDRSIZE, M!PAGEHDRSIZE
<1>2. PageSize \in Nat /\ PageSize > 0 /\ PAGE = 16 * PageSize
  BY <1>1 DEF PageSize
<1>3. ASSUME NEW sz \in Requested PROVE sz \in Nat
  <2>0. PICK f \in TraceFiles : \E n \in DOMAIN f.ops : sz = f.ops[n].size
    BY DEF Requested
  <2>1. PICK n \in DOMAIN f.ops : sz = f.ops[n].size
    BY <2>0
  <2> DEFINE R == [cmd : {"a", "r", "f"}, id : Ids, size : Nat]
  <2>2. f.ops \in Seq(R)
    BY <1>1
  <2> HIDE DEF R
  <2>3. f.ops[n] \in R
    BY <2>2
  <2> QED
    BY <2>1, <2>3 DEF R
<1>4. ASSUME NEW sz \in Requested PROVE sz + 16 * (4 + PageSize) <= 16 * WORD
  <2>1. sz \in Nat /\ sz + 16 * (1 + 1 + 2) + PAGE <= 16 * WORD
    BY <1>1, <1>3
  <2> QED
    BY <1>2, <2>1
<1> QED
  BY <1>1, <1>2, <1>3, <1>4

(* mm.c's. *)
LEMMA Layouts == P!LayoutAssumption /\ {} \subseteq Nat \X Nat
<1>1. P!LayoutAssumption
  BY Constants DEF P!LayoutAssumption, PageSize, P!ALIGNMENT, P!HDRSIZE, P!FDRSIZE, P!PAGEHDRSIZE
<1> QED
  BY <1>1

-----------------------------------------------------------------------------
(* The states of mm.c between mm_init and mem_reset: the heap represents   *)
(* chunks of whole pages, each with a block in use.                        *)
Whole(chunks) == \A c \in chunks : \E j, k \in Nat : c[1] = PageSize * j /\ c[2] = PageSize * k

Sound(H, chunks, free, used) ==
  P!Rep(H, chunks, free, used) /\ P!NoFull(chunks, free) /\ Whole(chunks)

Ready == {H \in P!HeapType : \E chunks, free, used : Sound(H, chunks, free, used)}

(* The states in which mm_init may be called: after mem_reset, and when    *)
(* the driver gave up on a trace.                                          *)
States == {H \in P!HeapType : H.crashed = FALSE}

Used(H) == P!BlocksOf(H, 1)

(* A heap represents one set of chunks and blocks.                         *)
LEMMA SoundReads ==
  ASSUME NEW H, NEW chunks, NEW free, NEW used, Sound(H, chunks, free, used)
  PROVE  /\ H \in Ready /\ H \in States /\ Used(H) = used
         /\ P!ChunksOf(H) = chunks /\ P!BlocksOf(H, 0) = free
<1>1. P!ReadsAs(H, chunks, free, used)
  BY Layouts, P!HeapReads DEF Sound
<1>2. H \in P!HeapType /\ H.crashed = FALSE
  BY DEF Sound, P!Rep, P!Paged, P!Space
<1> QED
  BY <1>1, <1>2 DEF Ready, States, Used, P!ReadsAs

(* What a state of Ready represents can be read off its words.             *)
LEMMA ReadySound ==
  ASSUME NEW H \in Ready
  PROVE  Sound(H, P!ChunksOf(H), P!BlocksOf(H, 0), Used(H)) /\ H \in States
<1>1. PICK chunks, free, used : Sound(H, chunks, free, used)
  BY DEF Ready
<1> QED
  BY <1>1, SoundReads

(* The blocks in use lie in mapped granules and apart from each other.     *)
LEMMA UsedBlocks ==
  ASSUME NEW H \in Ready, NEW b \in Used(H)
  PROVE  P!BlockAt(H, b) /\ \A a \in Used(H) : a = b \/ a[2] <= b[1] \/ b[2] <= a[1]
<1> DEFINE chunks == P!ChunksOf(H)
           blocks1 == P!BlocksOf(H, 0) \cup Used(H)
<1>1. P!Paged(H, chunks) /\ P!Placed(chunks, blocks1) /\ P!Separate(blocks1)
  BY ReadySound DEF Sound, P!Rep, P!WellTiled, P!Tiling
<1> HIDE DEF chunks
<1>2. P!BlockAt(H, b)
  BY <1>1, Layouts, P!BlockCells
<1> QED
  BY <1>1, <1>2 DEF P!Separate, P!Apart

(* mm_malloc cuts a block for a request of sz bytes, in the pages mapped   *)
(* or in new ones.                                                         *)
Takes(H, K, t, sz) ==
  /\ K \in Ready /\ Used(K) = Used(H) \cup {t} /\ t \notin Used(H)
  /\ P!Kept(H, K, Used(H))
  /\ P!TotalSize(sz) <= P!Size(t) /\ P!Size(t) <= P!TotalSize(sz) + 3
  /\ \/ K.mapped = H.mapped
     \/ \E c \in Int \X Int : Whole({c}) /\ K.mapped = H.mapped \cup P!Cells(c)

(* Part of block b that is taken for n granules.                           *)
LEMMA TakenPart ==
  ASSUME NEW b, b[1] \in Int, b[2] \in Int, NEW n \in Nat, b[2] - b[1] >= n, NEW t, t = P!Taken(b, n)
  PROVE  t[1] = b[1] /\ n <= P!Size(t) /\ P!Size(t) <= n + 3
<1>1. CASE P!Splits(P!Size(b), n)
  <2>1. t = <<b[1], b[1] + n>>
    BY <1>1 DEF P!Taken
  <2> QED
    BY <2>1 DEF P!Size
<1>2. CASE ~ P!Splits(P!Size(b), n)
  <2>1. t = b
    BY <1>2 DEF P!Taken
  <2>2. b[2] - b[1] < n + 4
    BY <1>2 DEF P!Splits, P!Size, P!HDRSIZE, P!MIN_BLOCK_SIZE, P!FDRSIZE
  <2> QED
    BY <2>1, <2>2 DEF P!Size
<1> QED
  BY <1>1, <1>2

(* What is mapped for a request is a whole number of pages.                *)
LEMMA MapWhole ==
  ASSUME NEW sz \in Requested, sz # 0
  PROVE  \E q \in Nat : P!MapSize(sz) = PageSize * q
<1> DEFINE y == P!TotalSize(sz) + 2 + PageSize - 1
           x == y % WORD
           q == x \div PageSize
<1>1. P!TotalSize(sz) \in Nat /\ PageSize \in Nat /\ PageSize > 0
  BY Constants, Layouts, P!SizesSuffice
<1>2. WORD \in Nat /\ WORD > 0
  BY Constants
<1>3. y \in Nat
  BY <1>1
<1> HIDE DEF y
<1>4. x \in Nat
  BY <1>2, <1>3
<1>5. P!MapSize(sz) = q * PageSize
  BY DEF P!MapSize, P!PAGEHDRSIZE, PageSize, y
<1> HIDE DEF x
<1>6. q \in Nat
  BY <1>1, <1>4
<1> HIDE DEF q
<1>7. q * PageSize = PageSize * q
  BY <1>1, <1>6
<1> QED
  BY <1>5, <1>6, <1>7

(* mm_malloc does no more than that.                                       *)
LEMMA MallocTakes ==
  ASSUME NEW H \in Ready, NEW sz \in Requested, sz # 0, NEW r \in P!Malloc(H, sz)
  PROVE  \E t : Takes(H, r.heap, t, sz) /\ r.p = t[1] + 1
<1> DEFINE chunks == P!ChunksOf(H)
           free == P!BlocksOf(H, 0)
           n == P!TotalSize(sz)
           m == P!MapSize(sz)
           K == r.heap
<1>1. P!Rep(H, chunks, free, Used(H)) /\ P!NoFull(chunks, free) /\ Whole(chunks)
  BY ReadySound DEF Sound
<1>2. n \in Nat /\ n >= 3 /\ m \in Nat /\ m >= n + 2
  BY Layouts, P!SizesSuffice
<1>3. /\ free \cup Used(H) \subseteq Int \X Int /\ P!Separate(free \cup Used(H)) /\ free \cap Used(H) = {}
      /\ \A b \in free \cup Used(H) : b[2] - b[1] >= 3
  BY <1>1 DEF P!Rep, P!WellTiled, P!Tiling, P!Placed
<1>4. \/ P!FromFree(H, r, chunks, free, Used(H), n)
      \/ P!FromNew(H, r, chunks, free, Used(H), n, m)
  BY <1>1, Layouts, P!MallocCall
<1> HIDE DEF chunks, free, n, m, K
<1>5. CASE P!FromFree(H, r, chunks, free, Used(H), n)
  <2>1. PICK b \in free : /\ P!Size(b) >= n /\ r.p = P!Taken(b, n)[1] + 1
                          /\ P!Served(H, K, chunks, free \ {b}, Used(H), b, n)
    BY <1>5 DEF P!FromFree, K
  <2> DEFINE t == P!Taken(b, n)
             free2 == (free \ {b}) \cup P!Rest(b, n)
  <2>2. /\ Sound(K, chunks, free2, Used(H) \cup {t})
        /\ P!Kept(H, K, Used(H)) /\ K.mapped = H.mapped
    BY <1>1, <2>1 DEF P!Served, Sound
  <2>3. K \in Ready /\ Used(K) = Used(H) \cup {t}
    BY <2>2, SoundReads
  <2>4. b[1] \in Int /\ b[2] \in Int /\ b[2] - b[1] >= n
    BY <1>3, <2>1 DEF P!Size
  <2>5. t[1] = b[1] /\ n <= P!Size(t) /\ P!Size(t) <= n + 3
    BY <1>2, <2>4, TakenPart
  <2> HIDE DEF t, free2
  <2>6. t \notin Used(H)
    <3> SUFFICES ASSUME t \in Used(H) PROVE FALSE
      OBVIOUS
    <3>1. t = b \/ t[2] <= b[1] \/ b[2] <= t[1]
      BY <1>3 DEF P!Separate, P!Apart
    <3>2. t[1] \in Int /\ t[2] \in Int /\ t[2] - t[1] >= 3
      BY <1>3
    <3> QED
      BY <1>3, <2>4, <2>5, <3>1, <3>2, <1>2
  <2>7. Takes(H, K, t, sz)
    BY <2>2, <2>3, <2>5, <2>6 DEF Takes, n
  <2> QED
    BY <2>1, <2>7 DEF t, K
<1>6. CASE P!FromNew(H, r, chunks, free, Used(H), n, m)
  <2>1. PICK k \in 1 .. MaxPage : \E c \in {<<P!PageStart(k), P!PageStart(k) + m>>} :
          /\ P!NewRegion(H, chunks, c, m) /\ r.p = P!Taken(P!Usable(c), n)[1] + 1
          /\ P!Grown(H, K, chunks, free, Used(H), c, n)
    BY <1>6 DEF P!FromNew, K
  <2>2. PICK c \in {<<P!PageStart(k), P!PageStart(k) + m>>} :
          /\ P!NewRegion(H, chunks, c, m) /\ r.p = P!Taken(P!Usable(c), n)[1] + 1
          /\ P!Grown(H, K, chunks, free, Used(H), c, n)
    BY <2>1
  <2> DEFINE b == P!Usable(c)
             t == P!Taken(b, n)
             free2 == free \cup P!Rest(b, n)
  <2>3. c[1] \in Int /\ c[2] \in Int /\ c \in Int \X Int /\ c[2] - c[1] = m /\ P!Cells(c) \cap H.mapped = {}
    BY <2>2 DEF P!NewRegion
  <2>4. Whole({c})
    <3>1. PICK q \in Nat : m = PageSize * q
      BY MapWhole DEF m
    <3>2. c[1] = k * PageSize /\ c[2] = k * PageSize + m
      BY <2>2 DEF P!PageStart, PageSize
    <3>3. k \in Nat /\ k + q \in Nat /\ PageSize \in Nat
      BY Constants
    <3>4. c[1] = PageSize * k /\ c[2] = PageSize * (k + q)
      BY <3>1, <3>2, <3>3
    <3> QED
      BY <3>3, <3>4 DEF Whole
  <2>5. /\ Sound(K, chunks \cup {c}, free2, Used(H) \cup {t})
        /\ P!Kept(H, K, Used(H)) /\ K.mapped = H.mapped \cup P!Cells(c)
    <3>1. Whole(chunks \cup {c})
      BY <1>1, <2>4 DEF Whole
    <3> QED
      BY <2>2, <3>1 DEF P!Grown, Sound
  <2>6. K \in Ready /\ Used(K) = Used(H) \cup {t}
    BY <2>5, SoundReads
  <2>7. b[1] \in Int /\ b[2] \in Int /\ b[2] - b[1] >= n /\ b[1] \in P!Cells(c)
    <3>1. b[1] = c[1] + 2 /\ b[2] = c[2]
      BY DEF P!Usable, P!PAGEHDRSIZE
    <3> QED
      BY <1>2, <2>3, <3>1 DEF P!Cells
  <2> HIDE DEF b
  <2>8. t[1] = b[1] /\ n <= P!Size(t) /\ P!Size(t) <= n + 3
    BY <1>2, <2>7, TakenPart
  <2> HIDE DEF t, free2
  <2>9. t \notin Used(H)
    <3> SUFFICES ASSUME t \in Used(H) PROVE FALSE
      OBVIOUS
    <3>1. t[1] \in H.mapped
      BY UsedBlocks DEF P!BlockAt
    <3> QED
      BY <2>3, <2>7, <2>8, <3>1
  <2>10. Takes(H, K, t, sz)
    BY <2>3, <2>4, <2>5, <2>6, <2>8, <2>9 DEF Takes, n
  <2> QED
    BY <2>2, <2>10 DEF t, b, K
<1> QED
  BY <1>4, <1>5, <1>6

(* mm_free takes block b back and unmaps at most the chunk it was in.      *)
Releases(H, K, b) ==
  /\ K \in Ready /\ Used(K) = Used(H) \ {b} /\ P!Kept(H, K, Used(K))
  /\ \/ K.mapped = H.mapped
     \/ \E c \in Int \X Int : Whole({c}) /\ K.mapped = H.mapped \ P!Cells(c)

(* A call of mm_free does so. *)
LEMMA FreeReleases ==
  ASSUME NEW H \in Ready, NEW b \in Used(H)
  PROVE  Releases(H, P!Free(H, b[1] + 1), b)
<1> DEFINE chunks == P!ChunksOf(H)
           free == P!BlocksOf(H, 0)
           free2 == P!WithMerged(free, b)
           gone == P!Full(chunks, free2)
           K == P!Free(H, b[1] + 1)
<1>1. P!Rep(H, chunks, free, Used(H)) /\ P!NoFull(chunks, free) /\ Whole(chunks)
  BY ReadySound DEF Sound
<1>2. chunks \subseteq Int \X Int
  BY <1>1 DEF P!Rep, P!WellTiled, P!Tiling, P!ChunkSet
<1>3. P!Reclaimed(H, K, chunks, free, Used(H), b, free2, gone)
  BY <1>1, Layouts, P!FreeCall
<1>4. \A c \in gone : c \in chunks /\ P!Usable(c) = P!Merged(free, b)
  BY <1>1 DEF P!Full, P!WithMerged, P!NoFull
<1> HIDE DEF chunks, free, free2, gone, K
<1>5. /\ Sound(K, chunks \ gone, free2 \ P!Blocks(gone), Used(H) \ {b})
      /\ P!Kept(H, K, Used(H) \ {b}) /\ K.mapped = H.mapped \ P!Granules(gone)
  <2>1. Whole(chunks \ gone)
    BY <1>1 DEF Whole
  <2> QED
    BY <1>3, <2>1 DEF P!Reclaimed, Sound
<1>6. K \in Ready /\ Used(K) = Used(H) \ {b}
  BY <1>5, SoundReads
<1>7. CASE gone = {}
  <2>1. P!Granules(gone) = {}
    BY <1>7 DEF P!Granules
  <2> QED
    BY <1>5, <1>6, <2>1 DEF Releases, K
<1>8. CASE gone # {}
  <2>1. PICK c \in gone : TRUE
    BY <1>8
  <2>2. c \in Int \X Int /\ Whole({c})
    BY <1>1, <1>2, <1>4 DEF Whole
  <2>3. ASSUME NEW d \in gone PROVE d = c
    <3>1. P!Usable(d) = P!Usable(c) /\ d \in Int \X Int
      BY <1>2, <1>4
    <3>2. d[1] + 2 = c[1] + 2 /\ d[2] = c[2]
      BY <3>1 DEF P!Usable, P!PAGEHDRSIZE
    <3>3. d = <<d[1], d[2]>> /\ c = <<c[1], c[2]>> /\ d[1] \in Int /\ c[1] \in Int
      BY <2>2, <3>1
    <3> QED
      BY <3>2, <3>3
  <2>4. P!Granules(gone) = P!Cells(c)
    BY <2>3 DEF P!Granules
  <2> QED
    BY <1>5, <1>6, <2>2, <2>4 DEF Releases, K
<1> QED
  BY <1>7, <1>8

(* A client that writes between the tags of block b.                       *)
Writes(H, K, G, w) ==
  /\ K \in Ready /\ Used(K) = Used(H) /\ K.mapped = H.mapped
  /\ \A g \in P!Granule \ G : K.mem[g] = H.mem[g]
  /\ \A g \in G : K.mem[g] = w

(* A store into granules between the tags is such a write. *)
LEMMA FillWrites ==
  ASSUME NEW H \in Ready, NEW b \in Used(H), NEW h \in Int, b[1] + 1 <= h, h < b[2] - 1,
         NEW w \in Nat \X Nat, NEW G, G = b[1] + 1 .. h
  PROVE  Writes(H, P!Fill(H, G, w), G, w)
<1> DEFINE chunks == P!ChunksOf(H)
           free == P!BlocksOf(H, 0)
           a == h - b[1]
           K == P!Fill(H, G, w)
<1>1. P!Rep(H, chunks, free, Used(H)) /\ P!NoFull(chunks, free) /\ Whole(chunks)
  BY ReadySound DEF Sound
<1>2. P!BlockAt(H, b)
  BY UsedBlocks
<1>3. /\ a \in Nat /\ a + 2 <= P!Size(b) /\ G = b[1] + 1 .. b[1] + 1 + a - 1
      /\ G \subseteq P!Granule
  <2>1. b[1] \in Int /\ b[2] \in Int /\ \A x \in b[1] .. b[2] - 1 : x \in P!Granule
    BY <1>2 DEF P!BlockAt
  <2>2. \A x, y \in Int : x + 1 <= h /\ h < y - 1 =>
          h - x \in Nat /\ (h - x) + 2 <= y - x /\ x + 1 + (h - x) - 1 = h
    OBVIOUS
  <2>3. \A x \in G : x \in b[1] .. b[2] - 1
    BY <2>1
  <2> QED
    BY <2>1, <2>2, <2>3 DEF P!Size
<1> HIDE DEF chunks, free, a
<1>4. P!Rep(K, chunks, free, Used(H)) /\ P!Filled(H, K, G)
  BY <1>1, <1>3, Layouts, P!WriteCall
<1>5. K \in Ready /\ Used(K) = Used(H)
  BY <1>1, <1>4, SoundReads DEF Sound
<1>6. \A g \in G : K.mem[g] = w
  <2>1. H \in P!HeapType
    BY DEF Ready
  <2>2. H.mem \in [P!Granule -> P!Word \X P!Word]
    BY <2>1 DEF P!HeapType
  <2>3. K.mem = [x \in P!Granule |-> IF x \in G THEN w ELSE H.mem[x]]
    BY <2>1 DEF P!Fill, P!HeapType
  <2> QED
    BY <1>3, <2>3
<1> QED
  BY <1>4, <1>5, <1>6 DEF Writes, P!Filled, K

-----------------------------------------------------------------------------
(* The functions of mm.c that Lab calls are those that the proofs about MM *)
(* are about: both modules instantiate Words with the same constants.      *)
LEMMA SameFunctions ==
  /\ M!EmptyHeap = P!EmptyHeap
  /\ \A H : M!InitHeap(H) = P!InitHeap(H)
  /\ \A H : M!ResetHeap(H) = P!ResetHeap(H)
  /\ \A H, sz : M!Malloc(H, sz) = P!Malloc(H, sz)
  /\ \A H, ptr : M!Free(H, ptr) = P!Free(H, ptr)
  /\ \A H, G, w : M!Fill(H, G, w) = P!Fill(H, G, w)
  /\ \A H, alloc : M!BlocksOf(H, alloc) = P!BlocksOf(H, alloc)
<1>1. M!Granule = P!Granule
  BY DEF M!Granule, P!Granule
<1>2. M!NULL = P!NULL
  BY DEF M!NULL, P!NULL
<1>3. M!Zero = P!Zero
  BY DEF M!Zero, P!Zero
<1>4. M!EmptyHeap = P!EmptyHeap
  BY <1>1, <1>2, <1>3 DEF M!EmptyHeap, P!EmptyHeap
<1>5. ASSUME NEW H PROVE M!InitHeap(H) = P!InitHeap(H)
  BY <1>2 DEF M!InitHeap, P!InitHeap
<1>6. ASSUME NEW k PROVE M!PageStart(k) = P!PageStart(k)
  BY DEF M!PageStart, P!PageStart
<1>7. M!End = P!End
  BY <1>6 DEF M!End, P!End
<1>57. ASSUME NEW H PROVE M!Crash(H) = P!Crash(H)
  BY DEF M!Crash, P!Crash
<1>58. ASSUME NEW H, NEW A PROVE M!Reads(H, A) = P!Reads(H, A)
  BY <1>57 DEF M!Reads, P!Reads
<1>59. ASSUME NEW H, NEW gone PROVE M!Unmap(H, gone) = P!Unmap(H, gone)
  BY <1>1, <1>3 DEF M!Unmap, P!Unmap
<1>8. ASSUME NEW H, NEW p, NEW n PROVE M!mem_unmap(H, p, n) = P!mem_unmap(H, p, n)
  BY <1>57, <1>59 DEF M!mem_unmap, P!mem_unmap
<1>9. ASSUME NEW H PROVE M!ResetHeap(H) = P!ResetHeap(H)
  BY <1>1, <1>59 DEF M!ResetHeap, P!ResetHeap
<1>60. M!Longest = P!Longest
  BY DEF M!Longest, P!Longest
<1>61. ASSUME NEW list, NEW hit PROVE M!Visited(list, hit) = P!Visited(list, hit)
  BY DEF M!Visited, P!Visited
<1>10. M!ALIGNMENT = P!ALIGNMENT
  BY DEF M!ALIGNMENT, P!ALIGNMENT
<1>11. ASSUME NEW sz PROVE M!ALIGN(sz) = P!ALIGN(sz)
  BY <1>10 DEF M!ALIGN, P!ALIGN
<1>12. M!HDRSIZE = P!HDRSIZE
  BY DEF M!HDRSIZE, P!HDRSIZE
<1>13. M!PAGEHDRSIZE = P!PAGEHDRSIZE
  BY DEF M!PAGEHDRSIZE, P!PAGEHDRSIZE
<1>14. M!FDRSIZE = P!FDRSIZE
  BY DEF M!FDRSIZE, P!FDRSIZE
<1>15. ASSUME NEW asize PROVE M!Tagged(asize) = P!Tagged(asize)
  BY <1>12, <1>14 DEF M!Tagged, P!Tagged
<1>16. ASSUME NEW sz PROVE M!TotalSize(sz) = P!TotalSize(sz)
  BY <1>11, <1>15 DEF M!TotalSize, P!TotalSize
<1>17. ASSUME NEW sz PROVE M!MapSize(sz) = P!MapSize(sz)
  BY <1>13, <1>16 DEF M!MapSize, P!MapSize
<1>18. ASSUME NEW H, NEW a, NEW w PROVE M!Store(H, a, w) = P!Store(H, a, w)
  BY <1>57 DEF M!Store, P!Store
<1>19. ASSUME NEW H, NEW a PROVE M!Load(H, a) = P!Load(H, a)
  BY <1>3 DEF M!Load, P!Load
<1>20. ASSUME NEW H, NEW a, NEW w PROVE M!Store1(H, a, w) = P!Store1(H, a, w)
  BY <1>18, <1>19 DEF M!Store1, P!Store1
<1>21. ASSUME NEW H, NEW h PROVE M!BLOCK_SIZE(H, h) = P!BLOCK_SIZE(H, h)
  BY <1>19 DEF M!BLOCK_SIZE, P!BLOCK_SIZE
<1>22. ASSUME NEW H, NEW pc PROVE M!page_end(H, pc) = P!page_end(H, pc)
  BY <1>19 DEF M!page_end, P!page_end
<1>23. ASSUME NEW H, NEW pc, NEW lo, NEW n PROVE M!Within(H, pc, lo, n) = P!Within(H, pc, lo, n)
  BY <1>13, <1>22 DEF M!Within, P!Within
<1>24. ASSUME NEW H, NEW pc PROVE M!next_chunk(H, pc) = P!next_chunk(H, pc)
  BY <1>19 DEF M!next_chunk, P!next_chunk
<1>25. ASSUME NEW H PROVE M!PageList(H) = P!PageList(H)
  BY <1>2, <1>24, <1>60 DEF M!PageList, P!PageList, M!Chain, P!Chain
<1>62. ASSUME NEW H, NEW a PROVE M!chunk_index(H, a) = P!chunk_index(H, a)
  <2> DEFINE K == M!PageList(H)
             L == P!PageList(H)
             S == {i \in 1 .. Len(L) : L[i] + P!PAGEHDRSIZE <= a /\ a < P!page_end(H, L[i])}
             T == {i \in 1 .. Len(K) : K[i] + M!PAGEHDRSIZE <= a /\ a < M!page_end(H, K[i])}
             First(X) == IF X # {} THEN CHOOSE x \in X : \A y \in X : x <= y ELSE 0
  <2>0. K = L
    BY <1>25
  <2>1. S = T
    <3> HIDE DEF K, L
    <3> QED
      BY <2>0, <1>13, <1>22
  <2>2. M!chunk_index(H, a) = First(T)
    BY DEF M!chunk_index, M!Min, M!SelectInSeq
  <2>3. P!chunk_index(H, a) = First(S)
    BY DEF P!chunk_index, P!Min, P!SelectInSeq
  <2> HIDE DEF K, L, S, T, First
  <2> QED
    BY <2>1, <2>2, <2>3
<1>26. ASSUME NEW H, NEW a PROVE M!find_page_chunk_for_addr(H, a) = P!find_page_chunk_for_addr(H, a)
  BY <1>2, <1>25, <1>62 DEF M!find_page_chunk_for_addr, P!find_page_chunk_for_addr
<1>63. ASSUME NEW H, NEW a PROVE M!ReadToFind(H, a) = P!ReadToFind(H, a)
  BY <1>25, <1>61, <1>62 DEF M!ReadToFind, P!ReadToFind
<1>27. ASSUME NEW H, NEW h PROVE M!write_footer(H, h) = P!write_footer(H, h)
  BY <1>2, <1>14, <1>20, <1>21, <1>23, <1>26, <1>57, <1>58, <1>63 DEF M!write_footer,
     P!write_footer
<1>28. ASSUME NEW H, NEW region, NEW mapsize PROVE M!NewChunk(H, region, mapsize) = P!NewChunk(H, region, mapsize)
  BY <1>2, <1>13, <1>18, <1>20, <1>27 DEF M!NewChunk, P!NewChunk
<1>29. ASSUME NEW H, NEW n PROVE M!Regions(H, n) = P!Regions(H, n)
  BY <1>6, <1>7 DEF M!Regions, P!Regions
<1>30. ASSUME NEW H, NEW bp PROVE M!FREE_NEXT_PTR(H, bp) = P!FREE_NEXT_PTR(H, bp)
  BY <1>19 DEF M!FREE_NEXT_PTR, P!FREE_NEXT_PTR
<1>31. ASSUME NEW H PROVE M!FreeList(H) = P!FreeList(H)
  BY <1>2, <1>30, <1>60 DEF M!FreeList, P!FreeList, M!Chain, P!Chain
<1>32. ASSUME NEW H, NEW h PROVE M!GET_ALLOC(H, h) = P!GET_ALLOC(H, h)
  BY <1>19 DEF M!GET_ALLOC, P!GET_ALLOC
<1>64. ASSUME NEW H, NEW asize PROVE M!fit_index(H, asize) = P!fit_index(H, asize)
  <2> DEFINE K == M!FreeList(H)
             L == P!FreeList(H)
             S == {i \in 1 .. Len(L) :
                     /\ P!GET_ALLOC(H, L[i] - P!HDRSIZE) = 0
                     /\ P!BLOCK_SIZE(H, L[i] - P!HDRSIZE) >= P!Tagged(asize)}
             T == {i \in 1 .. Len(K) :
                     /\ M!GET_ALLOC(H, K[i] - M!HDRSIZE) = 0
                     /\ M!BLOCK_SIZE(H, K[i] - M!HDRSIZE) >= M!Tagged(asize)}
             First(X) == IF X # {} THEN CHOOSE x \in X : \A y \in X : x <= y ELSE 0
  <2>0. K = L
    BY <1>31
  <2>1. S = T
    <3> HIDE DEF K, L
    <3> QED
      BY <2>0, <1>12, <1>15, <1>21, <1>32
  <2>2. M!fit_index(H, asize) = First(T)
    BY DEF M!fit_index, M!Min, M!SelectInSeq
  <2>3. P!fit_index(H, asize) = First(S)
    BY DEF P!fit_index, P!Min, P!SelectInSeq
  <2> HIDE DEF K, L, S, T, First
  <2> QED
    BY <2>1, <2>2, <2>3
<1>33. ASSUME NEW H, NEW asize PROVE M!find_fit(H, asize) = P!find_fit(H, asize)
  BY <1>2, <1>31, <1>64 DEF M!find_fit, P!find_fit
<1>65. ASSUME NEW H, NEW asize PROVE M!ReadToFit(H, asize) = P!ReadToFit(H, asize)
  BY <1>12, <1>31, <1>61, <1>64 DEF M!ReadToFit, P!ReadToFit
<1>34. ASSUME NEW H, NEW bp PROVE M!FREE_PREV_PTR(H, bp) = P!FREE_PREV_PTR(H, bp)
  BY <1>19 DEF M!FREE_PREV_PTR, P!FREE_PREV_PTR
<1>35. ASSUME NEW H, NEW a, NEW w PROVE M!Store2(H, a, w) = P!Store2(H, a, w)
  BY <1>18, <1>19 DEF M!Store2, P!Store2
<1>36. ASSUME NEW H, NEW bp PROVE M!remove_free_block(H, bp) = P!remove_free_block(H, bp)
  BY <1>2, <1>18, <1>20, <1>30, <1>34, <1>35 DEF M!remove_free_block, P!remove_free_block
<1>37. ASSUME NEW H, NEW h PROVE M!SET_ALLOC(H, h) = P!SET_ALLOC(H, h)
  BY <1>35 DEF M!SET_ALLOC, P!SET_ALLOC
<1>38. ASSUME NEW H, NEW h PROVE M!SET_FREE(H, h) = P!SET_FREE(H, h)
  BY <1>35 DEF M!SET_FREE, P!SET_FREE
<1>39. ASSUME NEW H, NEW h, NEW n PROVE M!SET_SIZE(H, h, n) = P!SET_SIZE(H, h, n)
  BY <1>20 DEF M!SET_SIZE, P!SET_SIZE
<1>40. M!MIN_BLOCK_SIZE = P!MIN_BLOCK_SIZE
  BY DEF M!MIN_BLOCK_SIZE, P!MIN_BLOCK_SIZE
<1>41. ASSUME NEW size, NEW n PROVE M!Splits(size, n) = P!Splits(size, n)
  BY <1>12, <1>14, <1>40 DEF M!Splits, P!Splits
<1>42. ASSUME NEW H, NEW bp PROVE M!insert_free_block(H, bp) = P!insert_free_block(H, bp)
  BY <1>2, <1>18, <1>20 DEF M!insert_free_block, P!insert_free_block
<1>43. ASSUME NEW H, NEW h, NEW asize PROVE M!split_block(H, h, asize) = P!split_block(H, h, asize)
  BY <1>12, <1>15, <1>21, <1>27, <1>37, <1>38, <1>39, <1>41, <1>42 DEF M!split_block,
     P!split_block
<1>44. ASSUME NEW H, NEW sz PROVE M!Malloc(H, sz) = P!Malloc(H, sz)
  BY <1>2, <1>11, <1>12, <1>13, <1>17, <1>28, <1>29, <1>33, <1>36, <1>43, <1>58, <1>65 DEF
     M!Malloc, P!Malloc
<1>45. ASSUME NEW H, NEW pc PROVE M!page_size(H, pc) = P!page_size(H, pc)
  BY <1>19 DEF M!page_size, P!page_size
<1>46. ASSUME NEW H, NEW pc PROVE M!prev_chunk(H, pc) = P!prev_chunk(H, pc)
  BY <1>19 DEF M!prev_chunk, P!prev_chunk
<1>47. ASSUME NEW H, NEW pc PROVE M!unmap_if_full(H, pc) = P!unmap_if_full(H, pc)
  BY <1>2, <1>8, <1>12, <1>13, <1>20, <1>21, <1>24, <1>32, <1>35, <1>36, <1>45, <1>46 DEF
     M!unmap_if_full, P!unmap_if_full
<1>66. ASSUME NEW s PROVE M!page_turn(s) = P!page_turn(s)
  BY <1>2, <1>13, <1>24, <1>47, <1>58 DEF M!page_turn, P!page_turn
<1>48. ASSUME NEW H PROVE M!check_and_unmap_full_pages(H) = P!check_and_unmap_full_pages(H)
  <2> DEFINE s0 == [heap |-> H, pc |-> H.page_list_head]
             F(loop) == [n \in Nat |-> IF n = 0 THEN s0 ELSE P!page_turn(loop[n - 1])]
             G(loop) == [n \in Nat |-> IF n = 0 THEN s0 ELSE M!page_turn(loop[n - 1])]
  <2>1. ASSUME NEW loop PROVE F(loop) = G(loop)
    <3> HIDE DEF s0
    <3> QED
      BY <1>66
  <2>2. P!check_and_unmap_full_pages(H) = (CHOOSE loop : loop = F(loop))[P!Longest].heap
    BY DEF P!check_and_unmap_full_pages
  <2>3. M!check_and_unmap_full_pages(H) = (CHOOSE loop : loop = G(loop))[M!Longest].heap
    BY DEF M!check_and_unmap_full_pages
  <2> HIDE DEF F, G
  <2>4. (CHOOSE loop : loop = F(loop)) = (CHOOSE loop : loop = G(loop))
    BY <2>1
  <2> QED
    BY <1>60, <2>2, <2>3, <2>4
<1>49. ASSUME NEW H, NEW h PROVE M!get_next_block(H, h) = P!get_next_block(H, h)
  BY <1>2, <1>12, <1>14, <1>21, <1>23, <1>26 DEF M!get_next_block, P!get_next_block
<1>50. ASSUME NEW H, NEW h PROVE M!get_prev_block(H, h) = P!get_prev_block(H, h)
  BY <1>2, <1>12, <1>13, <1>14, <1>19, <1>22, <1>23, <1>26 DEF M!get_prev_block,
     P!get_prev_block
<1>67. ASSUME NEW H, NEW b PROVE M!ReadAround(H, b) = P!ReadAround(H, b)
  BY <1>2, <1>14, <1>23, <1>26, <1>49, <1>50, <1>63 DEF M!ReadAround, P!ReadAround
<1>68. ASSUME NEW H, NEW b, NEW prev_h, NEW next_h
       PROVE  M!merge(H, b, prev_h, next_h) = P!merge(H, b, prev_h, next_h)
  BY <1>2, <1>12, <1>21, <1>27, <1>32, <1>36, <1>39, <1>42, <1>48 DEF M!merge, P!merge
<1>51. ASSUME NEW H, NEW bp PROVE M!coalesce(H, bp) = P!coalesce(H, bp)
  BY <1>12, <1>49, <1>50, <1>58, <1>67, <1>68 DEF M!coalesce, P!coalesce
<1>52. ASSUME NEW H, NEW ptr PROVE M!Free(H, ptr) = P!Free(H, ptr)
  BY <1>2, <1>12, <1>27, <1>38, <1>51 DEF M!Free, P!Free
<1>53. ASSUME NEW H, NEW G, NEW w PROVE M!Fill(H, G, w) = P!Fill(H, G, w)
  BY <1>1 DEF M!Fill, P!Fill
<1>54. ASSUME NEW H, NEW pc PROVE M!Headers(H, pc) = P!Headers(H, pc)
  BY <1>2, <1>13, <1>21, <1>22, <1>60 DEF M!Headers, P!Headers, M!Chain, P!Chain
<1>55. ASSUME NEW H PROVE M!AllHeaders(H) = P!AllHeaders(H)
  BY <1>25, <1>54 DEF M!AllHeaders, P!AllHeaders, M!ToSet, P!ToSet
<1>56. ASSUME NEW H, NEW alloc PROVE M!BlocksOf(H, alloc) = P!BlocksOf(H, alloc)
  BY <1>21, <1>32, <1>55 DEF M!BlocksOf, P!BlocksOf
<1> QED
  BY <1>4, <1>5, <1>9, <1>44, <1>52, <1>53, <1>56

-----------------------------------------------------------------------------
(* Payloads in bytes. *)
PayloadOf(b) == [lo |-> Addr(b[1] + M!HDRSIZE), hi |-> Addr(b[2] - M!FDRSIZE) - 1]
Given(H)     == {PayloadOf(b) : b \in Used(H)}

(* What is proved of the driver, with mm.c as its allocator. *)
D == INSTANCE Driver_proofs WITH
  ALIGNMENT <- M!ALIGNMENT, alloc <- heap, Fresh <- M!EmptyHeap, Mapped <- MappedPages,
  Payloads <- Given, Slack <- {}, Extra <- {}

(* The driver's assumptions. *)
LEMMA DriverConstants == D!DriverAssumption
<1>1. M!ALIGNMENT \in Nat \ {0} /\ PAGE \in Nat \ {0} /\ Ids \subseteq Nat
  BY LabAssumption DEF M!ALIGNMENT
<1>2. ASSUME NEW f \in TraceFiles
      PROVE  /\ f.ops \in Seq([cmd : {"a", "r", "f"}, id : Ids, size : Int])
             /\ D!WellFormed(f.ops) /\ f.num_ids \in Nat /\ f.num_ops \in Nat
  <2> DEFINE R == [cmd : {"a", "r", "f"}, id : Ids, size : Nat]
             T == [cmd : {"a", "r", "f"}, id : Ids, size : Int]
  <2>1. f.ops \in Seq(R) /\ Prog!WellFormed(f.ops) /\ f.num_ids \in Nat /\ f.num_ops \in Nat
    BY LabAssumption
  <2>2. R \subseteq T
    OBVIOUS
  <2> HIDE DEF R, T
  <2>3. f.ops \in Seq(T)
    BY <2>1, <2>2
  <2>4. D!WellFormed(f.ops)
    BY <2>1 DEF D!WellFormed, Prog!WellFormed, D!Before, Prog!Before
  <2> QED
    BY <2>1, <2>3, <2>4 DEF T
<1>3. NumTraces \in Nat \ {0} /\ Reps \in Nat \ {0} /\ RunLibc \in BOOLEAN
  BY LabAssumption
<1> QED
  BY <1>1, <1>2, <1>3 DEF D!DriverAssumption

(* The page of a byte is the page of its granule.                          *)
LEMMA PageOfGranule ==
  ASSUME NEW a \in Nat
  PROVE  a \div PAGE = (a \div 16) \div PageSize /\ a \div 16 \in Nat
<1> DEFINE g == a \div 16
           q == g \div PageSize
<1>0. PageSize \in Nat /\ PageSize > 0 /\ PAGE = 16 * PageSize /\ PAGE \in Nat
  BY Constants
<1>1. g \in Nat /\ 16 * g <= a /\ a < 16 * g + 16
  OBVIOUS
<1> HIDE DEF g
<1>2. q \in Int /\ PageSize * q \in Int /\ PageSize * q <= g /\ g < PageSize * q + PageSize
  BY <1>0, <1>1, Layouts, P!DivBounds
<1> HIDE DEF q
<1>3. PAGE * q = 16 * (PageSize * q)
  BY <1>0, <1>2
<1>4. PAGE * q <= a /\ a < PAGE * q + PAGE
  BY <1>0, <1>1, <1>2, <1>3
<1>5. PAGE > 0
  BY <1>0
<1>6. a \div PAGE = q
  BY <1>0, <1>2, <1>4, <1>5, Layouts, P!DivUnique
<1> QED
  BY <1>1, <1>6 DEF g, q

(* The pages mapped are those of the granules mapped.                      *)
LEMMA MappedHeap ==
  ASSUME NEW H \in P!HeapType
  PROVE  /\ MappedPages(H) = {g \div PageSize : g \in H.mapped}
         /\ MappedPages(H) \subseteq Int /\ D!IsFiniteSet(MappedPages(H))
         /\ MappedPages(H) = {} <=> H.mapped = {}
<1>1. MappedPages(H) = {g \div PageSize : g \in H.mapped}
  BY DEF MappedPages, M!ALIGNMENT, PageSize
<1>2. PageSize \in Nat /\ PageSize > 0
  BY Constants
<1>3. P!End \in Nat /\ H.mapped \subseteq PageSize .. P!End - 1
  BY Layouts, P!AddressSpace DEF P!HeapType, PageSize
<1>4. ASSUME NEW g \in H.mapped PROVE g \div PageSize \in 0 .. P!End
  <2> DEFINE q == g \div PageSize
  <2>1. g \in Nat /\ g <= P!End
    BY <1>2, <1>3
  <2>2. q \in Int /\ PageSize * q <= g /\ g < PageSize * q + PageSize
    BY <1>2, <2>1, Layouts, P!DivBounds
  <2> HIDE DEF q
  <2>3. q >= 0
    <3> SUFFICES ASSUME q <= -1 PROVE FALSE
      BY <2>2
    <3>1. PageSize * q <= PageSize * (-1)
      BY <1>2, <2>2, Layouts, P!TimesMonotone
    <3> QED
      BY <1>2, <2>1, <2>2, <3>1
  <2>4. q <= PageSize * q
    BY <1>2, <2>2, <2>3
  <2>5. q \in 0 .. P!End
    BY <1>2, <1>3, <2>1, <2>2, <2>3, <2>4
  <2> QED
    BY <2>5 DEF q
<1>5. MappedPages(H) \in SUBSET (0 .. P!End)
  BY <1>1, <1>4
<1>6. D!IsFiniteSet(0 .. P!End)
  BY <1>3, DriverConstants, D!FS_Interval
<1>7. D!IsFiniteSet(MappedPages(H))
  BY <1>5, <1>6, DriverConstants, D!FS_Subset
<1> QED
  BY <1>1, <1>5, <1>7

(* A payload lies between the header and the footer of a block in use, on  *)
(* mapped pages.                                                           *)
LEMMA PayloadFacts ==
  ASSUME NEW H \in Ready, NEW b \in Used(H), NEW e, e = PayloadOf(b)
  PROVE  /\ b[1] \in Nat /\ b[2] \in Nat /\ b[2] - b[1] >= 3
         /\ e.lo = 16 * (b[1] + 1) /\ e.hi = 16 * (b[2] - 1) - 1
         /\ e.lo \in Nat /\ e.hi \in Nat /\ e.lo > 0 /\ e.lo <= e.hi /\ e.lo % 16 = 0
         /\ e \in D!Extents
         /\ Granule(e.lo) = b[1] + 1
         /\ \A a \in e.lo .. e.hi : a \div PAGE \in MappedPages(H)
<1>1. P!BlockAt(H, b) /\ H \in P!HeapType
  BY UsedBlocks, ReadySound DEF States
<1>2. P!End \in Nat /\ PageSize \in Nat /\ P!Granule = PageSize .. P!End - 1
  BY Constants, Layouts, P!AddressSpace DEF PageSize
<1>3. b[1] \in Nat /\ b[2] \in Nat /\ b[2] - b[1] >= 3
  BY <1>1, <1>2 DEF P!BlockAt
<1>4. /\ e = [lo |-> Addr(b[1] + M!HDRSIZE), hi |-> Addr(b[2] - M!FDRSIZE) - 1]
      /\ Addr(b[1] + M!HDRSIZE) = 16 * (b[1] + 1) /\ Addr(b[2] - M!FDRSIZE) = 16 * (b[2] - 1)
  BY DEF PayloadOf, Addr, M!ALIGNMENT, M!HDRSIZE, M!FDRSIZE
<1>5. /\ e.lo = 16 * (b[1] + 1) /\ e.hi = 16 * (b[2] - 1) - 1
      /\ e = [lo |-> e.lo, hi |-> e.hi]
  BY <1>4
<1>6. e.lo \in Nat /\ e.hi \in Nat /\ e.lo > 0 /\ e.lo <= e.hi /\ e.lo % 16 = 0
  BY <1>3, <1>5
<1>7. e \in D!Extents
  BY <1>5, <1>6 DEF D!Extents
<1>8. Granule(e.lo) = b[1] + 1
  <2>1. e.lo \div 16 = b[1] + 1
    BY <1>3, <1>5, Layouts, P!DivUnique
  <2> QED
    BY <2>1 DEF Granule, M!ALIGNMENT
<1>9. ASSUME NEW a \in e.lo .. e.hi PROVE a \div PAGE \in MappedPages(H)
  <2> DEFINE g == a \div 16
  <2>1. a \in Nat
    BY <1>6
  <2>2. g \in Nat /\ 16 * g <= a /\ a < 16 * g + 16 /\ a \div PAGE = g \div PageSize
    BY <2>1, PageOfGranule
  <2> HIDE DEF g
  <2>3. g \in b[1] .. b[2] - 1
    BY <1>3, <1>5, <2>2
  <2>4. g \in H.mapped
    BY <1>1, <2>3 DEF P!BlockAt
  <2> QED
    BY <1>1, <2>2, <2>4, MappedHeap
<1> QED
  BY <1>3, <1>5, <1>6, <1>7, <1>8, <1>9

(* Different blocks have different and disjoint payloads.                  *)
LEMMA PayloadsApart ==
  ASSUME NEW H \in Ready, NEW b \in Used(H), NEW c \in Used(H), b # c
  PROVE  /\ PayloadOf(b).lo # PayloadOf(c).lo
         /\ D!Disjoint(PayloadOf(b), PayloadOf(c))
<1>1. b[2] <= c[1] \/ c[2] <= b[1]
  BY UsedBlocks
<1> DEFINE e == PayloadOf(b)
           f == PayloadOf(c)
<1>2. /\ b[1] \in Nat /\ b[2] \in Nat /\ b[2] - b[1] >= 3
      /\ e.lo = 16 * (b[1] + 1) /\ e.hi = 16 * (b[2] - 1) - 1
  BY PayloadFacts
<1>3. /\ c[1] \in Nat /\ c[2] \in Nat /\ c[2] - c[1] >= 3
      /\ f.lo = 16 * (c[1] + 1) /\ f.hi = 16 * (c[2] - 1) - 1
  BY PayloadFacts
<1> HIDE DEF e, f
<1>4. e.lo # f.lo /\ D!Disjoint(e, f)
  BY <1>1, <1>2, <1>3 DEF D!Disjoint
<1> QED
  BY <1>4 DEF e, f

(* The payloads are aligned, mapped and disjoint.                          *)
LEMMA GivenKept == ASSUME NEW H \in Ready PROVE D!Kept(H)
<1>0. H \in P!HeapType
  BY ReadySound DEF States
<1>1. MappedPages(H) \subseteq Int
  BY <1>0, MappedHeap
<1>2. Held(H) = {e.lo : e \in Given(H)}
  <2>1. M!BlocksOf(H, 1) = Used(H)
    BY SameFunctions DEF Used
  <2>2. \A b : PayloadOf(b).lo = Addr(b[1] + M!HDRSIZE)
    BY DEF PayloadOf
  <2> QED
    BY <2>1, <2>2 DEF Held, Given
<1>3. ASSUME NEW e \in Given(H)
      PROVE  /\ e \in D!Extents /\ e.lo # D!NULL /\ e.lo <= e.hi
             /\ e.lo % M!ALIGNMENT = 0
             /\ D!PagesOf(D!Bytes(e)) \subseteq MappedPages(H)
  <2>1. PICK b \in Used(H) : e = PayloadOf(b)
    BY DEF Given
  <2>2. /\ e.lo \in Nat /\ e.lo > 0 /\ e.lo <= e.hi /\ e.lo % 16 = 0 /\ e \in D!Extents
        /\ \A a \in e.lo .. e.hi : a \div PAGE \in MappedPages(H)
    BY <2>1, PayloadFacts
  <2> QED
    BY <2>2 DEF D!NULL, M!ALIGNMENT, D!PagesOf, D!Bytes
<1>4. ASSUME NEW e \in Given(H), NEW f \in Given(H) PROVE e = f \/ D!Disjoint(e, f)
  <2>1. PICK b \in Used(H) : e = PayloadOf(b)
    BY DEF Given
  <2>2. PICK c \in Used(H) : f = PayloadOf(c)
    BY DEF Given
  <2> QED
    BY <2>1, <2>2, PayloadsApart
<1> QED
  BY <1>1, <1>2, <1>3, <1>4 DEF D!Kept

-----------------------------------------------------------------------------
(* Every call of the driver.                                               *)

(* mm_malloc with the granules of the payload cut. *)
LEMMA MallocGives ==
  ASSUME NEW H \in Ready, NEW n \in Requested, n # 0, NEW r \in mm_malloc(H, n)
  PROVE  /\ D!Gives(H, n, r)
         /\ \E t : Takes(H, r.alloc, t, n) /\ r.p = PayloadOf(t).lo
<1>1. PICK s \in P!Malloc(H, n) : r = [p |-> Addr(s.p), alloc |-> s.heap]
  BY SameFunctions DEF mm_malloc
<1>2. PICK t : Takes(H, s.heap, t, n) /\ s.p = t[1] + 1
  BY MallocTakes
<1> DEFINE K == s.heap
           e == PayloadOf(t)
<1>3. r.p = Addr(t[1] + 1) /\ r.alloc = K
  BY <1>1, <1>2
<1>4. /\ K \in Ready /\ Used(K) = Used(H) \cup {t} /\ t \notin Used(H)
      /\ P!TotalSize(n) <= P!Size(t)
  BY <1>2 DEF Takes
<1> HIDE DEF K
<1>5. t \in Used(K)
  BY <1>4
<1>6. /\ t[1] \in Nat /\ t[2] \in Nat
      /\ e.lo = 16 * (t[1] + 1) /\ e.hi = 16 * (t[2] - 1) - 1
  BY <1>4, <1>5, PayloadFacts
<1>7. r.p = e.lo
  BY <1>3 DEF Addr, PayloadOf, M!HDRSIZE
<1>8. e.lo + n - 1 <= e.hi
  <2>1. /\ P!ALIGN(n) \in Nat /\ n <= 16 * P!ALIGN(n) /\ P!TotalSize(n) = P!ALIGN(n) + 2
        /\ n \in Nat
    BY Constants, Layouts, P!SizesSuffice
  <2>2. P!ALIGN(n) + 2 <= t[2] - t[1]
    BY <1>4, <2>1 DEF P!Size
  <2> HIDE DEF e
  <2> QED
    BY <1>6, <2>1, <2>2
<1>9. Given(K) = Given(H) \cup {e}
  BY <1>4 DEF Given
<1>10. e \notin Given(H)
  <2> SUFFICES ASSUME NEW c \in Used(H), e = PayloadOf(c) PROVE FALSE
    BY DEF Given
  <2>1. c \in Used(K) /\ c # t
    BY <1>4
  <2> QED
    BY <1>4, <1>5, <2>1, PayloadsApart
<1> HIDE DEF e
<1>11. e \in Given(K)
  BY <1>9
<1>12. D!Gives(H, n, r)
  BY <1>3, <1>4, <1>7, <1>8, <1>9, <1>10, <1>11 DEF D!Gives
<1> QED
  BY <1>2, <1>3, <1>7, <1>12 DEF K, e

(* mm_free with the block given back. *)
LEMMA FreeTakesBack ==
  ASSUME NEW H \in Ready, NEW b \in Used(H), NEW K \in mm_free(H, PayloadOf(b).lo)
  PROVE  D!TakesBack(H, PayloadOf(b).lo, K) /\ Releases(H, K, b)
<1>1. Granule(PayloadOf(b).lo) = b[1] + 1
  BY PayloadFacts
<1>2. K = P!Free(H, b[1] + 1)
  BY <1>1, SameFunctions DEF mm_free
<1>3. Releases(H, K, b)
  BY <1>2, FreeReleases
<1>4. K \in Ready /\ Used(K) = Used(H) \ {b}
  BY <1>3 DEF Releases
<1>5. \A c \in Used(H) : c # b => PayloadOf(c).lo # PayloadOf(b).lo
  BY PayloadsApart
<1>6. Given(K) = {e \in Given(H) : e.lo # PayloadOf(b).lo}
  <2> DEFINE Q(c) == PayloadOf(c)
  <2>1. Given(K) = {Q(c) : c \in Used(H) \ {b}} /\ Given(H) = {Q(c) : c \in Used(H)}
    BY <1>4 DEF Given
  <2>2. \A c \in Used(H) : c # b => Q(c).lo # Q(b).lo
    BY <1>5
  <2> HIDE DEF Q
  <2>3. Given(K) = {e \in Given(H) : e.lo # Q(b).lo}
    BY <2>1, <2>2
  <2> QED
    BY <2>3 DEF Q
<1> QED
  BY <1>3, <1>4, <1>6 DEF D!TakesBack

(* memset of n bytes from the start of a payload. *)
LEMMA MemsetWrites ==
  ASSUME NEW H \in Ready, NEW b \in Used(H), NEW n \in Nat, n > 0, NEW i \in Ids,
         PayloadOf(b).lo + n - 1 <= PayloadOf(b).hi
  PROVE  Writes(H, memset(H, PayloadOf(b).lo, n, i),
                b[1] + 1 .. Granule(PayloadOf(b).lo + n - 1), <<i * WORD, i * WORD>>)
<1> DEFINE e == PayloadOf(b)
           h == Granule(e.lo + n - 1)
           w == <<i * WORD, i * WORD>>
           G == b[1] + 1 .. h
<1>1. /\ b[1] \in Nat /\ b[2] \in Nat /\ b[2] - b[1] >= 3
      /\ e.lo = 16 * (b[1] + 1) /\ e.hi = 16 * (b[2] - 1) - 1
      /\ Granule(e.lo) = b[1] + 1
  BY PayloadFacts
<1>2. h \in Int /\ b[1] + 1 <= h /\ h < b[2] - 1
  <2> DEFINE a == e.lo + n - 1
             g == a \div 16
  <2>1. a \in Nat /\ e.lo <= a /\ a <= e.hi
    BY <1>1
  <2> HIDE DEF a, e
  <2>2. g \in Int /\ 16 * g <= a /\ a < 16 * g + 16
    BY <2>1, PageOfGranule
  <2>3. h = g
    BY DEF Granule, M!ALIGNMENT, a
  <2> HIDE DEF g, h
  <2> QED
    BY <1>1, <2>1, <2>2, <2>3
<1>3. w \in Nat \X Nat
  <2>1. i \in Nat /\ WORD \in Nat
    BY Constants
  <2> QED
    BY <2>1
<1>4. memset(H, e.lo, n, i) = P!Fill(H, G, w)
  BY <1>1, SameFunctions DEF memset
<1> HIDE DEF e, h, w
<1>5. Writes(H, P!Fill(H, G, w), G, w)
  BY <1>2, <1>3, FillWrites
<1> QED
  BY <1>4, <1>5 DEF e, h, w

(* mm_init in a state it may be called in. *)
LEMMA InitStarts ==
  ASSUME NEW H \in States
  PROVE  /\ M!InitHeap(H) \in Ready /\ Given(M!InitHeap(H)) = {}
         /\ MappedPages(M!InitHeap(H)) = MappedPages(H)
<1> DEFINE K == P!InitHeap(H)
<1>1. M!InitHeap(H) = K
  BY SameFunctions
<1>2. P!Rep(K, {}, {}, {}) /\ P!NoFull({}, {}) /\ K.mapped = H.mapped
  BY Layouts, P!InitCall DEF States
<1> HIDE DEF K
<1>3. Sound(K, {}, {}, {})
  BY <1>2 DEF Sound, Whole
<1>4. K \in Ready /\ Used(K) = {}
  BY <1>3, SoundReads
<1> QED
  BY <1>1, <1>2, <1>4 DEF Given, MappedPages

(* mem_reset, and the state before the first call. *)
LEMMA ResetStarts ==
  /\ \A H \in States : M!ResetHeap(H) \in States /\ MappedPages(M!ResetHeap(H)) = {}
  /\ M!EmptyHeap \in States /\ MappedPages(M!EmptyHeap) = {}
<1>1. ASSUME NEW H \in States
      PROVE  M!ResetHeap(H) \in States /\ MappedPages(M!ResetHeap(H)) = {}
  <2> DEFINE K == P!ResetHeap(H)
  <2>1. M!ResetHeap(H) = K
    BY SameFunctions
  <2>2. K \in P!HeapType /\ K.mapped = {} /\ K.crashed = FALSE
    BY Layouts, P!ResetCall DEF States
  <2> HIDE DEF K
  <2> QED
    BY <2>1, <2>2 DEF States, MappedPages
<1>2. M!EmptyHeap \in States /\ MappedPages(M!EmptyHeap) = {}
  <2> DEFINE K == P!EmptyHeap
  <2>1. M!EmptyHeap = K
    BY SameFunctions
  <2>2. K \in P!HeapType /\ K.mapped = {} /\ K.crashed = FALSE
    BY Layouts DEF P!EmptyHeap, P!HeapType, P!Zero, P!Word, P!Address, P!NULL
  <2> HIDE DEF K
  <2> QED
    BY <2>1, <2>2 DEF States, MappedPages
<1> QED
  BY <1>1, <1>2

(* mm.c keeps the contract that the proofs about the driver rest on.       *)
THEOREM MmKeepsContract == D!KeepsContract
<1>1. M!EmptyHeap \in States /\ MappedPages(M!EmptyHeap) = {}
  BY ResetStarts
<1>2. ASSUME NEW H \in States
      PROVE  /\ ~ Aborted(H) /\ D!IsFiniteSet(MappedPages(H))
             /\ \A r \in mm_init(H) : /\ r.ok /\ r.alloc \in Ready /\ Given(r.alloc) = {}
                                      /\ MappedPages(H) = {} => MappedPages(r.alloc) = {}
  <2>1. ~ Aborted(H) /\ H \in P!HeapType
    BY DEF Aborted, States
  <2>2. D!IsFiniteSet(MappedPages(H))
    BY <2>1, MappedHeap
  <2>3. ASSUME NEW r \in mm_init(H)
        PROVE  /\ r.ok /\ r.alloc \in Ready /\ Given(r.alloc) = {}
               /\ MappedPages(H) = {} => MappedPages(r.alloc) = {}
    <3>1. r.ok /\ r.alloc = M!InitHeap(H)
      BY DEF mm_init
    <3> QED
      BY <3>1, InitStarts
  <2> QED
    BY <2>1, <2>2, <2>3
<1>3. ASSUME NEW H \in Ready
      PROVE  /\ H \in States /\ D!Kept(H)
             /\ mem_reset(H) \in States /\ MappedPages(mem_reset(H)) = {}
             /\ \A r \in mm_malloc(H, 0) : r.p = D!NULL /\ r.alloc \in States
             /\ \A n \in Nat \ {0} : D!Asked(n) => \A r \in mm_malloc(H, n) : D!Gives(H, n, r)
             /\ \A e \in Given(H) : \A K \in mm_free(H, e.lo) : D!TakesBack(H, e.lo, K)
             /\ \A e \in Given(H) : \A n \in Nat \ {0} : \A i \in Ids : e.lo + n - 1 <= e.hi =>
                  /\ memset(H, e.lo, n, i) \in Ready
                  /\ Given(memset(H, e.lo, n, i)) = Given(H)
  <2>1. H \in States /\ D!Kept(H)
    BY ReadySound, GivenKept
  <2>2. mem_reset(H) \in States /\ MappedPages(mem_reset(H)) = {}
    BY <2>1, ResetStarts DEF mem_reset
  <2>3. ASSUME NEW r \in mm_malloc(H, 0) PROVE r.p = D!NULL /\ r.alloc \in States
    <3>1. r = [p |-> 0, alloc |-> H]
      BY DEF mm_malloc, NULL
    <3> QED
      BY <2>1, <3>1 DEF D!NULL
  <2>4. ASSUME NEW n \in Nat \ {0}, D!Asked(n), NEW r \in mm_malloc(H, n) PROVE D!Gives(H, n, r)
    <3>1. n \in Requested /\ n # 0
      BY <2>4 DEF D!Asked, Requested
    <3> QED
      BY <3>1, MallocGives
  <2>5. ASSUME NEW e \in Given(H), NEW K \in mm_free(H, e.lo) PROVE D!TakesBack(H, e.lo, K)
    <3>1. PICK b \in Used(H) : e = PayloadOf(b)
      BY DEF Given
    <3> QED
      BY <3>1, FreeTakesBack
  <2>6. ASSUME NEW e \in Given(H), NEW n \in Nat \ {0}, NEW i \in Ids, e.lo + n - 1 <= e.hi
        PROVE  /\ memset(H, e.lo, n, i) \in Ready
               /\ Given(memset(H, e.lo, n, i)) = Given(H)
    <3> DEFINE K == memset(H, e.lo, n, i)
    <3>1. PICK b \in Used(H) : e = PayloadOf(b)
      BY DEF Given
    <3>2. K \in Ready /\ Used(K) = Used(H)
      BY <2>6, <3>1, MemsetWrites DEF Writes
    <3> HIDE DEF K
    <3>3. K \in Ready /\ Given(K) = Given(H)
      BY <3>2 DEF Given
    <3> QED
      BY <3>3 DEF K
  <2> QED
    BY <2>1, <2>2, <2>3, <2>4, <2>5, <2>6
<1> QED
  BY <1>1, <1>2, <1>3 DEF D!KeepsContract

-----------------------------------------------------------------------------
(* The program is the driver with that allocator.                          *)
LEMMA SameProgram ==
  /\ Spec <=> D!Spec
  /\ Prog!Evaluations = D!Evaluations /\ Prog!LiveIds = D!LiveIds
<1>1. D!Init = Prog!Init
  BY DEF D!Init, Prog!Init, D!NULL, Prog!NULL, D!NoBlocks, Prog!NoBlocks, D!NoStats,
     Prog!NoStats, D!Unvalid, Prog!Unvalid
<1>2. D!Next = Prog!Next
  BY DEF D!Accepts, Prog!Accepts, D!AtEnd, Prog!AtEnd, D!Cardinality, Prog!Cardinality,
     D!Ended, Prog!Ended, D!Extent, Prog!Extent, D!HeaderHolds, Prog!HeaderHolds, D!Max,
     Prog!Max, D!MayFail, Prog!MayFail, D!Min, Prog!Min, D!MustFail, Prog!MustFail,
     D!NULL, Prog!NULL, D!Next, Prog!Next, D!NoBlocks, Prog!NoBlocks, D!NoStats,
     Prog!NoStats, D!Overlaps, Prog!Overlaps, D!Probes, Prog!Probes, D!Refused,
     Prog!Refused, D!Remember, Prog!Remember, D!RemoveAt, Prog!RemoveAt, D!Running,
     Prog!Running, D!SelectInSeq, Prog!SelectInSeq, D!Served, Prog!Served,
     D!Terminating, Prog!Terminating, D!ToSet, Prog!ToSet, D!Unused, Prog!Unused,
     D!Update, Prog!Update, D!add_range, Prog!add_range, D!advance, Prog!advance,
     D!app_error, Prog!app_error, D!assert_fails, Prog!assert_fails, D!control,
     Prog!control, D!enter, Prog!enter, D!eval_libc, Prog!eval_libc, D!eval_mm_speed,
     Prog!eval_mm_speed, D!eval_mm_util, Prog!eval_mm_util, D!eval_mm_valid,
     Prog!eval_mm_valid, D!exit, Prog!exit, D!overrun, Prog!overrun, D!is_mapped, Prog!is_mapped, D!libc_alloc,
     Prog!libc_alloc, D!libc_done, Prog!libc_done, D!libc_enter, Prog!libc_enter,
     D!libc_exit, Prog!libc_exit, D!libc_fails, Prog!libc_fails, D!libc_free,
     Prog!libc_free, D!libc_gives, Prog!libc_gives, D!libc_speed_realloc,
     Prog!libc_speed_realloc, D!libc_valid_realloc, Prog!libc_valid_realloc,
     D!mem_heapsize, Prog!mem_heapsize, D!next_trace, Prog!next_trace, D!op, Prog!op,
     D!read_trace, Prog!read_trace, D!realloc_total, Prog!realloc_total, D!remove_range,
     Prog!remove_range, D!report, Prog!report, D!results, Prog!results, D!speed_alloc,
     Prog!speed_alloc, D!speed_enter, Prog!speed_enter, D!speed_error, Prog!speed_error,
     D!speed_exit, Prog!speed_exit, D!speed_free, Prog!speed_free, D!speed_realloc,
     Prog!speed_realloc, D!trace, Prog!trace, D!util_alloc, Prog!util_alloc,
     D!util_enter, Prog!util_enter, D!util_exit, Prog!util_exit, D!util_free,
     Prog!util_free, D!util_realloc, Prog!util_realloc, D!valid_alloc, Prog!valid_alloc,
     D!valid_enter, Prog!valid_enter, D!valid_exit, Prog!valid_exit, D!valid_fail,
     Prog!valid_fail, D!valid_free, Prog!valid_free, D!valid_realloc,
     Prog!valid_realloc, D!vars, Prog!vars
<1>3. D!Evaluations = Prog!Evaluations /\ D!LiveIds = Prog!LiveIds
  BY DEF D!Before, Prog!Before, D!Evaluations, Prog!Evaluations, D!LiveIds,
     Prog!LiveIds, D!trace, Prog!trace
<1>4. Prog!Init <=> D!Init
  BY <1>1
<1>5. [Prog!Next]_(Prog!vars) <=> [D!Next]_(D!vars)
  <2>1. UNCHANGED Prog!vars <=> UNCHANGED D!vars
    BY DEF D!control, Prog!control, D!results, Prog!results, D!vars, Prog!vars
  <2> QED
    BY <1>2, <2>1
<1>6. Spec <=> D!Spec
  BY <1>4, <1>5, PTL DEF Spec, Prog!Spec, D!Spec
<1> QED
  BY <1>3, <1>6

(* The files agree with their headers. *)
GoodHeaders == \A f \in TraceFiles : Prog!HeaderHolds(f)

(* Then all that is proved of the driver holds.                            *)
LEMMA DriverTrusts == GoodHeaders => D!Trusted
<1> SUFFICES ASSUME GoodHeaders PROVE D!Trusted
  OBVIOUS
<1>1. D!KeepsContract
  BY MmKeepsContract
<1>2. ASSUME NEW f \in TraceFiles
      PROVE  D!HeaderHolds(f) /\ \A n \in DOMAIN f.ops : f.ops[n].cmd # "f" => f.ops[n].size >= 0
  <2> DEFINE R == [cmd : {"a", "r", "f"}, id : Ids, size : Nat]
  <2>1. D!HeaderHolds(f)
    BY DEF GoodHeaders, D!HeaderHolds, Prog!HeaderHolds, D!Max, Prog!Max
  <2>2. f.ops \in Seq(R)
    BY LabAssumption
  <2> HIDE DEF R
  <2>3. \A n \in DOMAIN f.ops : f.ops[n] \in R
    BY <2>2
  <2> QED
    BY <2>1, <2>3 DEF R
<1> QED
  BY <1>1, <1>2 DEF D!Trusted, D!GoodFiles

(* mm.c passes: the driver counts an error for a trace that asks for no    *)
(* bytes and for no other, no evaluation ends early, and mm.c neither      *)
(* loads or stores outside its pages nor aborts, in write_footer or in     *)
(* mem_unmap.                                                              *)
THEOREM BlamesRightly ==
  ASSUME GoodHeaders
  PROVE  Spec => []BlamedForEmptyOnly
<1>1. D!Trusted
  BY DriverTrusts
<1>2. D!Spec => []D!BlamedForEmpty
  BY <1>1, DriverConstants, D!BlamedFairly
<1>3. D!BlamedForEmpty => BlamedForEmptyOnly
  <2>1. \A f : D!HasEmpty(f) <=> HasEmpty(f)
    BY DEF D!HasEmpty, HasEmpty
  <2>2. \A S : D!Cardinality(S) = Cardinality(S)
    BY DEF D!Cardinality, Cardinality
  <2>3. Aborted(heap) <=> heap.crashed
    BY DEF Aborted
  <2> QED
    BY <2>1, <2>2, <2>3, SameProgram DEF D!BlamedForEmpty, BlamedForEmptyOnly
<1> QED
  BY <1>2, <1>3, SameProgram, PTL

(* The driver's books are exact when it runs mm.c: the ranges and the      *)
(* recorded addresses are those of the blocks mm.c has given out, only     *)
(* these are freed, the statistics are right, and what add_range accepts   *)
(* is mapped.                                                              *)
THEOREM BooksExact ==
  ASSUME GoodHeaders
  PROVE  /\ Spec => []D!RangesExact
         /\ Spec => []D!FreesHeld
         /\ Spec => []D!UtilSound
         /\ Spec => D!AcceptedIsMapped
<1>1. D!Trusted
  BY DriverTrusts
<1>2. /\ D!Spec => []D!RangesExact
      /\ D!Spec => []D!FreesHeld
      /\ D!Spec => []D!UtilSound
      /\ D!Spec => D!AcceptedIsMapped
  BY <1>1, DriverConstants, D!RangesCorrect, D!FreesCorrect, D!UtilCorrect, D!AcceptedStaysMapped
<1> QED
  BY <1>2, SameProgram

-----------------------------------------------------------------------------
(* The client's data. *)

(* K holds what H holds in the granules of payload e. *)
SameData(H, K, e) == \A g \in Granule(e.lo) .. Granule(e.hi) : K.mem[g] = H.mem[g]

(* The n bytes at p hold what the driver writes for id i. *)
Stored(H, p, n, i) == \A g \in Granule(p) .. Granule(p + n - 1) : H.mem[g] = <<i * WORD, i * WORD>>

(* The blocks b[i] of s[i] bytes hold what the driver wrote for their ids. *)
Filled(b, s, S, H) == \A i \in S : Stored(H, b[i], s[i], i)

(* Granules are in the order of their bytes. *)
LEMMA GranuleMonotone ==
  ASSUME NEW a \in Nat, NEW c \in Nat, a <= c
  PROVE  Granule(a) \in Nat /\ Granule(c) \in Nat /\ Granule(a) <= Granule(c)
BY DEF Granule, M!ALIGNMENT

(* The granules of a payload are those of its block between header and     *)
(* footer.                                                                 *)
LEMMA PayloadGranules ==
  ASSUME NEW H \in Ready, NEW b \in Used(H), NEW e, e = PayloadOf(b),
         NEW g \in Granule(e.lo) .. Granule(e.hi)
  PROVE  /\ b[1] \in Nat /\ b[2] \in Nat /\ g \in Nat /\ b[1] + 1 <= g /\ g < b[2] - 1
         /\ g \in P!Cells(b) /\ g \in P!Granule
<1>1. /\ b[1] \in Nat /\ b[2] \in Nat /\ b[2] - b[1] >= 3
      /\ Granule(e.lo) = b[1] + 1 /\ e.hi = 16 * (b[2] - 1) - 1
  BY PayloadFacts
<1>2. Granule(e.hi) = b[2] - 2
  <2>1. e.hi \div 16 = b[2] - 2
    BY <1>1, Layouts, P!DivUnique
  <2> QED
    BY <2>1 DEF Granule, M!ALIGNMENT
<1>3. g \in Nat /\ b[1] + 1 <= g /\ g < b[2] - 1
  BY <1>1, <1>2
<1>4. g \in b[1] .. b[2] - 1
  BY <1>1, <1>3
<1>5. g \in P!Granule
  BY <1>4, UsedBlocks DEF P!BlockAt
<1> QED
  BY <1>1, <1>3, <1>4, <1>5 DEF P!Cells

(* mm_malloc writes into no payload. *)
LEMMA MallocKeepsData ==
  ASSUME NEW H \in Ready, NEW n \in Requested, n # 0, NEW r \in mm_malloc(H, n), NEW e \in Given(H)
  PROVE  SameData(H, r.alloc, e)
<1>1. PICK t : Takes(H, r.alloc, t, n)
  BY MallocGives
<1>2. PICK b \in Used(H) : e = PayloadOf(b)
  BY DEF Given
<1>3. \A x \in P!Cells(b) : r.alloc.mem[x] = H.mem[x]
  BY <1>1 DEF Takes, P!Kept
<1> QED
  BY <1>2, <1>3, PayloadGranules DEF SameData

(* mm_free writes into no payload that is left. *)
LEMMA FreeKeepsData ==
  ASSUME NEW H \in Ready, NEW e \in Given(H), NEW K \in mm_free(H, e.lo), NEW f \in Given(H), f.lo # e.lo
  PROVE  SameData(H, K, f)
<1>1. PICK b \in Used(H) : e = PayloadOf(b)
  BY DEF Given
<1>2. PICK c \in Used(H) : f = PayloadOf(c)
  BY DEF Given
<1>3. Releases(H, K, b)
  BY <1>1, FreeTakesBack
<1>4. c \in Used(K)
  BY <1>1, <1>2, <1>3 DEF Releases
<1>5. \A x \in P!Cells(c) : K.mem[x] = H.mem[x]
  BY <1>3, <1>4 DEF Releases, P!Kept
<1> QED
  BY <1>2, <1>5, PayloadGranules DEF SameData

(* memset writes the id into the bytes of its payload asked for, and into  *)
(* no other payload.                                                       *)
LEMMA MemsetKeepsData ==
  ASSUME NEW H \in Ready, NEW e \in Given(H), NEW n \in Nat, n > 0, NEW i \in Ids, e.lo + n - 1 <= e.hi,
         NEW K, K = memset(H, e.lo, n, i)
  PROVE  /\ K \in Ready /\ Given(K) = Given(H)
         /\ Stored(K, e.lo, n, i)
         /\ \A f \in Given(H) : f.lo # e.lo => SameData(H, K, f)
<1>1. PICK b \in Used(H) : e = PayloadOf(b)
  BY DEF Given
<1> DEFINE G == b[1] + 1 .. Granule(e.lo + n - 1)
           w == <<i * WORD, i * WORD>>
<1>2. Writes(H, K, G, w) /\ Granule(e.lo) = b[1] + 1
  BY <1>1, MemsetWrites, PayloadFacts
<1>3. /\ e.lo \in Nat /\ e.hi \in Nat /\ b[1] \in Nat /\ b[2] \in Nat
      /\ Granule(e.lo + n - 1) \in Nat /\ Granule(e.lo + n - 1) < b[2] - 1
  <2>1. /\ e.lo \in Nat /\ e.hi \in Nat /\ b[1] \in Nat /\ b[2] \in Nat
        /\ e.lo <= e.hi
    BY <1>1, PayloadFacts
  <2>2. e.lo + n - 1 \in Nat
    BY <2>1
  <2>3. Granule(e.lo + n - 1) \in Nat /\ Granule(e.lo + n - 1) <= Granule(e.hi)
    BY <2>1, <2>2, GranuleMonotone
  <2>4. Granule(e.lo) \in Nat /\ Granule(e.hi) \in Nat /\ Granule(e.lo) <= Granule(e.hi)
    BY <2>1, GranuleMonotone
  <2>5. Granule(e.hi) \in Granule(e.lo) .. Granule(e.hi)
    BY <2>4
  <2>6. Granule(e.hi) < b[2] - 1
    BY <1>1, <2>5, PayloadGranules
  <2> QED
    BY <2>1, <2>3, <2>4, <2>6
<1>4. ASSUME NEW f \in Given(H), f.lo # e.lo, NEW g \in Granule(f.lo) .. Granule(f.hi)
      PROVE  K.mem[g] = H.mem[g]
  <2>1. PICK c \in Used(H) : f = PayloadOf(c)
    BY DEF Given
  <2>2. c[2] <= b[1] \/ b[2] <= c[1]
    BY <1>1, <1>4, <2>1, UsedBlocks
  <2>3. c[1] \in Nat /\ c[2] \in Nat /\ g \in Nat /\ c[1] + 1 <= g /\ g < c[2] - 1 /\ g \in P!Granule
    BY <2>1, <1>4, PayloadGranules
  <2>4. g \notin G
    BY <1>3, <2>2, <2>3
  <2> QED
    BY <1>2, <2>3, <2>4 DEF Writes
<1>5. K \in Ready /\ Used(K) = Used(H) /\ \A g \in G : K.mem[g] = w
  BY <1>2 DEF Writes
<1> QED
  BY <1>2, <1>4, <1>5 DEF Given, SameData, Stored

(* Data stay when the payloads they lie in are left alone.                 *)
LEMMA FilledKept ==
  ASSUME NEW H, NEW K, NEW b, NEW s, NEW S, NEW Q, D!Covered(b, s, S, Q), Q \subseteq D!Extents,
         Filled(b, s, S, H), \A e \in Q : SameData(H, K, e)
  PROVE  Filled(b, s, S, K)
<1> SUFFICES ASSUME NEW i \in S, NEW g \in Granule(b[i]) .. Granule(b[i] + s[i] - 1)
             PROVE  K.mem[g] = <<i * WORD, i * WORD>>
  BY DEF Filled, Stored
<1>1. PICK e \in Q : b[i] = e.lo /\ b[i] + s[i] - 1 <= e.hi
  BY DEF D!Covered
<1>2. e.lo \in Nat /\ e.hi \in Nat /\ s[i] \in Nat /\ s[i] > 0
  BY DEF D!Covered, D!Extents
<1>3. b[i] + s[i] - 1 \in Nat
  BY <1>1, <1>2
<1>4. /\ Granule(b[i] + s[i] - 1) \in Nat /\ Granule(e.hi) \in Nat
      /\ Granule(b[i] + s[i] - 1) <= Granule(e.hi)
  BY <1>1, <1>2, <1>3, GranuleMonotone
<1>5. Granule(e.lo) \in Nat
  BY <1>2, GranuleMonotone
<1>6. g \in Granule(e.lo) .. Granule(e.hi)
  BY <1>1, <1>4, <1>5
<1>7. K.mem[g] = H.mem[g]
  BY <1>6 DEF SameData
<1> QED
  BY <1>7 DEF Filled, Stored

(* The data are kept wherever a trace's blocks lie in payloads. *)
DataOK == phase = "valid" /\ opnum > 0 => Filled(blocks, block_sizes, D!LiveIds, heap)

(* What a request does to the data. *)
DataServed ==
  /\ \A f \in D!OtherPayloads : SameData(heap, heap', f)
  /\ D!op.cmd = "f" => UNCHANGED <<blocks, block_sizes>>
  /\ D!op.cmd # "f" =>
       /\ \E p : blocks' = [blocks EXCEPT ![D!op.id] = p]
       /\ block_sizes' = [block_sizes EXCEPT ![D!op.id] = D!op.size]
       /\ Stored(heap', blocks'[D!op.id], D!op.size, D!op.id)

(* mm_malloc and memset for a request. *)
LEMMA RequestWrites ==
  ASSUME D!Trusted, D!ContractInv, NEW c \in {"a", "r"}, D!Running("valid", c), D!op.size # 0,
         NEW r \in mm_malloc(heap, D!op.size), NEW n, n = D!op.size, NEW i, i = D!op.id,
         NEW W, W = memset(r.alloc, r.p, n, i)
  PROVE  /\ n \in Nat /\ n > 0 /\ i \in Ids /\ heap \in Ready
         /\ \E e : /\ r.p = e.lo /\ e \in Given(r.alloc) /\ e \notin Given(heap)
                   /\ Given(r.alloc) = Given(heap) \cup {e} /\ e.lo + n - 1 <= e.hi
                   /\ \A f \in Given(heap) : f.lo # e.lo
         /\ r.alloc \in Ready
         /\ \A f \in Given(heap) : SameData(heap, W, f)
         /\ W \in Ready /\ Given(W) = Given(r.alloc)
         /\ Stored(W, r.p, n, i)
<1>0. /\ D!KeepsContract /\ D!GoodFiles /\ D!ControlOK /\ D!MemoryOK /\ D!HeapOK
      /\ "valid" \in D!Phases /\ "valid" \in D!Evaluations
  BY DEF D!Trusted, D!ContractInv, D!Phases, D!Evaluations
<1>1. n \in Nat /\ n > 0 /\ \E e : D!IsGiven(heap, n, r, e)
  BY <1>0, DriverConstants, D!NeverRefused
<1>2. D!Asked(n) /\ heap \in Ready /\ i \in Ids
  BY <1>0, DriverConstants, D!SizeAsked, D!IsReady, D!RunningFacts
<1>3. n \in Requested /\ n # 0
  BY <1>1, <1>2 DEF D!Asked, Requested
<1>4. PICK e : D!IsGiven(heap, n, r, e)
  BY <1>1
<1>5. /\ r.alloc \in Ready /\ e \in Given(r.alloc) /\ Given(r.alloc) = Given(heap) \cup {e}
      /\ r.p = e.lo /\ e.lo + n - 1 <= e.hi /\ \A f \in Given(heap) : f.lo # e.lo
  BY <1>4 DEF D!IsGiven
<1>6. /\ W \in Ready /\ Given(W) = Given(r.alloc)
      /\ Stored(W, e.lo, n, i)
      /\ \A f \in Given(r.alloc) : f.lo # e.lo => SameData(r.alloc, W, f)
  <2> DEFINE A == r.alloc
  <2>1. W = memset(A, e.lo, n, i)
    BY <1>5
  <2>2. A \in Ready /\ e \in Given(A) /\ e.lo + n - 1 <= e.hi
    BY <1>5
  <2>3. n \in Nat /\ n > 0 /\ i \in Ids
    BY <1>1, <1>2
  <2> HIDE DEF A
  <2>4. /\ W \in Ready /\ Given(W) = Given(A)
        /\ Stored(W, e.lo, n, i)
        /\ \A f \in Given(A) : f.lo # e.lo => SameData(A, W, f)
    BY <2>1, <2>2, <2>3, MemsetKeepsData
  <2> QED
    BY <2>4 DEF A
<1>7. ASSUME NEW f \in Given(heap) PROVE SameData(heap, W, f)
  <2>1. SameData(heap, r.alloc, f)
    BY <1>1, <1>2, <1>3, MallocKeepsData
  <2>2. SameData(r.alloc, W, f)
    BY <1>5, <1>6
  <2> QED
    BY <2>1, <2>2 DEF SameData
<1>8. e \notin Given(heap)
  BY <1>5
<1> QED
  BY <1>1, <1>2, <1>5, <1>6, <1>7, <1>8

(* Every step within eval_mm_valid serves the data. *)
LEMMA ValidServes ==
  ASSUME D!Trusted, D!ContractInv, D!eval_mm_valid, phase' = "valid", opnum > 0
  PROVE  /\ DataServed /\ D!advance /\ UNCHANGED files /\ phase = "valid"
         /\ opnum \in DOMAIN D!trace
<1>0. /\ D!KeepsContract /\ D!GoodFiles /\ D!ControlOK /\ D!MemoryOK /\ D!HeapOK
      /\ "valid" \in D!Phases /\ "valid" \in D!Evaluations /\ UNCHANGED files
      /\ blocks \in [Ids -> Nat] /\ block_sizes \in [Ids -> Nat]
  BY DEF D!Trusted, D!ContractInv, D!Phases, D!Evaluations, D!eval_mm_valid, D!MemoryOK, D!ArraysOK
<1>1. D!valid_alloc \/ D!valid_realloc \/ D!valid_free
  BY DEF D!eval_mm_valid, D!valid_enter, D!valid_exit, D!enter
<1>2. ASSUME NEW c \in {"a", "r"}, D!Running("valid", c), NEW r \in mm_malloc(heap, D!op.size),
             D!Remember(r.p), D!advance, D!op.size # 0,
             NEW W, W = memset(r.alloc, r.p, D!op.size, D!op.id),
             IF c = "a" THEN heap' = W ELSE heap' \in mm_free(W, blocks[D!op.id])
      PROVE  DataServed
  <2> DEFINE n == D!op.size
             i == D!op.id
  <2>0. D!op.cmd = c
    BY <1>2 DEF D!Running
  <2>a. n = D!op.size /\ i = D!op.id /\ W = memset(r.alloc, r.p, n, i) /\ D!op.size # 0
    BY <1>2
  <2>b. c \in {"a", "r"} /\ D!Running("valid", c) /\ r \in mm_malloc(heap, D!op.size)
    BY <1>2
  <2> HIDE DEF n, i
  <2>1. /\ n \in Nat /\ n > 0 /\ i \in Ids /\ heap \in Ready
        /\ W \in Ready /\ Given(W) = Given(r.alloc)
        /\ \A f \in Given(heap) : SameData(heap, W, f)
        /\ Stored(W, r.p, n, i)
    BY <2>a, <2>b, RequestWrites
  <2> USE DEF n, i
  <2>2. PICK e : /\ r.p = e.lo /\ e \in Given(r.alloc) /\ Given(r.alloc) = Given(heap) \cup {e}
                 /\ e.lo + n - 1 <= e.hi /\ \A f \in Given(heap) : f.lo # e.lo
    BY <1>2, RequestWrites
  <2>3. /\ blocks' = [blocks EXCEPT ![i] = r.p] /\ block_sizes' = [block_sizes EXCEPT ![i] = n]
        /\ blocks'[i] = r.p
    BY <1>0, <1>2, <2>1 DEF D!Remember
  <2>4. CASE c = "a"
    <3>1. heap' = W /\ D!OtherPayloads = Given(heap)
      BY <1>2, <2>0, <2>4 DEF D!OtherPayloads
    <3> QED
      BY <2>0, <2>1, <2>3, <2>4, <3>1 DEF DataServed
  <2>5. CASE c = "r"
    <3>1. PICK x \in Given(heap) : blocks[i] = x.lo
      BY <1>0, <1>2, <2>5, DriverConstants, D!OldIsPayload
    <3>2. heap' \in mm_free(W, x.lo) /\ x \in Given(W)
      BY <1>2, <2>1, <2>2, <2>5, <3>1
    <3>3. D!OtherPayloads = {f \in Given(heap) : f.lo # x.lo}
      BY <2>0, <2>5, <3>1 DEF D!OtherPayloads
    <3> HIDE DEF n, i
    <3>4. ASSUME NEW f \in Given(W), f.lo # x.lo PROVE SameData(W, heap', f)
      BY <2>1, <3>2, <3>4, FreeKeepsData
    <3>5. ASSUME NEW f \in D!OtherPayloads PROVE SameData(heap, heap', f)
      <4>1. f \in Given(heap) /\ f.lo # x.lo /\ f \in Given(W)
        BY <2>1, <2>2, <3>3
      <4>2. SameData(heap, W, f) /\ SameData(W, heap', f)
        BY <2>1, <3>4, <4>1
      <4> QED
        BY <4>2 DEF SameData
    <3>6. Stored(heap', r.p, n, i)
      <4>1. SameData(W, heap', e)
        BY <2>1, <2>2, <3>1, <3>4
      <4>2. PICK b \in Used(W) : e = PayloadOf(b)
        BY <2>1, <2>2 DEF Given
      <4>3. e.lo \in Nat /\ e.hi \in Nat
        BY <2>1, <4>2, PayloadFacts
      <4>4. e.lo + n - 1 \in Nat /\ e.lo <= e.hi
        BY <2>1, <2>2, <4>3
      <4>5. /\ Granule(e.lo + n - 1) \in Nat /\ Granule(e.hi) \in Nat /\ Granule(e.lo) \in Nat
            /\ Granule(e.lo + n - 1) <= Granule(e.hi)
        BY <2>2, <4>3, <4>4, GranuleMonotone
      <4> QED
        BY <2>1, <2>2, <4>1, <4>5 DEF SameData, Stored
    <3> QED
      BY <2>0, <2>3, <2>5, <3>5, <3>6 DEF DataServed, n, i
  <2> QED
    BY <2>4, <2>5
<1>3. ASSUME D!valid_alloc PROVE DataServed /\ D!advance /\ D!Running("valid", "a")
  <2>1. PICK r \in mm_malloc(heap, D!op.size) :
          \/ D!assert_fails(r)
          \/ D!valid_fail
          \/ /\ D!Remember(r.p) /\ D!Served(ranges, r)
             /\ heap' = memset(r.alloc, r.p, D!op.size, D!op.id) /\ D!advance
    BY <1>3 DEF D!valid_alloc
  <2>2. /\ D!Remember(r.p) /\ D!op.size # 0
        /\ heap' = memset(r.alloc, r.p, D!op.size, D!op.id) /\ D!advance
    BY <2>1 DEF D!assert_fails, D!exit, D!valid_fail, D!next_trace, D!Served
  <2>3. D!Running("valid", "a")
    BY <1>3 DEF D!valid_alloc
  <2> QED
    BY <1>2, <2>2, <2>3
<1>4. ASSUME D!valid_realloc PROVE DataServed /\ D!advance /\ D!Running("valid", "r")
  <2>1. PICK r \in mm_malloc(heap, D!op.size) :
          \/ D!assert_fails(r)
          \/ D!valid_fail
          \/ /\ D!Remember(r.p) /\ D!op.size > 0
             /\ heap' \in mm_free(memset(r.alloc, r.p, D!op.size, D!op.id), blocks[D!op.id])
             /\ D!advance
    BY <1>4 DEF D!valid_realloc, D!Served
  <2>2. /\ D!Remember(r.p) /\ D!op.size # 0
        /\ heap' \in mm_free(memset(r.alloc, r.p, D!op.size, D!op.id), blocks[D!op.id])
        /\ D!advance
    BY <2>1 DEF D!assert_fails, D!exit, D!valid_fail, D!next_trace
  <2>3. D!Running("valid", "r")
    BY <1>4 DEF D!valid_realloc
  <2> QED
    BY <1>2, <2>2, <2>3
<1>5. ASSUME D!valid_free PROVE DataServed /\ D!advance /\ D!Running("valid", "f")
  <2>1. /\ D!Running("valid", "f") /\ heap' \in mm_free(heap, blocks[D!op.id]) /\ D!op.cmd = "f"
        /\ D!advance /\ UNCHANGED <<blocks, block_sizes>>
    BY <1>5 DEF D!valid_free, D!Running
  <2>2. heap \in Ready
    BY <1>0, <2>1, DriverConstants, D!IsReady
  <2>3. PICK x \in Given(heap) : blocks[D!op.id] = x.lo
    BY <1>0, <2>1, DriverConstants, D!OldIsPayload
  <2>4. D!OtherPayloads = {f \in Given(heap) : f.lo # x.lo}
    BY <2>1, <2>3 DEF D!OtherPayloads
  <2>5. \A f \in D!OtherPayloads : SameData(heap, heap', f)
    BY <2>1, <2>2, <2>3, <2>4, FreeKeepsData
  <2> QED
    BY <2>1, <2>5 DEF DataServed
<1>6. \A c : D!Running("valid", c) => phase = "valid" /\ opnum \in DOMAIN D!trace
  BY DEF D!Running
<1> QED
  BY <1>0, <1>1, <1>3, <1>4, <1>5, <1>6

(* The data of the other ids stay, and those of the request's id are new.  *)
LEMMA ServedKept ==
  ASSUME D!Trusted, D!ContractInv, DataServed, D!advance, UNCHANGED files, phase = "valid",
         opnum \in DOMAIN D!trace, DataOK
  PROVE  Filled(blocks', block_sizes', D!LiveIds', heap')
<1> DEFINE S == D!OtherIds
           id == D!op.id
<1>0. /\ D!ControlOK /\ D!MemoryOK /\ D!HeapOK /\ phase \in D!Evaluations
      /\ blocks \in [Ids -> Nat] /\ block_sizes \in [Ids -> Nat]
  BY DEF D!ContractInv, D!Evaluations, D!MemoryOK, D!ArraysOK
<1>1. /\ id \in Ids \ S /\ S \in SUBSET Ids /\ D!op.cmd \in {"a", "r", "f"}
      /\ tracenum \in 1 .. NumTraces /\ opnum \in Nat /\ opnum > 0
      /\ D!Covered(blocks, block_sizes, S, D!OtherPayloads)
  BY <1>0, DriverConstants, D!OthersMatch
<1>2. /\ D!op.cmd = "a" => D!LiveIds' = D!LiveIds \cup {id}
      /\ D!op.cmd = "r" => D!LiveIds' = D!LiveIds /\ id \in D!LiveIds
      /\ D!op.cmd = "f" => D!LiveIds' = D!LiveIds \ {id}
  BY <1>0, <1>1, DriverConstants, D!LiveStep
<1>3. /\ D!op.cmd = "f" => D!LiveIds' = S
      /\ D!op.cmd # "f" => D!LiveIds' = S \cup {id}
      /\ S \subseteq D!LiveIds
  BY <1>1, <1>2 DEF D!OtherIds
<1>4. Filled(blocks, block_sizes, S, heap)
  BY <1>1, <1>3 DEF DataOK, Filled
<1>5. D!OtherPayloads \subseteq D!Extents
  <2>1. heap \in Ready
    BY <1>0, <1>1 DEF D!HeapOK
  <2>2. D!Kept(heap)
    BY <2>1 DEF D!Trusted, D!KeepsContract
  <2> QED
    BY <2>2 DEF D!Kept, D!OtherPayloads
<1>6. \A f \in D!OtherPayloads : SameData(heap, heap', f)
  BY DEF DataServed
<1>7. Filled(blocks, block_sizes, S, heap')
  BY <1>1, <1>4, <1>5, <1>6, FilledKept
<1>8. CASE D!op.cmd = "f"
  BY <1>3, <1>7, <1>8 DEF DataServed
<1>9. CASE D!op.cmd # "f"
  <2>1. PICK p : blocks' = [blocks EXCEPT ![id] = p]
    BY <1>9 DEF DataServed
  <2>2. /\ block_sizes' = [block_sizes EXCEPT ![id] = D!op.size]
        /\ Stored(heap', blocks'[id], D!op.size, id)
    BY <1>9 DEF DataServed
  <2> HIDE DEF id, S
  <2>3. block_sizes'[id] = D!op.size /\ \A i \in S : blocks'[i] = blocks[i] /\ block_sizes'[i] = block_sizes[i]
    BY <1>0, <1>1, <2>1, <2>2
  <2>4. Stored(heap', blocks'[id], block_sizes'[id], id)
    BY <2>2, <2>3
  <2>5. \A i \in S : Stored(heap', blocks'[i], block_sizes'[i], i)
    BY <1>7, <2>3 DEF Filled
  <2> QED
    BY <1>3, <1>9, <2>4, <2>5 DEF Filled
<1> QED
  BY <1>8, <1>9

(* Every step keeps the data.                                              *)
LEMMA DataStep ==
  ASSUME D!Trusted, D!ContractInv, DataOK, [D!Next]_(D!vars)
  PROVE  DataOK'
<1> SUFFICES ASSUME phase' = "valid", opnum' > 0
             PROVE  Filled(blocks', block_sizes', D!LiveIds', heap')
  BY DEF DataOK
<1>1. D!Moves /\ UNCHANGED files
  BY DriverConstants, D!NextMoves
<1>2. phase = "valid" /\ (UNCHANGED D!control \/ D!advance)
  BY <1>1 DEF D!Moves, D!Serves, D!Stops, D!Begins, D!Switches, D!Leaves, D!Repeats, D!Restarts,
     D!Finishes, D!control, D!advance, D!enter, D!next_trace
<1>3. CASE UNCHANGED D!vars
  <2>1. /\ opnum > 0 /\ blocks' = blocks /\ block_sizes' = block_sizes /\ heap' = heap
        /\ D!LiveIds' = D!LiveIds
    BY <1>3 DEF D!vars, D!control, D!LiveIds, D!trace
  <2> QED
    BY <1>2, <2>1 DEF DataOK
<1>4. CASE D!Next /\ ~ UNCHANGED D!vars
  <2>1. D!eval_mm_valid
    <3>1. ~ D!Terminating
      BY <1>4 DEF D!Terminating
    <3>2. ~ D!read_trace /\ ~ D!libc_done /\ ~ D!report
      BY <1>2 DEF D!read_trace, D!libc_done, D!report
    <3>3. ~ D!eval_libc
      BY <1>2 DEF D!eval_libc, D!libc_enter, D!libc_alloc, D!libc_free, D!libc_valid_realloc,
         D!libc_speed_realloc, D!libc_exit, D!Running, D!AtEnd
    <3>4. ~ D!eval_mm_util
      BY <1>2 DEF D!eval_mm_util, D!util_enter, D!util_alloc, D!util_realloc, D!util_free,
         D!util_exit, D!Running, D!AtEnd
    <3>5. ~ D!eval_mm_speed
      BY <1>2 DEF D!eval_mm_speed, D!speed_enter, D!speed_alloc, D!speed_realloc, D!speed_free,
         D!speed_exit, D!Running, D!AtEnd
    <3> QED
      BY <1>4, <3>1, <3>2, <3>3, <3>4, <3>5 DEF D!Next
  <2>2. CASE opnum > 0
    BY <1>1, <2>1, <2>2, ValidServes, ServedKept
  <2>3. CASE ~ opnum > 0
    <3>1. opnum \in Nat
      BY <1>2, DriverConstants, D!TraceFacts DEF D!ContractInv, D!ControlOK, D!Phases, D!Evaluations
    <3>2. opnum = 0 /\ opnum' = 1
      BY <1>2, <2>3, <3>1 DEF D!control, D!advance
    <3>3. D!LiveIds' = {}
      BY <3>2, DriverConstants, D!BeforeStart DEF D!LiveIds
    <3> QED
      BY <3>3 DEF Filled
  <2> QED
    BY <2>2, <2>3
<1> QED
  BY <1>3, <1>4

(* What eval_mm_valid wrote into a block is there as long as the trace     *)
(* holds the block: mm.c never hands out, splits or merges bytes of a      *)
(* block in use, whatever the traces are, as long as their headers hold.   *)
THEOREM DataStays ==
  ASSUME GoodHeaders
  PROVE  Spec => []DataKept
<1>1. D!Trusted
  BY DriverTrusts
<1>2. D!Init => D!ContractInv /\ DataOK
  <2>1. D!Init => D!ContractInv
    BY <1>1, DriverConstants, D!ContractInit
  <2>2. D!Init => opnum = 0
    BY DEF D!Init
  <2> QED
    BY <2>1, <2>2 DEF DataOK
<1>3. (D!ContractInv /\ DataOK) /\ [D!Next]_(D!vars) => (D!ContractInv /\ DataOK)'
  BY <1>1, DriverConstants, D!ContractStep, DataStep
<1>4. D!Spec => [](D!ContractInv /\ DataOK)
  BY <1>2, <1>3, PTL DEF D!Spec
<1>5. DataOK => DataKept
  BY SameProgram DEF DataOK, DataKept, Evaluating, Filled, Stored
<1> QED
  BY <1>4, <1>5, SameProgram, PTL

-----------------------------------------------------------------------------
(* The allocator of module Contract may do whatever mm.c does.             *)

(* Pages p .. p + n - 1. *)
Runs == {p .. p + n - 1 : p \in Pages, n \in 0 .. MaxPage}

(* Pages j .. k - 1, as far as they are pages.                             *)
LEMMA RunOfPages ==
  ASSUME NEW j \in Int, NEW k \in Int, MaxPage >= 1
  PROVE  (j .. k - 1) \cap Pages \in Runs
<1> DEFINE p == IF j < 1 THEN 1 ELSE j
           m == IF k - 1 > MaxPage THEN MaxPage ELSE k - 1
           X == (j .. k - 1) \cap Pages
<1>1. MaxPage \in Nat
  BY Constants
<1>2. p \in Int /\ m \in Int /\ p >= 1 /\ m <= MaxPage
  BY <1>1
<1>3. X = p .. m
  BY <1>1 DEF Pages
<1> HIDE DEF X, p, m
<1>4. CASE p <= m
  <2> DEFINE n == m - p + 1
  <2>1. p \in Pages /\ n \in 0 .. MaxPage /\ p + n - 1 = m
    BY <1>1, <1>2, <1>4 DEF Pages
  <2> HIDE DEF n
  <2>2. X = p .. p + n - 1
    BY <1>3, <2>1
  <2>3. X \in Runs
    BY <2>1, <2>2 DEF Runs
  <2> QED
    BY <2>3 DEF X
<1>5. CASE ~ (p <= m)
  <2>1. X = {} /\ 1 .. 1 + 0 - 1 = {}
    BY <1>2, <1>3, <1>5
  <2>2. 1 \in Pages /\ 0 \in 0 .. MaxPage
    BY <1>1 DEF Pages
  <2>3. X \in Runs
    BY <2>1, <2>2 DEF Runs
  <2> QED
    BY <2>3 DEF X
<1> QED
  BY <1>4, <1>5

(* The mapped pages are pages. *)
LEMMA PagesMapped ==
  ASSUME NEW H \in P!HeapType
  PROVE  MappedPages(H) \subseteq Pages
<1>1. /\ PageSize \in Nat /\ PageSize > 0 /\ MaxPage \in Nat /\ P!End \in Nat
      /\ H.mapped \subseteq PageSize .. P!End - 1 /\ PageSize * (MaxPage + 1) = P!End
  BY Constants, Layouts, P!AddressSpace DEF P!HeapType, PageSize
<1>2. ASSUME NEW g \in H.mapped PROVE g \div PageSize \in Pages
  <2> DEFINE q == g \div PageSize
  <2>1. g \in Nat /\ PageSize <= g /\ g < P!End
    BY <1>1
  <2>2. q \in Int /\ PageSize * q <= g /\ g < PageSize * q + PageSize /\ PageSize * q \in Int
    BY <1>1, <2>1, Layouts, P!DivBounds
  <2> HIDE DEF q
  <2>3. q >= 1
    <3> SUFFICES ASSUME q <= 0 PROVE FALSE
      BY <2>2
    <3>1. PageSize * q <= PageSize * 0
      BY <1>1, <2>2, Layouts, P!TimesMonotone
    <3> QED
      BY <1>1, <2>1, <2>2, <3>1
  <2>4. q <= MaxPage
    <3> SUFFICES ASSUME MaxPage + 1 <= q PROVE FALSE
      BY <1>1, <2>2
    <3>1. PageSize * (MaxPage + 1) <= PageSize * q
      BY <1>1, <2>2, Layouts, P!TimesMonotone
    <3> QED
      BY <1>1, <2>1, <2>2, <3>1
  <2>5. q \in Pages
    BY <1>1, <2>2, <2>3, <2>4 DEF Pages
  <2> QED
    BY <2>5 DEF q
<1>3. MappedPages(H) = {g \div PageSize : g \in H.mapped}
  BY MappedHeap
<1> QED
  BY <1>2, <1>3

(* A chunk of whole pages has the granules of these pages.                 *)
LEMMA ChunkPages ==
  ASSUME NEW c \in Int \X Int, Whole({c})
  PROVE  \E j, k \in Int :
           /\ \A g \in Int : g \in P!Cells(c) <=> g \div PageSize \in j .. k - 1
           /\ \A q \in j .. k - 1 : \E g \in P!Cells(c) : g \div PageSize = q
<1>1. PICK j, k \in Nat : c[1] = PageSize * j /\ c[2] = PageSize * k
  BY DEF Whole
<1>2. PageSize \in Nat /\ PageSize > 0
  BY Constants
<1>3. c[1] \in Int /\ c[2] \in Int /\ P!Cells(c) = c[1] .. c[2] - 1
  BY DEF P!Cells
<1>4. ASSUME NEW g \in Int PROVE g \in P!Cells(c) <=> g \div PageSize \in j .. k - 1
  <2> DEFINE q == g \div PageSize
             w == PageSize * q
  <2>1. q \in Int /\ w \in Int /\ w <= g /\ g < w + PageSize
    BY <1>2, Layouts, P!DivBounds
  <2>2. PageSize * (q + 1) = w + PageSize
    <3> HIDE DEF q
    <3> QED
      BY <1>2, <2>1
  <2> HIDE DEF q
  <2>3. j <= q => PageSize * j <= w
    BY <1>2, <2>1, Layouts, P!TimesMonotone
  <2>4. q + 1 <= j => w + PageSize <= PageSize * j
    <3>1. q + 1 \in Int
      BY <2>1
    <3>2. q + 1 <= j => PageSize * (q + 1) <= PageSize * j
      BY <1>2, <3>1, Layouts, P!TimesMonotone
    <3> QED
      BY <2>2, <3>2
  <2>5. q + 1 <= k => w + PageSize <= PageSize * k
    <3>1. q + 1 \in Int
      BY <2>1
    <3>2. q + 1 <= k => PageSize * (q + 1) <= PageSize * k
      BY <1>2, <3>1, Layouts, P!TimesMonotone
    <3> QED
      BY <2>2, <3>2
  <2>6. k <= q => PageSize * k <= w
    BY <1>2, <2>1, Layouts, P!TimesMonotone
  <2> HIDE DEF w
  <2>7. j <= q => c[1] <= w
    BY <1>1, <2>3
  <2>8. q + 1 <= j => w + PageSize <= c[1]
    BY <1>1, <2>4
  <2>9. q + 1 <= k => w + PageSize <= c[2]
    BY <1>1, <2>5
  <2>10. k <= q => c[2] <= w
    BY <1>1, <2>6
  <2>11. g \in P!Cells(c) <=> q \in j .. k - 1
    BY <1>2, <1>3, <2>1, <2>7, <2>8, <2>9, <2>10
  <2> QED
    BY <2>11 DEF q
<1>5. ASSUME NEW q \in j .. k - 1 PROVE \E g \in P!Cells(c) : g \div PageSize = q
  <2> DEFINE g == PageSize * q
  <2>1. q \in Int /\ g \in Int
    BY <1>2
  <2>2. g \div PageSize = q
    <3>1. PageSize * q <= g /\ g < PageSize * q + PageSize
      BY <1>2, <2>1
    <3> HIDE DEF g
    <3> QED
      BY <1>2, <2>1, <3>1, Layouts, P!DivUnique
  <2> HIDE DEF g
  <2>3. g \in P!Cells(c)
    BY <1>4, <2>1, <2>2
  <2> QED
    BY <2>2, <2>3
<1> QED
  BY <1>4, <1>5

(* The refinement mapping: payloads and mapped pages. *)
LEMMA PayloadsAre ==
  ASSUME NEW H
  PROVE  /\ Payloads(H) = [held |-> Given(H), mapped |-> MappedPages(H)]
         /\ Payloads(H).held = Given(H) /\ Payloads(H).mapped = MappedPages(H)
<1>1. M!BlocksOf(H, 1) = Used(H)
  BY SameFunctions DEF Used
<1>2. Payloads(H) = [held |-> Given(H), mapped |-> MappedPages(H)]
  BY <1>1 DEF Payloads, Given, PayloadOf
<1> QED
  BY <1>2

(* A payload's pages.                                                      *)
LEMMA PagesMappedFor ==
  ASSUME NEW H \in Ready, NEW e \in Given(H)
  PROVE  C!PagesOf(e) \subseteq MappedPages(H) /\ MaxPage >= 1
<1>0. PICK b \in Used(H) : e = PayloadOf(b)
  BY DEF Given
<1>1. /\ e.lo \in Nat /\ e.hi \in Nat /\ e.lo <= e.hi
      /\ \A a \in e.lo .. e.hi : a \div PAGE \in MappedPages(H)
  BY <1>0, PayloadFacts
<1>2. PAGE \in Nat /\ PAGE > 0
  BY Constants
<1> DEFINE l == e.lo \div PAGE
           h == e.hi \div PAGE
<1>a. ASSUME NEW x \in Int
      PROVE  /\ x \div PAGE \in Int /\ PAGE * (x \div PAGE) \in Int
             /\ PAGE * (x \div PAGE) <= x /\ x < PAGE * (x \div PAGE) + PAGE
  BY <1>2, Layouts, P!DivBounds
<1>3. /\ l \in Int /\ PAGE * l \in Int /\ PAGE * l <= e.lo /\ e.lo < PAGE * l + PAGE
      /\ h \in Int /\ PAGE * h \in Int /\ PAGE * h <= e.hi /\ e.hi < PAGE * h + PAGE
  <2> DEFINE lo == e.lo
             hi == e.hi
  <2>1. lo \in Int /\ hi \in Int
    BY <1>1
  <2> HIDE DEF lo, hi
  <2>2. /\ lo \div PAGE \in Int /\ PAGE * (lo \div PAGE) \in Int
        /\ PAGE * (lo \div PAGE) <= lo /\ lo < PAGE * (lo \div PAGE) + PAGE
    BY <1>a, <2>1
  <2>3. /\ hi \div PAGE \in Int /\ PAGE * (hi \div PAGE) \in Int
        /\ PAGE * (hi \div PAGE) <= hi /\ hi < PAGE * (hi \div PAGE) + PAGE
    BY <1>a, <2>1
  <2> QED
    BY <2>2, <2>3 DEF lo, hi
<1> HIDE DEF l, h
<1>4. ASSUME NEW q \in l .. h PROVE q \in MappedPages(H)
  <2>1. CASE q = l
    BY <1>1, <2>1 DEF l
  <2>2. CASE q # l
    <3> DEFINE a == PAGE * q
    <3>1. q \in Int /\ l + 1 <= q /\ q <= h
      BY <1>3, <2>2
    <3>2. PAGE * (l + 1) <= a /\ a <= PAGE * h /\ a \in Int
      BY <1>2, <1>3, <3>1, Layouts, P!TimesMonotone
    <3>3. PAGE * (l + 1) = PAGE * l + PAGE
      BY <1>2, <1>3
    <3>4. a \div PAGE = q
      <4>1. PAGE * q <= a /\ a < PAGE * q + PAGE
        BY <1>2, <3>2
      <4> HIDE DEF a
      <4> QED
        BY <1>2, <3>1, <3>2, <4>1, Layouts, P!DivUnique
    <3> HIDE DEF a
    <3>5. a \in e.lo .. e.hi
      <4> DEFINE w == PAGE * l
                 v == PAGE * h
      <4>1. w + PAGE <= a /\ a <= v /\ v <= e.hi /\ e.lo < w + PAGE /\ w \in Int /\ v \in Int
        BY <1>3, <3>2, <3>3
      <4> HIDE DEF w, v
      <4> QED
        BY <1>1, <1>2, <3>2, <4>1
    <3> QED
      BY <1>1, <3>4, <3>5
  <2> QED
    BY <2>1, <2>2
<1>5. MaxPage >= 1
  <2>1. e.lo \in e.lo .. e.hi
    BY <1>1
  <2>2. MappedPages(H) # {} /\ MappedPages(H) \subseteq Pages
    BY <1>1, <2>1, ReadySound, PagesMapped DEF States
  <2> QED
    BY <2>2, Constants DEF Pages
<1> QED
  BY <1>4, <1>5 DEF C!PagesOf, l, h

(* A payload that mm_malloc cut is one of the contract's places.           *)
LEMMA CutIsPlace ==
  ASSUME NEW H \in Ready, NEW K \in Ready, NEW n \in Requested, n # 0, NEW t, Takes(H, K, t, n)
  PROVE  PayloadOf(t) \in C!Places(Payloads(H), n)
<1> DEFINE e == PayloadOf(t)
           u == (n + M!ALIGNMENT - 1) \div M!ALIGNMENT
           k == P!Size(t) - P!TotalSize(n)
           a == M!ALIGNMENT * (t[1] + 1)
           m == PAGE * (C!Max(Pages) + 1)
<1>1. /\ t \in Used(K) /\ t \notin Used(H) /\ Used(H) \subseteq Used(K)
      /\ P!TotalSize(n) <= P!Size(t) /\ P!Size(t) <= P!TotalSize(n) + 3
  BY DEF Takes
<1>2. /\ t[1] \in Nat /\ t[2] \in Nat /\ e.lo = 16 * (t[1] + 1) /\ e.hi = 16 * (t[2] - 1) - 1
      /\ e.lo \in Nat /\ e.hi \in Nat /\ e.lo <= e.hi
      /\ e \in Given(K) /\ \A x \in e.lo .. e.hi : x \div PAGE \in MappedPages(K)
  BY <1>1, PayloadFacts DEF Given
<1>3. e = [lo |-> e.lo, hi |-> e.hi]
  BY DEF PayloadOf
<1>4. n \in Nat /\ n + 16 * (4 + PageSize) <= 16 * WORD /\ PageSize \in Nat /\ WORD \in Nat
  BY Constants
<1>5. P!TotalSize(n) = u + 2 /\ u \in Nat
  <2>1. /\ P!ALIGN(n) \in Nat /\ P!TotalSize(n) = P!ALIGN(n) + 2
    BY Layouts, P!SizesSuffice
  <2>2. n + 15 \in Nat /\ 16 * WORD \in Nat /\ n + 15 < 16 * WORD
    BY <1>4
  <2>3. (n + 15) % (16 * WORD) = n + 15
    BY <2>2, Layouts, P!NoWrap
  <2>4. P!ALIGN(n) = (n + 15) \div 16
    BY <2>3 DEF P!ALIGN, P!ALIGNMENT
  <2>5. u = (n + 15) \div 16
    BY <1>4 DEF M!ALIGNMENT
  <2> HIDE DEF u
  <2> QED
    BY <2>1, <2>4, <2>5
<1> HIDE DEF u
<1>6. P!Size(t) \in Nat /\ t[2] - t[1] = u + 2 + k /\ k \in 0 .. 3
  <2>1. P!Size(t) = t[2] - t[1]
    BY DEF P!Size
  <2> QED
    BY <1>1, <1>2, <1>5, <2>1
<1> HIDE DEF k
<1>7. k \in 0 .. M!HDRSIZE + M!MIN_BLOCK_SIZE
  BY <1>6 DEF M!HDRSIZE, M!MIN_BLOCK_SIZE
<1>8. e = C!Extent(a, M!ALIGNMENT * (u + k))
  <2>1. a = e.lo
    BY <1>2 DEF M!ALIGNMENT
  <2>2. e.hi = e.lo + M!ALIGNMENT * (u + k) - 1
    BY <1>2, <1>5, <1>6 DEF M!ALIGNMENT
  <2> HIDE DEF e, a
  <2> QED
    BY <1>3, <2>1, <2>2 DEF C!Extent
<1>9. MaxPage >= 1 /\ C!PagesOf(e) \subseteq Pages
  <2>1. C!PagesOf(e) \subseteq MappedPages(K) /\ MaxPage >= 1
    BY <1>2, PagesMappedFor
  <2>2. MappedPages(K) \subseteq Pages
    BY ReadySound, PagesMapped DEF States
  <2> QED
    BY <2>1, <2>2
<1>10. C!Max(Pages) = MaxPage
  <2>1. MaxPage \in Pages /\ \A y \in Pages : y \in Int /\ y <= MaxPage
    BY <1>9, Constants DEF Pages
  <2> QED
    BY <2>1 DEF C!Max
<1>11. a \in C!Starts
  <2>1. m = PAGE * (MaxPage + 1) /\ PAGE = 16 * PageSize /\ MaxPage \in Nat /\ PAGE \in Nat
    BY <1>10, Constants
  <2>2. P!End = PageSize * (MaxPage + 1) /\ P!End \in Nat
    BY Layouts, P!AddressSpace DEF PageSize
  <2>3. m = 16 * P!End
    BY <1>4, <2>1, <2>2
  <2>4. m \div 16 = P!End
    <3> HIDE DEF m
    <3>1. 16 * P!End <= m /\ m < 16 * P!End + 16 /\ m \in Int
      BY <2>2, <2>3
    <3> QED
      BY <2>2, <3>1, Layouts, P!DivUnique
  <2>5. t[1] + 1 <= P!End
    <3>1. P!BlockAt(K, t)
      BY <1>1, UsedBlocks
    <3>2. P!Granule = PageSize .. P!End - 1
      BY Layouts, P!AddressSpace DEF PageSize
    <3> QED
      BY <2>2, <3>1, <3>2 DEF P!BlockAt
  <2>6. t[1] + 1 \in 0 .. m \div M!ALIGNMENT
    BY <1>2, <2>2, <2>4, <2>5 DEF M!ALIGNMENT
  <2> HIDE DEF m
  <2> QED
    BY <2>6 DEF C!Starts, m
<1>12. \A h \in Payloads(H).held : C!Disjoint(h, e)
  <2> SUFFICES ASSUME NEW b \in Used(H) PROVE C!Disjoint(PayloadOf(b), e)
    BY PayloadsAre DEF Given
  <2>1. D!Disjoint(PayloadOf(b), e)
    BY <1>1, PayloadsApart
  <2> QED
    BY <2>1 DEF D!Disjoint, C!Disjoint
<1> HIDE DEF e, a
<1> QED
  BY <1>7, <1>8, <1>9, <1>11, <1>12 DEF C!Places, u, e
(* Pages that are mapped or unmapped with a chunk. *)
LEMMA PagesChange ==
  ASSUME NEW H \in Ready, NEW K \in Ready, NEW c \in Int \X Int, Whole({c}), MaxPage >= 1
  PROVE  /\ K.mapped = H.mapped \cup P!Cells(c) =>
              \E x \in Runs : MappedPages(K) = MappedPages(H) \cup x
         /\ K.mapped = H.mapped \ P!Cells(c) =>
              \E x \in Runs : MappedPages(K) = MappedPages(H) \ x
<1>1. PICK j, k \in Int :
        /\ \A g \in Int : g \in P!Cells(c) <=> g \div PageSize \in j .. k - 1
        /\ \A q \in j .. k - 1 : \E g \in P!Cells(c) : g \div PageSize = q
  BY ChunkPages
<1> DEFINE X == (j .. k - 1) \cap Pages
<1>2. X \in Runs
  BY RunOfPages
<1>3. H \in P!HeapType /\ K \in P!HeapType
  BY ReadySound DEF States
<1>4. /\ MappedPages(H) = {g \div PageSize : g \in H.mapped} /\ MappedPages(H) \subseteq Pages
      /\ MappedPages(K) = {g \div PageSize : g \in K.mapped} /\ MappedPages(K) \subseteq Pages
  BY <1>3, MappedHeap, PagesMapped
<1>5. H.mapped \subseteq Int /\ K.mapped \subseteq Int /\ P!Cells(c) \subseteq Int
  <2>1. P!Granule \subseteq Int
    BY Layouts, P!AddressSpace
  <2>2. H.mapped \subseteq P!Granule /\ K.mapped \subseteq P!Granule
    BY <1>3 DEF P!HeapType
  <2>3. P!Cells(c) \subseteq Int
    BY DEF P!Cells
  <2> QED
    BY <2>1, <2>2, <2>3
<1>6. ASSUME K.mapped = H.mapped \cup P!Cells(c) PROVE MappedPages(K) = MappedPages(H) \cup X
  BY <1>1, <1>4, <1>5, <1>6
<1>7. ASSUME K.mapped = H.mapped \ P!Cells(c) PROVE MappedPages(K) = MappedPages(H) \ X
  BY <1>1, <1>4, <1>5, <1>7
<1> QED
  BY <1>2, <1>6, <1>7

(* No page, as a run. *)
LEMMA NoRun == MaxPage >= 1 => {} \in Runs
<1> SUFFICES ASSUME MaxPage >= 1 PROVE {} \in Runs
  OBVIOUS
<1>1. 1 \in Pages /\ 0 \in 0 .. MaxPage /\ 1 .. 1 + 0 - 1 = {}
  BY Constants DEF Pages
<1> QED
  BY <1>1 DEF Runs

(* What mm_malloc returns, as the contract sees it. *)
AbsOf(r) == [p |-> r.p, alloc |-> Payloads(r.alloc)]

(* The contract allows what mm_malloc does. *)
LEMMA AbsMallocs ==
  ASSUME NEW H \in Ready, NEW n \in Nat, n # 0 => n \in Requested, NEW r \in mm_malloc(H, n)
  PROVE  AbsOf(r) \in AbsMalloc(Payloads(H), n)
<1>1. CASE n = 0
  <2>1. r = [p |-> NULL, alloc |-> H]
    BY <1>1 DEF mm_malloc
  <2>2. AbsOf(r) = [p |-> C!NULL, alloc |-> Payloads(H)]
    BY <2>1 DEF AbsOf, C!NULL, NULL
  <2> QED
    BY <1>1, <2>2 DEF AbsMalloc, C!Malloc
<1>2. CASE n # 0
  <2>1. n \in Requested
    BY <1>2
  <2>2. PICK t : Takes(H, r.alloc, t, n) /\ r.p = PayloadOf(t).lo
    BY <1>2, <2>1, MallocGives
  <2> DEFINE K == r.alloc
             e == PayloadOf(t)
  <2>3. /\ K \in Ready /\ Used(K) = Used(H) \cup {t} /\ Takes(H, K, t, n) /\ r.p = e.lo
        /\ \/ K.mapped = H.mapped
           \/ \E c \in Int \X Int : Whole({c}) /\ K.mapped = H.mapped \cup P!Cells(c)
        /\ AbsOf(r) = [p |-> r.p, alloc |-> Payloads(K)]
    BY <2>2 DEF Takes, AbsOf
  <2> HIDE DEF K
  <2>4. e \in C!Places(Payloads(H), n)
    BY <1>2, <2>1, <2>3, CutIsPlace
  <2>5. Given(K) = Given(H) \cup {e} /\ e \in Given(K)
    BY <2>3 DEF Given
  <2>6. C!PagesOf(e) \subseteq MappedPages(K) /\ MaxPage >= 1
    BY <2>3, <2>5, PagesMappedFor
  <2> HIDE DEF e
  <2>7. \E x \in Runs : MappedPages(K) = MappedPages(H) \cup x
    <3>1. CASE K.mapped = H.mapped
      <4>1. MappedPages(K) = MappedPages(H)
        BY <3>1 DEF MappedPages
      <4> QED
        BY <2>6, <4>1, NoRun
    <3>2. CASE \E c \in Int \X Int : Whole({c}) /\ K.mapped = H.mapped \cup P!Cells(c)
      BY <2>3, <2>6, <3>2, PagesChange
    <3> QED
      BY <2>3, <3>1, <3>2
  <2>8. PICK x \in Runs : MappedPages(K) = MappedPages(H) \cup x
    BY <2>7
  <2>9. MappedPages(K) = MappedPages(H) \cup C!PagesOf(e) \cup x
    BY <2>6, <2>8
  <2>10. Payloads(K) = [held   |-> Payloads(H).held \cup {e},
                        mapped |-> Payloads(H).mapped \cup C!PagesOf(e) \cup x]
    BY <2>5, <2>9, PayloadsAre
  <2> DEFINE Q(f, y) == [p     |-> f.lo,
                         alloc |-> [held   |-> Payloads(H).held \cup {f},
                                    mapped |-> Payloads(H).mapped \cup C!PagesOf(f) \cup y]]
  <2>11. AbsMalloc(Payloads(H), n) = {Q(f, y) : f \in C!Places(Payloads(H), n), y \in Runs}
    BY <1>2 DEF AbsMalloc, C!Malloc, Runs
  <2>12. AbsOf(r) = Q(e, x)
    BY <2>3, <2>10
  <2> HIDE DEF Q
  <2> QED
    BY <2>4, <2>11, <2>12
<1> QED
  BY <1>1, <1>2

(* And what mm_free does. *)
LEMMA AbsFrees ==
  ASSUME NEW H \in Ready, NEW e \in Given(H), NEW K \in mm_free(H, e.lo)
  PROVE  Payloads(K) \in AbsFree(Payloads(H), e.lo)
<1>1. PICK b \in Used(H) : e = PayloadOf(b)
  BY DEF Given
<1>2. D!TakesBack(H, e.lo, K) /\ Releases(H, K, b)
  BY <1>1, FreeTakesBack
<1>3. /\ K \in Ready /\ Given(K) = {h \in Given(H) : h.lo # e.lo}
      /\ \/ K.mapped = H.mapped
         \/ \E c \in Int \X Int : Whole({c}) /\ K.mapped = H.mapped \ P!Cells(c)
  BY <1>2 DEF D!TakesBack, Releases
<1>4. MaxPage >= 1
  BY PagesMappedFor
<1>5. \E x \in Runs : MappedPages(K) = MappedPages(H) \ x
  <2>1. CASE K.mapped = H.mapped
    <3>1. MappedPages(K) = MappedPages(H) \ {}
      BY <2>1 DEF MappedPages
    <3> QED
      BY <1>4, <3>1, NoRun
  <2>2. CASE \E c \in Int \X Int : Whole({c}) /\ K.mapped = H.mapped \ P!Cells(c)
    BY <1>3, <1>4, <2>2, PagesChange
  <2> QED
    BY <1>3, <2>1, <2>2
<1>6. PICK x \in Runs : MappedPages(K) = MappedPages(H) \ x
  BY <1>5
<1> DEFINE held   == {h \in Payloads(H).held : h.lo # e.lo}
           needed == UNION {C!PagesOf(h) : h \in held}
<1>7. held = Given(K)
  BY <1>3, PayloadsAre
<1>8. needed \subseteq MappedPages(K)
  BY <1>3, <1>7, PagesMappedFor
<1>9. MappedPages(K) = Payloads(H).mapped \ (x \ needed)
  <2> HIDE DEF needed
  <2> QED
    BY <1>6, <1>8, PayloadsAre
<1>10. Payloads(K) = [held |-> held, mapped |-> Payloads(H).mapped \ (x \ needed)]
  BY <1>7, <1>9, PayloadsAre
<1> DEFINE Q(y) == [held |-> held, mapped |-> Payloads(H).mapped \ (y \ needed)]
<1>11. AbsFree(Payloads(H), e.lo) = {Q(y) : y \in Runs}
  BY DEF AbsFree, C!Free, Runs
<1>12. Payloads(K) = Q(x)
  BY <1>10
<1> HIDE DEF Q
<1> QED
  BY <1>11, <1>12

(* The other calls. *)
LEMMA AbsOthers ==
  /\ \A H \in States : Payloads(M!InitHeap(H)) = [Payloads(H) EXCEPT !.held = {}]
  /\ \A H \in States : Payloads(M!ResetHeap(H)) = C!NoPages
  /\ Payloads(M!EmptyHeap) = C!NoPages
<1>1. ASSUME NEW H, MappedPages(H) = {} PROVE Payloads(H) = C!NoPages
  <2>1. H.mapped = {}
    BY <1>1 DEF MappedPages
  <2>2. \A h : P!GET_ALLOC(H, h) = 0
    BY <2>1 DEF P!GET_ALLOC, P!Load, P!Zero
  <2>3. Used(H) = {}
    BY <2>2 DEF Used, P!BlocksOf
  <2> QED
    BY <1>1, <2>3, PayloadsAre DEF Given, C!NoPages
<1>2. ASSUME NEW H \in States PROVE Payloads(M!InitHeap(H)) = [Payloads(H) EXCEPT !.held = {}]
  BY InitStarts, PayloadsAre
<1> QED
  BY <1>1, <1>2, ResetStarts

-----------------------------------------------------------------------------
(* The program steps as the driver does with the allocator of module       *)
(* Contract.                                                               *)

(* What does not depend on the allocator is the same. *)
LEMMA SameBooks ==
  /\ Abs!trace = D!trace /\ Abs!op = D!op /\ Abs!NULL = D!NULL
  /\ Abs!Evaluations = D!Evaluations
  /\ \A f, c : Abs!Running(f, c) <=> D!Running(f, c)
  /\ \A f : Abs!AtEnd(f) <=> D!AtEnd(f)
  /\ \A R, lo, n : Abs!add_range(R, lo, n) = D!add_range(R, lo, n)
  /\ \A R, lo : Abs!remove_range(R, lo) = D!remove_range(R, lo)
<1>1. Abs!trace = D!trace /\ Abs!op = D!op /\ Abs!NULL = D!NULL /\ Abs!Evaluations = D!Evaluations
  BY DEF Abs!trace, D!trace, Abs!op, D!op, Abs!NULL, D!NULL, Abs!Evaluations, D!Evaluations
<1>2. \A f, c : Abs!Running(f, c) <=> D!Running(f, c)
  BY <1>1 DEF Abs!Running, D!Running
<1>3. \A f : Abs!AtEnd(f) <=> D!AtEnd(f)
  BY <1>1 DEF Abs!AtEnd, D!AtEnd
<1>4. \A R, lo, n : Abs!add_range(R, lo, n) = D!add_range(R, lo, n)
  BY DEF Abs!add_range, D!add_range, Abs!Extent, D!Extent
<1>5. ASSUME NEW R, NEW lo PROVE Abs!remove_range(R, lo) = D!remove_range(R, lo)
  BY DEF Abs!remove_range, D!remove_range, Abs!SelectInSeq, D!SelectInSeq, Abs!RemoveAt, D!RemoveAt,
     Abs!Min, D!Min
<1> QED
  BY <1>1, <1>2, <1>3, <1>4, <1>5

(* So are the driver's moves. *)
LEMMA SameMoves ==
  /\ Abs!advance <=> D!advance
  /\ Abs!exit <=> D!exit
  /\ Abs!overrun <=> D!overrun
  /\ \A f : Abs!enter(f) <=> D!enter(f)
  /\ \A f : Abs!next_trace(f) <=> D!next_trace(f)
  /\ \A p : Abs!Remember(p) <=> D!Remember(p)
  /\ Abs!valid_fail <=> D!valid_fail
<1>1. /\ Abs!advance <=> D!advance
      /\ Abs!exit <=> D!exit
      /\ Abs!overrun <=> D!overrun
      /\ \A f : Abs!enter(f) <=> D!enter(f)
      /\ \A f : Abs!next_trace(f) <=> D!next_trace(f)
  BY DEF Abs!advance, D!advance, Abs!exit, D!exit, Abs!overrun, D!overrun, Abs!enter, D!enter, Abs!next_trace, D!next_trace
<1>2. \A p : Abs!Remember(p) <=> D!Remember(p)
  BY SameBooks DEF Abs!Remember, D!Remember
<1>3. Abs!valid_fail <=> D!valid_fail
  BY <1>1 DEF Abs!valid_fail, D!valid_fail
<1> QED
  BY <1>1, <1>2, <1>3

(* So is what the driver thinks of a result. *)
LEMMA SameVerdicts ==
  /\ \A R, r : /\ Abs!Refused(R, AbsOf(r)) <=> D!Refused(R, r)
               /\ Abs!Served(R, AbsOf(r)) <=> D!Served(R, r)
  /\ \A r : Abs!assert_fails(AbsOf(r)) <=> D!assert_fails(r)
<1>1. ASSUME NEW R, NEW K, NEW lo, NEW n
      PROVE  Abs!Accepts(R, Payloads(K), lo, n) <=> D!Accepts(R, K, lo, n)
  <2>1. \A a : Abs!is_mapped(Payloads(K), a) <=> D!is_mapped(K, a)
    BY PayloadsAre DEF Abs!is_mapped, D!is_mapped, AbsMapped
  <2>2. Abs!Probes(lo, n) = D!Probes(lo, n) /\ Abs!Extent(lo, n) = D!Extent(lo, n)
    BY DEF Abs!Probes, D!Probes, Abs!Extent, D!Extent
  <2>3. \A p, q : Abs!Overlaps(p, q) <=> D!Overlaps(p, q)
    BY DEF Abs!Overlaps, D!Overlaps
  <2>4. Abs!ToSet(R) = D!ToSet(R)
    BY DEF Abs!ToSet, D!ToSet
  <2> QED
    BY <2>1, <2>2, <2>3, <2>4 DEF Abs!Accepts, D!Accepts
<1>2. \A r : AbsOf(r).p = r.p /\ AbsOf(r).alloc = Payloads(r.alloc)
  BY DEF AbsOf
<1>3. ASSUME NEW R, NEW r
      PROVE  /\ Abs!Refused(R, AbsOf(r)) <=> D!Refused(R, r)
             /\ Abs!Served(R, AbsOf(r)) <=> D!Served(R, r)
  BY <1>1, <1>2, SameBooks DEF Abs!Refused, D!Refused, Abs!Served, D!Served
<1>4. ASSUME NEW r PROVE Abs!assert_fails(AbsOf(r)) <=> D!assert_fails(r)
  BY <1>2, SameBooks, SameMoves DEF Abs!assert_fails, D!assert_fails
<1> QED
  BY <1>3, <1>4

(* The refinement mapping in the next state. *)
LEMMA PayloadsNext == Payloads(heap)' = Payloads(heap')
OBVIOUS

(* What a request and the answer to it amount to. *)
LEMMA RequestFacts ==
  ASSUME D!Trusted, D!ContractInv, NEW f \in D!Evaluations, NEW c \in {"a", "r"}, D!Running(f, c),
         NEW r \in mm_malloc(heap, D!op.size)
  PROVE  /\ AbsOf(r) \in AbsMalloc(Payloads(heap), D!op.size)
         /\ r.p # D!NULL => r.alloc \in Ready /\ Given(heap) \subseteq Given(r.alloc) /\ D!op.size # 0
<1> DEFINE n == D!op.size
<1>0. D!GoodFiles /\ D!ControlOK /\ D!HeapOK /\ f \in D!Phases
  BY DEF D!Trusted, D!ContractInv, D!Phases
<1>1. n \in Nat /\ D!Asked(n) /\ heap \in Ready
  BY <1>0, DriverConstants, D!SizeAsked, D!IsReady
<1>2. n \in Requested
  BY <1>1 DEF D!Asked, Requested
<1>3. r \in mm_malloc(heap, n)
  OBVIOUS
<1> HIDE DEF n
<1>4. AbsOf(r) \in AbsMalloc(Payloads(heap), n)
  BY <1>1, <1>2, <1>3, AbsMallocs
<1>5. n = 0 => r.p = D!NULL
  BY <1>3 DEF mm_malloc, NULL, D!NULL
<1>6. ASSUME n # 0 PROVE r.alloc \in Ready /\ Given(heap) \subseteq Given(r.alloc)
  <2>1. D!Gives(heap, n, r)
    BY <1>1, <1>2, <1>3, <1>6, MallocGives
  <2> QED
    BY <2>1 DEF D!Gives
<1> QED
  BY <1>4, <1>5, <1>6 DEF n

(* The block a request gives back. *)
LEMMA OldFacts ==
  ASSUME D!Trusted, D!ContractInv, NEW f \in D!Evaluations, NEW c \in {"r", "f"}, D!Running(f, c)
  PROVE  heap \in Ready /\ \E e \in Given(heap) : blocks[D!op.id] = e.lo
<1>1. D!ControlOK /\ D!HeapOK
  BY DEF D!ContractInv
<1> QED
  BY <1>1, DriverConstants, D!OldIsPayload, D!IsReady

(* memset changes no payload and no page. *)
LEMMA AbsMemsets ==
  ASSUME D!Trusted, D!ContractInv, NEW c \in {"a", "r"}, D!Running("valid", c), D!op.size # 0,
         NEW r \in mm_malloc(heap, D!op.size)
  PROVE  /\ memset(r.alloc, r.p, D!op.size, D!op.id) \in Ready
         /\ Given(memset(r.alloc, r.p, D!op.size, D!op.id)) = Given(r.alloc)
         /\ Payloads(memset(r.alloc, r.p, D!op.size, D!op.id)) = Payloads(r.alloc)
<1> DEFINE n == D!op.size
           i == D!op.id
           K == r.alloc
           W == memset(K, r.p, n, i)
<1>1. W \in Ready /\ Given(W) = Given(K) /\ K \in Ready
  BY RequestWrites
<1>2. K \in P!HeapType
  BY <1>1, ReadySound DEF States
<1> HIDE DEF n, i, K
<1>3. W.mapped = K.mapped
  BY <1>2 DEF memset, M!Fill, P!HeapType
<1>4. MappedPages(W) = MappedPages(K)
  BY <1>3 DEF MappedPages
<1>5. Payloads(W) = Payloads(K)
  BY <1>1, <1>4, PayloadsAre
<1> QED
  BY <1>1, <1>5 DEF n, i, K

(* mm_init. *)
LEMMA AbsInits ==
  ASSUME D!ContractInv, NEW r \in mm_init(heap), heap' = r.alloc
  PROVE  r.ok /\ \E q \in AbsInit(Payloads(heap)) : q.ok /\ Payloads(heap)' = q.alloc
<1>1. r.ok /\ r.alloc = M!InitHeap(heap)
  BY DEF mm_init
<1>2. heap \in States
  BY DEF D!ContractInv, D!HeapOK
<1> DEFINE q == [ok |-> TRUE, alloc |-> [Payloads(heap) EXCEPT !.held = {}]]
<1>3. q \in AbsInit(Payloads(heap)) /\ q.ok
  BY DEF AbsInit, C!Init
<1>4. Payloads(heap)' = q.alloc
  BY <1>1, <1>2, PayloadsNext, AbsOthers
<1> HIDE DEF q
<1> QED
  BY <1>1, <1>3, <1>4

(* mm_free of the block a request gives back. *)
LEMMA AbsFreed ==
  ASSUME D!Trusted, D!ContractInv, NEW f \in D!Evaluations, D!Running(f, "f"),
         heap' \in mm_free(heap, blocks[D!op.id])
  PROVE  Payloads(heap)' \in AbsFree(Payloads(heap), blocks[Abs!op.id])
<1>1. PICK e \in Given(heap) : blocks[D!op.id] = e.lo
  BY OldFacts
<1>2. heap \in Ready
  BY OldFacts
<1>3. Payloads(heap') \in AbsFree(Payloads(heap), e.lo)
  BY <1>1, <1>2, AbsFrees
<1> QED
  BY <1>1, <1>3, PayloadsNext, SameBooks

(* An evaluation that is at its end resets the heap. *)
LEMMA AbsResets ==
  ASSUME D!ContractInv, heap' = mem_reset(heap)
  PROVE  Payloads(heap)' = AbsReset(Payloads(heap))
<1>1. heap \in States
  BY DEF D!ContractInv, D!HeapOK
<1> QED
  BY <1>1, PayloadsNext, AbsOthers DEF mem_reset, AbsReset, C!Reset

(* eval_mm_valid enters. *)
LEMMA AbsValidEnter ==
  ASSUME D!Trusted, D!ContractInv, D!valid_enter
  PROVE  Abs!valid_enter
<1>1. PICK r \in mm_init(heap) :
        /\ heap' = r.alloc
        /\ IF r.ok THEN D!advance /\ UNCHANGED <<blocks, block_sizes, errors>> ELSE D!valid_fail
  BY DEF D!valid_enter
<1>2. phase = "valid" /\ opnum = 0 /\ ranges' = <<>>
  BY DEF D!valid_enter
<1>3. r.ok
  BY <1>1, AbsInits
<1>4. PICK q \in AbsInit(Payloads(heap)) : q.ok /\ Payloads(heap)' = q.alloc
  BY <1>1, AbsInits
<1>5. Abs!advance /\ UNCHANGED <<blocks, block_sizes, errors>>
  BY <1>1, <1>3, SameMoves
<1> QED
  BY <1>2, <1>4, <1>5 DEF Abs!valid_enter

(* mm_malloc and memset. *)
LEMMA AbsValidAlloc ==
  ASSUME D!Trusted, D!ContractInv, D!valid_alloc
  PROVE  Abs!valid_alloc
<1>1. PICK r \in mm_malloc(heap, D!op.size) :
        \/ heap' = r.alloc /\ D!assert_fails(r) /\ UNCHANGED ranges
        \/ heap' = r.alloc /\ D!Refused(ranges, r) /\ D!valid_fail /\ UNCHANGED ranges
        \/ /\ D!Remember(r.p)
           /\ D!Served(ranges, r)
           /\ ranges' = D!add_range(ranges, r.p, D!op.size)
           /\ heap' = memset(r.alloc, r.p, D!op.size, D!op.id)
           /\ D!advance /\ UNCHANGED errors
  BY DEF D!valid_alloc
<1>2. D!Running("valid", "a") /\ "valid" \in D!Evaluations
  BY DEF D!valid_alloc, D!Evaluations
<1> DEFINE q == AbsOf(r)
<1>3. q \in AbsMalloc(Payloads(heap), Abs!op.size)
  BY <1>2, RequestFacts, SameBooks
<1>4. q.p = r.p /\ q.alloc = Payloads(r.alloc)
  BY DEF AbsOf
<1>5. /\ Abs!Refused(ranges, q) <=> D!Refused(ranges, r)
      /\ Abs!Served(ranges, q) <=> D!Served(ranges, r)
      /\ Abs!assert_fails(q) <=> D!assert_fails(r)
  BY SameVerdicts
<1> HIDE DEF q
<1>6. \/ Payloads(heap)' = q.alloc /\ Abs!assert_fails(q) /\ UNCHANGED ranges
      \/ Payloads(heap)' = q.alloc /\ Abs!Refused(ranges, q) /\ Abs!valid_fail /\ UNCHANGED ranges
      \/ /\ Abs!Remember(q.p)
         /\ Abs!Served(ranges, q)
         /\ ranges' = Abs!add_range(ranges, q.p, Abs!op.size)
         /\ Payloads(heap)' = AbsMemset(q.alloc, q.p, Abs!op.size, Abs!op.id)
         /\ Abs!advance /\ UNCHANGED errors
  <2>1. CASE heap' = r.alloc /\ D!assert_fails(r) /\ UNCHANGED ranges
    BY <1>4, <1>5, <2>1, PayloadsNext
  <2>2. CASE heap' = r.alloc /\ D!Refused(ranges, r) /\ D!valid_fail /\ UNCHANGED ranges
    BY <1>4, <1>5, <2>2, PayloadsNext, SameMoves
  <2>3. CASE /\ D!Remember(r.p)
             /\ D!Served(ranges, r)
             /\ ranges' = D!add_range(ranges, r.p, D!op.size)
             /\ heap' = memset(r.alloc, r.p, D!op.size, D!op.id)
             /\ D!advance /\ UNCHANGED errors
    <3>1. D!op.size # 0
      BY <2>3 DEF D!Served
    <3>2. Payloads(memset(r.alloc, r.p, D!op.size, D!op.id)) = Payloads(r.alloc)
      BY <1>2, <3>1, AbsMemsets
    <3>3. Payloads(heap)' = q.alloc
      BY <1>4, <2>3, <3>2, PayloadsNext
    <3> QED
      BY <1>4, <1>5, <2>3, <3>3, SameBooks, SameMoves DEF AbsMemset
  <2> QED
    BY <1>1, <2>1, <2>2, <2>3
<1>7. Abs!Running("valid", "a")
  BY <1>2, SameBooks
<1> QED
  BY <1>3, <1>6, <1>7 DEF Abs!valid_alloc

(* And mm_free of the old block. *)
LEMMA AbsValidRealloc ==
  ASSUME D!Trusted, D!ContractInv, D!valid_realloc
  PROVE  Abs!valid_realloc
<1> DEFINE oldp == blocks[D!op.id]
           rest == D!remove_range(ranges, oldp)
<1>1. PICK r \in mm_malloc(heap, D!op.size) :
        \/ heap' = r.alloc /\ D!assert_fails(r) /\ ranges' = rest
        \/ /\ heap' = r.alloc /\ D!Refused(rest, r) /\ D!valid_fail
           /\ ranges' = IF r.p = D!NULL THEN ranges ELSE rest
        \/ /\ D!Remember(r.p)
           /\ D!Served(rest, r)
           /\ ranges' = D!add_range(rest, r.p, D!op.size)
           /\ heap' \in mm_free(memset(r.alloc, r.p, D!op.size, D!op.id), oldp)
           /\ D!advance /\ UNCHANGED errors
  BY DEF D!valid_realloc
<1>2. D!Running("valid", "r") /\ "valid" \in D!Evaluations
  BY DEF D!valid_realloc, D!Evaluations
<1> DEFINE q == AbsOf(r)
<1>3. q \in AbsMalloc(Payloads(heap), Abs!op.size)
  BY <1>2, RequestFacts, SameBooks
<1>4. q.p = r.p /\ q.alloc = Payloads(r.alloc)
  BY DEF AbsOf
<1>5. /\ Abs!Refused(rest, q) <=> D!Refused(rest, r)
      /\ Abs!Served(rest, q) <=> D!Served(rest, r)
      /\ Abs!assert_fails(q) <=> D!assert_fails(r)
  BY SameVerdicts
<1>6. oldp = blocks[Abs!op.id] /\ rest = Abs!remove_range(ranges, blocks[Abs!op.id])
  BY SameBooks
<1> HIDE DEF q, rest
<1>7. \/ Payloads(heap)' = q.alloc /\ Abs!assert_fails(q) /\ ranges' = rest
      \/ /\ Payloads(heap)' = q.alloc /\ Abs!Refused(rest, q) /\ Abs!valid_fail
         /\ ranges' = IF q.p = Abs!NULL THEN ranges ELSE rest
      \/ /\ Abs!Remember(q.p)
         /\ Abs!Served(rest, q)
         /\ ranges' = Abs!add_range(rest, q.p, Abs!op.size)
         /\ Payloads(heap)' \in AbsFree(AbsMemset(q.alloc, q.p, Abs!op.size, Abs!op.id), oldp)
         /\ Abs!advance /\ UNCHANGED errors
  <2>1. CASE heap' = r.alloc /\ D!assert_fails(r) /\ ranges' = rest
    BY <1>4, <1>5, <2>1, PayloadsNext
  <2>2. CASE /\ heap' = r.alloc /\ D!Refused(rest, r) /\ D!valid_fail
             /\ ranges' = IF r.p = D!NULL THEN ranges ELSE rest
    BY <1>4, <1>5, <2>2, PayloadsNext, SameMoves, SameBooks
  <2>3. CASE /\ D!Remember(r.p)
             /\ D!Served(rest, r)
             /\ ranges' = D!add_range(rest, r.p, D!op.size)
             /\ heap' \in mm_free(memset(r.alloc, r.p, D!op.size, D!op.id), oldp)
             /\ D!advance /\ UNCHANGED errors
    <3> DEFINE W == memset(r.alloc, r.p, D!op.size, D!op.id)
    <3>1. D!op.size # 0 /\ r.p # D!NULL
      BY <2>3 DEF D!Served
    <3>2. W \in Ready /\ Given(W) = Given(r.alloc) /\ Payloads(W) = Payloads(r.alloc)
      BY <1>2, <3>1, AbsMemsets
    <3>3. Given(heap) \subseteq Given(r.alloc)
      BY <1>2, <3>1, RequestFacts
    <3>4. PICK e \in Given(heap) : oldp = e.lo
      BY <1>2, OldFacts
    <3>5. heap' \in mm_free(W, e.lo)
      BY <2>3, <3>4
    <3> HIDE DEF W, oldp
    <3>6. Payloads(heap') \in AbsFree(Payloads(W), e.lo)
      BY <3>2, <3>3, <3>5, AbsFrees
    <3>7. Payloads(heap)' \in AbsFree(q.alloc, oldp)
      BY <1>4, <3>2, <3>4, <3>6, PayloadsNext
    <3> QED
      BY <1>4, <1>5, <2>3, <3>7, SameBooks, SameMoves DEF AbsMemset
  <2> QED
    BY <1>1, <2>1, <2>2, <2>3
<1>8. Abs!Running("valid", "r")
  BY <1>2, SameBooks
<1> HIDE DEF oldp
<1> QED
  BY <1>3, <1>6, <1>7, <1>8 DEF Abs!valid_realloc

(* eval_mm_valid. *)
LEMMA AbsValid ==
  ASSUME D!Trusted, D!ContractInv, D!eval_mm_valid
  PROVE  Abs!eval_mm_valid
<1>1. ASSUME D!valid_free PROVE Abs!valid_free
  <2>1. /\ D!Running("valid", "f") /\ "valid" \in D!Evaluations
        /\ heap' \in mm_free(heap, blocks[D!op.id])
        /\ ranges' = D!remove_range(ranges, blocks[D!op.id])
        /\ D!advance /\ UNCHANGED <<blocks, block_sizes, errors>>
    BY <1>1 DEF D!valid_free, D!Evaluations
  <2> QED
    BY <2>1, AbsFreed, SameBooks, SameMoves DEF Abs!valid_free
<1>2. ASSUME D!valid_exit PROVE Abs!valid_exit
  <2>1. Payloads(heap)' = AbsReset(Payloads(heap))
    BY <1>2, AbsResets DEF D!valid_exit
  <2> QED
    BY <1>2, <2>1, SameBooks, SameMoves DEF D!valid_exit, Abs!valid_exit
<1> QED
  BY <1>1, <1>2, AbsValidEnter, AbsValidAlloc, AbsValidRealloc DEF D!eval_mm_valid, Abs!eval_mm_valid

(* A request of eval_mm_util or eval_mm_speed that is not refused, and its *)
(* mm_free.                                                                *)
LEMMA AbsRequests ==
  ASSUME D!Trusted, D!ContractInv, NEW f \in D!Evaluations, NEW c \in {"a", "r"}, D!Running(f, c),
         NEW r \in mm_malloc(heap, D!op.size)
  PROVE  \E q \in AbsMalloc(Payloads(heap), Abs!op.size) :
           /\ q.p = r.p
           /\ heap' = r.alloc => Payloads(heap)' = q.alloc
           /\ c = "r" /\ r.p # D!NULL /\ heap' \in mm_free(r.alloc, blocks[D!op.id]) =>
                Payloads(heap)' \in AbsFree(q.alloc, blocks[Abs!op.id])
<1> DEFINE q == AbsOf(r)
<1>1. q \in AbsMalloc(Payloads(heap), Abs!op.size)
  BY RequestFacts, SameBooks
<1>2. q.p = r.p /\ q.alloc = Payloads(r.alloc)
  BY DEF AbsOf
<1> HIDE DEF q
<1>3. heap' = r.alloc => Payloads(heap)' = q.alloc
  BY <1>2, PayloadsNext
<1>4. ASSUME c = "r", r.p # D!NULL, heap' \in mm_free(r.alloc, blocks[D!op.id])
      PROVE  Payloads(heap)' \in AbsFree(q.alloc, blocks[Abs!op.id])
  <2> DEFINE K == r.alloc
  <2>1. K \in Ready /\ Given(heap) \subseteq Given(K)
    BY <1>4, RequestFacts
  <2>2. PICK e \in Given(heap) : blocks[D!op.id] = e.lo
    BY <1>4, OldFacts
  <2>3. heap' \in mm_free(K, e.lo)
    BY <1>4, <2>2
  <2>4. q.alloc = Payloads(K)
    BY <1>2
  <2> HIDE DEF K
  <2>5. Payloads(heap') \in AbsFree(Payloads(K), e.lo)
    BY <2>1, <2>2, <2>3, AbsFrees
  <2> QED
    BY <2>2, <2>4, <2>5, PayloadsNext, SameBooks
<1> QED
  BY <1>1, <1>2, <1>3, <1>4

(* The statistics are the same. *)
LEMMA SameStats ==
  /\ Abs!NoStats = D!NoStats
  /\ Abs!realloc_total = D!realloc_total
  /\ \A total : Abs!Update(total) <=> D!Update(total)
<1>1. Abs!realloc_total = D!realloc_total
  BY SameBooks DEF Abs!realloc_total, D!realloc_total
<1>2. AbsMapped(Payloads(heap)') = MappedPages(heap')
  BY PayloadsNext, PayloadsAre DEF AbsMapped
<1>3. Abs!mem_heapsize(Payloads(heap)') = D!mem_heapsize(heap')
  BY <1>2 DEF Abs!mem_heapsize, D!mem_heapsize, Abs!Cardinality, D!Cardinality
<1>4. \A S : Abs!Max(S) = D!Max(S)
  BY DEF Abs!Max, D!Max
<1>5. \A total : Abs!Update(total) <=> D!Update(total)
  BY <1>3, <1>4 DEF Abs!Update, D!Update
<1> QED
  BY <1>1, <1>5 DEF Abs!NoStats, D!NoStats

(* eval_mm_util. *)
LEMMA AbsUtil ==
  ASSUME D!Trusted, D!ContractInv, D!eval_mm_util
  PROVE  Abs!eval_mm_util
<1>0. "util" \in D!Evaluations
  BY DEF D!Evaluations
<1>1. ASSUME D!util_enter PROVE Abs!util_enter
  <2>1. PICK r \in mm_init(heap) : heap' = r.alloc /\ (IF r.ok THEN D!advance ELSE D!exit)
    BY <1>1 DEF D!util_enter
  <2>2. r.ok /\ \E q \in AbsInit(Payloads(heap)) : q.ok /\ Payloads(heap)' = q.alloc
    BY <2>1, AbsInits
  <2> QED
    BY <1>1, <2>1, <2>2, SameMoves, SameStats DEF D!util_enter, Abs!util_enter
<1>2. ASSUME D!util_alloc PROVE Abs!util_alloc
  <2>1. D!Running("util", "a")
    BY <1>2 DEF D!util_alloc
  <2>2. PICK r \in mm_malloc(heap, D!op.size) :
          \/ D!app_error(r)
          \/ /\ r.p # D!NULL
             /\ D!Remember(r.p)
             /\ heap' = r.alloc
             /\ D!Update(stats.total + D!op.size)
             /\ D!advance
    BY <1>2 DEF D!util_alloc
  <2>3. PICK q \in AbsMalloc(Payloads(heap), Abs!op.size) :
          q.p = r.p /\ (heap' = r.alloc => Payloads(heap)' = q.alloc)
    BY <1>0, <2>1, AbsRequests
  <2>4. D!app_error(r) => Abs!app_error(q)
    BY <2>3, SameBooks, SameMoves DEF D!app_error, Abs!app_error
  <2> QED
    BY <2>1, <2>2, <2>3, <2>4, SameBooks, SameMoves, SameStats DEF Abs!util_alloc
<1>3. ASSUME D!util_realloc PROVE Abs!util_realloc
  <2>1. D!Running("util", "r")
    BY <1>3 DEF D!util_realloc
  <2>2. PICK r \in mm_malloc(heap, D!op.size) :
          \/ D!app_error(r)
          \/ /\ r.p # D!NULL
             /\ D!Remember(r.p)
             /\ heap' \in mm_free(r.alloc, blocks[D!op.id])
             /\ D!Update(D!realloc_total)
             /\ D!advance
    BY <1>3 DEF D!util_realloc
  <2>3. PICK q \in AbsMalloc(Payloads(heap), Abs!op.size) :
          /\ q.p = r.p
          /\ heap' = r.alloc => Payloads(heap)' = q.alloc
          /\ r.p # D!NULL /\ heap' \in mm_free(r.alloc, blocks[D!op.id]) =>
               Payloads(heap)' \in AbsFree(q.alloc, blocks[Abs!op.id])
    BY <1>0, <2>1, AbsRequests
  <2>4. D!app_error(r) => Abs!app_error(q)
    BY <2>3, SameBooks, SameMoves DEF D!app_error, Abs!app_error
  <2> QED
    BY <2>1, <2>2, <2>3, <2>4, SameBooks, SameMoves, SameStats DEF Abs!util_realloc
<1>4. ASSUME D!util_free PROVE Abs!util_free
  <2>1. /\ D!Running("util", "f")
        /\ heap' \in mm_free(heap, blocks[D!op.id])
        /\ D!Update(stats.total - block_sizes[D!op.id])
        /\ D!advance /\ UNCHANGED <<blocks, block_sizes>>
    BY <1>4 DEF D!util_free
  <2> QED
    BY <1>0, <2>1, AbsFreed, SameBooks, SameMoves, SameStats DEF Abs!util_free
<1>5. ASSUME D!util_exit PROVE Abs!util_exit
  <2>1. Payloads(heap)' = AbsReset(Payloads(heap))
    BY <1>5, AbsResets DEF D!util_exit
  <2> QED
    BY <1>5, <2>1, SameBooks, SameMoves DEF D!util_exit, Abs!util_exit
<1> QED
  BY <1>1, <1>2, <1>3, <1>4, <1>5 DEF D!eval_mm_util, Abs!eval_mm_util

(* eval_mm_speed. *)
LEMMA AbsSpeed ==
  ASSUME D!Trusted, D!ContractInv, D!eval_mm_speed
  PROVE  Abs!eval_mm_speed
<1>0. "speed" \in D!Evaluations
  BY DEF D!Evaluations
<1>1. ASSUME D!speed_enter PROVE Abs!speed_enter
  <2>1. PICK r \in mm_init(heap) : heap' = r.alloc /\ (IF r.ok THEN D!advance ELSE D!exit)
    BY <1>1 DEF D!speed_enter
  <2>2. r.ok /\ \E q \in AbsInit(Payloads(heap)) : q.ok /\ Payloads(heap)' = q.alloc
    BY <2>1, AbsInits
  <2> QED
    BY <1>1, <2>1, <2>2, SameMoves DEF D!speed_enter, Abs!speed_enter
<1>2. ASSUME D!speed_alloc PROVE Abs!speed_alloc
  <2>1. D!Running("speed", "a")
    BY <1>2 DEF D!speed_alloc
  <2>2. PICK r \in mm_malloc(heap, D!op.size) :
          \/ D!speed_error(r)
          \/ /\ r.p # D!NULL
             /\ blocks' = [blocks EXCEPT ![D!op.id] = r.p]
             /\ heap' = r.alloc
             /\ D!advance
    BY <1>2 DEF D!speed_alloc
  <2>3. PICK q \in AbsMalloc(Payloads(heap), Abs!op.size) :
          q.p = r.p /\ (heap' = r.alloc => Payloads(heap)' = q.alloc)
    BY <1>0, <2>1, AbsRequests
  <2>4. D!speed_error(r) => Abs!speed_error(q)
    BY <2>3, SameBooks, SameMoves DEF D!speed_error, Abs!speed_error
  <2> QED
    BY <2>1, <2>2, <2>3, <2>4, SameBooks, SameMoves DEF Abs!speed_alloc
<1>3. ASSUME D!speed_realloc PROVE Abs!speed_realloc
  <2>1. D!Running("speed", "r")
    BY <1>3 DEF D!speed_realloc
  <2>2. PICK r \in mm_malloc(heap, D!op.size) :
          \/ D!speed_error(r)
          \/ /\ r.p # D!NULL
             /\ blocks' = [blocks EXCEPT ![D!op.id] = r.p]
             /\ heap' \in mm_free(r.alloc, blocks[D!op.id])
             /\ D!advance
    BY <1>3 DEF D!speed_realloc
  <2>3. PICK q \in AbsMalloc(Payloads(heap), Abs!op.size) :
          /\ q.p = r.p
          /\ heap' = r.alloc => Payloads(heap)' = q.alloc
          /\ r.p # D!NULL /\ heap' \in mm_free(r.alloc, blocks[D!op.id]) =>
               Payloads(heap)' \in AbsFree(q.alloc, blocks[Abs!op.id])
    BY <1>0, <2>1, AbsRequests
  <2>4. D!speed_error(r) => Abs!speed_error(q)
    BY <2>3, SameBooks, SameMoves DEF D!speed_error, Abs!speed_error
  <2> QED
    BY <2>1, <2>2, <2>3, <2>4, SameBooks, SameMoves DEF Abs!speed_realloc
<1>4. ASSUME D!speed_free PROVE Abs!speed_free
  <2>1. /\ D!Running("speed", "f")
        /\ heap' \in mm_free(heap, blocks[D!op.id])
        /\ D!advance /\ UNCHANGED blocks
    BY <1>4 DEF D!speed_free
  <2> QED
    BY <1>0, <2>1, AbsFreed, SameBooks, SameMoves DEF Abs!speed_free
<1>5. ASSUME D!speed_exit PROVE Abs!speed_exit
  <2>1. Payloads(heap)' = AbsReset(Payloads(heap))
    BY <1>5, AbsResets DEF D!speed_exit
  <2> QED
    BY <1>5, <2>1, SameBooks, SameMoves DEF D!speed_exit, Abs!speed_exit
<1>6. UNCHANGED <<files, block_sizes, ranges, D!results, libc>> =>
      UNCHANGED <<files, block_sizes, ranges, Abs!results, libc>>
  BY DEF D!results, Abs!results
<1> QED
  BY <1>1, <1>2, <1>3, <1>4, <1>5, <1>6 DEF D!eval_mm_speed, Abs!eval_mm_speed

(* The steps that do not call the allocator. *)
LEMMA AbsRest ==
  /\ D!read_trace => Abs!read_trace
  /\ D!eval_libc => Abs!eval_libc
  /\ D!libc_done => Abs!libc_done
  /\ D!report => Abs!report
<1>1. UNCHANGED heap => UNCHANGED Payloads(heap)
  BY PayloadsNext
<1>2. Abs!results = D!results /\ Abs!NoBlocks = D!NoBlocks
  BY SameBooks DEF Abs!results, D!results, Abs!NoBlocks, D!NoBlocks
<1>3. D!read_trace => Abs!read_trace
  <2>1. \A f : Abs!HeaderHolds(f) <=> D!HeaderHolds(f)
    BY DEF Abs!HeaderHolds, D!HeaderHolds, Abs!Max, D!Max
  <2>2. Abs!trace = D!trace
    BY DEF Abs!trace, D!trace
  <2> QED
    BY <1>1, <1>2, <2>1, <2>2, SameMoves DEF D!read_trace, Abs!read_trace, D!results, Abs!results
<1>4. D!eval_libc => Abs!eval_libc
  <2>1. \A S : Abs!Unused(S) = D!Unused(S)
    BY DEF Abs!Unused, D!Unused, Abs!Cardinality, D!Cardinality
  <2>2. \A f : Abs!libc_fails(f) <=> D!libc_fails(f)
    BY SameBooks, SameMoves DEF Abs!libc_fails, D!libc_fails, Abs!MayFail, D!MayFail
  <2>3. \A S, p : Abs!libc_gives(S, p) <=> D!libc_gives(S, p)
    BY SameBooks, SameMoves DEF Abs!libc_gives, D!libc_gives, Abs!MustFail, D!MustFail
  <2>4. \A f : Abs!libc_enter(f) <=> D!libc_enter(f)
    BY SameMoves DEF Abs!libc_enter, D!libc_enter
  <2>5. \A f : Abs!libc_alloc(f) <=> D!libc_alloc(f)
    BY <2>1, <2>2, <2>3, SameBooks DEF Abs!libc_alloc, D!libc_alloc
  <2>6. \A f : Abs!libc_free(f) <=> D!libc_free(f)
    BY SameBooks, SameMoves DEF Abs!libc_free, D!libc_free
  <2>7. Abs!libc_valid_realloc <=> D!libc_valid_realloc
    BY <2>1, <2>2, <2>3, SameBooks DEF Abs!libc_valid_realloc, D!libc_valid_realloc
  <2>8. Abs!libc_speed_realloc <=> D!libc_speed_realloc
    BY <2>1, <2>2, <2>3, SameBooks DEF Abs!libc_speed_realloc, D!libc_speed_realloc
  <2>9. Abs!libc_exit <=> D!libc_exit
    BY SameBooks, SameMoves DEF Abs!libc_exit, D!libc_exit
  <2> QED
    BY <1>1, <2>4, <2>5, <2>6, <2>7, <2>8, <2>9 DEF D!eval_libc, Abs!eval_libc
<1>5. D!libc_done => Abs!libc_done
  BY <1>1 DEF D!libc_done, Abs!libc_done, D!results, Abs!results
<1>6. D!report => Abs!report
  BY <1>1 DEF D!report, Abs!report, D!Cardinality, Abs!Cardinality
<1> QED
  BY <1>3, <1>4, <1>5, <1>6

(* Every step. *)
LEMMA AbsStep ==
  ASSUME D!Trusted, D!ContractInv, [D!Next]_(D!vars)
  PROVE  [Abs!Next]_(Abs!vars)
<1>1. UNCHANGED D!vars => UNCHANGED Abs!vars
  <2>1. UNCHANGED heap => UNCHANGED Payloads(heap)
    BY PayloadsNext
  <2> QED
    BY <2>1 DEF D!vars, Abs!vars, D!control, Abs!control, D!results, Abs!results
<1>2. ~ D!Ended => ~ Abs!Ended
  BY DEF D!Ended, Abs!Ended, AbsAborted
<1>3. D!Terminating => UNCHANGED D!vars
  BY DEF D!Terminating
<1> QED
  BY <1>1, <1>2, <1>3, AbsRest, AbsValid, AbsUtil, AbsSpeed DEF D!Next, Abs!Next

(* Linked with mm.c, the driver behaves as with an allocator that keeps    *)
(* the contract of module Contract: every step of the program is one of    *)
(* the driver with that allocator, where mm.c's blocks in use are the      *)
(* payloads it has given out.  What is proved or checked of the driver     *)
(* with the contract thus holds of the whole program.                      *)
THEOREM ContractImplemented ==
  ASSUME GoodHeaders
  PROVE  Spec => ImplementsContract
<1>1. D!Trusted
  BY DriverTrusts
<1>2. D!Init => Abs!Init
  <2>1. D!Init => Payloads(heap) = C!NoPages
    BY AbsOthers DEF D!Init
  <2> QED
    BY <2>1, SameBooks DEF D!Init, Abs!Init, D!NoBlocks, Abs!NoBlocks, D!NoStats, Abs!NoStats,
       D!Unvalid, Abs!Unvalid
<1>3. D!ContractInv /\ [D!Next]_(D!vars) => [Abs!Next]_(Abs!vars)
  BY <1>1, AbsStep
<1>4. D!Spec => []D!ContractInv
  BY <1>1, DriverConstants, D!Contracted
<1>5. D!Spec => Abs!Spec
  BY <1>2, <1>3, <1>4, PTL DEF D!Spec, Abs!Spec
<1> QED
  BY <1>5, SameProgram, PTL DEF ImplementsContract

=============================================================================
