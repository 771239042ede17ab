------------------------------ MODULE MM_proofs ------------------------------
(***************************************************************************)
(* Proofs about MM.                                                        *)
(***************************************************************************)
EXTENDS MM, Structures

USE DEF ALIGNMENT, HDRSIZE, FDRSIZE, PAGEHDRSIZE, MIN_BLOCK_SIZE

Address == Granule \cup {NULL}

HeapType ==
  [mem            : [Granule -> Word \X Word],
   mapped         : SUBSET Granule,
   free_list_head : Address,
   page_list_head : Address,
   crashed        : BOOLEAN]

(* The links as functions: a page header and the links of a free block     *)
(* both are <<prev, next>>.                                                *)
NextOf(H) == [a \in Granule |-> H.mem[a][2]]
PrevOf(H) == [a \in Granule |-> H.mem[a][1]]

(* The chunks C lie in mapped pages of a heap that has not crashed.        *)
Space(H, C) ==
  /\ H \in HeapType /\ H.crashed = FALSE
  /\ \A c \in C : PAGE <= c[1] /\ c[2] <= End /\ Cells(c) \subseteq H.mapped

(* The page list links the page headers of the chunks C.                   *)
PageLinks(H, C) ==
  \E P : /\ Linked(P, Granule, NULL, H.page_list_head, NextOf(H), PrevOf(H))
         /\ Elems(P) = {c[1] : c \in C}

(* Every page header records the extent of its chunk.                      *)
Extents(H, C) == \A c \in C : H.mem[c[1] + 1] = <<Size(c), c[2]>>

(* Every chunk is a number of whole pages.                                 *)
Whole(c)      == c[1] % PAGE = 0 /\ Size(c) % PAGE = 0
WholePages(C) == \A c \in C : Whole(c)

Paged(H, C) ==
  Space(H, C) /\ ChunkSet(C) /\ PageLinks(H, C) /\ Extents(H, C) /\ WholePages(C)

(* The free list links the payloads of the blocks S.                       *)
LinkCells(S) == {b[1] + 1 : b \in S}

Listed(H, S) ==
  \E L : /\ Linked(L, Granule, NULL, H.free_list_head, NextOf(H), PrevOf(H))
         /\ Elems(L) = LinkCells(S)

Heaped(H, C, S) == Paged(H, C) /\ Placed(C, S) /\ Separate(S) /\ Listed(H, S)

(* Both tags of block b, of the blocks B.                                  *)
Tag(H, b, flag) ==
  /\ H.mem[b[1]] = <<Size(b), flag>>
  /\ H.mem[b[2] - 1][1] = Size(b)

Tags(H, B, flag) == \A b \in B : Tag(H, b, flag)

(* The heap holds the chunks C, the free blocks F and the used blocks U.   *)
Rep(H, C, F, U) ==
  /\ Paged(H, C) /\ WellTiled(C, F, U) /\ Listed(H, F)
  /\ Tags(H, F, 0) /\ Tags(H, U, 1)

NoFull(C, F) == \A c \in C : Usable(c) \notin F

-----------------------------------------------------------------------------
(* The address space. *)
LEMMA AddressSpace ==
  /\ PAGE \in Nat /\ PAGE > 0 /\ MaxPage \in Nat /\ End \in Nat /\ End >= PAGE
  /\ Granule = PAGE .. End - 1 /\ NULL = 0 /\ NULL \notin Granule
  /\ PAGE * (MaxPage + 1) = End
<1>1. PAGE \in Nat /\ PAGE > 0 /\ MaxPage \in Nat
  BY LayoutAssumption DEF LayoutAssumption
<1>2. (MaxPage + 1) * PAGE = MaxPage * PAGE + PAGE /\ MaxPage * PAGE \in Nat
      /\ PAGE * (MaxPage + 1) = (MaxPage + 1) * PAGE
  BY <1>1
<1>3. End = (MaxPage + 1) * PAGE /\ Granule = PAGE .. End - 1
  BY DEF End, PageStart, Granule
<1>4. NULL = 0
  BY DEF NULL
<1> QED
  BY <1>1, <1>2, <1>3, <1>4

(* The fields of a heap.                                                   *)
LEMMA HeapFields ==
  ASSUME NEW H \in HeapType
  PROVE  /\ H.mem \in [Granule -> Nat \X Nat] /\ H.mapped \subseteq Granule
         /\ H.free_list_head \in Address /\ H.page_list_head \in Address
         /\ H.crashed \in BOOLEAN
         /\ \A a \in Granule : /\ H.mem[a] \in Nat \X Nat
                               /\ H.mem[a][1] \in Nat /\ H.mem[a][2] \in Nat
                               /\ H.mem[a] = <<H.mem[a][1], H.mem[a][2]>>
                               /\ NextOf(H)[a] = H.mem[a][2]
                               /\ PrevOf(H)[a] = H.mem[a][1]
<1>1. /\ H.mem \in [Granule -> Nat \X Nat] /\ H.mapped \subseteq Granule
      /\ H.free_list_head \in Address /\ H.page_list_head \in Address
      /\ H.crashed \in BOOLEAN
  BY DEF HeapType, Word
<1>2. ASSUME NEW a \in Granule
      PROVE  /\ H.mem[a] \in Nat \X Nat
             /\ H.mem[a][1] \in Nat /\ H.mem[a][2] \in Nat
             /\ H.mem[a] = <<H.mem[a][1], H.mem[a][2]>>
  <2>1. H.mem[a] \in Nat \X Nat
    BY <1>1
  <2> QED
    BY <2>1
<1>3. \A a \in Granule : NextOf(H)[a] = H.mem[a][2] /\ PrevOf(H)[a] = H.mem[a][1]
  BY DEF NextOf, PrevOf
<1> QED
  BY <1>1, <1>2, <1>3

(* K is heap H with word w at address a.                                   *)
Stored(H, K, a, w) ==
  /\ K \in HeapType
  /\ K.mapped = H.mapped /\ K.crashed = H.crashed
  /\ K.free_list_head = H.free_list_head /\ K.page_list_head = H.page_list_head
  /\ K.mem[a] = w
  /\ \A x \in Granule \ {a} : K.mem[x] = H.mem[x]

(* What a load returns, and what the stores do, at a mapped address.       *)
LEMMA LoadStore ==
  ASSUME NEW H \in HeapType, NEW a \in H.mapped
  PROVE  /\ a \in Granule /\ Load(H, a) = H.mem[a]
         /\ \A w \in Nat \X Nat : Stored(H, Store(H, a, w), a, w)
         /\ \A x \in Nat : /\ Stored(H, Store1(H, a, x), a, <<x, H.mem[a][2]>>)
                           /\ Stored(H, Store2(H, a, x), a, <<H.mem[a][1], x>>)
<1>1. a \in Granule /\ H.mem \in [Granule -> Nat \X Nat] /\ H.mem[a][1] \in Nat /\ H.mem[a][2] \in Nat
  BY HeapFields
<1>2. Load(H, a) = H.mem[a]
  BY DEF Load
<1>3. ASSUME NEW w \in Nat \X Nat PROVE Stored(H, Store(H, a, w), a, w)
  <2> DEFINE K == [H EXCEPT !.mem[a] = w]
  <2>1. Store(H, a, w) = K
    BY DEF Store
  <2>2. K \in HeapType
    BY <1>1 DEF HeapType, Word
  <2>3. /\ K.mapped = H.mapped /\ K.crashed = H.crashed
        /\ K.free_list_head = H.free_list_head /\ K.page_list_head = H.page_list_head
    BY DEF HeapType
  <2>4. K.mem = [H.mem EXCEPT ![a] = w]
    BY DEF HeapType
  <2>5. K.mem[a] = w /\ \A x \in Granule \ {a} : K.mem[x] = H.mem[x]
    BY <1>1, <2>4
  <2> HIDE DEF K
  <2> QED
    BY <2>1, <2>2, <2>3, <2>5 DEF Stored
<1>4. ASSUME NEW x \in Nat
      PROVE  /\ Stored(H, Store1(H, a, x), a, <<x, H.mem[a][2]>>)
             /\ Stored(H, Store2(H, a, x), a, <<H.mem[a][1], x>>)
  <2>1. <<x, H.mem[a][2]>> \in Nat \X Nat /\ <<H.mem[a][1], x>> \in Nat \X Nat
    BY <1>1
  <2> QED
    BY <1>2, <1>3, <2>1 DEF Store1, Store2
<1> QED
  BY <1>1, <1>2, <1>3, <1>4

(* Loads from mapped granules are no faults.                               *)
LEMMA ReadsMapped ==
  ASSUME NEW H, NEW A, A \subseteq H.mapped
  PROVE  Reads(H, A) = H
BY DEF Reads

-----------------------------------------------------------------------------
(* The lists. *)
LinkChain(H, head) == Chain(head, LAMBDA a : Load(H, a)[2])

(* A list without repetition is shorter than the walk of Chain.            *)
LEMMA ShortList ==
  ASSUME NEW L, L \in Seq(Granule), \A i, j \in 1 .. Len(L) : L[i] = L[j] => i = j
  PROVE  Len(L) <= Longest /\ Longest \in Nat
<1>1. Len(L) \in Nat /\ Longest \in Nat /\ Longest = End
  BY AddressSpace DEF Longest
<1>2. \A i \in 1 .. Len(L) : L[i] \in 1 .. Longest
  <2>1. \A i \in 1 .. Len(L) : L[i] \in Granule
    OBVIOUS
  <2> QED
    BY <1>1, <2>1, AddressSpace
<1>3. [i \in 1 .. Len(L) |-> L[i]] \in Injection(1 .. Len(L), 1 .. Longest)
  BY <1>1, <1>2 DEF Injection, IsInjective
<1>4. /\ IsFiniteSet(1 .. Longest) /\ Cardinality(1 .. Longest) = Longest
      /\ Cardinality(1 .. Len(L)) = Len(L)
  <2>1. \A k \in Nat : IsFiniteSet(1 .. k) /\ Cardinality(1 .. k) = IF 1 > k THEN 0 ELSE k - 1 + 1
    BY FS_Interval
  <2> QED
    BY <1>1, <2>1
<1>5. Cardinality(1 .. Len(L)) <= Cardinality(1 .. Longest)
  BY <1>3, <1>4, FS_Injection, ZenonT(60)
<1> QED
  BY <1>1, <1>4, <1>5

(* Following the links of mapped addresses yields the list they form.      *)
LEMMA ChainIsList ==
  ASSUME NEW H \in HeapType, NEW L, NEW head, NEW prev,
         Linked(L, Granule, NULL, head, NextOf(H), prev), Elems(L) \subseteq H.mapped
  PROVE  LinkChain(H, head) = L
<1> DEFINE next == [a \in Nat |-> Load(H, a)[2]]
           N == PAGE * (MaxPage + 1)
           walk == CHOOSE w : w = [n \in Nat |-> [a \in Nat |->
                       IF a = NULL \/ n = 0 THEN <<>> ELSE <<a>> \o w[n - 1][Load(H, a)[2]]]]
<1>1. next \in [Nat -> Nat]
  <2>1. ASSUME NEW a \in Nat PROVE Load(H, a)[2] \in Nat
    BY HeapFields DEF Load, Zero
  <2> QED
    BY <2>1
<1>2. PICK w : Walks(w, Nat, NULL, next)
  <2> HIDE DEF next
  <2> QED
    BY <1>1, WalkExists
<1>3. w = [n \in Nat |-> [a \in Nat |->
             IF a = NULL \/ n = 0 THEN <<>> ELSE <<a>> \o w[n - 1][Load(H, a)[2]]]]
  <2>1. ASSUME NEW n \in Nat, NEW a \in Nat
        PROVE  (IF a = NULL \/ n = 0 THEN <<>> ELSE <<a>> \o w[n - 1][next[a]])
             = (IF a = NULL \/ n = 0 THEN <<>> ELSE <<a>> \o w[n - 1][Load(H, a)[2]])
    OBVIOUS
  <2> HIDE DEF next, walk
  <2> QED
    BY <1>2, <2>1, ZenonT(60) DEF Walks
<1>4. walk = [n \in Nat |-> [a \in Nat |->
                IF a = NULL \/ n = 0 THEN <<>> ELSE <<a>> \o walk[n - 1][Load(H, a)[2]]]]
  BY <1>3
<1>5. LinkChain(H, head) = walk[N][head]
  BY DEF LinkChain, Chain, Longest
<1> HIDE DEF walk
<1>6. \A n \in Nat : walk[n][NULL] = <<>>
  BY <1>4, AddressSpace
<1>7. \A a \in Elems(L), n \in Nat : n # 0 => walk[n][a] = <<a>> \o walk[n - 1][NextOf(H)[a]]
  <2> SUFFICES ASSUME NEW a \in Elems(L), NEW n \in Nat, n # 0
               PROVE  walk[n][a] = <<a>> \o walk[n - 1][NextOf(H)[a]]
    OBVIOUS
  <2>1. a \in Nat /\ a # NULL /\ NextOf(H)[a] = Load(H, a)[2]
    BY LoadStore, HeapFields, AddressSpace, SMTT(60)
  <2>2. walk[n] = [x \in Nat |->
                     IF x = NULL \/ n = 0 THEN <<>> ELSE <<x>> \o walk[n - 1][Load(H, x)[2]]]
    BY <1>4
  <2>3. walk[n][a] = <<a>> \o walk[n - 1][Load(H, a)[2]]
    BY <2>1, <2>2
  <2> QED
    BY <2>1, <2>3
<1>8. Len(L) <= N /\ N \in Nat
  <2>1. L \in Seq(Granule) /\ \A i, j \in 1 .. Len(L) : L[i] = L[j] => i = j
    BY DEF Linked
  <2>2. Longest = N
    BY DEF Longest
  <2> QED
    BY <2>1, <2>2, ShortList
<1>9. walk[N][head] = L
  <2>1. Linked(L, Elems(L), NULL, head, NextOf(H), prev)
    <3>1. L \in Seq(Granule)
      BY DEF Linked
    <3>2. L \in Seq(Elems(L))
      BY <3>1 DEF Elems
    <3> QED
      BY <3>2 DEF Linked
  <2>2. Unrolls(walk, Elems(L), NULL, NextOf(H))
    BY <1>6, <1>7 DEF Unrolls
  <2>3. NULL \notin Elems(L)
    BY AddressSpace, HeapFields
  <2> HIDE DEF N
  <2> QED
    BY <1>8, <2>1, <2>2, <2>3, WalkList
<1> QED
  BY <1>5, <1>9

(* What the page header of chunk c of a heap says, and where it lies.      *)
Header(H, c) ==
  /\ c[1] \in Int /\ c[2] \in Int /\ c = <<c[1], c[2]>>
  /\ PAGE <= c[1] /\ c[1] + 2 < c[2] /\ c[2] <= End
  /\ \A x \in c[1] .. c[2] - 1 : x \in H.mapped /\ x \in Granule
  /\ c[1] \in H.mapped /\ c[1] + 1 \in H.mapped
  /\ c[1] \in Granule /\ c[1] + 1 \in Granule /\ c[1] # NULL
  /\ prev_chunk(H, c[1]) = PrevOf(H)[c[1]]
  /\ next_chunk(H, c[1]) = NextOf(H)[c[1]]
  /\ page_size(H, c[1]) = c[2] - c[1]
  /\ page_end(H, c[1]) = c[2]

(* Page headers are mapped, and reading them yields the extents.           *)
LEMMA HeaderRead ==
  ASSUME NEW H, NEW C, Paged(H, C), NEW c \in C
  PROVE  Header(H, c)
<1>1. H \in HeapType /\ H.mapped \subseteq Granule
  BY HeapFields DEF Paged, Space
<1>2. /\ c[1] \in Int /\ c[2] \in Int /\ c = <<c[1], c[2]>> /\ c[1] + 2 < c[2]
      /\ PAGE <= c[1] /\ c[2] <= End /\ Cells(c) \subseteq H.mapped
  BY DEF Paged, Space, ChunkSet
<1>3. \A x \in c[1] .. c[2] - 1 : x \in H.mapped /\ x \in Granule
  BY <1>1, <1>2 DEF Cells
<1>4. c[1] \in c[1] .. c[2] - 1 /\ c[1] + 1 \in c[1] .. c[2] - 1
  BY <1>2
<1>5. c[1] # NULL
  BY <1>2, AddressSpace
<1>6. H.mem[c[1] + 1] = <<c[2] - c[1], c[2]>>
  BY DEF Paged, Extents, Size
<1>7. Load(H, c[1]) = H.mem[c[1]] /\ Load(H, c[1] + 1) = H.mem[c[1] + 1]
  BY <1>1, <1>3, <1>4, LoadStore
<1>8. NextOf(H)[c[1]] = H.mem[c[1]][2] /\ PrevOf(H)[c[1]] = H.mem[c[1]][1]
  BY <1>1, <1>3, <1>4, HeapFields
<1>9. /\ prev_chunk(H, c[1]) = PrevOf(H)[c[1]] /\ next_chunk(H, c[1]) = NextOf(H)[c[1]]
      /\ page_size(H, c[1]) = c[2] - c[1] /\ page_end(H, c[1]) = c[2]
  BY <1>6, <1>7, <1>8 DEF prev_chunk, next_chunk, page_size, page_end
<1> QED
  BY <1>2, <1>3, <1>4, <1>5, <1>9 DEF Header

(* List L is doubly linked through the words of heap H and holds S.        *)
Links(H, head, L, S) ==
  /\ Linked(L, Granule, NULL, head, NextOf(H), PrevOf(H))
  /\ Elems(L) = S /\ L \in Seq(Granule) /\ Len(L) \in Nat
  /\ \A i \in 1 .. Len(L) : L[i] \in S
  /\ \A x \in S : \E i \in 1 .. Len(L) : L[i] = x

(* The page list is the list of the page headers.                          *)
LEMMA PageListIs ==
  ASSUME NEW H, NEW C, Paged(H, C)
  PROVE  Links(H, H.page_list_head, PageList(H), {c[1] : c \in C})
<1>1. H \in HeapType
  BY DEF Paged, Space
<1>2. PICK P : /\ Linked(P, Granule, NULL, H.page_list_head, NextOf(H), PrevOf(H))
               /\ Elems(P) = {c[1] : c \in C}
  BY DEF Paged, PageLinks
<1>3. \A c \in C : c[1] \in H.mapped
  BY HeaderRead DEF Header
<1>4. Elems(P) \subseteq H.mapped
  BY <1>2, <1>3
<1>5. PageList(H) = LinkChain(H, H.page_list_head)
  BY DEF PageList, LinkChain, next_chunk
<1>6. PageList(H) = P
  BY <1>1, <1>2, <1>4, <1>5, ChainIsList
<1>7. P \in Seq(Granule) /\ Len(P) \in Nat
  BY <1>2 DEF Linked
<1>8. /\ \A i \in 1 .. Len(P) : P[i] \in Elems(P)
      /\ \A x \in Elems(P) : \E i \in 1 .. Len(P) : P[i] = x
  BY DEF Elems
<1> QED
  BY <1>2, <1>6, <1>7, <1>8 DEF Links

(* Block b lies behind the page header of chunk c.                         *)
Behind(b, c) == c[1] + 2 <= b[1] /\ b[2] <= c[2]

(* The cells of a block.                                                   *)
BlockAt(H, b) ==
  /\ b[1] \in Int /\ b[2] \in Int /\ b = <<b[1], b[2]>> /\ b[2] - b[1] >= 3
  /\ \A x \in b[1] .. b[2] - 1 : x \in H.mapped /\ x \in Granule
  /\ b[1] \in H.mapped /\ b[1] + 1 \in H.mapped /\ b[2] - 1 \in H.mapped
  /\ b[1] \in Granule /\ b[1] + 1 \in Granule /\ b[2] - 1 \in Granule
  /\ b[1] + 1 # NULL /\ b[1] # NULL

(* A block behind the page header of a chunk lies in mapped granules.      *)
LEMMA BlockCells ==
  ASSUME NEW H, NEW C, Paged(H, C), NEW S, Placed(C, S), NEW b \in S
  PROVE  BlockAt(H, b) /\ \E c \in C : Behind(b, c)
<1>1. /\ b[1] \in Int /\ b[2] \in Int /\ b = <<b[1], b[2]>> /\ b[2] - b[1] >= 3
      /\ \E c \in C : c[1] + PAGEHDRSIZE <= b[1] /\ b[2] <= c[2]
  BY DEF Placed
<1>2. PICK c \in C : Behind(b, c)
  BY <1>1 DEF Behind
<1>3. /\ c[1] \in Int /\ c[2] \in Int /\ PAGE <= c[1]
      /\ \A x \in c[1] .. c[2] - 1 : x \in H.mapped /\ x \in Granule
  BY HeaderRead DEF Header
<1>4. \A x \in b[1] .. b[2] - 1 : x \in H.mapped /\ x \in Granule
  BY <1>1, <1>2, <1>3 DEF Behind
<1>5. b[1] \in b[1] .. b[2] - 1 /\ b[1] + 1 \in b[1] .. b[2] - 1 /\ b[2] - 1 \in b[1] .. b[2] - 1
  BY <1>1
<1>6. NULL \notin Granule
  BY AddressSpace
<1> QED
  BY <1>1, <1>2, <1>4, <1>5, <1>6 DEF BlockAt

(* The cells of a block are none of those of another block, nor of a page  *)
(* header.                                                                 *)
LEMMA BlocksApart ==
  ASSUME NEW H, NEW C, Paged(H, C), NEW S, Placed(C, S), Separate(S),
         NEW b \in S, NEW x \in Int, b[1] <= x, x < b[2]
  PROVE  /\ \A a \in S : a[1] <= x /\ x < a[2] => a = b
         /\ \A c \in C : x # c[1] /\ x # c[1] + 1
<1>1. \A a \in S : a[1] \in Int /\ a[2] \in Int
  BY BlockCells DEF BlockAt
<1>2. \A a \in S : a[1] <= x /\ x < a[2] => a = b
  BY <1>1 DEF Separate, Apart
<1>3. ASSUME NEW c \in C PROVE x # c[1] /\ x # c[1] + 1
  <2>1. PICK d \in C : Behind(b, d)
    BY BlockCells
  <2>2. c[1] \in Int /\ c[2] \in Int /\ d[1] \in Int /\ d[2] \in Int
        /\ c[1] + 2 < c[2] /\ d[1] + 2 < d[2]
    BY HeaderRead DEF Header
  <2>3. c = d \/ c[2] <= d[1] \/ d[2] <= c[1]
    BY DEF Paged, ChunkSet, Apart
  <2> QED
    BY <1>1, <2>1, <2>2, <2>3 DEF Behind
<1> QED
  BY <1>2, <1>3

(* The free list is the list of the links of the free blocks.              *)
LEMMA FreeListIs ==
  ASSUME NEW H, NEW C, NEW S, Heaped(H, C, S)
  PROVE  Links(H, H.free_list_head, FreeList(H), LinkCells(S))
<1>1. H \in HeapType
  BY DEF Heaped, Paged, Space
<1>2. PICK P : /\ Linked(P, Granule, NULL, H.free_list_head, NextOf(H), PrevOf(H))
               /\ Elems(P) = LinkCells(S)
  BY DEF Heaped, Listed
<1>3. \A b \in S : b[1] + 1 \in H.mapped
  BY BlockCells DEF BlockAt, Heaped
<1>4. Elems(P) \subseteq H.mapped
  BY <1>2, <1>3 DEF LinkCells
<1>5. FreeList(H) = LinkChain(H, H.free_list_head)
  BY DEF FreeList, LinkChain, FREE_NEXT_PTR
<1>6. FreeList(H) = P
  BY <1>1, <1>2, <1>4, <1>5, ChainIsList
<1>7. P \in Seq(Granule) /\ Len(P) \in Nat
  BY <1>2 DEF Linked
<1>8. /\ \A i \in 1 .. Len(P) : P[i] \in Elems(P)
      /\ \A x \in Elems(P) : \E i \in 1 .. Len(P) : P[i] = x
  BY DEF Elems
<1> QED
  BY <1>2, <1>6, <1>7, <1>8 DEF Links

(* The first of the indices that pass a test.                              *)
LEMMA FirstIndex ==
  ASSUME NEW S \in SUBSET Nat, S # {}
  PROVE  Min(S) \in S /\ \A i \in S : Min(S) <= i
<1>1. \E x \in S : \A y \in S : x <= y
  BY NatMinimum
<1> QED
  BY <1>1 DEF Min

(* find_page_chunk_for_addr finds the chunk a block address lies in.       *)
LEMMA FindChunk ==
  ASSUME NEW H, NEW C, Paged(H, C),
         NEW c \in C, NEW a \in Int, c[1] + 2 <= a, a < c[2]
  PROVE  find_page_chunk_for_addr(H, a) = c[1]
<1> DEFINE P == PageList(H)
           I == {i \in 1 .. Len(P) : P[i] + PAGEHDRSIZE <= a /\ a < page_end(H, P[i])}
<1>1. SelectInSeq(P, LAMBDA pc : pc + PAGEHDRSIZE <= a /\ a < page_end(H, pc))
        = IF I # {} THEN Min(I) ELSE 0
  BY DEF SelectInSeq
<1>2. I \in SUBSET (1 .. Len(P)) /\ \A i \in 1 .. Len(P) : i \in I
                 <=> P[i] + 2 <= a /\ a < page_end(H, P[i])
  OBVIOUS
<1>3. find_page_chunk_for_addr(H, a)
        = LET hit == IF I # {} THEN Min(I) ELSE 0 IN IF hit = 0 THEN NULL ELSE P[hit]
  BY <1>1 DEF find_page_chunk_for_addr, chunk_index
<1> HIDE DEF I, P
<1>4. Links(H, H.page_list_head, P, {d[1] : d \in C})
  BY PageListIs DEF P
<1>5. PICK k \in 1 .. Len(P) : P[k] = c[1]
  BY <1>4 DEF Links
<1>6. page_end(H, c[1]) = c[2] /\ c[1] \in Int /\ c[2] \in Int
  BY HeaderRead DEF Header
<1>7. k \in I
  BY <1>2, <1>5, <1>6
<1>8. ASSUME NEW i \in I PROVE P[i] = c[1]
  <2>1. i \in 1 .. Len(P) /\ P[i] + 2 <= a /\ a < page_end(H, P[i])
    BY <1>2
  <2>2. PICK d \in C : P[i] = d[1]
    BY <1>4, <2>1 DEF Links
  <2>3. page_end(H, d[1]) = d[2] /\ d[1] \in Int /\ d[2] \in Int
    BY HeaderRead DEF Header
  <2>4. c = d \/ c[2] <= d[1] \/ d[2] <= c[1]
    BY DEF Paged, ChunkSet, Apart
  <2> QED
    BY <1>6, <2>1, <2>2, <2>3, <2>4
<1>9. I \in SUBSET Nat /\ I # {} /\ 0 \notin I
  BY <1>2, <1>4, <1>7 DEF Links
<1>10. Min(I) \in I
  BY <1>9, FirstIndex
<1> QED
  BY <1>3, <1>8, <1>9, <1>10

(* A search of a list visits elements of the list.                         *)
LEMMA VisitedIn ==
  ASSUME NEW list, NEW hit, NEW x \in Visited(list, hit)
  PROVE  \E i \in DOMAIN list : x = list[i]
BY DEF Visited

(* To find a chunk, only page headers are read.                            *)
LEMMA ChunksRead ==
  ASSUME NEW H, NEW C, Paged(H, C), NEW a
  PROVE  ReadToFind(H, a) \subseteq H.mapped
<1> SUFFICES ASSUME NEW pc \in Visited(PageList(H), chunk_index(H, a)), NEW i \in {0, 1}
             PROVE  pc + i \in H.mapped
  BY DEF ReadToFind
<1> DEFINE P == PageList(H)
<1>1. PICK j \in DOMAIN P : pc = P[j]
  BY VisitedIn
<1>2. Links(H, H.page_list_head, P, {c[1] : c \in C})
  BY PageListIs
<1> HIDE DEF P
<1>3. j \in 1 .. Len(P)
  BY <1>1, <1>2 DEF Links
<1>4. PICK c \in C : pc = c[1]
  BY <1>1, <1>2, <1>3 DEF Links
<1>5. Header(H, c)
  BY HeaderRead
<1>6. c[1] + 0 = c[1]
  BY <1>5 DEF Header
<1> QED
  BY <1>4, <1>5, <1>6 DEF Header

(* write_footer, for a block that lies behind a page header.               *)
LEMMA WriteFooter ==
  ASSUME NEW H, NEW C, Paged(H, C),
         NEW c \in C, NEW h \in Int, NEW n \in Nat, n >= 1, H.mem[h][1] = n,
         c[1] + 2 <= h, h + n <= c[2]
  PROVE  Stored(H, write_footer(H, h), h + n - 1, <<n, H.mem[h + n - 1][2]>>)
<1>1. /\ c[1] \in Int /\ c[2] \in Int /\ h < c[2] /\ c[1] # NULL /\ page_end(H, c[1]) = c[2]
      /\ \A x \in c[1] .. c[2] - 1 : x \in H.mapped
  BY HeaderRead DEF Header
<1>2. find_page_chunk_for_addr(H, h) = c[1]
  BY <1>1, FindChunk
<1>3. h \in H.mapped /\ h + n - 1 \in H.mapped
  BY <1>1
<1>4. H \in HeapType
  BY DEF Paged, Space
<1>5. BLOCK_SIZE(H, h) = n
  BY <1>3, <1>4, LoadStore DEF BLOCK_SIZE
<1>6. Within(H, c[1], h + n - 1, 1)
  BY <1>1 DEF Within
<1>7. Reads(H, {h} \cup ReadToFind(H, h)) = H
  <2>1. {h} \cup ReadToFind(H, h) \subseteq H.mapped
    BY <1>3, ChunksRead
  <2> QED
    BY <2>1, ReadsMapped
<1>8. write_footer(H, h) = Store1(H, h + n - 1, n)
  BY <1>1, <1>2, <1>5, <1>6, <1>7 DEF write_footer
<1> QED
  BY <1>3, <1>4, <1>8, LoadStore

-----------------------------------------------------------------------------
(* What a step leaves alone. *)

(* Heap K is heap H but for the free list's head and the words at A.       *)
Moved(H, K, A) ==
  /\ K \in HeapType
  /\ K.mapped = H.mapped /\ K.crashed = H.crashed /\ K.page_list_head = H.page_list_head
  /\ \A x \in Granule \ A : K.mem[x] = H.mem[x]

(* Steps compose.                                                          *)
LEMMA MovedTwice ==
  ASSUME NEW H, NEW K, NEW M, NEW A, NEW B, Moved(H, K, A), Moved(K, M, B)
  PROVE  Moved(H, M, A \cup B)
BY DEF Moved

(* A step that changed the granules A changed no others than those of B.   *)
LEMMA MovedMore ==
  ASSUME NEW H, NEW K, NEW A, NEW B, Moved(H, K, A), A \subseteq B
  PROVE  Moved(H, K, B)
BY DEF Moved

(* A list does not change when its links do not.                           *)
LEMMA LinkedKept ==
  ASSUME NEW L, NEW P, NEW nil, NEW head, NEW next, NEW prev,
         Linked(L, P, nil, head, next, prev), NEW next2, NEW prev2,
         \A q \in Elems(L) : next2[q] = next[q] /\ prev2[q] = prev[q]
  PROVE  Linked(L, P, nil, head, next2, prev2)
<1>1. \A i \in 1 .. Len(L) : L[i] \in Elems(L)
  BY DEF Elems
<1> QED
  BY <1>1 DEF Linked

(* The links of the cells that do not change.                              *)
LEMMA LinksMoved ==
  ASSUME NEW H \in HeapType, NEW K \in HeapType, NEW q \in Granule, K.mem[q] = H.mem[q]
  PROVE  NextOf(K)[q] = NextOf(H)[q] /\ PrevOf(K)[q] = PrevOf(H)[q]
BY DEF NextOf, PrevOf

(* The links after the neighbours of p have been joined.                   *)
Unlinks(L, p, nil, head, next, prev, head2, next2, prev2) ==
  /\ head2 = (IF prev[p] = nil THEN next[p] ELSE head)
  /\ \A q \in Elems(L) \ {p} :
       /\ next2[q] = IF q = prev[p] THEN next[p] ELSE next[q]
       /\ prev2[q] = IF q = next[p] THEN prev[p] ELSE prev[q]

(* They form a list of all but p.                                          *)
LEMMA Unlink ==
  ASSUME NEW P, NEW nil, nil \notin P, NEW L, NEW head, NEW next, NEW prev,
         Linked(L, P, nil, head, next, prev), NEW p \in Elems(L),
         NEW head2, NEW next2, NEW prev2,
         Unlinks(L, p, nil, head, next, prev, head2, next2, prev2)
  PROVE  \E M : Linked(M, P, nil, head2, next2, prev2) /\ Elems(M) = Elems(L) \ {p}
<1>1. PICK k \in 1 .. Len(L) : L[k] = p
  BY DEF Elems
<1>2. /\ head2 = (IF prev[p] = nil THEN next[p] ELSE head)
      /\ \A q \in Elems(L) \ {p} :
           /\ next2[q] = IF q = prev[p] THEN next[p] ELSE next[q]
           /\ prev2[q] = IF q = next[p] THEN prev[p] ELSE prev[q]
  BY DEF Unlinks
<1>3. p = L[k]
  BY <1>1
<1>4. /\ Linked(Without(L, k), P, nil, head2, next2, prev2)
      /\ Elems(Without(L, k)) = Elems(L) \ {p}
  BY <1>2, <1>3, UnlinkLinked
<1> QED
  BY <1>4

(* No page header is touched.                                              *)
OffHeaders(C, A) == \A c \in C : c[1] \notin A /\ c[1] + 1 \notin A

(* The page list stays when the words at the starts of the chunks do.      *)
LEMMA PageLinksSame ==
  ASSUME NEW H \in HeapType, NEW K \in HeapType, NEW C, PageLinks(H, C),
         K.page_list_head = H.page_list_head, \A c \in C : K.mem[c[1]] = H.mem[c[1]]
  PROVE  PageLinks(K, C)
<1>1. PICK P : /\ Linked(P, Granule, NULL, H.page_list_head, NextOf(H), PrevOf(H))
               /\ Elems(P) = {c[1] : c \in C}
  BY DEF PageLinks
<1>2. \A q \in Elems(P) : q \in Granule
  <2>1. P \in Seq(Granule)
    BY <1>1 DEF Linked
  <2> QED
    BY <2>1 DEF Elems
<1>3. \A q \in Elems(P) : K.mem[q] = H.mem[q]
  BY <1>1
<1>4. \A q \in Elems(P) : NextOf(K)[q] = NextOf(H)[q] /\ PrevOf(K)[q] = PrevOf(H)[q]
  BY <1>2, <1>3, LinksMoved
<1>5. Linked(P, Granule, NULL, H.page_list_head, NextOf(K), PrevOf(K))
  BY <1>1, <1>4, LinkedKept
<1> QED
  BY <1>1, <1>5 DEF PageLinks

(* A store that touches no page header keeps chunks and page list.         *)
LEMMA PagedKept ==
  ASSUME NEW H, NEW C, Paged(H, C), NEW K, NEW A, Moved(H, K, A), OffHeaders(C, A)
  PROVE  Paged(K, C)
<1>1. H \in HeapType /\ K \in HeapType
  BY DEF Moved, Paged, Space
<1>2. Space(K, C) /\ ChunkSet(C)
  BY DEF Moved, Paged, Space
<1>3. \A c \in C : K.mem[c[1]] = H.mem[c[1]] /\ K.mem[c[1] + 1] = H.mem[c[1] + 1]
  <2>1. \A c \in C : c[1] \in Granule /\ c[1] + 1 \in Granule
    BY HeaderRead DEF Header
  <2> QED
    BY <2>1 DEF Moved, OffHeaders
<1>4. Extents(K, C)
  BY <1>3 DEF Paged, Extents
<1>5. PageLinks(K, C)
  BY <1>1, <1>3, PageLinksSame DEF Paged, Moved
<1> QED
  BY <1>2, <1>4, <1>5 DEF Paged

(* The free list stays when the links of its blocks do.                    *)
LEMMA ListedSame ==
  ASSUME NEW H \in HeapType, NEW K \in HeapType, NEW S, Listed(H, S),
         K.free_list_head = H.free_list_head, \A x \in LinkCells(S) : K.mem[x] = H.mem[x]
  PROVE  Listed(K, S)
<1>1. PICK P : /\ Linked(P, Granule, NULL, H.free_list_head, NextOf(H), PrevOf(H))
               /\ Elems(P) = LinkCells(S)
  BY DEF Listed
<1>2. \A q \in Elems(P) : q \in Granule
  <2>1. P \in Seq(Granule)
    BY <1>1 DEF Linked
  <2> QED
    BY <2>1 DEF Elems
<1>3. \A q \in Elems(P) : NextOf(K)[q] = NextOf(H)[q] /\ PrevOf(K)[q] = PrevOf(H)[q]
  BY <1>1, <1>2, LinksMoved
<1>4. Linked(P, Granule, NULL, H.free_list_head, NextOf(K), PrevOf(K))
  BY <1>1, <1>3, LinkedKept
<1> QED
  BY <1>1, <1>4 DEF Listed

(* A store that touches no links of the list keeps the free list.          *)
LEMMA ListedKept ==
  ASSUME NEW H \in HeapType, NEW S, Listed(H, S), NEW K, NEW A, Moved(H, K, A),
         K.free_list_head = H.free_list_head, A \cap LinkCells(S) = {}
  PROVE  Listed(K, S)
<1>1. LinkCells(S) \subseteq Granule
  <2>1. PICK P : P \in Seq(Granule) /\ Elems(P) = LinkCells(S)
    BY DEF Listed, Linked
  <2> QED
    BY <2>1 DEF Elems
<1>2. \A x \in LinkCells(S) : K.mem[x] = H.mem[x]
  BY <1>1 DEF Moved
<1> QED
  BY <1>2, ListedSame DEF Moved

-----------------------------------------------------------------------------
(* The list heads. *)
FreeHead(H, K, p) ==
  /\ K \in HeapType /\ K.mem = H.mem /\ K.mapped = H.mapped /\ K.crashed = H.crashed
  /\ K.free_list_head = p /\ K.page_list_head = H.page_list_head

PageHead(H, K, p) ==
  /\ K \in HeapType /\ K.mem = H.mem /\ K.mapped = H.mapped /\ K.crashed = H.crashed
  /\ K.free_list_head = H.free_list_head /\ K.page_list_head = p

(* Assigning a list head changes nothing else.                             *)
LEMMA SetHeads ==
  ASSUME NEW H \in HeapType, NEW p \in Address
  PROVE  /\ FreeHead(H, [H EXCEPT !.free_list_head = p], p)
         /\ PageHead(H, [H EXCEPT !.page_list_head = p], p)
BY DEF FreeHead, PageHead, HeapType

(* Two stores that join the neighbours of an element of a list.            *)
Rejoined(H, K, prev, next) ==
  /\ K \in HeapType /\ K.mapped = H.mapped /\ K.crashed = H.crashed
  /\ \A q \in Granule :
       /\ K.mem[q][1] = IF q = next THEN prev ELSE H.mem[q][1]
       /\ K.mem[q][2] = IF q = prev THEN next ELSE H.mem[q][2]
       /\ q # prev /\ q # next => K.mem[q] = H.mem[q]

(* X is H with another head, which an element without predecessor sets.    *)
Joins(H, X, J, K, prev, next) ==
  /\ H \in HeapType /\ prev \in H.mapped \cup {NULL} /\ next \in H.mapped \cup {NULL}
  /\ X \in HeapType /\ X.mem = H.mem /\ X.mapped = H.mapped /\ X.crashed = H.crashed
  /\ J = (IF prev # NULL THEN Store2(H, prev, next) ELSE X)
  /\ K = (IF next # NULL THEN Store1(J, next, prev) ELSE J)

HeadsOf(K, H) == K.free_list_head = H.free_list_head /\ K.page_list_head = H.page_list_head

(* The two stores write the links and leave the list heads to the case of  *)
(* a NULL prev.                                                            *)
LEMMA Rejoin ==
  ASSUME NEW H, NEW X, NEW J, NEW K, NEW prev, NEW next, Joins(H, X, J, K, prev, next)
  PROVE  /\ Rejoined(H, K, prev, next)
         /\ prev # NULL => HeadsOf(K, H)
         /\ prev = NULL => HeadsOf(K, X)
<1>0. /\ H \in HeapType /\ prev \in H.mapped \cup {NULL} /\ next \in H.mapped \cup {NULL}
      /\ X \in HeapType /\ X.mem = H.mem /\ X.mapped = H.mapped /\ X.crashed = H.crashed
      /\ J = (IF prev # NULL THEN Store2(H, prev, next) ELSE X)
      /\ K = (IF next # NULL THEN Store1(J, next, prev) ELSE J)
  BY DEF Joins
<1>1. prev \in Nat /\ next \in Nat /\ NULL \notin Granule /\ H.mapped \subseteq Granule
  BY <1>0, AddressSpace, HeapFields
<1>2. /\ J \in HeapType /\ J.mapped = H.mapped /\ J.crashed = H.crashed
      /\ prev # NULL => HeadsOf(J, H)
      /\ prev = NULL => HeadsOf(J, X)
      /\ \A q \in Granule : /\ J.mem[q][1] = H.mem[q][1]
                            /\ J.mem[q][2] = IF q = prev THEN next ELSE H.mem[q][2]
                            /\ q # prev => J.mem[q] = H.mem[q]
  <2>1. CASE prev # NULL
    <3>1. Stored(H, J, prev, <<H.mem[prev][1], next>>)
      BY <1>0, <1>1, <2>1, LoadStore
    <3> QED
      BY <1>1, <2>1, <3>1 DEF Stored, HeadsOf
  <2>2. CASE prev = NULL
    BY <1>0, <1>1, <2>2 DEF HeadsOf
  <2> QED
    BY <2>1, <2>2
<1>3. CASE next # NULL
  <2>1. Stored(J, K, next, <<prev, J.mem[next][2]>>)
    BY <1>0, <1>1, <1>2, <1>3, LoadStore
  <2> QED
    BY <1>1, <1>2, <1>3, <2>1 DEF Stored, Rejoined, HeadsOf
<1>4. CASE next = NULL
  BY <1>0, <1>1, <1>2, <1>4 DEF Rejoined, HeadsOf
<1> QED
  BY <1>3, <1>4

-----------------------------------------------------------------------------
(* The free list. *)

(* The links of the free blocks are in no page header.                     *)
LEMMA LinksOff ==
  ASSUME NEW H, NEW C, Paged(H, C), NEW S, Placed(C, S), Separate(S)
  PROVE  OffHeaders(C, LinkCells(S))
<1>1. ASSUME NEW a \in S, NEW c \in C PROVE c[1] # a[1] + 1 /\ c[1] + 1 # a[1] + 1
  <2>1. BlockAt(H, a)
    BY BlockCells
  <2>2. a[1] + 1 \in Int /\ a[1] <= a[1] + 1 /\ a[1] + 1 < a[2]
    BY <2>1 DEF BlockAt
  <2> QED
    BY <2>2, BlocksApart
<1> QED
  BY <1>1 DEF OffHeaders, LinkCells

(* insert_free_block puts block b in front of the list.                    *)
LEMMA InsertFree ==
  ASSUME NEW H, NEW C, NEW S, Heaped(H, C, S), NEW b, b \notin S,
         Placed(C, S \cup {b}), Separate(S \cup {b}),
         NEW K, K = insert_free_block(H, b[1] + 1)
  PROVE  Heaped(K, C, S \cup {b}) /\ Moved(H, K, LinkCells(S \cup {b}))
<1> DEFINE bp == b[1] + 1
           head == H.free_list_head
           H1 == Store(H, bp, <<NULL, head>>)
           H2 == IF head # NULL THEN Store1(H1, head, bp) ELSE H1
<1>0. K = [H2 EXCEPT !.free_list_head = bp]
  BY DEF insert_free_block
<1>1. H \in HeapType /\ Paged(H, C) /\ Listed(H, S)
  BY DEF Heaped, Paged, Space
<1>2. BlockAt(H, b)
  BY <1>1, BlockCells
<1>3. PICK L : /\ Linked(L, Granule, NULL, head, NextOf(H), PrevOf(H))
               /\ Elems(L) = LinkCells(S)
  BY <1>1 DEF Listed
<1>4. NULL \in Nat /\ NULL \notin Granule /\ bp \in Granule /\ bp \in H.mapped /\ bp \in Nat
      /\ head \in Nat /\ H.mapped \subseteq Granule
  BY <1>1, <1>2, AddressSpace, HeapFields, SMTT(60) DEF BlockAt, Address
<1>5. bp \notin LinkCells(S)
  <2>1. ASSUME NEW a \in S PROVE a[1] + 1 # bp
    <3>1. BlockAt(H, a)
      BY <1>1, BlockCells DEF Heaped
    <3>2. a = b \/ a[2] <= b[1] \/ b[2] <= a[1]
      BY DEF Separate, Apart
    <3> QED
      BY <1>2, <3>1, <3>2 DEF BlockAt
  <2> QED
    BY <2>1 DEF LinkCells
<1>6. LinkCells(S) \subseteq H.mapped
  <2>1. \A a \in S : a[1] + 1 \in H.mapped
    BY <1>1, BlockCells DEF BlockAt, Heaped
  <2> QED
    BY <2>1 DEF LinkCells
<1>7. head = NULL \/ head \in LinkCells(S)
  BY <1>3 DEF Linked, At, Elems
<1> HIDE DEF bp, head
<1>8. Stored(H, H1, bp, <<NULL, head>>)
  BY <1>1, <1>4, LoadStore
<1> HIDE DEF H1
<1>9. /\ H2 \in HeapType /\ H2.mapped = H.mapped /\ H2.crashed = H.crashed
      /\ H2.page_list_head = H.page_list_head
      /\ H2.mem[bp] = <<NULL, head>>
      /\ \A q \in Granule \ {bp} : /\ H2.mem[q][1] = IF q = head THEN bp ELSE H.mem[q][1]
                                   /\ H2.mem[q][2] = H.mem[q][2]
                                   /\ q # head => H2.mem[q] = H.mem[q]
  <2>1. CASE head # NULL
    <3>1. head \in H1.mapped /\ H1 \in HeapType
      BY <1>6, <1>7, <1>8, <2>1 DEF Stored
    <3>2. Stored(H1, H2, head, <<bp, H1.mem[head][2]>>)
      BY <1>4, <2>1, <3>1, LoadStore
    <3>3. head # bp
      BY <1>5, <1>7, <1>4, <2>1
    <3> QED
      BY <1>4, <1>6, <1>7, <1>8, <2>1, <3>2, <3>3 DEF Stored
  <2>2. CASE head = NULL
    BY <1>4, <1>8, <2>2 DEF Stored
  <2> QED
    BY <2>1, <2>2
<1> HIDE DEF H2
<1>10. FreeHead(H2, K, bp)
  BY <1>0, <1>4, <1>9, SetHeads, ZenonT(60) DEF Address
<1>11. Moved(H, K, LinkCells(S \cup {b}))
  <2>1. LinkCells(S \cup {b}) = LinkCells(S) \cup {bp}
    BY DEF LinkCells, bp
  <2> QED
    BY <1>4, <1>7, <1>9, <1>10, <2>1, ZenonT(60) DEF Moved, FreeHead
<1>12. Linked(<<bp>> \o L, Granule, NULL, bp, NextOf(K), PrevOf(K))
       /\ Elems(<<bp>> \o L) = Elems(L) \cup {bp}
  <2>1. NextOf(K)[bp] = head /\ PrevOf(K)[bp] = NULL
    BY <1>4, <1>9, <1>10, HeapFields DEF FreeHead
  <2>2. \A q \in Elems(L) : /\ NextOf(K)[q] = NextOf(H)[q]
                            /\ PrevOf(K)[q] = IF q = head THEN bp ELSE PrevOf(H)[q]
    <3>1. \A q \in Elems(L) : q \in Granule \ {bp}
      BY <1>3, <1>4, <1>5, <1>6
    <3> QED
      BY <1>1, <1>9, <1>10, <3>1, HeapFields DEF FreeHead
  <2>3. bp \notin Elems(L)
    BY <1>3, <1>5
  <2> QED
    BY <1>3, <1>4, <2>1, <2>2, <2>3, PushLinked
<1>13. Listed(K, S \cup {b})
  <2>1. LinkCells(S \cup {b}) = LinkCells(S) \cup {bp}
    BY DEF LinkCells, bp
  <2>2. K.free_list_head = bp
    BY <1>10 DEF FreeHead
  <2> QED
    BY <1>3, <1>12, <2>1, <2>2 DEF Listed
<1>14. OffHeaders(C, LinkCells(S \cup {b}))
  BY <1>1, LinksOff
<1>15. Paged(K, C)
  BY <1>1, <1>11, <1>14, PagedKept
<1> QED
  BY <1>11, <1>13, <1>15 DEF Heaped

(* remove_free_block takes block b out of the list.                        *)
LEMMA RemoveFree ==
  ASSUME NEW H, NEW C, NEW S, Heaped(H, C, S), NEW b \in S,
         NEW K, K = remove_free_block(H, b[1] + 1)
  PROVE  Heaped(K, C, S \ {b}) /\ Moved(H, K, LinkCells(S))
<1> DEFINE bp == b[1] + 1
           prev == FREE_PREV_PTR(H, bp)
           next == FREE_NEXT_PTR(H, bp)
           H1 == IF prev # NULL THEN Store2(H, prev, next)
                 ELSE [H EXCEPT !.free_list_head = next]
           H2 == IF next # NULL THEN Store1(H1, next, prev) ELSE H1
<1>0. K = Store(H2, bp, <<NULL, NULL>>)
  BY DEF remove_free_block
<1>1. H \in HeapType /\ Paged(H, C) /\ Listed(H, S) /\ Placed(C, S) /\ Separate(S)
  BY DEF Heaped, Paged, Space
<1>2. BlockAt(H, b)
  BY <1>1, BlockCells
<1>3. PICK L : /\ Linked(L, Granule, NULL, H.free_list_head, NextOf(H), PrevOf(H))
               /\ Elems(L) = LinkCells(S)
  BY <1>1 DEF Listed
<1>4. NULL \in Nat /\ NULL \notin Granule /\ bp \in Granule /\ bp \in H.mapped /\ bp \in Nat
      /\ H.mapped \subseteq Granule
  BY <1>1, <1>2, AddressSpace, HeapFields, SMTT(60) DEF BlockAt, Address
<1>5. bp \in LinkCells(S)
  BY DEF LinkCells
<1>6. LinkCells(S) \subseteq H.mapped
  <2>1. \A a \in S : a[1] + 1 \in H.mapped
    BY <1>1, BlockCells DEF BlockAt
  <2> QED
    BY <2>1 DEF LinkCells
<1>7. PICK k \in 1 .. Len(L) : L[k] = bp
  BY <1>3, <1>5 DEF Elems
<1>8. prev = PrevOf(H)[bp] /\ next = NextOf(H)[bp]
  BY <1>1, <1>4, LoadStore, HeapFields DEF FREE_PREV_PTR, FREE_NEXT_PTR
<1> HIDE DEF bp, prev, next
<1>9. prev \in H.mapped \cup {NULL} /\ next \in H.mapped \cup {NULL}
      /\ prev \in LinkCells(S) \cup {NULL} /\ next \in LinkCells(S) \cup {NULL}
  <2>1. prev = At(L, k - 1, NULL) /\ next = At(L, k + 1, NULL)
    BY <1>3, <1>7, <1>8 DEF Linked
  <2>2. \A i : At(L, i, NULL) \in Elems(L) \cup {NULL}
    BY DEF At, Elems
  <2> QED
    BY <1>3, <1>6, <2>1, <2>2
<1>10. FreeHead(H, [H EXCEPT !.free_list_head = next], next)
  BY <1>1, <1>9, <1>4, SetHeads DEF Address
<1>11. /\ Rejoined(H, H2, prev, next)
       /\ H2.free_list_head = IF prev # NULL THEN H.free_list_head ELSE next
       /\ H2.page_list_head = H.page_list_head
  <2> DEFINE X == [H EXCEPT !.free_list_head = next]
  <2>1. X \in HeapType /\ X.mem = H.mem /\ X.mapped = H.mapped /\ X.crashed = H.crashed
        /\ X.free_list_head = next /\ X.page_list_head = H.page_list_head
    BY <1>10 DEF FreeHead
  <2>2. H1 = IF prev # NULL THEN Store2(H, prev, next) ELSE X
    OBVIOUS
  <2>3. H2 = IF next # NULL THEN Store1(H1, next, prev) ELSE H1
    OBVIOUS
  <2> HIDE DEF X, H1, H2
  <2>4. prev \in H.mapped \cup {NULL} /\ next \in H.mapped \cup {NULL} /\ H \in HeapType
    BY <1>1, <1>9
  <2>5. Joins(H, X, H1, H2, prev, next)
    BY <2>1, <2>2, <2>3, <2>4 DEF Joins
  <2> QED
    BY <2>1, <2>5, Rejoin DEF HeadsOf
<1> HIDE DEF H1, H2
<1>12. Stored(H2, K, bp, <<NULL, NULL>>)
  BY <1>0, <1>4, <1>11, LoadStore DEF Rejoined
<1>13. Moved(H, K, LinkCells(S))
  BY <1>4, <1>5, <1>9, <1>11, <1>12 DEF Moved, Rejoined, Stored
<1>14. PICK M : /\ Linked(M, Granule, NULL, K.free_list_head, NextOf(K), PrevOf(K))
                /\ Elems(M) = Elems(L) \ {bp}
  <2>1. K.free_list_head = IF PrevOf(H)[bp] = NULL THEN NextOf(H)[bp] ELSE H.free_list_head
    BY <1>8, <1>11, <1>12 DEF Stored
  <2>2. \A q \in Elems(L) \ {bp} :
          /\ NextOf(K)[q] = IF q = PrevOf(H)[bp] THEN NextOf(H)[bp] ELSE NextOf(H)[q]
          /\ PrevOf(K)[q] = IF q = NextOf(H)[bp] THEN PrevOf(H)[bp] ELSE PrevOf(H)[q]
    <3>1. \A q \in Elems(L) : q \in Granule
      BY <1>3, <1>4, <1>6
    <3>2. \A q \in Granule : /\ NextOf(K)[q] = K.mem[q][2] /\ PrevOf(K)[q] = K.mem[q][1]
                             /\ NextOf(H)[q] = H.mem[q][2] /\ PrevOf(H)[q] = H.mem[q][1]
      BY DEF NextOf, PrevOf
    <3> QED
      BY <1>8, <1>11, <1>12, <3>1, <3>2 DEF Rejoined, Stored
  <2>3. Unlinks(L, bp, NULL, H.free_list_head, NextOf(H), PrevOf(H),
                K.free_list_head, NextOf(K), PrevOf(K))
    BY <2>1, <2>2 DEF Unlinks
  <2> QED
    BY <1>3, <1>4, <1>5, <2>3, Unlink
<1>15. LinkCells(S \ {b}) = LinkCells(S) \ {bp}
  <2>1. \A a \in S : a[1] + 1 = bp => a = b
    <3> SUFFICES ASSUME NEW a \in S, a[1] + 1 = bp PROVE a = b
      OBVIOUS
    <3>1. BlockAt(H, a)
      BY <1>1, BlockCells
    <3>2. a = b \/ a[2] <= b[1] \/ b[2] <= a[1]
      BY <1>1 DEF Separate, Apart
    <3> QED
      BY <1>2, <3>1, <3>2 DEF BlockAt, bp
  <2> QED
    BY <2>1 DEF LinkCells, bp
<1>16. Listed(K, S \ {b})
  BY <1>3, <1>14, <1>15 DEF Listed
<1>17. OffHeaders(C, LinkCells(S))
  BY <1>1, LinksOff
<1>18. Paged(K, C)
  BY <1>1, <1>13, <1>17, PagedKept
<1> QED
  BY <1>1, <1>13, <1>16, <1>18 DEF Heaped, Placed, Separate

-----------------------------------------------------------------------------
(* Neighbours. *)

(* Blocks that touch lie in the same chunk.                                *)
LEMMA SameChunk ==
  ASSUME NEW C, NEW B, Tiling(C, B), NEW a \in B, NEW b \in B, a[2] = b[1], NEW c \in C
  PROVE  Behind(a, c) <=> Behind(b, c)
<1>1. /\ a[1] \in Int /\ a[2] \in Int /\ b[1] \in Int /\ b[2] \in Int /\ c[1] \in Int /\ c[2] \in Int
      /\ b[2] - b[1] >= 3 /\ a[2] - a[1] >= 3 /\ c[1] + 2 < c[2]
  BY DEF Tiling, ChunkSet, Placed
<1>2. PICK d \in C : Behind(a, d)
  BY DEF Tiling, Placed, Behind
<1>3. PICK e \in C : Behind(b, e)
  BY DEF Tiling, Placed, Behind
<1>4. /\ d[1] \in Int /\ d[2] \in Int /\ e[1] \in Int /\ e[2] \in Int
      /\ d[1] + 2 < d[2] /\ e[1] + 2 < e[2]
      /\ d = e \/ d[2] <= e[1] \/ e[2] <= d[1]
      /\ c = d \/ d[2] <= c[1] \/ c[2] <= d[1]
      /\ c = e \/ e[2] <= c[1] \/ c[2] <= e[1]
  BY DEF Tiling, ChunkSet, Apart
<1>5. d = e
  BY <1>1, <1>2, <1>3, <1>4 DEF Behind
<1>6. Behind(a, c) => c = d
  BY <1>1, <1>2, <1>4 DEF Behind
<1>7. Behind(b, c) => c = e
  BY <1>1, <1>3, <1>4 DEF Behind
<1> QED
  BY <1>2, <1>3, <1>5, <1>6, <1>7

(* A block is the last of its chunk or another one follows it.             *)
LEMMA Successor ==
  ASSUME NEW C, NEW B, Tiling(C, B), NEW b \in B, NEW c \in C, Behind(b, c)
  PROVE  b[2] = c[2] \/ \E a \in B : a[1] = b[2]
<1>1. /\ b[1] \in Int /\ b[2] \in Int /\ c[1] \in Int /\ c[2] \in Int
      /\ b[2] - b[1] >= 3 /\ c[1] + 2 < c[2]
  BY DEF Tiling, ChunkSet, Placed
<1>2. CASE \E d \in C : d[2] = b[2]
  <2>1. PICK d \in C : d[2] = b[2]
    BY <1>2
  <2>2. /\ d[1] \in Int /\ d[2] \in Int /\ d[1] + 2 < d[2]
        /\ c = d \/ d[2] <= c[1] \/ c[2] <= d[1]
    BY DEF Tiling, ChunkSet, Apart
  <2> QED
    BY <1>1, <2>1, <2>2 DEF Behind
<1> QED
  BY <1>2 DEF Tiling, Cover

(* A block is the first of its chunk or another one ends where it starts.  *)
LEMMA Predecessor ==
  ASSUME NEW C, NEW B, Tiling(C, B), NEW b \in B, NEW c \in C, Behind(b, c)
  PROVE  b[1] = c[1] + 2 \/ \E a \in B : a[2] = b[1]
<1> SUFFICES ASSUME b[1] # c[1] + 2
             PROVE  \E a \in B : a[2] = b[1]
  OBVIOUS
<1> DEFINE S == {x \in c[1] + 2 .. b[1] - 1 : \E a \in B : a[1] = x}
<1>1. /\ c[1] \in Int /\ c[2] \in Int /\ c[1] + 2 < c[2]
      /\ \A a \in B : a[1] \in Int /\ a[2] \in Int /\ a[2] - a[1] >= 3
  BY DEF Tiling, ChunkSet, Placed
<1>2. c[1] + 2 \in S
  <2>1. PICK a \in B : a[1] = c[1] + 2
    BY DEF Tiling, Cover
  <2> QED
    BY <1>1, <2>1 DEF Behind
<1>3. S \in SUBSET Int /\ IsFiniteSet(S)
  <2>1. IsFiniteSet(c[1] + 2 .. b[1] - 1)
    <3>1. \A i, j \in Int : IsFiniteSet(i .. j)
      BY FS_Interval
    <3>2. c[1] + 2 \in Int /\ b[1] - 1 \in Int
      BY <1>1
    <3> QED
      BY <3>1, <3>2
  <2> QED
    BY <2>1, FS_Subset, <1>1
<1>4. PICK x \in S : \A y \in S : x >= y
  BY <1>2, <1>3, IntMaximum
<1>5. PICK a \in B : a[1] = x
  OBVIOUS
<1>6. x \in Int /\ c[1] + 2 <= x /\ x < b[1]
  BY <1>1
<1>7. a[2] <= b[1]
  <2>1. a = b \/ a[2] <= b[1] \/ b[2] <= a[1]
    BY DEF Tiling, Separate, Apart
  <2> QED
    BY <1>1, <1>5, <1>6, <2>1
<1>8. a[2] # c[2]
  BY <1>1, <1>7 DEF Behind
<1>9. Behind(a, c)
  BY <1>1, <1>5, <1>6, <1>7 DEF Behind
<1>10. PICK d \in B : d[1] = a[2]
  BY <1>8, <1>9, Successor
<1>11. d[1] \notin S
  BY <1>1, <1>4, <1>5, <1>6, <1>10
<1>12. ~ (d[1] < b[1])
  BY <1>1, <1>5, <1>6, <1>10, <1>11
<1> QED
  BY <1>1, <1>7, <1>10, <1>12

(* get_next_block finds the block that follows, if there is one.           *)
LEMMA NextBlock ==
  ASSUME NEW H, NEW C, Paged(H, C), NEW B, Tiling(C, B), NEW b \in B, H.mem[b[1]][1] = Size(b)
  PROVE  /\ (\E a \in B : a[1] = b[2]) => get_next_block(H, b[1]) = b[2] /\ b[2] # NULL
         /\ ~ (\E a \in B : a[1] = b[2]) => get_next_block(H, b[1]) = NULL
<1>1. Placed(C, B) /\ Separate(B) /\ H \in HeapType
  BY DEF Tiling, Paged, Space
<1>2. BlockAt(H, b) /\ b[1] \in Int /\ b[2] \in Int /\ b[2] - b[1] >= 3
  BY <1>1, BlockCells DEF BlockAt
<1>3. PICK c \in C : Behind(b, c)
  BY <1>1, BlockCells
<1>4. c[1] \in Int /\ c[2] \in Int /\ page_end(H, c[1]) = c[2] /\ c[1] # NULL /\ PAGE <= c[1]
  BY HeaderRead DEF Header
<1>5. find_page_chunk_for_addr(H, b[1]) = c[1]
  BY <1>2, <1>3, <1>4, FindChunk DEF Behind
<1>6. BLOCK_SIZE(H, b[1]) = b[2] - b[1]
  BY <1>1, <1>2, LoadStore DEF BLOCK_SIZE, Size, BlockAt
<1>7. b[1] + (b[2] - b[1]) = b[2]
  BY <1>2
<1>8. get_next_block(H, b[1]) = IF b[2] + 1 <= c[2] THEN b[2] ELSE NULL
  BY <1>2, <1>3, <1>4, <1>5, <1>6, <1>7 DEF get_next_block, Within, Behind
<1>9. (\E a \in B : a[1] = b[2]) => b[2] + 1 <= c[2] /\ b[2] # NULL
  <2> SUFFICES ASSUME NEW a \in B, a[1] = b[2] PROVE b[2] + 1 <= c[2] /\ b[2] # NULL
    OBVIOUS
  <2>1. Behind(a, c)
    BY <1>3, SameChunk
  <2>2. BlockAt(H, a)
    BY <1>1, BlockCells
  <2> QED
    BY <1>2, <1>4, <2>1, <2>2 DEF Behind, BlockAt
<1>10. ~ (\E a \in B : a[1] = b[2]) => b[2] = c[2]
  BY <1>3, Successor
<1> QED
  BY <1>2, <1>4, <1>8, <1>9, <1>10

(* get_prev_block finds the block before, if there is one, by its footer.  *)
LEMMA PrevBlock ==
  ASSUME NEW H, NEW C, Paged(H, C), NEW B, Tiling(C, B), NEW b \in B,
         \A a \in B : a[2] = b[1] => H.mem[a[2] - 1][1] = Size(a)
  PROVE  /\ \A a \in B : a[2] = b[1] => get_prev_block(H, b[1]) = a[1] /\ a[1] # NULL
         /\ ~ (\E a \in B : a[2] = b[1]) => get_prev_block(H, b[1]) = NULL
<1>1. Placed(C, B) /\ Separate(B) /\ H \in HeapType
  BY DEF Tiling, Paged, Space
<1>2. BlockAt(H, b) /\ b[1] \in Int /\ b[2] \in Int /\ b[2] - b[1] >= 3
  BY <1>1, BlockCells DEF BlockAt
<1>3. PICK c \in C : Behind(b, c)
  BY <1>1, BlockCells
<1>4. c[1] \in Int /\ c[2] \in Int /\ page_end(H, c[1]) = c[2] /\ c[1] # NULL
  BY HeaderRead DEF Header
<1>5. find_page_chunk_for_addr(H, b[1]) = c[1]
  BY <1>2, <1>3, <1>4, FindChunk DEF Behind
<1>6. ASSUME NEW a \in B, a[2] = b[1]
      PROVE  get_prev_block(H, b[1]) = a[1] /\ a[1] # NULL
  <2>1. Behind(a, c)
    BY <1>3, <1>6, SameChunk
  <2>2. BlockAt(H, a) /\ a[1] \in Int /\ a[2] \in Int /\ a[2] - a[1] >= 3 /\ a[1] # NULL
    BY <1>1, BlockCells DEF BlockAt
  <2>3. Load(H, b[1] - 1)[1] = a[2] - a[1]
    <3>1. a[2] - 1 \in H.mapped
      BY <2>2 DEF BlockAt
    <3> QED
      BY <1>1, <1>6, <3>1, LoadStore DEF Size
  <2>4. b[1] - (a[2] - a[1]) = a[1]
    BY <1>2, <1>6, <2>2
  <2> QED
    BY <1>2, <1>3, <1>4, <1>5, <1>6, <2>1, <2>2, <2>3, <2>4 DEF get_prev_block, Within, Behind
<1>7. ASSUME ~ (\E a \in B : a[2] = b[1])
      PROVE  get_prev_block(H, b[1]) = NULL
  <2>1. b[1] = c[1] + 2
    BY <1>3, <1>7, Predecessor
  <2>2. ~ Within(H, c[1], b[1] - 1, 1)
    BY <1>4, <2>1 DEF Within
  <2> QED
    BY <1>5, <2>2 DEF get_prev_block
<1> QED
  BY <1>6, <1>7

-----------------------------------------------------------------------------
(* Tags. *)

(* Cells of a block that hold no link of the list.                         *)
LEMMA InBlock ==
  ASSUME NEW H, NEW C, Paged(H, C), NEW S, NEW b, Placed(C, S \cup {b}), Separate(S \cup {b}),
         NEW A \in SUBSET Cells(b), b \in S => b[1] + 1 \notin A
  PROVE  OffHeaders(C, A) /\ A \cap LinkCells(S) = {}
<1>1. BlockAt(H, b) /\ b[1] \in Int /\ b[2] \in Int
  BY BlockCells DEF BlockAt
<1>2. \A x \in A : x \in Int /\ b[1] <= x /\ x < b[2]
  BY <1>1 DEF Cells
<1>3. OffHeaders(C, A)
  BY <1>2, BlocksApart DEF OffHeaders
<1>4. ASSUME NEW a \in S, a[1] + 1 \in A PROVE FALSE
  <2>1. BlockAt(H, a)
    BY BlockCells
  <2>2. a[1] <= a[1] + 1 /\ a[1] + 1 < a[2]
    BY <2>1 DEF BlockAt
  <2>3. a = b
    BY <1>2, <1>4, <2>2, BlocksApart
  <2> QED
    BY <1>4, <2>3
<1> QED
  BY <1>3, <1>4 DEF LinkCells

(* Such cells may change.                                                  *)
LEMMA HeapedKept ==
  ASSUME NEW H, NEW C, NEW S, Heaped(H, C, S), NEW b, Placed(C, S \cup {b}), Separate(S \cup {b}),
         NEW A \in SUBSET Cells(b), b \in S => b[1] + 1 \notin A,
         NEW K, Moved(H, K, A), K.free_list_head = H.free_list_head
  PROVE  Heaped(K, C, S)
<1>1. Paged(H, C) /\ Listed(H, S) /\ H \in HeapType /\ Placed(C, S) /\ Separate(S)
  BY DEF Heaped, Paged, Space
<1>2. OffHeaders(C, A) /\ A \cap LinkCells(S) = {}
  BY <1>1, InBlock
<1>3. Paged(K, C)
  BY <1>1, <1>2, PagedKept
<1>4. Listed(K, S)
  BY <1>1, <1>2, ListedKept
<1> QED
  BY <1>1, <1>3, <1>4 DEF Heaped

(* Setting the size and the flag of a header.                              *)
LEMMA SetTag ==
  ASSUME NEW H \in HeapType, NEW a \in H.mapped, NEW n \in Nat
  PROVE  /\ Stored(H, SET_SIZE(H, a, n), a, <<n, H.mem[a][2]>>)
         /\ Stored(H, SET_ALLOC(H, a), a, <<H.mem[a][1], 1>>)
         /\ Stored(H, SET_FREE(H, a), a, <<H.mem[a][1], 0>>)
         /\ Stored(H, SET_ALLOC(SET_SIZE(H, a, n), a), a, <<n, 1>>)
         /\ Stored(H, SET_FREE(SET_SIZE(H, a, n), a), a, <<n, 0>>)
<1> DEFINE K == SET_SIZE(H, a, n)
<1>1. Stored(H, K, a, <<n, H.mem[a][2]>>)
  BY LoadStore DEF SET_SIZE
<1>2. Stored(H, SET_ALLOC(H, a), a, <<H.mem[a][1], 1>>) /\ Stored(H, SET_FREE(H, a), a, <<H.mem[a][1], 0>>)
  BY LoadStore DEF SET_ALLOC, SET_FREE
<1>3. K \in HeapType /\ a \in K.mapped /\ K.mem[a][1] = n
  BY <1>1 DEF Stored
<1> HIDE DEF K
<1>4. Stored(K, SET_ALLOC(K, a), a, <<n, 1>>) /\ Stored(K, SET_FREE(K, a), a, <<n, 0>>)
  BY <1>3, LoadStore DEF SET_ALLOC, SET_FREE
<1>5. Stored(H, SET_ALLOC(K, a), a, <<n, 1>>) /\ Stored(H, SET_FREE(K, a), a, <<n, 0>>)
  BY <1>1, <1>4 DEF Stored
<1> QED
  BY <1>1, <1>2, <1>5 DEF K

(* Block b has its tags written, and nothing else happened.                *)
Retagged(H, K, C, S, b, flag) ==
  /\ Heaped(K, C, S) /\ Tag(K, b, flag)
  /\ Moved(H, K, {b[1], b[2] - 1}) /\ K.free_list_head = H.free_list_head

(* Writing a header and its footer is that.                                *)
LEMMA StoreTags ==
  ASSUME NEW H, NEW C, NEW S, Heaped(H, C, S), NEW b, Placed(C, S \cup {b}), Separate(S \cup {b}),
         NEW flag, NEW J, Stored(H, J, b[1], <<Size(b), flag>>),
         NEW K, K = write_footer(J, b[1])
  PROVE  Retagged(H, K, C, S, b, flag)
<1>1. Paged(H, C) /\ H \in HeapType
  BY DEF Heaped, Paged, Space
<1>2. BlockAt(H, b) /\ b[1] \in Int /\ b[2] \in Int /\ b[2] - b[1] >= 3
  BY <1>1, BlockCells DEF BlockAt
<1>3. PICK c \in C : Behind(b, c)
  BY <1>1, BlockCells
<1>4. Moved(H, J, {b[1]}) /\ J.free_list_head = H.free_list_head
  BY DEF Moved, Stored
<1>5. Heaped(J, C, S)
  <2>1. {b[1]} \in SUBSET Cells(b) /\ b[1] + 1 \notin {b[1]}
    BY <1>2 DEF Cells
  <2> QED
    BY <1>4, <2>1, HeapedKept
<1>6. Paged(J, C) /\ J.mem[b[1]] = <<Size(b), flag>> /\ Size(b) \in Nat /\ Size(b) >= 3
      /\ b[1] + Size(b) = b[2]
  BY <1>2, <1>5 DEF Heaped, Stored, Size
<1>7. Stored(J, K, b[2] - 1, <<Size(b), J.mem[b[2] - 1][2]>>)
  <2> DEFINE n == Size(b)
  <2>1. n \in Nat /\ n >= 1 /\ J.mem[b[1]][1] = n /\ c[1] + 2 <= b[1] /\ b[1] + n <= c[2]
    BY <1>3, <1>6 DEF Behind
  <2>2. b[1] + n - 1 = b[2] - 1
    BY <1>2, <1>6
  <2> HIDE DEF n
  <2>3. Stored(J, write_footer(J, b[1]), b[1] + n - 1, <<n, J.mem[b[1] + n - 1][2]>>)
    BY <1>2, <1>6, <2>1, WriteFooter
  <2> QED
    BY <2>2, <2>3 DEF n
<1>8. Moved(H, K, {b[1], b[2] - 1}) /\ K.free_list_head = H.free_list_head
  BY <1>4, <1>7 DEF Moved, Stored
<1>9. Tag(K, b, flag)
  <2>1. b[1] \in Granule /\ b[1] # b[2] - 1
    BY <1>2 DEF BlockAt
  <2> QED
    BY <1>6, <1>7, <2>1 DEF Tag, Stored
<1>10. Heaped(K, C, S)
  <2>1. {b[1], b[2] - 1} \in SUBSET Cells(b) /\ b[1] + 1 \notin {b[1], b[2] - 1}
    BY <1>2 DEF Cells
  <2> QED
    BY <1>8, <2>1, HeapedKept
<1> QED
  BY <1>8, <1>9, <1>10 DEF Retagged

-----------------------------------------------------------------------------
(* split_block. *)

(* The parts of a block lie where it lay.                                  *)
LEMMA CutPlaced ==
  ASSUME NEW C, ChunkSet(C), NEW S, NEW b, b \notin S, Placed(C, S \cup {b}), Separate(S \cup {b}),
         NEW m \in Int, m - b[1] >= 3, b[2] - m >= 3, NEW x, x = <<b[1], m>>,
         NEW y, y = <<m, b[2]>>
  PROVE  /\ Placed(C, (S \cup {y}) \cup {x}) /\ Separate((S \cup {y}) \cup {x})
         /\ x \notin S \cup {y} /\ y \notin S
<1>1. /\ b[1] \in Int /\ b[2] \in Int /\ x[1] = b[1] /\ x[2] = m /\ y[1] = m /\ y[2] = b[2]
      /\ x \in Int \X Int /\ y \in Int \X Int
  BY DEF Placed
<1>2. PICK c \in C : c[1] + 2 <= b[1] /\ b[2] <= c[2]
  BY DEF Placed
<1>3. c[1] + 2 <= y[1] /\ y[2] <= c[2] /\ c[1] + 2 <= x[1] /\ x[2] <= c[2]
  BY <1>1, <1>2 DEF ChunkSet
<1>4. \A a \in S : /\ a[1] \in Int /\ a[2] \in Int /\ a[2] - a[1] >= 3
                   /\ a[2] <= b[1] \/ b[2] <= a[1]
  BY DEF Placed, Separate, Apart
<1>5. x \notin S /\ y \notin S /\ x # y
  BY <1>1, <1>4
<1>6. \A a \in S : Apart(a, x) /\ Apart(x, a) /\ Apart(a, y) /\ Apart(y, a)
  BY <1>1, <1>4 DEF Apart
<1>7. Apart(x, y) /\ Apart(y, x)
  BY <1>1 DEF Apart
<1>8. Separate((S \cup {y}) \cup {x})
  BY <1>6, <1>7 DEF Separate
<1>9. Placed(C, (S \cup {y}) \cup {x})
  <2>1. /\ x[2] - x[1] >= 3 /\ y[2] - y[1] >= 3
        /\ \E d \in C : d[1] + PAGEHDRSIZE <= y[1] /\ y[2] <= d[2]
        /\ \E d \in C : d[1] + PAGEHDRSIZE <= x[1] /\ x[2] <= d[2]
    BY <1>1, <1>3
  <2> QED
    BY <1>1, <2>1 DEF Placed
<1> QED
  BY <1>5, <1>8, <1>9

(* What holds of all blocks holds of some of them.                         *)
LEMMA PlacedPart ==
  ASSUME NEW C, NEW S, NEW T, Placed(C, T), Separate(T), S \subseteq T
  PROVE  Placed(C, S) /\ Separate(S)
BY DEF Placed, Separate

(* split_block takes the front of block b, which is not on the list, and   *)
(* puts the remainder on the list.                                         *)
LEMMA SplitBlock ==
  ASSUME NEW H, NEW C, NEW S, Heaped(H, C, S), NEW b, b \notin S,
         Placed(C, S \cup {b}), Separate(S \cup {b}), H.mem[b[1]][1] = Size(b),
         NEW asize, NEW n \in Nat, n = Tagged(asize), n >= 3, n <= Size(b),
         NEW K, K = split_block(H, b[1], asize)
  PROVE  /\ Heaped(K, C, S \cup Rest(b, n)) /\ Tag(K, Taken(b, n), 1) /\ Tags(K, Rest(b, n), 0)
         /\ Moved(H, K, Cells(b) \cup LinkCells(S))
<1> DEFINE h == b[1]
           rem == Size(b) - n
           A == write_footer(SET_ALLOC(SET_SIZE(H, h, n), h), h)
           R == write_footer(SET_FREE(SET_SIZE(A, h + n, rem), h + n), h + n)
<1>1. Paged(H, C) /\ H \in HeapType /\ H.mapped \subseteq Granule
  BY HeapFields DEF Heaped, Paged, Space
<1>2. BlockAt(H, b) /\ b[1] \in Int /\ b[2] \in Int /\ b[2] - b[1] >= 3 /\ b[1] \in H.mapped
  BY <1>1, BlockCells DEF BlockAt
<1>3. BLOCK_SIZE(H, h) = Size(b) /\ Size(b) \in Nat /\ Size(b) = b[2] - b[1]
  BY <1>1, <1>2, LoadStore DEF BLOCK_SIZE, Size
<1>4. K = IF Splits(Size(b), n) THEN insert_free_block(R, h + n + 1)
                                ELSE write_footer(SET_ALLOC(H, h), h)
  BY <1>3 DEF split_block
<1>5. ASSUME ~ Splits(Size(b), n)
      PROVE  /\ Heaped(K, C, S \cup Rest(b, n)) /\ Tag(K, Taken(b, n), 1) /\ Tags(K, Rest(b, n), 0)
             /\ Moved(H, K, Cells(b) \cup LinkCells(S))
  <2>1. Taken(b, n) = b /\ Rest(b, n) = {}
    BY <1>5 DEF Taken, Rest
  <2>2. Stored(H, SET_ALLOC(H, h), b[1], <<Size(b), 1>>)
    BY <1>1, <1>2, <1>3, SetTag
  <2>3. K = write_footer(SET_ALLOC(H, h), b[1])
    BY <1>4, <1>5
  <2>4. /\ Heaped(K, C, S) /\ Tag(K, b, 1) /\ Moved(H, K, {b[1], b[2] - 1})
    <3> DEFINE J == SET_ALLOC(H, h)
    <3>1. Stored(H, J, b[1], <<Size(b), 1>>) /\ K = write_footer(J, b[1])
      BY <2>2, <2>3
    <3> HIDE DEF J
    <3> QED
      <4>1. Retagged(H, K, C, S, b, 1)
        BY <3>1, StoreTags
      <4> QED
        BY <4>1 DEF Retagged
  <2>5. {b[1], b[2] - 1} \subseteq Cells(b) \cup LinkCells(S)
    BY <1>2 DEF Cells
  <2> QED
    BY <2>1, <2>4, <2>5, MovedMore DEF Tags
<1>6. ASSUME Splits(Size(b), n)
      PROVE  /\ Heaped(K, C, S \cup Rest(b, n)) /\ Tag(K, Taken(b, n), 1) /\ Tags(K, Rest(b, n), 0)
             /\ Moved(H, K, Cells(b) \cup LinkCells(S))
  <2> DEFINE x == <<b[1], b[1] + n>>
             r == <<b[1] + n, b[2]>>
  <2>1. Taken(b, n) = x /\ Rest(b, n) = {r}
    BY <1>6 DEF Taken, Rest
  <2>2. /\ b[1] + n \in Int /\ (b[1] + n) - b[1] >= 3 /\ b[2] - (b[1] + n) >= 3
        /\ rem \in Nat /\ rem = b[2] - (b[1] + n)
    BY <1>2, <1>3, <1>6 DEF Splits
  <2>3. /\ x[1] = b[1] /\ x[2] = b[1] + n /\ Size(x) = n
        /\ r[1] = b[1] + n /\ r[2] = b[2] /\ Size(r) = rem
    BY <1>2, <2>2 DEF Size
  <2>4. /\ Placed(C, (S \cup {r}) \cup {x}) /\ Separate((S \cup {r}) \cup {x})
        /\ x \notin S \cup {r} /\ r \notin S
    BY <1>1, <2>2, CutPlaced DEF Paged
  <2> HIDE DEF x, r
  <2>5. /\ Placed(C, S \cup {x}) /\ Separate(S \cup {x})
        /\ Placed(C, S \cup {r}) /\ Separate(S \cup {r})
    BY <2>4, PlacedPart
  <2>6. Heaped(A, C, S) /\ Tag(A, x, 1) /\ Moved(H, A, {x[1], x[2] - 1})
    <3> DEFINE J == SET_ALLOC(SET_SIZE(H, h, n), h)
    <3>1. Stored(H, J, x[1], <<Size(x), 1>>)
      BY <1>1, <1>2, <2>3, SetTag
    <3>2. A = write_footer(J, x[1])
      BY <2>3
    <3> HIDE DEF J, A
    <3> QED
      BY <2>5, <3>1, <3>2, StoreTags DEF Retagged
  <2>7. BlockAt(H, r) /\ BlockAt(H, x) /\ Cells(r) \subseteq Cells(b) /\ Cells(x) \subseteq Cells(b)
    <3>1. BlockAt(H, r) /\ BlockAt(H, x)
      BY <1>1, <2>5, BlockCells
    <3> QED
      BY <1>2, <2>2, <2>3, <3>1 DEF Cells
  <2>8. Heaped(R, C, S) /\ Tag(R, r, 0) /\ Moved(A, R, {r[1], r[2] - 1})
    <3> DEFINE J == SET_FREE(SET_SIZE(A, h + n, rem), h + n)
    <3>1. A \in HeapType /\ r[1] \in A.mapped
      BY <2>6, <2>7 DEF Moved, BlockAt
    <3>2. Stored(A, J, r[1], <<Size(r), 0>>)
      <4> HIDE DEF A
      <4> QED
        BY <2>2, <2>3, <3>1, SetTag
    <3>3. R = write_footer(J, r[1])
      BY <2>3
    <3> HIDE DEF J, A, R
    <3> QED
      BY <2>5, <2>6, <3>2, <3>3, StoreTags DEF Retagged
  <2>9. Heaped(K, C, S \cup {r}) /\ Moved(R, K, LinkCells(S \cup {r}))
    <3>1. K = insert_free_block(R, r[1] + 1)
      BY <1>4, <1>6, <2>3
    <3> HIDE DEF R
    <3> QED
      BY <2>4, <2>5, <2>8, <3>1, InsertFree
  <2> HIDE DEF A, R
  <2>10. /\ {x[1], x[2] - 1} \cap LinkCells(S \cup {r}) = {}
         /\ {r[1], r[2] - 1} \cap LinkCells(S \cup {r}) = {}
    <3>1. {x[1], x[2] - 1} \in SUBSET Cells(x) /\ x[1] + 1 \notin {x[1], x[2] - 1}
      BY <2>7 DEF Cells, BlockAt
    <3>2. {r[1], r[2] - 1} \in SUBSET Cells(r) /\ r[1] + 1 \notin {r[1], r[2] - 1}
      BY <2>7 DEF Cells, BlockAt
    <3>3. (S \cup {r}) \cup {r} = S \cup {r}
      OBVIOUS
    <3> QED
      BY <1>1, <2>4, <2>5, <3>1, <3>2, <3>3, InBlock
  <2>11. Tag(K, r, 0)
    BY <2>7, <2>8, <2>9, <2>10 DEF Tag, Moved, BlockAt
  <2>12. Tag(K, x, 1)
    <3>1. x[1] \notin {r[1], r[2] - 1} /\ x[2] - 1 \notin {r[1], r[2] - 1}
      BY <1>2, <2>2, <2>3
    <3>2. x[1] \in Granule /\ x[2] - 1 \in Granule
      BY <2>7 DEF BlockAt
    <3>3. K.mem[x[1]] = A.mem[x[1]]
      BY <2>8, <2>9, <2>10, <3>1, <3>2 DEF Moved
    <3>4. K.mem[x[2] - 1] = A.mem[x[2] - 1]
      BY <2>8, <2>9, <2>10, <3>1, <3>2 DEF Moved
    <3> QED
      BY <2>6, <3>3, <3>4 DEF Tag
  <2>13. Moved(H, K, Cells(b) \cup LinkCells(S))
    <3>1. {x[1], x[2] - 1} \subseteq Cells(b) /\ {r[1], r[2] - 1} \subseteq Cells(b) /\ r[1] + 1 \in Cells(b)
      BY <2>7 DEF Cells, BlockAt
    <3>2. LinkCells(S \cup {r}) = LinkCells(S) \cup {r[1] + 1}
      BY DEF LinkCells
    <3> QED
      BY <2>6, <2>8, <2>9, <3>1, <3>2 DEF Moved
  <2> QED
    BY <2>1, <2>9, <2>11, <2>12, <2>13 DEF Tags
<1> QED
  BY <1>5, <1>6

-----------------------------------------------------------------------------
(* coalesce. *)

(* The heap when mm_free has marked block b free.                          *)
Freed(H, C, F, U, b) ==
  /\ Paged(H, C) /\ WellTiled(C, F, U) /\ Listed(H, F) /\ b \in U
  /\ Tags(H, F, 0) /\ Tag(H, b, 0) /\ Tags(H, U \ {b}, 1)

(* The tests of coalesce find the free blocks that b touches.              *)
FindsBelow(H, F, b) ==
  LET prev_h == get_prev_block(H, b[1]) IN
  /\ Below(F, b) = {} => ~ (prev_h # NULL /\ GET_ALLOC(H, prev_h) = 0)
  /\ \A p \in Below(F, b) : prev_h = p[1] /\ prev_h # NULL /\ GET_ALLOC(H, prev_h) = 0

FindsAbove(H, F, b) ==
  LET next_h == get_next_block(H, b[1]) IN
  /\ Above(F, b) = {} => ~ (next_h # NULL /\ GET_ALLOC(H, next_h) = 0)
  /\ \A p \in Above(F, b) : next_h = p[1] /\ next_h # NULL /\ GET_ALLOC(H, next_h) = 0

(* get_prev_block and get_next_block find the free neighbours of the block *)
(* being freed, through the footer below it and its own header.            *)
LEMMA FreeNeighbours ==
  ASSUME NEW H, NEW C, NEW F, NEW U, NEW b, Freed(H, C, F, U, b)
  PROVE  FindsBelow(H, F, b) /\ FindsAbove(H, F, b)
<1> DEFINE B == F \cup U
<1>1. /\ Paged(H, C) /\ Tiling(C, B) /\ b \in B /\ b \in U /\ F \cap U = {} /\ H \in HeapType
      /\ Placed(C, B) /\ Separate(B)
  BY DEF Freed, WellTiled, Paged, Space, Tiling
<1>2. \A a \in B : /\ H.mem[a[2] - 1][1] = Size(a) /\ H.mem[a[1]][1] = Size(a)
                   /\ H.mem[a[1]][2] = IF a \in F \cup {b} THEN 0 ELSE 1
  <2>1. \A a \in F \cup {b} : Tag(H, a, 0)
    BY DEF Freed, Tags
  <2>2. \A a \in B \ (F \cup {b}) : Tag(H, a, 1)
    BY DEF Freed, Tags
  <2>3. \A a, f : Tag(H, a, f) => /\ H.mem[a[2] - 1][1] = Size(a) /\ H.mem[a[1]][1] = Size(a)
                                 /\ H.mem[a[1]][2] = f
    BY DEF Tag
  <2> QED
    BY <1>1, <2>1, <2>2, <2>3
<1> HIDE DEF B
<1>3. \A a \in B : /\ GET_ALLOC(H, a[1]) = IF a \in F \cup {b} THEN 0 ELSE 1
                   /\ a[1] \in Int /\ a[2] \in Int /\ a[2] - a[1] >= 3
  <2> SUFFICES ASSUME NEW a \in B
               PROVE  /\ GET_ALLOC(H, a[1]) = IF a \in F \cup {b} THEN 0 ELSE 1
                      /\ a[1] \in Int /\ a[2] \in Int /\ a[2] - a[1] >= 3
    OBVIOUS
  <2>1. BlockAt(H, a)
    BY <1>1, BlockCells
  <2> QED
    BY <1>1, <1>2, <2>1, LoadStore DEF GET_ALLOC, BlockAt
<1>4. /\ \A a \in B : a[2] = b[1] => get_prev_block(H, b[1]) = a[1] /\ a[1] # NULL
      /\ ~ (\E a \in B : a[2] = b[1]) => get_prev_block(H, b[1]) = NULL
  BY <1>1, <1>2, PrevBlock
<1>5. /\ (\E a \in B : a[1] = b[2]) => get_next_block(H, b[1]) = b[2] /\ b[2] # NULL
      /\ ~ (\E a \in B : a[1] = b[2]) => get_next_block(H, b[1]) = NULL
  BY <1>1, <1>2, NextBlock
<1>6. b[2] # b[1]
  BY <1>1, <1>3
<1>7. \A p \in Below(F, b) : p \in B /\ p[2] = b[1] /\ p \in F
  BY DEF Below, B
<1>8. \A p \in Above(F, b) : p \in B /\ p[1] = b[2] /\ p \in F
  BY DEF Above, B
<1>9. ASSUME Below(F, b) = {}, NEW a \in B, a[2] = b[1] PROVE GET_ALLOC(H, a[1]) = 1
  <2>1. a \notin F /\ a # b
    BY <1>6, <1>9 DEF Below
  <2> QED
    BY <1>3, <2>1
<1>10. ASSUME Above(F, b) = {}, NEW a \in B, a[1] = b[2] PROVE GET_ALLOC(H, b[2]) = 1
  <2>1. a \notin F /\ a # b
    BY <1>6, <1>10 DEF Above
  <2> QED
    BY <1>3, <1>10, <2>1
<1>11. Below(F, b) = {} => ~ (/\ get_prev_block(H, b[1]) # NULL
                              /\ GET_ALLOC(H, get_prev_block(H, b[1])) = 0)
  BY <1>4, <1>9
<1>12. Above(F, b) = {} => ~ (/\ get_next_block(H, b[1]) # NULL
                              /\ GET_ALLOC(H, get_next_block(H, b[1])) = 0)
  BY <1>5, <1>10
<1>13. \A p \in Below(F, b) : /\ get_prev_block(H, b[1]) = p[1] /\ p[1] # NULL
                               /\ GET_ALLOC(H, p[1]) = 0
  BY <1>3, <1>4, <1>7
<1>14. \A p \in Above(F, b) : /\ get_next_block(H, b[1]) = p[1] /\ p[1] # NULL
                               /\ GET_ALLOC(H, p[1]) = 0
  BY <1>3, <1>5, <1>8
<1> QED
  BY <1>11, <1>12, <1>13, <1>14 DEF FindsBelow, FindsAbove

(* Two blocks that touch become one: q leaves the list, the header at x1   *)
(* gets the sizes found at x1 and at y1.                                   *)
Absorbed(J, K, C, S, q, x1, y1) ==
  /\ Heaped(K, C, S \ {q})
  /\ K.mem[x1] = <<J.mem[x1][1] + J.mem[y1][1], J.mem[x1][2]>>
  /\ Moved(J, K, LinkCells(S) \cup {x1})

(* coalesce takes the block at q off the list and adds the size found at   *)
(* y1 to the one at x1.                                                    *)
LEMMA Absorb ==
  ASSUME NEW J, NEW C, NEW S, Heaped(J, C, S), NEW q \in S,
         NEW x1 \in J.mapped, NEW y1 \in J.mapped,
         x1 \notin LinkCells(S), y1 \notin LinkCells(S), OffHeaders(C, {x1}),
         NEW R, R = remove_free_block(J, q[1] + 1),
         NEW K, K = SET_SIZE(R, x1, BLOCK_SIZE(R, x1) + BLOCK_SIZE(R, y1))
  PROVE  Absorbed(J, K, C, S, q, x1, y1)
<1>1. Heaped(R, C, S \ {q}) /\ Moved(J, R, LinkCells(S))
  BY RemoveFree
<1>2. J \in HeapType /\ R \in HeapType /\ Paged(R, C) /\ Listed(R, S \ {q})
      /\ Placed(C, S \ {q}) /\ Separate(S \ {q})
  BY <1>1 DEF Heaped, Paged, Space
<1>3. x1 \in R.mapped /\ y1 \in R.mapped /\ x1 \in Granule /\ y1 \in Granule
  BY <1>1, <1>2, HeapFields DEF Moved
<1>4. R.mem[x1] = J.mem[x1] /\ R.mem[y1] = J.mem[y1]
  BY <1>1, <1>3 DEF Moved
<1>5. BLOCK_SIZE(R, x1) = J.mem[x1][1] /\ BLOCK_SIZE(R, y1) = J.mem[y1][1]
  BY <1>2, <1>3, <1>4, LoadStore DEF BLOCK_SIZE
<1>6. J.mem[x1][1] + J.mem[y1][1] \in Nat
  BY <1>2, <1>3, HeapFields
<1>7. Stored(R, K, x1, <<J.mem[x1][1] + J.mem[y1][1], R.mem[x1][2]>>)
  BY <1>2, <1>3, <1>5, <1>6, SetTag
<1>8. K.mem[x1] = <<J.mem[x1][1] + J.mem[y1][1], J.mem[x1][2]>>
  BY <1>4, <1>7 DEF Stored
<1>9. Moved(R, K, {x1}) /\ K.free_list_head = R.free_list_head
  BY <1>7 DEF Moved, Stored
<1>10. Moved(J, K, LinkCells(S) \cup {x1})
  BY <1>1, <1>9, MovedTwice
<1>11. {x1} \cap LinkCells(S \ {q}) = {}
  BY DEF LinkCells
<1>12. Heaped(K, C, S \ {q})
  BY <1>2, <1>9, <1>11, PagedKept, ListedKept DEF Heaped
<1> QED
  BY <1>8, <1>10, <1>12 DEF Absorbed

(* At most one free block ends where b starts, one starts where b ends.    *)
Neighbour(N) == N = {} \/ \E p \in N : N = {p}

(* Blocks that lie apart have at most one neighbour on each side.          *)
LEMMA OneNeighbour ==
  ASSUME NEW C, NEW F, NEW U, WellTiled(C, F, U), NEW b \in U
  PROVE  Neighbour(Below(F, b)) /\ Neighbour(Above(F, b))
<1>1. \A p, q \in F : /\ p[1] \in Int /\ p[2] \in Int /\ p[2] - p[1] >= 3
                      /\ p = q \/ p[2] <= q[1] \/ q[2] <= p[1]
  BY DEF WellTiled, Tiling, Placed, Separate, Apart
<1>2. \A p, q \in Below(F, b) : p = q
  BY <1>1 DEF Below
<1>3. \A p, q \in Above(F, b) : p = q
  BY <1>1 DEF Above
<1> QED
  BY <1>2, <1>3 DEF Neighbour

(* What coalesce has done when it comes to look for full pages.            *)
Kept(H, K, B) == \A u \in B : \A x \in Cells(u) : K.mem[x] = H.mem[x]

WithMerged(F, b) == (F \ (Below(F, b) \cup Above(F, b))) \cup {Merged(F, b)}

(* The free blocks that b touches left the list, its header holds the size *)
(* of all.                                                                 *)
Gathered(H, K, C, F, b) ==
  /\ Heaped(K, C, F \ (Below(F, b) \cup Above(F, b)))
  /\ K.mem[Merged(F, b)[1]] = <<Size(Merged(F, b)), 0>>
  /\ Moved(H, K, LinkCells(F) \cup Cells(Merged(F, b)))

GatheredLow(H, K, C, F, b, p) ==
  /\ Heaped(K, C, F \ {p}) /\ K.mem[p[1]] = <<b[2] - p[1], 0>>
  /\ Moved(H, K, LinkCells(F) \cup {p[1]})

(* coalesce when the previous block is free.                               *)
LEMMA GatherPrev ==
  ASSUME NEW H, NEW C, NEW F, NEW U, NEW b, Freed(H, C, F, U, b),
         NEW p, Below(F, b) = {p},
         NEW R, R = remove_free_block(H, p[1] + 1),
         NEW K, K = SET_SIZE(R, p[1], BLOCK_SIZE(R, p[1]) + BLOCK_SIZE(R, b[1]))
  PROVE  GatheredLow(H, K, C, F, b, p)
<1> DEFINE B == F \cup U
<1>1. /\ Paged(H, C) /\ H \in HeapType /\ F \cap U = {} /\ b \in U
      /\ Placed(C, B) /\ Separate(B) /\ Listed(H, F)
  BY DEF Freed, WellTiled, Paged, Space, Tiling
<1>2. p \in F /\ p[2] = b[1]
  BY DEF Below
<1>3. BlockAt(H, p) /\ BlockAt(H, b) /\ Placed(C, F) /\ Separate(F) /\ Heaped(H, C, F)
  BY <1>1, <1>2, BlockCells, PlacedPart DEF Heaped
<1>4. H.mem[p[1]] = <<p[2] - p[1], 0>> /\ H.mem[b[1]] = <<b[2] - b[1], 0>>
  BY <1>2 DEF Freed, Tags, Tag, Size
<1>5. F \cup {b} \subseteq B /\ F \cup {p} \subseteq B
  BY <1>1, <1>2
<1>6. /\ Placed(C, F \cup {b}) /\ Separate(F \cup {b})
      /\ Placed(C, F \cup {p}) /\ Separate(F \cup {p})
  BY <1>1, <1>5, PlacedPart
<1>7. OffHeaders(C, {p[1]}) /\ {p[1]} \cap LinkCells(F) = {} /\ {b[1]} \cap LinkCells(F) = {}
  <2>1. {p[1]} \in SUBSET Cells(p) /\ p[1] + 1 \notin {p[1]}
    BY <1>3 DEF BlockAt, Cells
  <2>2. {b[1]} \in SUBSET Cells(b) /\ b[1] + 1 \notin {b[1]}
    BY <1>3 DEF BlockAt, Cells
  <2> QED
    BY <1>1, <1>6, <2>1, <2>2, InBlock
<1>8. p[1] \in H.mapped /\ b[1] \in H.mapped
  BY <1>3 DEF BlockAt
<1>9. Absorbed(H, K, C, F, p, p[1], b[1])
  BY <1>2, <1>3, <1>7, <1>8, Absorb
<1>10. (p[2] - p[1]) + (b[2] - b[1]) = b[2] - p[1]
  BY <1>2, <1>3 DEF BlockAt
<1> QED
  BY <1>4, <1>9, <1>10, SMTT(60) DEF Absorbed, GatheredLow

(* The heap when the block below was merged, if it is free: the joined     *)
(* block starts at h and its header holds the size up to b's end.          *)
Lowered(H, J, C, F, b, h) ==
  /\ Heaped(J, C, F \ Below(F, b)) /\ J.mem[h] = <<b[2] - h, 0>>
  /\ Moved(H, J, LinkCells(F) \cup {h})
  /\ Merged(F, b)[1] = h /\ h \in H.mapped /\ h \notin LinkCells(F) /\ OffHeaders(C, {h})
  /\ h \in Int /\ h <= b[1]

(* coalesce up to the test of the next block.                              *)
LEMMA GatherLow ==
  ASSUME NEW H, NEW C, NEW F, NEW U, NEW b, Freed(H, C, F, U, b),
         NEW prev_h, prev_h = get_prev_block(H, b[1]),
         NEW prev_free, prev_free = (prev_h # NULL /\ GET_ALLOC(H, prev_h) = 0),
         NEW h, h = (IF prev_free THEN prev_h ELSE b[1]),
         NEW R1, R1 = remove_free_block(H, prev_h + 1),
         NEW H1, H1 = (IF prev_free
                       THEN SET_SIZE(R1, prev_h, BLOCK_SIZE(R1, prev_h) + BLOCK_SIZE(R1, b[1]))
                       ELSE H)
  PROVE  Lowered(H, H1, C, F, b, h)
<1> DEFINE B == F \cup U
           m == Merged(F, b)
           S1 == F \ Below(F, b)
<1>1. /\ Paged(H, C) /\ H \in HeapType /\ F \cap U = {} /\ b \in U /\ WellTiled(C, F, U)
      /\ Placed(C, B) /\ Separate(B) /\ Listed(H, F)
  BY DEF Freed, WellTiled, Paged, Space, Tiling
<1>2. BlockAt(H, b) /\ Placed(C, F) /\ Separate(F) /\ Heaped(H, C, F)
  BY <1>1, BlockCells, PlacedPart DEF Heaped
<1>3. Neighbour(Below(F, b))
  BY <1>1, OneNeighbour
<1>4. /\ Heaped(H1, C, S1) /\ H1.mem[h] = <<b[2] - h, 0>> /\ Moved(H, H1, LinkCells(F) \cup {h})
      /\ m[1] = h /\ h \in H.mapped /\ h \notin LinkCells(F) /\ OffHeaders(C, {h})
      /\ h \in Int /\ h <= b[1]
  <2>1. CASE Below(F, b) = {}
    <3>1. ~ prev_free
      BY <2>1, FreeNeighbours DEF FindsBelow
    <3>2. h = b[1] /\ H1 = H /\ S1 = F
      BY <2>1, <3>1
    <3>3. H.mem[b[1]] = <<b[2] - b[1], 0>>
      BY DEF Freed, Tag, Size
    <3>4. m[1] = b[1]
      BY <2>1 DEF Merged
    <3>5. {b[1]} \in SUBSET Cells(b) /\ b[1] + 1 \notin {b[1]}
      BY <1>2 DEF Cells, BlockAt
    <3>6. Placed(C, F \cup {b}) /\ Separate(F \cup {b})
      BY <1>1, PlacedPart
    <3>7. OffHeaders(C, {b[1]}) /\ {b[1]} \cap LinkCells(F) = {}
      BY <1>1, <3>5, <3>6, InBlock
    <3>8. Moved(H, H, LinkCells(F) \cup {h})
      BY <1>1 DEF Moved
    <3>9. b[1] \in Int /\ b[1] \in H.mapped /\ b[1] <= b[1]
      BY <1>2 DEF BlockAt
    <3> QED
      BY <1>2, <3>2, <3>3, <3>4, <3>7, <3>8, <3>9
  <2>2. CASE \E p \in Below(F, b) : Below(F, b) = {p}
    <3>1. PICK p \in Below(F, b) : Below(F, b) = {p}
      BY <2>2
    <3>2. prev_h = p[1] /\ prev_free
      BY FreeNeighbours DEF FindsBelow
    <3>3. h = p[1] /\ R1 = remove_free_block(H, p[1] + 1)
          /\ H1 = SET_SIZE(R1, p[1], BLOCK_SIZE(R1, p[1]) + BLOCK_SIZE(R1, b[1]))
      BY <3>2
    <3>4. /\ Heaped(H1, C, F \ {p}) /\ H1.mem[p[1]] = <<b[2] - p[1], 0>>
          /\ Moved(H, H1, LinkCells(F) \cup {p[1]})
      <4>1. GatheredLow(H, H1, C, F, b, p)
        <5> HIDE DEF m, B, S1
        <5> QED
          BY <3>1, <3>3, GatherPrev
      <4> QED
        BY <4>1 DEF GatheredLow
    <3>5. m[1] = p[1]
      BY <3>1 DEF Merged
    <3>6. p \in F /\ p[2] = b[1] /\ BlockAt(H, p)
      <4>1. p \in F /\ p[2] = b[1]
        BY DEF Below
      <4> QED
        BY <1>1, <1>2, <4>1, BlockCells
    <3>7. Placed(C, F \cup {p}) /\ Separate(F \cup {p})
      <4>1. F \cup {p} = F
        BY <3>6
      <4> QED
        BY <1>2, <4>1
    <3>8. {p[1]} \in SUBSET Cells(p) /\ p[1] + 1 \notin {p[1]}
      BY <3>6 DEF Cells, BlockAt
    <3>9. OffHeaders(C, {p[1]}) /\ {p[1]} \cap LinkCells(F) = {}
      BY <1>1, <1>2, <3>7, <3>8, InBlock
    <3>10. p[1] \in Int /\ p[1] <= b[1] /\ p[1] \in H.mapped
      BY <1>2, <3>6 DEF BlockAt
    <3> QED
      BY <3>1, <3>3, <3>4, <3>5, <3>9, <3>10
  <2> QED
    BY <1>3, <2>1, <2>2 DEF Neighbour
<1> QED
  BY <1>4 DEF Lowered

(* The block above is merged.                                              *)
LEMMA GatherNext ==
  ASSUME NEW H, NEW C, NEW F, NEW U, NEW b, Freed(H, C, F, U, b),
         NEW H1, NEW h, Lowered(H, H1, C, F, b, h), NEW p, Above(F, b) = {p},
         NEW R2, R2 = remove_free_block(H1, p[1] + 1),
         NEW H2, H2 = SET_SIZE(R2, h, BLOCK_SIZE(R2, h) + BLOCK_SIZE(R2, p[1]))
  PROVE  Gathered(H, H2, C, F, b)
<1> DEFINE B == F \cup U
           m == Merged(F, b)
           S1 == F \ Below(F, b)
<1>1. /\ Paged(H, C) /\ H \in HeapType /\ F \cap U = {} /\ b \in U /\ WellTiled(C, F, U)
      /\ Placed(C, B) /\ Separate(B) /\ Listed(H, F)
  BY DEF Freed, WellTiled, Paged, Space, Tiling
<1>2. BlockAt(H, b) /\ Placed(C, F) /\ Separate(F) /\ Heaped(H, C, F)
  BY <1>1, BlockCells, PlacedPart DEF Heaped
<1>3. /\ Heaped(H1, C, S1) /\ H1.mem[h] = <<b[2] - h, 0>> /\ Moved(H, H1, LinkCells(F) \cup {h})
      /\ m[1] = h /\ h \in H.mapped /\ h \notin LinkCells(F) /\ OffHeaders(C, {h})
      /\ h \in Int /\ h <= b[1]
  BY DEF Lowered
<1>4. b[1] \in Int /\ b[2] \in Int /\ b[2] - b[1] >= 3
  BY <1>2 DEF BlockAt
<1>5. p \in F /\ p[1] = b[2]
  BY DEF Above
<1>6. BlockAt(H, p) /\ p \in S1
  <2>1. BlockAt(H, p)
    BY <1>1, <1>2, <1>5, BlockCells
  <2> QED
    BY <1>4, <1>5, <2>1 DEF BlockAt, Below
<1>7. m[2] = p[2]
  BY DEF Merged
<1>8. Size(m) = p[2] - h /\ F \ (Below(F, b) \cup Above(F, b)) = S1 \ {p}
  BY <1>3, <1>7 DEF Size
<1>9. h \in Cells(m)
  BY <1>3, <1>4, <1>5, <1>6, <1>7 DEF Cells, BlockAt
<1>10. H.mem[p[1]] = <<p[2] - p[1], 0>>
  BY <1>5 DEF Freed, Tags, Tag, Size
<1>11. OffHeaders(C, {p[1]}) /\ {p[1]} \cap LinkCells(F) = {}
  <2>1. Placed(C, F \cup {p}) /\ Separate(F \cup {p})
    <3>1. F \cup {p} = F
      BY <1>5
    <3> QED
      BY <1>2, <3>1
  <2>2. {p[1]} \in SUBSET Cells(p) /\ p[1] + 1 \notin {p[1]}
    BY <1>6 DEF Cells, BlockAt
  <2> QED
    BY <1>1, <1>2, <2>1, <2>2, InBlock
<1>12. H1.mem[p[1]] = H.mem[p[1]] /\ p[1] \in H1.mapped /\ h \in H1.mapped
  <2>1. p[1] # h /\ p[1] \in Granule /\ p[1] \in H.mapped
    BY <1>3, <1>4, <1>5, <1>6 DEF BlockAt
  <2> QED
    BY <1>3, <1>11, <2>1 DEF Moved
<1>13. LinkCells(S1) \subseteq LinkCells(F)
  BY DEF LinkCells
<1> HIDE DEF S1, m
<1>14. Absorbed(H1, H2, C, S1, p, h, p[1])
  <2>1. H2 = SET_SIZE(R2, h, BLOCK_SIZE(R2, h) + BLOCK_SIZE(R2, p[1]))
        /\ R2 = remove_free_block(H1, p[1] + 1)
    OBVIOUS
  <2>2. h \notin LinkCells(S1) /\ p[1] \notin LinkCells(S1)
    BY <1>3, <1>11, <1>13
  <2> QED
    BY <1>3, <1>6, <1>12, <2>1, <2>2, Absorb
<1>15. (b[2] - h) + (p[2] - p[1]) = p[2] - h
  BY <1>3, <1>4, <1>5, <1>6 DEF BlockAt
<1>16. H2.mem[h] = <<p[2] - h, 0>>
  <2>1. H1.mem[h][1] = b[2] - h /\ H1.mem[h][2] = 0 /\ H1.mem[p[1]][1] = p[2] - p[1]
    <3>1. H1.mem[h] = <<b[2] - h, 0>>
      BY <1>3
    <3> QED
      BY <1>10, <1>12, <3>1
  <2>2. H2.mem[h] = <<H1.mem[h][1] + H1.mem[p[1]][1], H1.mem[h][2]>>
    BY <1>14 DEF Absorbed
  <2>3. H1.mem[h][1] + H1.mem[p[1]][1] = p[2] - h
    BY <1>15, <2>1
  <2> QED
    BY <2>1, <2>2, <2>3
<1>17. Moved(H, H2, LinkCells(F) \cup Cells(m))
  <2>1. Moved(H1, H2, LinkCells(S1) \cup {h})
    BY <1>14 DEF Absorbed
  <2>2. LinkCells(S1) \cup {h} \subseteq LinkCells(F) \cup Cells(m)
        /\ LinkCells(F) \cup {h} \subseteq LinkCells(F) \cup Cells(m)
    BY <1>9, <1>13
  <2>3. Moved(H, H1, LinkCells(F) \cup Cells(m)) /\ Moved(H1, H2, LinkCells(F) \cup Cells(m))
    BY <1>3, <2>1, <2>2, MovedMore
  <2> DEFINE A == LinkCells(F) \cup Cells(m)
  <2>4. Moved(H, H1, A) /\ Moved(H1, H2, A)
    BY <2>3
  <2> HIDE DEF A
  <2>5. Moved(H, H2, A \cup A) /\ A \cup A = A
    BY <2>4, MovedTwice
  <2> QED
    BY <2>5 DEF A
<1> QED
  BY <1>3, <1>8, <1>14, <1>16, <1>17 DEF Gathered, m, Absorbed
(* coalesce up to the footer, in all four cases of free neighbours.        *)
LEMMA Gather ==
  ASSUME NEW H, NEW C, NEW F, NEW U, NEW b, Freed(H, C, F, U, b),
         NEW prev_h, prev_h = get_prev_block(H, b[1]),
         NEW next_h, next_h = get_next_block(H, b[1]),
         NEW prev_free, prev_free = (prev_h # NULL /\ GET_ALLOC(H, prev_h) = 0),
         NEW next_free, next_free = (next_h # NULL /\ GET_ALLOC(H, next_h) = 0),
         NEW h, h = (IF prev_free THEN prev_h ELSE b[1]),
         NEW R1, R1 = remove_free_block(H, prev_h + 1),
         NEW H1, H1 = (IF prev_free
                       THEN SET_SIZE(R1, prev_h, BLOCK_SIZE(R1, prev_h) + BLOCK_SIZE(R1, b[1]))
                       ELSE H),
         NEW R2, R2 = remove_free_block(H1, next_h + 1),
         NEW H2, H2 = (IF next_free
                       THEN SET_SIZE(R2, h, BLOCK_SIZE(R2, h) + BLOCK_SIZE(R2, next_h))
                       ELSE H1)
  PROVE  Gathered(H, H2, C, F, b) /\ h = Merged(F, b)[1]
<1>1. WellTiled(C, F, U) /\ b \in U
  BY DEF Freed
<1>2. Neighbour(Above(F, b))
  BY <1>1, OneNeighbour
<1>3. Lowered(H, H1, C, F, b, h)
  BY GatherLow
<1>4. h = Merged(F, b)[1]
  BY <1>3 DEF Lowered
<1>5. CASE Above(F, b) = {}
  <2> DEFINE m == Merged(F, b)
             S1 == F \ Below(F, b)
  <2>1. H2 = H1
    BY <1>5, FreeNeighbours DEF FindsAbove
  <2>2. m[2] = b[2]
    BY <1>5 DEF Merged
  <2>3. /\ Heaped(H1, C, S1) /\ H1.mem[h] = <<b[2] - h, 0>> /\ Moved(H, H1, LinkCells(F) \cup {h})
        /\ m[1] = h /\ h \in Int /\ h <= b[1]
    BY <1>3 DEF Lowered
  <2>4. b[1] \in Int /\ b[2] \in Int /\ b[2] - b[1] >= 3
    BY <1>1 DEF WellTiled, Tiling, Placed
  <2>5. Size(m) = b[2] - h /\ F \ (Below(F, b) \cup Above(F, b)) = S1
    BY <1>5, <2>2, <2>3 DEF Size
  <2>6. h \in Cells(m)
    BY <2>2, <2>3, <2>4 DEF Cells
  <2> HIDE DEF m, S1
  <2>7. LinkCells(F) \cup {h} \subseteq LinkCells(F) \cup Cells(m)
    BY <2>6
  <2>8. Moved(H, H1, LinkCells(F) \cup Cells(m))
    BY <2>3, <2>7, MovedMore
  <2>9. Gathered(H, H1, C, F, b)
    BY <2>3, <2>5, <2>8 DEF Gathered, m
  <2> QED
    BY <1>4, <2>1, <2>9
<1>6. CASE \E p \in Above(F, b) : Above(F, b) = {p}
  <2>1. PICK p \in Above(F, b) : Above(F, b) = {p}
    BY <1>6
  <2>2. next_h = p[1] /\ next_free
    BY FreeNeighbours DEF FindsAbove
  <2>3. R2 = remove_free_block(H1, p[1] + 1)
        /\ H2 = SET_SIZE(R2, h, BLOCK_SIZE(R2, h) + BLOCK_SIZE(R2, p[1]))
    BY <2>2
  <2>4. Gathered(H, H2, C, F, b)
    BY <1>3, <2>1, <2>3, GatherNext
  <2> QED
    BY <1>4, <2>4
<1> QED
  BY <1>2, <1>5, <1>6 DEF Neighbour

(* coalesce joins the freed block to the free blocks it touches and puts   *)
(* the result on the list.  Then it looks for full pages.                  *)
Coalesced(H, M, C, F, U, b) ==
  /\ coalesce(H, b[1] + 1) = check_and_unmap_full_pages(M)
  /\ Rep(M, C, WithMerged(F, b), U \ {b}) /\ Kept(H, M, U \ {b}) /\ M.mapped = H.mapped

(* What coalesce reads around block b is mapped.                           *)
LEMMA AroundRead ==
  ASSUME NEW H, NEW C, Paged(H, C), NEW b, BlockAt(H, b), NEW c \in C, Behind(b, c)
  PROVE  ReadAround(H, b[1]) \subseteq H.mapped
<1> DEFINE pc == find_page_chunk_for_addr(H, b[1])
           prev == get_prev_block(H, b[1])
           next == get_next_block(H, b[1])
           Tags2 == {f \in {b[1] - 1} : pc # NULL /\ Within(H, pc, f, 1)}
           Near == {prev, next} \ {NULL}
<1>1. /\ c[1] \in Int /\ c[2] \in Int /\ page_end(H, c[1]) = c[2]
      /\ \A x \in c[1] .. c[2] - 1 : x \in H.mapped
  BY HeaderRead DEF Header
<1>2. b[1] \in Int /\ b[1] \in H.mapped /\ c[1] + 2 <= b[1] /\ b[1] < c[2] /\ H \in HeapType
  BY <1>1 DEF BlockAt, Behind, Paged, Space
<1>3. pc = c[1]
  BY <1>1, <1>2, FindChunk
<1>4. \A x \in Int : Within(H, pc, x, 1) => x \in H.mapped
  BY <1>1, <1>3 DEF Within
<1>5. \A x : Load(H, x)[1] \in Int
  BY <1>2, HeapFields DEF Load, Zero
<1>6. prev # NULL => prev \in Int /\ Within(H, pc, prev, 1)
  BY <1>2, <1>5 DEF get_prev_block
<1>7. next # NULL => next \in Int /\ Within(H, pc, next, 1)
  BY <1>2, <1>5 DEF get_next_block, BLOCK_SIZE
<1>8. ReadToFind(H, b[1]) \subseteq H.mapped
  BY ChunksRead
<1>9. ReadAround(H, b[1]) = {b[1]} \cup ReadToFind(H, b[1]) \cup Tags2 \cup Near
  BY DEF ReadAround
<1> HIDE DEF pc, prev, next
<1>10. Tags2 \subseteq H.mapped /\ Near \subseteq H.mapped
  BY <1>2, <1>4, <1>6, <1>7
<1> QED
  BY <1>2, <1>8, <1>9, <1>10

(* coalesce up to the look for full pages.                                 *)
LEMMA CoalesceBlocks ==
  ASSUME NEW H, NEW C, NEW F, NEW U, NEW b, Freed(H, C, F, U, b)
  PROVE  \E M : Coalesced(H, M, C, F, U, b)
<1> DEFINE prev_h == get_prev_block(H, b[1])
           next_h == get_next_block(H, b[1])
           prev_free == prev_h # NULL /\ GET_ALLOC(H, prev_h) = 0
           next_free == next_h # NULL /\ GET_ALLOC(H, next_h) = 0
           h == IF prev_free THEN prev_h ELSE b[1]
           R1 == remove_free_block(H, prev_h + 1)
           H1 == IF prev_free
                 THEN SET_SIZE(R1, prev_h, BLOCK_SIZE(R1, prev_h) + BLOCK_SIZE(R1, b[1]))
                 ELSE H
           R2 == remove_free_block(H1, next_h + 1)
           H2 == IF next_free
                 THEN SET_SIZE(R2, h, BLOCK_SIZE(R2, h) + BLOCK_SIZE(R2, next_h))
                 ELSE H1
           W == write_footer(H2, h)
           M == insert_free_block(W, h + 1)
           m == Merged(F, b)
           S == F \ (Below(F, b) \cup Above(F, b))
           B == F \cup U
           B2 == WithMerged(F, b) \cup (U \ {b})
<1>1. /\ Paged(H, C) /\ H \in HeapType /\ F \cap U = {} /\ b \in U /\ WellTiled(C, F, U)
      /\ Placed(C, B) /\ Separate(B) /\ Listed(H, F)
  BY DEF Freed, WellTiled, Paged, Space, Tiling
<1>2. BlockAt(H, b) /\ Placed(C, F) /\ Separate(F) /\ Heaped(H, C, F)
  BY <1>1, BlockCells, PlacedPart DEF Heaped
<1>3. coalesce(H, b[1] + 1) = check_and_unmap_full_pages(M)
  <2>1. (b[1] + 1) - 1 = b[1]
    BY <1>2 DEF BlockAt
  <2>2. Reads(H, ReadAround(H, b[1])) = H
    <3>1. PICK c \in C : Behind(b, c)
      BY <1>1, BlockCells
    <3>2. ReadAround(H, b[1]) \subseteq H.mapped
      BY <1>1, <1>2, <3>1, AroundRead
    <3> QED
      BY <3>2, ReadsMapped
  <2> QED
    BY <2>1, <2>2, Zenon DEF coalesce, merge
<1>4. Gathered(H, H2, C, F, b) /\ h = m[1]
  <2> HIDE DEF prev_h, next_h
  <2>1. prev_h = get_prev_block(H, b[1]) /\ next_h = get_next_block(H, b[1])
    BY DEF prev_h, next_h
  <2>2. /\ prev_free = (prev_h # NULL /\ GET_ALLOC(H, prev_h) = 0)
        /\ next_free = (next_h # NULL /\ GET_ALLOC(H, next_h) = 0)
    OBVIOUS
  <2> HIDE DEF prev_free, next_free
  <2>3. h = (IF prev_free THEN prev_h ELSE b[1]) /\ R1 = remove_free_block(H, prev_h + 1)
    OBVIOUS
  <2> HIDE DEF h, R1
  <2>4. H1 = (IF prev_free
              THEN SET_SIZE(R1, prev_h, BLOCK_SIZE(R1, prev_h) + BLOCK_SIZE(R1, b[1]))
              ELSE H)
    OBVIOUS
  <2> HIDE DEF H1
  <2>5. R2 = remove_free_block(H1, next_h + 1)
    OBVIOUS
  <2> HIDE DEF R2
  <2>6. H2 = (IF next_free
              THEN SET_SIZE(R2, h, BLOCK_SIZE(R2, h) + BLOCK_SIZE(R2, next_h))
              ELSE H1)
    OBVIOUS
  <2> HIDE DEF H2, m
  <2>7. Gathered(H, H2, C, F, b) /\ h = Merged(F, b)[1]
    BY <2>1, <2>2, <2>3, <2>4, <2>5, <2>6, Gather
  <2> QED
    BY <2>7 DEF m
<1> HIDE DEF prev_h, next_h, prev_free, next_free, h, R1, H1, R2, H2
<1>5. WellTiled(C, WithMerged(F, b), U \ {b})
  BY <1>1, CoalesceSound DEF WithMerged
<1> HIDE DEF m, S
<1>6. WithMerged(F, b) = S \cup {m} /\ S \subseteq F
  BY DEF WithMerged, S, m
<1>7. Placed(C, B2) /\ Separate(B2) /\ S \cup {m} \subseteq B2 /\ S \subseteq B2
  BY <1>5, <1>6 DEF WellTiled, Tiling
<1>8. Placed(C, S \cup {m}) /\ Separate(S \cup {m}) /\ Placed(C, S) /\ Separate(S)
  BY <1>7, PlacedPart
<1>9. BlockAt(H, m) /\ m[1] <= b[1] /\ b[2] <= m[2]
  <2>1. BlockAt(H, m)
    BY <1>1, <1>8, BlockCells
  <2>2. \A p \in F : p[1] \in Int /\ p[2] \in Int /\ p[2] - p[1] >= 3
    BY <1>2 DEF Placed
  <2>3. m[1] <= b[1]
    BY <1>2, <2>2 DEF m, Merged, Below, BlockAt
  <2>4. b[2] <= m[2]
    BY <1>2, <2>2 DEF m, Merged, Above, BlockAt
  <2> QED
    BY <2>1, <2>3, <2>4
<1>10. m \notin F
  <2> SUFFICES ASSUME m \in F PROVE FALSE
    OBVIOUS
  <2>1. m # b /\ (m = b \/ m[2] <= b[1] \/ b[2] <= m[1])
    BY <1>1 DEF Separate, Apart
  <2> QED
    BY <1>2, <1>9, <2>1 DEF BlockAt
<1>11. Heaped(H2, C, S) /\ Stored(H2, H2, m[1], <<Size(m), 0>>)
       /\ Moved(H, H2, LinkCells(F) \cup Cells(m))
  <2>1. Heaped(H2, C, S) /\ H2.mem[m[1]] = <<Size(m), 0>> /\ Moved(H, H2, LinkCells(F) \cup Cells(m))
    BY <1>4 DEF Gathered, m, S
  <2> QED
    BY <2>1 DEF Stored, Heaped, Paged, Space
<1>12. Retagged(H2, W, C, S, m, 0)
  <2>1. W = write_footer(H2, m[1])
    BY <1>4
  <2> HIDE DEF W
  <2> QED
    BY <1>8, <1>11, <2>1, StoreTags
<1>13. Heaped(M, C, S \cup {m}) /\ Moved(W, M, LinkCells(S \cup {m}))
  <2>1. M = insert_free_block(W, m[1] + 1)
    BY <1>4
  <2>2. m \notin S
    BY <1>6, <1>10
  <2> HIDE DEF W, M
  <2> QED
    BY <1>8, <1>12, <2>1, <2>2, InsertFree DEF Retagged
<1> HIDE DEF W, M
<1>14. Moved(H, M, LinkCells(F) \cup Cells(m))
  <2>1. m[1] \in Cells(m) /\ m[2] - 1 \in Cells(m) /\ m[1] + 1 \in Cells(m)
    BY <1>9 DEF BlockAt, Cells
  <2>2. LinkCells(S \cup {m}) \subseteq LinkCells(F) \cup Cells(m)
    BY <1>6, <2>1 DEF LinkCells
  <2>3. {m[1], m[2] - 1} \subseteq LinkCells(F) \cup Cells(m)
    BY <2>1
  <2> DEFINE A == LinkCells(F) \cup Cells(m)
  <2>4. Moved(H, H2, A) /\ Moved(H2, W, A) /\ Moved(W, M, A)
    BY <1>11, <1>12, <1>13, <2>2, <2>3, MovedMore DEF Retagged
  <2> HIDE DEF A
  <2> QED
    BY <2>4 DEF A, Moved
<1>15. Tag(M, m, 0)
  <2>1. {m[1], m[2] - 1} \in SUBSET Cells(m) /\ m[1] + 1 \notin {m[1], m[2] - 1}
    BY <1>9 DEF Cells, BlockAt
  <2>2. Placed(C, (S \cup {m}) \cup {m}) /\ Separate((S \cup {m}) \cup {m})
    <3>1. (S \cup {m}) \cup {m} = S \cup {m}
      OBVIOUS
    <3> QED
      BY <1>8, <3>1
  <2>3. {m[1], m[2] - 1} \cap LinkCells(S \cup {m}) = {}
    BY <1>1, <2>1, <2>2, InBlock
  <2>4. M.mem[m[1]] = W.mem[m[1]] /\ M.mem[m[2] - 1] = W.mem[m[2] - 1]
    BY <1>9, <1>13, <2>3 DEF Moved, BlockAt
  <2> QED
    BY <1>12, <2>4 DEF Retagged, Tag
<1>16. ASSUME NEW a \in B2, a # m, NEW x \in Cells(a), a \in F => x # a[1] + 1
       PROVE  M.mem[x] = H.mem[x]
  <2>1. BlockAt(H, a) /\ x \in Int /\ a[1] <= x /\ x < a[2] /\ x \in Granule
    <3>1. BlockAt(H, a)
      BY <1>1, <1>7, BlockCells
    <3> QED
      BY <3>1 DEF BlockAt, Cells
  <2>2. x \notin Cells(m)
    <3>1. m \in B2
      BY <1>7
    <3>2. ~ (m[1] <= x /\ x < m[2])
      BY <1>1, <1>7, <1>16, <2>1, <3>1, BlocksApart
    <3> QED
      BY <1>9, <3>2 DEF Cells, BlockAt
  <2>3. a \in B
    BY <1>6, <1>16
  <2>4. x \notin LinkCells(F)
    <3> SUFFICES ASSUME NEW f \in F, x = f[1] + 1 PROVE FALSE
      BY DEF LinkCells
    <3>1. BlockAt(H, f) /\ f \in B
      BY <1>1, <1>2, BlockCells
    <3>2. f[1] <= x /\ x < f[2]
      BY <3>1 DEF BlockAt
    <3>3. f = a
      BY <1>1, <2>1, <2>3, <3>1, <3>2, BlocksApart
    <3> QED
      BY <1>16, <3>3
  <2> QED
    BY <1>14, <2>1, <2>2, <2>4 DEF Moved
<1>17. Kept(H, M, U \ {b})
  <2> SUFFICES ASSUME NEW u \in U \ {b}, NEW x \in Cells(u) PROVE M.mem[x] = H.mem[x]
    BY DEF Kept
  <2>1. u \in B2 /\ u \notin F
    BY <1>1
  <2>2. u # m
    <3>1. u = b \/ u[2] <= b[1] \/ b[2] <= u[1]
      BY <1>1 DEF Separate, Apart
    <3>2. BlockAt(H, u)
      BY <1>1, <1>7, <2>1, BlockCells
    <3> QED
      BY <1>2, <1>9, <3>1, <3>2 DEF BlockAt
  <2> QED
    BY <1>16, <2>1, <2>2
<1>18. ASSUME NEW a \in B2, a # m
       PROVE  M.mem[a[1]] = H.mem[a[1]] /\ M.mem[a[2] - 1] = H.mem[a[2] - 1]
  <2>1. BlockAt(H, a)
    BY <1>1, <1>7, BlockCells
  <2>2. a[1] \in Cells(a) /\ a[2] - 1 \in Cells(a) /\ a[1] # a[1] + 1 /\ a[2] - 1 # a[1] + 1
    BY <2>1 DEF Cells, BlockAt
  <2> QED
    BY <1>16, <1>18, <2>2
<1>19. Tags(M, WithMerged(F, b), 0)
  <2>1. ASSUME NEW f \in S PROVE Tag(M, f, 0)
    <3>1. f \in F /\ f # m /\ f \in B2
      BY <1>6, <1>10, <1>7
    <3> QED
      BY <1>18, <3>1 DEF Freed, Tags, Tag
  <2> QED
    BY <1>6, <1>15, <2>1 DEF Tags
<1>20. Tags(M, U \ {b}, 1)
  <2>1. ASSUME NEW u \in U \ {b} PROVE Tag(M, u, 1)
    <3>1. u \in B2 /\ u \in B /\ u # b
      OBVIOUS
    <3>2. u # m
      <4>1. u = b \/ u[2] <= b[1] \/ b[2] <= u[1]
        BY <1>1 DEF Separate, Apart
      <4>2. BlockAt(H, u)
        BY <1>1, <1>7, <3>1, BlockCells
      <4> QED
        BY <1>2, <1>9, <3>1, <4>1, <4>2 DEF BlockAt
    <3> QED
      BY <1>18, <3>1, <3>2 DEF Freed, Tags, Tag
  <2> QED
    BY <2>1 DEF Tags
<1>21. Rep(M, C, WithMerged(F, b), U \ {b})
  BY <1>5, <1>6, <1>13, <1>19, <1>20 DEF Rep, Heaped
<1>22. M.mapped = H.mapped
  BY <1>14 DEF Moved
<1> QED
  BY <1>3, <1>17, <1>21, <1>22 DEF Coalesced

-----------------------------------------------------------------------------
(* One turn of the loop of check_and_unmap_full_pages. *)

(* A free block that fills its chunk is the only block in it.              *)
LEMMA AloneInChunk ==
  ASSUME NEW C, NEW B, Tiling(C, B), NEW c \in C, Usable(c) \in B, NEW a \in B, a # Usable(c)
  PROVE  a[2] <= c[1] \/ c[2] <= a[1]
<1>1. PICK d \in C : d[1] + 2 <= a[1] /\ a[2] <= d[2]
  BY DEF Tiling, Placed
<1>2. /\ a[1] \in Int /\ a[2] \in Int /\ a[2] - a[1] >= 3
      /\ c[1] \in Int /\ c[2] \in Int /\ c[1] + 2 < c[2]
      /\ d[1] \in Int /\ d[2] \in Int
      /\ c = d \/ c[2] <= d[1] \/ d[2] <= c[1]
  BY DEF Tiling, Placed, ChunkSet, Apart
<1>3. Usable(c)[1] = c[1] + 2 /\ Usable(c)[2] = c[2]
  BY DEF Usable
<1>4. a[2] <= Usable(c)[1] \/ Usable(c)[2] <= a[1]
  BY DEF Tiling, Separate, Apart
<1> QED
  BY <1>1, <1>2, <1>3, <1>4

(* The test for a full chunk. *)
LEMMA FullTest ==
  ASSUME NEW H, NEW C, NEW F, NEW U, Rep(H, C, F, U), NEW c \in C
  PROVE  /\ GET_ALLOC(H, c[1] + 2) = 0 /\ BLOCK_SIZE(H, c[1] + 2) = page_size(H, c[1]) - 2
           <=> Usable(c) \in F
<1> DEFINE B == F \cup U
<1>1. Paged(H, C) /\ Tiling(C, B) /\ Placed(C, B) /\ Separate(B) /\ H \in HeapType
  BY DEF Rep, WellTiled, Tiling, Paged, Space
<1>2. PICK f \in B : f[1] = c[1] + 2
  BY <1>1 DEF Tiling, Cover
<1>3. BlockAt(H, f)
  BY <1>1, BlockCells
<1>4. c[1] \in Int /\ c[2] \in Int /\ page_size(H, c[1]) = c[2] - c[1]
  BY <1>1, HeaderRead DEF Header
<1>5. BLOCK_SIZE(H, c[1] + 2) = f[2] - f[1] /\ GET_ALLOC(H, c[1] + 2) = IF f \in F THEN 0 ELSE 1
  <2>1. H.mem[f[1]] = <<f[2] - f[1], IF f \in F THEN 0 ELSE 1>>
    <3>1. CASE f \in F
      BY <3>1 DEF Rep, Tags, Tag, Size
    <3>2. CASE f \notin F
      BY <3>2 DEF Rep, Tags, Tag, Size
    <3> QED
      BY <3>1, <3>2
  <2>2. Load(H, f[1]) = H.mem[f[1]]
    BY <1>1, <1>3, LoadStore DEF BlockAt
  <2> QED
    BY <1>2, <2>1, <2>2 DEF BLOCK_SIZE, GET_ALLOC
<1>6. Usable(c) = <<c[1] + 2, c[2]>> /\ Usable(c)[1] = c[1] + 2 /\ Usable(c)[2] = c[2]
  BY DEF Usable
<1>7. Usable(c) \in F => f = Usable(c)
  <2> SUFFICES ASSUME Usable(c) \in F, f # Usable(c) PROVE FALSE
    OBVIOUS
  <2>1. f[2] <= c[1] \/ c[2] <= f[1]
    BY <1>1, AloneInChunk
  <2>2. BlockAt(H, Usable(c))
    BY <1>1, BlockCells
  <2> QED
    BY <1>2, <1>3, <1>4, <1>6, <2>1, <2>2 DEF BlockAt
<1>8. f[2] - f[1] = (c[2] - c[1]) - 2 => f = Usable(c)
  BY <1>2, <1>3, <1>4, <1>6 DEF BlockAt
<1>9. f = Usable(c) => f[2] - f[1] = (c[2] - c[1]) - 2
  BY <1>3, <1>4, <1>6 DEF BlockAt
<1> QED
  BY <1>4, <1>5, <1>7, <1>8, <1>9

(* The other chunks keep their next, but for the one whose next was c.     *)
NextsKept(J, K, C, c) ==
  \A d \in C \ {c} : NextOf(J)[d[1]] # c[1] => NextOf(K)[d[1]] = NextOf(J)[d[1]]

(* The page list without chunk c, whose links are joined.                  *)
PageUnlinked(J, K, C, c) ==
  /\ K \in HeapType /\ K.mapped = J.mapped /\ K.crashed = J.crashed
  /\ K.free_list_head = J.free_list_head
  /\ PageLinks(K, C \ {c}) /\ NextsKept(J, K, C, c)
  /\ \A x \in Granule : (\A d \in C : x # d[1]) => K.mem[x] = J.mem[x]

(* Joining the neighbours of a chunk on the page list.                     *)
PageJoin(J, K, prev, next) ==
  LET J1 == IF prev # NULL THEN Store2(J, prev, next)
            ELSE [J EXCEPT !.page_list_head = next]
  IN  K = IF next # NULL THEN Store1(J1, next, prev) ELSE J1

(* check_and_unmap_full_pages takes chunk c off the page list.             *)
LEMMA UnlinkPage ==
  ASSUME NEW J, NEW C, Paged(J, C), NEW c \in C,
         NEW prev, prev = PrevOf(J)[c[1]], NEW next, next = NextOf(J)[c[1]],
         NEW K, PageJoin(J, K, prev, next)
  PROVE  PageUnlinked(J, K, C, c)
<1> DEFINE pc == c[1]
           Heads == {d[1] : d \in C}
           X == [J EXCEPT !.page_list_head = next]
           J1 == IF prev # NULL THEN Store2(J, prev, next) ELSE X
<1>1. J \in HeapType /\ J.mapped \subseteq Granule /\ NULL \in Nat /\ NULL \notin Granule
  BY AddressSpace, HeapFields DEF Paged, Space
<1>2. PICK P : /\ Linked(P, Granule, NULL, J.page_list_head, NextOf(J), PrevOf(J))
               /\ Elems(P) = Heads
  BY DEF Paged, PageLinks
<1>3. Heads \subseteq J.mapped /\ pc \in Heads /\ \A d \in C : d[1] = c[1] => d = c
  <2>1. \A d \in C : d[1] \in J.mapped
    BY HeaderRead DEF Header
  <2>2. \A d \in C : d[1] = c[1] => d = c
    <3> SUFFICES ASSUME NEW d \in C, d[1] = c[1] PROVE d = c
      OBVIOUS
    <3>1. /\ c[1] \in Int /\ c[2] \in Int /\ c[1] + 2 < c[2]
          /\ d[1] \in Int /\ d[2] \in Int /\ d[1] + 2 < d[2]
      BY HeaderRead DEF Header
    <3>2. c = d \/ c[2] <= d[1] \/ d[2] <= c[1]
      BY DEF Paged, ChunkSet, Apart
    <3> QED
      BY <3>1, <3>2
  <2> QED
    BY <2>1, <2>2
<1> HIDE DEF Heads, pc
<1>4. pc \in Elems(P)
  BY <1>2, <1>3
<1>5. prev \in Heads \cup {NULL} /\ next \in Heads \cup {NULL}
  <2>1. PICK k \in 1 .. Len(P) : P[k] = pc
    BY <1>4 DEF Elems
  <2>2. prev = At(P, k - 1, NULL) /\ next = At(P, k + 1, NULL)
    BY <1>2, <2>1 DEF Linked, pc
  <2>3. \A i : At(P, i, NULL) \in Elems(P) \cup {NULL}
    BY DEF At, Elems
  <2> QED
    BY <1>2, <2>2, <2>3
<1>6. PageHead(J, X, next)
  BY <1>1, <1>3, <1>5, SetHeads DEF Address
<1>7. Joins(J, X, J1, K, prev, next)
  <2>1. X \in HeapType /\ X.mem = J.mem /\ X.mapped = J.mapped /\ X.crashed = J.crashed
    BY <1>6 DEF PageHead
  <2>2. prev \in J.mapped \cup {NULL} /\ next \in J.mapped \cup {NULL}
    BY <1>3, <1>5
  <2>3. J1 = (IF prev # NULL THEN Store2(J, prev, next) ELSE X)
    OBVIOUS
  <2>4. K = (IF next # NULL THEN Store1(J1, next, prev) ELSE J1)
    BY DEF PageJoin
  <2> HIDE DEF X, J1
  <2> QED
    BY <1>1, <2>1, <2>2, <2>3, <2>4 DEF Joins
<1> HIDE DEF X, J1
<1>8. /\ Rejoined(J, K, prev, next)
      /\ (prev # NULL => HeadsOf(K, J)) /\ (prev = NULL => HeadsOf(K, X))
  BY <1>7, Rejoin
<1>9. /\ K.page_list_head = IF PrevOf(J)[pc] = NULL THEN NextOf(J)[pc] ELSE J.page_list_head
      /\ K.free_list_head = J.free_list_head
  BY <1>6, <1>8, <1>7, Rejoin DEF HeadsOf, PageHead, pc
<1>10. \A q \in Elems(P) \ {pc} :
         /\ NextOf(K)[q] = IF q = PrevOf(J)[pc] THEN NextOf(J)[pc] ELSE NextOf(J)[q]
         /\ PrevOf(K)[q] = IF q = NextOf(J)[pc] THEN PrevOf(J)[pc] ELSE PrevOf(J)[q]
  <2>1. \A q \in Elems(P) : q \in Granule
    BY <1>1, <1>2, <1>3
  <2>2. \A q \in Granule : /\ NextOf(K)[q] = K.mem[q][2] /\ PrevOf(K)[q] = K.mem[q][1]
                           /\ NextOf(J)[q] = J.mem[q][2] /\ PrevOf(J)[q] = J.mem[q][1]
    BY DEF NextOf, PrevOf
  <2>3. prev = PrevOf(J)[pc] /\ next = NextOf(J)[pc]
    BY DEF pc
  <2> QED
    BY <1>8, <2>1, <2>2, <2>3 DEF Rejoined
<1>11. PICK M : /\ Linked(M, Granule, NULL, K.page_list_head, NextOf(K), PrevOf(K))
                /\ Elems(M) = Elems(P) \ {pc}
  <2>1. Unlinks(P, pc, NULL, J.page_list_head, NextOf(J), PrevOf(J),
                K.page_list_head, NextOf(K), PrevOf(K))
    BY <1>9, <1>10 DEF Unlinks
  <2> QED
    BY <1>1, <1>2, <1>4, <2>1, Unlink
<1>12. Heads \ {pc} = {d[1] : d \in C \ {c}}
  BY <1>3 DEF Heads, pc
<1>13. PageLinks(K, C \ {c})
  BY <1>2, <1>11, <1>12 DEF PageLinks
<1>14. \A x \in Granule : (\A d \in C : x # d[1]) => K.mem[x] = J.mem[x]
  <2> SUFFICES ASSUME NEW x \in Granule, \A d \in C : x # d[1] PROVE K.mem[x] = J.mem[x]
    OBVIOUS
  <2>1. x # prev /\ x # next
    BY <1>1, <1>5 DEF Heads
  <2> QED
    BY <1>8, <2>1 DEF Rejoined
<1>15. NextsKept(J, K, C, c)
  <2> SUFFICES ASSUME NEW d \in C \ {c}, NextOf(J)[d[1]] # c[1]
               PROVE  NextOf(K)[d[1]] = NextOf(J)[d[1]]
    BY DEF NextsKept
  <2>1. d[1] \in Elems(P) \ {pc}
    BY <1>2, <1>3 DEF Heads, pc
  <2>2. ASSUME d[1] = PrevOf(J)[pc] PROVE FALSE
    <3>1. PICK k \in 1 .. Len(P) : P[k] = pc
      BY <1>4 DEF Elems
    <3>2. d[1] = At(P, k - 1, NULL) /\ d[1] # NULL
      BY <1>1, <1>2, <1>3, <2>1, <2>2, <3>1 DEF Linked
    <3>3. k - 1 \in 1 .. Len(P) /\ P[k - 1] = d[1] /\ (k - 1) + 1 = k
      BY <3>1, <3>2 DEF At
    <3>4. NextOf(J)[d[1]] = At(P, k, NULL)
      BY <1>2, <3>3 DEF Linked
    <3> QED
      BY <3>1, <3>4 DEF At, pc
  <2> QED
    BY <1>10, <2>1, <2>2
<1> QED
  BY <1>8, <1>9, <1>13, <1>14, <1>15 DEF PageUnlinked, Rejoined

(* munmap takes the granules gone.                                         *)
Unmapped(J, K, gone) ==
  /\ K \in HeapType /\ K.mapped = J.mapped \ gone /\ K.crashed = J.crashed
  /\ K.free_list_head = J.free_list_head /\ K.page_list_head = J.page_list_head
  /\ \A x \in Granule \ gone : K.mem[x] = J.mem[x]

(* It touches no other granule.                                            *)
LEMMA UnmapGone ==
  ASSUME NEW J \in HeapType, NEW gone
  PROVE  Unmapped(J, Unmap(J, gone), gone)
<1> DEFINE mem2 == [a \in Granule |-> IF a \in gone THEN Zero ELSE J.mem[a]]
           K == [J EXCEPT !.mapped = J.mapped \ gone, !.mem = mem2]
<1>1. Unmap(J, gone) = K
  BY DEF Unmap
<1>2. mem2 \in [Granule -> Word \X Word]
  <2>1. ASSUME NEW a \in Granule PROVE mem2[a] \in Nat \X Nat
    BY HeapFields DEF Zero
  <2> QED
    BY <2>1 DEF Word
<1>3. \A x \in Granule \ gone : mem2[x] = J.mem[x]
  OBVIOUS
<1>4. J.mapped \ gone \in SUBSET Granule
  BY HeapFields
<1> HIDE DEF mem2
<1>5. K \in HeapType
  BY <1>2, <1>4 DEF HeapType
<1>6. /\ K.mapped = J.mapped \ gone /\ K.crashed = J.crashed /\ K.mem = mem2
      /\ K.free_list_head = J.free_list_head /\ K.page_list_head = J.page_list_head
  BY DEF HeapType
<1> HIDE DEF K
<1> QED
  BY <1>1, <1>3, <1>5, <1>6 DEF Unmapped

(* A full chunk is unmapped, with its block.                               *)
Dropped(H, K, C, F, U, c) ==
  /\ Rep(K, C \ {c}, F \ {Usable(c)}, U) /\ Kept(H, K, U)
  /\ K.mapped = H.mapped \ Cells(c) /\ NextsKept(H, K, C, c)

(* The turn of the loop for a full chunk gives it back, with its block.    *)
LEMMA UnmapTurn ==
  ASSUME NEW H, NEW C, NEW F, NEW U, Rep(H, C, F, U), NEW c \in C, Usable(c) \in F
  PROVE  Dropped(H, unmap_if_full(H, c[1]), C, F, U, c)
<1> DEFINE B == F \cup U
           b == Usable(c)
           prev == prev_chunk(H, c[1])
           next == next_chunk(H, c[1])
           H1 == remove_free_block(H, c[1] + 2 + 1)
           H2 == IF prev # NULL THEN Store2(H1, prev, next)
                 ELSE [H1 EXCEPT !.page_list_head = next]
           H3 == IF next # NULL THEN Store1(H2, next, prev) ELSE H2
           K == mem_unmap(H3, c[1], page_size(H, c[1]))
           gone == c[1] .. c[2] - 1
<1>1. unmap_if_full(H, c[1]) = K
  <2>1. GET_ALLOC(H, c[1] + 2) = 0 /\ BLOCK_SIZE(H, c[1] + 2) = page_size(H, c[1]) - 2
    BY FullTest
  <2> QED
    BY <2>1 DEF unmap_if_full
<1>2. /\ Paged(H, C) /\ Tiling(C, B) /\ Placed(C, B) /\ Separate(B) /\ H \in HeapType
      /\ F \cap U = {} /\ Listed(H, F) /\ WellTiled(C, F, U)
  BY DEF Rep, WellTiled, Tiling, Paged, Space
<1>3. Placed(C, F) /\ Separate(F) /\ Heaped(H, C, F)
  BY <1>2, PlacedPart DEF Heaped
<1>4. b = <<c[1] + 2, c[2]>> /\ b[1] = c[1] + 2 /\ b[2] = c[2] /\ b \in F
  BY DEF Usable
<1>5. Heaped(H1, C, F \ {b}) /\ Moved(H, H1, LinkCells(F))
  <2>1. H1 = remove_free_block(H, b[1] + 1)
    BY <1>4
  <2> HIDE DEF H1, b
  <2> QED
    BY <1>3, <1>4, <2>1, RemoveFree
<1>6. OffHeaders(C, LinkCells(F))
  BY <1>2, <1>3, LinksOff
<1>7. Paged(H1, C) /\ H1 \in HeapType /\ Listed(H1, F \ {b})
  BY <1>5 DEF Heaped, Paged, Space
<1>8. Header(H, c) /\ c[1] \in Int /\ c[2] \in Int /\ c[1] + 2 < c[2] /\ page_size(H, c[1]) = c[2] - c[1]
  BY <1>2, HeaderRead DEF Header
<1>9. prev = PrevOf(H1)[c[1]] /\ next = NextOf(H1)[c[1]]
  <2>1. H1.mem[c[1]] = H.mem[c[1]]
    BY <1>5, <1>6, <1>8 DEF Moved, OffHeaders, Header
  <2> HIDE DEF H1
  <2> QED
    BY <1>2, <1>7, <1>8, <2>1, LinksMoved DEF Header
<1>10. PageUnlinked(H1, H3, C, c)
  <2>1. PageJoin(H1, H3, prev, next)
    BY DEF PageJoin
  <2> HIDE DEF H1, H3, prev, next
  <2> QED
    BY <1>7, <1>9, <2>1, UnlinkPage
<1> HIDE DEF H1, H3
<1>11. Unmapped(H3, K, gone)
  <2>1. c[1] + (c[2] - c[1]) - 1 = c[2] - 1
    BY <1>8
  <2>2. H3 \in HeapType
    BY <1>10 DEF PageUnlinked
  <2>3. c[1] % PAGE = 0 /\ (c[2] - c[1]) % PAGE = 0
    BY <1>2 DEF Paged, WholePages, Whole, Size
  <2>4. gone \subseteq H3.mapped
    <3>1. gone \subseteq H.mapped
      BY <1>8 DEF Header
    <3>2. H3.mapped = H.mapped
      BY <1>5, <1>10 DEF PageUnlinked, Moved
    <3> QED
      BY <3>1, <3>2
  <2>5. mem_unmap(H3, c[1], c[2] - c[1]) = Unmap(H3, gone)
    BY <2>1, <2>3, <2>4 DEF mem_unmap
  <2>6. Unmapped(H3, Unmap(H3, gone), gone)
    BY <2>2, UnmapGone
  <2> QED
    BY <1>8, <2>5, <2>6
<1> HIDE DEF K, gone, b, B
<1>12. /\ K \in HeapType /\ K.crashed = FALSE /\ K.mapped = H.mapped \ gone
       /\ K.free_list_head = H1.free_list_head /\ K.page_list_head = H3.page_list_head
  BY <1>2, <1>5, <1>10, <1>11 DEF Unmapped, PageUnlinked, Moved, Paged, Space
<1>13. \A x \in Granule \ gone : (\A d \in C : x # d[1]) => K.mem[x] = H1.mem[x]
  BY <1>10, <1>11 DEF Unmapped, PageUnlinked
<1>14. \A x \in (Granule \ gone) \ LinkCells(F) : (\A d \in C : x # d[1]) => K.mem[x] = H.mem[x]
  BY <1>5, <1>13 DEF Moved
<1>15. ASSUME NEW d \in C, d # c
       PROVE  /\ Header(H, d) /\ Cells(d) \cap gone = {} /\ d[1] \notin gone /\ d[1] + 1 \notin gone
              /\ \A e \in C : d[1] + 1 # e[1]
  <2>1. Header(H, d)
    BY <1>2, HeaderRead
  <2>2. d[2] <= c[1] \/ c[2] <= d[1]
    BY <1>2, <1>15 DEF Paged, ChunkSet, Apart
  <2>3. Cells(d) \cap gone = {} /\ d[1] \in Cells(d) /\ d[1] + 1 \in Cells(d)
    BY <1>8, <2>1, <2>2 DEF Cells, gone, Header
  <2>4. ASSUME NEW e \in C PROVE d[1] + 1 # e[1]
    <3>1. Header(H, e)
      BY <1>2, HeaderRead
    <3>2. e = d \/ d[2] <= e[1] \/ e[2] <= d[1]
      BY <1>2 DEF Paged, ChunkSet, Apart
    <3> QED
      BY <2>1, <3>1, <3>2 DEF Header
  <2> QED
    BY <2>1, <2>3, <2>4
<1>16. Space(K, C \ {c})
  <2>1. \A d \in C \ {c} : PAGE <= d[1] /\ d[2] <= End /\ Cells(d) \subseteq K.mapped
    BY <1>2, <1>12, <1>15 DEF Paged, Space
  <2> QED
    BY <1>12, <2>1 DEF Space
<1>17. Extents(K, C \ {c})
  <2>1. ASSUME NEW d \in C \ {c} PROVE K.mem[d[1] + 1] = H.mem[d[1] + 1]
    <3>1. d[1] + 1 \in Granule /\ d[1] + 1 \notin LinkCells(F)
      BY <1>6, <1>15 DEF OffHeaders, Header
    <3> QED
      BY <1>14, <1>15, <3>1
  <2> QED
    BY <1>2, <2>1 DEF Extents, Paged
<1>18. PageLinks(K, C \ {c})
  <2>1. H3 \in HeapType /\ PageLinks(H3, C \ {c})
    BY <1>10 DEF PageUnlinked
  <2>2. \A d \in C \ {c} : K.mem[d[1]] = H3.mem[d[1]]
    BY <1>11, <1>15 DEF Unmapped, Header
  <2> QED
    BY <1>12, <2>1, <2>2, PageLinksSame
<1>19. Paged(K, C \ {c})
  BY <1>2, <1>16, <1>17, <1>18 DEF Paged, ChunkSet, WholePages
<1>20. ASSUME NEW a \in B, a # b
       PROVE  /\ BlockAt(H, a) /\ Cells(a) \subseteq Granule \ gone
              /\ \A x \in Cells(a) : \A d \in C : x # d[1]
              /\ \A x \in Cells(a) : (a \in F => x # a[1] + 1) => x \notin LinkCells(F)
  <2>1. BlockAt(H, a)
    BY <1>2, BlockCells
  <2>2. a[2] <= c[1] \/ c[2] <= a[1]
    BY <1>2, <1>4, <1>20, AloneInChunk DEF b, B
  <2>3. Cells(a) \subseteq Granule \ gone
    BY <1>8, <2>1, <2>2 DEF BlockAt, Cells, gone
  <2>4. \A x \in Cells(a) : x \in Int /\ a[1] <= x /\ x < a[2]
    BY <2>1 DEF BlockAt, Cells
  <2>5. \A x \in Cells(a) : \A d \in C : x # d[1]
    BY <1>2, <2>4, BlocksApart
  <2>6. ASSUME NEW x \in Cells(a), x \in LinkCells(F) PROVE a \in F /\ x = a[1] + 1
    <3>1. PICK f \in F : x = f[1] + 1
      BY <2>6 DEF LinkCells
    <3>2. BlockAt(H, f) /\ f \in B
      BY <1>2, <1>3, BlockCells DEF B
    <3>3. f[1] <= x /\ x < f[2]
      BY <3>1, <3>2 DEF BlockAt
    <3>4. f = a
      BY <1>2, <2>4, <3>2, <3>3, BlocksApart
    <3> QED
      BY <3>1, <3>4
  <2> QED
    BY <2>1, <2>3, <2>5, <2>6
<1>21. ASSUME NEW a \in B, a # b, NEW x \in Cells(a), a \in F => x # a[1] + 1
       PROVE  K.mem[x] = H.mem[x]
  BY <1>14, <1>20, <1>21
<1>22. Kept(H, K, U)
  <2>1. \A u \in U : u \in B /\ u # b /\ u \notin F
    BY <1>2, <1>4 DEF B
  <2> QED
    BY <1>21, <2>1 DEF Kept
<1>23. Listed(K, F \ {b})
  <2>1. ASSUME NEW a \in F \ {b} PROVE K.mem[a[1] + 1] = H1.mem[a[1] + 1]
    <3>1. a \in B /\ a # b
      BY DEF B
    <3>2. a[1] + 1 \in Cells(a)
      BY <1>20, <3>1 DEF Cells, BlockAt
    <3> QED
      BY <1>13, <1>20, <3>1, <3>2
  <2>2. \A x \in LinkCells(F \ {b}) : K.mem[x] = H1.mem[x]
    BY <2>1 DEF LinkCells
  <2> QED
    BY <1>7, <1>12, <2>2, ListedSame
<1>24. ASSUME NEW a \in B, a # b, NEW flag, Tag(H, a, flag) PROVE Tag(K, a, flag)
  <2>1. a[1] \in Cells(a) /\ a[2] - 1 \in Cells(a) /\ a[1] # a[1] + 1 /\ a[2] - 1 # a[1] + 1
    BY <1>20, <1>24 DEF Cells, BlockAt
  <2> QED
    BY <1>21, <1>24, <2>1 DEF Tag
<1>25. Tags(K, F \ {b}, 0) /\ Tags(K, U, 1)
  <2>1. Tags(H, F, 0) /\ Tags(H, U, 1)
    BY DEF Rep
  <2>2. (\A u \in U : u \in B /\ u # b) /\ (\A f \in F \ {b} : f \in B /\ f # b)
    BY <1>2, <1>4 DEF B
  <2> QED
    BY <1>24, <2>1, <2>2 DEF Tags
<1>26. WellTiled(C \ {c}, F \ {b}, U)
  <2> DEFINE D == {c}
  <2>1. D \in SUBSET C /\ \A d \in D : Usable(d) \in F
    OBVIOUS
  <2>2. {Usable(d) : d \in D} = {b}
    BY DEF b
  <2> HIDE DEF D
  <2>3. WellTiled(C \ D, F \ {Usable(d) : d \in D}, U)
    BY <1>2, <2>1, UnmapSound
  <2> QED
    BY <2>2, <2>3 DEF D
<1>27. Cells(c) = gone
  BY DEF Cells, gone
<1>28. NextsKept(H, K, C, c)
  <2> SUFFICES ASSUME NEW d \in C \ {c}, NextOf(H)[d[1]] # c[1]
               PROVE  NextOf(K)[d[1]] = NextOf(H)[d[1]]
    BY DEF NextsKept
  <2>1. Header(H, d) /\ d[1] \in Granule /\ d[1] \notin gone
    BY <1>15 DEF Header
  <2>2. H1.mem[d[1]] = H.mem[d[1]]
    BY <1>5, <1>6, <2>1 DEF Moved, OffHeaders
  <2>3. H3 \in HeapType /\ K.mem[d[1]] = H3.mem[d[1]]
    BY <1>10, <1>11, <2>1 DEF PageUnlinked, Unmapped
  <2>4. NextOf(H1)[d[1]] = NextOf(H)[d[1]] /\ NextOf(K)[d[1]] = NextOf(H3)[d[1]]
    BY <1>2, <1>7, <1>12, <2>1, <2>2, <2>3, LinksMoved
  <2>5. NextOf(H3)[d[1]] = NextOf(H1)[d[1]]
    BY <1>10, <2>4 DEF PageUnlinked, NextsKept
  <2> QED
    BY <2>4, <2>5
<1> QED
  BY <1>1, <1>12, <1>19, <1>22, <1>23, <1>25, <1>26, <1>27, <1>28 DEF Dropped, Rep, b

(* Any other chunk stays.                                                  *)
LEMMA KeepTurn ==
  ASSUME NEW H, NEW C, NEW F, NEW U, Rep(H, C, F, U), NEW c \in C, Usable(c) \notin F
  PROVE  unmap_if_full(H, c[1]) = H
BY FullTest DEF unmap_if_full


-----------------------------------------------------------------------------
(* The loop of check_and_unmap_full_pages. *)

(* A sequence of turns from state s0, n of them.                           *)
Turning(g, s0, n) == g[0] = s0 /\ \A k \in 0 .. n - 1 : g[k + 1] = page_turn(g[k])

(* Turns can go on for ever.                                               *)
LEMMA TurnsExist ==
  ASSUME NEW s0
  PROVE  \E g : g = [n \in Nat |-> IF n = 0 THEN s0 ELSE page_turn(g[n - 1])]
<1> DEFINE Exist == {n \in Nat : \E g : Turning(g, s0, n)}
           Agree == {k \in Nat : \A n, m \in Nat : \A g, h :
                       Turning(g, s0, n) /\ Turning(h, s0, m) /\ k <= n /\ k <= m => g[k] = h[k]}
<1>1. \A n \in Nat : n \in Exist
  <2>1. 0 \in Exist
    <3>1. Turning([k \in 0 .. 0 |-> s0], s0, 0)
      BY DEF Turning
    <3> QED
      BY <3>1
  <2>2. ASSUME NEW n \in Nat, n \in Exist PROVE n + 1 \in Exist
    <3>1. PICK g : Turning(g, s0, n)
      BY <2>2
    <3> DEFINE h == [k \in 0 .. n + 1 |-> IF k <= n THEN g[k] ELSE page_turn(g[n])]
    <3>2. h[0] = s0
      BY <3>1 DEF Turning
    <3>3. ASSUME NEW k \in 0 .. (n + 1) - 1 PROVE h[k + 1] = page_turn(h[k])
      <4>1. CASE k = n
        BY <4>1
      <4>2. CASE k # n
        <5>1. k \in 0 .. n - 1 /\ h[k] = g[k] /\ h[k + 1] = g[k + 1]
          BY <4>2
        <5> QED
          BY <3>1, <5>1 DEF Turning
      <4> QED
        BY <4>1, <4>2
    <3>4. Turning(h, s0, n + 1)
      BY <3>2, <3>3 DEF Turning
    <3> QED
      BY <3>4
  <2> HIDE DEF Exist
  <2> QED
    BY <2>1, <2>2, NatInduct
<1>2. \A k \in Nat : k \in Agree
  <2>1. 0 \in Agree
    BY DEF Turning
  <2>2. ASSUME NEW k \in Nat, k \in Agree PROVE k + 1 \in Agree
    <3> SUFFICES ASSUME NEW n \in Nat, NEW m \in Nat, NEW g, NEW h,
                        Turning(g, s0, n), Turning(h, s0, m), k + 1 <= n, k + 1 <= m
                 PROVE  g[k + 1] = h[k + 1]
      OBVIOUS
    <3>1. k \in 0 .. n - 1 /\ k \in 0 .. m - 1 /\ k <= n /\ k <= m
      OBVIOUS
    <3>2. g[k + 1] = page_turn(g[k]) /\ h[k + 1] = page_turn(h[k])
      BY <3>1 DEF Turning
    <3>3. g[k] = h[k]
      BY <2>2, <3>1
    <3> QED
      BY <3>2, <3>3
  <2> HIDE DEF Agree
  <2> QED
    BY <2>1, <2>2, NatInduct
<1> DEFINE G(n) == CHOOSE g : Turning(g, s0, n)
           w == [n \in Nat |-> G(n)[n]]
<1>3. \A n \in Nat : Turning(G(n), s0, n)
  BY <1>1, Zenon
<1>4. ASSUME NEW n \in Nat
      PROVE  w[n] = IF n = 0 THEN s0 ELSE page_turn(w[n - 1])
  <2>1. CASE n = 0
    <3>1. Turning(G(0), s0, 0)
      BY <1>3
    <3> QED
      BY <2>1, <3>1 DEF Turning
  <2>2. CASE n # 0
    <3>1. n - 1 \in Nat /\ (n - 1) + 1 = n /\ n - 1 <= n - 1 /\ n - 1 <= n /\ n - 1 \in 0 .. n - 1
      BY <2>2
    <3>2. Turning(G(n), s0, n) /\ Turning(G(n - 1), s0, n - 1)
      BY <1>3, <3>1
    <3>3. w[n] = G(n)[n] /\ w[n - 1] = G(n - 1)[n - 1]
      BY <3>1
    <3> HIDE DEF G, w
    <3>4. G(n)[n - 1] = G(n - 1)[n - 1]
      BY <1>2, <3>1, <3>2
    <3>5. G(n)[n] = page_turn(G(n)[n - 1])
      <4>1. G(n)[(n - 1) + 1] = page_turn(G(n)[n - 1])
        BY <3>1, <3>2 DEF Turning
      <4> QED
        BY <3>1, <4>1
    <3> QED
      BY <2>2, <3>3, <3>4, <3>5
  <2> QED
    BY <2>1, <2>2
<1>5. w = [n \in Nat |-> w[n]]
  OBVIOUS
<1> HIDE DEF w
<1>6. w = [n \in Nat |-> IF n = 0 THEN s0 ELSE page_turn(w[n - 1])]
  BY <1>4, <1>5
<1> QED
  BY <1>6

(* The turns of the loop on heap H.                                        *)
Turns(g, H) ==
  /\ g[0] = [heap |-> H, pc |-> H.page_list_head]
  /\ \A n \in Nat : g[n + 1] = page_turn(g[n])

(* check_and_unmap_full_pages is the sequence of its turns.                *)
LEMMA LoopTurns ==
  ASSUME NEW H
  PROVE  \E g : Turns(g, H) /\ check_and_unmap_full_pages(H) = g[Longest].heap
<1> DEFINE s0 == [heap |-> H, pc |-> H.page_list_head]
           loop == CHOOSE g : g = [n \in Nat |-> IF n = 0 THEN s0 ELSE page_turn(g[n - 1])]
<1>1. loop = [n \in Nat |-> IF n = 0 THEN s0 ELSE page_turn(loop[n - 1])]
  <2> HIDE DEF s0
  <2>1. \E g : g = [n \in Nat |-> IF n = 0 THEN s0 ELSE page_turn(g[n - 1])]
    BY TurnsExist
  <2> QED
    BY <2>1, Zenon
<1>2. check_and_unmap_full_pages(H) = loop[Longest].heap
  BY Zenon DEF check_and_unmap_full_pages
<1> HIDE DEF loop, s0
<1>3. loop[0] = s0
  BY <1>1
<1>4. ASSUME NEW n \in Nat PROVE loop[n + 1] = page_turn(loop[n])
  <2>1. n + 1 \in Nat /\ n + 1 # 0 /\ (n + 1) - 1 = n
    OBVIOUS
  <2>2. loop[n + 1] = IF n + 1 = 0 THEN s0 ELSE page_turn(loop[(n + 1) - 1])
    BY <1>1, <2>1
  <2> QED
    BY <2>1, <2>2
<1> QED
  BY <1>2, <1>3, <1>4 DEF Turns, s0

(* The chunks that one free block fills, among the first k of the list.    *)
FullUpTo(C, F, P, k) == {c \in C : Usable(c) \in F /\ \E i \in 1 .. k : P[i] = c[1]}

Full(C, F) == {c \in C : Usable(c) \in F}

Blocks(D) == {Usable(c) : c \in D}

(* What is left when they are gone.                                        *)
Granules(D) == UNION {Cells(c) : c \in D}

Swept(H, K, C, F, U, D) ==
  /\ Rep(K, C \ D, F \ Blocks(D), U) /\ Kept(H, K, U)
  /\ K.mapped = H.mapped \ Granules(D)

(* The chunks that the loop has still to visit have the nexts they had.    *)
Ahead(J, P, k) == \A i \in k + 1 .. Len(P) : NextOf(J)[P[i]] = At(P, i + 1, NULL)

(* Heap J after the turn for chunk k + 1 of the list P.                    *)
Turned(H, J, C, F, U, P, k) ==
  /\ Swept(H, unmap_if_full(J, P[k + 1]), C, F, U, FullUpTo(C, F, P, k + 1))
  /\ Ahead(unmap_if_full(J, P[k + 1]), P, k + 1)
  /\ page_turn([heap |-> J, pc |-> P[k + 1]])
       = [heap |-> unmap_if_full(J, P[k + 1]), pc |-> At(P, (k + 1) + 1, NULL)]

(* A turn of the loop keeps the chunk it visits, or gives it back when it  *)
(* is full, and goes on to the next one.                                   *)
LEMMA SweepTurn ==
  ASSUME NEW H, NEW C, NEW F, NEW U, Rep(H, C, F, U), NEW P, Links(H, H.page_list_head, P, {d[1] : d \in C}),
         NEW k \in Nat, k < Len(P), NEW J, Swept(H, J, C, F, U, FullUpTo(C, F, P, k)), Ahead(J, P, k)
  PROVE  Turned(H, J, C, F, U, P, k)
<1> DEFINE D == FullUpTo(C, F, P, k)
           E == FullUpTo(C, F, P, k + 1)
           K == unmap_if_full(J, P[k + 1])
<1>1. Len(P) \in Nat /\ \A i, j \in 1 .. Len(P) : P[i] = P[j] => i = j
  BY DEF Links, Linked
<1>2. PICK c \in C : P[k + 1] = c[1]
  <2>1. k + 1 \in 1 .. Len(P)
    BY <1>1
  <2> QED
    BY <2>1 DEF Links
<1>3. \A d \in C : d[1] = c[1] => d = c
  <2> SUFFICES ASSUME NEW d \in C, d[1] = c[1] PROVE d = c
    OBVIOUS
  <2>1. Paged(H, C)
    BY DEF Rep
  <2>2. Header(H, c) /\ Header(H, d)
    BY <2>1, HeaderRead
  <2>3. c = d \/ c[2] <= d[1] \/ d[2] <= c[1]
    BY <2>1 DEF Paged, ChunkSet, Apart
  <2> QED
    BY <2>2, <2>3 DEF Header
<1>4. c \notin D
  <2> SUFFICES ASSUME NEW i \in 1 .. k, P[i] = c[1] PROVE FALSE
    BY DEF FullUpTo
  <2>1. i \in 1 .. Len(P) /\ k + 1 \in 1 .. Len(P) /\ i # k + 1
    BY <1>1
  <2> QED
    BY <1>1, <1>2, <2>1
<1>5. \A d \in C : Usable(d) = Usable(c) => d = c
  <2> SUFFICES ASSUME NEW d \in C, Usable(d) = Usable(c) PROVE d = c
    OBVIOUS
  <2>1. d[1] \in Int /\ c[1] \in Int
    BY HeaderRead DEF Header, Rep
  <2>2. d[1] + 2 = c[1] + 2
    BY DEF Usable
  <2> QED
    BY <1>3, <2>1, <2>2
<1>6. Rep(J, C \ D, F \ Blocks(D), U) /\ Kept(H, J, U) /\ J.mapped = H.mapped \ Granules(D)
  BY DEF Swept
<1>7. \A i \in Int : i \in 1 .. k + 1 <=> i \in 1 .. k \/ i = k + 1
  OBVIOUS
<1>8. \A d \in C : d \in E <=> d \in D \/ (d = c /\ Usable(c) \in F)
  BY <1>2, <1>3, <1>7 DEF FullUpTo
<1>9. D \subseteq C /\ E \subseteq C
  BY DEF FullUpTo
<1>12. page_turn([heap |-> J, pc |-> P[k + 1]]) = [heap |-> K, pc |-> At(P, (k + 1) + 1, NULL)]
  <2>1. c \in C \ D
    BY <1>4
  <2>2. Header(J, c)
    BY <1>6, <2>1, HeaderRead DEF Rep
  <2>3. /\ c[1] # NULL /\ next_chunk(J, c[1]) = NextOf(J)[c[1]]
        /\ {c[1], c[1] + 1, c[1] + PAGEHDRSIZE} \subseteq J.mapped
    BY <2>2 DEF Header, PAGEHDRSIZE
  <2>4. Reads(J, {c[1], c[1] + 1, c[1] + PAGEHDRSIZE}) = J
    BY <2>3, ReadsMapped
  <2>5. NextOf(J)[c[1]] = At(P, (k + 1) + 1, NULL)
    <3>1. k + 1 \in k + 1 .. Len(P)
      BY <1>1
    <3> QED
      BY <1>2, <3>1 DEF Ahead
  <2> QED
    BY <1>2, <2>3, <2>4, <2>5 DEF page_turn
<1>13. \A i \in (k + 1) + 1 .. Len(P) :
         /\ i \in k + 1 .. Len(P) /\ \E d \in (C \ D) \ {c} : P[i] = d[1]
         /\ NextOf(J)[P[i]] # c[1]
  <2> SUFFICES ASSUME NEW i \in (k + 1) + 1 .. Len(P)
               PROVE  /\ i \in k + 1 .. Len(P) /\ \E d \in (C \ D) \ {c} : P[i] = d[1]
                      /\ NextOf(J)[P[i]] # c[1]
    OBVIOUS
  <2>1. i \in k + 1 .. Len(P) /\ i \in 1 .. Len(P) /\ k + 1 \in 1 .. Len(P) /\ i # k + 1 /\ i + 1 # k + 1
    BY <1>1
  <2>2. PICK d \in C : P[i] = d[1]
    BY <2>1 DEF Links
  <2>3. d # c
    BY <1>1, <1>2, <2>1, <2>2
  <2>4. d \notin D
    <3> SUFFICES ASSUME NEW j \in 1 .. k, P[j] = P[i] PROVE FALSE
      BY <2>2 DEF FullUpTo
    <3>1. j \in 1 .. Len(P) /\ j # i
      BY <1>1
    <3> QED
      BY <1>1, <2>1, <3>1
  <2>5. NextOf(J)[P[i]] = At(P, i + 1, NULL)
    BY <2>1 DEF Ahead
  <2>6. At(P, i + 1, NULL) # c[1]
    <3>1. CASE i + 1 \in 1 .. Len(P)
      BY <1>1, <1>2, <2>1, <3>1 DEF At
    <3>2. CASE i + 1 \notin 1 .. Len(P)
      <4>1. c[1] # NULL
        BY HeaderRead DEF Header, Rep
      <4> QED
        BY <3>2, <4>1 DEF At
    <3> QED
      BY <3>1, <3>2
  <2> QED
    BY <2>1, <2>2, <2>3, <2>4, <2>5, <2>6
<1> HIDE DEF D, E
<1>10. CASE Usable(c) \in F
  <2>1. E = D \cup {c}
    BY <1>8, <1>9, <1>10
  <2>2. c \in C \ D /\ Usable(c) \in F \ Blocks(D)
    BY <1>4, <1>5, <1>9, <1>10 DEF Blocks
  <2>3. Dropped(J, K, C \ D, F \ Blocks(D), U, c)
    <3> DEFINE C2 == C \ D
               F2 == F \ Blocks(D)
    <3>1. Rep(J, C2, F2, U) /\ c \in C2 /\ Usable(c) \in F2
      BY <1>6, <2>2
    <3> HIDE DEF C2, F2
    <3>2. Dropped(J, unmap_if_full(J, c[1]), C2, F2, U, c)
      BY <3>1, UnmapTurn
    <3> QED
      BY <1>2, <3>2 DEF C2, F2
  <2>4. (C \ D) \ {c} = C \ E /\ (F \ Blocks(D)) \ {Usable(c)} = F \ Blocks(E)
    BY <2>1 DEF Blocks
  <2> HIDE DEF K
  <2>5. Rep(K, C \ E, F \ Blocks(E), U) /\ Kept(J, K, U) /\ K.mapped = J.mapped \ Cells(c)
    BY <2>3, <2>4 DEF Dropped
  <2>6. K.mapped = H.mapped \ Granules(E)
    BY <1>6, <2>1, <2>5 DEF Granules
  <2>7. Kept(H, K, U)
    BY <1>6, <2>5 DEF Kept
  <2>8. Ahead(K, P, k + 1)
    <3>1. NextsKept(J, K, C \ D, c)
      BY <2>3 DEF Dropped
    <3> QED
      BY <1>13, <3>1 DEF Ahead, NextsKept
  <2> QED
    BY <1>12, <2>5, <2>6, <2>7, <2>8 DEF Swept, Turned, K, E
<1>11. CASE Usable(c) \notin F
  <2>1. E = D
    BY <1>8, <1>9, <1>11
  <2>2. c \in C \ D /\ Usable(c) \notin F \ Blocks(D)
    BY <1>4, <1>11
  <2>3. K = J
    <3> DEFINE C2 == C \ D
               F2 == F \ Blocks(D)
    <3>1. Rep(J, C2, F2, U) /\ c \in C2 /\ Usable(c) \notin F2
      BY <1>6, <2>2
    <3> HIDE DEF C2, F2
    <3>2. unmap_if_full(J, c[1]) = J
      BY <3>1, KeepTurn
    <3> QED
      BY <1>2, <3>2
  <2> HIDE DEF K
  <2>4. Ahead(K, P, k + 1)
    BY <1>13, <2>3 DEF Ahead
  <2> QED
    BY <1>6, <1>12, <2>1, <2>3, <2>4 DEF Swept, Turned, K, E
<1> QED
  BY <1>10, <1>11

(* The loop drops the full chunks, and no others.                          *)
LEMMA Sweep ==
  ASSUME NEW H, NEW C, NEW F, NEW U, Rep(H, C, F, U)
  PROVE  Swept(H, check_and_unmap_full_pages(H), C, F, U, Full(C, F))
<1> DEFINE P == PageList(H)
<1>1. Links(H, H.page_list_head, P, {d[1] : d \in C})
  BY PageListIs DEF Rep
<1>2. P \in Seq(Granule) /\ Len(P) \in Nat
  BY <1>1 DEF Links
<1>3. PICK g : Turns(g, H) /\ check_and_unmap_full_pages(H) = g[Longest].heap
  BY LoopTurns
<1>9. Len(P) <= Longest /\ Longest \in Nat
  BY <1>1, <1>2, ShortList DEF Links, Linked
<1> HIDE DEF P
<1> DEFINE Done(n) == /\ g[n] = [heap |-> g[n].heap, pc |-> At(P, n + 1, NULL)]
                      /\ Swept(H, g[n].heap, C, F, U, FullUpTo(C, F, P, n))
                      /\ Ahead(g[n].heap, P, n)
           S == {n \in Nat : IF n <= Len(P) THEN Done(n) ELSE g[n] = g[Len(P)] /\ g[n].pc = NULL}
<1>4. 0 \in S
  <2>1. FullUpTo(C, F, P, 0) = {}
    BY DEF FullUpTo
  <2>2. C \ {} = C /\ F \ Blocks({}) = F
    BY DEF Blocks
  <2>3. Kept(H, H, U)
    BY DEF Kept
  <2>4. g[0] = [heap |-> H, pc |-> At(P, 0 + 1, NULL)] /\ g[0].heap = H
    BY <1>1, <1>3 DEF Turns, Links, Linked
  <2>5. H.mapped = H.mapped \ Granules({})
    BY DEF Granules
  <2>6. Swept(H, H, C, F, U, FullUpTo(C, F, P, 0))
    BY <2>1, <2>2, <2>3, <2>5 DEF Swept
  <2>7. Ahead(H, P, 0)
    BY <1>1 DEF Ahead, Links, Linked
  <2> QED
    BY <1>2, <2>4, <2>6, <2>7
<1>5. ASSUME NEW k \in Nat, k \in S PROVE k + 1 \in S
  <2>1. g[k + 1] = page_turn(g[k])
    BY <1>3 DEF Turns
  <2>2. CASE k < Len(P)
    <3> DEFINE J == g[k].heap
    <3>1. /\ g[k] = [heap |-> J, pc |-> P[k + 1]]
          /\ Swept(H, J, C, F, U, FullUpTo(C, F, P, k)) /\ Ahead(J, P, k)
      BY <1>2, <1>5, <2>2 DEF At
    <3> HIDE DEF J
    <3>2. /\ Swept(H, unmap_if_full(J, P[k + 1]), C, F, U, FullUpTo(C, F, P, k + 1))
          /\ Ahead(unmap_if_full(J, P[k + 1]), P, k + 1)
          /\ page_turn(g[k]) = [heap |-> unmap_if_full(J, P[k + 1]), pc |-> At(P, (k + 1) + 1, NULL)]
      <4> HIDE DEF Done, S
      <4>1. Turned(H, J, C, F, U, P, k)
        BY <1>1, <2>2, <3>1, SweepTurn
      <4> QED
        BY <3>1, <4>1 DEF Turned
    <3>3. g[k + 1].heap = unmap_if_full(J, P[k + 1])
      BY <2>1, <3>2
    <3>4. Done(k + 1)
      BY <2>1, <3>2, <3>3
    <3>5. k + 1 <= Len(P)
      BY <1>2, <2>2
    <3> QED
      BY <3>4, <3>5
  <2>3. CASE ~ (k < Len(P))
    <3>1. ~ (k + 1 <= Len(P))
      BY <1>2, <2>3
    <3>2. g[k] = g[Len(P)] /\ g[k].pc = NULL
      <4>1. CASE k = Len(P)
        <5>1. Done(k) /\ At(P, k + 1, NULL) = NULL
          BY <1>2, <1>5, <4>1 DEF At
        <5> QED
          BY <4>1, <5>1
      <4>2. CASE k # Len(P)
        <5>1. ~ (k <= Len(P))
          BY <1>2, <2>3, <4>2
        <5> QED
          BY <1>5, <5>1
      <4> QED
        BY <4>1, <4>2
    <3>3. g[k].pc = NULL
      BY <3>2
    <3>4. page_turn(g[k]) = g[k]
      BY <3>3 DEF page_turn
    <3> QED
      BY <2>1, <3>1, <3>2, <3>4
  <2> QED
    BY <2>2, <2>3
<1> HIDE DEF S
<1>6. \A k \in Nat : k \in S
  BY <1>4, <1>5, NatInduct
<1>7. /\ Swept(H, g[Len(P)].heap, C, F, U, FullUpTo(C, F, P, Len(P)))
      /\ g[Longest] = g[Len(P)]
  <2>1. Len(P) \in S /\ Len(P) <= Len(P)
    BY <1>2, <1>6
  <2>2. Done(Len(P))
    BY <2>1 DEF S
  <2>3. Longest \in S /\ (Longest <= Len(P) => Longest = Len(P))
    BY <1>2, <1>6, <1>9
  <2>4. g[Longest] = g[Len(P)]
    BY <2>3 DEF S
  <2> QED
    BY <2>2, <2>4
<1>8. FullUpTo(C, F, P, Len(P)) = Full(C, F)
  BY <1>1 DEF FullUpTo, Full, Links
<1> QED
  BY <1>3, <1>7, <1>8

-----------------------------------------------------------------------------
(* mm_malloc. *)

(* Pages start at multiples of the page size.                              *)
LEMMA PageMultiple ==
  ASSUME NEW k \in Nat, NEW p \in Nat \ {0}
  PROVE  (k * p) % p = 0
OBVIOUS

(* What the sizes computed for a request of sz bytes suffice for.          *)
LEMMA SizesSuffice ==
  ASSUME NEW sz \in Sizes, sz # 0
  PROVE  /\ ALIGN(sz) \in Nat /\ ALIGN(sz) >= 1 /\ sz <= 16 * ALIGN(sz)
         /\ TotalSize(sz) \in Nat /\ TotalSize(sz) >= 3 /\ TotalSize(sz) = ALIGN(sz) + 2
         /\ Tagged(ALIGN(sz)) = TotalSize(sz)
         /\ MapSize(sz) \in Nat /\ MapSize(sz) >= TotalSize(sz) + 2 /\ MapSize(sz) % PAGE = 0
<1> DEFINE a == (sz + 15) \div 16
           n == a + 4
<1>1. /\ sz \in Nat \ {0} /\ PAGE \in Nat \ {0} /\ WORD \in Nat
      /\ sz + 16 * (4 + PAGE) <= 16 * WORD
  BY LayoutAssumption DEF LayoutAssumption
<1>2. /\ a \in Nat /\ a >= 1 /\ sz <= 16 * a /\ a + 4 + PAGE <= WORD
      /\ sz + 15 \in Nat /\ sz + 15 < 16 * WORD /\ 16 * WORD \in Nat
  BY <1>1
<1>3. ALIGN(sz) = a
  <2>1. (sz + 15) % (16 * WORD) = sz + 15
    BY <1>2, NoWrap
  <2> QED
    BY <2>1 DEF ALIGN
<1> HIDE DEF a
<1>4. TotalSize(sz) = a + 2
  <2>1. (1 + a + 1) % WORD = 1 + a + 1
    BY <1>1, <1>2, NoWrap
  <2> QED
    BY <2>1, <1>2, <1>3 DEF TotalSize, Tagged
<1>5. n \in Nat
  BY <1>2
<1>6. MapSize(sz) = ((n + PAGE - 1) \div PAGE) * PAGE
  <2>1. (a + 2 + 2 + PAGE - 1) % WORD = a + 2 + 2 + PAGE - 1
    BY <1>1, <1>2, NoWrap
  <2>2. a + 2 + 2 + PAGE - 1 = n + PAGE - 1
    BY <1>1, <1>2
  <2> QED
    BY <2>1, <2>2, <1>4 DEF MapSize
<1> HIDE DEF n
<1>7. (n + PAGE - 1) \div PAGE \in Nat /\ ((n + PAGE - 1) \div PAGE) * PAGE >= n
  BY <1>1, <1>5, RoundUp
<1>8. MapSize(sz) \in Nat
  BY <1>1, <1>6, <1>7
<1>9. Tagged(ALIGN(sz)) = TotalSize(sz)
  BY DEF TotalSize
<1>10. MapSize(sz) % PAGE = 0
  BY <1>1, <1>6, <1>7, PageMultiple
<1> QED
  BY <1>2, <1>3, <1>4, <1>6, <1>7, <1>8, <1>9, <1>10 DEF n

(* find_fit finds a free block that is large enough, if there is one.      *)
LEMMA FindFit ==
  ASSUME NEW H, NEW C, NEW F, Heaped(H, C, F), Tags(H, F, 0),
         NEW asize, NEW n \in Nat, n = Tagged(asize)
  PROVE  \/ \E b \in F : Size(b) >= n /\ find_fit(H, asize) = b[1] + 1 /\ b[1] + 1 # NULL
         \/ (\A b \in F : ~ (Size(b) >= n)) /\ find_fit(H, asize) = NULL
<1> DEFINE L == FreeList(H)
           I == {i \in 1 .. Len(L) : /\ GET_ALLOC(H, L[i] - HDRSIZE) = 0
                                     /\ BLOCK_SIZE(H, L[i] - HDRSIZE) >= n}
<1>1. SelectInSeq(L, LAMBDA bp : /\ GET_ALLOC(H, bp - HDRSIZE) = 0
                                 /\ BLOCK_SIZE(H, bp - HDRSIZE) >= Tagged(asize))
        = IF I # {} THEN Min(I) ELSE 0
  BY DEF SelectInSeq
<1>2. find_fit(H, asize)
        = LET fit == IF I # {} THEN Min(I) ELSE 0 IN IF fit = 0 THEN NULL ELSE L[fit]
  BY <1>1 DEF find_fit, fit_index
<1>3. I \in SUBSET (1 .. Len(L)) /\ \A i \in 1 .. Len(L) : i \in I
        <=> GET_ALLOC(H, L[i] - 1) = 0 /\ BLOCK_SIZE(H, L[i] - 1) >= n
  OBVIOUS
<1> HIDE DEF I, L
<1>4. Links(H, H.free_list_head, L, LinkCells(F))
  BY FreeListIs DEF L
<1>5. ASSUME NEW b \in F
      PROVE  /\ GET_ALLOC(H, (b[1] + 1) - 1) = 0 /\ BLOCK_SIZE(H, (b[1] + 1) - 1) = Size(b)
             /\ Size(b) \in Int /\ b[1] + 1 # NULL
  <2>1. H \in HeapType /\ BlockAt(H, b)
    BY BlockCells DEF Heaped, Paged, Space
  <2>2. (b[1] + 1) - 1 = b[1] /\ Size(b) \in Int /\ b[1] \in H.mapped /\ b[1] + 1 # NULL
    BY <2>1 DEF BlockAt, Size
  <2>3. H.mem[b[1]] = <<Size(b), 0>>
    BY DEF Tags, Tag
  <2>4. Load(H, b[1]) = H.mem[b[1]]
    BY <2>1, <2>2, LoadStore
  <2> QED
    BY <2>2, <2>3, <2>4 DEF GET_ALLOC, BLOCK_SIZE
<1>6. ASSUME NEW i \in I
      PROVE  \E b \in F : Size(b) >= n /\ L[i] = b[1] + 1 /\ b[1] + 1 # NULL
  <2>1. i \in 1 .. Len(L)
    BY <1>3
  <2>2. PICK b \in F : L[i] = b[1] + 1
    BY <1>4, <2>1 DEF Links, LinkCells
  <2> QED
    BY <1>3, <1>5, <2>1, <2>2
<1>7. CASE I # {}
  <2>1. I \in SUBSET Nat /\ 0 \notin I
    BY <1>3, <1>4 DEF Links
  <2>2. Min(I) \in I
    BY <1>7, <2>1, FirstIndex
  <2>3. find_fit(H, asize) = L[Min(I)]
    BY <1>2, <1>7, <2>1, <2>2
  <2> QED
    BY <1>6, <2>2, <2>3
<1>8. CASE I = {}
  <2>1. ASSUME NEW b \in F, Size(b) >= n PROVE FALSE
    <3>1. PICK i \in 1 .. Len(L) : L[i] = b[1] + 1
      BY <1>4 DEF Links, LinkCells
    <3> QED
      BY <1>3, <1>5, <1>8, <2>1, <3>1
  <2> QED
    BY <1>2, <1>8, <2>1
<1> QED
  BY <1>7, <1>8

(* To find a free block, only free blocks are read.                        *)
LEMMA FitRead ==
  ASSUME NEW H, NEW C, NEW F, Heaped(H, C, F), NEW asize
  PROVE  Reads(H, ReadToFit(H, asize)) = H
<1> DEFINE L == FreeList(H)
<1>1. Links(H, H.free_list_head, L, LinkCells(F))
  BY FreeListIs
<1>2. ASSUME NEW bp \in Visited(L, fit_index(H, asize)) PROVE bp - 0 \in H.mapped /\ bp - 1 \in H.mapped
  <2>1. PICK j \in DOMAIN L : bp = L[j]
    BY VisitedIn
  <2> HIDE DEF L
  <2>2. PICK b \in F : bp = b[1] + 1
    BY <1>1, <2>1 DEF Links, LinkCells
  <2>3. BlockAt(H, b)
    BY BlockCells DEF Heaped
  <2> QED
    BY <2>2, <2>3 DEF BlockAt
<1>3. ReadToFit(H, asize) \subseteq H.mapped
  <2> SUFFICES ASSUME NEW bp \in Visited(L, fit_index(H, asize)), NEW i \in {0, 1}
               PROVE  bp - i \in H.mapped
    BY DEF ReadToFit
  <2> HIDE DEF L
  <2> QED
    BY <1>2
<1> QED
  BY <1>3, ReadsMapped

(* split_block serves a request from block b, which is not on the list.    *)
Served(H, K, C, S, U, b, n) ==
  /\ Rep(K, C, S \cup Rest(b, n), U \cup {Taken(b, n)})
  /\ NoFull(C, S \cup Rest(b, n)) /\ Kept(H, K, U) /\ K.mapped = H.mapped

(* split_block hands out the front of a block that was taken off the list. *)
LEMMA ServeBlock ==
  ASSUME NEW H, NEW C, NEW S, NEW U, NEW b, Heaped(H, C, S), b \notin S,
         WellTiled(C, S \cup {b}, U), NoFull(C, S), Tags(H, S, 0), Tags(H, U, 1),
         H.mem[b[1]][1] = Size(b), NEW asize, NEW n \in Nat, n = Tagged(asize), n >= 3, Size(b) >= n
  PROVE  Served(H, split_block(H, b[1], asize), C, S, U, b, n)
<1> DEFINE K == split_block(H, b[1], asize)
           B == (S \cup {b}) \cup U
<1>1. /\ Paged(H, C) /\ Placed(C, B) /\ Separate(B) /\ (S \cup {b}) \cap U = {}
  BY DEF Heaped, WellTiled, Tiling
<1>2. Placed(C, S \cup {b}) /\ Separate(S \cup {b})
  BY <1>1, PlacedPart
<1>3. BlockAt(H, b)
  BY <1>2, <1>1, BlockCells
<1>4. n <= Size(b)
  BY <1>3 DEF BlockAt, Size
<1> HIDE DEF K
<1>5. /\ Heaped(K, C, S \cup Rest(b, n)) /\ Tag(K, Taken(b, n), 1) /\ Tags(K, Rest(b, n), 0)
      /\ Moved(H, K, Cells(b) \cup LinkCells(S))
  BY <1>2, <1>4, SplitBlock DEF K
<1>6. WellTiled(C, S \cup Rest(b, n), U \cup {Taken(b, n)}) /\ NoFull(C, S \cup Rest(b, n))
  <2> DEFINE F == S \cup {b}
  <2>1. F \ {b} = S /\ b \in F
    OBVIOUS
  <2>2. WellTiled(C, F, U) /\ \A c \in C : Usable(c) \notin F \ {b}
    BY <2>1 DEF NoFull
  <2> HIDE DEF F
  <2>3. /\ WellTiled(C, (F \ {b}) \cup Rest(b, n), U \cup {Taken(b, n)})
        /\ \A c \in C : Usable(c) \notin (F \ {b}) \cup Rest(b, n)
    BY <2>1, <2>2, SplitSound
  <2> QED
    BY <2>1, <2>3 DEF NoFull
<1> HIDE DEF B
<1>7. ASSUME NEW a \in B, a # b, NEW x \in Cells(a), a \in S => x # a[1] + 1
      PROVE  K.mem[x] = H.mem[x]
  <2>1. BlockAt(H, a)
    BY <1>1, BlockCells
  <2>2. x \in Int /\ a[1] <= x /\ x < a[2] /\ x \in Granule
    BY <2>1 DEF BlockAt, Cells
  <2>3. x \notin Cells(b)
    <3>1. b \in B
      BY DEF B
    <3>2. ~ (b[1] <= x /\ x < b[2])
      BY <1>1, <1>7, <2>2, <3>1, BlocksApart
    <3> QED
      BY <1>3, <3>2 DEF BlockAt, Cells
  <2>4. x \notin LinkCells(S)
    <3> SUFFICES ASSUME NEW f \in S, x = f[1] + 1 PROVE FALSE
      BY DEF LinkCells
    <3>1. BlockAt(H, f) /\ f \in B
      BY <1>1, BlockCells DEF B
    <3>2. f[1] <= x /\ x < f[2]
      BY <3>1 DEF BlockAt
    <3>3. f = a
      BY <1>1, <2>2, <3>1, <3>2, BlocksApart
    <3> QED
      BY <1>7, <3>3
  <2> QED
    BY <1>5, <2>2, <2>3, <2>4 DEF Moved
<1>8. ASSUME NEW a \in B, a # b, NEW flag, Tag(H, a, flag) PROVE Tag(K, a, flag)
  <2>1. BlockAt(H, a)
    BY <1>1, BlockCells
  <2>2. a[1] \in Cells(a) /\ a[2] - 1 \in Cells(a) /\ a[1] # a[1] + 1 /\ a[2] - 1 # a[1] + 1
    BY <2>1 DEF Cells, BlockAt
  <2> QED
    BY <1>7, <1>8, <2>2 DEF Tag
<1>9. (\A u \in U : u \in B /\ u # b /\ u \notin S) /\ (\A f \in S : f \in B /\ f # b)
  BY <1>1 DEF B
<1>10. Kept(H, K, U)
  BY <1>7, <1>9 DEF Kept
<1>11. Tags(K, S \cup Rest(b, n), 0) /\ Tags(K, U \cup {Taken(b, n)}, 1)
  BY <1>5, <1>8, <1>9 DEF Tags
<1>12. Rep(K, C, S \cup Rest(b, n), U \cup {Taken(b, n)})
  BY <1>5, <1>6, <1>11 DEF Rep, Heaped
<1>13. K.mapped = H.mapped
  BY <1>5 DEF Moved
<1> QED
  BY <1>6, <1>10, <1>12, <1>13 DEF Served, K

(* A free block that leaves the list.                                      *)
LEMMA TakeOff ==
  ASSUME NEW H, NEW C, NEW F, NEW U, Rep(H, C, F, U), NEW b \in F,
         NEW K, K = remove_free_block(H, b[1] + 1)
  PROVE  /\ Heaped(K, C, F \ {b}) /\ Tags(K, F \ {b}, 0) /\ Tags(K, U, 1)
         /\ K.mem[b[1]][1] = Size(b) /\ Kept(H, K, U) /\ K.mapped = H.mapped
<1> DEFINE B == F \cup U
<1>1. /\ Paged(H, C) /\ Placed(C, B) /\ Separate(B) /\ F \cap U = {} /\ Listed(H, F)
  BY DEF Rep, WellTiled, Tiling
<1>2. Heaped(H, C, F)
  BY <1>1, PlacedPart DEF Heaped
<1>3. Heaped(K, C, F \ {b}) /\ Moved(H, K, LinkCells(F))
  BY <1>2, RemoveFree
<1> HIDE DEF B
<1>4. ASSUME NEW a \in B, NEW x \in Cells(a), a \in F => x # a[1] + 1
      PROVE  K.mem[x] = H.mem[x]
  <2>1. BlockAt(H, a)
    BY <1>1, BlockCells
  <2>2. x \in Int /\ a[1] <= x /\ x < a[2] /\ x \in Granule
    BY <2>1 DEF BlockAt, Cells
  <2>3. x \notin LinkCells(F)
    <3> SUFFICES ASSUME NEW f \in F, x = f[1] + 1 PROVE FALSE
      BY DEF LinkCells
    <3>1. BlockAt(H, f) /\ f \in B
      BY <1>1, BlockCells DEF B
    <3>2. f[1] <= x /\ x < f[2]
      BY <3>1 DEF BlockAt
    <3>3. f = a
      BY <1>1, <2>2, <3>1, <3>2, BlocksApart
    <3> QED
      BY <1>4, <3>3
  <2> QED
    BY <1>3, <2>2, <2>3 DEF Moved
<1>5. ASSUME NEW a \in B, NEW flag, Tag(H, a, flag) PROVE Tag(K, a, flag)
  <2>1. BlockAt(H, a)
    BY <1>1, BlockCells
  <2>2. a[1] \in Cells(a) /\ a[2] - 1 \in Cells(a) /\ a[1] # a[1] + 1 /\ a[2] - 1 # a[1] + 1
    BY <2>1 DEF Cells, BlockAt
  <2> QED
    BY <1>4, <1>5, <2>2 DEF Tag
<1>6. (\A u \in U : u \in B /\ u \notin F) /\ (\A f \in F : f \in B)
  BY <1>1 DEF B
<1>7. Tags(H, F, 0) /\ Tags(H, U, 1)
  BY DEF Rep
<1>8. Tags(K, F, 0) /\ Tags(K, U, 1) /\ Kept(H, K, U)
  BY <1>4, <1>5, <1>6, <1>7 DEF Tags, Kept
<1>9. K.mem[b[1]][1] = Size(b)
  <2>1. Tag(K, b, 0)
    BY <1>8 DEF Tags
  <2>2. K.mem[b[1]] = <<Size(b), 0>>
    BY <2>1 DEF Tag
  <2> QED
    BY <2>2
<1>10. K.mapped = H.mapped
  BY <1>3 DEF Moved
<1> QED
  BY <1>3, <1>8, <1>9, <1>10 DEF Tags

(* A free block that is large enough serves a request.                     *)
LEMMA ServeFree ==
  ASSUME NEW H, NEW C, NEW F, NEW U, Rep(H, C, F, U), NoFull(C, F), NEW b \in F,
         NEW asize, NEW n \in Nat, n = Tagged(asize), n >= 3, Size(b) >= n,
         NEW K, K = split_block(remove_free_block(H, b[1] + 1), b[1], asize)
  PROVE  Served(H, K, C, F \ {b}, U, b, n)
<1> DEFINE J == remove_free_block(H, b[1] + 1)
           S == F \ {b}
<1>1. /\ Heaped(J, C, S) /\ Tags(J, S, 0) /\ Tags(J, U, 1)
      /\ J.mem[b[1]][1] = Size(b) /\ Kept(H, J, U) /\ J.mapped = H.mapped
  BY TakeOff, SMTT(60)
<1>2. S \cup {b} = F /\ b \notin S /\ S \subseteq F /\ K = split_block(J, b[1], asize)
  OBVIOUS
<1>3. WellTiled(C, S \cup {b}, U) /\ NoFull(C, S)
  BY <1>2 DEF Rep, NoFull
<1> HIDE DEF J, S
<1>4. Served(J, split_block(J, b[1], asize), C, S, U, b, n)
  BY <1>1, <1>2, <1>3, ServeBlock
<1>5. Kept(H, K, U) /\ K.mapped = H.mapped
  BY <1>1, <1>2, <1>4 DEF Served, Kept
<1> QED
  BY <1>2, <1>4, <1>5 DEF Served, S

-----------------------------------------------------------------------------
(* NewChunk. *)

(* Chunk c lies where mmap may put n granules.                             *)
NewRegion(H, C, c, n) ==
  /\ c \in Int \X Int /\ c[2] - c[1] = n /\ PAGE <= c[1] /\ c[2] <= End
  /\ Cells(c) \subseteq Granule /\ Cells(c) \cap H.mapped = {}
  /\ (\A d \in C : Apart(c, d)) /\ Whole(c)

(* Regions that the system may map are apart from the chunks.              *)
LEMMA RegionFree ==
  ASSUME NEW H, NEW C, Paged(H, C), NEW n \in Nat, n >= 5, n % PAGE = 0, NEW r \in Regions(H, n),
         NEW c, c = <<r, r + n>>
  PROVE  NewRegion(H, C, c, n) /\ c[1] = r /\ \E k \in 1 .. MaxPage : r = PageStart(k)
<1>1. PICK k \in 1 .. MaxPage : r = PageStart(k)
  BY DEF Regions
<1>2. r + n <= End /\ (r .. r + n - 1) \cap H.mapped = {}
  BY DEF Regions
<1>3. k \in Nat /\ k >= 1 /\ PAGE \in Nat /\ PAGE > 0 /\ End \in Nat /\ Granule = PAGE .. End - 1
  BY AddressSpace
<1>4. r = k * PAGE /\ r \in Nat /\ r >= PAGE
  <2>1. PAGE * 1 <= PAGE * k
    BY <1>3, TimesMonotone
  <2>2. PAGE * 1 = PAGE /\ PAGE * k = k * PAGE /\ k * PAGE \in Nat
    BY <1>3
  <2> QED
    BY <1>1, <1>3, <2>1, <2>2 DEF PageStart
<1>5. c[1] = r /\ c[2] = r + n /\ c[2] - c[1] = n /\ c \in Int \X Int
  BY <1>4
<1>6. Cells(c) = r .. r + n - 1
  BY <1>5 DEF Cells
<1>7. Cells(c) \subseteq Granule
  BY <1>2, <1>3, <1>4, <1>6
<1>8. ASSUME NEW d \in C PROVE Apart(c, d)
  <2>1. Header(H, d)
    BY HeaderRead
  <2>2. d[1] \in Int /\ d[2] \in Int /\ d[1] < d[2] /\ d[1] \in H.mapped
        /\ \A x \in d[1] .. d[2] - 1 : x \in H.mapped
    BY <2>1 DEF Header
  <2>3. SUFFICES ASSUME ~ (c[2] <= d[1] \/ d[2] <= c[1]) PROVE FALSE
    BY DEF Apart
  <2>4. r < d[2] /\ d[1] < r + n
    BY <1>4, <1>5, <2>2, <2>3
  <2>5. CASE r <= d[1]
    <3>1. d[1] \in r .. r + n - 1
      BY <1>4, <2>2, <2>4, <2>5
    <3> QED
      BY <1>2, <2>2, <3>1
  <2>6. CASE d[1] < r
    <3>1. r \in d[1] .. d[2] - 1 /\ r \in r .. r + n - 1
      BY <1>4, <2>2, <2>4, <2>6
    <3> QED
      BY <1>2, <2>2, <3>1
  <2> QED
    BY <1>4, <2>2, <2>5, <2>6
<1>9. Whole(c)
  <2>1. (k * PAGE) % PAGE = 0
    BY <1>3, PageMultiple
  <2> QED
    BY <1>4, <1>5, <2>1 DEF Whole, Size
<1> QED
  BY <1>1, <1>2, <1>4, <1>5, <1>6, <1>7, <1>8, <1>9 DEF NewRegion

(* K has chunk c in front of its page list; but for the page headers it is *)
(* the heap H.                                                             *)
PageAdded(H, K, C, c) ==
  /\ Paged(K, C \cup {c})
  /\ K.mapped = H.mapped \cup Cells(c) /\ K.free_list_head = H.free_list_head
  /\ \A x \in Granule : (\A d \in C \cup {c} : x # d[1] /\ x # d[1] + 1) => K.mem[x] = H.mem[x]

(* More pages are mapped.                                                  *)
Remapped(H, K, S) ==
  /\ K \in HeapType /\ K.mem = H.mem /\ K.mapped = H.mapped \cup S /\ K.crashed = H.crashed
  /\ K.free_list_head = H.free_list_head /\ K.page_list_head = H.page_list_head

(* Mapping pages changes no word.                                          *)
LEMMA MapMore ==
  ASSUME NEW H \in HeapType, NEW S \in SUBSET Granule
  PROVE  Remapped(H, [H EXCEPT !.mapped = @ \cup S], S)
<1>1. H.mapped \cup S \subseteq Granule
  BY HeapFields
<1> QED
  BY <1>1 DEF Remapped, HeapType

(* The stores into the pages of the new chunk, and into the old head.      *)
PageStores(H, c, n, H0, J, H1, H2, K) ==
  /\ H0 = [H EXCEPT !.mapped = @ \cup Cells(c)]
  /\ J = Store(H0, c[1], <<NULL, H.page_list_head>>)
  /\ H1 = Store(J, c[1] + 1, <<n, c[2]>>)
  /\ H2 = IF H.page_list_head # NULL THEN Store1(H1, H.page_list_head, c[1]) ELSE H1
  /\ K = [H2 EXCEPT !.page_list_head = c[1]]

(* They put it in front of the page list.                                  *)
LEMMA AddPage ==
  ASSUME NEW H, NEW C, Paged(H, C), NEW n \in Nat, n >= 5, NEW c, NewRegion(H, C, c, n),
         NEW H0, NEW J, NEW H1, NEW H2, NEW K, PageStores(H, c, n, H0, J, H1, H2, K)
  PROVE  PageAdded(H, K, C, c)
<1> DEFINE head == H.page_list_head
           p == c[1]
           Heads == {d[1] : d \in C}
<1>1. H \in HeapType /\ H.mapped \subseteq Granule /\ head \in Nat /\ NULL \in Nat /\ NULL \notin Granule
      /\ H.crashed = FALSE
  BY AddressSpace, HeapFields DEF Paged, Space, Address
<1>2. PICK P : /\ Linked(P, Granule, NULL, head, NextOf(H), PrevOf(H))
               /\ Elems(P) = Heads
  BY DEF Paged, PageLinks
<1>3. Heads \subseteq H.mapped
  BY HeaderRead DEF Header
<1>4. p \in Int /\ c[2] \in Int /\ c[2] = p + n /\ c[2] \in Nat /\ p \in Cells(c) /\ p + 1 \in Cells(c)
      /\ p \in Granule /\ p + 1 \in Granule /\ p \in Nat /\ c = <<p, c[2]>>
  <2>1. c[1] \in Int /\ c[2] \in Int /\ c[2] - c[1] = n /\ Cells(c) \subseteq Granule /\ PAGE <= c[1]
        /\ c = <<c[1], c[2]>>
    BY DEF NewRegion
  <2>2. c[1] \in Cells(c) /\ c[1] + 1 \in Cells(c)
    BY <2>1 DEF Cells
  <2>3. c[1] \in Nat
    BY <2>1, AddressSpace
  <2> QED
    BY <2>1, <2>2, <2>3
<1>5. p \notin H.mapped /\ p + 1 \notin H.mapped
  BY <1>4 DEF NewRegion
<1>6. head = NULL \/ head \in Heads
  BY <1>2 DEF Linked, At, Elems
<1> HIDE DEF head, p, Heads
<1>7. Remapped(H, H0, Cells(c))
  <2>1. H0 = [H EXCEPT !.mapped = @ \cup Cells(c)]
    BY DEF PageStores
  <2>2. Remapped(H, [H EXCEPT !.mapped = @ \cup Cells(c)], Cells(c))
    BY <1>1, MapMore DEF NewRegion
  <2> QED
    BY <2>1, <2>2
<1>8. Stored(H0, J, p, <<NULL, head>>)
  <2>1. H0 \in HeapType /\ p \in H0.mapped
    BY <1>4, <1>7 DEF Remapped
  <2>2. <<NULL, head>> \in Nat \X Nat
    BY <1>1
  <2>3. J = Store(H0, p, <<NULL, head>>)
    BY DEF PageStores, p, head
  <2> QED
    BY <2>1, <2>2, <2>3, LoadStore
<1>9. Stored(J, H1, p + 1, <<n, c[2]>>)
  <2>1. J \in HeapType /\ p + 1 \in J.mapped
    BY <1>4, <1>7, <1>8 DEF Remapped, Stored
  <2>2. <<n, c[2]>> \in Nat \X Nat
    BY <1>4
  <2>3. H1 = Store(J, p + 1, <<n, c[2]>>)
    BY DEF PageStores, p
  <2> QED
    BY <2>1, <2>2, <2>3, LoadStore
<1>10. /\ H1 \in HeapType /\ H1.mapped = H.mapped \cup Cells(c) /\ H1.crashed = FALSE
       /\ H1.free_list_head = H.free_list_head
       /\ H1.mem[p] = <<NULL, head>> /\ H1.mem[p + 1] = <<n, c[2]>>
       /\ \A x \in Granule \ {p, p + 1} : H1.mem[x] = H.mem[x]
  <2>1. p # p + 1
    BY <1>4
  <2> QED
    BY <1>1, <1>4, <1>7, <1>8, <1>9, <2>1 DEF Remapped, Stored
<1>11. /\ H2 \in HeapType /\ H2.mapped = H.mapped \cup Cells(c) /\ H2.crashed = FALSE
       /\ H2.free_list_head = H.free_list_head
       /\ H2.mem[p] = <<NULL, head>> /\ H2.mem[p + 1] = <<n, c[2]>>
       /\ \A x \in Granule \ {p, p + 1} : /\ H2.mem[x][1] = IF x = head THEN p ELSE H.mem[x][1]
                                          /\ H2.mem[x][2] = H.mem[x][2]
                                          /\ x # head => H2.mem[x] = H.mem[x]
  <2>1. CASE head # NULL
    <3>1. head \in H1.mapped /\ head # p /\ head # p + 1 /\ head \in Granule
      BY <1>1, <1>3, <1>5, <1>6, <1>10, <2>1
    <3>2. H2 = Store1(H1, head, p)
      BY <2>1 DEF PageStores, head, p
    <3>3. Stored(H1, H2, head, <<p, H1.mem[head][2]>>)
      <4>1. H1 \in HeapType
        BY <1>10
      <4>2. Stored(H1, Store1(H1, head, p), head, <<p, H1.mem[head][2]>>)
        BY <1>4, <3>1, <4>1, LoadStore
      <4> QED
        BY <3>2, <4>2
    <3>4. H1.mem[head] = H.mem[head]
      BY <1>10, <3>1
    <3>5. /\ H2 \in HeapType /\ H2.mapped = H1.mapped /\ H2.crashed = H1.crashed
          /\ H2.free_list_head = H1.free_list_head
          /\ H2.mem[head] = <<p, H1.mem[head][2]>>
          /\ \A x \in Granule \ {head} : H2.mem[x] = H1.mem[x]
      BY <3>3 DEF Stored
    <3>6. H2.mem[p] = H1.mem[p] /\ H2.mem[p + 1] = H1.mem[p + 1]
      BY <1>4, <3>1, <3>5
    <3>7. H2.mem[head][1] = p /\ H2.mem[head][2] = H.mem[head][2]
      <4>1. H2.mem[head] = <<p, H1.mem[head][2]>>
        BY <3>5
      <4>2. H2.mem[head] = <<p, H.mem[head][2]>>
        BY <3>4, <4>1
      <4> QED
        BY <4>2
    <3>8. \A x \in Granule \ {p, p + 1} : x # head => H2.mem[x] = H.mem[x]
      BY <1>10, <3>5
    <3>9. \A x \in Granule \ {p, p + 1} :
            /\ H2.mem[x][1] = IF x = head THEN p ELSE H.mem[x][1]
            /\ H2.mem[x][2] = H.mem[x][2]
      BY <3>7, <3>8
    <3>10. /\ H2.mem[p] = <<NULL, head>> /\ H2.mem[p + 1] = <<n, c[2]>>
           /\ H2.mapped = H.mapped \cup Cells(c) /\ H2.crashed = FALSE
           /\ H2.free_list_head = H.free_list_head /\ H2 \in HeapType
      BY <1>10, <3>5, <3>6
    <3> QED
      BY <3>8, <3>9, <3>10
  <2>2. CASE head = NULL
    <3>1. H2 = H1
      BY <2>2 DEF PageStores, head
    <3>2. \A x \in Granule : x # head
      BY <1>1, <2>2
    <3> QED
      BY <1>10, <3>1, <3>2
  <2> QED
    BY <2>1, <2>2
<1>12. PageHead(H2, K, p)
  <2>1. p \in Address
    BY <1>4 DEF Address
  <2>2. K = [H2 EXCEPT !.page_list_head = p]
    BY DEF PageStores, p
  <2>3. H2 \in HeapType
    BY <1>11
  <2>4. PageHead(H2, [H2 EXCEPT !.page_list_head = p], p)
    BY <2>1, <2>3, SetHeads
  <2> QED
    BY <2>2, <2>4
<1>13. K \in HeapType /\ K.mem = H2.mem /\ K.mapped = H.mapped \cup Cells(c) /\ K.crashed = FALSE
       /\ K.free_list_head = H.free_list_head /\ K.page_list_head = p
  BY <1>11, <1>12 DEF PageHead
<1>14. ASSUME NEW d \in C
       PROVE  /\ Header(H, d) /\ d[1] \in Granule /\ d[1] + 1 \in Granule
              /\ d[1] # p /\ d[1] # p + 1 /\ d[1] + 1 # p /\ d[1] + 1 # p + 1
              /\ d[1] + 1 # head
  <2>1. Header(H, d)
    BY HeaderRead
  <2>2. d[1] + 1 # head
    <3>1. d[1] + 1 # NULL
      BY <1>1, <2>1 DEF Header
    <3>2. ASSUME NEW e \in C PROVE d[1] + 1 # e[1]
      <4>1. Header(H, e)
        BY HeaderRead
      <4>2. e = d \/ d[2] <= e[1] \/ e[2] <= d[1]
        BY DEF Paged, ChunkSet, Apart
      <4> QED
        BY <2>1, <4>1, <4>2 DEF Header
    <3> QED
      BY <1>6, <3>1, <3>2 DEF Heads
  <2> QED
    BY <1>5, <2>1, <2>2 DEF Header
<1>15. Linked(<<p>> \o P, Granule, NULL, p, NextOf(K), PrevOf(K))
       /\ Elems(<<p>> \o P) = Heads \cup {p}
  <2>1. \A q \in Granule : /\ NextOf(K)[q] = K.mem[q][2] /\ PrevOf(K)[q] = K.mem[q][1]
                           /\ NextOf(H)[q] = H.mem[q][2] /\ PrevOf(H)[q] = H.mem[q][1]
    BY DEF NextOf, PrevOf
  <2>2. \A q \in Heads : q \in Granule \ {p, p + 1}
    BY <1>14 DEF Heads
  <2>3. p \notin Heads
    BY <1>14 DEF Heads
  <2>7. K.mem = H2.mem
    BY <1>13
  <2>4. NextOf(K)[p] = head /\ PrevOf(K)[p] = NULL
    <3>1. H2.mem[p] = <<NULL, head>>
      BY <1>11
    <3>2. NextOf(K)[p] = K.mem[p][2] /\ PrevOf(K)[p] = K.mem[p][1]
      BY <1>4, <2>1
    <3> QED
      BY <2>7, <3>1, <3>2
  <2>8. ASSUME NEW q \in Heads
        PROVE  /\ NextOf(K)[q] = NextOf(H)[q]
               /\ PrevOf(K)[q] = IF q = head THEN p ELSE PrevOf(H)[q]
    <3>1. q \in Granule /\ q \in Granule \ {p, p + 1}
      BY <2>2
    <3>2. /\ H2.mem[q][1] = IF q = head THEN p ELSE H.mem[q][1]
          /\ H2.mem[q][2] = H.mem[q][2]
      BY <1>11, <3>1
    <3> QED
      BY <2>1, <2>7, <3>1, <3>2
  <2>5. \A q \in Elems(P) : /\ NextOf(K)[q] = NextOf(H)[q]
                            /\ PrevOf(K)[q] = IF q = head THEN p ELSE PrevOf(H)[q]
    BY <1>2, <2>8
  <2>6. p \notin Elems(P)
    BY <1>2, <2>3
  <2>10. p \in Granule /\ NULL \notin Granule
    BY <1>1, <1>4
  <2>11. Linked(P, Granule, NULL, head, NextOf(H), PrevOf(H))
    BY <1>2
  <2>9. /\ Linked(<<p>> \o P, Granule, NULL, p, NextOf(K), PrevOf(K))
        /\ Elems(<<p>> \o P) = Elems(P) \cup {p}
    BY <2>4, <2>5, <2>6, <2>10, <2>11, PushLinked
  <2> QED
    BY <1>2, <2>9
<1>16. PageLinks(K, C \cup {c})
  <2>1. {d[1] : d \in C \cup {c}} = Heads \cup {p}
    BY DEF Heads, p
  <2> QED
    BY <1>13, <1>15, <2>1 DEF PageLinks
<1>17. Extents(K, C \cup {c})
  <2>1. K.mem[c[1] + 1] = <<Size(c), c[2]>>
    <3>1. Size(c) = n
      BY DEF Size, NewRegion
    <3> QED
      BY <1>11, <1>13, <3>1 DEF p
  <2>2. ASSUME NEW d \in C PROVE K.mem[d[1] + 1] = <<Size(d), d[2]>>
    <3>1. H.mem[d[1] + 1] = <<Size(d), d[2]>>
      BY DEF Paged, Extents
    <3>2. d[1] + 1 \in Granule \ {p, p + 1} /\ d[1] + 1 # head
      BY <1>14
    <3> QED
      BY <1>11, <1>13, <3>1, <3>2
  <2> QED
    BY <2>1, <2>2 DEF Extents
<1>18. Space(K, C \cup {c})
  <2>1. \A d \in C : PAGE <= d[1] /\ d[2] <= End /\ Cells(d) \subseteq H.mapped
    BY DEF Paged, Space
  <2>2. PAGE <= c[1] /\ c[2] <= End
    BY DEF NewRegion
  <2> QED
    BY <1>13, <2>1, <2>2 DEF Space
<1>19. ChunkSet(C \cup {c})
  <2>1. ChunkSet(C)
    BY DEF Paged
  <2>2. c \in Int \X Int /\ c[1] + 2 < c[2]
    BY <1>4 DEF NewRegion, p
  <2>3. \A d \in C : Apart(c, d) /\ Apart(d, c)
    BY DEF NewRegion, Apart
  <2> QED
    BY <2>1, <2>2, <2>3 DEF ChunkSet
<1>20. \A x \in Granule : (\A d \in C \cup {c} : x # d[1] /\ x # d[1] + 1) => K.mem[x] = H.mem[x]
  <2> SUFFICES ASSUME NEW x \in Granule, \A d \in C \cup {c} : x # d[1] /\ x # d[1] + 1
               PROVE  K.mem[x] = H.mem[x]
    OBVIOUS
  <2>1. x # p /\ x # p + 1
    BY DEF p
  <2>2. x # head
    BY <1>1, <1>6 DEF Heads
  <2>3. H2.mem[x] = H.mem[x]
    BY <1>11, <2>1, <2>2
  <2>4. K.mem = H2.mem
    BY <1>13
  <2> QED
    BY <2>3, <2>4
<1>21. WholePages(C \cup {c})
  BY DEF WholePages, Paged, NewRegion
<1> QED
  BY <1>13, <1>16, <1>17, <1>18, <1>19, <1>20, <1>21 DEF PageAdded, Paged

(* Tags lie in the cells of their block.                                   *)
LEMMA TagsKept ==
  ASSUME NEW H, NEW C, Paged(H, C), NEW B, Placed(C, B), NEW K, Kept(H, K, B), NEW flag, Tags(H, B, flag)
  PROVE  Tags(K, B, flag)
<1>1. ASSUME NEW a \in B PROVE Tag(K, a, flag)
  <2>1. BlockAt(H, a)
    BY BlockCells
  <2>2. a[1] \in Cells(a) /\ a[2] - 1 \in Cells(a)
    BY <2>1 DEF Cells, BlockAt
  <2>3. K.mem[a[1]] = H.mem[a[1]] /\ K.mem[a[2] - 1] = H.mem[a[2] - 1]
    BY <2>2 DEF Kept
  <2>4. Tag(H, a, flag)
    BY DEF Tags
  <2> QED
    BY <2>3, <2>4 DEF Tag
<1> QED
  BY <1>1 DEF Tags

(* mem_map: chunk c with one free block, which is not on the list yet.     *)
Extended(H, K, C, F, U, c) ==
  /\ Heaped(K, C \cup {c}, F) /\ K.mem[Usable(c)[1]][1] = Size(Usable(c))
  /\ Kept(H, K, F \cup U) /\ K.mapped = H.mapped \cup Cells(c)

(* A new chunk is on the page list and holds one block, and no other block *)
(* changed.                                                                *)
LEMMA ExtendHeap ==
  ASSUME NEW H, NEW C, NEW F, NEW U, Rep(H, C, F, U), NEW n \in Nat, n >= 5,
         NEW c, NewRegion(H, C, c, n)
  PROVE  Extended(H, NewChunk(H, c[1], n), C, F, U, c)
<1> DEFINE r == c[1]
           head == H.page_list_head
           H0 == [H EXCEPT !.mapped = @ \cup (r .. r + n - 1)]
           G == Store(H0, r, <<NULL, head>>)
           H1 == Store(G, r + 1, <<n, r + n>>)
           H2 == IF head # NULL THEN Store1(H1, head, r) ELSE H1
           H3 == [H2 EXCEPT !.page_list_head = r]
           J == Store(H3, r + 2, <<n - 2, 0>>)
           K == write_footer(J, r + 2)
           b == Usable(c)
           B == F \cup U
           C2 == C \cup {c}
<1>1. NewChunk(H, r, n) = K
  BY DEF NewChunk
<1>2. c \in Int \X Int /\ c[1] \in Int /\ c[2] \in Int /\ c[2] = r + n /\ c[2] - c[1] = n
      /\ Cells(c) = r .. r + n - 1 /\ Cells(c) \subseteq Granule /\ Cells(c) \cap H.mapped = {}
  <2>1. c \in Int \X Int /\ c[2] - c[1] = n
        /\ Cells(c) \subseteq Granule /\ Cells(c) \cap H.mapped = {}
    BY DEF NewRegion
  <2>2. c[1] \in Int /\ c[2] \in Int
    BY <2>1
  <2>3. c[2] = r + n
    BY <2>1, <2>2
  <2>4. Cells(c) = r .. r + n - 1
    <3>1. r \in Int /\ c[2] \in Int
      BY <2>2
    <3> HIDE DEF r
    <3>2. c[2] - 1 = r + n - 1
      BY <2>3, <3>1
    <3> QED
      BY <3>2 DEF Cells, r
  <2> QED
    BY <2>1, <2>2, <2>3, <2>4
<1>3. PageStores(H, c, n, H0, G, H1, H2, H3)
  BY <1>2 DEF PageStores
<1>4. b = <<r + 2, c[2]>> /\ b[1] = r + 2 /\ b[2] = c[2] /\ Size(b) = n - 2
  BY <1>2 DEF Usable, Size
<1>5. b[1] \in Cells(c) /\ b[2] - 1 \in Cells(c) /\ c[1] \in Cells(c) /\ c[1] + 1 \in Cells(c)
      /\ n - 2 \in Nat
  BY <1>2, <1>4 DEF Cells
<1>6. Paged(H, C) /\ WellTiled(C, F, U) /\ Listed(H, F) /\ H \in HeapType
      /\ Placed(C, B) /\ Separate(B)
  BY DEF Rep, WellTiled, Tiling, Paged, Space
<1> HIDE DEF H0, G, H1, H2, H3, b, B, C2
<1>7. PageAdded(H, H3, C, c)
  BY <1>3, <1>6, AddPage
<1>8. /\ Paged(H3, C2) /\ H3.mapped = H.mapped \cup Cells(c) /\ H3.free_list_head = H.free_list_head
      /\ H3 \in HeapType
      /\ \A x \in Granule : (\A d \in C \cup {c} : x # d[1] /\ x # d[1] + 1) => H3.mem[x] = H.mem[x]
  BY <1>7 DEF PageAdded, C2, Paged, Space
<1>9. ASSUME NEW u \in B, NEW x \in Cells(u)
      PROVE  x \in Granule /\ x \notin Cells(c) /\ H3.mem[x] = H.mem[x]
  <2>1. BlockAt(H, u)
    BY <1>6, BlockCells
  <2>2. x \in Int /\ u[1] <= x /\ x < u[2] /\ x \in Granule /\ x \in H.mapped
    BY <2>1 DEF BlockAt, Cells
  <2>3. x \notin Cells(c)
    BY <1>2, <2>2
  <2>4. \A d \in C : x # d[1] /\ x # d[1] + 1
    BY <1>6, <2>2, BlocksApart
  <2>5. x # c[1] /\ x # c[1] + 1
    BY <1>5, <2>3
  <2> QED
    BY <1>8, <2>2, <2>3, <2>4, <2>5
<1>10. Heaped(H3, C2, F) /\ Placed(C2, F \cup {b}) /\ Separate(F \cup {b})
  <2>1. WellTiled(C2, F \cup {b}, U)
    <3>1. \A d \in C : Apart(c, d)
      BY DEF NewRegion
    <3>2. c[2] - c[1] >= 5
      BY <1>2
    <3>3. WellTiled(C \cup {c}, F \cup {Usable(c)}, U)
      BY <1>2, <1>6, <3>1, <3>2, MapSound
    <3> QED
      BY <3>3 DEF C2, b
  <2>2. Placed(C2, (F \cup {b}) \cup U) /\ Separate((F \cup {b}) \cup U)
    BY <2>1 DEF WellTiled, Tiling
  <2>3. /\ Placed(C2, F \cup {b}) /\ Separate(F \cup {b})
        /\ Placed(C2, F) /\ Separate(F)
    <3>1. F \cup {b} \subseteq (F \cup {b}) \cup U /\ F \subseteq (F \cup {b}) \cup U
      OBVIOUS
    <3> QED
      BY <2>2, <3>1, PlacedPart
  <2>4. \A x \in LinkCells(F) : H3.mem[x] = H.mem[x]
    <3>1. ASSUME NEW f \in F PROVE H3.mem[f[1] + 1] = H.mem[f[1] + 1]
      <4>1. f \in B
        BY DEF B
      <4>2. BlockAt(H, f)
        BY <1>6, <4>1, BlockCells
      <4>3. f[1] + 1 \in Cells(f)
        BY <4>2 DEF BlockAt, Cells
      <4> QED
        BY <1>9, <4>1, <4>3
    <3> QED
      BY <3>1 DEF LinkCells
  <2>5. Listed(H3, F)
    BY <1>6, <1>8, <2>4, ListedSame
  <2> QED
    BY <1>8, <2>3, <2>5 DEF Heaped
<1>11. Stored(H3, J, b[1], <<Size(b), 0>>)
  <2>1. b[1] \in H3.mapped
    BY <1>5, <1>8
  <2>2. <<n - 2, 0>> \in Nat \X Nat
    BY <1>5
  <2>3. Stored(H3, Store(H3, b[1], <<n - 2, 0>>), b[1], <<n - 2, 0>>)
    BY <1>8, <2>1, <2>2, LoadStore
  <2> QED
    BY <1>4, <2>3
<1>12. K = write_footer(J, b[1])
  BY <1>4
<1> HIDE DEF J, K, r
<1>13. Retagged(H3, K, C2, F, b, 0)
  BY <1>10, <1>11, <1>12, StoreTags
<1>14. Heaped(K, C2, F) /\ Tag(K, b, 0) /\ Moved(H3, K, {b[1], b[2] - 1})
  BY <1>13 DEF Retagged
<1>15. Kept(H, K, B)
  <2> SUFFICES ASSUME NEW u \in B, NEW x \in Cells(u) PROVE K.mem[x] = H.mem[x]
    BY DEF Kept
  <2>1. x \in Granule /\ x \notin {b[1], b[2] - 1} /\ H3.mem[x] = H.mem[x]
    BY <1>5, <1>9
  <2> QED
    BY <1>14, <2>1 DEF Moved
<1>16. K.mem[b[1]][1] = Size(b)
  <2>1. K.mem[b[1]] = <<Size(b), 0>>
    BY <1>14 DEF Tag
  <2> QED
    BY <2>1
<1>17. K.mapped = H.mapped \cup Cells(c)
  BY <1>8, <1>14 DEF Moved
<1> QED
  BY <1>1, <1>14, <1>15, <1>16, <1>17 DEF Extended, b, B, C2, r

(* A new chunk serves a request.                                           *)
Grown(H, K, C, F, U, c, n) ==
  /\ Rep(K, C \cup {c}, F \cup Rest(Usable(c), n), U \cup {Taken(Usable(c), n)})
  /\ NoFull(C \cup {c}, F \cup Rest(Usable(c), n)) /\ Kept(H, K, U)
  /\ K.mapped = H.mapped \cup Cells(c)

(* mm_malloc when no free block fits: a new chunk, split.                  *)
LEMMA ServeNew ==
  ASSUME NEW H, NEW C, NEW F, NEW U, Rep(H, C, F, U), NoFull(C, F),
         NEW m \in Nat, m >= 5, NEW c, NewRegion(H, C, c, m),
         NEW asize, NEW n \in Nat, n = Tagged(asize), n >= 3, m >= n + 2,
         NEW K, K = split_block(NewChunk(H, c[1], m), c[1] + 2, asize)
  PROVE  Grown(H, K, C, F, U, c, n)
<1> DEFINE J == NewChunk(H, c[1], m)
           b == Usable(c)
           C2 == C \cup {c}
<1>1. Extended(H, J, C, F, U, c)
  BY ExtendHeap
<1>2. c \in Int \X Int /\ c[1] \in Int /\ c[2] \in Int /\ c[2] - c[1] = m
      /\ \A d \in C : Apart(c, d)
  BY DEF NewRegion
<1>3. b[1] = c[1] + 2 /\ Size(b) = c[2] - (c[1] + 2) /\ Size(b) >= n
  BY <1>2 DEF Usable, Size
<1>4. WellTiled(C2, F \cup {b}, U) /\ b \notin F \cup U
  <2>1. WellTiled(C, F, U) /\ c[2] - c[1] >= 5
    BY <1>2 DEF Rep
  <2>2. WellTiled(C \cup {c}, F \cup {Usable(c)}, U) /\ Usable(c) \notin F \cup U
    BY <1>2, <2>1, MapSound
  <2> QED
    BY <2>2
<1>5. K = split_block(J, b[1], asize)
  BY <1>3
<1> HIDE DEF J, b, C2
<1>6. /\ Heaped(J, C2, F) /\ J.mem[b[1]][1] = Size(b) /\ Kept(H, J, F \cup U)
      /\ J.mapped = H.mapped \cup Cells(c)
  BY <1>1 DEF Extended, b, C2
<1>7. NoFull(C2, F)
  <2>1. Usable(c) \notin F
    BY <1>4 DEF b
  <2> QED
    BY <2>1 DEF NoFull, C2
<1>8. Kept(H, J, F) /\ Kept(H, J, U)
  BY <1>6 DEF Kept
<1>9. Paged(H, C) /\ Placed(C, F) /\ Placed(C, U) /\ Tags(H, F, 0) /\ Tags(H, U, 1)
  <2>1. Paged(H, C) /\ Placed(C, F \cup U) /\ Separate(F \cup U) /\ Tags(H, F, 0) /\ Tags(H, U, 1)
    BY DEF Rep, WellTiled, Tiling
  <2> QED
    BY <2>1, PlacedPart
<1>10. Tags(J, F, 0) /\ Tags(J, U, 1)
  BY <1>8, <1>9, TagsKept
<1>11. b \notin F
  BY <1>4
<1>12. Served(J, split_block(J, b[1], asize), C2, F, U, b, n)
  BY <1>3, <1>4, <1>6, <1>7, <1>10, <1>11, ServeBlock
<1>13. Served(J, K, C2, F, U, b, n)
  BY <1>5, <1>12
<1>14. Kept(H, K, U)
  BY <1>8, <1>13 DEF Served, Kept
<1> QED
  BY <1>6, <1>13, <1>14 DEF Served, Grown, b, C2

-----------------------------------------------------------------------------
(* The calls. *)

(* What mm_malloc may return for n granules: a block cut from the free     *)
(* block b, or, when no free block is large enough, from a new chunk c of  *)
(* m granules.                                                             *)
FromFree(H, r, C, F, U, n) ==
  \E b \in F : /\ Size(b) >= n /\ r.p = Taken(b, n)[1] + 1
               /\ Served(H, r.heap, C, F \ {b}, U, b, n)

FromNew(H, r, C, F, U, n, m) ==
  /\ \A b \in F : ~ (Size(b) >= n)
  /\ \E k \in 1 .. MaxPage : \E c \in {<<PageStart(k), PageStart(k) + m>>} :
       /\ NewRegion(H, C, c, m) /\ r.p = Taken(Usable(c), n)[1] + 1
       /\ Grown(H, r.heap, C, F, U, c, n)

(* The front of a block starts where the block starts.                     *)
LEMMA TakenStart ==
  ASSUME NEW b, NEW n
  PROVE  Taken(b, n)[1] = b[1]
BY DEF Taken

(* It does nothing else.                                                   *)
LEMMA MallocCall ==
  ASSUME NEW H, NEW C, NEW F, NEW U, Rep(H, C, F, U), NoFull(C, F),
         NEW sz \in Sizes, sz # 0, NEW r \in Malloc(H, sz)
  PROVE  \/ FromFree(H, r, C, F, U, TotalSize(sz))
         \/ FromNew(H, r, C, F, U, TotalSize(sz), MapSize(sz))
<1> DEFINE asize == ALIGN(sz)
           n == TotalSize(sz)
           m == MapSize(sz)
           bp == find_fit(H, asize)
<1>1. n \in Nat /\ n >= 3 /\ n = Tagged(asize) /\ m \in Nat /\ m >= n + 2 /\ m >= 5
      /\ m % PAGE = 0
  BY SizesSuffice
<1>2. Heaped(H, C, F) /\ Tags(H, F, 0) /\ Paged(H, C)
  <2>1. Paged(H, C) /\ Listed(H, F) /\ Tags(H, F, 0) /\ Placed(C, F \cup U) /\ Separate(F \cup U)
    BY DEF Rep, WellTiled, Tiling
  <2> QED
    BY <2>1, PlacedPart DEF Heaped
<1>3. r \in IF bp # NULL
            THEN {[p |-> bp, heap |-> split_block(remove_free_block(H, bp), bp - 1, asize)]}
            ELSE {[p    |-> region + 3,
                   heap |-> split_block(NewChunk(H, region, m), region + 2, asize)] :
                    region \in Regions(H, m)}
  <2>1. 2 + 1 = 3
    OBVIOUS
  <2>2. Reads(H, ReadToFit(H, ALIGN(sz))) = H
    BY <1>2, FitRead
  <2> QED
    BY <2>1, <2>2 DEF Malloc
<1> HIDE DEF bp, n, m, asize
<1>4. \/ \E b \in F : Size(b) >= n /\ bp = b[1] + 1 /\ b[1] + 1 # NULL
      \/ (\A b \in F : ~ (Size(b) >= n)) /\ bp = NULL
  BY <1>1, <1>2, FindFit DEF bp
<1>5. ASSUME NEW b \in F, Size(b) >= n, bp = b[1] + 1, b[1] + 1 # NULL
      PROVE  FromFree(H, r, C, F, U, n)
  <2>1. BlockAt(H, b)
    BY <1>2, BlockCells DEF Heaped
  <2>2. bp - 1 = b[1]
    BY <1>5, <2>1 DEF BlockAt
  <2>3. r = [p |-> bp, heap |-> split_block(remove_free_block(H, bp), bp - 1, asize)]
    BY <1>3, <1>5
  <2>4. r.heap = split_block(remove_free_block(H, b[1] + 1), b[1], asize) /\ r.p = b[1] + 1
    BY <1>5, <2>2, <2>3
  <2>5. Served(H, r.heap, C, F \ {b}, U, b, n)
    BY <1>1, <1>5, <2>4, ServeFree
  <2>6. r.p = Taken(b, n)[1] + 1
    BY <2>4, TakenStart
  <2> QED
    BY <1>5, <2>5, <2>6 DEF FromFree
<1>6. ASSUME \A b \in F : ~ (Size(b) >= n), bp = NULL
      PROVE  FromNew(H, r, C, F, U, n, m)
  <2>1. PICK region \in Regions(H, m) :
          r = [p |-> region + 3, heap |-> split_block(NewChunk(H, region, m), region + 2, asize)]
    BY <1>3, <1>6
  <2> DEFINE c == <<region, region + m>>
  <2>2. c = <<region, region + m>>
    OBVIOUS
  <2> HIDE DEF c
  <2>3. NewRegion(H, C, c, m) /\ c[1] = region /\ \E k \in 1 .. MaxPage : region = PageStart(k)
    BY <1>1, <1>2, <2>2, RegionFree
  <2>4. PICK k \in 1 .. MaxPage : region = PageStart(k)
    BY <2>3
  <2>5. r.heap = split_block(NewChunk(H, c[1], m), c[1] + 2, asize) /\ r.p = c[1] + 3
    BY <2>1, <2>3
  <2>6. Grown(H, r.heap, C, F, U, c, n)
    BY <1>1, <2>3, <2>5, ServeNew
  <2>7. r.p = Taken(Usable(c), n)[1] + 1
    <3>1. Usable(c)[1] = c[1] + 2
      BY DEF Usable
    <3>2. c[1] \in Int
      BY <2>3 DEF NewRegion
    <3>3. (c[1] + 2) + 1 = c[1] + 3
      BY <3>2
    <3> QED
      BY <2>5, <3>1, <3>3, TakenStart
  <2>8. c \in {<<PageStart(k), PageStart(k) + m>>}
    BY <2>2, <2>4
  <2> QED
    BY <1>6, <2>3, <2>6, <2>7, <2>8 DEF FromNew
<1>7. CASE \E b \in F : Size(b) >= n /\ bp = b[1] + 1 /\ b[1] + 1 # NULL
  BY <1>5, <1>7 DEF n
<1>8. CASE (\A b \in F : ~ (Size(b) >= n)) /\ bp = NULL
  BY <1>6, <1>8 DEF n, m
<1> QED
  BY <1>4, <1>7, <1>8

(* mm_free of block b.                                                     *)
Reclaimed(H, K, C, F, U, b, F2, D) ==
  /\ Rep(K, C \ D, F2 \ Blocks(D), U \ {b}) /\ NoFull(C \ D, F2 \ Blocks(D))
  /\ Kept(H, K, U \ {b}) /\ K.mapped = H.mapped \ Granules(D)

(* mm_free merges the block with its neighbours and gives back the chunks  *)
(* that are full then.                                                     *)
LEMMA FreeCall ==
  ASSUME NEW H, NEW C, NEW F, NEW U, Rep(H, C, F, U), NEW b \in U
  PROVE  Reclaimed(H, Free(H, b[1] + 1), C, F, U, b,
                   WithMerged(F, b), Full(C, WithMerged(F, b)))
<1> DEFINE J == SET_FREE(H, b[1])
           W == write_footer(J, b[1])
           B == F \cup U
           A == B \ {b}
           F2 == WithMerged(F, b)
           D == Full(C, F2)
           K == Free(H, b[1] + 1)
<1>1. /\ Paged(H, C) /\ WellTiled(C, F, U) /\ Listed(H, F) /\ H \in HeapType
      /\ Tags(H, F, 0) /\ Tags(H, U, 1) /\ Placed(C, B) /\ Separate(B) /\ F \cap U = {}
  BY DEF Rep, WellTiled, Tiling, Paged, Space
<1>2. /\ Heaped(H, C, F) /\ Placed(C, F \cup {b}) /\ Separate(F \cup {b})
      /\ Placed(C, A) /\ Placed(C, F) /\ Placed(C, U \ {b})
  <2>1. F \subseteq B /\ F \cup {b} \subseteq B /\ A \subseteq B /\ U \ {b} \subseteq B
    OBVIOUS
  <2> HIDE DEF A, B
  <2> QED
    BY <1>1, <2>1, PlacedPart DEF Heaped
<1>3. BlockAt(H, b) /\ b \notin F
  BY <1>1, BlockCells
<1>4. (b[1] + 1) - 1 = b[1] /\ b[1] + 1 # NULL /\ b[1] \in H.mapped
      /\ b[1] \in Cells(b) /\ b[2] - 1 \in Cells(b)
  BY <1>3 DEF BlockAt, Cells
<1>5. K = coalesce(W, b[1] + 1)
  BY <1>4 DEF Free
<1> HIDE DEF K, W, F2, D, A
<1>6. Stored(H, J, b[1], <<Size(b), 0>>)
  <2>1. Stored(H, J, b[1], <<H.mem[b[1]][1], 0>>)
    BY <1>1, <1>4, SetTag
  <2>2. H.mem[b[1]] = <<Size(b), 1>>
    BY <1>1 DEF Tags, Tag
  <2> QED
    BY <2>1, <2>2
<1>7. Retagged(H, W, C, F, b, 0)
  <2>1. W = write_footer(J, b[1])
    BY DEF W
  <2> HIDE DEF J
  <2> QED
    BY <1>2, <1>6, <2>1, StoreTags
<1>8. /\ Heaped(W, C, F) /\ Tag(W, b, 0) /\ Moved(H, W, {b[1], b[2] - 1})
  BY <1>7 DEF Retagged
<1>9. Kept(H, W, A)
  <2> SUFFICES ASSUME NEW u \in A, NEW x \in Cells(u) PROVE W.mem[x] = H.mem[x]
    BY DEF Kept
  <2>1. u \in B /\ b \in B /\ u # b
    BY DEF A
  <2>2. BlockAt(H, u)
    BY <1>1, <2>1, BlockCells
  <2>3. x \in Int /\ u[1] <= x /\ x < u[2] /\ x \in Granule
    BY <2>2 DEF BlockAt, Cells
  <2>4. ~ (b[1] <= x /\ x < b[2])
    BY <1>1, <2>1, <2>3, BlocksApart
  <2>5. x # b[1] /\ x # b[2] - 1
    BY <1>3, <2>3, <2>4 DEF BlockAt
  <2> QED
    BY <1>8, <2>3, <2>5 DEF Moved
<1>10. Kept(H, W, F) /\ Kept(H, W, U \ {b})
  BY <1>3, <1>9 DEF Kept, A
<1>11. Tags(H, U \ {b}, 1)
  BY <1>1 DEF Tags
<1>12. Tags(W, F, 0) /\ Tags(W, U \ {b}, 1)
  <2>1. Tags(W, F, 0)
    BY <1>1, <1>2, <1>10, TagsKept
  <2>2. Tags(W, U \ {b}, 1)
    <3> DEFINE V == U \ {b}
    <3>1. Placed(C, V) /\ Kept(H, W, V) /\ Tags(H, V, 1)
      BY <1>2, <1>10, <1>11
    <3> HIDE DEF V
    <3>2. Tags(W, V, 1)
      BY <1>1, <3>1, TagsKept
    <3> QED
      BY <3>2 DEF V
  <2> QED
    BY <2>1, <2>2
<1>13. Freed(W, C, F, U, b)
  BY <1>1, <1>8, <1>12 DEF Freed, Heaped
<1>14. PICK M : Coalesced(W, M, C, F, U, b)
  BY <1>13, CoalesceBlocks
<1>15. /\ K = check_and_unmap_full_pages(M) /\ Rep(M, C, F2, U \ {b})
       /\ Kept(W, M, U \ {b}) /\ M.mapped = W.mapped
  BY <1>5, <1>14 DEF Coalesced, F2
<1>16. Swept(M, K, C, F2, U \ {b}, D)
  <2> DEFINE V == U \ {b}
  <2>1. Rep(M, C, F2, V)
    BY <1>15
  <2> HIDE DEF V
  <2>2. Swept(M, check_and_unmap_full_pages(M), C, F2, V, Full(C, F2))
    BY <2>1, Sweep
  <2> QED
    BY <1>15, <2>2 DEF V, D
<1>17. /\ Rep(K, C \ D, F2 \ Blocks(D), U \ {b}) /\ Kept(M, K, U \ {b})
       /\ K.mapped = M.mapped \ Granules(D)
  BY <1>16 DEF Swept
<1>18. Kept(H, K, U \ {b})
  BY <1>10, <1>15, <1>17 DEF Kept
<1>19. W.mapped = H.mapped
  BY <1>8 DEF Moved
<1>20. NoFull(C \ D, F2 \ Blocks(D))
  BY DEF NoFull, D, Full
<1> QED
  BY <1>15, <1>17, <1>18, <1>19, <1>20 DEF Reclaimed, K, D, F2

(* A client writes to its block.                                           *)
Filled(H, K, G) ==
  /\ K \in HeapType
  /\ K.mapped = H.mapped /\ K.crashed = H.crashed
  /\ K.free_list_head = H.free_list_head /\ K.page_list_head = H.page_list_head
  /\ \A x \in Granule \ G : K.mem[x] = H.mem[x]

(* A client that fills granules of its block touches no others.            *)
LEMMA FillCells ==
  ASSUME NEW H \in HeapType, NEW G, NEW w \in Nat \X Nat
  PROVE  Filled(H, Fill(H, G, w), G)
<1> DEFINE mem == [a \in Granule |-> IF a \in G THEN w ELSE H.mem[a]]
           K == Fill(H, G, w)
<1>1. K = [H EXCEPT !.mem = mem]
  BY DEF Fill
<1>2. mem \in [Granule -> Nat \X Nat] /\ \A x \in Granule \ G : mem[x] = H.mem[x]
  BY HeapFields
<1> HIDE DEF mem, K
<1>3. /\ K \in HeapType /\ K.mem = mem /\ K.mapped = H.mapped /\ K.crashed = H.crashed
      /\ K.free_list_head = H.free_list_head /\ K.page_list_head = H.page_list_head
  BY <1>1, <1>2 DEF HeapType, Word
<1> QED
  BY <1>2, <1>3 DEF Filled, K

(* A write between the tags of a used block leaves chunks, blocks and      *)
(* lists as they were.                                                     *)
LEMMA WriteCall ==
  ASSUME NEW H, NEW C, NEW F, NEW U, Rep(H, C, F, U), NEW b \in U,
         NEW a \in Nat, a + 2 <= Size(b), NEW G, G = b[1] + 1 .. b[1] + 1 + a - 1,
         NEW w \in Nat \X Nat, NEW K, K = Fill(H, G, w)
  PROVE  Rep(K, C, F, U) /\ Filled(H, K, G)
<1> DEFINE B == F \cup U
<1>1. /\ Paged(H, C) /\ WellTiled(C, F, U) /\ Listed(H, F) /\ H \in HeapType
      /\ Tags(H, F, 0) /\ Tags(H, U, 1) /\ Placed(C, B) /\ Separate(B) /\ F \cap U = {}
  BY DEF Rep, WellTiled, Tiling, Paged, Space
<1>2. Heaped(H, C, F) /\ Placed(C, F \cup {b}) /\ Separate(F \cup {b})
  <2>1. F \subseteq B /\ F \cup {b} \subseteq B
    OBVIOUS
  <2> HIDE DEF B
  <2> QED
    BY <1>1, <2>1, PlacedPart DEF Heaped
<1>3. BlockAt(H, b) /\ b \notin F
  BY <1>1, BlockCells
<1>4. G \subseteq Cells(b) /\ b[1] \notin G /\ b[2] - 1 \notin G
  <2>1. b[1] \in Int /\ b[2] \in Int /\ a + 2 <= b[2] - b[1]
    BY <1>3 DEF BlockAt, Size
  <2>2. \A x \in G : x \in Int /\ b[1] < x /\ x < b[2] - 1
    BY <2>1
  <2> QED
    BY <2>1, <2>2, SMTT(60) DEF Cells
<1>5. Filled(H, K, G)
  BY <1>1, FillCells
<1>6. Moved(H, K, G) /\ K.free_list_head = H.free_list_head
  BY <1>5 DEF Filled, Moved
<1>7. Heaped(K, C, F)
  BY <1>2, <1>3, <1>4, <1>6, HeapedKept
<1>8. ASSUME NEW u \in B, NEW flag, Tag(H, u, flag) PROVE Tag(K, u, flag)
  <2>1. BlockAt(H, u)
    BY <1>1, BlockCells
  <2>2. ASSUME NEW x \in {u[1], u[2] - 1} PROVE x \in Granule \ G
    <3>1. x \in Int /\ u[1] <= x /\ x < u[2] /\ x \in Granule
      BY <2>1, <2>2 DEF BlockAt
    <3>2. CASE u = b
      BY <1>4, <2>2, <3>1, <3>2
    <3>3. CASE u # b
      <4>1. ~ (b[1] <= x /\ x < b[2])
        BY <1>1, <3>1, <3>3, BlocksApart
      <4>2. x \notin Cells(b)
        BY <1>3, <4>1 DEF Cells, BlockAt
      <4> QED
        BY <1>4, <3>1, <4>2
    <3> QED
      BY <3>2, <3>3
  <2>3. K.mem[u[1]] = H.mem[u[1]] /\ K.mem[u[2] - 1] = H.mem[u[2] - 1]
    BY <1>6, <2>2 DEF Moved
  <2> QED
    BY <1>8, <2>3 DEF Tag
<1>9. Tags(K, F, 0) /\ Tags(K, U, 1)
  <2>1. (\A f \in F : f \in B) /\ (\A u \in U : u \in B)
    OBVIOUS
  <2> QED
    BY <1>1, <1>8, <2>1 DEF Tags
<1>10. Rep(K, C, F, U)
  BY <1>1, <1>7, <1>9 DEF Rep, Heaped
<1> QED
  BY <1>5, <1>10

(* mm_init starts with two empty lists.                                    *)
LEMMA InitCall ==
  ASSUME NEW H \in HeapType, H.crashed = FALSE
  PROVE  /\ Rep(InitHeap(H), {}, {}, {}) /\ NoFull({}, {})
         /\ InitHeap(H).mapped = H.mapped
<1> DEFINE K == InitHeap(H)
<1>1. K = [H EXCEPT !.free_list_head = NULL, !.page_list_head = NULL]
  BY DEF InitHeap
<1> HIDE DEF K
<1>2. /\ K \in HeapType /\ K.crashed = FALSE /\ K.mapped = H.mapped
      /\ K.free_list_head = NULL /\ K.page_list_head = NULL
  BY <1>1 DEF HeapType, Address
<1>3. \A next, prev : Linked(<<>>, Granule, NULL, NULL, next, prev) /\ Elems(<<>>) = {}
  BY DEF Linked, At, Elems
<1>4. PageLinks(K, {}) /\ Listed(K, {})
  <2>1. {c[1] : c \in {}} = {} /\ LinkCells({}) = {}
    BY DEF LinkCells
  <2> QED
    BY <1>2, <1>3, <2>1 DEF PageLinks, Listed
<1>5. Paged(K, {})
  BY <1>2, <1>4 DEF Paged, Space, Extents, ChunkSet, WholePages
<1>6. WellTiled({}, {}, {})
  BY DEF WellTiled, Tiling, ChunkSet, Placed, Separate, Cover
<1> QED
  BY <1>2, <1>4, <1>5, <1>6 DEF Rep, Tags, NoFull, K

(* mem_reset leaves no page mapped.                                        *)
LEMMA ResetCall ==
  ASSUME NEW H \in HeapType
  PROVE  /\ ResetHeap(H) \in HeapType /\ ResetHeap(H).mapped = {}
         /\ ResetHeap(H).crashed = H.crashed
<1>1. Unmapped(H, ResetHeap(H), Granule)
  BY UnmapGone DEF ResetHeap
<1>2. H.mapped \subseteq Granule
  BY HeapFields
<1> QED
  BY <1>1, <1>2 DEF Unmapped

-----------------------------------------------------------------------------
(* What the words say: stepping from header to header. *)

(* walk takes one header per step, until the end of the chunk at pc.       *)
Stepping(walk, H, pc) ==
  /\ Headers(H, pc) = walk[End][pc + 2]
  /\ \A n \in Nat : walk[n][NULL] = <<>>
  /\ \A n \in Nat, a \in Nat : a # NULL /\ n # 0 =>
       walk[n][a] = <<a>> \o walk[n - 1][IF a + Load(H, a)[1] < page_end(H, pc)
                                         THEN a + Load(H, a)[1] ELSE NULL]

(* Headers is the result of such a walk.                                   *)
LEMMA HeaderSteps ==
  ASSUME NEW H \in HeapType, NEW pc
  PROVE  \E walk : Stepping(walk, H, pc)
<1> DEFINE step(a) == IF a + Load(H, a)[1] < page_end(H, pc) THEN a + Load(H, a)[1] ELSE NULL
           next == [a \in Nat |-> step(a)]
           N == PAGE * (MaxPage + 1)
           walk == CHOOSE w : w = [n \in Nat |-> [a \in Nat |->
                       IF a = NULL \/ n = 0 THEN <<>> ELSE <<a>> \o w[n - 1][step(a)]]]
<1>1. next \in [Nat -> Nat]
  <2>1. ASSUME NEW a \in Nat PROVE step(a) \in Nat
    <3>1. Load(H, a)[1] \in Nat
      BY HeapFields DEF Load, Zero
    <3>2. NULL \in Nat
      BY AddressSpace
    <3> QED
      BY <3>1, <3>2
  <2> QED
    BY <2>1
<1>2. PICK w : Walks(w, Nat, NULL, next)
  <2> HIDE DEF next
  <2> QED
    BY <1>1, WalkExists
<1>3. w = [n \in Nat |-> [a \in Nat |->
             IF a = NULL \/ n = 0 THEN <<>> ELSE <<a>> \o w[n - 1][step(a)]]]
  <2>1. ASSUME NEW n \in Nat, NEW a \in Nat
        PROVE  (IF a = NULL \/ n = 0 THEN <<>> ELSE <<a>> \o w[n - 1][next[a]])
             = (IF a = NULL \/ n = 0 THEN <<>> ELSE <<a>> \o w[n - 1][step(a)])
    OBVIOUS
  <2> HIDE DEF next, walk, step
  <2> QED
    BY <1>2, <2>1, ZenonT(60) DEF Walks
<1>4. Headers(H, pc) = walk[N][pc + 2]
  BY DEF Headers, Chain, BLOCK_SIZE, Longest
<1> HIDE DEF step, next
<1>5. walk = [n \in Nat |-> [a \in Nat |->
                IF a = NULL \/ n = 0 THEN <<>> ELSE <<a>> \o walk[n - 1][step(a)]]]
  BY <1>3
<1> HIDE DEF walk
<1>6. \A n \in Nat : walk[n][NULL] = <<>>
  BY <1>5, AddressSpace
<1>7. ASSUME NEW n \in Nat, NEW a \in Nat, a # NULL, n # 0
      PROVE  walk[n][a] = <<a>> \o walk[n - 1][step(a)]
  <2>1. walk[n] = [x \in Nat |->
                     IF x = NULL \/ n = 0 THEN <<>> ELSE <<x>> \o walk[n - 1][step(x)]]
    BY <1>5
  <2> QED
    BY <1>7, <2>1
<1>8. N = End
  BY AddressSpace
<1> HIDE DEF N
<1> QED
  BY <1>4, <1>6, <1>7, <1>8 DEF Stepping, step

(* L lists the blocks of chunk c from block b to the end of the chunk.     *)
Walked(L, B, c, b) ==
  /\ L \in Seq(Int) /\ Len(L) \in Nat /\ Len(L) >= 1
  /\ \A i \in 1 .. Len(L) : \E a \in B : Behind(a, c) /\ b[1] <= a[1] /\ L[i] = a[1]
  /\ \A a \in B : Behind(a, c) /\ b[1] <= a[1] => \E i \in 1 .. Len(L) : L[i] = a[1]
  /\ \E a \in B : Behind(a, c) /\ a[2] = c[2] /\ L[Len(L)] = a[1]

(* The last block of a chunk.                                              *)
LEMMA WalkedLast ==
  ASSUME NEW B, NEW c, NEW b \in B, Behind(b, c), b[2] = c[2], b[1] \in Int, b[2] \in Int, Separate(B),
         \A a \in B : a[1] \in Int /\ a[2] \in Int /\ a[1] < a[2]
  PROVE  Walked(<<b[1]>>, B, c, b)
<1> DEFINE L == <<b[1]>>
<1>1. L \in Seq(Int) /\ Len(L) = 1 /\ L[1] = b[1]
  OBVIOUS
<1> HIDE DEF L
<1>2. ASSUME NEW a \in B, Behind(a, c), b[1] <= a[1] PROVE a = b
  <2>1. a = b \/ a[2] <= b[1] \/ b[2] <= a[1]
    BY DEF Separate, Apart
  <2>2. a[2] <= b[2] /\ a[1] < a[2] /\ a[1] \in Int /\ a[2] \in Int
    BY <1>2 DEF Behind
  <2> QED
    BY <1>2, <2>1, <2>2
<1>3. Walked(L, B, c, b)
  BY <1>1, <1>2 DEF Walked
<1> QED
  BY <1>3 DEF L

(* One block more, in front.                                               *)
LEMMA WalkedMore ==
  ASSUME NEW B, NEW c, NEW b \in B, Behind(b, c), NEW a \in B, a[1] = b[2], Separate(B),
         \A x \in B : x[1] \in Int /\ x[2] \in Int /\ x[1] < x[2],
         NEW L, Walked(L, B, c, a)
  PROVE  Walked(<<b[1]>> \o L, B, c, b)
<1> DEFINE K == <<b[1]>> \o L
<1>1. L \in Seq(Int) /\ Len(L) \in Nat /\ Len(L) >= 1 /\ b[1] \in Int /\ b[2] \in Int /\ b[1] < b[2]
  BY DEF Walked
<1>2. K \in Seq(Int) /\ Len(K) = Len(L) + 1 /\ K[1] = b[1] /\ \A i \in 1 .. Len(L) : K[i + 1] = L[i]
  BY <1>1, ConsProperties
<1> HIDE DEF K
<1>3. ASSUME NEW i \in 1 .. Len(K)
      PROVE  \E x \in B : Behind(x, c) /\ b[1] <= x[1] /\ K[i] = x[1]
  <2>1. CASE i = 1
    BY <1>1, <1>2, <2>1
  <2>2. CASE i # 1
    <3>1. i - 1 \in 1 .. Len(L) /\ (i - 1) + 1 = i
      BY <1>1, <1>2, <2>2
    <3>2. PICK x \in B : Behind(x, c) /\ a[1] <= x[1] /\ L[i - 1] = x[1]
      BY <3>1 DEF Walked
    <3>3. b[1] <= x[1]
      BY <1>1, <3>2
    <3>4. K[i] = x[1]
      BY <1>2, <3>1, <3>2
    <3> QED
      BY <3>2, <3>3, <3>4
  <2> QED
    BY <2>1, <2>2
<1>4. ASSUME NEW x \in B, Behind(x, c), b[1] <= x[1]
      PROVE  \E i \in 1 .. Len(K) : K[i] = x[1]
  <2>1. x = b \/ x[2] <= b[1] \/ b[2] <= x[1]
    BY DEF Separate, Apart
  <2>2. x = b \/ a[1] <= x[1]
    <3>1. x[1] \in Int /\ x[2] \in Int /\ x[1] < x[2]
      OBVIOUS
    <3> QED
      BY <1>1, <1>4, <2>1, <3>1
  <2>3. CASE x = b
    BY <1>1, <1>2, <2>3
  <2>4. CASE a[1] <= x[1]
    <3>1. PICK i \in 1 .. Len(L) : L[i] = x[1]
      BY <1>4, <2>4 DEF Walked
    <3>2. i + 1 \in 1 .. Len(K) /\ K[i + 1] = x[1]
      BY <1>1, <1>2, <3>1
    <3> QED
      BY <3>2
  <2> QED
    BY <2>2, <2>3, <2>4
<1>5. \E x \in B : Behind(x, c) /\ x[2] = c[2] /\ K[Len(K)] = x[1]
  <2>1. PICK x \in B : Behind(x, c) /\ x[2] = c[2] /\ L[Len(L)] = x[1]
    BY DEF Walked
  <2>2. Len(L) \in 1 .. Len(L)
    BY <1>1
  <2>3. K[Len(K)] = L[Len(L)]
    BY <1>2, <2>2
  <2> QED
    BY <2>1, <2>3
<1>6. Len(K) \in Nat /\ Len(K) >= 1
  BY <1>1, <1>2
<1>7. Walked(K, B, c, b)
  BY <1>2, <1>3, <1>4, <1>5, <1>6 DEF Walked
<1> QED
  BY <1>7 DEF K

(* The heap's words describe the blocks B of the chunks C.                 *)
Described(H, C, B) ==
  Paged(H, C) /\ Tiling(C, B) /\ \A b \in B : H.mem[b[1]][1] = Size(b)

(* Where a walk goes after block b of chunk c.                             *)
StepsOn(walk, n, b, c) ==
  /\ b[2] = c[2] => walk[n][b[1]] = <<b[1]>>
  /\ b[2] # c[2] => walk[n][b[1]] = <<b[1]>> \o walk[n - 1][b[2]]

(* To the block that follows, until the chunk ends.                        *)
LEMMA StepFrom ==
  ASSUME NEW H, NEW C, NEW B, Described(H, C, B), NEW c \in C, NEW b \in B, Behind(b, c),
         NEW walk, Stepping(walk, H, c[1]), NEW n \in Nat, n # 0
  PROVE  StepsOn(walk, n, b, c)
<1>1. Paged(H, C) /\ Placed(C, B)
  BY DEF Described, Tiling
<1>2. BlockAt(H, b) /\ Header(H, c) /\ H \in HeapType
  BY <1>1, BlockCells, HeaderRead DEF Paged, Space
<1>3. b[1] \in Int /\ b[2] \in Int /\ b[1] \in Nat /\ b[1] # NULL /\ b[2] <= c[2] /\ c[2] \in Int
      /\ Size(b) = b[2] - b[1] /\ b[1] \in H.mapped /\ page_end(H, c[1]) = c[2]
  <2>1. b[1] \in Nat
    BY <1>2, AddressSpace DEF BlockAt
  <2> QED
    BY <1>2, <2>1 DEF BlockAt, Header, Behind, Size
<1>4. Load(H, b[1])[1] = b[2] - b[1]
  <2>1. Load(H, b[1]) = H.mem[b[1]]
    BY <1>2, <1>3, LoadStore
  <2>2. H.mem[b[1]][1] = Size(b)
    BY DEF Described
  <2> QED
    BY <1>3, <2>1, <2>2
<1>5. b[1] + Load(H, b[1])[1] = b[2]
  BY <1>3, <1>4
<1>6. walk[n][b[1]] = <<b[1]>> \o walk[n - 1][IF b[2] < c[2] THEN b[2] ELSE NULL]
  <2>1. walk[n][b[1]] = <<b[1]>> \o walk[n - 1][IF b[1] + Load(H, b[1])[1] < page_end(H, c[1])
                                                THEN b[1] + Load(H, b[1])[1] ELSE NULL]
    BY <1>3 DEF Stepping
  <2> QED
    BY <1>3, <1>5, <2>1
<1>7. CASE b[2] = c[2]
  <2>1. ~ (b[2] < c[2])
    BY <1>3, <1>7
  <2>2. n - 1 \in Nat
    OBVIOUS
  <2>3. walk[n - 1][NULL] = <<>>
    BY <2>2 DEF Stepping
  <2>4. <<b[1]>> \o <<>> = <<b[1]>>
    OBVIOUS
  <2> QED
    BY <1>6, <1>7, <2>1, <2>3, <2>4 DEF StepsOn
<1>8. CASE b[2] # c[2]
  <2>1. b[2] < c[2]
    BY <1>3, <1>8
  <2> QED
    BY <1>6, <1>8, <2>1 DEF StepsOn
<1> QED
  BY <1>7, <1>8

(* A walk that is long enough meets all blocks from block b on.            *)
LEMMA WalkFrom ==
  ASSUME NEW H, NEW C, NEW B, Described(H, C, B), NEW c \in C,
         NEW walk, Stepping(walk, H, c[1])
  PROVE  \A m \in Nat : \A b \in B : \A n \in Nat :
           Behind(b, c) /\ c[2] - b[1] <= m /\ m <= n => Walked(walk[n][b[1]], B, c, b)
<1> DEFINE S == {m \in Nat : \A b \in B : \A n \in Nat :
                   Behind(b, c) /\ c[2] - b[1] <= m /\ m <= n => Walked(walk[n][b[1]], B, c, b)}
<1>1. Paged(H, C) /\ Placed(C, B) /\ Separate(B) /\ Tiling(C, B)
  BY DEF Described, Tiling
<1>2. \A b \in B : b[1] \in Int /\ b[2] \in Int /\ b[1] < b[2]
  <2>1. \A b \in B : BlockAt(H, b)
    BY <1>1, BlockCells
  <2> QED
    BY <2>1 DEF BlockAt
<1>3. c[2] \in Int
  BY <1>1, HeaderRead DEF Header
<1>4. 0 \in S
  BY <1>2, <1>3 DEF Behind
<1>5. ASSUME NEW m \in Nat, m \in S PROVE m + 1 \in S
  <2> SUFFICES ASSUME NEW b \in B, NEW n \in Nat, Behind(b, c), c[2] - b[1] <= m + 1, m + 1 <= n
               PROVE  Walked(walk[n][b[1]], B, c, b)
    OBVIOUS
  <2>1. n # 0 /\ n - 1 \in Nat /\ m <= n - 1
    OBVIOUS
  <2>2. /\ b[2] = c[2] => walk[n][b[1]] = <<b[1]>>
        /\ b[2] # c[2] => walk[n][b[1]] = <<b[1]>> \o walk[n - 1][b[2]]
    <3>1. StepsOn(walk, n, b, c)
      BY <2>1, StepFrom
    <3> QED
      BY <3>1 DEF StepsOn
  <2>3. CASE b[2] = c[2]
    <3>1. Walked(<<b[1]>>, B, c, b)
      BY <1>1, <1>2, <2>3, WalkedLast
    <3> QED
      BY <2>2, <2>3, <3>1
  <2>4. CASE b[2] # c[2]
    <3>1. PICK a \in B : a[1] = b[2]
      BY <1>1, <2>4, Successor
    <3>2. Behind(a, c)
      BY <1>1, <3>1, SameChunk
    <3>3. c[2] - a[1] <= m
      BY <1>2, <1>3, <3>1
    <3>4. Walked(walk[n - 1][a[1]], B, c, a)
      BY <1>5, <2>1, <3>2, <3>3
    <3>5. Walked(<<b[1]>> \o walk[n - 1][a[1]], B, c, b)
      BY <1>1, <1>2, <3>1, <3>4, WalkedMore
    <3> QED
      BY <2>2, <2>4, <3>1, <3>5
  <2> QED
    BY <2>3, <2>4
<1> HIDE DEF S
<1>6. \A m \in Nat : m \in S
  BY <1>4, <1>5, NatInduct
<1> QED
  BY <1>6 DEF S

(* Stepping through a chunk meets the headers of its blocks, and ends with *)
(* the block that ends the chunk.                                          *)
HeadersAre(L, B, c) ==
  /\ L \in Seq(Int) /\ Len(L) \in Nat /\ Len(L) >= 1
  /\ Elems(L) = {a[1] : a \in {x \in B : Behind(x, c)}}
  /\ \E a \in B : Behind(a, c) /\ a[2] = c[2] /\ L[Len(L)] = a[1]

(* Stepping from header to header through a chunk meets exactly its        *)
(* blocks.                                                                 *)
LEMMA HeadersExact ==
  ASSUME NEW H, NEW C, NEW B, Described(H, C, B), NEW c \in C
  PROVE  HeadersAre(Headers(H, c[1]), B, c)
<1>1. Paged(H, C) /\ Tiling(C, B) /\ Placed(C, B) /\ H \in HeapType
  BY DEF Described, Tiling, Paged, Space
<1>2. PICK walk : Stepping(walk, H, c[1])
  BY <1>1, HeaderSteps
<1>3. Header(H, c)
  BY <1>1, HeaderRead
<1>4. PICK b \in B : b[1] = c[1] + 2
  BY <1>1 DEF Tiling, Cover
<1>5. Behind(b, c)
  <2>1. BlockAt(H, b)
    BY <1>1, BlockCells
  <2>2. PICK d \in C : d[1] + 2 <= b[1] /\ b[2] <= d[2]
    BY <1>1 DEF Placed
  <2>3. Header(H, d)
    BY <1>1, HeaderRead
  <2>4. d = c \/ d[2] <= c[1] \/ c[2] <= d[1]
    BY <1>1 DEF Paged, ChunkSet, Apart
  <2>5. d = c
    BY <1>3, <1>4, <2>1, <2>2, <2>3, <2>4 DEF Header, BlockAt
  <2> QED
    BY <1>3, <1>4, <2>2, <2>5 DEF Behind, Header
<1>6. End \in Nat /\ c[2] - b[1] <= End
  <2>1. End \in Nat /\ PAGE \in Nat
    BY AddressSpace
  <2>2. c[2] <= End /\ PAGE <= c[1] /\ c[1] \in Int /\ c[2] \in Int
    BY <1>3 DEF Header
  <2> QED
    BY <1>4, <2>1, <2>2
<1>7. Walked(walk[End][b[1]], B, c, b)
  <2>1. \A m \in Nat : \A a \in B : \A n \in Nat :
           Behind(a, c) /\ c[2] - a[1] <= m /\ m <= n => Walked(walk[n][a[1]], B, c, a)
    BY <1>2, WalkFrom
  <2> QED
    BY <1>5, <1>6, <2>1
<1> DEFINE L == Headers(H, c[1])
<1>8. L = walk[End][b[1]]
  BY <1>2, <1>4 DEF Stepping
<1> HIDE DEF L
<1>9. \A a \in B : Behind(a, c) => b[1] <= a[1]
  BY <1>4 DEF Behind
<1>10. Elems(L) = {a[1] : a \in {x \in B : Behind(x, c)}}
  <2>1. ASSUME NEW x \in Elems(L) PROVE x \in {a[1] : a \in {y \in B : Behind(y, c)}}
    <3>1. PICK i \in 1 .. Len(L) : x = L[i]
      BY DEF Elems
    <3>2. PICK a \in B : Behind(a, c) /\ L[i] = a[1]
      BY <1>7, <1>8, <3>1 DEF Walked
    <3> QED
      BY <3>1, <3>2
  <2>2. ASSUME NEW a \in B, Behind(a, c) PROVE a[1] \in Elems(L)
    <3>1. PICK i \in 1 .. Len(L) : L[i] = a[1]
      BY <1>7, <1>8, <1>9, <2>2 DEF Walked
    <3> QED
      BY <3>1 DEF Elems
  <2> QED
    BY <2>1, <2>2
<1> QED
  BY <1>7, <1>8, <1>10 DEF HeadersAre, Walked, L

-----------------------------------------------------------------------------
(* What the words of a heap say is what the heap holds. *)

(* The set of the elements of a list.                                      *)
LEMMA ElemsToSet ==
  ASSUME NEW S, NEW L \in Seq(S)
  PROVE  ToSet(L) = Elems(L)
<1>1. DOMAIN L = 1 .. Len(L)
  OBVIOUS
<1> QED
  BY <1>1 DEF ToSet, Elems

(* The blocks and chunks that the words describe are those of Rep.         *)
ReadsAs(H, C, F, U) ==
  /\ ChunksOf(H) = C /\ BlocksOf(H, 0) = F /\ BlocksOf(H, 1) = U

(* Reading a block's header.                                               *)
ReadsBlock(H, b, flag) ==
  /\ <<b[1], b[1] + BLOCK_SIZE(H, b[1])>> = b
  /\ BLOCK_SIZE(H, b[1]) = Size(b) /\ GET_ALLOC(H, b[1]) = flag
  /\ Load(H, b[1] + Size(b) - 1)[1] = Size(b)

(* A header and a footer say where their block ends and who holds it.      *)
LEMMA HeaderSays ==
  ASSUME NEW H, NEW C, Paged(H, C), NEW B, Placed(C, B), NEW b \in B, NEW flag, Tag(H, b, flag)
  PROVE  ReadsBlock(H, b, flag)
<1>1. BlockAt(H, b) /\ H \in HeapType
  BY BlockCells DEF Paged, Space
<1>2. b[1] \in Int /\ b[2] \in Int /\ b = <<b[1], b[2]>> /\ b[1] \in H.mapped /\ b[2] - 1 \in H.mapped
      /\ Size(b) = b[2] - b[1]
  BY <1>1 DEF BlockAt, Size
<1>3. Load(H, b[1]) = H.mem[b[1]] /\ Load(H, b[2] - 1) = H.mem[b[2] - 1]
  BY <1>1, <1>2, LoadStore
<1>4. H.mem[b[1]] = <<Size(b), flag>> /\ H.mem[b[2] - 1][1] = Size(b)
  BY DEF Tag
<1>5. BLOCK_SIZE(H, b[1]) = Size(b) /\ GET_ALLOC(H, b[1]) = flag
  BY <1>3, <1>4 DEF BLOCK_SIZE, GET_ALLOC
<1>6. b[1] + Size(b) = b[2] /\ b[1] + Size(b) - 1 = b[2] - 1
  BY <1>2
<1> QED
  BY <1>2, <1>3, <1>4, <1>5, <1>6 DEF ReadsBlock

(* The headers met from the page list are those of all blocks.             *)
LEMMA AllHeadersAre ==
  ASSUME NEW H, NEW C, NEW B, Described(H, C, B)
  PROVE  /\ ToSet(PageList(H)) = {c[1] : c \in C}
         /\ AllHeaders(H) = {b[1] : b \in B}
<1>1. Paged(H, C) /\ Placed(C, B)
  BY DEF Described, Tiling
<1>2. Links(H, H.page_list_head, PageList(H), {c[1] : c \in C})
  BY <1>1, PageListIs
<1>3. ToSet(PageList(H)) = {c[1] : c \in C}
  BY <1>2, ElemsToSet DEF Links
<1>4. ASSUME NEW c \in C
      PROVE  ToSet(Headers(H, c[1])) = {a[1] : a \in {x \in B : Behind(x, c)}}
  <2>1. HeadersAre(Headers(H, c[1]), B, c)
    BY HeadersExact
  <2> QED
    BY <2>1, ElemsToSet DEF HeadersAre
<1>5. ASSUME NEW h \in AllHeaders(H) PROVE h \in {b[1] : b \in B}
  <2>1. PICK c \in C : h \in ToSet(Headers(H, c[1]))
    BY <1>3 DEF AllHeaders
  <2> QED
    BY <1>4, <2>1
<1>6. ASSUME NEW b \in B PROVE b[1] \in AllHeaders(H)
  <2>1. PICK c \in C : Behind(b, c)
    BY <1>1, BlockCells
  <2>2. b[1] \in ToSet(Headers(H, c[1]))
    BY <1>4, <2>1
  <2> QED
    BY <1>3, <2>2 DEF AllHeaders
<1> QED
  BY <1>3, <1>5, <1>6

(* The headers of a represented heap tile its chunks.                      *)
LEMMA RepDescribes ==
  ASSUME NEW H, NEW C, NEW F, NEW U, Rep(H, C, F, U)
  PROVE  Described(H, C, F \cup U)
<1>1. Paged(H, C) /\ Tiling(C, F \cup U) /\ Tags(H, F, 0) /\ Tags(H, U, 1)
  BY DEF Rep, WellTiled
<1>2. ASSUME NEW b \in F \cup U PROVE H.mem[b[1]][1] = Size(b)
  <2>1. H.mem[b[1]] = <<Size(b), 0>> \/ H.mem[b[1]] = <<Size(b), 1>>
    BY <1>1 DEF Tags, Tag
  <2> QED
    BY <2>1
<1> QED
  BY <1>1, <1>2 DEF Described

(* Chunks and blocks can be read off the words that represent them.        *)
LEMMA HeapReads ==
  ASSUME NEW H, NEW C, NEW F, NEW U, Rep(H, C, F, U)
  PROVE  ReadsAs(H, C, F, U)
<1> DEFINE B == F \cup U
<1>1. /\ Paged(H, C) /\ Placed(C, B) /\ F \cap U = {} /\ Tags(H, F, 0) /\ Tags(H, U, 1)
  BY DEF Rep, WellTiled, Tiling
<1>2. Described(H, C, B)
  BY RepDescribes
<1> HIDE DEF B
<1>3. ToSet(PageList(H)) = {c[1] : c \in C} /\ AllHeaders(H) = {b[1] : b \in B}
  BY <1>2, AllHeadersAre
<1>4. ChunksOf(H) = C
  <2>1. \A c \in C : <<c[1], page_end(H, c[1])>> = c
    BY <1>1, HeaderRead DEF Header
  <2> QED
    BY <1>3, <2>1 DEF ChunksOf
<1>5. \A b \in F : ReadsBlock(H, b, 0) /\ b \in B
  <2> SUFFICES ASSUME NEW b \in F PROVE ReadsBlock(H, b, 0) /\ b \in B
    OBVIOUS
  <2>1. b \in B
    BY DEF B
  <2>2. Tag(H, b, 0)
    BY <1>1 DEF Tags
  <2> QED
    BY <1>1, <2>1, <2>2, HeaderSays
<1>6. \A b \in U : ReadsBlock(H, b, 1) /\ b \in B
  <2> SUFFICES ASSUME NEW b \in U PROVE ReadsBlock(H, b, 1) /\ b \in B
    OBVIOUS
  <2>1. b \in B
    BY DEF B
  <2>2. Tag(H, b, 1)
    BY <1>1 DEF Tags
  <2> QED
    BY <1>1, <2>1, <2>2, HeaderSays
<1>7. \A b \in B : b \in F \/ b \in U
  BY DEF B
<1>8. BlocksOf(H, 0) = F
  <2>1. ASSUME NEW x \in BlocksOf(H, 0) PROVE x \in F
    <3>1. PICK b \in B : GET_ALLOC(H, b[1]) = 0 /\ x = <<b[1], b[1] + BLOCK_SIZE(H, b[1])>>
      BY <1>3, <2>1 DEF BlocksOf
    <3>2. b \in F
      BY <1>6, <1>7, <3>1 DEF ReadsBlock
    <3> QED
      BY <1>5, <3>1, <3>2 DEF ReadsBlock
  <2>2. ASSUME NEW b \in F PROVE b \in BlocksOf(H, 0)
    <3>1. b[1] \in {x \in AllHeaders(H) : GET_ALLOC(H, x) = 0}
      BY <1>3, <1>5 DEF ReadsBlock
    <3> QED
      BY <1>5, <3>1 DEF BlocksOf, ReadsBlock
  <2> QED
    BY <2>1, <2>2
<1>9. BlocksOf(H, 1) = U
  <2>1. ASSUME NEW x \in BlocksOf(H, 1) PROVE x \in U
    <3>1. PICK b \in B : GET_ALLOC(H, b[1]) = 1 /\ x = <<b[1], b[1] + BLOCK_SIZE(H, b[1])>>
      BY <1>3, <2>1 DEF BlocksOf
    <3>2. b \in U
      BY <1>5, <1>7, <3>1 DEF ReadsBlock
    <3> QED
      BY <1>6, <3>1, <3>2 DEF ReadsBlock
  <2>2. ASSUME NEW b \in U PROVE b \in BlocksOf(H, 1)
    <3>1. b[1] \in {x \in AllHeaders(H) : GET_ALLOC(H, x) = 1}
      BY <1>3, <1>6 DEF ReadsBlock
    <3> QED
      BY <1>6, <3>1 DEF BlocksOf, ReadsBlock
  <2> QED
    BY <2>1, <2>2
<1> QED
  BY <1>4, <1>8, <1>9 DEF ReadsAs

-----------------------------------------------------------------------------
(* The client's view. *)

(* The client's blocks lv are the used blocks U, each with room for the    *)
(* bytes asked for and its tags.                                           *)
Holds(lv, U) ==
  /\ DOMAIN lv = LinkCells(U)
  /\ \A b \in U : /\ lv[b[1] + 1] \in Sizes /\ lv[b[1] + 1] # 0
                  /\ TotalSize(lv[b[1] + 1]) <= Size(b)

(* Blocks that start at the same address are one.                          *)
LEMMA OneStart ==
  ASSUME NEW C, NEW B, Placed(C, B), Separate(B), NEW a \in B, NEW b \in B, a[1] + 1 = b[1] + 1
  PROVE  a = b
<1>1. a[1] \in Int /\ a[2] \in Int /\ a[2] - a[1] >= 3 /\ b[1] \in Int /\ b[2] \in Int /\ b[2] - b[1] >= 3
  BY DEF Placed
<1>2. a = b \/ a[2] <= b[1] \/ b[2] <= a[1]
  BY DEF Separate, Apart
<1> QED
  BY <1>1, <1>2

(* A block more in the client's hands.                                     *)
Gets(lv, lv2, p, sz) ==
  lv2 = [q \in DOMAIN lv \cup {p} |-> IF q = p THEN sz ELSE lv[q]]

(* It is one of those held then.                                           *)
LEMMA HoldsMore ==
  ASSUME NEW C, NEW U, NEW t, Placed(C, U \cup {t}), Separate(U \cup {t}),
         NEW lv, Holds(lv, U), NEW sz \in Sizes, sz # 0, TotalSize(sz) <= Size(t),
         NEW lv2, Gets(lv, lv2, t[1] + 1, sz)
  PROVE  Holds(lv2, U \cup {t})
<1>0. lv2 = [p \in DOMAIN lv \cup {t[1] + 1} |-> IF p = t[1] + 1 THEN sz ELSE lv[p]]
  BY DEF Gets
<1>1. DOMAIN lv2 = LinkCells(U \cup {t})
  BY <1>0 DEF Holds, LinkCells
<1>2. ASSUME NEW b \in U \cup {t}
      PROVE  /\ lv2[b[1] + 1] \in Sizes /\ lv2[b[1] + 1] # 0
             /\ TotalSize(lv2[b[1] + 1]) <= Size(b)
  <2>1. CASE b[1] + 1 = t[1] + 1
    <3>1. b = t
      BY <2>1, OneStart
    <3>2. lv2[t[1] + 1] = sz
      BY <1>0
    <3> QED
      BY <3>1, <3>2
  <2>2. CASE b[1] + 1 # t[1] + 1
    <3>1. b \in U
      BY <2>2
    <3>2. b[1] + 1 \in DOMAIN lv
      BY <3>1 DEF Holds, LinkCells
    <3>3. lv2[b[1] + 1] = lv[b[1] + 1]
      BY <1>0, <2>2, <3>2
    <3> QED
      BY <3>1, <3>3 DEF Holds
  <2> QED
    BY <2>1, <2>2
<1> QED
  BY <1>1, <1>2 DEF Holds

(* A block less.                                                           *)
LEMMA HoldsLess ==
  ASSUME NEW C, NEW U, Placed(C, U), Separate(U), NEW b \in U, NEW lv, Holds(lv, U),
         NEW lv2, lv2 = [p \in DOMAIN lv \ {b[1] + 1} |-> lv[p]]
  PROVE  Holds(lv2, U \ {b})
<1>1. LinkCells(U \ {b}) = LinkCells(U) \ {b[1] + 1}
  <2>1. \A a \in U : a[1] + 1 = b[1] + 1 => a = b
    BY OneStart
  <2> QED
    BY <2>1 DEF LinkCells
<1>2. DOMAIN lv2 = LinkCells(U \ {b})
  BY <1>1 DEF Holds
<1>3. ASSUME NEW a \in U \ {b}
      PROVE  lv2[a[1] + 1] = lv[a[1] + 1]
  <2>1. a[1] + 1 \in LinkCells(U \ {b})
    BY DEF LinkCells
  <2> QED
    BY <1>2, <2>1
<1> QED
  BY <1>2, <1>3 DEF Holds

(* The block a request gets is large enough for it.                        *)
LEMMA TakenSize ==
  ASSUME NEW b, b[1] \in Int, NEW n \in Nat, Size(b) >= n
  PROVE  Size(Taken(b, n)) >= n
<1>1. CASE Splits(Size(b), n)
  <2>1. Taken(b, n) = <<b[1], b[1] + n>>
    BY <1>1 DEF Taken
  <2>2. Size(Taken(b, n)) = b[1] + n - b[1]
    BY <2>1 DEF Size
  <2>3. b[1] + n - b[1] = n
    OBVIOUS
  <2> QED
    BY <2>2, <2>3
<1>2. CASE ~ Splits(Size(b), n)
  BY <1>2 DEF Taken
<1> QED
  BY <1>1, <1>2

-----------------------------------------------------------------------------
(* The inductive invariant. *)

(* The heap holds the chunks C and the blocks F and U, no chunk without a  *)
(* used block, and the client holds U.                                     *)
Good(H, lv, C, F, U) == Rep(H, C, F, U) /\ NoFull(C, F) /\ Holds(lv, U)

(* Between mem_reset and mm_init nothing is mapped and nothing is held.    *)
Idle(H, lv) == H \in HeapType /\ H.mapped = {} /\ H.crashed = FALSE /\ lv = <<>>

(* The inductive invariant: the words represent the blocks they describe.  *)
Inv ==
  /\ ready \in BOOLEAN
  /\ ready => Good(heap, live, ChunksOf(heap), BlocksOf(heap, 0), BlocksOf(heap, 1))
  /\ ~ ready => Idle(heap, live)

(* The chunks and blocks of a good heap are those it describes.            *)
LEMMA GoodReads ==
  ASSUME NEW H, NEW lv, NEW C, NEW F, NEW U, Good(H, lv, C, F, U)
  PROVE  Good(H, lv, ChunksOf(H), BlocksOf(H, 0), BlocksOf(H, 1)) /\ ReadsAs(H, C, F, U)
<1>1. ReadsAs(H, C, F, U)
  BY HeapReads DEF Good
<1> QED
  BY <1>1 DEF ReadsAs

-----------------------------------------------------------------------------
(* What the calls do to what the heap holds: a request is served from a    *)
(* free block ...                                                          *)
FitStep(H, K, C, F, U, C2, F2, U2, n) ==
  \E b \in F : /\ Size(b) >= n
               /\ C2 = C /\ F2 = (F \ {b}) \cup Rest(b, n) /\ U2 = U \cup {Taken(b, n)}
               /\ K.mapped = H.mapped

(* ... or from a new chunk ...                                             *)
MapStep(H, K, C, F, U, C2, F2, U2, n, m) ==
  /\ \A b \in F : ~ (Size(b) >= n)
  /\ \E k \in 1 .. MaxPage : \E c \in {<<PageStart(k), PageStart(k) + m>>} :
       /\ NewRegion(H, C, c, m)
       /\ C2 = C \cup {c} /\ F2 = F \cup Rest(Usable(c), n)
       /\ U2 = U \cup {Taken(Usable(c), n)}
       /\ K.mapped = H.mapped \cup Cells(c)

Allocates(H, K, lv2, C, F, U, C2, F2, U2, sz) ==
  /\ Good(K, lv2, C2, F2, U2) /\ Kept(H, K, U)
  /\ \/ FitStep(H, K, C, F, U, C2, F2, U2, TotalSize(sz))
     \/ MapStep(H, K, C, F, U, C2, F2, U2, TotalSize(sz), MapSize(sz))

(* ... mm_malloc does one of the two.                                      *)
LEMMA MallocGood ==
  ASSUME NEW H, NEW lv, NEW C, NEW F, NEW U, Good(H, lv, C, F, U),
         NEW sz \in Sizes, sz # 0, NEW r \in Malloc(H, sz),
         NEW lv2, Gets(lv, lv2, r.p, sz)
  PROVE  \E C2, F2, U2 : Allocates(H, r.heap, lv2, C, F, U, C2, F2, U2, sz)
<1> DEFINE n == TotalSize(sz)
           m == MapSize(sz)
           K == r.heap
<1>1. Rep(H, C, F, U) /\ NoFull(C, F) /\ Holds(lv, U)
  BY DEF Good
<1>2. n \in Nat
  BY SizesSuffice
<1>3. FromFree(H, r, C, F, U, n) \/ FromNew(H, r, C, F, U, n, m)
  BY <1>1, MallocCall
<1>4. ASSUME NEW C2, NEW F2, NEW U2, NEW b, b[1] \in Int, Size(b) >= n, r.p = Taken(b, n)[1] + 1,
             Rep(K, C2, F2, U2), U2 = U \cup {Taken(b, n)}
      PROVE  Holds(lv2, U2)
  <2> DEFINE t == Taken(b, n)
  <2>1. Placed(C2, F2 \cup U2) /\ Separate(F2 \cup U2)
    BY <1>4 DEF Rep, WellTiled, Tiling
  <2>2. Placed(C2, U2) /\ Separate(U2)
    BY <2>1, PlacedPart
  <2>3. TotalSize(sz) <= Size(t)
    <3>1. Size(t) >= n
      BY <1>2, <1>4, TakenSize
    <3>2. Size(t) \in Int
      <4>1. t \in U2
        BY <1>4
      <4>2. t[1] \in Int /\ t[2] \in Int
        BY <2>2, <4>1 DEF Placed
      <4> QED
        BY <4>2 DEF Size
    <3> QED
      BY <1>2, <3>1, <3>2
  <2>4. Gets(lv, lv2, t[1] + 1, sz)
    BY <1>4
  <2>5. Placed(C2, U \cup {t}) /\ Separate(U \cup {t})
    BY <1>4, <2>2
  <2> HIDE DEF t
  <2>6. Holds(lv2, U \cup {t})
    BY <1>1, <2>3, <2>4, <2>5, HoldsMore
  <2> QED
    BY <1>4, <2>6 DEF t
<1> HIDE DEF n, m, K
<1>5. CASE FromFree(H, r, C, F, U, n)
  <2>1. PICK b \in F : Size(b) >= n /\ r.p = Taken(b, n)[1] + 1 /\ Served(H, K, C, F \ {b}, U, b, n)
    BY <1>5 DEF FromFree, K
  <2> DEFINE F2 == (F \ {b}) \cup Rest(b, n)
             U2 == U \cup {Taken(b, n)}
  <2>2. Rep(K, C, F2, U2) /\ NoFull(C, F2) /\ Kept(H, K, U) /\ K.mapped = H.mapped
    BY <2>1 DEF Served
  <2>3. b[1] \in Int
    BY <1>1 DEF Rep, WellTiled, Tiling, Placed
  <2>4. FitStep(H, K, C, F, U, C, F2, U2, n)
    BY <2>1, <2>2 DEF FitStep
  <2>5. U2 = U \cup {Taken(b, n)}
    OBVIOUS
  <2> HIDE DEF F2, U2
  <2>6. Holds(lv2, U2)
    BY <1>4, <2>1, <2>2, <2>3, <2>5
  <2>7. Allocates(H, K, lv2, C, F, U, C, F2, U2, sz)
    BY <2>2, <2>4, <2>6 DEF Allocates, Good, n
  <2> QED
    BY <2>7 DEF K
<1>6. CASE FromNew(H, r, C, F, U, n, m)
  <2>1. \A b \in F : ~ (Size(b) >= n)
    BY <1>6 DEF FromNew
  <2>2. PICK k \in 1 .. MaxPage : \E c \in {<<PageStart(k), PageStart(k) + m>>} :
          /\ NewRegion(H, C, c, m) /\ r.p = Taken(Usable(c), n)[1] + 1
          /\ Grown(H, K, C, F, U, c, n)
    BY <1>6 DEF FromNew, K
  <2>3. PICK c \in {<<PageStart(k), PageStart(k) + m>>} :
          /\ NewRegion(H, C, c, m) /\ r.p = Taken(Usable(c), n)[1] + 1
          /\ Grown(H, K, C, F, U, c, n)
    BY <2>2
  <2> DEFINE b == Usable(c)
             C2 == C \cup {c}
             F2 == F \cup Rest(b, n)
             U2 == U \cup {Taken(b, n)}
  <2>4. Rep(K, C2, F2, U2) /\ NoFull(C2, F2) /\ Kept(H, K, U) /\ K.mapped = H.mapped \cup Cells(c)
    BY <2>3 DEF Grown
  <2>5. MapStep(H, K, C, F, U, C2, F2, U2, n, m)
    BY <2>1, <2>3, <2>4 DEF MapStep
  <2>6. b[1] \in Int /\ Size(b) >= n
    <3>1. c[1] \in Int /\ c[2] \in Int /\ c[2] - c[1] = m
      BY <2>3 DEF NewRegion
    <3>2. m >= n + 2 /\ m \in Nat
      BY SizesSuffice DEF n, m
    <3>3. b[1] = c[1] + 2 /\ b[2] = c[2]
      BY DEF Usable
    <3> QED
      BY <1>2, <3>1, <3>2, <3>3 DEF Size, n
  <2>7. U2 = U \cup {Taken(b, n)}
    OBVIOUS
  <2>8. r.p = Taken(b, n)[1] + 1
    BY <2>3
  <2> HIDE DEF b, C2, F2, U2
  <2>9. Holds(lv2, U2)
    BY <1>4, <2>4, <2>6, <2>7, <2>8
  <2>10. Allocates(H, K, lv2, C, F, U, C2, F2, U2, sz)
    BY <2>4, <2>5, <2>9 DEF Allocates, Good, n, m
  <2> QED
    BY <2>10 DEF K
<1> QED
  BY <1>3, <1>5, <1>6

(* mm_free gives block b back, with the chunks that are full then.         *)
Frees(H, K, lv2, C, F, U, b) ==
  LET F2 == WithMerged(F, b)
      D  == Full(C, F2)
  IN  /\ Good(K, lv2, C \ D, F2 \ Blocks(D), U \ {b}) /\ Kept(H, K, U \ {b})
      /\ K.mapped = H.mapped \ Granules(D)

(* The client gives back a block, whatever the order of its calls.         *)
LEMMA FreeGood ==
  ASSUME NEW H, NEW lv, NEW C, NEW F, NEW U, Good(H, lv, C, F, U), NEW b \in U,
         NEW lv2, lv2 = [p \in DOMAIN lv \ {b[1] + 1} |-> lv[p]]
  PROVE  Frees(H, Free(H, b[1] + 1), lv2, C, F, U, b)
<1>1. Rep(H, C, F, U) /\ Holds(lv, U)
  BY DEF Good
<1>2. Reclaimed(H, Free(H, b[1] + 1), C, F, U, b, WithMerged(F, b), Full(C, WithMerged(F, b)))
  BY <1>1, FreeCall
<1>3. Placed(C, U) /\ Separate(U)
  <2>1. Placed(C, F \cup U) /\ Separate(F \cup U)
    BY <1>1 DEF Rep, WellTiled, Tiling
  <2> QED
    BY <2>1, PlacedPart
<1>4. Holds(lv2, U \ {b})
  BY <1>1, <1>3, HoldsLess
<1> QED
  BY <1>2, <1>4 DEF Frees, Good, Reclaimed

(* The client's pointers are those of the used blocks.                     *)
LEMMA HeldBlock ==
  ASSUME NEW lv, NEW U, Holds(lv, U), NEW p \in DOMAIN lv
  PROVE  \E b \in U : p = b[1] + 1
BY DEF Holds, LinkCells

(* What a client writes stays between the tags of its block.               *)
Writes(H, K, lv, C, F, U, b) ==
  /\ Good(K, lv, C, F, U) /\ K.mapped = H.mapped

(* The client writes into a block.                                         *)
LEMMA WriteGood ==
  ASSUME NEW H, NEW lv, NEW C, NEW F, NEW U, Good(H, lv, C, F, U), NEW b \in U,
         NEW w \in Nat \X Nat, NEW G, G = b[1] + 1 .. b[1] + 1 + ALIGN(lv[b[1] + 1]) - 1
  PROVE  Writes(H, Fill(H, G, w), lv, C, F, U, b)
<1>1. Rep(H, C, F, U) /\ Holds(lv, U) /\ NoFull(C, F)
  BY DEF Good
<1>2. lv[b[1] + 1] \in Sizes /\ lv[b[1] + 1] # 0 /\ TotalSize(lv[b[1] + 1]) <= Size(b)
  BY <1>1 DEF Holds
<1> DEFINE a == ALIGN(lv[b[1] + 1])
<1>3. a \in Nat /\ a + 2 <= Size(b)
  BY <1>2, SizesSuffice
<1>4. G = b[1] + 1 .. b[1] + 1 + a - 1
  OBVIOUS
<1> HIDE DEF a
<1>5. Rep(Fill(H, G, w), C, F, U) /\ Filled(H, Fill(H, G, w), G)
  BY <1>1, <1>3, <1>4, WriteCall
<1> QED
  BY <1>1, <1>5 DEF Writes, Good, Filled

-----------------------------------------------------------------------------
(* The initial state satisfies the invariant. *)
LEMMA InvInit ==
  Init => Inv
<1> SUFFICES ASSUME Init PROVE Inv
  OBVIOUS
<1>1. heap = EmptyHeap /\ live = <<>> /\ ready = FALSE
  BY DEF Init
<1>2. EmptyHeap \in HeapType
  <2>1. [a \in Granule |-> Zero] \in [Granule -> Word \X Word]
    BY DEF Zero, Word
  <2> QED
    BY <2>1 DEF EmptyHeap, HeapType, Address
<1>3. EmptyHeap.mapped = {} /\ EmptyHeap.crashed = FALSE
  BY DEF EmptyHeap
<1> QED
  BY <1>1, <1>2, <1>3 DEF Inv, Idle

(* The heap of any state.                                                  *)
LEMMA InvHeap ==
  ASSUME Inv
  PROVE  heap \in HeapType /\ heap.crashed = FALSE
BY DEF Inv, Good, Rep, Paged, Space, Idle

-----------------------------------------------------------------------------
(* Every step of a client preserves the invariant. *)

(* What is in the state when the allocator is in use.                      *)
Now == Good(heap, live, ChunksOf(heap), BlocksOf(heap, 0), BlocksOf(heap, 1))

(* The invariant holds again after a call whose heap is good for some      *)
(* chunks and blocks.                                                      *)
LEMMA Regained ==
  ASSUME NEW C, NEW F, NEW U, Good(heap', live', C, F, U), ready' = TRUE
  PROVE  Inv' /\ ReadsAs(heap', C, F, U)
<1>1. Good(heap', live', ChunksOf(heap'), BlocksOf(heap', 0), BlocksOf(heap', 1))
      /\ ReadsAs(heap', C, F, U)
  BY GoodReads
<1> QED
  BY <1>1 DEF Inv

(* mm_malloc.                                                              *)
LEMMA MallocStep ==
  ASSUME Inv, NEW sz \in Sizes, mm_malloc(sz)
  PROVE  /\ Now /\ ready' = TRUE /\ sz # 0
         /\ \E C2, F2, U2 : Allocates(heap, heap', live', ChunksOf(heap), BlocksOf(heap, 0),
                                      BlocksOf(heap, 1), C2, F2, U2, sz)
<1>1. ready = TRUE /\ sz # 0 /\ Now
  BY DEF mm_malloc, Inv, Now
<1>2. PICK r \in Malloc(heap, sz) : Return(r.heap, r.p, sz)
  BY DEF mm_malloc
<1>3. heap' = r.heap /\ Gets(live, live', r.p, sz) /\ ready' = ready
  BY <1>2 DEF Return, Gets
<1>4. \E C2, F2, U2 : Allocates(heap, r.heap, live', ChunksOf(heap), BlocksOf(heap, 0),
                                BlocksOf(heap, 1), C2, F2, U2, sz)
  BY <1>1, <1>3, MallocGood DEF Now
<1> QED
  BY <1>1, <1>3, <1>4

(* mm_free.                                                                *)
LEMMA FreeStep ==
  ASSUME Inv, NEW p \in DOMAIN live, mm_free(p)
  PROVE  /\ Now /\ ready' = TRUE /\ DOMAIN live' = DOMAIN live \ {p}
         /\ \E b \in BlocksOf(heap, 1) :
              p = b[1] + 1 /\ Frees(heap, heap', live', ChunksOf(heap), BlocksOf(heap, 0),
                                    BlocksOf(heap, 1), b)
<1>1. ready = TRUE /\ Now
  BY DEF mm_free, Inv, Now
<1>2. heap' = Free(heap, p) /\ live' = [q \in DOMAIN live \ {p} |-> live[q]] /\ ready' = ready
  BY DEF mm_free
<1>3. PICK b \in BlocksOf(heap, 1) : p = b[1] + 1
  BY <1>1, HeldBlock DEF Now, Good
<1>4. Frees(heap, Free(heap, b[1] + 1), live', ChunksOf(heap), BlocksOf(heap, 0),
            BlocksOf(heap, 1), b)
  BY <1>1, <1>2, <1>3, FreeGood DEF Now
<1> QED
  BY <1>1, <1>2, <1>3, <1>4

(* client_write.                                                           *)
LEMMA WriteStep ==
  ASSUME Inv, NEW p \in DOMAIN live, NEW w \in Junk, client_write(p, w)
  PROVE  /\ Now /\ ready' = TRUE /\ live' = live
         /\ \E b \in BlocksOf(heap, 1) :
              Writes(heap, heap', live', ChunksOf(heap), BlocksOf(heap, 0), BlocksOf(heap, 1), b)
<1>1. heap' = Fill(heap, Payload(p), w) /\ live' = live /\ ready' = ready
  BY DEF client_write
<1>2. DOMAIN <<>> = {}
  OBVIOUS
<1>3. ready = TRUE /\ Now
  BY <1>2 DEF Inv, Idle, Now
<1>4. PICK b \in BlocksOf(heap, 1) : p = b[1] + 1
  BY <1>3, HeldBlock DEF Now, Good
<1>5. Payload(p) = b[1] + 1 .. b[1] + 1 + ALIGN(live[b[1] + 1]) - 1
  BY <1>4 DEF Payload
<1>6. w \in Nat \X Nat
  BY MMAssumption
<1>7. Writes(heap, Fill(heap, Payload(p), w), live, ChunksOf(heap), BlocksOf(heap, 0),
             BlocksOf(heap, 1), b)
  BY <1>3, <1>5, <1>6, WriteGood DEF Now
<1> QED
  BY <1>1, <1>3, <1>7

(* mm_init.                                                                *)
LEMMA InitStep ==
  ASSUME Inv, mm_init
  PROVE  ready' = TRUE /\ Good(heap', live', {}, {}, {}) /\ heap'.mapped = heap.mapped
<1>1. heap' = InitHeap(heap) /\ live' = <<>> /\ ready' = TRUE
  BY DEF mm_init
<1>2. heap \in HeapType /\ heap.crashed = FALSE
  BY InvHeap
<1>3. Rep(heap', {}, {}, {}) /\ NoFull({}, {}) /\ heap'.mapped = heap.mapped
  BY <1>1, <1>2, InitCall
<1>4. Holds(<<>>, {})
  BY DEF Holds, LinkCells
<1> QED
  BY <1>1, <1>3, <1>4 DEF Good

(* mem_reset.                                                              *)
LEMMA ResetStep ==
  ASSUME Inv, mem_reset
  PROVE  ready = TRUE /\ ready' = FALSE /\ Idle(heap', live')
<1>1. heap' = ResetHeap(heap) /\ live' = <<>> /\ ready' = FALSE /\ ready
  BY DEF mem_reset
<1>2. heap \in HeapType /\ heap.crashed = FALSE
  BY InvHeap
<1>3. heap' \in HeapType /\ heap'.mapped = {} /\ heap'.crashed = FALSE
  BY <1>1, <1>2, ResetCall
<1> QED
  BY <1>1, <1>3 DEF Idle, Inv

(* Every step keeps the inductive invariant.                               *)
LEMMA InvStep ==
  Inv /\ [Next]_vars => Inv'
<1> SUFFICES ASSUME Inv, [Next]_vars PROVE Inv'
  OBVIOUS
<1>1. ASSUME NEW sz \in Sizes, mm_malloc(sz) PROVE Inv'
  <2>1. PICK C2, F2, U2 : Allocates(heap, heap', live', ChunksOf(heap), BlocksOf(heap, 0),
                                    BlocksOf(heap, 1), C2, F2, U2, sz)
    BY <1>1, MallocStep
  <2>2. Good(heap', live', C2, F2, U2) /\ ready' = TRUE
    BY <1>1, <2>1, MallocStep DEF Allocates
  <2> QED
    BY <2>2, Regained
<1>2. ASSUME NEW p \in DOMAIN live, mm_free(p) PROVE Inv'
  <2>1. PICK b \in BlocksOf(heap, 1) :
          Frees(heap, heap', live', ChunksOf(heap), BlocksOf(heap, 0), BlocksOf(heap, 1), b)
    BY <1>2, FreeStep
  <2>2. ready' = TRUE
    BY <1>2, FreeStep
  <2> QED
    BY <2>1, <2>2, Regained DEF Frees
<1>3. ASSUME NEW p \in DOMAIN live, NEW w \in Junk, client_write(p, w) PROVE Inv'
  <2>1. ready' = TRUE
        /\ Good(heap', live', ChunksOf(heap), BlocksOf(heap, 0), BlocksOf(heap, 1))
    BY <1>3, WriteStep DEF Writes
  <2> QED
    BY <2>1, Regained
<1>4. CASE mm_init
  BY <1>4, InitStep, Regained
<1>5. CASE mem_reset
  BY <1>5, ResetStep DEF Inv
<1>6. CASE UNCHANGED vars
  <2>1. heap' = heap /\ live' = live /\ ready' = ready
    BY <1>6 DEF vars
  <2> QED
    BY <2>1 DEF Inv
<1> QED
  BY <1>1, <1>2, <1>3, <1>4, <1>5, <1>6 DEF Next

(* The invariant holds in every reachable state.                           *)
THEOREM Invariance ==
  Spec => []Inv
<1> QED
  BY InvInit, InvStep, PTL DEF Spec

-----------------------------------------------------------------------------
(* Words, list heads and the client's addresses have their types whatever  *)
(* the client asked for, wrote and freed (mm.c:185 and after).             *)
LEMMA InvTypes ==
  Inv => TypeOK
<1> SUFFICES ASSUME Inv PROVE TypeOK
  OBVIOUS
<1>1. /\ heap.mem \in [Granule -> Word \X Word] /\ heap.mapped \subseteq Granule
      /\ {heap.free_list_head, heap.page_list_head} \subseteq Granule \cup {NULL}
      /\ heap.crashed \in BOOLEAN /\ ready \in BOOLEAN
  BY InvHeap DEF HeapType, Address, Inv
<1>2. CASE ready
  <2>1. Holds(live, BlocksOf(heap, 1))
    BY <1>2 DEF Inv, Good
  <2>2. Paged(heap, ChunksOf(heap)) /\ Placed(ChunksOf(heap), BlocksOf(heap, 0) \cup BlocksOf(heap, 1))
    BY <1>2 DEF Inv, Good, Rep, WellTiled, Tiling
  <2>3. ASSUME NEW p \in DOMAIN live PROVE p \in Granule /\ live[p] \in Sizes
    <3>1. PICK b \in BlocksOf(heap, 1) : p = b[1] + 1
      BY <2>1, HeldBlock
    <3>2. BlockAt(heap, b)
      BY <2>2, BlockCells
    <3> QED
      BY <2>1, <3>1, <3>2 DEF BlockAt, Holds
  <2> QED
    BY <1>1, <2>3 DEF TypeOK
<1>3. CASE ~ ready
  <2>1. live = <<>>
    BY <1>3 DEF Inv, Idle
  <2>2. DOMAIN live = {}
    BY <2>1
  <2> QED
    BY <1>1, <2>2 DEF TypeOK
<1> QED
  BY <1>2, <1>3

(* Words, list heads and the addresses the client holds have their types   *)
(* after every sequence of calls to mm_malloc, mm_free, mm_init and        *)
(* mem_reset and of writes by the client.                                  *)
THEOREM TypeCorrect ==
  Spec => []TypeOK
<1> QED
  BY Invariance, InvTypes, PTL

(* The boundary tags of mm.c tile every chunk and the allocated blocks are *)
(* the client's.                                                           *)
LEMMA InvBlocks ==
  Inv => BlocksExact
<1> SUFFICES ASSUME Inv, ready PROVE TagsAgree /\ LiveIsAllocated
  BY DEF BlocksExact, TagsAgree, LiveIsAllocated
<1> DEFINE C == ChunksOf(heap)
           F == BlocksOf(heap, 0)
           U == BlocksOf(heap, 1)
           B == F \cup U
<1>1. Rep(heap, C, F, U) /\ Holds(live, U)
  BY DEF Inv, Good
<1> HIDE DEF C, F, U
<1>2. /\ Paged(heap, C) /\ Tiling(C, B) /\ Placed(C, B) /\ Tags(heap, F, 0) /\ Tags(heap, U, 1)
  BY <1>1 DEF Rep, WellTiled, Tiling
<1>3. Described(heap, C, B)
  BY <1>1, RepDescribes
<1>4. ASSUME NEW b \in B
      PROVE  /\ ReadsBlock(heap, b, 0) \/ ReadsBlock(heap, b, 1)
             /\ BlockAt(heap, b) /\ b[1] + Size(b) = b[2] /\ Size(b) \in Int /\ Size(b) >= 3
  <2>1. Tag(heap, b, 0) \/ Tag(heap, b, 1)
    BY <1>2 DEF Tags
  <2>2. BlockAt(heap, b)
    BY <1>2, BlockCells
  <2>3. b[1] + Size(b) = b[2] /\ Size(b) \in Int /\ Size(b) >= 3
    BY <2>2 DEF BlockAt, Size
  <2>4. ReadsBlock(heap, b, 0) \/ ReadsBlock(heap, b, 1)
    BY <1>2, <2>1, HeaderSays
  <2> QED
    BY <2>2, <2>3, <2>4
<1>5. ASSUME NEW pc \in ToSet(PageList(heap))
      PROVE  LET hs == Headers(heap, pc) IN
             /\ Last(hs) + BLOCK_SIZE(heap, Last(hs)) = page_end(heap, pc)
             /\ \A h \in ToSet(hs) :
                  LET n == BLOCK_SIZE(heap, h) IN
                  /\ n >= HDRSIZE + 1 + FDRSIZE
                  /\ Load(heap, h + n - FDRSIZE)[1] = n
                  /\ GET_ALLOC(heap, h) \in {0, 1}
  <2> DEFINE hs == Headers(heap, pc)
  <2>1. PICK c \in C : pc = c[1]
    BY <1>3, AllHeadersAre
  <2>2. HeadersAre(Headers(heap, c[1]), B, c)
    BY <1>3, HeadersExact
  <2>3. HeadersAre(hs, B, c)
    BY <2>1, <2>2
  <2> HIDE DEF hs, B
  <2>4. ToSet(hs) = {a[1] : a \in {x \in B : Behind(x, c)}}
    BY <2>3, ElemsToSet DEF HeadersAre
  <2>5. Last(hs) + BLOCK_SIZE(heap, Last(hs)) = page_end(heap, pc)
    <3>1. PICK a \in B : a[2] = c[2] /\ hs[Len(hs)] = a[1]
      BY <2>3 DEF HeadersAre
    <3>2. Last(hs) = a[1]
      BY <3>1 DEF Last
    <3>3. BLOCK_SIZE(heap, a[1]) = Size(a) /\ a[1] + Size(a) = a[2]
      BY <1>4 DEF ReadsBlock
    <3>4. page_end(heap, c[1]) = c[2]
      BY <1>2, HeaderRead DEF Header
    <3> QED
      BY <2>1, <3>1, <3>2, <3>3, <3>4
  <2>6. ASSUME NEW h \in ToSet(hs)
        PROVE  LET n == BLOCK_SIZE(heap, h) IN
               /\ n >= HDRSIZE + 1 + FDRSIZE
               /\ Load(heap, h + n - FDRSIZE)[1] = n
               /\ GET_ALLOC(heap, h) \in {0, 1}
    <3>1. PICK a \in B : h = a[1]
      BY <2>4
    <3>2. BLOCK_SIZE(heap, h) = Size(a) /\ Load(heap, h + Size(a) - 1)[1] = Size(a)
          /\ GET_ALLOC(heap, h) \in {0, 1}
      BY <1>4, <3>1 DEF ReadsBlock
    <3>3. Size(a) >= 1 + 1 + 1
      BY <1>4
    <3> QED
      BY <3>2, <3>3
  <2> QED
    BY <2>5, <2>6 DEF hs
<1>6. TagsAgree
  BY <1>5 DEF TagsAgree
<1>7. DOMAIN live = {b[1] + 1 : b \in U}
  BY <1>1 DEF Holds, LinkCells
<1>8. ASSUME NEW p \in DOMAIN live
      PROVE  live[p] <= ALIGNMENT * (BLOCK_SIZE(heap, p - HDRSIZE) - HDRSIZE - FDRSIZE)
  <2>1. PICK b \in U : p = b[1] + 1
    BY <1>1, HeldBlock
  <2>2. b \in B
    OBVIOUS
  <2>3. BLOCK_SIZE(heap, b[1]) = Size(b) /\ Size(b) \in Int /\ (b[1] + 1) - 1 = b[1]
    BY <1>4, <2>2 DEF ReadsBlock, BlockAt
  <2>4. live[p] \in Sizes /\ live[p] # 0 /\ TotalSize(live[p]) <= Size(b)
    BY <1>1, <2>1 DEF Holds
  <2>5. /\ ALIGN(live[p]) \in Nat /\ live[p] <= 16 * ALIGN(live[p])
        /\ TotalSize(live[p]) = ALIGN(live[p]) + 2
    BY <2>4, SizesSuffice
  <2>6. live[p] \in Nat
    BY <2>4, LayoutAssumption DEF LayoutAssumption
  <2>7. ALIGN(live[p]) <= Size(b) - 1 - 1
    BY <2>3, <2>4, <2>5
  <2>8. live[p] <= 16 * (Size(b) - 1 - 1)
    BY <2>3, <2>5, <2>6, <2>7
  <2> QED
    BY <2>1, <2>3, <2>8
<1>9. LiveIsAllocated
  BY <1>7, <1>8 DEF LiveIsAllocated, U
<1> QED
  BY <1>6, <1>9

(* After every sequence of calls the boundary tags of mm.c tile every      *)
(* chunk, each block carrying its size in both tags, and the allocated     *)
(* blocks are those the client holds, each with room for the bytes it      *)
(* asked for.                                                              *)
THEOREM BlocksCorrect ==
  Spec => []BlocksExact
<1> QED
  BY Invariance, InvBlocks, PTL

-----------------------------------------------------------------------------
(* Both lists hold what they should and nothing was stored through a link  *)
(* that dangles.                                                           *)

(* A list in mapped cells whose words are its links.                       *)
LEMMA LinkedIsDoubly ==
  ASSUME NEW H \in HeapType, NEW head, NEW L, NEW S, Links(H, head, L, S), S \subseteq H.mapped
  PROVE  /\ IsInjective(L)
         /\ \A i \in DOMAIN L : Load(H, L[i])[1] = IF i = 1 THEN NULL ELSE L[i - 1]
<1>1. /\ L \in Seq(Granule) /\ DOMAIN L = 1 .. Len(L) /\ Len(L) \in Nat
      /\ \A i, j \in 1 .. Len(L) : L[i] = L[j] => i = j
      /\ \A i \in 1 .. Len(L) : PrevOf(H)[L[i]] = At(L, i - 1, NULL)
      /\ \A i \in 1 .. Len(L) : L[i] \in H.mapped
  BY DEF Links, Linked
<1>2. IsInjective(L)
  BY <1>1 DEF IsInjective
<1>3. ASSUME NEW i \in DOMAIN L
      PROVE  Load(H, L[i])[1] = IF i = 1 THEN NULL ELSE L[i - 1]
  <2>1. i \in 1 .. Len(L) /\ L[i] \in H.mapped
    BY <1>1
  <2>2. Load(H, L[i]) = H.mem[L[i]] /\ L[i] \in Granule
    BY <2>1, LoadStore
  <2>3. PrevOf(H)[L[i]] = H.mem[L[i]][1]
    BY <2>2 DEF PrevOf
  <2>4. At(L, i - 1, NULL) = IF i = 1 THEN NULL ELSE L[i - 1]
    BY <1>1, <2>1 DEF At
  <2> QED
    BY <1>1, <2>1, <2>2, <2>3, <2>4
<1> QED
  BY <1>2, <1>3

(* The invariant has both lists exact and no crash.                        *)
LEMMA InvLinks ==
  Inv => LinksExact
<1> SUFFICES ASSUME Inv PROVE LinksExact
  OBVIOUS
<1>1. NoCrash
  BY InvHeap DEF NoCrash
<1>2. ASSUME ready
      PROVE  /\ DoublyLinked(FreeList(heap), LAMBDA bp : FREE_PREV_PTR(heap, bp))
             /\ ToSet(FreeList(heap)) = {b[1] + HDRSIZE : b \in BlocksOf(heap, 0)}
             /\ DoublyLinked(PageList(heap), LAMBDA pc : prev_chunk(heap, pc))
             /\ \A pc \in ToSet(PageList(heap)) :
                  /\ page_end(heap, pc) = pc + page_size(heap, pc)
                  /\ pc .. page_end(heap, pc) - 1 \subseteq heap.mapped
  <2> DEFINE C == ChunksOf(heap)
             F == BlocksOf(heap, 0)
             U == BlocksOf(heap, 1)
  <2>1. Rep(heap, C, F, U)
    BY <1>2 DEF Inv, Good
  <2> HIDE DEF C, F, U
  <2>2. Paged(heap, C) /\ Heaped(heap, C, F) /\ Placed(C, F) /\ heap \in HeapType
    <3>1. Paged(heap, C) /\ Placed(C, F \cup U) /\ Separate(F \cup U) /\ Listed(heap, F)
      BY <2>1 DEF Rep, WellTiled, Tiling
    <3> QED
      BY <3>1, PlacedPart DEF Heaped, Paged, Space
  <2>3. Links(heap, heap.free_list_head, FreeList(heap), LinkCells(F))
    BY <2>2, FreeListIs
  <2>4. LinkCells(F) \subseteq heap.mapped
    <3>1. \A f \in F : f[1] + 1 \in heap.mapped
      BY <2>2, BlockCells DEF BlockAt
    <3> QED
      BY <3>1 DEF LinkCells
  <2>5. DoublyLinked(FreeList(heap), LAMBDA bp : FREE_PREV_PTR(heap, bp))
    <3> DEFINE L == FreeList(heap)
    <3>1. Links(heap, heap.free_list_head, L, LinkCells(F))
      BY <2>3
    <3> HIDE DEF L
    <3>2. /\ IsInjective(L)
          /\ \A i \in DOMAIN L : Load(heap, L[i])[1] = IF i = 1 THEN NULL ELSE L[i - 1]
      BY <2>2, <2>4, <3>1, LinkedIsDoubly
    <3>3. DoublyLinked(L, LAMBDA bp : FREE_PREV_PTR(heap, bp))
      BY <3>2 DEF DoublyLinked, FREE_PREV_PTR
    <3> QED
      BY <3>3 DEF L
  <2>6. ToSet(FreeList(heap)) = {b[1] + HDRSIZE : b \in F}
    BY <2>3, ElemsToSet DEF Links, LinkCells
  <2>7. Links(heap, heap.page_list_head, PageList(heap), {c[1] : c \in C})
    BY <2>2, PageListIs
  <2>8. {c[1] : c \in C} \subseteq heap.mapped
    BY <2>2, HeaderRead DEF Header
  <2>9. DoublyLinked(PageList(heap), LAMBDA pc : prev_chunk(heap, pc))
    <3> DEFINE L == PageList(heap)
    <3>1. Links(heap, heap.page_list_head, L, {c[1] : c \in C})
      BY <2>7
    <3> HIDE DEF L
    <3>2. /\ IsInjective(L)
          /\ \A i \in DOMAIN L : Load(heap, L[i])[1] = IF i = 1 THEN NULL ELSE L[i - 1]
      BY <2>2, <2>8, <3>1, LinkedIsDoubly
    <3>3. DoublyLinked(L, LAMBDA pc : prev_chunk(heap, pc))
      BY <3>2 DEF DoublyLinked, prev_chunk
    <3> QED
      BY <3>3 DEF L
  <2>10. ASSUME NEW pc \in ToSet(PageList(heap))
         PROVE  /\ page_end(heap, pc) = pc + page_size(heap, pc)
                /\ pc .. page_end(heap, pc) - 1 \subseteq heap.mapped
    <3>1. ToSet(PageList(heap)) = {c[1] : c \in C}
      BY <2>7, ElemsToSet DEF Links
    <3>2. PICK c \in C : pc = c[1]
      BY <3>1
    <3>3. Header(heap, c)
      BY <2>2, HeaderRead
    <3>4. c[1] \in Int /\ c[2] \in Int /\ page_end(heap, pc) = c[2] /\ page_size(heap, pc) = c[2] - c[1]
          /\ \A x \in c[1] .. c[2] - 1 : x \in heap.mapped
      BY <3>2, <3>3 DEF Header
    <3>5. c[2] = c[1] + (c[2] - c[1])
      BY <3>4
    <3> QED
      BY <3>2, <3>4, <3>5
  <2> QED
    BY <2>5, <2>6, <2>9, <2>10 DEF F
<1> QED
  BY <1>1, <1>2 DEF LinksExact, FreeListExact, PageListExact

(* After every sequence of calls the free list links exactly the free      *)
(* blocks, the page list exactly the mapped chunks, both in both           *)
(* directions, and mm.c has loaded or stored through no dangling link and  *)
(* not aborted in write_footer or mem_unmap.                               *)
THEOREM LinksCorrect ==
  Spec => []LinksExact
<1> QED
  BY Invariance, InvLinks, PTL

-----------------------------------------------------------------------------
(* The client's data. *)

(* The payload of a block lies in its cells.                               *)
LEMMA PayloadInBlock ==
  ASSUME NEW C, NEW U, Placed(C, U), Holds(live, U), NEW b \in U
  PROVE  Payload(b[1] + 1) \subseteq Cells(b)
<1>1. b[1] \in Int /\ b[2] \in Int
  BY DEF Placed
<1>2. live[b[1] + 1] \in Sizes /\ live[b[1] + 1] # 0 /\ TotalSize(live[b[1] + 1]) <= Size(b)
  BY DEF Holds
<1> DEFINE a == ALIGN(live[b[1] + 1])
<1>3. a \in Nat /\ a + 2 <= Size(b)
  BY <1>2, SizesSuffice
<1>4. Payload(b[1] + 1) = b[1] + 1 .. b[1] + 1 + a - 1
  BY DEF Payload
<1> HIDE DEF a
<1> QED
  BY <1>1, <1>3, <1>4 DEF Cells, Size

(* A call keeps the payloads of the blocks V that stay with the client.    *)
LEMMA PayloadsKept ==
  ASSUME Now, NEW V, V \subseteq BlocksOf(heap, 1), Kept(heap, heap', V),
         NEW p \in DOMAIN live, \A b \in BlocksOf(heap, 1) : p = b[1] + 1 => b \in V
  PROVE  \A a \in Payload(p) : heap'.mem[a] = heap.mem[a]
<1> DEFINE C == ChunksOf(heap)
           U == BlocksOf(heap, 1)
<1>1. Placed(C, U) /\ Holds(live, U)
  <2>1. Placed(C, BlocksOf(heap, 0) \cup U) /\ Separate(BlocksOf(heap, 0) \cup U)
    BY DEF Now, Good, Rep, WellTiled, Tiling
  <2>2. Placed(C, U)
    <3> HIDE DEF C, U
    <3> QED
      BY <2>1, PlacedPart
  <2> QED
    BY <2>2 DEF Now, Good
<1>2. PICK b \in U : p = b[1] + 1
  BY <1>1, HeldBlock
<1>3. Payload(p) \subseteq Cells(b)
  BY <1>1, <1>2, PayloadInBlock
<1> QED
  BY <1>2, <1>3 DEF Kept

(* A step that changes the payload of a block is its owner's write.        *)
LEMMA PayloadStep ==
  Inv /\ [Next]_vars =>
    [\A p \in DOMAIN live \cap DOMAIN live' :
        \/ \A a \in Payload(p) : heap'.mem[a] = heap.mem[a]
        \/ \E w \in Junk : client_write(p, w)]_vars
<1> SUFFICES ASSUME Inv, Next, NEW p \in DOMAIN live, p \in DOMAIN live'
             PROVE  \/ \A a \in Payload(p) : heap'.mem[a] = heap.mem[a]
                    \/ \E w \in Junk : client_write(p, w)
  OBVIOUS
<1>1. ASSUME NEW sz \in Sizes, mm_malloc(sz)
      PROVE  \A a \in Payload(p) : heap'.mem[a] = heap.mem[a]
  <2>1. Now /\ Kept(heap, heap', BlocksOf(heap, 1))
    BY <1>1, MallocStep DEF Allocates
  <2> QED
    BY <2>1, PayloadsKept
<1>2. ASSUME NEW q \in DOMAIN live, mm_free(q)
      PROVE  \A a \in Payload(p) : heap'.mem[a] = heap.mem[a]
  <2>1. Now /\ p # q
    BY <1>2, FreeStep
  <2>2. PICK b \in BlocksOf(heap, 1) :
          q = b[1] + 1 /\ Frees(heap, heap', live', ChunksOf(heap), BlocksOf(heap, 0),
                                BlocksOf(heap, 1), b)
    BY <1>2, FreeStep
  <2>3. Kept(heap, heap', BlocksOf(heap, 1) \ {b})
    BY <2>2 DEF Frees
  <2>4. \A u \in BlocksOf(heap, 1) : p = u[1] + 1 => u \in BlocksOf(heap, 1) \ {b}
    BY <2>1, <2>2
  <2> DEFINE V == BlocksOf(heap, 1) \ {b}
  <2>5. V \subseteq BlocksOf(heap, 1) /\ Kept(heap, heap', V)
        /\ \A u \in BlocksOf(heap, 1) : p = u[1] + 1 => u \in V
    BY <2>3, <2>4
  <2> HIDE DEF V
  <2> QED
    BY <2>1, <2>5, PayloadsKept
<1>3. ASSUME NEW q \in DOMAIN live, NEW w \in Junk, client_write(q, w)
      PROVE  \/ \A a \in Payload(p) : heap'.mem[a] = heap.mem[a]
             \/ \E x \in Junk : client_write(p, x)
  <2>1. CASE p = q
    BY <1>3, <2>1
  <2>2. CASE p # q
    <3>1. ready
      <4>1. DOMAIN <<>> = {}
        OBVIOUS
      <4> QED
        BY <4>1 DEF Inv, Idle
    <3> DEFINE C == ChunksOf(heap)
               U == BlocksOf(heap, 1)
    <3>2. heap \in HeapType /\ Paged(heap, C) /\ Placed(C, U) /\ Separate(U) /\ Holds(live, U)
      <4> DEFINE F == BlocksOf(heap, 0)
      <4>1. Rep(heap, C, F, U) /\ Holds(live, U)
        BY <3>1 DEF Inv, Good
      <4> HIDE DEF C, F, U
      <4>2. Paged(heap, C) /\ Placed(C, F \cup U) /\ Separate(F \cup U)
        BY <4>1 DEF Rep, WellTiled, Tiling
      <4> QED
        BY <4>1, <4>2, PlacedPart DEF Paged, Space
    <3>3. PICK u \in U : p = u[1] + 1
      BY <3>2, HeldBlock
    <3>4. PICK v \in U : q = v[1] + 1
      BY <3>2, HeldBlock
    <3>5. Payload(p) \subseteq Cells(u) /\ Payload(q) \subseteq Cells(v)
      BY <3>2, <3>3, <3>4, PayloadInBlock
    <3> HIDE DEF C, U
    <3>6. BlockAt(heap, u) /\ BlockAt(heap, v)
      BY <3>2, BlockCells
    <3>7. u # v
      BY <2>2, <3>3, <3>4
    <3>8. \A a \in Cells(u) : a \in Granule /\ a \notin Cells(v)
      <4> SUFFICES ASSUME NEW a \in Cells(u) PROVE a \in Granule /\ a \notin Cells(v)
        OBVIOUS
      <4>1. u[2] <= v[1] \/ v[2] <= u[1]
        BY <3>2, <3>7 DEF Separate, Apart
      <4> QED
        BY <3>6, <4>1 DEF Cells, BlockAt
    <3>9. Filled(heap, heap', Payload(q))
      <4>1. w \in Nat \X Nat
        BY MMAssumption
      <4>2. heap' = Fill(heap, Payload(q), w)
        BY <1>3 DEF client_write
      <4> QED
        BY <3>2, <4>1, <4>2, FillCells
    <3> QED
      BY <3>5, <3>8, <3>9 DEF Filled
  <2> QED
    BY <2>1, <2>2
<1>4. CASE mm_init
  <2>1. DOMAIN live' = {}
    BY <1>4 DEF mm_init
  <2> QED
    BY <2>1
<1>5. CASE mem_reset
  <2>1. DOMAIN live' = {}
    BY <1>5 DEF mem_reset
  <2> QED
    BY <2>1
<1> QED
  BY <1>1, <1>2, <1>3, <1>4, <1>5 DEF Next

(* While other blocks are split, merged, linked and unmapped, the contents *)
(* of a block change only when its owner writes to it.                     *)
THEOREM DataKept ==
  Spec => PayloadKept
<1> QED
  BY Invariance, PayloadStep, PTL DEF Spec, PayloadKept

-----------------------------------------------------------------------------
(* The words implement the interval algorithm: a call of mm.c is one of    *)
(* the steps of BlockHeap on the chunks and blocks the words describe.     *)

(* What BlockHeap sees of the heap.                                        *)
Chs == Held(ChunksOf(heap))
Fre == Held(BlocksOf(heap, 0))
Use == Held(BlocksOf(heap, 1))
Lea == Held(heap.mapped \ UNION {c[1] .. c[2] - 1 : c \in ChunksOf(heap)})

(* The operators of both are those of Intervals and Layout.                *)
LEMMA SameSizes ==
  ASSUME NEW sz
  PROVE  BH!TotalSize(sz) = TotalSize(sz) /\ BH!MapSize(sz) = MapSize(sz)
BY DEF BH!TotalSize, BH!MapSize, BH!Tagged, BH!ALIGN, BH!ALIGNMENT, BH!HDRSIZE, BH!FDRSIZE,
       BH!PAGEHDRSIZE, TotalSize, MapSize, Tagged, ALIGN

(* Cutting a block.                                                        *)
LEMMA SameCuts ==
  ASSUME NEW b, NEW n
  PROVE  BH!Taken(b, n) = Taken(b, n) /\ BH!Rest(b, n) = Rest(b, n) /\ BH!Size(b) = Size(b)
BY DEF BH!Taken, BH!Rest, BH!Splits, BH!Size, BH!HDRSIZE, BH!FDRSIZE, BH!MIN_BLOCK_SIZE,
       Taken, Rest, Splits, Size

(* Merging blocks.                                                         *)
LEMMA SameMerges ==
  ASSUME NEW F, NEW b
  PROVE  /\ BH!Below(F, b) = Below(F, b) /\ BH!Above(F, b) = Above(F, b)
         /\ BH!Merged(F, b) = Merged(F, b)
BY DEF BH!Below, BH!Above, BH!Merged, Below, Above, Merged

(* Chunks and pages.                                                       *)
LEMMA SameSpaces ==
  ASSUME NEW c, NEW d
  PROVE  /\ BH!Usable(c) = Usable(c) /\ BH!Cells(c) = Cells(c) /\ BH!Apart(c, d) = Apart(c, d)
         /\ BH!PageStart(c) = PageStart(c) /\ BH!End = End
BY DEF BH!Usable, BH!Cells, BH!Apart, BH!PageStart, BH!End, BH!PAGEHDRSIZE, Usable, Cells, Apart,
       PageStart, End

(* While the allocator is in use BlockHeap sees what the words describe.   *)
LEMMA SeenReady ==
  ASSUME ready = TRUE
  PROVE  /\ Chs = ChunksOf(heap) /\ Fre = BlocksOf(heap, 0) /\ Use = BlocksOf(heap, 1)
         /\ Lea = heap.mapped \ Granules(ChunksOf(heap))
BY DEF Chs, Fre, Use, Lea, Held, Granules, Cells

(* Before mm_init it sees nothing.                                         *)
LEMMA SeenIdle ==
  ASSUME ready = FALSE
  PROVE  Chs = {} /\ Fre = {} /\ Use = {} /\ Lea = {}
BY DEF Chs, Fre, Use, Lea, Held

(* After a call it sees what the new words describe.                       *)
LEMMA SeenNext ==
  ASSUME NEW C, NEW F, NEW U, ReadsAs(heap', C, F, U), ready' = TRUE
  PROVE  /\ Chs' = C /\ Fre' = F /\ Use' = U
         /\ Lea' = heap'.mapped \ Granules(C)
<1>1. ChunksOf(heap') = C /\ BlocksOf(heap', 0) = F /\ BlocksOf(heap', 1) = U
  BY DEF ReadsAs
<1>2. Granules(C) = UNION {c[1] .. c[2] - 1 : c \in C}
  BY DEF Granules, Cells
<1>3. Chs' = C
  BY <1>1 DEF Chs, Held
<1>4. Fre' = F
  BY <1>1 DEF Fre, Held
<1>5. Use' = U
  BY <1>1 DEF Use, Held
<1>6. Lea' = heap'.mapped \ Granules(C)
  BY <1>1, <1>2 DEF Lea, Held
<1> QED
  BY <1>3, <1>4, <1>5, <1>6

(* After mem_reset it sees nothing.                                        *)
LEMMA SeenGone ==
  ASSUME ready' = FALSE
  PROVE  Chs' = {} /\ Fre' = {} /\ Use' = {} /\ Lea' = {}
BY DEF Chs, Fre, Use, Lea, Held

(* A step that changes nothing BlockHeap sees is a stutter.                *)
LEMMA SeenVars ==
  ASSUME Chs' = Chs, Fre' = Fre, Use' = Use, Lea' = Lea
  PROVE  UNCHANGED BH!vars
BY DEF BH!vars, Chs, Fre, Use, Lea

(* What each call is to BlockHeap.                                         *)
LEMMA FitSeen ==
  ASSUME NEW sz, NEW b \in Fre, Size(b) >= TotalSize(sz), Chs' = Chs, Lea' = Lea,
         Fre' = (Fre \ {b}) \cup Rest(b, TotalSize(sz)),
         Use' = Use \cup {Taken(b, TotalSize(sz))}
  PROVE  BH!MallocFit(sz)
<1>1. b \in BH!Fits(BH!TotalSize(sz))
  BY SameSizes, SameCuts DEF BH!Fits, Fre
<1>2. /\ Use' = Use \cup {BH!Taken(b, BH!TotalSize(sz))}
      /\ Fre' = (Fre \ {b}) \cup BH!Rest(b, BH!TotalSize(sz))
  BY SameSizes, SameCuts
<1> QED
  BY <1>1, <1>2 DEF BH!MallocFit, Chs, Fre, Use, Lea

(* A new chunk for a request is a step of MallocMap.                       *)
LEMMA MapSeen ==
  ASSUME NEW sz, \A b \in Fre : ~ (Size(b) >= TotalSize(sz)),
         NEW k \in 1 .. MaxPage, NEW c, c = <<PageStart(k), PageStart(k) + MapSize(sz)>>,
         c[2] <= End, Cells(c) \cap Lea = {}, \A d \in Chs : Apart(c, d),
         Chs' = Chs \cup {c}, Lea' = Lea,
         Fre' = Fre \cup Rest(Usable(c), TotalSize(sz)),
         Use' = Use \cup {Taken(Usable(c), TotalSize(sz))}
  PROVE  BH!MallocMap(sz)
<1>1. BH!Fits(BH!TotalSize(sz)) = {}
  BY SameSizes, SameCuts DEF BH!Fits, Fre
<1>2. c \in BH!Regions(BH!MapSize(sz))
  <2>1. c = <<BH!PageStart(k), BH!PageStart(k) + BH!MapSize(sz)>>
    BY SameSizes, SameSpaces
  <2>2. c[2] <= BH!End /\ BH!Cells(c) \cap Lea = {} /\ \A d \in Chs : BH!Apart(c, d)
    BY SameSpaces
  <2> QED
    BY <2>1, <2>2 DEF BH!Regions, Chs, Lea
<1>3. /\ Use' = Use \cup {BH!Taken(BH!Usable(c), BH!TotalSize(sz))}
      /\ Fre' = Fre \cup BH!Rest(BH!Usable(c), BH!TotalSize(sz))
  BY SameSizes, SameCuts, SameSpaces
<1> QED
  BY <1>1, <1>2, <1>3 DEF BH!MallocMap, Chs, Fre, Use, Lea

(* A free with its merges and unmapped chunks is a step of mm_free.        *)
LEMMA FreeSeen ==
  ASSUME NEW b, NEW F2, F2 = WithMerged(Fre, b), NEW D, D = Full(Chs, F2),
         Use' = Use \ {b}, Fre' = F2 \ Blocks(D), Chs' = Chs \ D, Lea' = Lea
  PROVE  BH!mm_free(b)
<1>1. BH!coalesce(b) = F2
  BY SameMerges DEF BH!coalesce, WithMerged, Fre
<1>2. BH!FullPages(F2) = D
  <2>1. BH!FullPages(F2) = {c \in Chs : BH!Usable(c) \in F2}
    BY DEF BH!FullPages, Chs
  <2>2. \A c \in Chs : BH!Usable(c) = Usable(c)
    BY SameSpaces
  <2>3. D = {c \in Chs : Usable(c) \in F2}
    BY DEF Full
  <2> QED
    BY <2>1, <2>2, <2>3
<1>3. {BH!Usable(c) : c \in D} = Blocks(D)
  BY SameSpaces DEF Blocks
<1> QED
  BY <1>1, <1>2, <1>3 DEF BH!mm_free, Chs, Fre, Use, Lea

(* Forgetting both lists leaks what they reached.                          *)
LEMMA InitSeen ==
  ASSUME Chs' = {}, Fre' = {}, Use' = {}, Lea' = Lea \cup Granules(Chs)
  PROVE  BH!mm_init
<1>1. UNION {BH!Cells(c) : c \in Chs} = Granules(Chs)
  BY SameSpaces DEF Granules
<1> QED
  BY <1>1 DEF BH!mm_init, Chs, Fre, Use, Lea

(* Unmapping every page leaves nothing.                                    *)
LEMMA ResetSeen ==
  ASSUME Chs' = {}, Fre' = {}, Use' = {}, Lea' = {}
  PROVE  BH!mem_reset
BY DEF BH!mem_reset, Chs, Fre, Use, Lea

-----------------------------------------------------------------------------
(* A step of the words is a step of BlockHeap or changes nothing it sees.  *)

(* The chunks are mapped, so what is leaked are the other mapped granules. *)
LEMMA ChunksMapped ==
  ASSUME NEW H, NEW lv, NEW C, NEW F, NEW U, Good(H, lv, C, F, U)
  PROVE  Granules(C) \subseteq H.mapped
<1>1. \A c \in C : Cells(c) \subseteq H.mapped
  BY DEF Good, Rep, Paged, Space
<1> QED
  BY <1>1 DEF Granules

(* mm_malloc, from the free list or from new pages.                        *)
LEMMA MallocSeen ==
  ASSUME Inv, NEW sz \in Sizes, mm_malloc(sz)
  PROVE  BH!mm_malloc(sz)
<1> DEFINE C == ChunksOf(heap)
           F == BlocksOf(heap, 0)
           U == BlocksOf(heap, 1)
           n == TotalSize(sz)
           m == MapSize(sz)
<1>1. ready = TRUE /\ ready' = TRUE /\ sz # 0
  BY MallocStep DEF mm_malloc, Inv
<1>2. PICK C2, F2, U2 : Allocates(heap, heap', live', C, F, U, C2, F2, U2, sz)
  BY MallocStep
<1>3. Chs = C /\ Fre = F /\ Use = U /\ Lea = heap.mapped \ Granules(C)
  BY <1>1, SeenReady
<1>4. Chs' = C2 /\ Fre' = F2 /\ Use' = U2 /\ Lea' = heap'.mapped \ Granules(C2)
  <2>1. ReadsAs(heap', C2, F2, U2)
    BY <1>1, <1>2, Regained DEF Allocates
  <2> QED
    BY <1>1, <2>1, SeenNext
<1>5. FitStep(heap, heap', C, F, U, C2, F2, U2, n) \/ MapStep(heap, heap', C, F, U, C2, F2, U2, n, m)
  BY <1>2 DEF Allocates
<1> HIDE DEF C, F, U
<1>6. CASE FitStep(heap, heap', C, F, U, C2, F2, U2, n)
  <2>1. PICK b \in F : /\ Size(b) >= n /\ heap'.mapped = heap.mapped
                       /\ C2 = C /\ F2 = (F \ {b}) \cup Rest(b, n) /\ U2 = U \cup {Taken(b, n)}
    BY <1>6 DEF FitStep
  <2>2. b \in Fre /\ Chs' = Chs /\ Lea' = Lea
    BY <1>3, <1>4, <2>1
  <2>3. Fre' = (Fre \ {b}) \cup Rest(b, n) /\ Use' = Use \cup {Taken(b, n)}
    BY <1>3, <1>4, <2>1
  <2>4. BH!MallocFit(sz)
    BY <2>1, <2>2, <2>3, FitSeen
  <2> QED
    BY <1>1, <2>4 DEF BH!mm_malloc
<1>7. CASE MapStep(heap, heap', C, F, U, C2, F2, U2, n, m)
  <2>1. \A b \in Fre : ~ (Size(b) >= n)
    BY <1>3, <1>7 DEF MapStep
  <2>2. PICK k \in 1 .. MaxPage : \E c \in {<<PageStart(k), PageStart(k) + m>>} :
          /\ NewRegion(heap, C, c, m)
          /\ C2 = C \cup {c} /\ F2 = F \cup Rest(Usable(c), n)
          /\ U2 = U \cup {Taken(Usable(c), n)}
          /\ heap'.mapped = heap.mapped \cup Cells(c)
    BY <1>7 DEF MapStep
  <2> DEFINE c == <<PageStart(k), PageStart(k) + m>>
  <2>3. /\ NewRegion(heap, C, c, m)
        /\ C2 = C \cup {c} /\ F2 = F \cup Rest(Usable(c), n)
        /\ U2 = U \cup {Taken(Usable(c), n)}
        /\ heap'.mapped = heap.mapped \cup Cells(c)
    BY <2>2
  <2>4. c = <<PageStart(k), PageStart(k) + m>>
    OBVIOUS
  <2> HIDE DEF c
  <2>5. c[2] <= End /\ Cells(c) \cap heap.mapped = {} /\ \A d \in Chs : Apart(c, d)
    BY <1>3, <2>3 DEF NewRegion
  <2>6. Granules(C2) = Granules(C) \cup Cells(c)
    BY <2>3 DEF Granules
  <2>7. Lea' = Lea /\ Cells(c) \cap Lea = {}
    BY <1>3, <1>4, <2>3, <2>5, <2>6
  <2>8. Chs' = Chs \cup {c} /\ Fre' = Fre \cup Rest(Usable(c), n)
        /\ Use' = Use \cup {Taken(Usable(c), n)}
    BY <1>3, <1>4, <2>3
  <2>9. BH!MallocMap(sz)
    BY <2>1, <2>4, <2>5, <2>7, <2>8, MapSeen
  <2> QED
    BY <1>1, <2>9 DEF BH!mm_malloc
<1> QED
  BY <1>5, <1>6, <1>7

(* mm_free of any of the client's blocks.                                  *)
LEMMA ReleaseSeen ==
  ASSUME Inv, NEW p \in DOMAIN live, mm_free(p)
  PROVE  \E b \in Use : BH!mm_free(b)
<1> DEFINE C == ChunksOf(heap)
           F == BlocksOf(heap, 0)
           U == BlocksOf(heap, 1)
<1>1. ready = TRUE /\ ready' = TRUE /\ Good(heap, live, C, F, U)
  BY FreeStep DEF mm_free, Inv
<1>2. PICK b \in U : Frees(heap, heap', live', C, F, U, b)
  BY FreeStep
<1>3. Chs = C /\ Fre = F /\ Use = U /\ Lea = heap.mapped \ Granules(C)
  BY <1>1, SeenReady
<1> DEFINE F2 == WithMerged(F, b)
           D  == Full(C, F2)
<1>4. Good(heap', live', C \ D, F2 \ Blocks(D), U \ {b}) /\ heap'.mapped = heap.mapped \ Granules(D)
  BY <1>2 DEF Frees
<1>5. D \subseteq C
  BY DEF Full
<1>6. F2 = WithMerged(Fre, b) /\ D = Full(Chs, F2)
  BY <1>3
<1> HIDE DEF C, F, U, F2, D
<1>7. ReadsAs(heap', C \ D, F2 \ Blocks(D), U \ {b})
  BY <1>1, <1>4, Regained
<1>8. /\ Chs' = C \ D /\ Fre' = F2 \ Blocks(D) /\ Use' = U \ {b}
      /\ Lea' = heap'.mapped \ Granules(C \ D)
  BY <1>1, <1>7, SeenNext
<1>9. Granules(C) = Granules(C \ D) \cup Granules(D)
  BY <1>5 DEF Granules
<1>10. Lea' = Lea
  BY <1>3, <1>4, <1>8, <1>9
<1>11. BH!mm_free(b)
  BY <1>3, <1>6, <1>8, <1>10, FreeSeen
<1> QED
  BY <1>3, <1>11

(* BlockHeap does not see what the client writes.                          *)
LEMMA WriteSeen ==
  ASSUME Inv, NEW p \in DOMAIN live, NEW w \in Junk, client_write(p, w)
  PROVE  UNCHANGED BH!vars
<1> DEFINE C == ChunksOf(heap)
           F == BlocksOf(heap, 0)
           U == BlocksOf(heap, 1)
<1>1. ready' = TRUE /\ ready = TRUE
  BY WriteStep DEF client_write, Inv
<1>2. Good(heap', live', C, F, U) /\ heap'.mapped = heap.mapped
  BY WriteStep DEF Writes
<1>3. Chs = C /\ Fre = F /\ Use = U /\ Lea = heap.mapped \ Granules(C)
  BY <1>1, SeenReady
<1> HIDE DEF C, F, U
<1>4. ReadsAs(heap', C, F, U)
  BY <1>1, <1>2, Regained
<1>5. Chs' = C /\ Fre' = F /\ Use' = U /\ Lea' = heap'.mapped \ Granules(C)
  BY <1>1, <1>4, SeenNext
<1> QED
  BY <1>2, <1>3, <1>5, SeenVars

(* mm_init, before or after a mem_reset.                                   *)
LEMMA ForgottenSeen ==
  ASSUME Inv, mm_init
  PROVE  BH!mm_init
<1>1. ready' = TRUE /\ Good(heap', live', {}, {}, {}) /\ heap'.mapped = heap.mapped
  BY InitStep
<1>2. ReadsAs(heap', {}, {}, {})
  BY <1>1, Regained
<1>3. Granules({}) = {}
  BY DEF Granules
<1>4. Chs' = {} /\ Fre' = {} /\ Use' = {} /\ Lea' = heap.mapped
  BY <1>1, <1>2, <1>3, SeenNext
<1>5. Lea \cup Granules(Chs) = heap.mapped
  <2>1. CASE ready = TRUE
    <3>1. Granules(ChunksOf(heap)) \subseteq heap.mapped
      BY <2>1, ChunksMapped DEF Inv
    <3> QED
      BY <2>1, <3>1, SeenReady
  <2>2. CASE ready = FALSE
    <3>1. heap.mapped = {}
      BY <2>2 DEF Inv, Idle
    <3> QED
      BY <1>3, <2>2, <3>1, SeenIdle
  <2> QED
    BY <2>1, <2>2 DEF Inv
<1> QED
  BY <1>4, <1>5, InitSeen

(* Every step of the words is a step or a stutter of BlockHeap.            *)
LEMMA StepSeen ==
  Inv /\ [Next]_vars => [BH!Next]_(BH!vars)
<1> SUFFICES ASSUME Inv, [Next]_vars PROVE BH!Next \/ UNCHANGED BH!vars
  OBVIOUS
<1>1. ASSUME NEW sz \in Sizes, mm_malloc(sz) PROVE BH!Next
  BY <1>1, MallocSeen DEF BH!Next
<1>2. ASSUME NEW p \in DOMAIN live, mm_free(p) PROVE BH!Next
  BY <1>2, ReleaseSeen DEF BH!Next, Use
<1>3. ASSUME NEW p \in DOMAIN live, NEW w \in Junk, client_write(p, w) PROVE UNCHANGED BH!vars
  BY <1>3, WriteSeen
<1>4. CASE mm_init
  BY <1>4, ForgottenSeen DEF BH!Next
<1>5. CASE mem_reset
  <2>1. BH!mem_reset
    BY <1>5, ResetStep, SeenGone, ResetSeen
  <2> QED
    BY <2>1 DEF BH!Next
<1>6. CASE UNCHANGED vars
  BY <1>6 DEF vars, BH!vars, Held
<1> QED
  BY <1>1, <1>2, <1>3, <1>4, <1>5, <1>6 DEF Next

(* Before the first mm_init both have nothing.                             *)
LEMMA InitsSeen ==
  Init => BH!Init
BY SeenIdle DEF Init, BH!Init, Chs, Fre, Use, Lea

(* Whatever the client asks for, writes and frees, every call of mm.c on   *)
(* headers, footers and lists is the step of the interval algorithm on the *)
(* blocks those words describe, first fit being one of its choices: the    *)
(* encoding of mm.c implements the algorithm, and with it what is proved   *)
(* of the algorithm for the client.                                        *)
THEOREM Refinement ==
  Spec => ImplementsBlockHeap
<1> QED
  BY Invariance, InitsSeen, StepSeen, PTL DEF Spec, ImplementsBlockHeap, BH!Spec
=============================================================================
