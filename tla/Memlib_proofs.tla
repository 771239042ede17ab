--------------------------- MODULE Memlib_proofs ---------------------------
(***************************************************************************)
(* Proofs about Memlib, for every number of pages, every set of run        *)
(* lengths and every number of calls.                                      *)
(*                                                                         *)
(* The list of the page map is the sequence L of module Lists: linking a   *)
(* page puts it in front, unlinking takes it out wherever it is, and       *)
(* walking along the next links yields L.                                  *)
(***************************************************************************)
EXTENDS Memlib, Structures

PN == Pages \cup {NULL}

Records == [addr : PN, prev : PN, next : PN]

Maps == [rec : [Pages -> Records], all_mapped_pages : PN, aborted : BOOLEAN]

NextOf(M)    == [p \in Pages |-> M.rec[p].next]
PrevOf(M)    == [p \in Pages |-> M.rec[p].prev]
TrackedIn(M) == {p \in Pages : M.rec[p].addr # NULL}

(* Map M holds list L of its tracked pages. *)
Holds(M, L) ==
  /\ M \in Maps /\ ~ M.aborted
  /\ Linked(L, Pages, NULL, M.all_mapped_pages, NextOf(M), PrevOf(M))
  /\ Elems(L) = TrackedIn(M)

(* The inductive invariant.  While a run is entered or taken out, loop.at  *)
(* divides it into the pages done and the pages ahead; while everything is *)
(* unmapped, loop.at is the head of what is left of the list.              *)
MapOK == Holds(pm, List(pm))

BooksOK ==
  /\ os \subseteq Pages /\ Tracked \subseteq os
  /\ activity_counter \in 0 .. MaxCalls

LoopOK ==
  /\ loop \in [fn : {"none", "map", "unmap", "reset"}, at : PN, first : PN, last : PN]
  /\ loop.fn = "none" => loop = Idle
  /\ loop.fn \in {"map", "unmap"} =>
       /\ loop.first \in Pages /\ loop.at \in Pages /\ loop.last \in Pages
       /\ loop.first <= loop.at /\ loop.at <= loop.last
       /\ loop.last - loop.first + 1 \in Runs
  /\ loop.fn = "map" => /\ Entered \subseteq Tracked
                        /\ Ahead \subseteq os \ Tracked
  /\ loop.fn = "unmap" => Ahead \subseteq Tracked /\ Entered \cap Tracked = {}
  /\ loop.fn = "reset" => loop.at = pm.all_mapped_pages

CountOK ==
  /\ page_count \in 0 .. MaxPage
  /\ loop.fn # "reset" => page_count = Cardinality(Tracked)

IInv == MapOK /\ BooksOK /\ LoopOK /\ CountOK

-----------------------------------------------------------------------------
(* The first n numbers. *)
LEMMA CardinalityUpTo ==
  ASSUME NEW n \in Nat
  PROVE  IsFiniteSet(1 .. n) /\ Cardinality(1 .. n) = n
<1>1. IsFiniteSet(1 .. n) /\ Cardinality(1 .. n) = IF 1 > n THEN 0 ELSE n - 1 + 1
  BY FS_Interval
<1> QED
  BY <1>1

(* What List yields is the list that the links form. *)
LEMMA ListIsLinked ==
  ASSUME NEW M, NEW L, Holds(M, L)
  PROVE  List(M) = L
<1> DEFINE next == [p \in PN |-> IF p = NULL THEN NULL ELSE M.rec[p].next]
           walk == CHOOSE w : w = [n \in Nat |-> [p \in Pages \cup {NULL} |->
                       IF p = NULL \/ n = 0 THEN <<>> ELSE <<p>> \o w[n - 1][M.rec[p].next]]]
<1>1. next \in [PN -> PN]
  BY DEF Holds, Maps, Records, PN
<1>2. PICK w : Walks(w, PN, NULL, next)
  <2> HIDE DEF next
  <2> QED
    BY <1>1, WalkExists
<1>3. w = [n \in Nat |-> [p \in Pages \cup {NULL} |->
             IF p = NULL \/ n = 0 THEN <<>> ELSE <<p>> \o w[n - 1][M.rec[p].next]]]
  <2>1. ASSUME NEW n \in Nat, NEW p \in PN
        PROVE  (IF p = NULL \/ n = 0 THEN <<>> ELSE <<p>> \o w[n - 1][next[p]])
             = (IF p = NULL \/ n = 0 THEN <<>> ELSE <<p>> \o w[n - 1][M.rec[p].next])
    OBVIOUS
  <2> HIDE DEF next, walk
  <2>2. w = [n \in Nat |-> [p \in PN |->
               IF p = NULL \/ n = 0 THEN <<>> ELSE <<p>> \o w[n - 1][M.rec[p].next]]]
    BY <1>2, <2>1, ZenonT(60) DEF Walks
  <2> QED
    BY <2>2 DEF PN
<1>4. walk = [n \in Nat |-> [p \in Pages \cup {NULL} |->
                IF p = NULL \/ n = 0 THEN <<>> ELSE <<p>> \o walk[n - 1][M.rec[p].next]]]
  BY <1>3
<1>5. List(M) = walk[MaxPage + 1][M.all_mapped_pages]
  BY DEF List
<1> HIDE DEF walk
<1>6. \A n \in Nat : walk[n][NULL] = <<>>
  BY <1>4
<1>7. \A p \in Pages, n \in Nat : n # 0 => walk[n][p] = <<p>> \o walk[n - 1][NextOf(M)[p]]
  <2> SUFFICES ASSUME NEW p \in Pages, NEW n \in Nat, n # 0
               PROVE  walk[n][p] = <<p>> \o walk[n - 1][NextOf(M)[p]]
    OBVIOUS
  <2>1. p # NULL /\ p \in Pages \cup {NULL} /\ NextOf(M)[p] = M.rec[p].next
    BY MemlibAssumption DEF MemlibAssumption, NULL, Pages, NextOf
  <2>2. walk[n] = [q \in Pages \cup {NULL} |->
                     IF q = NULL \/ n = 0 THEN <<>> ELSE <<q>> \o walk[n - 1][M.rec[q].next]]
    BY <1>4
  <2>3. walk[n][p] = <<p>> \o walk[n - 1][M.rec[p].next]
    BY <2>1, <2>2
  <2> QED
    BY <2>1, <2>3
<1>8. Len(L) <= MaxPage + 1
  <2>1. L \in Seq(Pages) /\ \A i, j \in 1 .. Len(L) : L[i] = L[j] => i = j
    BY DEF Holds, Linked
  <2>2. Len(L) \in Nat /\ MaxPage \in Nat
    BY <2>1, MemlibAssumption DEF MemlibAssumption
  <2>3. \A i \in 1 .. Len(L) : L[i] \in 1 .. MaxPage
    <3>1. \A i \in 1 .. Len(L) : L[i] \in Pages
      BY <2>1
    <3> QED
      BY <3>1 DEF Pages
  <2>4. [i \in 1 .. Len(L) |-> L[i]] \in Injection(1 .. Len(L), 1 .. MaxPage)
    BY <2>1, <2>2, <2>3 DEF Injection, IsInjective
  <2>5. IsFiniteSet(1 .. MaxPage) /\ Cardinality(1 .. MaxPage) = MaxPage
        /\ Cardinality(1 .. Len(L)) = Len(L)
    BY <2>2, CardinalityUpTo
  <2>6. Cardinality(1 .. Len(L)) <= Cardinality(1 .. MaxPage)
    BY <2>4, <2>5, FS_Injection, Zenon
  <2> QED
    BY <2>2, <2>5, <2>6
<1>9. walk[MaxPage + 1][M.all_mapped_pages] = L
  <2>1. MaxPage + 1 \in Nat /\ NULL \notin Pages
    BY MemlibAssumption DEF MemlibAssumption, NULL, Pages
  <2>2. Linked(L, Pages, NULL, M.all_mapped_pages, NextOf(M), PrevOf(M))
    BY DEF Holds
  <2>3. Unrolls(walk, Pages, NULL, NextOf(M))
    BY <1>6, <1>7 DEF Unrolls
  <2> QED
    BY <1>8, <2>1, <2>2, <2>3, WalkList
<1> QED
  BY <1>5, <1>9

(* Map N is map M with another record of page p. *)
Writes(N, M, p, r) ==
  /\ N \in Maps /\ N.rec[p] = r
  /\ \A q \in Pages \ {p} : N.rec[q] = M.rec[q]
  /\ N.all_mapped_pages = M.all_mapped_pages /\ N.aborted = M.aborted

(* What the assignments of pagemap.c do to a map. *)
LEMMA RecordWritten ==
  ASSUME NEW M \in Maps, NEW p \in Pages, NEW r \in Records
  PROVE  Writes([M EXCEPT !.rec[p] = r], M, p, r)
BY DEF Maps, Writes

(* Writing one field of a record changes that record and no other.         *)
LEMMA FieldWritten ==
  ASSUME NEW M \in Maps, NEW p \in Pages, NEW v \in PN
  PROVE  /\ Writes([M EXCEPT !.rec[p].addr = v], M, p, [M.rec[p] EXCEPT !.addr = v])
         /\ Writes([M EXCEPT !.rec[p].prev = v], M, p, [M.rec[p] EXCEPT !.prev = v])
         /\ Writes([M EXCEPT !.rec[p].next = v], M, p, [M.rec[p] EXCEPT !.next = v])
<1>1. /\ [M.rec[p] EXCEPT !.addr = v] \in Records
      /\ [M.rec[p] EXCEPT !.prev = v] \in Records
      /\ [M.rec[p] EXCEPT !.next = v] \in Records
  BY DEF Maps, Records
<1> QED
  BY <1>1, RecordWritten, Zenon

(* Writing the head of the list changes no record.                         *)
LEMMA HeadWritten ==
  ASSUME NEW M \in Maps, NEW v \in PN
  PROVE  LET N == [M EXCEPT !.all_mapped_pages = v]
         IN  /\ N \in Maps /\ N.all_mapped_pages = v
             /\ N.rec = M.rec /\ N.aborted = M.aborted
BY DEF Maps

(* Linking a page that is not tracked. *)
LEMMA LinkHolds ==
  ASSUME NEW M, NEW L, Holds(M, L), NEW p \in Pages, p \notin TrackedIn(M)
  PROVE  /\ Holds(link(M, p), <<p>> \o L)
         /\ TrackedIn(link(M, p)) = TrackedIn(M) \cup {p}
<1> DEFINE N    == link(M, p)
           head == M.all_mapped_pages
<1>1. M \in Maps /\ ~ M.aborted /\ NULL \notin Pages
  BY MemlibAssumption DEF Holds, MemlibAssumption, NULL, Pages
<1>2. Linked(L, Pages, NULL, head, NextOf(M), PrevOf(M)) /\ Elems(L) = TrackedIn(M)
  BY DEF Holds
<1>3. head # p /\ M.rec[p].addr = NULL
  <2>1. head \in TrackedIn(M) \cup {NULL}
    BY <1>2 DEF Linked, At, Elems
  <2> QED
    BY <1>1, <2>1 DEF TrackedIn
<1>4. /\ N \in Maps /\ ~ N.aborted /\ N.all_mapped_pages = p
      /\ N.rec[p] = [addr |-> p, prev |-> NULL, next |-> head]
      /\ \A q \in Pages \ {p} :
           N.rec[q] = IF q = head THEN [M.rec[q] EXCEPT !.prev = p] ELSE M.rec[q]
  <2> DEFINE r  == [addr |-> p, prev |-> NULL, next |-> head]
             M1 == [M EXCEPT !.rec[p] = r]
             M2 == IF head # NULL THEN [M1 EXCEPT !.rec[head].prev = p] ELSE M1
  <2>1. N = [M2 EXCEPT !.all_mapped_pages = p]
    BY <1>3 DEF link
  <2>2. r \in Records /\ p \in PN /\ head \in PN /\ (head # NULL => head \in Pages)
    BY <1>1 DEF Records, Maps, PN
  <2>3. Writes(M1, M, p, r)
    BY <1>1, <2>2, RecordWritten
  <2> HIDE DEF M1
  <2>4. CASE head = NULL
    <3>1. N = [M1 EXCEPT !.all_mapped_pages = p]
      BY <2>1, <2>4
    <3>2. N \in Maps /\ N.all_mapped_pages = p /\ N.rec = M1.rec /\ N.aborted = M1.aborted
      BY <2>2, <2>3, <3>1, HeadWritten DEF Writes
    <3> QED
      BY <1>1, <2>2, <2>3, <2>4, <3>2 DEF Writes
  <2>5. CASE head # NULL
    <3> DEFINE O == [M1 EXCEPT !.rec[head].prev = p]
    <3>1. N = [O EXCEPT !.all_mapped_pages = p]
      BY <2>1, <2>5
    <3>2. Writes(O, M1, head, [M1.rec[head] EXCEPT !.prev = p])
      <4>1. M1 \in Maps
        BY <2>3 DEF Writes
      <4> QED
        BY <2>2, <2>5, <4>1, FieldWritten
    <3> HIDE DEF O
    <3>3. N \in Maps /\ N.all_mapped_pages = p /\ N.rec = O.rec /\ N.aborted = O.aborted
      BY <2>2, <3>1, <3>2, HeadWritten DEF Writes
    <3> QED
      BY <1>1, <1>3, <2>2, <2>3, <2>5, <3>2, <3>3 DEF Writes
  <2> QED
    BY <2>4, <2>5
<1> HIDE DEF N
<1>5. TrackedIn(N) = TrackedIn(M) \cup {p}
  <2>1. \A q \in Pages \ {p} : M.rec[q] \in Records /\ N.rec[q].addr = M.rec[q].addr
    <3> SUFFICES ASSUME NEW q \in Pages \ {p}
                 PROVE  M.rec[q] \in Records /\ N.rec[q].addr = M.rec[q].addr
      OBVIOUS
    <3>1. M.rec[q] \in Records
      BY <1>1 DEF Maps
    <3>2. N.rec[q] = IF q = head THEN [M.rec[q] EXCEPT !.prev = p] ELSE M.rec[q]
      BY <1>4
    <3> QED
      BY <3>1, <3>2 DEF Records
  <2> QED
    BY <1>1, <1>4, <2>1 DEF TrackedIn
<1>6. /\ Linked(<<p>> \o L, Pages, NULL, p, NextOf(N), PrevOf(N))
      /\ Elems(<<p>> \o L) = Elems(L) \cup {p}
  <2>1. NextOf(N)[p] = head /\ PrevOf(N)[p] = NULL
    BY <1>4 DEF NextOf, PrevOf
  <2>2. \A q \in Elems(L) : /\ NextOf(N)[q] = NextOf(M)[q]
                            /\ PrevOf(N)[q] = IF q = head THEN p ELSE PrevOf(M)[q]
    <3> SUFFICES ASSUME NEW q \in Elems(L)
                 PROVE  /\ N.rec[q].next = M.rec[q].next
                        /\ N.rec[q].prev = IF q = head THEN p ELSE M.rec[q].prev
      BY <1>2 DEF NextOf, PrevOf, TrackedIn
    <3>1. q \in Pages \ {p} /\ M.rec[q] \in Records
      BY <1>1, <1>2 DEF TrackedIn, Maps
    <3> QED
      BY <1>4, <3>1 DEF Records
  <2>3. p \notin Elems(L)
    BY <1>2
  <2> QED
    BY <1>1, <1>2, <2>1, <2>2, <2>3, PushLinked
<1> QED
  BY <1>2, <1>4, <1>5, <1>6 DEF Holds, N

(* Unlinking a tracked page. *)
LEMMA UnlinkHolds ==
  ASSUME NEW M, NEW L, Holds(M, L), NEW k \in 1 .. Len(L)
  PROVE  /\ Holds(unlink(M, L[k]), Without(L, k))
         /\ TrackedIn(unlink(M, L[k])) = TrackedIn(M) \ {L[k]}
         /\ unlink(M, L[k]).all_mapped_pages =
              IF M.rec[L[k]].prev = NULL THEN M.rec[L[k]].next ELSE M.all_mapped_pages
<1> DEFINE p    == L[k]
           N    == unlink(M, p)
           prev == M.rec[p].prev
           next == M.rec[p].next
<1>1. M \in Maps /\ ~ M.aborted /\ NULL \notin Pages
  BY MemlibAssumption DEF Holds, MemlibAssumption, NULL, Pages
<1>2. Linked(L, Pages, NULL, M.all_mapped_pages, NextOf(M), PrevOf(M))
      /\ Elems(L) = TrackedIn(M)
  BY DEF Holds
<1>3. p \in TrackedIn(M) /\ p \in Pages /\ M.rec[p].addr # NULL
  BY <1>2 DEF Elems, TrackedIn
<1>4. prev \in PN /\ next \in PN /\ prev # p /\ next # p
  <2>1. NextOf(M)[p] = At(L, k + 1, NULL) /\ PrevOf(M)[p] = At(L, k - 1, NULL)
    BY <1>2 DEF Linked
  <2>2. \A i, j \in 1 .. Len(L) : L[i] = L[j] => i = j
    BY <1>2 DEF Linked
  <2>3. At(L, k + 1, NULL) # p /\ At(L, k - 1, NULL) # p
    BY <1>1, <1>3, <2>2 DEF At
  <2> QED
    <3>1. M.rec[p] \in Records
      BY <1>1, <1>3 DEF Maps
    <3>2. NextOf(M)[p] = next /\ PrevOf(M)[p] = prev
      BY <1>3 DEF NextOf, PrevOf
    <3> QED
      BY <2>1, <2>3, <3>1, <3>2 DEF Records
<1> HIDE DEF p
<1>5. /\ N \in Maps /\ ~ N.aborted
      /\ N.all_mapped_pages = IF prev = NULL THEN next ELSE M.all_mapped_pages
      /\ N.rec[p].addr = NULL
      /\ \A q \in Pages \ {p} :
           /\ N.rec[q].addr = M.rec[q].addr
           /\ N.rec[q].next = IF q = prev THEN next ELSE M.rec[q].next
           /\ N.rec[q].prev = IF q = next THEN prev ELSE M.rec[q].prev
  <2> DEFINE M1 == [M EXCEPT !.rec[p].addr = NULL]
             M2 == IF prev # NULL THEN [M1 EXCEPT !.rec[prev].next = next]
                   ELSE [M1 EXCEPT !.all_mapped_pages = next]
  <2>1. N = IF next # NULL THEN [M2 EXCEPT !.rec[next].prev = prev] ELSE M2
    BY <1>3 DEF unlink
  <2>2. (prev # NULL => prev \in Pages) /\ (next # NULL => next \in Pages) /\ NULL \in PN
    BY <1>4 DEF PN
  <2>3. \A q \in Pages : M.rec[q] \in Records
    BY <1>1 DEF Maps
  <2>4. Writes(M1, M, p, [M.rec[p] EXCEPT !.addr = NULL])
    BY <1>1, <1>3, <2>2, FieldWritten
  <2> HIDE DEF M1
  <2>5. /\ M2 \in Maps /\ ~ M2.aborted
        /\ M2.all_mapped_pages = IF prev = NULL THEN next ELSE M.all_mapped_pages
        /\ M2.rec[p].addr = NULL
        /\ \A q \in Pages \ {p} :
             /\ M2.rec[q].addr = M.rec[q].addr
             /\ M2.rec[q].next = IF q = prev THEN next ELSE M.rec[q].next
             /\ M2.rec[q].prev = M.rec[q].prev
    <3>1. CASE prev = NULL
      <4>1. /\ M2 \in Maps /\ M2.all_mapped_pages = next
            /\ M2.rec = M1.rec /\ M2.aborted = M1.aborted
        BY <1>4, <2>4, <3>1, HeadWritten DEF Writes
      <4>2. \A q \in Pages \ {p} : q # prev
        BY <1>1, <3>1
      <4> HIDE DEF M2
      <4> QED
        BY <1>1, <1>3, <2>3, <2>4, <3>1, <4>1, <4>2 DEF Writes, Records
    <3>2. CASE prev # NULL
      <4>1. M2 = [M1 EXCEPT !.rec[prev].next = next]
        BY <3>2
      <4>2. Writes(M2, M1, prev, [M1.rec[prev] EXCEPT !.next = next])
        <5>1. M1 \in Maps
          BY <2>4 DEF Writes
        <5> QED
          BY <1>4, <2>2, <3>2, <4>1, <5>1, FieldWritten
      <4> HIDE DEF M2
      <4> QED
        BY <1>1, <1>3, <1>4, <2>2, <2>3, <2>4, <3>2, <4>2 DEF Writes, Records
    <3> QED
      BY <3>1, <3>2
  <2> HIDE DEF M2
  <2>6. CASE next = NULL
    <3>1. N = M2 /\ \A q \in Pages \ {p} : q # next
      BY <1>1, <2>1, <2>6
    <3> QED
      BY <2>5, <3>1
  <2>7. CASE next # NULL
    <3>1. N = [M2 EXCEPT !.rec[next].prev = prev]
      BY <2>1, <2>7
    <3>2. Writes(N, M2, next, [M2.rec[next] EXCEPT !.prev = prev])
      BY <1>4, <2>2, <2>5, <2>7, <3>1, FieldWritten, ZenonT(60)
    <3>3. M2.rec[next] \in Records
      BY <2>2, <2>5, <2>7 DEF Maps
    <3>4. /\ N.rec[next].addr = M2.rec[next].addr /\ N.rec[next].next = M2.rec[next].next
          /\ N.rec[next].prev = prev
      BY <3>2, <3>3 DEF Writes, Records
    <3>5. /\ N \in Maps /\ N.aborted = M2.aborted /\ N.all_mapped_pages = M2.all_mapped_pages
          /\ \A q \in Pages \ {next} : N.rec[q] = M2.rec[q]
      BY <3>2 DEF Writes
    <3> HIDE DEF N, prev, next
    <3>6. ASSUME NEW q \in Pages \ {p}
          PROVE  /\ N.rec[q].addr = M.rec[q].addr
                 /\ N.rec[q].next = IF q = prev THEN next ELSE M.rec[q].next
                 /\ N.rec[q].prev = IF q = next THEN prev ELSE M.rec[q].prev
      <4>1. CASE q = next
        BY <2>5, <3>4, <4>1
      <4>2. CASE q # next
        BY <2>5, <3>5, <4>2
      <4> QED
        BY <4>1, <4>2
    <3>7. N.rec[p] = M2.rec[p]
      BY <1>3, <1>4, <3>5
    <3> QED
      BY <2>5, <3>5, <3>6, <3>7
  <2> QED
    BY <2>6, <2>7
<1> HIDE DEF N
<1>6. TrackedIn(N) = TrackedIn(M) \ {p}
  BY <1>3, <1>5 DEF TrackedIn
<1>7. /\ Linked(Without(L, k), Pages, NULL, N.all_mapped_pages, NextOf(N), PrevOf(N))
      /\ Elems(Without(L, k)) = Elems(L) \ {p}
  <2>1. NextOf(M)[p] = next /\ PrevOf(M)[p] = prev
    BY <1>3 DEF NextOf, PrevOf
  <2>2. \A q \in Elems(L) \ {p} :
          /\ NextOf(N)[q] = IF q = PrevOf(M)[p] THEN NextOf(M)[p] ELSE NextOf(M)[q]
          /\ PrevOf(N)[q] = IF q = NextOf(M)[p] THEN PrevOf(M)[p] ELSE PrevOf(M)[q]
    <3>1. Elems(L) \subseteq Pages
      BY <1>2 DEF TrackedIn
    <3> QED
      BY <1>5, <2>1, <3>1 DEF NextOf, PrevOf
  <2>3. N.all_mapped_pages = IF PrevOf(M)[p] = NULL THEN NextOf(M)[p] ELSE M.all_mapped_pages
    BY <1>5, <2>1
  <2> QED
    <3>1. p = L[k]
      BY DEF p
    <3> QED
      BY <1>1, <1>2, <2>2, <2>3, <3>1, UnlinkLinked
<1> QED
  BY <1>2, <1>5, <1>6, <1>7 DEF Holds, N, p

-----------------------------------------------------------------------------
(* Whatever list a map holds, it holds the one List yields. *)
LEMMA HoldsList ==
  ASSUME NEW M, NEW L, Holds(M, L)
  PROVE  Holds(M, List(M))
<1>1. List(M) = L
  BY ListIsLinked
<1> QED
  BY <1>1

(* Sets of pages are finite, and what one page more or less does to their  *)
(* size.                                                                   *)
LEMMA PageSets ==
  ASSUME NEW S \in SUBSET Pages
  PROVE  /\ IsFiniteSet(S) /\ Cardinality(S) \in 0 .. MaxPage
         /\ \A p \in Pages : /\ p \notin S => Cardinality(S \cup {p}) = Cardinality(S) + 1
                           /\ p \in S => Cardinality(S \ {p}) = Cardinality(S) - 1
<1>1. MaxPage \in Nat
  BY MemlibAssumption DEF MemlibAssumption
<1>2. IsFiniteSet(Pages) /\ Cardinality(Pages) = MaxPage
  BY <1>1, CardinalityUpTo DEF Pages
<1>3. IsFiniteSet(S) /\ Cardinality(S) <= Cardinality(Pages)
  BY <1>2, FS_Subset
<1>4. Cardinality(S) \in Nat
  BY <1>3, FS_CardinalityType
<1>5. ASSUME NEW p \in Pages, p \notin S PROVE Cardinality(S \cup {p}) = Cardinality(S) + 1
  BY <1>3, <1>5, FS_AddElement
<1>6. ASSUME NEW p \in Pages, p \in S PROVE Cardinality(S \ {p}) = Cardinality(S) - 1
  BY <1>3, <1>6, FS_RemoveElement
<1> QED
  BY <1>1, <1>2, <1>3, <1>4, <1>5, <1>6

(* The head of the list is tracked; when there is none nothing is. *)
LEMMA HeadTracked ==
  ASSUME NEW M, NEW L, Holds(M, L)
  PROVE  /\ M.all_mapped_pages = NULL => TrackedIn(M) = {}
         /\ M.all_mapped_pages # NULL => /\ 1 \in 1 .. Len(L) /\ L[1] = M.all_mapped_pages
                                         /\ M.all_mapped_pages \in TrackedIn(M)
                                         /\ M.rec[L[1]].prev = NULL
<1>1. NULL \notin Pages
  BY MemlibAssumption DEF MemlibAssumption, NULL, Pages
<1>2. /\ L \in Seq(Pages) /\ Elems(L) = TrackedIn(M) /\ M.all_mapped_pages = At(L, 1, NULL)
      /\ \A i \in 1 .. Len(L) : PrevOf(M)[L[i]] = At(L, i - 1, NULL)
  BY DEF Holds, Linked
<1>3. Len(L) \in Nat /\ \A i \in 1 .. Len(L) : L[i] \in Pages
  BY <1>2
<1>4. CASE Len(L) = 0
  <2>1. Elems(L) = {} /\ At(L, 1, NULL) = NULL
    BY <1>4 DEF Elems, At
  <2> QED
    BY <1>2, <2>1
<1>5. CASE Len(L) # 0
  <2>1. 1 \in 1 .. Len(L)
    BY <1>3, <1>5
  <2>2. At(L, 1, NULL) = L[1] /\ At(L, 1 - 1, NULL) = NULL
    BY <2>1 DEF At
  <2>3. L[1] \in Pages /\ L[1] \in Elems(L)
    BY <1>3, <2>1 DEF Elems
  <2>4. PrevOf(M)[L[1]] = NULL
    BY <1>2, <2>1, <2>2
  <2> QED
    BY <1>1, <1>2, <2>1, <2>2, <2>3, <2>4 DEF PrevOf
<1> QED
  BY <1>3, <1>4, <1>5

(* A page that the list holds stands somewhere on it. *)
LEMMA OnList ==
  ASSUME NEW M, NEW L, Holds(M, L), NEW p \in TrackedIn(M)
  PROVE  \E k \in 1 .. Len(L) : L[k] = p
BY DEF Holds, Elems

-----------------------------------------------------------------------------
(* The invariant holds at the start. *)
LEMMA IInvInitially ==
  ASSUME Init
  PROVE  IInv
<1>1. MaxPage \in Nat /\ MaxCalls \in Nat
  BY MemlibAssumption DEF MemlibAssumption
<1>2. pm \in Maps /\ ~ pm.aborted /\ pm.all_mapped_pages = NULL /\ Tracked = {}
  <2>1. pm = EmptyMap
    BY DEF Init
  <2> QED
    BY <2>1 DEF EmptyMap, NoRecord, Maps, Records, PN, Tracked, pagemap_is_mapped
<1>3. Linked(<<>>, Pages, NULL, NULL, NextOf(pm), PrevOf(pm)) /\ Elems(<<>>) = {}
  BY DEF Linked, Elems, At
<1>4. TrackedIn(pm) = Tracked
  BY DEF TrackedIn, Tracked, pagemap_is_mapped
<1>5. MapOK
  <2>1. Holds(pm, <<>>)
    BY <1>2, <1>3, <1>4 DEF Holds
  <2> QED
    BY <2>1, HoldsList DEF MapOK
<1>6. BooksOK
  BY <1>1, <1>2 DEF Init, BooksOK
<1>7. LoopOK
  BY DEF Init, LoopOK, Idle, PN
<1>8. CountOK
  BY <1>1, <1>2, FS_EmptySet DEF Init, CountOK
<1> QED
  BY <1>5, <1>6, <1>7, <1>8 DEF IInv

(* A call of mem_map keeps it. *)
LEMMA MemMapKeeps ==
  ASSUME IInv, NEW p \in Pages, NEW n \in Runs, mem_map(p, n)
  PROVE  IInv'
<1>1. MaxPage \in Nat /\ MaxCalls \in Nat /\ n \in Nat /\ n # 0 /\ p \in Nat
  BY MemlibAssumption DEF MemlibAssumption, Pages
<1>2. pm' = pm /\ page_count' = page_count /\ Tracked' = Tracked
      /\ activity_counter' = activity_counter + 1 /\ activity_counter < MaxCalls
  BY DEF mem_map, Tracked
<1>3. PICK x \in Extra(activity_counter') :
        Run(p, n) \subseteq Pages \ (os \cup x) /\ os' = os \cup x \cup Run(p, n)
  BY DEF mem_map
<1>4. x \subseteq Pages
  BY DEF Extra
<1>5. loop' = [fn |-> "map", at |-> p, first |-> p, last |-> p + n - 1]
  BY DEF mem_map, enter
<1>6. MapOK'
  BY <1>2 DEF IInv, MapOK
<1>7. BooksOK'
  <2>1. os' \subseteq Pages /\ os \subseteq os'
    BY <1>3, <1>4 DEF IInv, BooksOK
  <2>2. activity_counter' \in 0 .. MaxCalls
    BY <1>1, <1>2 DEF IInv, BooksOK
  <2> QED
    BY <1>2, <2>1, <2>2 DEF IInv, BooksOK
<1>8. LoopOK'
  <2>1. p + n - 1 \in Run(p, n) /\ p + n - 1 \in Pages
    <3>1. p + n - 1 \in Run(p, n)
      BY <1>1 DEF Run
    <3> QED
      BY <1>3, <3>1
  <2>2. Entered' = {} /\ Ahead' = Run(p, n)
    BY <1>1, <1>5 DEF Entered, Ahead, Run
  <2>3. Ahead' \subseteq os' \ Tracked'
    BY <1>2, <1>3, <2>2 DEF IInv, BooksOK
  <2>4. p <= p + n - 1 /\ p + n - 1 - p + 1 = n
    BY <1>1
  <2>5. /\ loop'.fn = "map" /\ loop'.at = p /\ loop'.first = p /\ loop'.last = p + n - 1
        /\ loop' \in [fn : {"none", "map", "unmap", "reset"}, at : PN, first : PN, last : PN]
    BY <1>5, <2>1 DEF PN
  <2>6. loop'.last - loop'.first + 1 \in Runs /\ loop'.first <= loop'.at /\ loop'.at <= loop'.last
    BY <1>1, <2>4, <2>5
  <2> QED
    BY <2>1, <2>2, <2>3, <2>5, <2>6 DEF LoopOK
<1>9. CountOK'
  BY <1>2, <1>5 DEF IInv, CountOK, LoopOK, Idle, mem_map
<1> QED
  BY <1>6, <1>7, <1>8, <1>9 DEF IInv

(* A turn of the loop of mem_map keeps it. *)
LEMMA MapPageKeeps ==
  ASSUME IInv, map_page
  PROVE  /\ IInv' /\ Tracked' = Tracked \cup {loop.at} /\ loop.at \notin Tracked
<1> DEFINE p == loop.at
           L == List(pm)
<1>1. MaxPage \in Nat /\ Pages \subseteq Nat /\ NULL \notin Pages
  BY MemlibAssumption DEF MemlibAssumption, Pages, NULL
<1> HIDE DEF p
<1>2. /\ loop.first \in Pages /\ p \in Pages /\ loop.last \in Pages
      /\ loop.first <= p /\ p <= loop.last /\ loop.last - loop.first + 1 \in Runs
      /\ Entered \subseteq Tracked /\ Ahead \subseteq os \ Tracked
  BY DEF IInv, LoopOK, map_page, p
<1>3. p \in Ahead /\ p \notin Tracked
  <2>1. p \in Nat /\ loop.last \in Nat /\ p <= loop.last
    BY <1>1, <1>2
  <2>2. p \in Ahead
    BY <2>1 DEF Ahead, p
  <2> QED
    BY <1>2, <2>2
<1>4. TrackedIn(pm) = Tracked /\ Tracked' = TrackedIn(pm')
  BY DEF TrackedIn, Tracked, pagemap_is_mapped
<1>5. pm' = link(pm, p)
  BY DEF map_page, pagemap_modify, p
<1>6. Holds(pm', <<p>> \o L) /\ TrackedIn(pm') = TrackedIn(pm) \cup {p}
  <2>1. Holds(pm, L)
    BY DEF IInv, MapOK
  <2> HIDE DEF L
  <2> QED
    BY <1>2, <1>3, <1>4, <1>5, <2>1, LinkHolds
<1>7. MapOK'
  BY <1>6, HoldsList DEF MapOK
<1>8. Tracked' = Tracked \cup {p}
  BY <1>4, <1>6
<1>9. BooksOK'
  BY <1>2, <1>3, <1>8 DEF IInv, BooksOK, map_page
<1>10. LoopOK'
  <2>1. CASE p = loop.last
    BY <2>1 DEF map_page, turn, LoopOK, Idle, PN, p
  <2>2. CASE p # loop.last
    <3>1. loop' = [loop EXCEPT !.at = p + 1] /\ loop.fn = "map"
          /\ loop \in [fn : {"none", "map", "unmap", "reset"}, at : PN, first : PN, last : PN]
      BY <2>2 DEF map_page, turn, IInv, LoopOK, p
    <3>2. /\ loop'.fn = "map" /\ loop'.at = p + 1
          /\ loop'.first = loop.first /\ loop'.last = loop.last
      BY <3>1
    <3>3. p + 1 \in Pages /\ loop.first <= p + 1 /\ p + 1 <= loop.last
      BY <1>1, <1>2, <2>2 DEF Pages
    <3>4. Entered' = Entered \cup {p} /\ Ahead' = Ahead \ {p}
      <4>1. /\ p \in Nat /\ loop.last \in Nat /\ loop.first \in Nat
            /\ loop.first <= p /\ p <= loop.last /\ p # loop.last
        BY <1>1, <1>2, <2>2
      <4>2. loop.first .. (p + 1) - 1 = (loop.first .. p - 1) \cup {p}
        BY <4>1
      <4>3. (p + 1) .. loop.last = (p .. loop.last) \ {p}
        BY <4>1
      <4> QED
        BY <3>2, <4>2, <4>3 DEF Entered, Ahead, p
    <3>5. os' = os
      BY DEF map_page
    <3>6. loop' \in [fn : {"none", "map", "unmap", "reset"}, at : PN, first : PN, last : PN]
      BY <3>1, <3>3 DEF PN
    <3> QED
      BY <1>2, <1>8, <3>2, <3>3, <3>4, <3>5, <3>6 DEF LoopOK
  <2> QED
    BY <2>1, <2>2
<1>11. CountOK'
  <2>1. Tracked \subseteq Pages /\ page_count' = page_count + 1 /\ page_count = Cardinality(Tracked)
    BY DEF map_page, IInv, CountOK, Tracked
  <2>2. Cardinality(Tracked') = Cardinality(Tracked) + 1
    BY <1>2, <1>3, <1>8, <2>1, PageSets
  <2>3. Tracked' \subseteq Pages
    BY <1>2, <1>8, <2>1
  <2>4. Cardinality(Tracked') \in 0 .. MaxPage
    BY <2>3, PageSets
  <2> QED
    BY <2>1, <2>2, <2>4 DEF CountOK
<1> QED
  BY <1>3, <1>7, <1>8, <1>9, <1>10, <1>11 DEF IInv, p

(* A call of mem_unmap keeps it. *)
LEMMA MemUnmapKeeps ==
  ASSUME IInv, NEW p \in Pages, NEW n \in Runs, mem_unmap(p, n)
  PROVE  /\ IInv' /\ Ahead' = Run(p, n) /\ Run(p, n) \subseteq Tracked
<1>1. MaxPage \in Nat /\ n \in Nat /\ n # 0 /\ p \in Nat
  BY MemlibAssumption DEF MemlibAssumption, Pages
<1>2. /\ pm' = pm /\ page_count' = page_count /\ Tracked' = Tracked
      /\ activity_counter' = activity_counter /\ os' = os /\ loop = Idle
  BY DEF mem_unmap, Tracked
<1>3. Run(p, n) \subseteq Tracked
  BY DEF mem_unmap, Tracked
<1>4. loop' = [fn |-> "unmap", at |-> p, first |-> p, last |-> p + n - 1]
  BY DEF mem_unmap, enter
<1>5. Entered' = {} /\ Ahead' = Run(p, n)
  BY <1>1, <1>4 DEF Entered, Ahead, Run
<1>6. MapOK'
  BY <1>2 DEF IInv, MapOK
<1>7. BooksOK'
  BY <1>2 DEF IInv, BooksOK
<1>8. LoopOK'
  <2>1. p + n - 1 \in Pages
    <3>1. p + n - 1 \in Run(p, n)
      BY <1>1 DEF Run
    <3> QED
      BY <1>3, <3>1 DEF Tracked
  <2>2. /\ loop'.fn = "unmap" /\ loop'.at = p /\ loop'.first = p /\ loop'.last = p + n - 1
        /\ loop' \in [fn : {"none", "map", "unmap", "reset"}, at : PN, first : PN, last : PN]
    BY <1>4, <2>1 DEF PN
  <2>3. p <= p + n - 1 /\ p + n - 1 - p + 1 = n
    BY <1>1
  <2>4. loop'.last - loop'.first + 1 \in Runs /\ loop'.first <= loop'.at /\ loop'.at <= loop'.last
    BY <1>1, <2>2, <2>3
  <2> QED
    BY <1>2, <1>3, <1>5, <2>1, <2>2, <2>4 DEF LoopOK
<1>9. CountOK'
  BY <1>2, <1>4 DEF IInv, CountOK, Idle
<1> QED
  BY <1>3, <1>5, <1>6, <1>7, <1>8, <1>9 DEF IInv

(* What unlinking page p of the list makes of the books: used by the loops *)
(* of mem_unmap and of mem_reset.                                          *)
LEMMA UnlinkKeepsMap ==
  ASSUME IInv, NEW p \in Tracked, pm' = unlink(pm, p)
  PROVE  /\ MapOK' /\ Tracked' = Tracked \ {p}
         /\ pm'.all_mapped_pages =
               IF pm.rec[p].prev = NULL THEN pm.rec[p].next ELSE pm.all_mapped_pages
<1> DEFINE L == List(pm)
<1>1. Holds(pm, L) /\ TrackedIn(pm) = Tracked /\ Tracked' = TrackedIn(pm')
  BY DEF IInv, MapOK, TrackedIn, Tracked, pagemap_is_mapped
<1> HIDE DEF L
<1>2. PICK k \in 1 .. Len(L) : L[k] = p
  BY <1>1, OnList
<1>3. /\ Holds(pm', Without(L, k))
      /\ TrackedIn(pm') = TrackedIn(pm) \ {p}
      /\ pm'.all_mapped_pages =
            IF pm.rec[p].prev = NULL THEN pm.rec[p].next ELSE pm.all_mapped_pages
  BY <1>1, <1>2, UnlinkHolds
<1>4. MapOK'
  BY <1>3, HoldsList DEF MapOK
<1> QED
  BY <1>1, <1>3, <1>4

(* A turn of the loop of mem_unmap keeps it. *)
LEMMA UnmapPageKeeps ==
  ASSUME IInv, unmap_page
  PROVE  IInv' /\ Tracked' = Tracked \ {loop.at} /\ loop.at \in Tracked
<1> DEFINE p == loop.at
<1>1. MaxPage \in Nat /\ Pages \subseteq Nat
  BY MemlibAssumption DEF MemlibAssumption, Pages
<1> HIDE DEF p
<1>2. /\ loop.first \in Pages /\ p \in Pages /\ loop.last \in Pages
      /\ loop.first <= p /\ p <= loop.last /\ loop.last - loop.first + 1 \in Runs
      /\ Ahead \subseteq Tracked /\ Entered \cap Tracked = {}
  BY DEF IInv, LoopOK, unmap_page, p
<1>3. p \in Tracked
  <2>1. p \in Nat /\ loop.last \in Nat /\ p <= loop.last
    BY <1>1, <1>2
  <2>2. p \in Ahead
    BY <2>1 DEF Ahead, p
  <2> QED
    BY <1>2, <2>2
<1>4. pm' = unlink(pm, p)
  BY <1>3 DEF unmap_page, pagemap_modify, Tracked, p
<1>5. MapOK' /\ Tracked' = Tracked \ {p}
  BY <1>3, <1>4, UnlinkKeepsMap
<1>6. p \in Nat /\ loop.last \in Nat /\ loop.first \in Nat /\ loop.first <= p /\ p <= loop.last
  BY <1>1, <1>2
<1>7. BooksOK'
  <2>1. CASE p = loop.last
    <3>1. os' = os \ (loop.first .. loop.last)
      BY <2>1 DEF unmap_page, p
    <3>2. loop.first .. loop.last = Entered \cup {p}
      <4>1. loop.first .. p = (loop.first .. p - 1) \cup {p}
        BY <1>6
      <4> QED
        BY <2>1, <4>1 DEF Entered, p
    <3> QED
      BY <1>2, <1>5, <3>1, <3>2 DEF IInv, BooksOK, unmap_page
  <2>2. CASE p # loop.last
    <3>1. os' = os
      BY <2>2 DEF unmap_page, p
    <3> QED
      BY <1>5, <3>1 DEF IInv, BooksOK, unmap_page
  <2> QED
    BY <2>1, <2>2
<1>8. LoopOK'
  <2>1. CASE p = loop.last
    BY <2>1 DEF unmap_page, turn, LoopOK, Idle, PN, p
  <2>2. CASE p # loop.last
    <3>1. loop' = [loop EXCEPT !.at = p + 1] /\ loop.fn = "unmap"
          /\ loop \in [fn : {"none", "map", "unmap", "reset"}, at : PN, first : PN, last : PN]
      BY <2>2 DEF unmap_page, turn, IInv, LoopOK, p
    <3>2. /\ loop'.fn = "unmap" /\ loop'.at = p + 1
          /\ loop'.first = loop.first /\ loop'.last = loop.last
      BY <3>1
    <3>3. p + 1 \in Pages /\ loop.first <= p + 1 /\ p + 1 <= loop.last
      BY <1>1, <1>2, <2>2 DEF Pages
    <3>4. Entered' = Entered \cup {p} /\ Ahead' = Ahead \ {p}
      <4>1. loop.first .. (p + 1) - 1 = (loop.first .. p - 1) \cup {p}
        BY <1>6
      <4>2. (p + 1) .. loop.last = (p .. loop.last) \ {p}
        BY <1>6
      <4> QED
        BY <3>2, <4>1, <4>2 DEF Entered, Ahead, p
    <3>5. loop' \in [fn : {"none", "map", "unmap", "reset"}, at : PN, first : PN, last : PN]
      BY <3>1, <3>3 DEF PN
    <3> QED
      BY <1>2, <1>5, <3>2, <3>3, <3>4, <3>5 DEF LoopOK
  <2> QED
    BY <2>1, <2>2
<1>9. CountOK'
  <2>1. Tracked \subseteq Pages /\ page_count' = page_count - 1 /\ page_count = Cardinality(Tracked)
    BY DEF unmap_page, IInv, CountOK, Tracked
  <2>2. Cardinality(Tracked') = Cardinality(Tracked) - 1
    BY <1>2, <1>3, <1>5, <2>1, PageSets
  <2>3. Tracked' \subseteq Pages
    BY <1>5, <2>1
  <2>4. Cardinality(Tracked') \in 0 .. MaxPage
    BY <2>3, PageSets
  <2> QED
    BY <2>1, <2>2, <2>4 DEF CountOK
<1> QED
  BY <1>3, <1>5, <1>7, <1>8, <1>9 DEF IInv, p

(* The call of mem_reset, the turns of its loop and its end keep it.       *)
LEMMA MemResetKeeps ==
  ASSUME IInv, mem_reset
  PROVE  IInv'
<1>1. UNCHANGED <<pm, page_count, activity_counter, os>> /\ Tracked' = Tracked
  BY DEF mem_reset, Tracked
<1>2. loop' = [fn |-> "reset", at |-> pm.all_mapped_pages, first |-> NULL, last |-> NULL]
  BY DEF mem_reset, Idle
<1>3. MapOK' /\ BooksOK' /\ CountOK'
  BY <1>1, <1>2 DEF IInv, MapOK, BooksOK, CountOK
<1>4. LoopOK'
  <2>1. pm.all_mapped_pages \in PN /\ NULL \in PN
    BY DEF IInv, MapOK, Holds, Maps, PN
  <2> QED
    BY <1>1, <1>2, <2>1 DEF LoopOK
<1> QED
  BY <1>3, <1>4 DEF IInv

(* A round of mem_reset unmaps a page and goes on with the rest of the     *)
(* list.                                                                   *)
LEMMA ResetPageKeeps ==
  ASSUME IInv, reset_page
  PROVE  IInv'
<1> DEFINE p == pm.all_mapped_pages
           L == List(pm)
<1>1. /\ Holds(pm, L) /\ TrackedIn(pm) = Tracked /\ pm \in Maps
  BY DEF IInv, MapOK, TrackedIn, Tracked, pagemap_is_mapped, Holds
<1>2. loop.at = p /\ p # NULL /\ loop.fn = "reset"
  BY DEF IInv, LoopOK, reset_page
<1>3. p \in Tracked /\ pm.rec[p].prev = NULL
  BY <1>1, <1>2, HeadTracked
<1>4. pm' = unlink(pm, p)
  BY <1>2 DEF reset_page, pagemap_modify
<1>5. MapOK' /\ Tracked' = Tracked \ {p} /\ pm'.all_mapped_pages = pm.rec[p].next
  BY <1>3, <1>4, UnlinkKeepsMap
<1>6. BooksOK'
  BY <1>2, <1>5 DEF IInv, BooksOK, reset_page
<1>7. LoopOK'
  <2>1. loop' = [loop EXCEPT !.at = pm.rec[p].next]
        /\ loop \in [fn : {"none", "map", "unmap", "reset"}, at : PN, first : PN, last : PN]
    BY <1>2 DEF reset_page, IInv, LoopOK
  <2>2. pm.rec[p].next \in PN
    <3>1. pm.rec[p] \in Records
      BY <1>1, <1>3 DEF Maps, Tracked
    <3> QED
      BY <3>1 DEF Records
  <2>3. loop' \in [fn : {"none", "map", "unmap", "reset"}, at : PN, first : PN, last : PN]
        /\ loop'.fn = "reset" /\ loop'.at = pm.rec[p].next
    BY <1>2, <2>1, <2>2
  <2> QED
    BY <1>5, <2>3 DEF LoopOK
<1>8. CountOK'
  <2>1. loop'.fn = "reset" /\ page_count' = page_count
    BY <1>2, <1>7 DEF reset_page, IInv, LoopOK
  <2> QED
    BY <2>1 DEF IInv, CountOK
<1> QED
  BY <1>5, <1>6, <1>7, <1>8 DEF IInv

(* mem_reset ends when the list is empty, so that no page is tracked.      *)
LEMMA ResetEndKeeps ==
  ASSUME IInv, reset_end
  PROVE  IInv' /\ Tracked' = {}
<1>1. pm \in Maps /\ pm.all_mapped_pages = NULL /\ loop.at = NULL
  BY DEF IInv, MapOK, Holds, LoopOK, reset_end
<1>2. pm' = pm
  BY <1>1 DEF reset_end, Maps
<1>3. Tracked' = {}
  <2>1. TrackedIn(pm) = {}
    BY <1>1, HeadTracked DEF IInv, MapOK
  <2> QED
    BY <1>2, <2>1 DEF TrackedIn, Tracked, pagemap_is_mapped
<1>4. MapOK'
  BY <1>2 DEF IInv, MapOK
<1>5. BooksOK' /\ CountOK'
  <2>1. MaxPage \in Nat /\ MaxCalls \in Nat
    BY MemlibAssumption DEF MemlibAssumption
  <2> QED
    BY <1>3, <2>1, FS_EmptySet DEF IInv, BooksOK, CountOK, reset_end
<1>6. LoopOK'
  BY DEF reset_end, LoopOK, Idle, PN
<1> QED
  BY <1>3, <1>4, <1>5, <1>6 DEF IInv

(* Every step keeps it. *)
LEMMA IInvKept ==
  ASSUME IInv, [Next]_vars
  PROVE  IInv'
<1>1. CASE \E p \in Pages, n \in Runs : mem_map(p, n)
  BY <1>1, MemMapKeeps
<1>2. CASE \E p \in Pages, n \in Runs : mem_unmap(p, n)
  BY <1>2, MemUnmapKeeps
<1>3. CASE mem_reset
  BY <1>3, MemResetKeeps
<1>4. CASE map_page
  BY <1>4, MapPageKeeps
<1>5. CASE unmap_page
  BY <1>5, UnmapPageKeeps
<1>6. CASE reset_page
  BY <1>6, ResetPageKeeps
<1>7. CASE reset_end
  BY <1>7, ResetEndKeeps
<1>8. CASE UNCHANGED vars
  BY <1>8 DEF vars, IInv, MapOK, BooksOK, LoopOK, CountOK, Tracked, Entered, Ahead
<1> QED
  BY <1>1, <1>2, <1>3, <1>4, <1>5, <1>6, <1>7, <1>8 DEF Next, Call, Step

(* The invariant holds in every reachable state. *)
THEOREM Invariance == Spec => []IInv
<1>1. Init => IInv
  BY IInvInitially
<1>2. IInv /\ [Next]_vars => IInv'
  BY IInvKept
<1> QED
  BY <1>1, <1>2, PTL DEF Spec

(* Every variable has its type: page_count stays within the pages there    *)
(* are, though its decrement in mem_unmap is not guarded.                  *)
THEOREM TypeCorrect == Spec => []TypeOK
<1>1. IInv => TypeOK
  <2> SUFFICES ASSUME IInv PROVE TypeOK
    OBVIOUS
  <2>1. pm \in Maps
    BY DEF IInv, MapOK, Holds
  <2>2. /\ pm.rec \in [Pages -> [addr : Pages \cup {NULL}, prev : Pages \cup {NULL},
                               next : Pages \cup {NULL}]]
        /\ pm.all_mapped_pages \in Pages \cup {NULL} /\ pm.aborted \in BOOLEAN
    BY <2>1 DEF Maps, Records, PN
  <2>3. loop.fn \in {"none", "map", "unmap", "reset"}
        /\ {loop.at, loop.first, loop.last} \subseteq Pages \cup {NULL}
    BY DEF IInv, LoopOK, PN
  <2> QED
    BY <2>2, <2>3 DEF TypeOK, IInv, BooksOK, CountOK
<1> QED
  BY <1>1, Invariance, PTL

(* The list that all_mapped_pages starts holds exactly the tracked pages,  *)
(* once each, and the prev links are the inverse of the next links,        *)
(* whatever was mapped and unmapped in whatever order.                     *)
THEOREM ListCorrect == Spec => []ListExact
<1>1. IInv => ListExact
  <2> SUFFICES ASSUME IInv PROVE ListExact
    OBVIOUS
  <2> DEFINE L == List(pm)
  <2>1. /\ Linked(L, Pages, NULL, pm.all_mapped_pages, NextOf(pm), PrevOf(pm))
        /\ Elems(L) = Tracked
    BY DEF IInv, MapOK, Holds, TrackedIn, Tracked, pagemap_is_mapped
  <2> HIDE DEF L
  <2>2. L \in Seq(Pages) /\ DOMAIN L = 1 .. Len(L) /\ \A i \in 1 .. Len(L) : L[i] \in Pages
    BY <2>1 DEF Linked
  <2>3. IsInjective(L)
    BY <2>1, <2>2 DEF Linked, IsInjective
  <2>4. ToSet(L) = Tracked
    BY <2>1, <2>2 DEF ToSet, Elems
  <2>5. ASSUME NEW i \in DOMAIN L
        PROVE  pm.rec[L[i]].prev = IF i = 1 THEN NULL ELSE L[i - 1]
    <3>1. PrevOf(pm)[L[i]] = At(L, i - 1, NULL)
      BY <2>1, <2>2 DEF Linked
    <3>2. PrevOf(pm)[L[i]] = pm.rec[L[i]].prev
      BY <2>2 DEF PrevOf
    <3>3. Len(L) \in Nat /\ i \in 1 .. Len(L)
      BY <2>2
    <3>4. At(L, i - 1, NULL) = IF i = 1 THEN NULL ELSE L[i - 1]
      BY <3>3 DEF At
    <3> QED
      BY <3>1, <3>2, <3>4
  <2> QED
    BY <2>3, <2>4, <2>5 DEF ListExact, L
<1> QED
  BY <1>1, Invariance, PTL

(* What the page map says is mapped is mapped, in the middle of the loops  *)
(* too, and no call on pages that were handed out aborts.                  *)
THEOREM MapCorrect == Spec => []MapExact
<1>1. IInv => MapExact
  BY DEF IInv, MapOK, BooksOK, Holds, MapExact, TrackedIsMapped, NoAbort
<1> QED
  BY <1>1, Invariance, PTL

-----------------------------------------------------------------------------
(* The set of pages and its size that the page map and the counter stand   *)
(* for, as the refinement mapping of Supply has it.                        *)
Mapped == CASE loop.fn = "none"  -> Tracked
            [] loop.fn = "map"   -> Tracked \ Entered
            [] loop.fn = "unmap" -> Tracked \ Ahead
            [] loop.fn = "reset" -> {}

Position == CASE loop.fn = "none"  -> page_count
          [] loop.fn = "map"   -> page_count - Cardinality(Entered)
          [] loop.fn = "unmap" -> page_count - Cardinality(Ahead)
          [] loop.fn = "reset" -> 0

(* The size is the number of pages. *)
LEMMA SizeOfMapped ==
  ASSUME IInv
  PROVE  Position = Cardinality(Mapped) /\ Mapped \subseteq Pages
<1>1. Tracked \subseteq Pages /\ loop.fn \in {"none", "map", "unmap", "reset"}
  BY DEF Tracked, IInv, LoopOK
<1>2. ASSUME NEW S \in SUBSET Tracked
      PROVE  Cardinality(Tracked \ S) = Cardinality(Tracked) - Cardinality(S)
  <2>1. IsFiniteSet(Tracked) /\ IsFiniteSet(S) /\ Tracked \cap S = S
    BY <1>1, PageSets
  <2>2. Cardinality(Tracked \ S) = Cardinality(Tracked) - Cardinality(Tracked \cap S)
    BY <2>1, FS_Difference
  <2> QED
    BY <2>1, <2>2
<1>3. CASE loop.fn = "none"
  BY <1>1, <1>3 DEF Position, Mapped, IInv, CountOK
<1>4. CASE loop.fn = "map"
  BY <1>1, <1>2, <1>4 DEF Position, Mapped, IInv, CountOK, LoopOK
<1>5. CASE loop.fn = "unmap"
  BY <1>1, <1>2, <1>5 DEF Position, Mapped, IInv, CountOK, LoopOK
<1>6. CASE loop.fn = "reset"
  BY <1>6, FS_EmptySet DEF Position, Mapped
<1> QED
  BY <1>1, <1>3, <1>4, <1>5, <1>6

(* Every step of the page map changes the abstract set as an operation of  *)
(* the page supply does, or not at all.                                    *)
LEMMA MappedStep ==
  ASSUME IInv, Next
  PROVE  \/ Mapped' = Mapped
         \/ \E p \in Pages, n \in Runs :
              \/ Run(p, n) \subseteq Pages \ Mapped /\ Mapped' = Mapped \cup Run(p, n)
              \/ Run(p, n) \subseteq Mapped /\ Mapped' = Mapped \ Run(p, n)
         \/ Mapped' = {}
<1>0. MaxPage \in Nat /\ Pages \subseteq Nat /\ Runs \subseteq Nat \ {0}
  BY MemlibAssumption DEF MemlibAssumption, Pages
<1>1. ASSUME NEW p \in Pages, NEW n \in Runs, mem_map(p, n)
      PROVE  Mapped' = Mapped
  <2>1. loop.fn = "none" /\ loop'.fn = "map" /\ Tracked' = Tracked /\ Entered' = {}
    BY <1>0, <1>1 DEF mem_map, enter, Idle, Tracked, Entered
  <2> QED
    BY <2>1 DEF Mapped
<1>2. ASSUME NEW p \in Pages, NEW n \in Runs, mem_unmap(p, n)
      PROVE  Run(p, n) \subseteq Mapped /\ Mapped' = Mapped \ Run(p, n)
  <2>1. loop.fn = "none" /\ loop'.fn = "unmap" /\ Tracked' = Tracked
    BY <1>2 DEF mem_unmap, enter, Idle, Tracked
  <2>2. Ahead' = Run(p, n) /\ Run(p, n) \subseteq Tracked
    BY <1>2, MemUnmapKeeps
  <2> QED
    BY <2>1, <2>2 DEF Mapped
<1>3. ASSUME mem_reset PROVE Mapped' = {}
  BY <1>3 DEF mem_reset, Idle, Mapped
<1>4. ASSUME map_page
      PROVE  \/ Mapped' = Mapped
             \/ \E p \in Pages, n \in Runs :
                  Run(p, n) \subseteq Pages \ Mapped /\ Mapped' = Mapped \cup Run(p, n)
  <2> DEFINE p == loop.at
             f == loop.first
             l == loop.last
             n == l - f + 1
  <2>1. Tracked' = Tracked \cup {p} /\ p \notin Tracked
    BY <1>4, MapPageKeeps
  <2>2. /\ f \in Pages /\ l \in Pages /\ p \in Pages /\ f <= p /\ p <= l /\ n \in Runs
        /\ Entered \subseteq Tracked /\ loop.fn = "map"
        /\ loop \in [fn : {"none", "map", "unmap", "reset"}, at : PN, first : PN, last : PN]
    BY <1>4 DEF IInv, LoopOK, map_page
  <2>3. f \in Nat /\ l \in Nat /\ p \in Nat /\ Tracked \subseteq Pages
    BY <1>0, <2>2 DEF Tracked
  <2>4. Mapped = Tracked \ Entered
    BY <2>2 DEF Mapped
  <2>5. CASE p = l
    <3>1. loop'.fn = "none"
      BY <1>4, <2>5 DEF map_page, turn, Idle
    <3>2. Mapped' = Tracked \cup {p}
      BY <2>1, <3>1 DEF Mapped
    <3>3. Run(f, n) = Entered \cup {p}
      <4>1. f .. f + n - 1 = (f .. p - 1) \cup {p}
        BY <2>2, <2>3, <2>5
      <4> QED
        BY <4>1 DEF Run, Entered
    <3>4. Run(f, n) \subseteq Pages \ Mapped /\ Mapped' = Mapped \cup Run(f, n)
      BY <2>1, <2>2, <2>3, <2>4, <3>2, <3>3
    <3> QED
      BY <2>2, <3>4
  <2>6. CASE p # l
    <3>1. loop' = [loop EXCEPT !.at = p + 1]
      BY <1>4, <2>6 DEF map_page, turn
    <3>2. loop'.fn = "map" /\ loop'.at = p + 1 /\ loop'.first = f
      BY <2>2, <3>1
    <3>3. Entered' = Entered \cup {p}
      <4>1. f .. (p + 1) - 1 = (f .. p - 1) \cup {p}
        BY <2>2, <2>3
      <4> QED
        BY <3>2, <4>1 DEF Entered
    <3>4. Mapped' = Tracked' \ Entered'
      BY <3>2 DEF Mapped
    <3> QED
      BY <2>1, <2>4, <3>3, <3>4
  <2> QED
    BY <2>5, <2>6
<1>5. ASSUME unmap_page PROVE Mapped' = Mapped
  <2> DEFINE p == loop.at
             l == loop.last
  <2>1. Tracked' = Tracked \ {p} /\ p \in Tracked
    BY <1>5, UnmapPageKeeps
  <2>2. /\ l \in Pages /\ p \in Pages /\ p <= l /\ loop.fn = "unmap"
        /\ loop \in [fn : {"none", "map", "unmap", "reset"}, at : PN, first : PN, last : PN]
    BY <1>5 DEF IInv, LoopOK, unmap_page
  <2>3. l \in Nat /\ p \in Nat
    BY <1>0, <2>2
  <2>4. Mapped = Tracked \ Ahead
    BY <2>2 DEF Mapped
  <2>5. CASE p = l
    <3>1. loop'.fn = "none"
      BY <1>5, <2>5 DEF unmap_page, turn, Idle
    <3>2. Ahead = {p}
      BY <2>3, <2>5 DEF Ahead
    <3>3. Mapped' = Tracked'
      BY <3>1 DEF Mapped
    <3> QED
      BY <2>1, <2>4, <3>2, <3>3
  <2>6. CASE p # l
    <3>1. loop' = [loop EXCEPT !.at = p + 1]
      BY <1>5, <2>6 DEF unmap_page, turn
    <3>2. loop'.fn = "unmap" /\ loop'.at = p + 1 /\ loop'.last = l
      BY <2>2, <3>1
    <3>3. Ahead' = Ahead \ {p} /\ p \in Ahead
      <4>1. (p + 1) .. l = (p .. l) \ {p} /\ p \in p .. l
        BY <2>2, <2>3
      <4> QED
        BY <3>2, <4>1 DEF Ahead
    <3>4. Mapped' = Tracked' \ Ahead'
      BY <3>2 DEF Mapped
    <3> QED
      BY <2>1, <2>4, <3>3, <3>4
  <2> QED
    BY <2>5, <2>6
<1>6. ASSUME reset_page PROVE Mapped' = Mapped
  <2>1. loop.fn = "reset" /\ loop'.fn = "reset"
    BY <1>6 DEF reset_page, IInv, LoopOK
  <2> QED
    BY <2>1 DEF Mapped
<1>7. ASSUME reset_end PROVE Mapped' = {}
  <2>1. loop'.fn = "none" /\ Tracked' = {}
    BY <1>7, ResetEndKeeps DEF reset_end, Idle
  <2> QED
    BY <2>1 DEF Mapped
<1>8. CASE Call
  BY <1>1, <1>2, <1>3, <1>8 DEF Call
<1>9. CASE Step
  BY <1>4, <1>5, <1>6, <1>7, <1>9 DEF Step
<1> QED
  BY <1>8, <1>9 DEF Next

(* The page map and the counter implement a set of pages and its size,     *)
(* though the records are entered and taken out one at a time.             *)
THEOREM Refinement == Spec => ImplementsSupply
<1> USE DEF Mapped, Position
<1>1. Init => Supply!Init
  <2> SUFFICES ASSUME Init PROVE Mapped = {} /\ Position = 0
    BY DEF Supply!Init
  <2>1. Tracked = {}
    BY DEF Init, EmptyMap, NoRecord, Tracked, pagemap_is_mapped
  <2> QED
    BY <2>1 DEF Init, Idle
<1>2. IInv /\ IInv' /\ [Next]_vars => [Supply!Next]_(Supply!vars)
  <2> SUFFICES ASSUME IInv, IInv', [Next]_vars
               PROVE  \/ Supply!Next
                      \/ Mapped' = Mapped /\ Position' = Position
    BY DEF Supply!vars
  <2>1. Position = Cardinality(Mapped) /\ Position' = Cardinality(Mapped')
    <3> HIDE DEF Mapped, Position
    <3>1. IInv => Position = Cardinality(Mapped)
      BY SizeOfMapped
    <3>2. (IInv => Position = Cardinality(Mapped))'
      BY SizeOfMapped, PTL
    <3> QED
      BY <3>1, <3>2
  <2>2. CASE Next
    <3>1. CASE Mapped' = Mapped
      <4> HIDE DEF Mapped, Position
      <4> QED
        BY <2>1, <3>1
    <3>2. CASE Mapped' = {}
      <4>1. Position' = 0
        <5> HIDE DEF Mapped, Position
        <5> QED
          BY <2>1, <3>2, FS_EmptySet
      <4> QED
        BY <3>2, <4>1 DEF Supply!Next, Supply!reset
    <3>3. CASE \E p \in Pages, n \in Runs :
                 Run(p, n) \subseteq Pages \ Mapped /\ Mapped' = Mapped \cup Run(p, n)
      <4>1. PICK p \in Pages, n \in Runs : Run(p, n) \subseteq Pages \ Mapped /\ Mapped' = Mapped \cup Run(p, n)
        BY <3>3, Zenon
      <4>2. Supply!Run(p, n) = Run(p, n)
        BY DEF Supply!Run, Run
      <4>3. Supply!Cardinality(Mapped') = Cardinality(Mapped')
        BY Zenon DEF Supply!Cardinality, Cardinality
      <4>4. Supply!map(p, n)
        BY <2>1, <4>1, <4>2, <4>3, Zenon DEF Supply!map
      <4> QED
        BY <4>4, Zenon DEF Supply!Next
    <3>4. CASE \E p \in Pages, n \in Runs :
                 Run(p, n) \subseteq Mapped /\ Mapped' = Mapped \ Run(p, n)
      <4>1. PICK p \in Pages, n \in Runs : Run(p, n) \subseteq Mapped /\ Mapped' = Mapped \ Run(p, n)
        BY <3>4, Zenon
      <4>2. Supply!Run(p, n) = Run(p, n)
        BY DEF Supply!Run, Run
      <4>3. Supply!Cardinality(Mapped') = Cardinality(Mapped')
        BY Zenon DEF Supply!Cardinality, Cardinality
      <4>4. Supply!unmap(p, n)
        BY <2>1, <4>1, <4>2, <4>3, Zenon DEF Supply!unmap
      <4> QED
        BY <4>4, Zenon DEF Supply!Next
    <3> HIDE DEF Mapped, Position
    <3> QED
      BY <2>2, <3>1, <3>2, <3>3, <3>4, MappedStep
  <2>3. CASE UNCHANGED vars
    BY <2>3 DEF vars, Tracked, Entered, Ahead
  <2> QED
    BY <2>2, <2>3
<1> QED
  BY <1>1, <1>2, Invariance, PTL DEF Spec, ImplementsSupply, Supply!Spec
=============================================================================
