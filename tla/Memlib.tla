------------------------------- MODULE Memlib -------------------------------
(***************************************************************************)
(* memlib.c and pagemap.c: the pages the process mapped, kept as records   *)
(* of a table that are chained into a doubly linked list.                  *)
(*                                                                         *)
(* Pages are numbered; the record of a page is found from its number (the  *)
(* three levels of the table only save memory).  A record outlives its     *)
(* page: unmapping clears addr and leaves the links as they are.           *)
(*                                                                         *)
(* The three functions are loops over pages; one step of the model is one  *)
(* turn of a loop.                                                         *)
(***************************************************************************)
EXTENDS Integers, Sequences, SequencesExt, FiniteSets

CONSTANTS
  MaxPage,   \* bound of the model: mmap hands out pages 1 .. MaxPage
  Runs,      \* bound of the model: page counts asked of mem_map
  MaxCalls   \* bound of the model: mem_map calls between two mem_reset

ASSUME MemlibAssumption ==
  /\ MaxPage \in Nat /\ MaxCalls \in Nat
  /\ Runs \subseteq Nat \ {0}

VARIABLES
  pm,                \* the page map: its records and all_mapped_pages
  page_count,
  activity_counter,
  os,                \* the pages the system maps for this process
  loop               \* the function whose loop runs, the page it is at, and
                     \* the first and last page of the run it was called with

vars == <<pm, page_count, activity_counter, os, loop>>

NULL  == 0
Pages == 1 .. MaxPage

Run(p, n) == p .. p + n - 1

-----------------------------------------------------------------------------
(* pagemap.c *)
NoRecord == [addr |-> NULL, prev |-> NULL, next |-> NULL]

EmptyMap == [rec              |-> [p \in Pages |-> NoRecord],
             all_mapped_pages |-> NULL,
             aborted          |-> FALSE]

pagemap_is_mapped(M, p) == M.rec[p].addr # NULL

Abort(M) == [M EXCEPT !.aborted = TRUE]

(* Mutant: the head is moved before the page is linked to it. *)
link_Itself(M, p) ==
  LET head == M.all_mapped_pages
      M1 == [M EXCEPT !.rec[p] = [addr |-> p, prev |-> NULL, next |-> p]]
      M2 == IF head # NULL THEN [M1 EXCEPT !.rec[head].prev = p] ELSE M1
  IN  IF M.rec[p].addr # NULL \/ p = head
      THEN Abort(M)
      ELSE [M2 EXCEPT !.all_mapped_pages = p]

(* A page becomes the head of the list. *)
link(M, p) ==
  LET head == M.all_mapped_pages
      M1 == [M EXCEPT !.rec[p] = [addr |-> p, prev |-> NULL, next |-> head]]
      M2 == IF head # NULL THEN [M1 EXCEPT !.rec[head].prev = p] ELSE M1
  IN  IF M.rec[p].addr # NULL \/ p = head
      THEN Abort(M)
      ELSE [M2 EXCEPT !.all_mapped_pages = p]

(* Mutant: the next page keeps its prev link. *)
unlink_OneWay(M, p) ==
  LET prev == M.rec[p].prev
      next == M.rec[p].next
      M1 == [M EXCEPT !.rec[p].addr = NULL]
  IN  IF M.rec[p].addr = NULL THEN Abort(M)
      ELSE IF prev # NULL THEN [M1 EXCEPT !.rec[prev].next = next]
      ELSE [M1 EXCEPT !.all_mapped_pages = next]

unlink(M, p) ==
  LET prev == M.rec[p].prev
      next == M.rec[p].next
      M1 == [M EXCEPT !.rec[p].addr = NULL]
      M2 == IF prev # NULL THEN [M1 EXCEPT !.rec[prev].next = next]
            ELSE [M1 EXCEPT !.all_mapped_pages = next]
      M3 == IF next # NULL THEN [M2 EXCEPT !.rec[next].prev = prev] ELSE M2
  IN  IF M.rec[p].addr = NULL THEN Abort(M) ELSE M3

pagemap_modify(M, p, mapped) == IF mapped THEN link(M, p) ELSE unlink(M, p)

(* The pages met on the list; a walk longer than MaxPage is on a cycle. *)
List(M) ==
  LET walk[n \in Nat] ==
        [p \in Pages \cup {NULL} |->
           IF p = NULL \/ n = 0 THEN <<>> ELSE <<p>> \o walk[n - 1][M.rec[p].next]]
  IN  walk[MaxPage + 1][M.all_mapped_pages]

-----------------------------------------------------------------------------
(* memlib.c *)
Idle == [fn |-> "none", at |-> NULL, first |-> NULL, last |-> NULL]

Init == /\ pm = EmptyMap
        /\ page_count = 0
        /\ activity_counter = 0
        /\ os = {}
        /\ loop = Idle

PowerOfTwo(c) == \E k \in 0 .. c : c = 2 ^ k

(* At every power of two mem_map maps one page more and forgets it; nobody *)
(* looks whether that succeeds.                                            *)
Extra(c) == IF PowerOfTwo(c) THEN {{}} \cup {{e} : e \in Pages \ os} ELSE {{}}

enter(f, p, n) == loop' = [fn |-> f, at |-> p, first |-> p, last |-> p + n - 1]
turn           == loop' = IF loop.at = loop.last THEN Idle ELSE [loop EXCEPT !.at = @ + 1]

mem_map(p, n) ==
  /\ loop = Idle /\ activity_counter < MaxCalls
  /\ activity_counter' = activity_counter + 1
  /\ \E x \in Extra(activity_counter') :
       /\ Run(p, n) \subseteq Pages \ (os \cup x)
       /\ os' = os \cup x \cup Run(p, n)
  /\ enter("map", p, n)
  /\ UNCHANGED <<pm, page_count>>

map_page ==
  /\ loop.fn = "map"
  /\ pm' = pagemap_modify(pm, loop.at, TRUE)
  /\ page_count' = page_count + 1
  /\ turn /\ UNCHANGED <<activity_counter, os>>

(* Callers give back pages they got. *)
mem_unmap(p, n) ==
  /\ loop = Idle
  /\ \A q \in Run(p, n) : q \in Pages /\ pagemap_is_mapped(pm, q)
  /\ enter("unmap", p, n)
  /\ UNCHANGED <<pm, page_count, activity_counter, os>>

(* The system takes the pages back after the last turn. *)
unmap_page ==
  /\ loop.fn = "unmap"
  /\ pm' = IF pagemap_is_mapped(pm, loop.at) THEN pagemap_modify(pm, loop.at, FALSE)
           ELSE Abort(pm)
  /\ page_count' = page_count - 1
  /\ os' = IF loop.at = loop.last THEN os \ (loop.first .. loop.last) ELSE os
  /\ turn /\ UNCHANGED activity_counter

(* pagemap_for_each(unmap) *)
mem_reset ==
  /\ loop = Idle
  /\ loop' = [Idle EXCEPT !.fn = "reset", !.at = pm.all_mapped_pages]
  /\ UNCHANGED <<pm, page_count, activity_counter, os>>

(* Mutant: the record is not modified. *)
reset_page_NoModify ==
  /\ loop.fn = "reset" /\ loop.at # NULL
  /\ loop' = [loop EXCEPT !.at = pm.rec[loop.at].next]
  /\ os' = os \ {loop.at}
  /\ UNCHANGED <<pm, page_count, activity_counter>>

(* The loop saves next before the page and its record change. *)
reset_page ==
  /\ loop.fn = "reset" /\ loop.at # NULL
  /\ loop' = [loop EXCEPT !.at = pm.rec[loop.at].next]
  /\ os' = os \ {loop.at}
  /\ pm' = pagemap_modify(pm, loop.at, FALSE)
  /\ UNCHANGED <<page_count, activity_counter>>

(* Mutant: the count survives. *)
reset_end_KeepsCount ==
  /\ loop.fn = "reset" /\ loop.at = NULL
  /\ pm' = [pm EXCEPT !.all_mapped_pages = NULL]
  /\ activity_counter' = 0
  /\ loop' = Idle /\ UNCHANGED <<os, page_count>>

reset_end ==
  /\ loop.fn = "reset" /\ loop.at = NULL
  /\ pm' = [pm EXCEPT !.all_mapped_pages = NULL]
  /\ page_count' = 0 /\ activity_counter' = 0
  /\ loop' = Idle /\ UNCHANGED os

Call == \/ \E p \in Pages, n \in Runs : mem_map(p, n) \/ mem_unmap(p, n)
        \/ mem_reset
Step == map_page \/ unmap_page \/ reset_page \/ reset_end

Next == ~ pm.aborted /\ (Call \/ Step)

Spec == Init /\ [][Next]_vars

(* A function that was called runs until it returns or aborts; nothing     *)
(* forces anyone to call one.                                              *)
FairSpec == Spec /\ WF_vars(~ pm.aborted /\ Step)

-----------------------------------------------------------------------------
Tracked == {p \in Pages : pagemap_is_mapped(pm, p)}

TypeOK ==
  /\ pm.rec \in [Pages -> [addr : Pages \cup {NULL}, prev : Pages \cup {NULL},
                           next : Pages \cup {NULL}]]
  /\ pm.all_mapped_pages \in Pages \cup {NULL}
  /\ pm.aborted \in BOOLEAN
  /\ page_count \in 0 .. MaxPage
  /\ activity_counter \in 0 .. MaxCalls
  /\ os \subseteq Pages
  /\ loop.fn \in {"none", "map", "unmap", "reset"}
  /\ {loop.at, loop.first, loop.last} \subseteq Pages \cup {NULL}

(* The list holds exactly the pages whose record is set, once each, with   *)
(* prev links inverse to the next links: pages unmapped in any order, and  *)
(* links left behind in the records of unmapped pages, do not break it.    *)
ListExact ==
  LET L == List(pm) IN
  /\ IsInjective(L) /\ ToSet(L) = Tracked
  /\ \A i \in DOMAIN L : pm.rec[L[i]].prev = IF i = 1 THEN NULL ELSE L[i - 1]

(* What the page map says is mapped is mapped. *)
TrackedIsMapped == Tracked \subseteq os

(* No call on pages that were handed out trips an abort of pagemap.c: the  *)
(* table and the system never disagree.                                    *)
NoAbort == ~ pm.aborted

(* The table, the system and the callers agree on what is mapped, also     *)
(* while a loop is half way through its pages.                             *)
MapExact == TrackedIsMapped /\ NoAbort

(* The page map and the counter implement a set of pages and its size: a   *)
(* run of pages is handed out when the loop that enters it ends, and is    *)
(* given back, or everything is, when the loop that takes it out starts.   *)
Ahead   == loop.at .. loop.last
Entered == loop.first .. loop.at - 1

Supply == INSTANCE PageSupply WITH
  mapped   <- CASE loop.fn = "none"  -> Tracked
                [] loop.fn = "map"   -> Tracked \ Entered
                [] loop.fn = "unmap" -> Tracked \ Ahead
                [] loop.fn = "reset" -> {},
  heapsize <- CASE loop.fn = "none"  -> page_count
                [] loop.fn = "map"   -> page_count - Cardinality(Entered)
                [] loop.fn = "unmap" -> page_count - Cardinality(Ahead)
                [] loop.fn = "reset" -> 0

ImplementsSupply == Supply!Spec

(* Every call returns: the loop of pagemap_for_each follows links of       *)
(* records that it unlinks on the way, and comes to the end of the list.   *)
Returns == loop.fn # "none" ~> loop.fn = "none"
=============================================================================
