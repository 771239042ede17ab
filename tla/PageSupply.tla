----------------------------- MODULE PageSupply -----------------------------
(***************************************************************************)
(* What memlib.c promises to the allocator and the driver: a set of mapped *)
(* pages, and its size.                                                    *)
(***************************************************************************)
EXTENDS Integers, FiniteSets

CONSTANTS
  Pages,   \* page numbers
  Runs     \* bound of the model: the numbers of pages asked for at once

VARIABLES
  mapped,   \* the pages handed out and not given back
  heapsize  \* mem_heapsize, in pages

vars == <<mapped, heapsize>>

Run(p, n) == p .. p + n - 1

Init == mapped = {} /\ heapsize = 0

map(p, n) ==
  /\ Run(p, n) \subseteq Pages \ mapped
  /\ mapped' = mapped \cup Run(p, n)
  /\ heapsize' = Cardinality(mapped')

unmap(p, n) ==
  /\ Run(p, n) \subseteq mapped
  /\ mapped' = mapped \ Run(p, n)
  /\ heapsize' = Cardinality(mapped')

reset == mapped' = {} /\ heapsize' = 0

Next ==
  \/ \E p \in Pages, n \in Runs : map(p, n) \/ unmap(p, n)
  \/ reset

Spec == Init /\ [][Next]_vars
=============================================================================
