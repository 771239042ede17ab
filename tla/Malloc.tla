------------------------------- MODULE Malloc -------------------------------
(***************************************************************************)
(* What mm.c promises to its clients, in terms of addresses only.          *)
(*                                                                         *)
(* Addresses are counted in granules of ALIGNMENT bytes, so that every     *)
(* payload starts at an aligned address.  A payload is an interval         *)
(* <<lo, hi>> that stands for the granules lo .. hi-1.                     *)
(***************************************************************************)
EXTENDS Integers

CONSTANTS
  Sizes,   \* the byte counts a client asks for
  Bytes    \* bytes per granule

VARIABLES
  live,    \* the payloads the client holds
  mapped   \* the granules the process has mapped

vars == <<live, mapped>>

-----------------------------------------------------------------------------
Cells(p)       == p[1] .. p[2] - 1
Disjoint(p, q) == Cells(p) \cap Cells(q) = {}

Init == live = {} /\ mapped = {}

(* A request is served with a payload that is large enough, shares nothing *)
(* with the payloads the client holds and lies in mapped memory.  Serving  *)
(* it may map memory and never unmaps any.                                 *)
malloc(sz) ==
  /\ sz # 0
  /\ \E p \in live' :
       /\ (p[2] - p[1]) * Bytes >= sz
       /\ \A q \in live : Disjoint(p, q)
       /\ live' = live \cup {p}
       /\ mapped \subseteq mapped'
       /\ Cells(p) \subseteq mapped'

(* Giving a payload back may unmap memory, but none of another payload.    *)
free(p) ==
  /\ live' = live \ {p}
  /\ mapped' \subseteq mapped
  /\ \A q \in live' : Cells(q) \subseteq mapped'

(* Starting over forgets the payloads; what is mapped stays mapped. *)
init == live' = {} /\ mapped' = mapped

(* Giving all memory back. *)
reset == live' = {} /\ mapped' = {}

Next ==
  \/ \E sz \in Sizes : malloc(sz)
  \/ \E p \in live : free(p)
  \/ init
  \/ reset

Spec == Init /\ [][Next]_vars
=============================================================================
