------------------------------ MODULE Contract ------------------------------
(***************************************************************************)
(* An allocator that keeps its contract (module Malloc), as the driver     *)
(* sees it: byte addresses, the payloads given out and the pages mapped.   *)
(* The operators map the allocator A to what it may be after a call.       *)
(***************************************************************************)
EXTENDS Integers, FiniteSetsExt

CONSTANTS
  ALIGNMENT,   \* bytes
  PAGE,        \* bytes per page
  Pages,       \* bound of the model: the pages an allocator may use
  Slack,       \* bound of the model: alignment units a payload may be too large
  Extra        \* bound of the model: pages it may map or unmap besides

NULL == 0

Extent(lo, size) == [lo |-> lo, hi |-> lo + size - 1]
Disjoint(r, s)   == r.hi < s.lo \/ s.hi < r.lo
PagesOf(r)       == r.lo \div PAGE .. r.hi \div PAGE

NoPages == [held |-> {}, mapped |-> {}]

Starts == {ALIGNMENT * n : n \in 0 .. (PAGE * (Max(Pages) + 1)) \div ALIGNMENT}

(* Free places that hold size bytes. *)
Places(A, size) ==
  LET units == (size + ALIGNMENT - 1) \div ALIGNMENT IN
  {e \in {Extent(a, ALIGNMENT * (units + k)) : a \in Starts, k \in Slack} :
     PagesOf(e) \subseteq Pages /\ \A h \in A.held : Disjoint(h, e)}

Init(A) == {[ok |-> TRUE, alloc |-> [A EXCEPT !.held = {}]]}

(* What a call of mm_malloc may return, with the allocator after the call. *)
Malloc(A, size) ==
  IF size = 0 THEN {[p |-> NULL, alloc |-> A]}
  ELSE {[p     |-> e.lo,
         alloc |-> [held   |-> A.held \cup {e},
                    mapped |-> A.mapped \cup PagesOf(e) \cup x]] :
          e \in Places(A, size), x \in Extra}

(* It may unmap pages no payload is on. *)
Free(A, p) ==
  LET held   == {h \in A.held : h.lo # p}
      needed == UNION {PagesOf(h) : h \in held}
  IN  {[held |-> held, mapped |-> A.mapped \ (x \ needed)] : x \in Extra}

Reset(A) == NoPages
=============================================================================
