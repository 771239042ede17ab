------------------------------ MODULE MCDriver ------------------------------
(***************************************************************************)
(* Small instances of Driver: every well-formed trace of some length, and  *)
(* two allocators, one that keeps its contract and one that does not.      *)
(***************************************************************************)
EXTENDS Driver

CONSTANTS
  MaxLen,    \* requests of a trace
  OpSizes,   \* bytes a request asks for
  Pages,     \* the pages the allocator may use
  Slack,     \* see Contract
  Headers    \* what a header adds to the true numbers of ids and requests

Requests == [cmd : {"a", "r"}, id : Ids, size : OpSizes]
              \cup [cmd : {"f"}, id : Ids, size : {0}]

(* Ids are first used in increasing order. *)
InOrder(tr) == \A n \in DOMAIN tr :
  \A i \in Ids : i < tr[n].id => \E k \in 1 .. n - 1 : tr[k].id = i

RequestLists == UNION {{tr \in [1 .. n -> Requests] : WellFormed(tr) /\ InOrder(tr)} :
                         n \in 0 .. MaxLen}

IdsOf(tr) == 1 + Max({0} \cup {tr[n].id : n \in DOMAIN tr})

MCTraceFiles ==
  {f \in {[num_ids |-> IdsOf(tr) + h[1], num_ops |-> Len(tr) + h[2], ops |-> tr] :
            tr \in RequestLists, h \in Headers} : f.num_ids >= 0 /\ f.num_ops >= 0}

RightHeader  == {<<0, 0>>}
OddSizes     == {-1, 0, 3, 6}
WrongHeaders == {<<0, 0>>, <<-1, 0>>, <<1, 0>>, <<0, -1>>, <<0, 1>>}

-----------------------------------------------------------------------------
(* The contract, with pages mapped ahead and kept, or not. *)
Addresses == {a \in 0 .. PAGE * (Max(Pages) + 1) - 1 : a \div PAGE \in Pages}

C == INSTANCE Contract WITH Extra <- {{}, Pages}

TrustedInit(A)         == C!Init(A)
TrustedMalloc(A, size) == C!Malloc(A, size)
TrustedFree(A, p)      == C!Free(A, p)
NoAccess(A, p, n, id)  == A
Empty                  == C!NoPages
Unmapped(A)            == C!Reset(A)
MappedPages(A)         == A.mapped
HeldAddresses(A)       == {h.lo : h \in A.held}
Never(A)               == FALSE

(* An allocator that returns any address and maps what it wants. *)
SomePages            == {{}, {Min(Pages)}, Pages}
AnyInit(A)           == [ok : BOOLEAN, alloc : {A}]
AnyMalloc(A, size)   == [p : Addresses \cup {NULL}, alloc : [held : {{}}, mapped : SomePages]]
AnyFree(A, p)        == {A}
=============================================================================
