------------------------------- MODULE Traces -------------------------------
(***************************************************************************)
(* Request lists of a malloc client, as the driver can carry them out.  A  *)
(* request is a record with a command ("a" allocate, "r" reallocate, "f"   *)
(* free) and the id of the block.                                          *)
(***************************************************************************)
EXTENDS Integers, Sequences, FiniteSetsExt

CONSTANT Ids   \* request ids

(* The ids the first n-1 requests of trace tr leave allocated. *)
Before(tr, n) == {i \in Ids :
  \E k \in 1 .. n - 1 : /\ tr[k].cmd = "a" /\ tr[k].id = i
                        /\ \A j \in k + 1 .. n - 1 : ~ (tr[j].cmd = "f" /\ tr[j].id = i)}

(* A client allocates ids that are free and reallocates or frees ids that  *)
(* are not.  An id may be allocated again after its free: traces/README    *)
(* forbids it, but eval_mm_valid keeps one block per id and runs such a    *)
(* trace, and checktrace.pl passes it (see ReusedIdDies).                  *)
WellFormed(tr) ==
  \A n \in DOMAIN tr :
    IF tr[n].cmd = "a" THEN tr[n].id \notin Before(tr, n)
                       ELSE tr[n].id \in Before(tr, n)

Balanced(tr) == WellFormed(tr) /\ Before(tr, Len(tr) + 1) = {}

(* Mutant: the ids are not compared with the header. *)
HeaderHolds_AnyIds(f) == f.num_ops = Len(f.ops)

(* The assertions at the end of read_trace about the header of a trace     *)
(* file.  Ids of free requests do not count, and a trace without requests  *)
(* has the largest id 0.                                                   *)
HeaderHolds(f) ==
  /\ f.num_ids = 1 + Max({0} \cup {f.ops[n].id : n \in {k \in DOMAIN f.ops : f.ops[k].cmd # "f"}})
  /\ f.num_ops = Len(f.ops)
=============================================================================
