----------------------------- MODULE Generators -----------------------------
(***************************************************************************)
(* traces/gen_*.pl: the trace files the five scripts write, as records of  *)
(* the two numbers of the header and the requests, without their sizes.    *)
(* n is the number of iterations or blocks.                                *)
(***************************************************************************)
EXTENDS Integers, Sequences, SequencesExt

(* The lines of a trace file. *)
Alloc(id) == [cmd |-> "a", id |-> id]
Realloc(id) == [cmd |-> "r", id |-> id]
Free(id) == [cmd |-> "f", id |-> id]

(* The requests that turn(i) prints for i = m .. n-1, as many in each turn. *)
Loop(m, n, turn(_)) ==
  LET k == Len(turn(m)) IN
  [j \in 1 .. k * (n - m) |-> turn(m + ((j - 1) \div k))[1 + ((j - 1) % k)]]

(* gen_binary.pl, and gen_binary2.pl with other sizes. *)
gen_binary(n) ==
  [num_ids |-> 3 * n, num_ops |-> 4 * n,
   ops |-> Loop(0, n, LAMBDA i : <<Alloc(2 * i), Alloc(2 * i + 1)>>)
             \o Loop(0, n, LAMBDA i : <<Free(2 * i + 1)>>)
             \o Loop(0, n, LAMBDA i : <<Alloc(2 * n + i)>>)]

gen_coalescing(n) ==
  [num_ids |-> 3 * n + 1, num_ops |-> 6 * n + 2,
   ops |-> <<Alloc(3 * n)>>
             \o Loop(0, n, LAMBDA i : <<Alloc(3 * i), Alloc(3 * i + 1), Free(3 * i), Free(3 * i + 1),
                                        Alloc(3 * i + 2), Free(3 * i + 2)>>)
             \o <<Free(3 * n)>>]

gen_realloc2(n) ==
  [num_ids |-> n + 1, num_ops |-> 3 * n + 1,
   ops |-> <<Alloc(0), Alloc(1)>>
             \o Loop(1, n, LAMBDA i : <<Realloc(0), Alloc(i + 1), Free(i)>>)
             \o <<Free(n), Free(0)>>]

(* Mutant: a free may come at its allocation. *)
Places_AtAllocation(len, min) == {min, min + 1}

(* Where a free goes into a list of len requests, counted from 0, when its *)
(* allocation is at min: at int(rand(len - min - 1) + min + 1), where      *)
(* rand(0) is rand(1).                                                     *)
Places(len, min) == IF len - min - 1 = 0 THEN {min + 1} ELSE min + 1 .. len - 1

(* The lists with the free of block i inserted. *)
InsertFree(traces, i) ==
  UNION {{InsertAt(t, pos + 1, Free(i)) :
            pos \in Places(Len(t), SelectInSeq(t, LAMBDA q : q = Alloc(i)) - 1)} : t \in traces}

gen_random(n) ==
  LET allocs == Loop(0, n, LAMBDA i : <<Alloc(i)>>)
      inserted[i \in 0 .. n] ==
        IF i = 0 THEN {allocs} ELSE InsertFree(inserted[i - 1], i - 1) IN
  {[num_ids |-> n, num_ops |-> 2 * n, ops |-> t] : t \in inserted[n]}
=============================================================================
