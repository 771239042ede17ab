----------------------------- MODULE Intervals -----------------------------
(***************************************************************************)
(* Chunks and blocks of mm.c as intervals of addresses: <<lo, hi>> stands  *)
(* for the granules lo .. hi-1.  How a block is cut, what it touches and   *)
(* what it merges to need no more than this, so the operators serve the    *)
(* interval algorithm (BlockHeap) and the proofs about the words alike.    *)
(***************************************************************************)
EXTENDS Integers

(* In granules: header, footer and page header. *)
HDRSIZE        == 1
FDRSIZE        == 1
PAGEHDRSIZE    == 2
MIN_BLOCK_SIZE == 2

Size(b)      == b[2] - b[1]
Apart(a, b)  == a[2] <= b[1] \/ b[2] <= a[1]
Inside(a, b) == b[1] <= a[1] /\ a[2] <= b[2]
Cells(b)     == b[1] .. b[2] - 1

(* What the blocks of chunk c tile: all of it but its page header. *)
Usable(c) == <<c[1] + PAGEHDRSIZE, c[2]>>

(* Mutant: split_block that cuts whatever the remainder. *)
Splits_Always(size, n) == TRUE

(* A block of size granules is cut when what is left after the first n can *)
(* hold a header, a footer and a minimal payload.                          *)
Splits(size, n) == size - n >= HDRSIZE + MIN_BLOCK_SIZE + FDRSIZE

(* The part of block b that split_block allocates for n granules, and what *)
(* it gives back.                                                          *)
Taken(b, n) == IF Splits(Size(b), n) THEN <<b[1], b[1] + n>> ELSE b
Rest(b, n)  == IF Splits(Size(b), n) THEN {<<b[1] + n, b[2]>>} ELSE {}

(* The blocks of F that end where b starts and start where b ends. *)
Below(F, b) == {p \in F : p[2] = b[1]}
Above(F, b) == {p \in F : p[1] = b[2]}

(* Block b with the blocks of F it touches. *)
Merged(F, b) ==
  <<IF Below(F, b) = {} THEN b[1] ELSE (CHOOSE p \in Below(F, b) : TRUE)[1],
    IF Above(F, b) = {} THEN b[2] ELSE (CHOOSE p \in Above(F, b) : TRUE)[2]>>
=============================================================================
