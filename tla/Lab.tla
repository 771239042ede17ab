-------------------------------- MODULE Lab --------------------------------
(***************************************************************************)
(* The whole program: the driver of module Driver, linked with mm.c as     *)
(* module Words has it.  The driver counts bytes, mm.c granules of 16.     *)
(***************************************************************************)
EXTENDS Integers, FiniteSets, Sequences

CONSTANTS
  PAGE,     \* bytes per page
  MaxPage,  \* bound of the model: mmap hands out pages 1 .. MaxPage
  WORD,     \* see Layout
  Ids, TraceFiles, NumTraces, Reps, RunLibc   \* see Driver

VARIABLES
  phase, tracenum, opnum, reps, files, blocks, block_sizes, ranges,
  stats, mm_stats, errors, score, libc,   \* see Driver
  heap                                    \* mm.c and the pages it mapped

(* The byte counts the traces ask for. *)
Requested ==
  UNION {{f.ops[n].size : n \in {k \in DOMAIN f.ops : f.ops[k].cmd # "f"}} : f \in TraceFiles}

M == INSTANCE Words WITH PAGE <- PAGE \div 16, Sizes <- Requested

NULL  == 0
Pages == 1 .. MaxPage

Addr(g)    == M!ALIGNMENT * g
Granule(a) == a \div M!ALIGNMENT

-----------------------------------------------------------------------------
(* mm.c as the driver calls it. *)
mm_init(H) == {[ok |-> TRUE, alloc |-> M!InitHeap(H)]}

mm_malloc(H, size) ==
  IF size = 0 THEN {[p |-> NULL, alloc |-> H]}
  ELSE {[p |-> Addr(r.p), alloc |-> r.heap] : r \in M!Malloc(H, size)}

mm_free(H, p) == {M!Free(H, Granule(p))}

(* Every byte becomes the id's low byte: a word of them is 0, or larger    *)
(* than any size or address.                                               *)
memset(H, p, size, id) ==
  M!Fill(H, Granule(p) .. Granule(p + size - 1), <<id * WORD, id * WORD>>)

mem_reset(H)   == M!ResetHeap(H)
MappedPages(H) == {g \div (PAGE \div M!ALIGNMENT) : g \in H.mapped}
Held(H)        == {Addr(b[1] + M!HDRSIZE) : b \in M!BlocksOf(H, 1)}

(* abort() in write_footer or mem_unmap, or the fault of a load or store.  *)
Aborted(H) == H.crashed

Prog == INSTANCE Driver WITH
  ALIGNMENT <- M!ALIGNMENT, alloc <- heap, Fresh <- M!EmptyHeap, Mapped <- MappedPages

(* What Layout and Driver assume; a page is a whole number of granules,    *)
(* and no request is for a negative number of bytes.                       *)
ASSUME LabAssumption ==
  /\ PAGE \in Nat \ {0} /\ PAGE % M!ALIGNMENT = 0 /\ WORD \in Nat /\ MaxPage \in Nat
  /\ Ids \subseteq Nat
  /\ \A f \in TraceFiles :
       /\ f.ops \in Seq([cmd : {"a", "r", "f"}, id : Ids, size : Nat])
       /\ Prog!WellFormed(f.ops) /\ f.num_ids \in Nat /\ f.num_ops \in Nat
  /\ NumTraces \in Nat \ {0} /\ Reps \in Nat \ {0}
  /\ RunLibc \in BOOLEAN
  /\ \A sz \in Requested :
       sz + M!ALIGNMENT * (M!HDRSIZE + M!FDRSIZE + M!PAGEHDRSIZE) + PAGE <= M!ALIGNMENT * WORD

Spec == Prog!Spec

-----------------------------------------------------------------------------
Evaluating == phase \in Prog!Evaluations /\ opnum > 0

HasEmpty(f) == \E n \in DOMAIN f.ops : f.ops[n].cmd # "f" /\ f.ops[n].size = 0

(* mm.c passes: main counts an error for a trace that asks for 0 bytes,    *)
(* for which mm_malloc returns NULL, and for no other trace; no evaluation *)
(* ends early, and mm.c never touches a page that is not mapped and never  *)
(* aborts, in write_footer or in mem_unmap, not even on the trace after a  *)
(* failed one, whose pages nobody unmapped.  (munmap does not fail.)       *)
BlamedForEmptyOnly ==
  /\ ~ heap.crashed
  /\ phase = "exit" => \E k \in DOMAIN files : HasEmpty(files[k])
  /\ phase \in Prog!Evaluations \cup {"read", "done"} =>
       errors = Cardinality({k \in 1 .. tracenum - 1 : HasEmpty(files[k])})

(* The client's data are kept: what eval_mm_valid wrote into a block is    *)
(* there as long as the trace holds the block.  (The driver itself never   *)
(* looks.)                                                                 *)
DataKept ==
  Evaluating /\ phase = "valid" =>
    \A i \in Prog!LiveIds :
      \A g \in Granule(blocks[i]) .. Granule(blocks[i] + block_sizes[i] - 1) :
        heap.mem[g] = <<i * WORD, i * WORD>>

(* Linked with mm.c, the driver behaves as with an allocator that keeps    *)
(* the contract of module Contract: what holds with every such allocator   *)
(* holds of this program.                                                  *)
C == INSTANCE Contract WITH
  ALIGNMENT <- M!ALIGNMENT, Slack <- 0 .. M!HDRSIZE + M!MIN_BLOCK_SIZE,
  Extra <- {p .. p + n - 1 : p \in Pages, n \in 0 .. MaxPage}

Payloads(H) ==
  [held   |-> {[lo |-> Addr(b[1] + M!HDRSIZE), hi |-> Addr(b[2] - M!FDRSIZE) - 1] :
                 b \in M!BlocksOf(H, 1)},
   mapped |-> MappedPages(H)]

AbsInit(A)           == C!Init(A)
AbsMalloc(A, size)   == C!Malloc(A, size)
AbsFree(A, p)        == C!Free(A, p)
AbsMemset(A, p, n, i) == A
AbsReset(A)          == C!Reset(A)
AbsMapped(A)         == A.mapped
AbsHeld(A)           == {h.lo : h \in A.held}
AbsAborted(A)        == FALSE

Abs == INSTANCE Driver WITH
  ALIGNMENT <- M!ALIGNMENT, alloc <- Payloads(heap), Fresh <- C!NoPages,
  mm_init <- AbsInit, mm_malloc <- AbsMalloc, mm_free <- AbsFree, memset <- AbsMemset,
  mem_reset <- AbsReset, Mapped <- AbsMapped, Held <- AbsHeld, Aborted <- AbsAborted

ImplementsContract == Abs!Spec
=============================================================================
