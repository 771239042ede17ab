------------------------------- MODULE Driver -------------------------------
(***************************************************************************)
(* mdriver.c: for every trace, check the allocator (eval_mm_valid), and if *)
(* it passes measure its space (eval_mm_util) and time (eval_mm_speed);    *)
(* with -l, run the C library's malloc on the traces before.               *)
(*                                                                         *)
(* The allocator is a parameter: its state is the variable alloc, and its  *)
(* functions are operators on that state.  They are instantiated with the  *)
(* contract of module Contract, with an allocator that returns anything,   *)
(* and with mm.c itself (module Lab).  Addresses are bytes.                *)
(***************************************************************************)
EXTENDS Traces, SequencesExt, FiniteSetsExt

CONSTANTS
  ALIGNMENT,   \* bytes
  PAGE,        \* bytes per page
  TraceFiles,  \* what a trace file may hold: num_ids, num_ops and the requests
  NumTraces,   \* bound of the model: traces of one run
  Reps,        \* times the function is run to be timed: 10 in fsecs
  RunLibc      \* option -l

CONSTANTS      \* the allocator; all but the last three are the calls of the driver
  Fresh,             \* its state when the process starts
  mm_init(_),        \* set of records [ok, alloc]
  mm_malloc(_, _),   \* set of records [p, alloc]
  mm_free(_, _),     \* set of states
  memset(_, _, _, _),
  mem_reset(_),
  Mapped(_),         \* the pages it has mapped
  Held(_),           \* the payload addresses it has given out
  Aborted(_)         \* did it abort the process?

ASSUME DriverAssumption ==
  /\ ALIGNMENT \in Nat \ {0} /\ PAGE \in Nat \ {0}
  /\ Ids \subseteq Nat
  /\ \A f \in TraceFiles :
       /\ f.ops \in Seq([cmd : {"a", "r", "f"}, id : Ids, size : Int])
       /\ WellFormed(f.ops) /\ f.num_ids \in Nat /\ f.num_ops \in Nat
  /\ NumTraces \in Nat \ {0} /\ Reps \in Nat \ {0}
  /\ RunLibc \in BOOLEAN

VARIABLES
  phase,       \* the function that runs, or "libc_read", "read" in main's loops;
               \* "done" at the end of main, "exit" after an error or assert,
               \* "overrun" when what follows is undefined
  tracenum,    \* the trace under way, from 1
  opnum,       \* the operation under way; 0 on entry to a function
  reps,        \* timed calls finished
  files,       \* the trace files
  blocks,      \* id -> payload address
  block_sizes, \* id -> bytes
  ranges,      \* the range list, newest first
  stats,       \* total_size, max_total_size and max_heap_size
  mm_stats,    \* trace -> valid, and util as the two numbers it divides
  errors,
  score,       \* numcorrect and what kind of number perfindex is
  alloc,       \* the allocator
  libc         \* the pointers the C library has given out and not got back

control == <<phase, tracenum, opnum, reps>>
results == <<stats, mm_stats, errors, score>>
vars    == <<control, files, blocks, block_sizes, ranges, results, alloc, libc>>

NULL == 0

trace == files[tracenum].ops
op    == trace[opnum]

Running(f, cmd) == phase = f /\ opnum \in DOMAIN trace /\ op.cmd = cmd
AtEnd(f)        == phase = f /\ opnum = Len(trace) + 1

(* How a step moves on. *)
advance       == opnum' = opnum + 1 /\ UNCHANGED <<phase, tracenum, reps>>
enter(f)      == phase' = f /\ opnum' = 0 /\ reps' = 0 /\ UNCHANGED tracenum
next_trace(f) == phase' = f /\ opnum' = 0 /\ reps' = 0 /\ tracenum' = tracenum + 1
exit          == phase' = "exit" /\ UNCHANGED <<tracenum, opnum, reps>>
overrun       == phase' = "overrun" /\ UNCHANGED <<tracenum, opnum, reps>>

-----------------------------------------------------------------------------
(* Byte ranges. *)
Extent(lo, size) == [lo |-> lo, hi |-> lo + size - 1]
Bytes(r)         == r.lo .. r.hi
Disjoint(r, s)   == r.hi < s.lo \/ s.hi < r.lo
PagesOf(S)       == {a \div PAGE : a \in S}

(* pagemap_is_mapped, and mem_heapsize. *)
is_mapped(A, a) == a \div PAGE \in Mapped(A)
mem_heapsize(A) == PAGE * Cardinality(Mapped(A))

-----------------------------------------------------------------------------
(* The range list. *)

(* The addresses add_range looks up: one per page step, and the last one. *)
Probes(lo, size) == {lo + i : i \in {j \in 0 .. size - 1 : j % PAGE = 0}} \cup {lo + size - 1}

Overlaps(r, q) == \/ r.lo >= q.lo /\ r.lo <= q.hi
                  \/ r.hi >= q.lo /\ r.hi <= q.hi

(* Mutants: only the first byte is looked up; only the low end is compared *)
(* with the ranges on the list.                                            *)
Accepts_FirstByte(R, A, lo, size) ==
  /\ lo % ALIGNMENT = 0
  /\ is_mapped(A, lo)
  /\ \A q \in ToSet(R) : ~ Overlaps(Extent(lo, size), q)
Accepts_LowEnd(R, A, lo, size) ==
  /\ lo % ALIGNMENT = 0
  /\ \A a \in Probes(lo, size) : is_mapped(A, a)
  /\ \A q \in ToSet(R) : ~ (lo >= q.lo /\ lo <= q.hi)

(* add_range returns 1. *)
Accepts(R, A, lo, size) ==
  /\ lo % ALIGNMENT = 0
  /\ \A a \in Probes(lo, size) : is_mapped(A, a)
  /\ \A q \in ToSet(R) : ~ Overlaps(Extent(lo, size), q)

add_range(R, lo, size) == <<Extent(lo, size)>> \o R

(* Mutants: nothing is removed; the list is cut at the range of lo. *)
remove_range_Never(R, lo) == R
remove_range_CutsTail(R, lo) ==
  LET i == SelectInSeq(R, LAMBDA r : r.lo = lo)
  IN  IF i = 0 THEN R ELSE SubSeq(R, 1, i - 1)

remove_range(R, lo) ==
  LET i == SelectInSeq(R, LAMBDA r : r.lo = lo)
  IN  IF i = 0 THEN R ELSE RemoveAt(R, i)

-----------------------------------------------------------------------------
NoBlocks == [i \in Ids |-> NULL]
NoStats  == [total |-> 0, max_total |-> 0, max_heap |-> 0]
Unvalid  == [valid |-> FALSE, util |-> <<0, 0>>]

Init ==
  /\ phase = IF RunLibc THEN "libc_read" ELSE "read"
  /\ tracenum = 1 /\ opnum = 0 /\ reps = 0
  /\ files \in [1 .. NumTraces -> TraceFiles]
  /\ blocks = NoBlocks /\ block_sizes = NoBlocks
  /\ ranges = <<>> /\ stats = NoStats
  /\ mm_stats = [i \in 1 .. NumTraces |-> Unvalid]
  /\ errors = 0 /\ score = [numcorrect |-> 0, perfindex |-> "none"]
  /\ alloc = Fresh /\ libc = {}

(* HeaderHolds is asserted when the whole file is stored, in ops, which    *)
(* the header has sized: of a file with more requests than its header says *)
(* the last ones are stored past the end, and what the process does then   *)
(* is undefined.  blocks and block_sizes are allocated and not             *)
(* initialised; a well-formed trace reads no entry before it is written.   *)
read_trace ==
  /\ phase \in {"libc_read", "read"} /\ tracenum <= NumTraces
  /\ IF Len(trace) > files[tracenum].num_ops THEN overrun
     ELSE IF HeaderHolds(files[tracenum])
     THEN enter(IF phase = "read" THEN "valid" ELSE "libc_valid")
     ELSE exit
  /\ blocks' = NoBlocks /\ block_sizes' = NoBlocks
  /\ UNCHANGED <<files, ranges, results, alloc, libc>>

-----------------------------------------------------------------------------
(* eval_libc_valid and eval_libc_speed.  Memory suffices, so that malloc   *)
(* and realloc may fail for 0 bytes only (the C standard leaves it open)   *)
(* and do fail for a negative count, which is converted to a huge one.     *)
MayFail  == op.size <= 0
MustFail == op.size < 0

Unused(held) == CHOOSE p \in 1 .. Cardinality(held) + 1 : p \notin held

(* malloc_error in eval_libc_valid only, then unix_error. *)
libc_fails(f) ==
  /\ MayFail /\ exit
  /\ errors' = IF f = "libc_valid" THEN errors + 1 ELSE errors
  /\ UNCHANGED <<blocks, libc>>

libc_gives(held, p) ==
  /\ ~ MustFail /\ advance
  /\ blocks' = [blocks EXCEPT ![op.id] = p]
  /\ libc' = held \cup {p}
  /\ UNCHANGED errors

libc_enter(f) ==
  /\ phase = f /\ opnum = 0
  /\ advance /\ UNCHANGED <<blocks, errors, libc>>

libc_alloc(f) ==
  /\ Running(f, "a")
  /\ libc_fails(f) \/ libc_gives(libc, Unused(libc))

(* realloc, which frees the old block. *)
libc_valid_realloc ==
  LET rest == libc \ {blocks[op.id]} IN
  /\ Running("libc_valid", "r")
  /\ libc_fails("libc_valid") \/ libc_gives(rest, Unused(rest))

(* Mutant: the old block is not freed. *)
libc_speed_realloc_NoFree ==
  /\ Running("libc_speed", "r")
  /\ libc_fails("libc_speed") \/ libc_gives(libc, Unused(libc))

(* malloc, then free of the old block. *)
libc_speed_realloc ==
  /\ Running("libc_speed", "r")
  /\ libc_fails("libc_speed") \/ libc_gives(libc \ {blocks[op.id]}, Unused(libc))

libc_free(f) ==
  /\ Running(f, "f")
  /\ libc' = libc \ {blocks[op.id]}
  /\ advance /\ UNCHANGED <<blocks, errors>>

(* eval_libc_valid returns 1.  Neither function gives back what the trace  *)
(* left allocated.                                                         *)
libc_exit ==
  /\ \/ AtEnd("libc_valid") /\ enter("libc_speed")
     \/ /\ AtEnd("libc_speed")
        /\ IF reps + 1 < Reps
           THEN opnum' = 0 /\ reps' = reps + 1 /\ UNCHANGED <<phase, tracenum>>
           ELSE next_trace("libc_read")
  /\ UNCHANGED <<blocks, errors, libc>>

eval_libc ==
  /\ \/ \E f \in {"libc_valid", "libc_speed"} : libc_enter(f) \/ libc_alloc(f) \/ libc_free(f)
     \/ libc_valid_realloc \/ libc_speed_realloc \/ libc_exit
  /\ UNCHANGED <<files, block_sizes, ranges, stats, mm_stats, score, alloc>>

(* main goes on with mm.c: calloc of mm_stats, mem_init. *)
libc_done ==
  /\ phase = "libc_read" /\ tracenum = NumTraces + 1
  /\ phase' = "read" /\ tracenum' = 1
  /\ UNCHANGED <<opnum, reps, files, blocks, block_sizes, ranges, results, alloc, libc>>

-----------------------------------------------------------------------------
(* eval_mm_valid *)

Remember(p) ==
  /\ blocks' = [blocks EXCEPT ![op.id] = p]
  /\ block_sizes' = [block_sizes EXCEPT ![op.id] = op.size]

(* Mutant: the error is not counted. *)
valid_fail_Silent ==
  /\ next_trace("read")
  /\ UNCHANGED <<blocks, block_sizes, errors>>

(* malloc_error and return 0: main goes on with the next trace. *)
valid_fail ==
  /\ errors' = errors + 1
  /\ next_trace("read")
  /\ UNCHANGED <<blocks, block_sizes>>

(* clear_ranges, mm_init. *)
valid_enter ==
  /\ phase = "valid" /\ opnum = 0
  /\ ranges' = <<>>
  /\ \E r \in mm_init(alloc) :
       /\ alloc' = r.alloc
       /\ IF r.ok THEN advance /\ UNCHANGED <<blocks, block_sizes, errors>>
          ELSE valid_fail

(* The outcomes of a request, with R the range list it is checked against. *)
Refused(R, r) == r.p = NULL \/ (op.size > 0 /\ ~ Accepts(R, r.alloc, r.p, op.size))
Served(R, r)  == r.p # NULL /\ op.size > 0 /\ Accepts(R, r.alloc, r.p, op.size)

(* assert(size > 0) in add_range. *)
assert_fails(r) ==
  /\ r.p # NULL /\ op.size <= 0
  /\ exit /\ UNCHANGED <<blocks, block_sizes, errors>>

valid_alloc ==
  /\ Running("valid", "a")
  /\ \E r \in mm_malloc(alloc, op.size) :
       \/ alloc' = r.alloc /\ assert_fails(r) /\ UNCHANGED ranges
       \/ alloc' = r.alloc /\ Refused(ranges, r) /\ valid_fail /\ UNCHANGED ranges
       \/ /\ Remember(r.p)
          /\ Served(ranges, r)
          /\ ranges' = add_range(ranges, r.p, op.size)
          /\ alloc' = memset(r.alloc, r.p, op.size, op.id)
          /\ advance /\ UNCHANGED errors

(* The old block leaves the range list before the new one is checked, and  *)
(* is freed after.                                                         *)
valid_realloc ==
  /\ Running("valid", "r")
  /\ LET oldp == blocks[op.id]
         rest == remove_range(ranges, oldp)
     IN  \E r \in mm_malloc(alloc, op.size) :
           \/ alloc' = r.alloc /\ assert_fails(r) /\ ranges' = rest
           \/ /\ alloc' = r.alloc /\ Refused(rest, r) /\ valid_fail
              /\ ranges' = IF r.p = NULL THEN ranges ELSE rest
           \/ /\ Remember(r.p)
              /\ Served(rest, r)
              /\ ranges' = add_range(rest, r.p, op.size)
              /\ alloc' \in mm_free(memset(r.alloc, r.p, op.size, op.id), oldp)
              /\ advance /\ UNCHANGED errors

valid_free ==
  /\ Running("valid", "f")
  /\ ranges' = remove_range(ranges, blocks[op.id])
  /\ alloc' \in mm_free(alloc, blocks[op.id])
  /\ advance /\ UNCHANGED <<blocks, block_sizes, errors>>

(* Mutant: the pages stay mapped. *)
valid_exit_NoReset ==
  /\ AtEnd("valid") /\ enter("util")
  /\ mm_stats' = [mm_stats EXCEPT ![tracenum].valid = TRUE]
  /\ UNCHANGED <<blocks, block_sizes, ranges, errors, alloc>>

valid_exit ==
  /\ AtEnd("valid") /\ enter("util")
  /\ alloc' = mem_reset(alloc)
  /\ mm_stats' = [mm_stats EXCEPT ![tracenum].valid = TRUE]
  /\ UNCHANGED <<blocks, block_sizes, ranges, errors>>

eval_mm_valid ==
  /\ \/ /\ valid_enter \/ valid_alloc \/ valid_realloc \/ valid_free
        /\ UNCHANGED mm_stats
     \/ valid_exit
  /\ UNCHANGED <<files, stats, score, libc>>

-----------------------------------------------------------------------------
(* eval_mm_util *)

(* The statistics after an operation that leaves total bytes in use. *)
Update(total) ==
  stats' = [total     |-> total,
            max_total |-> Max({stats.max_total, total}),
            max_heap  |-> Max({stats.max_heap, mem_heapsize(alloc')})]

util_enter ==
  /\ phase = "util" /\ opnum = 0
  /\ stats' = NoStats
  /\ \E r \in mm_init(alloc) : alloc' = r.alloc /\ (IF r.ok THEN advance ELSE exit)
  /\ UNCHANGED <<blocks, block_sizes>>

(* mm_malloc returned NULL: app_error. *)
app_error(r) ==
  /\ r.p = NULL
  /\ alloc' = r.alloc
  /\ exit /\ UNCHANGED <<blocks, block_sizes, stats>>

util_alloc ==
  /\ Running("util", "a")
  /\ \E r \in mm_malloc(alloc, op.size) :
       \/ app_error(r)
       \/ /\ r.p # NULL
          /\ Remember(r.p)
          /\ alloc' = r.alloc
          /\ Update(stats.total + op.size)
          /\ advance

(* Mutants: the old size stays in the total; the new one is not added. *)
realloc_total_AddsNew      == stats.total + op.size
realloc_total_SubtractsOld == stats.total - block_sizes[op.id]

realloc_total == stats.total + (op.size - block_sizes[op.id])

util_realloc ==
  /\ Running("util", "r")
  /\ \E r \in mm_malloc(alloc, op.size) :
       \/ app_error(r)
       \/ /\ r.p # NULL
          /\ Remember(r.p)
          /\ alloc' \in mm_free(r.alloc, blocks[op.id])
          /\ Update(realloc_total)
          /\ advance

util_free ==
  /\ Running("util", "f")
  /\ alloc' \in mm_free(alloc, blocks[op.id])
  /\ Update(stats.total - block_sizes[op.id])
  /\ advance /\ UNCHANGED <<blocks, block_sizes>>

util_exit ==
  /\ AtEnd("util") /\ enter("speed")
  /\ alloc' = mem_reset(alloc)
  /\ mm_stats' = [mm_stats EXCEPT ![tracenum].util = <<stats.max_total, stats.max_heap>>]
  /\ UNCHANGED <<blocks, block_sizes, stats>>

eval_mm_util ==
  /\ \/ /\ util_enter \/ util_alloc \/ util_realloc \/ util_free
        /\ UNCHANGED mm_stats
     \/ util_exit
  /\ UNCHANGED <<files, ranges, errors, score, libc>>

-----------------------------------------------------------------------------
(* eval_mm_speed, which fsecs has called Reps times by ftimer_gettod.  It  *)
(* records addresses in blocks and leaves block_sizes alone.               *)

speed_enter ==
  /\ phase = "speed" /\ opnum = 0
  /\ \E r \in mm_init(alloc) : alloc' = r.alloc /\ (IF r.ok THEN advance ELSE exit)
  /\ UNCHANGED blocks

speed_error(r) == r.p = NULL /\ alloc' = r.alloc /\ exit /\ UNCHANGED blocks

speed_alloc ==
  /\ Running("speed", "a")
  /\ \E r \in mm_malloc(alloc, op.size) :
       \/ speed_error(r)
       \/ /\ r.p # NULL
          /\ blocks' = [blocks EXCEPT ![op.id] = r.p]
          /\ alloc' = r.alloc
          /\ advance

(* Mutant: the new address is not recorded. *)
speed_realloc_KeepsOld ==
  /\ Running("speed", "r")
  /\ \E r \in mm_malloc(alloc, op.size) :
       \/ speed_error(r)
       \/ /\ r.p # NULL
          /\ alloc' \in mm_free(r.alloc, blocks[op.id])
          /\ advance /\ UNCHANGED blocks

speed_realloc ==
  /\ Running("speed", "r")
  /\ \E r \in mm_malloc(alloc, op.size) :
       \/ speed_error(r)
       \/ /\ r.p # NULL
          /\ blocks' = [blocks EXCEPT ![op.id] = r.p]
          /\ alloc' \in mm_free(r.alloc, blocks[op.id])
          /\ advance

speed_free ==
  /\ Running("speed", "f")
  /\ alloc' \in mm_free(alloc, blocks[op.id])
  /\ advance /\ UNCHANGED blocks

(* Mutant: the calls are not counted. *)
speed_exit_NoCount ==
  /\ AtEnd("speed")
  /\ alloc' = mem_reset(alloc)
  /\ opnum' = 0 /\ UNCHANGED <<phase, tracenum, reps, blocks>>

(* The loop of ftimer.c calls again, or main frees the trace and goes on. *)
speed_exit ==
  /\ AtEnd("speed")
  /\ alloc' = mem_reset(alloc)
  /\ IF reps + 1 < Reps
     THEN opnum' = 0 /\ reps' = reps + 1 /\ UNCHANGED <<phase, tracenum>>
     ELSE next_trace("read")
  /\ UNCHANGED blocks

eval_mm_speed ==
  /\ speed_enter \/ speed_alloc \/ speed_realloc \/ speed_free \/ speed_exit
  /\ UNCHANGED <<files, block_sizes, ranges, results, libc>>

-----------------------------------------------------------------------------
(* The end of main: the performance index is a weighted mean of the        *)
(* utilizations and the throughput, and 0 after an error.  A quotient      *)
(* whose divisor is 0 is no finite number.                                 *)
report ==
  /\ phase = "read" /\ tracenum = NumTraces + 1
  /\ phase' = "done"
  /\ score' = [numcorrect |-> Cardinality({i \in DOMAIN mm_stats : mm_stats[i].valid}),
               perfindex  |-> IF errors # 0 THEN "zero"
                              ELSE IF \E i \in DOMAIN mm_stats : mm_stats[i].util[2] = 0
                              THEN "not finite" ELSE "finite"]
  /\ UNCHANGED <<tracenum, opnum, reps, files, blocks, block_sizes, ranges,
                 stats, mm_stats, errors, alloc, libc>>

(* The process has ended. *)
Ended       == phase \in {"done", "exit", "overrun"} \/ Aborted(alloc)
Terminating == Ended /\ UNCHANGED vars

Next ==
  \/ ~ Ended /\ \/ read_trace \/ eval_libc \/ libc_done
                \/ eval_mm_valid \/ eval_mm_util \/ eval_mm_speed
                \/ report
  \/ Terminating

Spec == Init /\ [][Next]_vars

(* One process that waits for nothing: it takes a step as long as it can.  *)
FairSpec == Spec /\ WF_vars(Next)

-----------------------------------------------------------------------------
(* Every variable has its type; opnum and tracenum stay within the run. *)
TypeOK ==
  /\ phase \in {"libc_read", "libc_valid", "libc_speed", "read", "valid", "util", "speed",
                "done", "exit", "overrun"}
  /\ tracenum \in 1 .. NumTraces + 1
  /\ opnum \in 0 .. (IF tracenum \in DOMAIN files THEN Len(trace) + 1 ELSE 0)
  /\ reps \in 0 .. Reps
  /\ blocks \in [Ids -> Nat] /\ block_sizes \in [Ids -> Nat]
  /\ \A r \in ToSet(ranges) : r.lo \in Nat /\ r.hi \in Nat
  /\ stats.total \in Nat /\ stats.max_total \in Nat /\ stats.max_heap \in Nat
  /\ errors \in 0 .. NumTraces /\ score.numcorrect \in 0 .. NumTraces

Evaluations == {"valid", "util", "speed"}
Comparisons == {"libc_valid", "libc_speed"}

(* The extents the trace's requests so far have left allocated. *)
LiveIds == Before(trace, opnum)
Current == {Extent(blocks[i], block_sizes[i]) : i \in LiveIds}

(* An allocator that keeps its contract is never blamed: the checks of     *)
(* add_range and of mm_malloc's result pass for every trace whose header   *)
(* holds and whose requests are not empty; no evaluation ends early.       *)
NoFalseAlarm == errors = 0 /\ phase \notin {"exit", "overrun"} /\ ~ Aborted(alloc)

(* The range list of eval_mm_valid is exact: it has one entry for every    *)
(* block the trace holds, with the block's current address and size, and   *)
(* these are the payloads the allocator has given out.                     *)
RangesExact ==
  phase = "valid" /\ opnum > 0 =>
    /\ ToSet(ranges) = Current /\ Len(ranges) = Cardinality(LiveIds)
    /\ {r.lo : r \in ToSet(ranges)} = Held(alloc)

(* In all three evaluations the blocks recorded for the ids are exactly    *)
(* what the allocator has given out and not got back, and with -l they are *)
(* held from the C library: the driver never frees an address twice, and   *)
(* uses none of an earlier evaluation that filled the same arrays.         *)
FreesHeld ==
  LET recorded == {blocks[i] : i \in LiveIds} IN
  /\ phase \in Evaluations /\ opnum > 0 => recorded = Held(alloc)
  /\ phase \in Comparisons /\ opnum > 0 =>
       recorded \subseteq libc /\ Cardinality(recorded) = Cardinality(LiveIds)

(* eval_mm_util: the running total is the number of bytes allocated, which *)
(* fit the heap, and the utilization it returns is defined and at most 1.  *)
UtilSound ==
  phase = "util" /\ opnum > 0 =>
    /\ stats.total = FoldFunctionOnSet(+, 0, block_sizes, LiveIds)
    /\ stats.total <= mem_heapsize(alloc)
    /\ opnum > 1 => stats.max_heap > 0 /\ stats.max_total <= stats.max_heap

(* Every evaluation starts with an empty heap, as the comments "Reset the  *)
(* heap" in eval_mm_valid and eval_mm_speed say: no page of an earlier     *)
(* evaluation is counted or reused.                                        *)
StartsEmpty == phase \in Evaluations /\ opnum = 1 => Mapped(alloc) = {}

(* The comparison with the C library leaks what each pass over a trace     *)
(* leaves allocated, once per pass, and nothing else: the process grows    *)
(* with unbalanced traces only.                                            *)
LibcLeaksExact ==
  LET left    == [k \in DOMAIN files |-> Cardinality(Before(files[k].ops, Len(files[k].ops) + 1))]
      passes  == IF phase = "libc_speed" THEN 1 + reps ELSE 0
      earlier == FoldFunctionOnSet(+, 0, left, 1 .. tracenum - 1)
  IN  phase \in Comparisons /\ opnum > 0 =>
        Cardinality(libc) = Cardinality(LiveIds) + passes * left[tracenum] + (1 + Reps) * earlier

(* Whatever the allocator returns, the ranges on the list are disjoint, or *)
(* a newer one lies around an older one: add_range compares the ends of    *)
(* the new payload with the older ones and not the other way.  (It speaks  *)
(* of the list; the block a realloc is about to free has left it, and is   *)
(* not compared with the new payload at all.)                              *)
OnlyContainmentMissed ==
  \A i, j \in DOMAIN ranges : i < j =>
     \/ Disjoint(ranges[i], ranges[j])
     \/ ranges[i].lo < ranges[j].lo /\ ranges[j].hi < ranges[i].hi

(* Whatever the allocator returns, a payload that enters the range list    *)
(* has all its bytes on mapped pages, so that memset does not fault:       *)
(* looking at one byte per page step and at the last byte is enough.       *)
AcceptedIsMapped ==
  [][\A r \in ToSet(ranges') \ ToSet(ranges) : PagesOf(Bytes(r)) \subseteq Mapped(alloc')]_vars

(* Whatever a trace file's header says, a trace that is evaluated has as   *)
(* many requests as ops has entries, and every request's id is an index of *)
(* blocks and block_sizes; read_trace asserts the latter only of the       *)
(* largest id that is allocated or reallocated.  (It speaks of the loops   *)
(* of the evaluations; read_trace itself stores past ops, see there.)      *)
IndicesInRange ==
  phase \in Evaluations \cup Comparisons =>
    /\ Len(trace) <= files[tracenum].num_ops
    /\ \A n \in DOMAIN trace : trace[n].id < files[tracenum].num_ids

(* What main reports: every trace that did not pass counts as one error    *)
(* and none that passed does, so that a performance index is computed only *)
(* for an allocator that passed all traces.                                *)
ScoreSound ==
  phase = "done" =>
    /\ score.numcorrect = NumTraces - errors
    /\ score.perfindex # "zero" => \A i \in DOMAIN mm_stats : mm_stats[i].valid

(* The driver ends, with a report or an error: no loop over requests,      *)
(* timed calls or traces runs forever, whatever the allocator returns.     *)
Terminates == <>Ended

(* "We use the range list to detect any overlapping allocated blocks."     *)
AcceptedApart ==
  \A i, j \in DOMAIN ranges : i # j => Disjoint(ranges[i], ranges[j])
=============================================================================
