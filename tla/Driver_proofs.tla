--------------------------- MODULE Driver_proofs ---------------------------
(***************************************************************************)
(* Proofs about Driver: for every set of trace files and any number of     *)
(* traces, first for every allocator, then for every allocator that keeps  *)
(* its contract.                                                           *)
(***************************************************************************)
EXTENDS Driver, Structures

CONSTANT States   \* a set that holds every state of the allocator

Request == [cmd : {"a", "r", "f"}, id : Ids, size : Int]
Phases  == Evaluations \cup Comparisons

-----------------------------------------------------------------------------
(* What holds whatever the allocator returns: where the driver is. *)
ControlOK ==
  /\ phase \in Phases \cup {"libc_read", "read", "done", "exit", "overrun"}
  /\ files \in [1 .. NumTraces -> TraceFiles]
  /\ tracenum \in 1 .. NumTraces + 1 /\ reps \in 0 .. Reps
  /\ opnum \in 0 .. (IF tracenum \in DOMAIN files THEN Len(trace) + 1 ELSE 0)
  /\ phase \in Phases => /\ tracenum \in 1 .. NumTraces /\ reps < Reps
                         /\ HeaderHolds(files[tracenum])
  /\ phase \in {"libc_read", "read"} => opnum = 0
  /\ phase = "overrun" => tracenum <= NumTraces /\ Len(trace) > files[tracenum].num_ops

(* The trace under way. *)
LEMMA TraceFacts ==
  ASSUME ControlOK, tracenum \in 1 .. NumTraces
  PROVE  /\ files[tracenum] \in TraceFiles
         /\ trace \in Seq(Request) /\ Len(trace) \in Nat /\ DOMAIN trace = 1 .. Len(trace)
         /\ WellFormed(trace)
         /\ opnum \in 0 .. Len(trace) + 1
         /\ opnum \in DOMAIN trace =>
              /\ op \in Request /\ op.id \in Ids /\ op.size \in Int /\ opnum \in Nat \ {0}
              /\ IF op.cmd = "a" THEN op.id \notin LiveIds ELSE op.id \in LiveIds
<1>1. files[tracenum] \in TraceFiles /\ tracenum \in DOMAIN files
  BY DEF ControlOK
<1>2. trace \in Seq(Request) /\ WellFormed(trace)
  BY <1>1, DriverAssumption DEF trace, Request
<1>3. Len(trace) \in Nat /\ DOMAIN trace = 1 .. Len(trace) /\ opnum \in 0 .. Len(trace) + 1
  BY <1>1, <1>2 DEF ControlOK
<1>4. ASSUME opnum \in DOMAIN trace
      PROVE  /\ op \in Request /\ op.id \in Ids /\ op.size \in Int /\ opnum \in Nat \ {0}
             /\ IF op.cmd = "a" THEN op.id \notin LiveIds ELSE op.id \in LiveIds
  <2>1. op \in Request
    BY <1>2, <1>3, <1>4 DEF op
  <2>2. IF op.cmd = "a" THEN op.id \notin LiveIds ELSE op.id \in LiveIds
    BY <1>2, <1>4 DEF WellFormed, op, LiveIds
  <2> QED
    BY <1>3, <1>4, <2>1, <2>2 DEF Request
<1> QED
  BY <1>1, <1>2, <1>3, <1>4

(* How a step moves on. *)
Serves   == phase \in Phases /\ (opnum = 0 \/ opnum \in DOMAIN trace) /\ advance
Stops    == /\ \/ phase' = "exit"
               \/ /\ phase' = "overrun" /\ tracenum <= NumTraces
                  /\ Len(trace) > files[tracenum].num_ops
            /\ UNCHANGED <<tracenum, opnum, reps>>
Begins   == /\ phase \in {"libc_read", "read"} /\ tracenum <= NumTraces
            /\ HeaderHolds(files[tracenum]) /\ \E f \in Phases : enter(f)
Switches == phase \in Phases /\ \E f \in Phases : enter(f)
Leaves   == phase \in Phases /\ \E f \in {"libc_read", "read"} : next_trace(f)
Repeats  == /\ phase \in Phases /\ opnum' = 0 /\ reps + 1 < Reps /\ reps' = reps + 1
            /\ UNCHANGED <<phase, tracenum>>
Restarts == phase = "libc_read" /\ phase' = "read" /\ tracenum' = 1 /\ UNCHANGED <<opnum, reps>>
Finishes == phase = "read" /\ phase' = "done" /\ UNCHANGED <<tracenum, opnum, reps>>

Moves ==
  \/ UNCHANGED control \/ Serves \/ Stops \/ Begins \/ Switches \/ Leaves \/ Repeats
  \/ Restarts \/ Finishes

(* Every step moves the control in one of these ways, and none changes a   *)
(* trace file.                                                             *)
LEMMA NextMoves == [Next]_vars => Moves /\ UNCHANGED files
<1> SUFFICES ASSUME [Next]_vars PROVE Moves /\ UNCHANGED files
  OBVIOUS
<1>0. {"valid", "util", "speed", "libc_valid", "libc_speed"} = Phases
  BY DEF Phases, Evaluations, Comparisons
<1>1. CASE read_trace
  <2>1. Begins \/ Stops
    BY <1>0, <1>1 DEF read_trace, Begins, Stops, exit, overrun
  <2> QED
    BY <1>1, <2>1 DEF read_trace, Moves
<1>2. CASE eval_libc
  <2>1. UNCHANGED files
    BY <1>2 DEF eval_libc
  <2>2. ASSUME NEW f \in {"libc_valid", "libc_speed"}, libc_enter(f) \/ libc_alloc(f) \/ libc_free(f)
        PROVE  Serves \/ Stops
    BY <1>0, <2>2 DEF libc_enter, libc_alloc, libc_free, libc_fails, libc_gives, Running,
       Serves, Stops, exit
  <2>3. libc_valid_realloc \/ libc_speed_realloc => Serves \/ Stops
    BY <1>0 DEF libc_valid_realloc, libc_speed_realloc, libc_fails, libc_gives, Running,
       Serves, Stops, exit
  <2>4. libc_exit => Switches \/ Repeats \/ Leaves
    BY <1>0 DEF libc_exit, AtEnd, Switches, Repeats, Leaves
  <2>5. eval_libc => \/ \E f \in {"libc_valid", "libc_speed"} : libc_enter(f) \/ libc_alloc(f) \/ libc_free(f)
                     \/ libc_valid_realloc \/ libc_speed_realloc \/ libc_exit
    BY DEF eval_libc
  <2>6. Serves \/ Stops \/ Switches \/ Repeats \/ Leaves => Moves
    BY DEF Moves
  <2> QED
    BY <1>2, <2>1, <2>2, <2>3, <2>4, <2>5, <2>6
<1>3. CASE libc_done
  <2>1. Restarts
    BY <1>3 DEF libc_done, Restarts
  <2> QED
    BY <1>3, <2>1 DEF libc_done, Moves
<1>4. CASE eval_mm_valid
  <2>1. UNCHANGED files
    BY <1>4 DEF eval_mm_valid
  <2>2. valid_enter => Serves \/ Leaves
    BY <1>0 DEF valid_enter, valid_fail, Serves, Leaves
  <2>3. valid_alloc => Serves \/ Stops \/ Leaves
    BY <1>0 DEF valid_alloc, assert_fails, valid_fail, Running, Serves, Stops, Leaves, exit
  <2>4. valid_realloc => Serves \/ Stops \/ Leaves
    BY <1>0 DEF valid_realloc, assert_fails, valid_fail, Running, Serves, Stops, Leaves, exit
  <2>5. valid_free => Serves
    BY <1>0 DEF valid_free, Running, Serves
  <2>6. valid_exit => Switches
    BY <1>0 DEF valid_exit, AtEnd, Switches
  <2>7. Serves \/ Stops \/ Leaves \/ Switches => Moves
    BY DEF Moves
  <2>8. valid_enter \/ valid_alloc \/ valid_realloc \/ valid_free \/ valid_exit
    BY <1>4 DEF eval_mm_valid
  <2> QED
    BY <2>1, <2>2, <2>3, <2>4, <2>5, <2>6, <2>7, <2>8
<1>5. CASE eval_mm_util
  <2>1. UNCHANGED files
    BY <1>5 DEF eval_mm_util
  <2>2. util_enter => Serves \/ Stops
    BY <1>0 DEF util_enter, Serves, Stops, exit
  <2>3. (util_alloc \/ util_realloc \/ util_free) => Serves \/ Stops
    BY <1>0 DEF util_alloc, util_realloc, util_free, app_error, Running, Serves, Stops, exit
  <2>4. util_exit => Switches
    BY <1>0 DEF util_exit, AtEnd, Switches
  <2>5. Serves \/ Stops \/ Switches => Moves
    BY DEF Moves
  <2> QED
    BY <1>5, <2>1, <2>2, <2>3, <2>4, <2>5 DEF eval_mm_util
<1>6. CASE eval_mm_speed
  <2>1. UNCHANGED files
    BY <1>6 DEF eval_mm_speed
  <2>2. speed_enter => Serves \/ Stops
    BY <1>0 DEF speed_enter, Serves, Stops, exit
  <2>3. speed_alloc \/ speed_realloc \/ speed_free => Serves \/ Stops
    BY <1>0 DEF speed_alloc, speed_realloc, speed_free, speed_error, Running,
       Serves, Stops, exit
  <2>4. speed_exit => Repeats \/ Leaves
    BY <1>0 DEF speed_exit, AtEnd, Repeats, Leaves
  <2>5. Serves \/ Stops \/ Repeats \/ Leaves => Moves
    BY DEF Moves
  <2> QED
    BY <1>6, <2>1, <2>2, <2>3, <2>4, <2>5 DEF eval_mm_speed
<1>7. CASE report
  <2>1. Finishes
    BY <1>7 DEF report, Finishes
  <2> QED
    BY <1>7, <2>1 DEF report, Moves
<1>8. CASE UNCHANGED vars
  BY <1>8 DEF vars, Moves
<1> QED
  BY <1>1, <1>2, <1>3, <1>4, <1>5, <1>6, <1>7, <1>8 DEF Next, Terminating

(* The program starts before the first trace, with an index that exists.   *)
LEMMA ControlInit == Init => ControlOK
<1> SUFFICES ASSUME Init PROVE ControlOK
  OBVIOUS
<1>1. /\ phase \in {"libc_read", "read"} /\ tracenum = 1 /\ opnum = 0 /\ reps = 0
      /\ files \in [1 .. NumTraces -> TraceFiles]
  BY DEF Init
<1>2. phase \notin Phases
  BY <1>1 DEF Phases, Evaluations, Comparisons
<1>3. files[1] \in TraceFiles /\ 1 \in DOMAIN files
  BY <1>1, DriverAssumption
<1>4. Len(trace) \in Nat
  BY <1>1, <1>3, DriverAssumption DEF trace
<1> QED
  BY <1>1, <1>2, <1>3, <1>4, DriverAssumption DEF ControlOK

(* No step leaves the traces or the requests of a trace.                   *)
LEMMA ControlStep == ControlOK /\ [Next]_vars => ControlOK'
<1> SUFFICES ASSUME ControlOK, Moves, UNCHANGED files PROVE ControlOK'
  BY NextMoves
<1> USE DriverAssumption
<1>0. tracenum \in 1 .. NumTraces => Len(trace) \in Nat
  BY TraceFacts
<1>1. DOMAIN files = 1 .. NumTraces
  BY DEF ControlOK
<1>2. CASE UNCHANGED control
  BY <1>2 DEF control, ControlOK, trace
<1>3. CASE Serves
  <2>1. tracenum \in 1 .. NumTraces
    BY <1>3 DEF Serves, ControlOK
  <2>2. Len(trace) \in Nat /\ DOMAIN trace = 1 .. Len(trace)
    BY <2>1, TraceFacts
  <2>3. opnum' \in 0 .. Len(trace) + 1 /\ trace' = trace
    BY <1>3, <2>2 DEF Serves, advance, trace
  <2>4. phase \notin {"libc_read", "read"}
    BY <1>3 DEF Serves, Phases, Evaluations, Comparisons
  <2> QED
    BY <1>1, <1>3, <2>1, <2>3, <2>4 DEF Serves, ControlOK, advance
<1>4. CASE Stops
  <2>1. trace' = trace /\ phase' \notin Phases
    BY <1>4 DEF Stops, trace, Phases, Evaluations, Comparisons
  <2> QED
    BY <1>4, <2>1 DEF Stops, ControlOK
<1>5. CASE Begins
  <2>1. /\ opnum' = 0 /\ reps' = 0 /\ tracenum' = tracenum /\ phase' \in Phases
        /\ tracenum \in 1 .. NumTraces
    BY <1>5 DEF Begins, enter, ControlOK
  <2>2. phase' \notin {"libc_read", "read", "overrun"} /\ trace' = trace
    BY <2>1 DEF Phases, Evaluations, Comparisons, trace
  <2> QED
    BY <1>0, <1>1, <1>5, <2>1, <2>2 DEF Begins, ControlOK
<1>6. CASE Switches
  <2>1. /\ opnum' = 0 /\ reps' = 0 /\ tracenum' = tracenum /\ phase' \in Phases
        /\ tracenum \in 1 .. NumTraces
    BY <1>6 DEF Switches, enter, ControlOK
  <2>2. phase' \notin {"libc_read", "read", "overrun"} /\ trace' = trace
    BY <2>1 DEF Phases, Evaluations, Comparisons, trace
  <2> QED
    BY <1>0, <1>1, <1>6, <2>1, <2>2 DEF Switches, ControlOK
<1>7. CASE Leaves
  <2>1. /\ opnum' = 0 /\ reps' = 0 /\ tracenum' = tracenum + 1
        /\ phase' \in {"libc_read", "read"} /\ tracenum \in 1 .. NumTraces
    BY <1>7 DEF Leaves, next_trace, ControlOK
  <2>2. phase' \notin Phases
    BY <2>1 DEF Phases, Evaluations, Comparisons
  <2>3. tracenum' \in 1 .. NumTraces => files'[tracenum'] \in TraceFiles
    BY DEF ControlOK
  <2>4. tracenum' \in DOMAIN files' => Len(trace') \in Nat
    BY <1>1, <2>3 DEF trace
  <2> QED
    BY <1>1, <2>1, <2>2, <2>4 DEF ControlOK
<1>8. CASE Repeats
  <2>1. phase' \notin {"libc_read", "read"} /\ trace' = trace /\ tracenum \in 1 .. NumTraces
    BY <1>8 DEF Repeats, Phases, Evaluations, Comparisons, trace, ControlOK
  <2> QED
    BY <1>0, <1>1, <1>8, <2>1 DEF Repeats, ControlOK
<1>9. CASE Restarts
  <2>1. 1 \in 1 .. NumTraces /\ files'[1] \in TraceFiles /\ opnum = 0 /\ phase' \notin Phases
    BY <1>9 DEF Restarts, ControlOK, Phases, Evaluations, Comparisons
  <2>2. Len(trace') \in Nat
    BY <1>9, <2>1 DEF Restarts, trace
  <2> QED
    BY <1>1, <1>9, <2>1, <2>2 DEF Restarts, ControlOK
<1>10. CASE Finishes
  <2>1. trace' = trace /\ phase' \notin Phases
    BY <1>10 DEF Finishes, trace, Phases, Evaluations, Comparisons
  <2> QED
    BY <1>10, <2>1 DEF Finishes, ControlOK
<1> QED
  BY <1>2, <1>3, <1>4, <1>5, <1>6, <1>7, <1>8, <1>9, <1>10 DEF Moves

(* The control invariant holds in every reachable state.                   *)
LEMMA Control == Spec => []ControlOK
BY ControlInit, ControlStep, PTL DEF Spec

(* In every evaluation each request's number is an index of ops and its id *)
(* an index of blocks: free requests, which read_trace leaves out of its   *)
(* assertion, name ids that were allocated.                                *)
THEOREM IndicesCorrect == Spec => []IndicesInRange
<1>1. ControlOK => IndicesInRange
  <2> SUFFICES ASSUME ControlOK, phase \in Phases
               PROVE  /\ Len(trace) <= files[tracenum].num_ops
                      /\ \A n \in DOMAIN trace : trace[n].id < files[tracenum].num_ids
    BY DEF IndicesInRange, Phases
  <2> DEFINE f == files[tracenum]
  <2>1. tracenum \in 1 .. NumTraces /\ HeaderHolds(f)
    BY DEF ControlOK
  <2>2. /\ trace \in Seq(Request) /\ WellFormed(trace) /\ Len(trace) \in Nat
        /\ DOMAIN trace = 1 .. Len(trace) /\ f \in TraceFiles
    BY <2>1, TraceFacts
  <2>3. f.ops = trace /\ Ids \subseteq Nat /\ f.num_ids \in Nat /\ f.num_ops \in Nat
    <3>1. f.ops = trace
      BY DEF trace
    <3> HIDE DEF f
    <3> QED
      BY <2>2, <3>1, DriverAssumption
  <2>4. \A n \in 1 .. Len(trace) : trace[n].id \in Ids
    <3>1. \A n \in 1 .. Len(trace) : trace[n] \in Request
      BY <2>2
    <3> QED
      BY <3>1 DEF Request
  <2> HIDE DEF f
  <2>5. /\ Len(trace) = f.num_ops
        /\ \A n \in 1 .. Len(trace) : trace[n].cmd # "f" => trace[n].id < f.num_ids
    <3>1. f.ops \in Seq(Request) /\ \A n \in 1 .. Len(f.ops) : f.ops[n].id \in Ids
      BY <2>2, <2>3, <2>4
    <3>2. /\ Len(f.ops) = f.num_ops
          /\ \A n \in 1 .. Len(f.ops) : f.ops[n].cmd # "f" => f.ops[n].id < f.num_ids
      BY <2>1, <2>3, <3>1, HeaderBounds
    <3> QED
      BY <2>3, <3>2
  <2>6. ASSUME NEW n \in 1 .. Len(trace), trace[n].cmd = "f" PROVE trace[n].id < f.num_ids
    <3>1. trace[n].id \in Before(trace, n) /\ n \in Nat
      BY <2>2, <2>6 DEF WellFormed
    <3>2. PICK k \in 1 .. n - 1 : trace[k].cmd = "a" /\ trace[k].id = trace[n].id
      BY <3>1, BeforeSource
    <3>3. k \in 1 .. Len(trace) /\ trace[k].cmd # "f"
      BY <2>2, <3>2
    <3> QED
      BY <2>5, <3>2, <3>3
  <2> QED
    BY <2>2, <2>3, <2>5, <2>6 DEF f
<1> QED
  BY <1>1, Control, PTL

-----------------------------------------------------------------------------
(* The score.  A trace that was evaluated is valid, or it is an error. *)
IsStat(r) == r = [k \in DOMAIN r |-> r[k]] /\ "valid" \in DOMAIN r /\ r.valid \in BOOLEAN

Failed(stat, n) == {k \in 1 .. n : ~ stat[k].valid}

Earlier == {"libc_read"} \cup Comparisons

ScoreOK ==
  /\ phase \notin {"exit", "overrun"} =>
       /\ mm_stats = [k \in 1 .. NumTraces |-> mm_stats[k]]
       /\ \A k \in 1 .. NumTraces : IsStat(mm_stats[k])
  /\ phase \in Earlier => errors = 0 /\ \A k \in 1 .. NumTraces : ~ mm_stats[k].valid
  /\ phase \in Evaluations \cup {"read", "done"} => errors = Cardinality(Failed(mm_stats, tracenum - 1))
  /\ phase \in {"read", "valid"} => \A k \in tracenum .. NumTraces : ~ mm_stats[k].valid
  /\ phase \in {"util", "speed"} =>
       mm_stats[tracenum].valid /\ \A k \in tracenum + 1 .. NumTraces : ~ mm_stats[k].valid
  /\ phase = "done" =>
       /\ tracenum = NumTraces + 1
       /\ score.numcorrect = Cardinality({k \in DOMAIN mm_stats : mm_stats[k].valid})
       /\ score.perfindex # "zero" => errors = 0

(* What a step does to the score's parts. *)
ScoreKept   == UNCHANGED <<phase, tracenum, errors, mm_stats, score>>
FailsTrace  == phase = "valid" /\ next_trace("read") /\ errors' = errors + 1 /\ UNCHANGED mm_stats
PassesTrace == /\ phase = "valid" /\ phase' = "util" /\ UNCHANGED <<tracenum, errors>>
               /\ mm_stats' = [mm_stats EXCEPT ![tracenum].valid = TRUE]
RatesTrace  == /\ phase = "util" /\ phase' = "speed" /\ UNCHANGED <<tracenum, errors>>
               /\ \E u : mm_stats' = [mm_stats EXCEPT ![tracenum].util = u]
LeavesTrace == phase = "speed" /\ next_trace("read") /\ UNCHANGED <<errors, mm_stats>>
ReadsTrace  == phase = "read" /\ phase' = "valid" /\ UNCHANGED <<tracenum, errors, mm_stats>>
Compares    == phase \in Earlier /\ phase' \in Earlier /\ UNCHANGED <<errors, mm_stats>>
StartsOver  == phase \in Earlier /\ phase' = "read" /\ tracenum' = 1 /\ UNCHANGED <<errors, mm_stats>>

(* Every step treats the score in one of these ways.                       *)
LEMMA NextScores ==
  [Next]_vars => \/ ScoreKept \/ phase' \in {"exit", "overrun"} \/ FailsTrace \/ PassesTrace \/ RatesTrace
                 \/ LeavesTrace \/ ReadsTrace \/ Compares \/ StartsOver \/ report
<1> SUFFICES ASSUME [Next]_vars
             PROVE  \/ ScoreKept \/ phase' \in {"exit", "overrun"} \/ FailsTrace \/ PassesTrace \/ RatesTrace
                    \/ LeavesTrace \/ ReadsTrace \/ Compares \/ StartsOver \/ report
  OBVIOUS
<1>0. Earlier = {"libc_read", "libc_valid", "libc_speed"}
  BY DEF Earlier, Comparisons
<1>1. read_trace => phase' \in {"exit", "overrun"} \/ ReadsTrace \/ Compares
  BY <1>0 DEF read_trace, ReadsTrace, Compares, exit, overrun, enter, results
<1>2. eval_libc => phase' \in {"exit", "overrun"} \/ Compares
  <2> SUFFICES ASSUME eval_libc PROVE phase' \in {"exit", "overrun"} \/ Compares
    OBVIOUS
  <2>1. UNCHANGED mm_stats
    BY DEF eval_libc
  <2>2. ASSUME NEW f \in {"libc_valid", "libc_speed"}, libc_enter(f) \/ libc_alloc(f) \/ libc_free(f)
        PROVE  phase' \in {"exit", "overrun"} \/ Compares
    BY <1>0, <2>1, <2>2 DEF libc_enter, libc_alloc, libc_free, libc_fails, libc_gives, Running,
       Compares, exit, advance
  <2>3. libc_valid_realloc \/ libc_speed_realloc => phase' \in {"exit", "overrun"} \/ Compares
    BY <1>0, <2>1 DEF libc_valid_realloc, libc_speed_realloc, libc_fails, libc_gives, Running,
       Compares, exit, advance
  <2>4. libc_exit => Compares
    BY <1>0, <2>1 DEF libc_exit, AtEnd, Compares, enter, next_trace
  <2>5. \/ \E f \in {"libc_valid", "libc_speed"} : libc_enter(f) \/ libc_alloc(f) \/ libc_free(f)
        \/ libc_valid_realloc \/ libc_speed_realloc \/ libc_exit
    BY DEF eval_libc
  <2> QED
    BY <2>2, <2>3, <2>4, <2>5
<1>3. libc_done => StartsOver
  BY <1>0 DEF libc_done, StartsOver, results
<1>4. eval_mm_valid => ScoreKept \/ phase' \in {"exit", "overrun"} \/ FailsTrace \/ PassesTrace
  <2> SUFFICES ASSUME eval_mm_valid
               PROVE  ScoreKept \/ phase' \in {"exit", "overrun"} \/ FailsTrace \/ PassesTrace
    OBVIOUS
  <2>1. UNCHANGED score
    BY DEF eval_mm_valid
  <2>2. valid_enter /\ UNCHANGED mm_stats => ScoreKept \/ FailsTrace
    BY <2>1 DEF valid_enter, valid_fail, ScoreKept, FailsTrace, advance
  <2>3. valid_alloc /\ UNCHANGED mm_stats => ScoreKept \/ phase' \in {"exit", "overrun"} \/ FailsTrace
    BY <2>1 DEF valid_alloc, assert_fails, valid_fail, Running, ScoreKept, FailsTrace, advance, exit
  <2>4. valid_realloc /\ UNCHANGED mm_stats => ScoreKept \/ phase' \in {"exit", "overrun"} \/ FailsTrace
    BY <2>1 DEF valid_realloc, assert_fails, valid_fail, Running, ScoreKept, FailsTrace, advance, exit
  <2>5. valid_free /\ UNCHANGED mm_stats => ScoreKept
    BY <2>1 DEF valid_free, ScoreKept, advance
  <2>6. valid_exit => PassesTrace
    BY DEF valid_exit, AtEnd, enter, PassesTrace
  <2> QED
    BY <2>2, <2>3, <2>4, <2>5, <2>6 DEF eval_mm_valid
<1>5. eval_mm_util => ScoreKept \/ phase' \in {"exit", "overrun"} \/ RatesTrace
  <2> SUFFICES ASSUME eval_mm_util PROVE ScoreKept \/ phase' \in {"exit", "overrun"} \/ RatesTrace
    OBVIOUS
  <2>1. UNCHANGED <<errors, score>>
    BY DEF eval_mm_util
  <2>2. util_enter /\ UNCHANGED mm_stats => ScoreKept \/ phase' \in {"exit", "overrun"}
    BY <2>1 DEF util_enter, ScoreKept, advance, exit
  <2>3. (util_alloc \/ util_realloc \/ util_free) /\ UNCHANGED mm_stats => ScoreKept \/ phase' \in {"exit", "overrun"}
    BY <2>1 DEF util_alloc, util_realloc, util_free, app_error, ScoreKept, advance, exit
  <2>4. util_exit => RatesTrace
    BY <2>1 DEF util_exit, AtEnd, enter, RatesTrace
  <2> QED
    BY <2>2, <2>3, <2>4 DEF eval_mm_util
<1>6. eval_mm_speed => ScoreKept \/ phase' \in {"exit", "overrun"} \/ LeavesTrace
  <2> SUFFICES ASSUME eval_mm_speed PROVE ScoreKept \/ phase' \in {"exit", "overrun"} \/ LeavesTrace
    OBVIOUS
  <2>1. UNCHANGED <<errors, score, mm_stats>>
    BY DEF eval_mm_speed, results
  <2>2. speed_enter \/ speed_alloc \/ speed_realloc \/ speed_free => ScoreKept \/ phase' \in {"exit", "overrun"}
    BY <2>1 DEF speed_enter, speed_alloc, speed_realloc, speed_free, speed_error, ScoreKept,
       advance, exit
  <2>3. speed_exit => ScoreKept \/ LeavesTrace
    BY <2>1 DEF speed_exit, AtEnd, ScoreKept, LeavesTrace
  <2> QED
    BY <2>2, <2>3 DEF eval_mm_speed
<1>7. UNCHANGED vars => ScoreKept
  BY DEF vars, control, results, ScoreKept
<1> QED
  BY <1>1, <1>2, <1>3, <1>4, <1>5, <1>6, <1>7 DEF Next, Terminating

(* A statistics record stays one when it is marked valid. *)
LEMMA StatValid ==
  ASSUME NEW r, IsStat(r)
  PROVE  IsStat([r EXCEPT !.valid = TRUE]) /\ [r EXCEPT !.valid = TRUE].valid
BY DEF IsStat

(* Nothing is scored when the program starts.                              *)
LEMMA ScoreInit == Init => ScoreOK
<1> SUFFICES ASSUME Init PROVE ScoreOK
  OBVIOUS
<1>1. /\ phase \in {"libc_read", "read"} /\ tracenum = 1 /\ errors = 0
      /\ mm_stats = [k \in 1 .. NumTraces |-> Unvalid]
  BY DEF Init
<1>2. \A k \in 1 .. NumTraces : mm_stats[k] = Unvalid
  BY <1>1
<1>3. Failed(mm_stats, tracenum - 1) = {}
  BY <1>1 DEF Failed
<1>4. errors = Cardinality(Failed(mm_stats, tracenum - 1))
  BY <1>1, <1>3, FS_EmptySet
<1>5. phase \notin {"util", "speed", "done"}
  BY <1>1
<1> QED
  BY <1>1, <1>2, <1>4, <1>5 DEF ScoreOK, Unvalid, IsStat

(* Every step keeps the score sound.                                       *)
LEMMA ScoreStep == ControlOK /\ ScoreOK /\ [Next]_vars => ScoreOK'
<1> SUFFICES ASSUME ControlOK, ScoreOK, [Next]_vars PROVE ScoreOK'
  OBVIOUS
<1> USE DriverAssumption
<1>0. Earlier = {"libc_read", "libc_valid", "libc_speed"} /\ Evaluations = {"valid", "util", "speed"}
  BY DEF Earlier, Comparisons, Evaluations
<1>a. tracenum \in 1 .. NumTraces + 1 /\ (phase \in Evaluations => tracenum \in 1 .. NumTraces)
  BY DEF ControlOK, Phases
<1>1. CASE ScoreKept
  BY <1>1 DEF ScoreKept, ScoreOK
<1>2. CASE phase' \in {"exit", "overrun"}
  BY <1>0, <1>2 DEF ScoreOK
<1>b. ASSUME phase \notin {"exit", "overrun"}
      PROVE  /\ mm_stats = [k \in 1 .. NumTraces |-> mm_stats[k]] /\ DOMAIN mm_stats = 1 .. NumTraces
             /\ \A k \in 1 .. NumTraces : IsStat(mm_stats[k])
  <2>1. mm_stats = [k \in 1 .. NumTraces |-> mm_stats[k]]
    BY <1>b DEF ScoreOK
  <2> QED
    BY <1>b, <2>1 DEF ScoreOK
<1>c. ASSUME NEW n \in Nat PROVE IsFiniteSet(Failed(mm_stats, n))
  <2>1. IsFiniteSet(1 .. n) /\ Failed(mm_stats, n) \in SUBSET (1 .. n)
    BY FS_Interval DEF Failed
  <2> QED
    BY <2>1, FS_Subset
<1>3. CASE FailsTrace
  <2>1. /\ phase = "valid" /\ phase' = "read" /\ tracenum' = tracenum + 1 /\ errors' = errors + 1
        /\ mm_stats' = mm_stats /\ tracenum \in 1 .. NumTraces
    BY <1>0, <1>3, <1>a DEF FailsTrace, next_trace
  <2>2. errors = Cardinality(Failed(mm_stats, tracenum - 1)) /\ \A k \in tracenum .. NumTraces : ~ mm_stats[k].valid
    BY <1>0, <2>1 DEF ScoreOK
  <2>3. /\ Failed(mm_stats, tracenum) = Failed(mm_stats, tracenum - 1) \cup {tracenum}
        /\ tracenum \notin Failed(mm_stats, tracenum - 1)
    BY <2>1, <2>2 DEF Failed
  <2>4. errors' = Cardinality(Failed(mm_stats', tracenum' - 1))
    <3>1. tracenum - 1 \in Nat /\ tracenum' - 1 = tracenum
      BY <2>1
    <3>2. IsFiniteSet(Failed(mm_stats, tracenum - 1))
      BY <1>c, <3>1
    <3>3. Cardinality(Failed(mm_stats, tracenum)) = Cardinality(Failed(mm_stats, tracenum - 1)) + 1
      BY <2>3, <3>2, FS_AddElement
    <3> QED
      BY <2>1, <2>2, <3>1, <3>3
  <2>5. \A k \in tracenum' .. NumTraces : ~ mm_stats'[k].valid
    BY <2>1, <2>2
  <2> QED
    BY <1>0, <1>b, <2>1, <2>4, <2>5 DEF ScoreOK
<1>4. CASE PassesTrace
  <2>1. /\ phase = "valid" /\ phase' = "util" /\ tracenum' = tracenum /\ errors' = errors
        /\ mm_stats' = [mm_stats EXCEPT ![tracenum].valid = TRUE] /\ tracenum \in 1 .. NumTraces
    BY <1>0, <1>4, <1>a DEF PassesTrace
  <2>2. errors = Cardinality(Failed(mm_stats, tracenum - 1)) /\ \A k \in tracenum .. NumTraces : ~ mm_stats[k].valid
    BY <1>0, <2>1 DEF ScoreOK
  <2>3. /\ mm_stats' = [k \in 1 .. NumTraces |-> mm_stats'[k]]
        /\ \A k \in 1 .. NumTraces : k # tracenum => mm_stats'[k] = mm_stats[k]
        /\ mm_stats'[tracenum] = [mm_stats[tracenum] EXCEPT !.valid = TRUE]
    BY <1>b, <2>1
  <2>4. IsStat(mm_stats'[tracenum]) /\ mm_stats'[tracenum].valid
    <3> DEFINE r == mm_stats[tracenum]
    <3>1. IsStat(r)
      BY <1>b, <2>1
    <3> HIDE DEF r
    <3>2. IsStat([r EXCEPT !.valid = TRUE]) /\ [r EXCEPT !.valid = TRUE].valid
      BY <3>1, StatValid
    <3> QED
      BY <2>3, <3>2 DEF r
  <2>5. \A k \in 1 .. NumTraces : IsStat(mm_stats'[k])
    BY <1>b, <2>1, <2>3, <2>4
  <2>6. Failed(mm_stats', tracenum - 1) = Failed(mm_stats, tracenum - 1)
    BY <2>1, <2>3 DEF Failed
  <2>7. \A k \in tracenum + 1 .. NumTraces : ~ mm_stats'[k].valid
    BY <2>1, <2>2, <2>3
  <2> QED
    BY <1>0, <2>1, <2>2, <2>3, <2>4, <2>5, <2>6, <2>7 DEF ScoreOK
<1>5. CASE RatesTrace
  <2>1. /\ phase = "util" /\ phase' = "speed" /\ tracenum' = tracenum /\ errors' = errors
        /\ tracenum \in 1 .. NumTraces
    BY <1>0, <1>5, <1>a DEF RatesTrace
  <2>a. PICK u : mm_stats' = [mm_stats EXCEPT ![tracenum].util = u]
    BY <1>5 DEF RatesTrace
  <2>2. /\ errors = Cardinality(Failed(mm_stats, tracenum - 1)) /\ mm_stats[tracenum].valid
        /\ \A k \in tracenum + 1 .. NumTraces : ~ mm_stats[k].valid
    BY <1>0, <2>1 DEF ScoreOK
  <2>3. /\ mm_stats' = [k \in 1 .. NumTraces |-> mm_stats'[k]]
        /\ \A k \in 1 .. NumTraces : k # tracenum => mm_stats'[k] = mm_stats[k]
        /\ mm_stats'[tracenum] = [mm_stats[tracenum] EXCEPT !.util = u]
    BY <1>b, <2>1, <2>a
  <2>4. IsStat(mm_stats'[tracenum]) /\ mm_stats'[tracenum].valid
    BY <1>b, <2>1, <2>2, <2>3 DEF IsStat
  <2>5. \A k \in 1 .. NumTraces : IsStat(mm_stats'[k])
    BY <1>b, <2>1, <2>3, <2>4
  <2>6. Failed(mm_stats', tracenum - 1) = Failed(mm_stats, tracenum - 1)
    BY <2>1, <2>3 DEF Failed
  <2>7. \A k \in tracenum + 1 .. NumTraces : ~ mm_stats'[k].valid
    BY <2>1, <2>2, <2>3
  <2> QED
    BY <1>0, <2>1, <2>2, <2>3, <2>4, <2>5, <2>6, <2>7 DEF ScoreOK
<1>6. CASE LeavesTrace
  <2>1. /\ phase = "speed" /\ phase' = "read" /\ tracenum' = tracenum + 1 /\ errors' = errors
        /\ mm_stats' = mm_stats /\ tracenum \in 1 .. NumTraces
    BY <1>0, <1>6, <1>a DEF LeavesTrace, next_trace
  <2>2. /\ errors = Cardinality(Failed(mm_stats, tracenum - 1)) /\ mm_stats[tracenum].valid
        /\ \A k \in tracenum + 1 .. NumTraces : ~ mm_stats[k].valid
    BY <1>0, <2>1 DEF ScoreOK
  <2>3. Failed(mm_stats', tracenum' - 1) = Failed(mm_stats, tracenum - 1)
    BY <2>1, <2>2 DEF Failed
  <2>4. \A k \in tracenum' .. NumTraces : ~ mm_stats'[k].valid
    BY <2>1, <2>2
  <2> QED
    BY <1>0, <1>b, <2>1, <2>2, <2>3, <2>4 DEF ScoreOK
<1>7. CASE ReadsTrace
  BY <1>0, <1>7 DEF ReadsTrace, ScoreOK
<1>8. CASE Compares
  BY <1>0, <1>8 DEF Compares, ScoreOK
<1>9. CASE StartsOver
  <2>1. /\ phase \in Earlier /\ phase' = "read" /\ tracenum' = 1 /\ errors' = errors
        /\ mm_stats' = mm_stats /\ errors = 0
    BY <1>9 DEF StartsOver, ScoreOK
  <2>2. Failed(mm_stats', tracenum' - 1) = {}
    BY <2>1 DEF Failed
  <2>3. errors' = Cardinality(Failed(mm_stats', tracenum' - 1))
    BY <2>1, <2>2, FS_EmptySet
  <2>4. \A k \in tracenum' .. NumTraces : ~ mm_stats'[k].valid
    BY <2>1 DEF ScoreOK
  <2> QED
    BY <1>0, <1>b, <2>1, <2>3, <2>4 DEF ScoreOK
<1>10. CASE report
  <2>1. /\ phase = "read" /\ phase' = "done" /\ UNCHANGED <<tracenum, errors, mm_stats>>
        /\ tracenum = NumTraces + 1
        /\ score'.numcorrect = Cardinality({i \in DOMAIN mm_stats : mm_stats[i].valid})
        /\ score'.perfindex # "zero" => errors = 0
    BY <1>10 DEF report
  <2>2. errors' = Cardinality(Failed(mm_stats', tracenum' - 1))
    BY <1>0, <2>1 DEF ScoreOK
  <2> QED
    BY <1>0, <1>b, <2>1, <2>2 DEF ScoreOK
<1> QED
  BY <1>1, <1>2, <1>3, <1>4, <1>5, <1>6, <1>7, <1>8, <1>9, <1>10, NextScores

(* Whatever the allocator does, main counts one error for every trace that *)
(* did not pass and none for those that did, and computes a performance    *)
(* index only when all traces passed.                                      *)
THEOREM ScoreCorrect == Spec => []ScoreSound
<1>1. ScoreOK => ScoreSound
  <2> SUFFICES ASSUME ScoreOK, phase = "done"
               PROVE  /\ score.numcorrect = NumTraces - errors
                      /\ score.perfindex # "zero" => \A i \in DOMAIN mm_stats : mm_stats[i].valid
    BY DEF ScoreSound
  <2> DEFINE F == Failed(mm_stats, NumTraces)
             V == {k \in 1 .. NumTraces : mm_stats[k].valid}
  <2>0. NumTraces \in Nat
    BY DriverAssumption
  <2>1. /\ mm_stats = [k \in 1 .. NumTraces |-> mm_stats[k]]
        /\ score.numcorrect = Cardinality({k \in DOMAIN mm_stats : mm_stats[k].valid})
        /\ score.perfindex # "zero" => errors = 0
        /\ errors = Cardinality(Failed(mm_stats, tracenum - 1)) /\ tracenum - 1 = NumTraces
    BY <2>0 DEF ScoreOK
  <2>2. DOMAIN mm_stats = 1 .. NumTraces
    BY <2>1
  <2>3. F \cup V = 1 .. NumTraces /\ F \cap V = {}
    BY DEF Failed
  <2>4. IsFiniteSet(1 .. NumTraces) /\ Cardinality(1 .. NumTraces) = NumTraces
    <3>1. /\ IsFiniteSet(1 .. NumTraces)
          /\ Cardinality(1 .. NumTraces) = IF 1 > NumTraces THEN 0 ELSE NumTraces - 1 + 1
      BY <2>0, FS_Interval
    <3> QED
      BY <2>0, <3>1
  <2>5. IsFiniteSet(F) /\ IsFiniteSet(V)
    <3>1. F \in SUBSET (1 .. NumTraces) /\ V \in SUBSET (1 .. NumTraces)
      BY DEF Failed
    <3> HIDE DEF F, V
    <3> QED
      BY <2>4, <3>1, FS_Subset
  <2>6. errors = Cardinality(F) /\ score.numcorrect = Cardinality(V)
    BY <2>1, <2>2
  <2> HIDE DEF F, V
  <2>7. Cardinality(F \cup V) = Cardinality(F) + Cardinality(V) - Cardinality(F \cap V)
    BY <2>5, FS_Union
  <2>8. Cardinality(F \cap V) = 0 /\ Cardinality(F) \in Nat /\ Cardinality(V) \in Nat
    BY <2>3, <2>5, FS_EmptySet, FS_CardinalityType
  <2>a. NumTraces = Cardinality(F) + Cardinality(V) - 0
    BY <2>3, <2>4, <2>7, <2>8
  <2>9. score.numcorrect = NumTraces - errors
    BY <2>0, <2>6, <2>8, <2>a
  <2>10. errors = 0 => F = {}
    BY <2>5, <2>6, FS_EmptySet
  <2>11. F = {} => \A i \in 1 .. NumTraces : mm_stats[i].valid
    BY DEF F, Failed
  <2> QED
    BY <2>1, <2>2, <2>9, <2>10, <2>11
<1>2. Init => ControlOK /\ ScoreOK
  BY ControlInit, ScoreInit
<1>3. ControlOK /\ ScoreOK /\ [Next]_vars => (ControlOK /\ ScoreOK)'
  BY ControlStep, ScoreStep
<1> QED
  BY <1>1, <1>2, <1>3, PTL DEF Spec

-----------------------------------------------------------------------------
(* The ids that are allocated. *)

(* Before the first request none is allocated. *)
LEMMA LiveStart == opnum \in {0, 1} => LiveIds = {}
BY BeforeStart DEF LiveIds

(* Finitely many are. *)
LEMMA LiveFinite ==
  ASSUME ControlOK
  PROVE  IsFiniteSet(LiveIds) /\ Cardinality(LiveIds) \in Nat /\ LiveIds \subseteq Ids
<1>1. opnum \in Nat
  <2>1. tracenum \in DOMAIN files => Len(trace) \in Nat
    BY TraceFacts DEF ControlOK
  <2> QED
    BY <2>1 DEF ControlOK
<1> QED
  BY <1>1, BeforeFinite, FS_CardinalityType DEF LiveIds

(* A request that is served adds its id, keeps it, or takes it out. *)
LEMMA LiveStep ==
  ASSUME ControlOK, tracenum \in 1 .. NumTraces, opnum \in DOMAIN trace, advance, UNCHANGED files
  PROVE  /\ op.cmd = "a" => LiveIds' = LiveIds \cup {op.id} /\ op.id \notin LiveIds
         /\ op.cmd = "r" => LiveIds' = LiveIds /\ op.id \in LiveIds
         /\ op.cmd = "f" => LiveIds' = LiveIds \ {op.id} /\ op.id \in LiveIds
<1>1. op.id \in Ids /\ opnum \in Nat \ {0} /\ IF op.cmd = "a" THEN op.id \notin LiveIds ELSE op.id \in LiveIds
  BY TraceFacts
<1>2. LiveIds' = Before(trace, opnum + 1)
  BY DEF advance, LiveIds, trace
<1>3. /\ trace[opnum].cmd = "a" => Before(trace, opnum + 1) = Before(trace, opnum) \cup ({trace[opnum].id} \cap Ids)
      /\ trace[opnum].cmd = "f" => Before(trace, opnum + 1) = Before(trace, opnum) \ {trace[opnum].id}
      /\ trace[opnum].cmd \notin {"a", "f"} => Before(trace, opnum + 1) = Before(trace, opnum)
  BY <1>1, BeforeStep
<1>4. {op.id} \cap Ids = {op.id}
  BY <1>1
<1> QED
  BY <1>1, <1>2, <1>3, <1>4 DEF op, LiveIds

-----------------------------------------------------------------------------
(* The comparison with the C library. *)

(* What the traces leave allocated. *)
Left == [k \in DOMAIN files |-> Cardinality(Before(files[k].ops, Len(files[k].ops) + 1))]

Passes == IF phase = "libc_speed" THEN 1 + reps ELSE 0

Leaked(n) == (1 + Reps) * SumOver(Left, 1 .. n)

(* The recorded pointers are different ones the library has given out. *)
Recorded(b, live, held) ==
  /\ b = [i \in Ids |-> b[i]]
  /\ \A i \in live : b[i] \in held
  /\ \A i, j \in live : i # j => b[i] # b[j]

LibcOK ==
  /\ phase \in Earlier => IsFiniteSet(libc)
  /\ phase = "libc_read" => Cardinality(libc) = Leaked(tracenum - 1)
  /\ phase \in Comparisons =>
       /\ Recorded(blocks, LiveIds, libc)
       /\ Cardinality(libc) = Cardinality(LiveIds) + Passes * Left[tracenum] + Leaked(tracenum - 1)

(* A pointer that is not in use exists. *)
LEMMA UnusedIsNew ==
  ASSUME NEW held, IsFiniteSet(held)
  PROVE  Unused(held) \notin held /\ Unused(held) \in Nat
<1> DEFINE n == Cardinality(held) + 1
<1>1. n \in Nat /\ Cardinality(held) \in Nat
  BY FS_CardinalityType
<1>2. IsFiniteSet(1 .. n) /\ Cardinality(1 .. n) = n
  <2> HIDE DEF n
  <2>1. IsFiniteSet(1 .. n) /\ Cardinality(1 .. n) = IF 1 > n THEN 0 ELSE n - 1 + 1
    BY <1>1, FS_Interval
  <2>2. n >= 1
    BY <1>1 DEF n
  <2> QED
    BY <1>1, <2>1, <2>2
<1>3. ~ (1 .. n \subseteq held)
  <2> SUFFICES ASSUME 1 .. n \in SUBSET held PROVE FALSE
    OBVIOUS
  <2>1. Cardinality(1 .. n) <= Cardinality(held)
    <3> HIDE DEF n
    <3> QED
      BY FS_Subset
  <2> QED
    BY <1>1, <1>2, <2>1
<1>4. \E p \in 1 .. n : p \notin held
  BY <1>3
<1> QED
  BY <1>4 DEF Unused

(* One more pointer, recorded under an id that had none or whose old one   *)
(* is given back.                                                          *)
LEMMA RecordedGives ==
  ASSUME NEW b, NEW live \in SUBSET Ids, NEW held, Recorded(b, live, held), NEW id \in Ids,
         NEW rest, rest \subseteq held, \A i \in live \ {id} : b[i] \in rest,
         NEW p, p \notin rest
  PROVE  Recorded([b EXCEPT ![id] = p], live \cup {id}, rest \cup {p})
<1> DEFINE c == [b EXCEPT ![id] = p]
<1>1. /\ c = [i \in Ids |-> c[i]] /\ c[id] = p
      /\ \A i \in Ids : i # id => c[i] = b[i]
  BY DEF Recorded
<1> HIDE DEF c
<1>2. \A i \in live \cup {id} : c[i] \in rest \cup {p}
  BY <1>1
<1>3. \A i, j \in live \cup {id} : i # j => c[i] # c[j]
  BY <1>1 DEF Recorded
<1> QED
  BY <1>1, <1>2, <1>3 DEF Recorded, c

(* One pointer less. *)
LEMMA RecordedFrees ==
  ASSUME NEW b, NEW live, NEW held, Recorded(b, live, held), NEW id \in live
  PROVE  /\ Recorded(b, live \ {id}, held \ {b[id]})
         /\ \A i \in live \ {id} : b[i] \in held \ {b[id]}
BY DEF Recorded

(* What a trace leaves with libc is a number of blocks.                    *)
LEMMA LeftNat ==
  ASSUME ControlOK
  PROVE  \A k \in 1 .. NumTraces : Left[k] \in Nat /\ k \in DOMAIN files
<1> SUFFICES ASSUME NEW k \in 1 .. NumTraces PROVE Left[k] \in Nat /\ k \in DOMAIN files
  OBVIOUS
<1>1. k \in DOMAIN files /\ files[k] \in TraceFiles
  BY DEF ControlOK
<1>2. Len(files[k].ops) + 1 \in Nat
  BY <1>1, DriverAssumption
<1>3. Cardinality(Before(files[k].ops, Len(files[k].ops) + 1)) \in Nat
  BY <1>2, BeforeFinite, FS_CardinalityType
<1> QED
  BY <1>1, <1>3 DEF Left

(* The leak grows with every trace by what its passes leave. *)
LEMMA LeakedGrows ==
  ASSUME ControlOK, NEW n \in 1 .. NumTraces
  PROVE  /\ Leaked(n) = (1 + Reps) * Left[n] + Leaked(n - 1)
         /\ Leaked(n - 1) \in Int /\ (1 + Reps) * Left[n] \in Int
<1>0. Reps \in Nat /\ NumTraces \in Nat /\ n \in Int
  BY DriverAssumption
<1> DEFINE S == 1 .. n - 1
<1>1. IsFiniteSet(S)
  BY <1>0, FS_Interval
<1>2. (\A y \in S : Left[y] \in Int) /\ Left[n] \in Int /\ n \notin S /\ S \cup {n} = 1 .. n
  BY <1>0, LeftNat
<1> HIDE DEF S
<1>3. SumOver(Left, S) \in Int /\ SumOver(Left, S \cup {n}) = SumOver(Left, S) + Left[n]
  BY <1>1, <1>2, SumAdd
<1>4. \A a, b, c \in Int : a * (b + c) = a * c + a * b /\ a * b \in Int
  OBVIOUS
<1>5. (1 + Reps) * (SumOver(Left, S) + Left[n]) = (1 + Reps) * Left[n] + (1 + Reps) * SumOver(Left, S)
  BY <1>0, <1>2, <1>3, <1>4
<1>6. Leaked(n) = (1 + Reps) * (SumOver(Left, S) + Left[n]) /\ Leaked(n - 1) = (1 + Reps) * SumOver(Left, S)
  <2>1. SumOver(Left, 1 .. n) = SumOver(Left, S) + Left[n]
    BY <1>2, <1>3
  <2>2. SumOver(Left, 1 .. n - 1) = SumOver(Left, S)
    BY DEF S
  <2> QED
    BY <2>1, <2>2 DEF Leaked
<1>7. (1 + Reps) * SumOver(Left, S) \in Int /\ (1 + Reps) * Left[n] \in Int
  <2>1. 1 + Reps \in Int
    BY <1>0
  <2> QED
    BY <1>2, <1>3, <1>4, <2>1
<1> QED
  BY <1>5, <1>6, <1>7

(* Only the comparison's own functions move its pointers. *)
LEMMA NextLibc ==
  [Next]_vars =>
    \/ phase' \notin Earlier
    \/ UNCHANGED <<control, files, blocks, libc>>
    \/ /\ phase = "libc_read" /\ read_trace /\ phase' = "libc_valid" /\ opnum' = 0
       /\ UNCHANGED <<tracenum, files, libc>>
    \/ eval_libc /\ UNCHANGED files
<1> SUFFICES ASSUME [Next]_vars, phase' \in Earlier
             PROVE  \/ UNCHANGED <<control, files, blocks, libc>>
                    \/ /\ phase = "libc_read" /\ read_trace /\ phase' = "libc_valid" /\ opnum' = 0
                       /\ UNCHANGED <<tracenum, files, libc>>
                    \/ eval_libc /\ UNCHANGED files
  OBVIOUS
<1>0. Earlier = {"libc_read", "libc_valid", "libc_speed"}
  BY DEF Earlier, Comparisons
<1>1. CASE read_trace
  BY <1>0, <1>1 DEF read_trace, enter, exit, overrun
<1>2. CASE eval_libc
  BY <1>2 DEF eval_libc
<1>3. ~ libc_done
  BY <1>0 DEF libc_done
<1>4. ~ eval_mm_valid
  <2>1. ~ valid_enter
    BY <1>0 DEF valid_enter, valid_fail, advance, next_trace
  <2>2. ~ valid_alloc
    BY <1>0 DEF valid_alloc, assert_fails, valid_fail, Running, advance, next_trace, exit
  <2>3. ~ valid_realloc
    BY <1>0 DEF valid_realloc, assert_fails, valid_fail, Running, advance, next_trace, exit
  <2>4. ~ valid_free /\ ~ valid_exit
    BY <1>0 DEF valid_free, valid_exit, AtEnd, enter, Running, advance
  <2> QED
    BY <2>1, <2>2, <2>3, <2>4 DEF eval_mm_valid
<1>5. ~ eval_mm_util
  <2>1. ~ util_enter /\ ~ util_exit /\ ~ util_free
    BY <1>0 DEF util_enter, util_exit, util_free, AtEnd, Running, enter, advance, exit
  <2>2. ~ util_alloc /\ ~ util_realloc
    BY <1>0 DEF util_alloc, util_realloc, app_error, Running, advance, exit
  <2> QED
    BY <2>1, <2>2 DEF eval_mm_util
<1>6. ~ eval_mm_speed
  <2>1. ~ speed_enter /\ ~ speed_exit /\ ~ speed_free
    BY <1>0 DEF speed_enter, speed_exit, speed_free, AtEnd, Running, next_trace, advance, exit
  <2>2. ~ speed_alloc /\ ~ speed_realloc
    BY <1>0 DEF speed_alloc, speed_realloc, speed_error, Running, advance, exit
  <2> QED
    BY <2>1, <2>2 DEF eval_mm_speed
<1>7. ~ report
  BY <1>0 DEF report
<1>8. CASE UNCHANGED vars
  BY <1>8 DEF vars
<1> QED
  BY <1>1, <1>2, <1>3, <1>4, <1>5, <1>6, <1>7, <1>8 DEF Next, Terminating

(* The function that runs has given out what it recorded. *)
LibcHolds == phase \in Comparisons /\ LibcOK

(* A pointer is handed out for a request. *)
LEMMA LibcGives ==
  ASSUME ControlOK, LibcHolds, UNCHANGED files, tracenum \in 1 .. NumTraces, opnum \in DOMAIN trace,
         NEW held, UNCHANGED files,
         \/ op.cmd = "a" /\ held = libc
         \/ op.cmd = "r" /\ held = libc \ {blocks[op.id]},
         NEW p, p \notin held, libc_gives(held, p)
  PROVE  LibcOK'
<1>1. /\ phase \in Comparisons /\ Recorded(blocks, LiveIds, libc) /\ IsFiniteSet(libc)
      /\ Cardinality(libc) = Cardinality(LiveIds) + Passes * Left[tracenum] + Leaked(tracenum - 1)
  BY DEF LibcHolds, LibcOK, Earlier
<1>2. /\ advance /\ blocks' = [blocks EXCEPT ![op.id] = p] /\ libc' = held \cup {p}
  BY DEF libc_gives
<1>3. /\ op.cmd = "a" => LiveIds' = LiveIds \cup {op.id} /\ op.id \notin LiveIds
      /\ op.cmd = "r" => LiveIds' = LiveIds /\ op.id \in LiveIds
  BY <1>2, LiveStep
<1>4. op.id \in Ids /\ LiveIds \in SUBSET Ids /\ IsFiniteSet(LiveIds)
  BY TraceFacts, LiveFinite
<1>5. held \subseteq libc /\ \A i \in LiveIds \ {op.id} : blocks[i] \in held
  BY <1>1, <1>3 DEF Recorded
<1>6. Recorded(blocks', LiveIds \cup {op.id}, libc')
  BY <1>1, <1>2, <1>4, <1>5, RecordedGives
<1>7. LiveIds \cup {op.id} = LiveIds'
  BY <1>3
<1>8. IsFiniteSet(libc') /\ Cardinality(libc') - Cardinality(LiveIds') = Cardinality(libc) - Cardinality(LiveIds)
  <2>0. Cardinality(libc) \in Nat /\ Cardinality(LiveIds) \in Nat
    BY <1>1, <1>4, FS_CardinalityType
  <2>1. CASE op.cmd = "a"
    <3>1. IsFiniteSet(libc \cup {p}) /\ Cardinality(libc \cup {p}) = Cardinality(libc) + 1
      BY <1>1, <2>1, FS_AddElement
    <3>2. Cardinality(LiveIds \cup {op.id}) = Cardinality(LiveIds) + 1
      BY <1>3, <1>4, <2>1, FS_AddElement
    <3>3. libc' = libc \cup {p} /\ LiveIds' = LiveIds \cup {op.id}
      BY <1>2, <1>3, <2>1
    <3>4. Cardinality(libc') = Cardinality(libc) + 1 /\ Cardinality(LiveIds') = Cardinality(LiveIds) + 1
      BY <3>1, <3>2, <3>3
    <3> QED
      BY <2>0, <3>1, <3>3, <3>4
  <2>2. CASE op.cmd = "r"
    <3>1. held = libc \ {blocks[op.id]} /\ blocks[op.id] \in libc
      BY <1>1, <1>3, <2>2 DEF Recorded
    <3>2. IsFiniteSet(held) /\ Cardinality(held) = Cardinality(libc) - 1
      BY <1>1, <3>1, FS_RemoveElement
    <3>3. IsFiniteSet(held \cup {p}) /\ Cardinality(held \cup {p}) = Cardinality(held) + 1
      BY <3>2, FS_AddElement
    <3> QED
      BY <1>2, <1>3, <2>0, <2>2, <3>2, <3>3
  <2> QED
    BY <2>1, <2>2
<1>9. UNCHANGED <<phase, tracenum, reps>> /\ Passes' = Passes /\ Left' = Left /\ Leaked(tracenum - 1)' = Leaked(tracenum - 1)
  BY <1>2 DEF advance, Passes, Left, Leaked
<1>10. Cardinality(libc') = Cardinality(LiveIds') + Passes * Left[tracenum] + Leaked(tracenum - 1)
  <2> DEFINE a == Passes * Left[tracenum]
             b == Leaked(tracenum - 1)
  <2>1. a \in Int /\ b \in Int
    <3>1. Left[tracenum] \in Int /\ Passes \in Int
      BY LeftNat DEF Passes, ControlOK
    <3>2. \A x, y \in Int : x * y \in Int
      OBVIOUS
    <3> QED
      BY <3>1, <3>2, LeakedGrows
  <2> HIDE DEF a, b
  <2>2. Cardinality(libc) = Cardinality(LiveIds) + a + b
    BY <1>1 DEF a, b
  <2>3. /\ Cardinality(libc) \in Nat /\ Cardinality(LiveIds) \in Nat
        /\ Cardinality(libc') \in Nat /\ Cardinality(LiveIds') \in Nat
    <3>1. IsFiniteSet(LiveIds')
      BY <1>4, <1>7, FS_AddElement
    <3> QED
      BY <1>1, <1>4, <1>8, <3>1, FS_CardinalityType
  <2>c. \A x, y, u, v \in Int : x - y = u - v /\ u = v + a + b => x = y + a + b
    BY <2>1
  <2>4. Cardinality(libc') = Cardinality(LiveIds') + a + b
    BY <1>8, <2>2, <2>3, <2>c
  <2> QED
    BY <2>4 DEF a, b
<1>11. phase' \in Comparisons /\ phase' # "libc_read"
  BY <1>1, <1>9 DEF Comparisons
<1> QED
  BY <1>6, <1>7, <1>8, <1>9, <1>10, <1>11 DEF LibcOK

(* A pointer is given back. *)
LEMMA LibcFrees ==
  ASSUME ControlOK, LibcHolds, UNCHANGED files, tracenum \in 1 .. NumTraces, opnum \in DOMAIN trace,
         op.cmd = "f", libc' = libc \ {blocks[op.id]}, advance, UNCHANGED blocks
  PROVE  LibcOK'
<1>1. /\ phase \in Comparisons /\ Recorded(blocks, LiveIds, libc) /\ IsFiniteSet(libc)
      /\ Cardinality(libc) = Cardinality(LiveIds) + Passes * Left[tracenum] + Leaked(tracenum - 1)
  BY DEF LibcHolds, LibcOK, Earlier
<1>2. LiveIds' = LiveIds \ {op.id} /\ op.id \in LiveIds
  BY LiveStep
<1>3. Recorded(blocks', LiveIds', libc')
  BY <1>1, <1>2, RecordedFrees
<1>4. IsFiniteSet(LiveIds)
  BY LiveFinite
<1>5. IsFiniteSet(libc') /\ Cardinality(libc') = Cardinality(libc) - 1
  <2>1. blocks[op.id] \in libc
    BY <1>1, <1>2 DEF Recorded
  <2> QED
    BY <1>1, <2>1, FS_RemoveElement
<1>6. Cardinality(LiveIds') = Cardinality(LiveIds) - 1
  BY <1>2, <1>4, FS_RemoveElement
<1>7. UNCHANGED <<phase, tracenum, reps>> /\ Passes' = Passes /\ Left' = Left /\ Leaked(tracenum - 1)' = Leaked(tracenum - 1)
  BY DEF advance, Passes, Left, Leaked
<1>8. Cardinality(libc') = Cardinality(LiveIds') + Passes * Left[tracenum] + Leaked(tracenum - 1)
  <2> DEFINE a == Passes * Left[tracenum]
             b == Leaked(tracenum - 1)
  <2>1. a \in Int /\ b \in Int
    <3>1. Left[tracenum] \in Int /\ Passes \in Int
      BY LeftNat DEF Passes, ControlOK
    <3>2. \A x, y \in Int : x * y \in Int
      OBVIOUS
    <3> QED
      BY <3>1, <3>2, LeakedGrows
  <2> HIDE DEF a, b
  <2>2. Cardinality(libc) = Cardinality(LiveIds) + a + b
    BY <1>1 DEF a, b
  <2>3. Cardinality(libc) \in Nat /\ Cardinality(LiveIds) \in Nat
    BY <1>1, <1>4, FS_CardinalityType
  <2>4. Cardinality(libc') = Cardinality(LiveIds') + a + b
    BY <1>5, <1>6, <2>1, <2>2, <2>3
  <2> QED
    BY <2>4 DEF a, b
<1>9. phase' \in Comparisons /\ phase' # "libc_read"
  BY <1>1, <1>7 DEF Comparisons
<1> QED
  BY <1>3, <1>5, <1>7, <1>8, <1>9 DEF LibcOK

(* Nothing is held at the start. *)
LEMMA LibcInit == Init => LibcOK
<1> SUFFICES ASSUME Init PROVE LibcOK
  OBVIOUS
<1>1. phase \in {"libc_read", "read"} /\ tracenum = 1 /\ libc = {}
  BY DEF Init
<1>2. IsFiniteSet(libc) /\ Cardinality(libc) = 0
  BY <1>1, FS_EmptySet
<1>3. Leaked(tracenum - 1) = 0
  <2>1. 1 .. tracenum - 1 = {}
    BY <1>1
  <2>2. SumOver(Left, 1 .. tracenum - 1) = 0
    BY <2>1, SumEmpty
  <2> QED
    BY <2>2, DriverAssumption DEF Leaked
<1>4. phase \notin Comparisons
  BY <1>1 DEF Comparisons
<1> QED
  BY <1>2, <1>3, <1>4 DEF LibcOK

(* Every step keeps the count. *)
LEMMA LibcStep == ControlOK /\ LibcOK /\ [Next]_vars => LibcOK'
<1> SUFFICES ASSUME ControlOK, LibcOK, [Next]_vars PROVE LibcOK'
  OBVIOUS
<1>0. Earlier = {"libc_read", "libc_valid", "libc_speed"} /\ Comparisons = {"libc_valid", "libc_speed"}
  BY DEF Earlier, Comparisons
<1>1. CASE phase' \notin Earlier
  BY <1>0, <1>1 DEF LibcOK
<1>2. CASE UNCHANGED <<control, files, blocks, libc>>
  BY <1>2 DEF control, LibcOK, LiveIds, trace, Passes, Left, Leaked
<1>3. CASE /\ phase = "libc_read" /\ read_trace /\ phase' = "libc_valid" /\ opnum' = 0
           /\ UNCHANGED <<tracenum, files, libc>>
  <2>1. LiveIds' = {}
    BY <1>3, BeforeStart DEF LiveIds
  <2>2. Cardinality(LiveIds') = 0 /\ Passes' = 0
    BY <1>3, <2>1, FS_EmptySet DEF Passes
  <2>3. tracenum \in 1 .. NumTraces /\ tracenum' = tracenum /\ Left' = Left /\ Leaked(tracenum - 1)' = Leaked(tracenum - 1)
    BY <1>3 DEF read_trace, ControlOK, Left, Leaked
  <2>4. Left[tracenum] \in Nat /\ Leaked(tracenum - 1) \in Int
    BY <2>3, LeftNat, LeakedGrows
  <2>5. Cardinality(libc') = Cardinality(LiveIds') + Passes' * Left[tracenum] + Leaked(tracenum - 1)
    <3>1. Cardinality(libc') = Leaked(tracenum - 1)
      BY <1>3 DEF LibcOK
    <3> QED
      BY <2>2, <2>4, <3>1
  <2>6. Recorded(blocks', LiveIds', libc')
    <3>1. blocks' = NoBlocks
      BY <1>3 DEF read_trace
    <3> QED
      BY <2>1, <3>1 DEF Recorded, NoBlocks
  <2> QED
    BY <1>0, <1>3, <2>3, <2>5, <2>6 DEF LibcOK
<1>4. CASE eval_libc /\ UNCHANGED files
  <2>1. ASSUME NEW f \in {"libc_valid", "libc_speed"}, libc_enter(f) PROVE LibcOK'
    <3>1. /\ phase = f /\ opnum = 0 /\ opnum' = 1
          /\ UNCHANGED <<phase, tracenum, reps, blocks, libc>>
      BY <2>1 DEF libc_enter, advance
    <3>2. LiveIds = {} /\ LiveIds' = {}
      BY <3>1, BeforeStart DEF LiveIds
    <3> QED
      BY <1>0, <1>4, <3>1, <3>2 DEF LibcOK, Passes, Left, Leaked
  <2>2. ASSUME NEW f \in {"libc_valid", "libc_speed"}, NEW c, Running(f, c)
        PROVE  /\ LibcHolds /\ tracenum \in 1 .. NumTraces /\ opnum \in DOMAIN trace /\ op.cmd = c
               /\ IsFiniteSet(libc) /\ (libc_fails(f) => phase' \notin Earlier)
    <3>1. phase = f /\ opnum \in DOMAIN trace /\ op.cmd = c
      BY <2>2 DEF Running
    <3>2. tracenum \in 1 .. NumTraces
      BY <1>0, <3>1 DEF ControlOK, Phases
    <3> QED
      BY <1>0, <3>1, <3>2 DEF LibcHolds, LibcOK, libc_fails, exit
  <2>3. ASSUME NEW f \in {"libc_valid", "libc_speed"}, libc_alloc(f), ~ libc_fails(f) PROVE LibcOK'
    <3>1. Running(f, "a") /\ libc_gives(libc, Unused(libc))
      BY <2>3 DEF libc_alloc
    <3>2. Unused(libc) \notin libc
      BY <2>2, <3>1, UnusedIsNew
    <3> QED
      BY <1>4, <2>2, <3>1, <3>2, LibcGives
  <2>4. ASSUME NEW f \in {"libc_valid", "libc_speed"}, libc_free(f) PROVE LibcOK'
    <3>1. Running(f, "f") /\ libc' = libc \ {blocks[op.id]} /\ advance /\ UNCHANGED blocks
      BY <2>4 DEF libc_free
    <3> QED
      BY <1>4, <2>2, <3>1, LibcFrees
  <2>5. ASSUME libc_valid_realloc, ~ libc_fails("libc_valid") PROVE LibcOK'
    <3> DEFINE rest == libc \ {blocks[op.id]}
    <3>1. Running("libc_valid", "r") /\ libc_gives(rest, Unused(rest))
      BY <2>5 DEF libc_valid_realloc
    <3>2. IsFiniteSet(rest)
      BY <2>2, <3>1, FS_RemoveElement
    <3>3. Unused(rest) \notin rest
      <4> HIDE DEF rest
      <4> QED
        BY <3>2, UnusedIsNew
    <3>4. \/ op.cmd = "a" /\ rest = libc
          \/ op.cmd = "r" /\ rest = libc \ {blocks[op.id]}
      BY <2>2, <3>1
    <3>5. LibcHolds /\ tracenum \in 1 .. NumTraces /\ opnum \in DOMAIN trace
      BY <2>2, <3>1
    <3> HIDE DEF rest
    <3> QED
      BY <1>4, <3>1, <3>3, <3>4, <3>5, LibcGives
  <2>6. ASSUME libc_speed_realloc, ~ libc_fails("libc_speed") PROVE LibcOK'
    <3> DEFINE rest == libc \ {blocks[op.id]}
    <3>1. Running("libc_speed", "r") /\ libc_gives(rest, Unused(libc))
      BY <2>6 DEF libc_speed_realloc
    <3>2. Unused(libc) \notin rest
      BY <2>2, <3>1, UnusedIsNew
    <3>4. \/ op.cmd = "a" /\ rest = libc
          \/ op.cmd = "r" /\ rest = libc \ {blocks[op.id]}
      BY <2>2, <3>1
    <3>5. LibcHolds /\ tracenum \in 1 .. NumTraces /\ opnum \in DOMAIN trace
      BY <2>2, <3>1
    <3> HIDE DEF rest
    <3> QED
      BY <1>4, <3>1, <3>2, <3>4, <3>5, LibcGives
  <2>7. ASSUME libc_exit PROVE LibcOK'
    <3>1. /\ phase \in Comparisons /\ opnum = Len(trace) + 1 /\ opnum' = 0
          /\ UNCHANGED <<blocks, libc>>
      BY <1>0, <2>7 DEF libc_exit, AtEnd, enter, next_trace
    <3>2. /\ tracenum \in 1 .. NumTraces /\ reps \in Nat /\ reps < Reps /\ Reps \in Nat
          /\ NumTraces \in Nat /\ tracenum \in Int
      BY <3>1, DriverAssumption DEF ControlOK, Phases
    <3>3. Cardinality(LiveIds) = Left[tracenum] /\ Left[tracenum] \in Nat /\ Left' = Left
      BY <1>4, <3>1, <3>2, LeftNat DEF LiveIds, Left, trace
    <3>4. /\ Leaked(tracenum) = (1 + Reps) * Left[tracenum] + Leaked(tracenum - 1)
          /\ Leaked(tracenum - 1) \in Int /\ (1 + Reps) * Left[tracenum] \in Int
      BY <3>2, LeakedGrows
    <3>5. /\ Cardinality(libc) = Left[tracenum] + Passes * Left[tracenum] + Leaked(tracenum - 1)
          /\ IsFiniteSet(libc)
      BY <1>0, <3>1, <3>3 DEF LibcOK
    <3>6. LiveIds' = {} /\ Cardinality(LiveIds') = 0 /\ Recorded(blocks', LiveIds', libc')
      <4>1. LiveIds' = {}
        BY <3>1, BeforeStart DEF LiveIds
      <4>2. blocks' = [i \in Ids |-> blocks'[i]]
        BY <3>1 DEF LibcOK, Recorded
      <4> QED
        BY <4>1, <4>2, FS_EmptySet DEF Recorded
    <3>7. \A n, l \in Int : l + n * l = (1 + n) * l
      OBVIOUS
    <3>8. \A n : Leaked(n)' = Leaked(n)
      BY <3>3 DEF Leaked
    <3>9. Passes \in Int
      BY <3>2 DEF Passes
    <3>10. Left[tracenum] + Passes * Left[tracenum] = (1 + Passes) * Left[tracenum]
      <4> DEFINE l == Left[tracenum]
                 n == Passes
      <4>1. l \in Int /\ n \in Int
        BY <3>3, <3>9
      <4> HIDE DEF l, n
      <4>2. l + n * l = (1 + n) * l
        BY <3>7, <4>1
      <4> QED
        BY <4>2 DEF l, n
    <3>11. CASE phase' \in Comparisons
      <4>1. tracenum' = tracenum /\ phase' # "libc_read" /\ Passes' = 1 + Passes
        <5>1. CASE AtEnd("libc_valid") /\ enter("libc_speed")
          BY <3>1, <5>1 DEF AtEnd, enter, Passes
        <5>2. CASE AtEnd("libc_speed") /\ opnum' = 0 /\ reps' = reps + 1 /\ UNCHANGED <<phase, tracenum>>
          BY <3>1, <3>2, <5>2 DEF AtEnd, Passes
        <5>3. ~ next_trace("libc_read")
          BY <1>0, <3>11 DEF next_trace
        <5> QED
          BY <2>7, <5>1, <5>2, <5>3 DEF libc_exit
      <4>2. Passes' * Left[tracenum] = (1 + Passes) * Left[tracenum] /\ Passes' * Left[tracenum] \in Int
        <5>1. \A x, y \in Int : x * y \in Int
          OBVIOUS
        <5> QED
          BY <3>3, <3>9, <4>1, <5>1
      <4>3. Cardinality(libc') = Cardinality(LiveIds') + Passes' * Left[tracenum] + Leaked(tracenum - 1)
        <5>1. Cardinality(libc) = Passes' * Left[tracenum] + Leaked(tracenum - 1)
          BY <3>5, <3>10, <4>2
        <5>2. \A x, y \in Int : 0 + x + y = x + y
          OBVIOUS
        <5> QED
          BY <3>1, <3>4, <3>6, <4>2, <5>1, <5>2
      <4> QED
        BY <3>1, <3>3, <3>5, <3>6, <3>8, <3>11, <4>1, <4>3 DEF LibcOK
    <3>12. CASE phase' \notin Comparisons
      <4>1. phase = "libc_speed" /\ ~ (reps + 1 < Reps) /\ next_trace("libc_read")
        BY <1>0, <2>7, <3>12 DEF libc_exit, AtEnd, enter
      <4>2. tracenum' - 1 = tracenum /\ phase' = "libc_read" /\ Passes = Reps
        BY <3>2, <4>1 DEF next_trace, Passes
      <4>3. Cardinality(libc') = Leaked(tracenum)
        BY <3>1, <3>4, <3>5, <3>10, <4>2
      <4> QED
        BY <3>1, <3>5, <3>8, <3>12, <4>2, <4>3 DEF LibcOK
    <3> QED
      BY <3>11, <3>12
  <2>8. (\E f \in {"libc_valid", "libc_speed"} : libc_fails(f)) => LibcOK'
    BY <1>1, <1>0 DEF libc_fails, exit
  <2> QED
    BY <1>4, <2>1, <2>3, <2>4, <2>5, <2>6, <2>7, <2>8 DEF eval_libc
<1> QED
  BY <1>1, <1>2, <1>3, <1>4, NextLibc

(* The invariant of the libc comparison holds in every reachable state.    *)
LEMMA Libc == Spec => [](ControlOK /\ LibcOK)
<1>1. Init => ControlOK /\ LibcOK
  BY ControlInit, LibcInit
<1>2. ControlOK /\ LibcOK /\ [Next]_vars => (ControlOK /\ LibcOK)'
  BY ControlStep, LibcStep
<1> QED
  BY <1>1, <1>2, PTL DEF Spec

(* The comparison with the C library leaks what each pass over a trace     *)
(* leaves allocated, once per pass, and nothing else, for every set of     *)
(* traces and any number of passes.                                        *)
THEOREM LeaksCorrect == Spec => []LibcLeaksExact
<1>1. LibcOK => LibcLeaksExact
  BY DEF LibcOK, LibcLeaksExact, Left, Leaked, Passes, SumOver
<1> QED
  BY <1>1, Libc, PTL

(* What remove_range takes out: the newest range that starts at lo. *)
LEMMA RemoveRange ==
  ASSUME NEW P, NEW R \in Seq(P), NEW lo
  PROVE  \/ remove_range(R, lo) = R /\ \A i \in 1 .. Len(R) : R[i].lo # lo
         \/ \E k \in 1 .. Len(R) :
              /\ R[k].lo = lo
              /\ remove_range(R, lo) \in Seq(P) /\ Len(remove_range(R, lo)) = Len(R) - 1
              /\ \A i \in 1 .. Len(R) - 1 : remove_range(R, lo)[i] = R[IF i < k THEN i ELSE i + 1]
<1> DEFINE I == {i \in 1 .. Len(R) : R[i].lo = lo}
           k == IF I # {} THEN Min(I) ELSE 0
<1>0. Len(R) \in Nat
  OBVIOUS
<1>1. remove_range(R, lo) = IF k = 0 THEN R ELSE SubSeq(R, 1, k - 1) \o SubSeq(R, k + 1, Len(R))
  BY DEF remove_range, SelectInSeq, RemoveAt
<1>2. CASE I = {}
  BY <1>1, <1>2
<1>3. CASE I # {}
  <2>1. k \in I
    <3>1. I \in SUBSET Nat
      BY <1>0
    <3>2. \E n \in I : \A m \in I : n <= m
      <4> HIDE DEF I
      <4> QED
        BY <1>3, <3>1, NatMinimum
    <3> QED
      BY <1>3, <3>2 DEF Min
  <2> HIDE DEF k
  <2>2. k \in 1 .. Len(R) /\ R[k].lo = lo /\ k # 0
    BY <2>1
  <2> DEFINE T == SubSeq(R, 1, k - 1) \o SubSeq(R, k + 1, Len(R))
  <2>3. /\ SubSeq(R, 1, k - 1) \in Seq(P) /\ Len(SubSeq(R, 1, k - 1)) = k - 1
        /\ \A i \in 1 .. k - 1 : SubSeq(R, 1, k - 1)[i] = R[i]
    BY <1>0, <2>2
  <2>4. /\ SubSeq(R, k + 1, Len(R)) \in Seq(P) /\ Len(SubSeq(R, k + 1, Len(R))) = Len(R) - k
        /\ \A i \in 1 .. Len(R) - k : SubSeq(R, k + 1, Len(R))[i] = R[k + i]
    BY <1>0, <2>2
  <2> DEFINE U == SubSeq(R, 1, k - 1)
             V == SubSeq(R, k + 1, Len(R))
  <2>a. T = U \o V /\ U \in Seq(P) /\ V \in Seq(P) /\ Len(U) = k - 1 /\ Len(V) = Len(R) - k
    BY <2>3, <2>4
  <2>b. /\ \A i \in 1 .. k - 1 : U[i] = R[i]
        /\ \A i \in 1 .. Len(R) - k : V[i] = R[k + i]
    BY <2>3, <2>4
  <2> HIDE DEF T, U, V
  <2>5. T \in Seq(P) /\ Len(T) = Len(R) - 1
    <3>1. U \o V \in Seq(P) /\ Len(U \o V) = Len(U) + Len(V)
      BY <2>a, ConcatProperties
    <3>2. k - 1 + (Len(R) - k) = Len(R) - 1
      BY <1>0, <2>2
    <3> QED
      BY <2>a, <3>1, <3>2
  <2>c. \A i \in 1 .. Len(U) + Len(V) : T[i] = IF i <= Len(U) THEN U[i] ELSE V[i - Len(U)]
    BY <2>a
  <2>6. ASSUME NEW i \in 1 .. Len(R) - 1 PROVE T[i] = R[IF i < k THEN i ELSE i + 1]
    <3>0. T[i] = IF i <= k - 1 THEN U[i] ELSE V[i - (k - 1)]
      BY <1>0, <2>2, <2>a, <2>c
    <3>1. CASE i < k
      BY <1>0, <2>2, <2>b, <3>0, <3>1
    <3>2. CASE ~ (i < k)
      <4>1. T[i] = V[i - (k - 1)]
        BY <1>0, <2>2, <3>0, <3>2
      <4>2. i - (k - 1) \in 1 .. Len(R) - k /\ k + (i - (k - 1)) = i + 1
        BY <1>0, <2>2, <3>2
      <4> QED
        BY <2>b, <3>2, <4>1, <4>2
    <3> QED
      BY <3>1, <3>2
  <2> QED
    BY <1>1, <2>2, <2>5, <2>6 DEF T
<1> QED
  BY <1>2, <1>3

-----------------------------------------------------------------------------
(* Sizes.  A trace with a request of no or a negative size does not pass   *)
(* eval_mm_valid, whatever mm_malloc returns for it.                       *)
PositiveBefore(n) == \A k \in 1 .. n - 1 : trace[k].cmd # "f" => trace[k].size > 0

PositiveOK ==
  /\ phase = "valid" => PositiveBefore(opnum)
  /\ phase \in {"util", "speed"} => PositiveBefore(Len(trace) + 1)

(* What a step does to the requests seen. *)
SizeKept   == UNCHANGED <<phase, tracenum, opnum>>
SizeSeen   == /\ phase = "valid" /\ UNCHANGED <<phase, tracenum>> /\ opnum' = opnum + 1
              /\ opnum = 0 \/ (opnum \in DOMAIN trace /\ (op.cmd # "f" => op.size > 0))
SizesFirst == phase' = "valid" /\ opnum' = 0
SizesAll   == phase = "valid" /\ opnum = Len(trace) + 1 /\ phase' = "util" /\ UNCHANGED tracenum
SizesOn    == phase \in {"util", "speed"} /\ phase' \in {"util", "speed"} /\ UNCHANGED tracenum

(* A step that leads into an evaluation treats the sizes of the requests   *)
(* seen in one of these ways.                                              *)
LEMMA NextSizes ==
  [Next]_vars => \/ phase' \notin Evaluations \/ SizeKept \/ SizeSeen \/ SizesFirst \/ SizesAll \/ SizesOn
<1> SUFFICES ASSUME [Next]_vars, phase' \in Evaluations
             PROVE  SizeKept \/ SizeSeen \/ SizesFirst \/ SizesAll \/ SizesOn
  OBVIOUS
<1>0. Evaluations = {"valid", "util", "speed"}
  BY DEF Evaluations
<1>1. read_trace => SizesFirst
  BY <1>0 DEF read_trace, SizesFirst, enter, exit, overrun
<1>2. ~ eval_libc
  <2>1. ASSUME NEW f \in {"libc_valid", "libc_speed"}, libc_enter(f) \/ libc_alloc(f) \/ libc_free(f)
        PROVE  FALSE
    BY <1>0, <2>1 DEF libc_enter, libc_alloc, libc_free, libc_fails, libc_gives, Running, exit, advance
  <2>2. ~ libc_valid_realloc /\ ~ libc_speed_realloc
    BY <1>0 DEF libc_valid_realloc, libc_speed_realloc, libc_fails, libc_gives, Running, exit, advance
  <2>3. ~ libc_exit
    BY <1>0 DEF libc_exit, AtEnd, enter, next_trace
  <2> QED
    BY <2>1, <2>2, <2>3 DEF eval_libc
<1>3. ~ libc_done
  BY <1>0 DEF libc_done
<1>4. eval_mm_valid => SizeSeen \/ SizesAll
  <2>1. valid_enter => SizeSeen
    BY <1>0 DEF valid_enter, valid_fail, SizeSeen, advance, next_trace
  <2>2. valid_alloc => SizeSeen
    BY <1>0 DEF valid_alloc, assert_fails, valid_fail, Served, Running, SizeSeen, advance, next_trace, exit
  <2>3. valid_realloc => SizeSeen
    BY <1>0 DEF valid_realloc, assert_fails, valid_fail, Served, Running, SizeSeen, advance, next_trace, exit
  <2>4. valid_free => SizeSeen
    BY <1>0 DEF valid_free, Running, SizeSeen, advance
  <2>5. valid_exit => SizesAll
    BY <1>0 DEF valid_exit, AtEnd, SizesAll, enter
  <2> QED
    BY <2>1, <2>2, <2>3, <2>4, <2>5 DEF eval_mm_valid
<1>5. eval_mm_util => SizesOn
  <2>1. util_enter \/ util_exit \/ util_free => SizesOn
    BY <1>0 DEF util_enter, util_exit, util_free, AtEnd, Running, SizesOn, enter, advance, exit
  <2>2. util_alloc \/ util_realloc => SizesOn
    BY <1>0 DEF util_alloc, util_realloc, app_error, Running, SizesOn, advance, exit
  <2> QED
    BY <2>1, <2>2 DEF eval_mm_util
<1>6. eval_mm_speed => SizesOn
  <2>1. speed_enter \/ speed_exit \/ speed_free => SizesOn
    BY <1>0 DEF speed_enter, speed_exit, speed_free, AtEnd, Running, SizesOn, next_trace, advance, exit
  <2>2. speed_alloc \/ speed_realloc => SizesOn
    BY <1>0 DEF speed_alloc, speed_realloc, speed_error, Running, SizesOn, advance, exit
  <2> QED
    BY <2>1, <2>2 DEF eval_mm_speed
<1>7. ~ report
  BY <1>0 DEF report
<1>8. UNCHANGED vars => SizeKept
  BY DEF vars, control, SizeKept
<1> QED
  BY <1>1, <1>2, <1>3, <1>4, <1>5, <1>6, <1>7, <1>8 DEF Next, Terminating

(* A trace that is measured has passed eval_mm_valid, which refuses any    *)
(* size that is not positive.                                              *)
LEMMA PositiveStep == ControlOK /\ PositiveOK /\ [Next]_vars => PositiveOK'
<1> SUFFICES ASSUME ControlOK, PositiveOK, [Next]_vars PROVE PositiveOK'
  OBVIOUS
<1>0. UNCHANGED files /\ Evaluations = {"valid", "util", "speed"}
  BY NextMoves DEF Evaluations
<1>1. CASE phase' \notin Evaluations
  BY <1>0, <1>1 DEF PositiveOK
<1>2. CASE SizeKept
  BY <1>0, <1>2 DEF SizeKept, PositiveOK, PositiveBefore, trace
<1>3. CASE SizeSeen
  <2>1. /\ phase = "valid" /\ phase' = "valid" /\ trace' = trace /\ opnum' = opnum + 1
        /\ opnum \in Nat /\ PositiveBefore(opnum)
    <3>1. tracenum \in 1 .. NumTraces
      BY <1>3 DEF SizeSeen, ControlOK, Phases, Evaluations
    <3>2. opnum \in Nat
      BY <3>1, TraceFacts
    <3> QED
      BY <1>0, <1>3, <3>2 DEF SizeSeen, PositiveOK, trace
  <2>2. ASSUME NEW k \in 1 .. opnum, trace[k].cmd # "f" PROVE trace[k].size > 0
    <3>1. CASE k = opnum
      BY <1>3, <2>1, <2>2, <3>1 DEF SizeSeen, op
    <3>2. CASE k # opnum
      BY <2>1, <2>2, <3>2 DEF PositiveBefore
    <3> QED
      BY <3>1, <3>2
  <2> QED
    BY <2>1, <2>2 DEF PositiveOK, PositiveBefore
<1>4. CASE SizesFirst
  BY <1>4 DEF SizesFirst, PositiveOK, PositiveBefore
<1>5. CASE SizesAll
  BY <1>0, <1>5 DEF SizesAll, PositiveOK, PositiveBefore, trace
<1>6. CASE SizesOn
  BY <1>0, <1>6 DEF SizesOn, PositiveOK, PositiveBefore, trace
<1> QED
  BY <1>1, <1>2, <1>3, <1>4, <1>5, <1>6, NextSizes

-----------------------------------------------------------------------------
(* An allocator whose functions have their C types: its states are those   *)
(* of the set States, it returns addresses, and it maps finitely many      *)
(* pages.                                                                  *)
TypedStates == \A A \in States :
  /\ IsFiniteSet(Mapped(A))
  /\ \A n \in Int : \A r \in mm_malloc(A, n) : r.p \in Nat

Closed ==
  /\ Fresh \in States
  /\ \A A \in States :
       /\ mem_reset(A) \in States
       /\ \A r \in mm_init(A) : r.alloc \in States
       /\ \A n \in Int : \A r \in mm_malloc(A, n) : r.alloc \in States
       /\ \A p \in Nat : mm_free(A, p) \subseteq States
       /\ \A p, n \in Nat : \A i \in Ids : memset(A, p, n, i) \in States

Typed == TypedStates /\ Closed

(* The arrays and the allocator. *)
ArraysOK == blocks \in [Ids -> Nat] /\ block_sizes \in [Ids -> Nat]
MemoryOK == alloc \in States /\ ArraysOK

(* mm_malloc answers the request under way with an address. *)
AnswersOK == phase \in Evaluations /\ opnum \in DOMAIN trace /\ op.cmd # "f" =>
               \A r \in mm_malloc(alloc, op.size) : r.p \in Nat

(* A request is under way. *)
LEMMA RunningFacts ==
  ASSUME ControlOK, NEW f \in Phases, NEW c, Running(f, c)
  PROVE  /\ phase = f /\ tracenum \in 1 .. NumTraces /\ opnum \in DOMAIN trace /\ op.cmd = c
         /\ op.id \in Ids /\ op.size \in Int /\ opnum \in Nat \ {0}
         /\ IF c = "a" THEN op.id \notin LiveIds ELSE op.id \in LiveIds
<1>1. phase = f /\ opnum \in DOMAIN trace /\ op.cmd = c
  BY DEF Running
<1>2. tracenum \in 1 .. NumTraces
  BY <1>1 DEF ControlOK
<1> QED
  BY <1>1, <1>2, TraceFacts

(* Requests after eval_mm_valid have a size. *)
LEMMA RunningSize ==
  ASSUME ControlOK, PositiveOK, NEW f \in {"util", "speed"}, NEW c \in {"a", "r"}, Running(f, c)
  PROVE  op.size \in Nat /\ op.size > 0
<1>1. /\ phase = f /\ tracenum \in 1 .. NumTraces /\ opnum \in DOMAIN trace /\ op.cmd = c
      /\ op.size \in Int
  BY RunningFacts DEF Phases, Evaluations
<1>2. DOMAIN trace = 1 .. Len(trace) /\ Len(trace) \in Nat
  BY <1>1, TraceFacts
<1>3. op.cmd # "f" => op.size > 0
  BY <1>1, <1>2 DEF PositiveOK, PositiveBefore, op
<1> QED
  BY <1>1, <1>3

(* Recording an address, or a size. *)
LEMMA RecordsNat ==
  ASSUME NEW b \in [Ids -> Nat], NEW i \in Ids, NEW p \in Nat
  PROVE  [b EXCEPT ![i] = p] \in [Ids -> Nat] /\ b[i] \in Nat
OBVIOUS

(* Every step keeps addresses and sizes in the arrays: realloc's size is   *)
(* stored only when it was served.                                         *)
LEMMA ArraysStep ==
  ASSUME AnswersOK, ControlOK, LibcOK, PositiveOK, MemoryOK, [Next]_vars
  PROVE  ArraysOK'
<1>0. /\ blocks \in [Ids -> Nat] /\ block_sizes \in [Ids -> Nat]
      /\ Phases = {"valid", "util", "speed", "libc_valid", "libc_speed"}
  BY DEF MemoryOK, ArraysOK, Phases, Evaluations, Comparisons
<1>b. ASSUME NEW f \in Evaluations, NEW c \in {"a", "r"}, Running(f, c), NEW r \in mm_malloc(alloc, op.size)
      PROVE  r.p \in Nat
  BY <1>b DEF AnswersOK, Running
<1>c. "valid" \in Evaluations /\ "util" \in Evaluations /\ "speed" \in Evaluations
  BY DEF Evaluations
<1> USE DEF ArraysOK
<1>1. CASE read_trace
  <2>1. NoBlocks \in [Ids -> Nat]
    BY DEF NoBlocks, NULL
  <2> QED
    BY <1>0, <1>1, <2>1 DEF read_trace
<1>2. CASE eval_libc
  <2>1. UNCHANGED block_sizes
    BY <1>2 DEF eval_libc
  <2>2. ASSUME NEW f \in Phases, NEW c, Running(f, c) PROVE op.id \in Ids
    BY <2>2, RunningFacts
  <2>3. ASSUME NEW held, IsFiniteSet(held), op.id \in Ids, libc_gives(held, Unused(held))
        PROVE  blocks' \in [Ids -> Nat]
    BY <1>0, <2>3, UnusedIsNew, RecordsNat DEF libc_gives
  <2>4. ASSUME NEW f \in Phases, Running(f, "a") \/ Running(f, "r"), f \in Comparisons
        PROVE  IsFiniteSet(libc) /\ IsFiniteSet(libc \ {blocks[op.id]})
    <3>1. IsFiniteSet(libc)
      BY <2>4 DEF Running, LibcOK, Earlier
    <3> QED
      BY <3>1, FS_RemoveElement
  <2>5. ASSUME NEW f \in {"libc_valid", "libc_speed"}, libc_enter(f) \/ libc_alloc(f) \/ libc_free(f)
        PROVE  blocks' \in [Ids -> Nat]
    <3>0. f \in Phases /\ f \in Comparisons
      BY <1>0 DEF Comparisons
    <3>1. CASE libc_alloc(f)
      <4>1. Running(f, "a") /\ (libc_fails(f) \/ libc_gives(libc, Unused(libc)))
        BY <3>1 DEF libc_alloc
      <4>2. op.id \in Ids /\ IsFiniteSet(libc)
        BY <2>2, <2>4, <3>0, <4>1
      <4> QED
        BY <1>0, <2>3, <4>1, <4>2 DEF libc_fails
    <3> QED
      BY <1>0, <2>5, <3>1 DEF libc_enter, libc_free
  <2>6. CASE libc_valid_realloc
    <3> DEFINE rest == libc \ {blocks[op.id]}
    <3>1. Running("libc_valid", "r") /\ (libc_fails("libc_valid") \/ libc_gives(rest, Unused(rest)))
      BY <2>6 DEF libc_valid_realloc
    <3>2. op.id \in Ids /\ IsFiniteSet(rest)
      BY <1>0, <2>2, <2>4, <3>1 DEF Comparisons
    <3> HIDE DEF rest
    <3> QED
      BY <1>0, <2>1, <2>3, <3>1, <3>2 DEF libc_fails
  <2>7. CASE libc_speed_realloc
    <3>1. /\ Running("libc_speed", "r")
          /\ libc_fails("libc_speed") \/ libc_gives(libc \ {blocks[op.id]}, Unused(libc))
      BY <2>7 DEF libc_speed_realloc
    <3>2. op.id \in Ids /\ IsFiniteSet(libc)
      BY <1>0, <2>2, <2>4, <3>1 DEF Comparisons
    <3>3. Unused(libc) \in Nat
      BY <3>2, UnusedIsNew
    <3> QED
      BY <1>0, <2>1, <3>1, <3>2, <3>3, RecordsNat DEF libc_fails, libc_gives
  <2>8. CASE libc_exit
    BY <1>0, <2>1, <2>8 DEF libc_exit
  <2> QED
    BY <1>0, <1>2, <2>1, <2>5, <2>6, <2>7, <2>8 DEF eval_libc
<1>3. CASE libc_done
  BY <1>0, <1>3 DEF libc_done
<1>4. CASE eval_mm_valid
  <2>0. ASSUME NEW c, Running("valid", c) PROVE op.id \in Ids /\ op.size \in Int /\ blocks[op.id] \in Nat
    BY <1>0, <2>0, RunningFacts
  <2>1. CASE valid_enter
    BY <1>0, <2>1 DEF valid_enter, valid_fail
  <2>2. CASE valid_alloc
    <3>1. PICK r \in mm_malloc(alloc, op.size) :
            UNCHANGED <<blocks, block_sizes>> \/ (Remember(r.p) /\ op.size > 0)
      BY <2>2 DEF valid_alloc, assert_fails, valid_fail, Served
    <3>2. op.id \in Ids /\ op.size \in Int /\ (op.size > 0 => op.size \in Nat)
      BY <2>0, <2>2 DEF valid_alloc
    <3>3. Running("valid", "a")
      BY <2>2 DEF valid_alloc
    <3>4. r.p \in Nat
      BY <1>b, <1>c, <3>3
    <3> QED
      BY <1>0, <3>1, <3>2, <3>4, RecordsNat DEF Remember
  <2>3. CASE valid_realloc
    <3>1. PICK r \in mm_malloc(alloc, op.size) :
            UNCHANGED <<blocks, block_sizes>> \/ (Remember(r.p) /\ op.size > 0)
      BY <2>3 DEF valid_realloc, assert_fails, valid_fail, Served
    <3>2. /\ op.id \in Ids /\ op.size \in Int /\ (op.size > 0 => op.size \in Nat)
          /\ blocks[op.id] \in Nat
      BY <2>0, <2>3 DEF valid_realloc
    <3>3. Running("valid", "r")
      BY <2>3 DEF valid_realloc
    <3>4. r.p \in Nat
      BY <1>b, <1>c, <3>3
    <3> QED
      BY <1>0, <3>1, <3>2, <3>4, RecordsNat DEF Remember
  <2>4. CASE valid_free
    BY <1>0, <2>0, <2>4 DEF valid_free
  <2>5. CASE valid_exit
    BY <1>0, <2>5 DEF valid_exit
  <2> QED
    BY <1>4, <2>1, <2>2, <2>3, <2>4, <2>5 DEF eval_mm_valid
<1>5. CASE eval_mm_util
  <2>0. ASSUME NEW c, Running("util", c)
        PROVE  /\ op.id \in Ids /\ op.size \in Int /\ blocks[op.id] \in Nat
               /\ c \in {"a", "r"} => op.size \in Nat
    BY <1>0, <2>0, RunningFacts, RunningSize
  <2>1. CASE util_enter
    BY <1>0, <2>1 DEF util_enter
  <2>2. CASE util_alloc
    <3>1. PICK r \in mm_malloc(alloc, op.size) :
            UNCHANGED <<blocks, block_sizes>> \/ Remember(r.p)
      BY <2>2 DEF util_alloc, app_error
    <3>2. op.id \in Ids /\ op.size \in Nat
      BY <2>0, <2>2 DEF util_alloc
    <3>3. Running("util", "a")
      BY <2>2 DEF util_alloc
    <3>4. r.p \in Nat
      BY <1>b, <1>c, <3>3
    <3> QED
      BY <1>0, <3>1, <3>2, <3>4, RecordsNat DEF Remember
  <2>3. CASE util_realloc
    <3>1. PICK r \in mm_malloc(alloc, op.size) :
            UNCHANGED <<blocks, block_sizes>> \/ Remember(r.p)
      BY <2>3 DEF util_realloc, app_error
    <3>2. op.id \in Ids /\ op.size \in Nat /\ blocks[op.id] \in Nat
      BY <2>0, <2>3 DEF util_realloc
    <3>3. Running("util", "r")
      BY <2>3 DEF util_realloc
    <3>4. r.p \in Nat
      BY <1>b, <1>c, <3>3
    <3> QED
      BY <1>0, <3>1, <3>2, <3>4, RecordsNat DEF Remember
  <2>4. CASE util_free
    BY <1>0, <2>0, <2>4 DEF util_free
  <2>5. CASE util_exit
    BY <1>0, <2>5 DEF util_exit
  <2> QED
    BY <1>5, <2>1, <2>2, <2>3, <2>4, <2>5 DEF eval_mm_util
<1>6. CASE eval_mm_speed
  <2>0. ASSUME NEW c, Running("speed", c) PROVE op.id \in Ids /\ op.size \in Int /\ blocks[op.id] \in Nat
    BY <1>0, <2>0, RunningFacts
  <2>a. UNCHANGED block_sizes
    BY <1>6 DEF eval_mm_speed
  <2>1. CASE speed_enter
    BY <1>0, <2>1, <2>a DEF speed_enter
  <2>2. CASE speed_alloc
    <3>1. PICK r \in mm_malloc(alloc, op.size) :
            UNCHANGED blocks \/ blocks' = [blocks EXCEPT ![op.id] = r.p]
      BY <2>2 DEF speed_alloc, speed_error
    <3>2. op.id \in Ids /\ op.size \in Int
      BY <2>0, <2>2 DEF speed_alloc
    <3>3. Running("speed", "a")
      BY <2>2 DEF speed_alloc
    <3>4. r.p \in Nat
      BY <1>b, <1>c, <3>3
    <3> QED
      BY <1>0, <2>a, <3>1, <3>2, <3>4, RecordsNat
  <2>3. CASE speed_realloc
    <3>1. PICK r \in mm_malloc(alloc, op.size) :
            UNCHANGED blocks \/ blocks' = [blocks EXCEPT ![op.id] = r.p]
      BY <2>3 DEF speed_realloc, speed_error
    <3>2. op.id \in Ids /\ op.size \in Int /\ blocks[op.id] \in Nat
      BY <2>0, <2>3 DEF speed_realloc
    <3>3. Running("speed", "r")
      BY <2>3 DEF speed_realloc
    <3>4. r.p \in Nat
      BY <1>b, <1>c, <3>3
    <3> QED
      BY <1>0, <2>a, <3>1, <3>2, <3>4, RecordsNat
  <2>4. CASE speed_free
    BY <1>0, <2>0, <2>4, <2>a DEF speed_free
  <2>5. CASE speed_exit
    BY <1>0, <2>5, <2>a DEF speed_exit
  <2> QED
    BY <1>6, <2>1, <2>2, <2>3, <2>4, <2>5 DEF eval_mm_speed
<1>7. CASE report
  BY <1>0, <1>7 DEF report
<1>8. CASE UNCHANGED vars
  BY <1>0, <1>8 DEF vars
<1> QED
  BY <1>1, <1>2, <1>3, <1>4, <1>5, <1>6, <1>7, <1>8 DEF Next, Terminating

(* Every step leaves the allocator in one of its states. *)
LEMMA AllocStep ==
  ASSUME Closed, TypedStates, ControlOK, MemoryOK, [Next]_vars
  PROVE  alloc' \in States
<1>0. /\ alloc \in States /\ blocks \in [Ids -> Nat]
      /\ Phases = {"valid", "util", "speed", "libc_valid", "libc_speed"}
  BY DEF MemoryOK, ArraysOK, Phases, Evaluations, Comparisons
<1>a. /\ mem_reset(alloc) \in States
      /\ \A r \in mm_init(alloc) : r.alloc \in States
      /\ \A p \in Nat : mm_free(alloc, p) \subseteq States
  BY <1>0 DEF Closed
<1>b. ASSUME NEW r \in mm_malloc(alloc, op.size), op.size \in Int
      PROVE  /\ r.alloc \in States /\ \A p \in Nat : mm_free(r.alloc, p) \subseteq States
             /\ op.size > 0 => \A i \in Ids : /\ memset(r.alloc, r.p, op.size, i) \in States
                                              /\ \A p \in Nat : mm_free(memset(r.alloc, r.p, op.size, i), p) \subseteq States
  <2>1. r.alloc \in States /\ r.p \in Nat
    BY <1>0, <1>b DEF Closed, TypedStates
  <2>2. op.size > 0 => op.size \in Nat
    BY <1>b
  <2> QED
    BY <2>1, <2>2 DEF Closed
<1>c. ASSUME NEW f \in Phases, NEW c, Running(f, c)
      PROVE  op.id \in Ids /\ op.size \in Int /\ blocks[op.id] \in Nat
  BY <1>0, <1>c, RunningFacts
<1>1. read_trace \/ eval_libc \/ libc_done \/ report \/ UNCHANGED vars => alloc' \in States
  BY <1>0 DEF read_trace, eval_libc, libc_done, report, vars
<1>2. eval_mm_valid => alloc' \in States
  <2>1. valid_enter \/ valid_exit => alloc' \in States
    BY <1>a DEF valid_enter, valid_exit
  <2>2. valid_free => alloc' \in States
    BY <1>0, <1>a, <1>c DEF valid_free
  <2>3. valid_alloc => alloc' \in States
    <3> SUFFICES ASSUME valid_alloc PROVE alloc' \in States
      OBVIOUS
    <3>1. PICK r \in mm_malloc(alloc, op.size) :
            \/ alloc' = r.alloc
            \/ op.size > 0 /\ alloc' = memset(r.alloc, r.p, op.size, op.id)
      BY DEF valid_alloc, Served
    <3>2. op.id \in Ids /\ op.size \in Int
      BY <1>0, <1>c DEF valid_alloc
    <3> QED
      BY <1>b, <3>1, <3>2
  <2>4. valid_realloc => alloc' \in States
    <3> SUFFICES ASSUME valid_realloc PROVE alloc' \in States
      OBVIOUS
    <3>1. PICK r \in mm_malloc(alloc, op.size) :
            \/ alloc' = r.alloc
            \/ op.size > 0 /\ alloc' \in mm_free(memset(r.alloc, r.p, op.size, op.id), blocks[op.id])
      BY DEF valid_realloc, Served
    <3>2. op.id \in Ids /\ op.size \in Int /\ blocks[op.id] \in Nat
      BY <1>0, <1>c DEF valid_realloc
    <3> QED
      BY <1>b, <3>1, <3>2
  <2> QED
    BY <2>1, <2>2, <2>3, <2>4 DEF eval_mm_valid
<1>3. eval_mm_util => alloc' \in States
  <2>1. util_enter \/ util_exit => alloc' \in States
    BY <1>a DEF util_enter, util_exit
  <2>2. util_free => alloc' \in States
    BY <1>0, <1>a, <1>c DEF util_free
  <2>3. util_alloc => alloc' \in States
    BY <1>0, <1>b, <1>c DEF util_alloc, app_error
  <2>4. util_realloc => alloc' \in States
    BY <1>0, <1>b, <1>c DEF util_realloc, app_error
  <2> QED
    BY <2>1, <2>2, <2>3, <2>4 DEF eval_mm_util
<1>4. eval_mm_speed => alloc' \in States
  <2>1. speed_enter \/ speed_exit => alloc' \in States
    BY <1>a DEF speed_enter, speed_exit
  <2>2. speed_free => alloc' \in States
    BY <1>0, <1>a, <1>c DEF speed_free
  <2>3. speed_alloc => alloc' \in States
    BY <1>0, <1>b, <1>c DEF speed_alloc, speed_error
  <2>4. speed_realloc => alloc' \in States
    BY <1>0, <1>b, <1>c DEF speed_realloc, speed_error
  <2> QED
    BY <2>1, <2>2, <2>3, <2>4 DEF eval_mm_speed
<1> QED
  BY <1>1, <1>2, <1>3, <1>4 DEF Next, Terminating

-----------------------------------------------------------------------------
(* The range list. *)
Extents == [lo : Nat, hi : Nat]

Nested(R) == \A i, j \in DOMAIN R : i < j =>
  \/ Disjoint(R[i], R[j])
  \/ R[i].lo < R[j].lo /\ R[j].hi < R[i].hi

RangesOK == ranges \in Seq(Extents) /\ Nested(ranges)

(* A range less. *)
LEMMA NestedRemove ==
  ASSUME NEW R \in Seq(Extents), Nested(R), NEW lo
  PROVE  remove_range(R, lo) \in Seq(Extents) /\ Nested(remove_range(R, lo))
<1> DEFINE T == remove_range(R, lo)
<1>1. CASE T = R
  BY <1>1
<1>2. CASE \E k \in 1 .. Len(R) :
              /\ R[k].lo = lo
              /\ T \in Seq(Extents) /\ Len(T) = Len(R) - 1
              /\ \A i \in 1 .. Len(R) - 1 : T[i] = R[IF i < k THEN i ELSE i + 1]
  <2>1. PICK k \in 1 .. Len(R) :
              /\ T \in Seq(Extents) /\ Len(T) = Len(R) - 1
              /\ \A i \in 1 .. Len(R) - 1 : T[i] = R[IF i < k THEN i ELSE i + 1]
    BY <1>2
  <2> HIDE DEF T
  <2>2. DOMAIN T = 1 .. Len(R) - 1 /\ DOMAIN R = 1 .. Len(R) /\ Len(R) \in Nat
    BY <2>1
  <2>3. ASSUME NEW i \in DOMAIN T, NEW j \in DOMAIN T, i < j
        PROVE  Disjoint(T[i], T[j]) \/ (T[i].lo < T[j].lo /\ T[j].hi < T[i].hi)
    <3> DEFINE m == IF i < k THEN i ELSE i + 1
               n == IF j < k THEN j ELSE j + 1
    <3>1. m \in DOMAIN R /\ n \in DOMAIN R /\ m < n
      BY <2>2, <2>3
    <3>2. T[i] = R[m] /\ T[j] = R[n]
      BY <2>1, <2>2
    <3> HIDE DEF m, n
    <3> QED
      BY <3>1, <3>2 DEF Nested
  <2> QED
    BY <2>1, <2>3 DEF Nested, T
<1> HIDE DEF T
<1> QED
  <2>1. \/ T = R
        \/ \E k \in 1 .. Len(R) :
              /\ R[k].lo = lo
              /\ T \in Seq(Extents) /\ Len(T) = Len(R) - 1
              /\ \A i \in 1 .. Len(R) - 1 : T[i] = R[IF i < k THEN i ELSE i + 1]
    BY RemoveRange DEF T
  <2> QED
    BY <1>1, <1>2, <2>1 DEF T

(* A range that is added: its positions in the list. *)
LEMMA AddRange ==
  ASSUME NEW R \in Seq(Extents), NEW p \in Nat, NEW size \in Nat, size > 0
  PROVE  /\ Extent(p, size) \in Extents /\ Extent(p, size).lo = p /\ Extent(p, size).hi = p + size - 1
         /\ add_range(R, p, size) \in Seq(Extents) /\ Len(add_range(R, p, size)) = Len(R) + 1
         /\ add_range(R, p, size)[1] = Extent(p, size)
         /\ \A i \in 2 .. Len(R) + 1 : add_range(R, p, size)[i] = R[i - 1]
<1> DEFINE e == Extent(p, size)
<1>1. e \in Extents /\ e.lo = p /\ e.hi = p + size - 1
  BY DEF Extent, Extents
<1> HIDE DEF e
<1>2. <<e>> \in Seq(Extents) /\ Len(<<e>>) = 1 /\ <<e>>[1] = e
  BY <1>1
<1>3. /\ <<e>> \o R \in Seq(Extents) /\ Len(<<e>> \o R) = Len(<<e>>) + Len(R)
      /\ \A i \in 1 .. Len(<<e>>) + Len(R) : (<<e>> \o R)[i] = IF i <= Len(<<e>>) THEN <<e>>[i] ELSE R[i - Len(<<e>>)]
  BY <1>2, ConcatProperties
<1>4. Len(R) \in Nat
  OBVIOUS
<1>5. add_range(R, p, size) = <<e>> \o R
  BY DEF add_range, e
<1>6. (<<e>> \o R)[1] = e /\ \A i \in 2 .. Len(R) + 1 : (<<e>> \o R)[i] = R[i - 1]
  BY <1>2, <1>3, <1>4
<1> QED
  BY <1>1, <1>2, <1>3, <1>4, <1>5, <1>6 DEF e

(* add_range compares the new ends with the ranges on the list. *)
LEMMA NestedAdd ==
  ASSUME NEW R \in Seq(Extents), Nested(R), NEW p \in Nat, NEW size \in Nat, size > 0,
         NEW A, Accepts(R, A, p, size)
  PROVE  add_range(R, p, size) \in Seq(Extents) /\ Nested(add_range(R, p, size))
<1> DEFINE T == add_range(R, p, size)
           e == Extent(p, size)
<1>1. /\ e \in Extents /\ T \in Seq(Extents) /\ Len(T) = Len(R) + 1 /\ T[1] = e
      /\ \A i \in 2 .. Len(R) + 1 : T[i] = R[i - 1]
  BY AddRange, ZenonT(60)
<1>2. \A i \in 1 .. Len(R) : ~ Overlaps(e, R[i])
  <2>1. \A i \in 1 .. Len(R) : R[i] \in ToSet(R)
    BY DEF ToSet
  <2> QED
    BY <2>1 DEF Accepts
<1>3. \A i \in 1 .. Len(R) : R[i] \in Extents
  OBVIOUS
<1> HIDE DEF T, e
<1>4. \A i \in 1 .. Len(R) : Disjoint(e, R[i]) \/ (e.lo < R[i].lo /\ R[i].hi < e.hi)
  <2> SUFFICES ASSUME NEW i \in 1 .. Len(R)
               PROVE  Disjoint(e, R[i]) \/ (e.lo < R[i].lo /\ R[i].hi < e.hi)
    OBVIOUS
  <2> DEFINE q == R[i]
  <2>1. q \in Extents /\ ~ Overlaps(e, q)
    BY <1>2, <1>3
  <2> HIDE DEF q
  <2>2. e.lo \in Nat /\ e.hi \in Nat /\ q.lo \in Nat /\ q.hi \in Nat
    BY <1>1, <2>1 DEF Extents
  <2>3. Disjoint(e, q) \/ (e.lo < q.lo /\ q.hi < e.hi)
    BY <2>1, <2>2 DEF Overlaps, Disjoint
  <2> QED
    BY <2>3 DEF q
<1>5. DOMAIN T = 1 .. Len(R) + 1 /\ DOMAIN R = 1 .. Len(R) /\ Len(R) \in Nat
  BY <1>1
<1>6. ASSUME NEW i \in DOMAIN T, NEW j \in DOMAIN T, i < j
      PROVE  Disjoint(T[i], T[j]) \/ (T[i].lo < T[j].lo /\ T[j].hi < T[i].hi)
  <2>1. T[j] = R[j - 1] /\ j - 1 \in 1 .. Len(R)
    BY <1>1, <1>5, <1>6
  <2>2. CASE i = 1
    BY <1>1, <1>4, <2>1, <2>2
  <2>3. CASE i # 1
    <3>1. T[i] = R[i - 1] /\ i - 1 \in 1 .. Len(R) /\ i - 1 < j - 1
      BY <1>1, <1>5, <1>6, <2>3
    <3> QED
      BY <1>5, <2>1, <3>1 DEF Nested
  <2> QED
    BY <2>2, <2>3
<1> QED
  BY <1>1, <1>6 DEF Nested, T

(* What a step does to the list. *)
LEMMA NextRanges ==
  ASSUME ControlOK, [Next]_vars
  PROVE  \/ UNCHANGED ranges
         \/ ranges' = <<>>
         \/ phase = "valid" /\ ranges' = remove_range(ranges, blocks[op.id])
         \/ /\ phase = "valid" /\ op.id \in Ids /\ op.size \in Int /\ op.size > 0
            /\ \E r \in mm_malloc(alloc, op.size) :
                 \/ /\ Accepts(ranges, r.alloc, r.p, op.size)
                    /\ ranges' = add_range(ranges, r.p, op.size)
                    /\ alloc' = memset(r.alloc, r.p, op.size, op.id)
                 \/ /\ Accepts(remove_range(ranges, blocks[op.id]), r.alloc, r.p, op.size)
                    /\ ranges' = add_range(remove_range(ranges, blocks[op.id]), r.p, op.size)
                    /\ alloc' \in mm_free(memset(r.alloc, r.p, op.size, op.id), blocks[op.id])
<1> DEFINE Goal ==
         \/ UNCHANGED ranges
         \/ ranges' = <<>>
         \/ phase = "valid" /\ ranges' = remove_range(ranges, blocks[op.id])
         \/ /\ phase = "valid" /\ op.id \in Ids /\ op.size \in Int /\ op.size > 0
            /\ \E r \in mm_malloc(alloc, op.size) :
                 \/ /\ Accepts(ranges, r.alloc, r.p, op.size)
                    /\ ranges' = add_range(ranges, r.p, op.size)
                    /\ alloc' = memset(r.alloc, r.p, op.size, op.id)
                 \/ /\ Accepts(remove_range(ranges, blocks[op.id]), r.alloc, r.p, op.size)
                    /\ ranges' = add_range(remove_range(ranges, blocks[op.id]), r.p, op.size)
                    /\ alloc' \in mm_free(memset(r.alloc, r.p, op.size, op.id), blocks[op.id])
<1>1. CASE eval_mm_valid
  <2>0. ASSUME NEW c, Running("valid", c) PROVE op.id \in Ids /\ op.size \in Int /\ phase = "valid"
    BY <2>0, RunningFacts DEF Phases, Evaluations
  <2>1. valid_enter => Goal
    BY DEF valid_enter
  <2>2. valid_alloc => Goal
    BY <2>0 DEF valid_alloc, Served
  <2>3. valid_realloc => Goal
    BY <2>0 DEF valid_realloc, Served
  <2>4. valid_free => Goal
    BY <2>0 DEF valid_free
  <2>5. valid_exit => Goal
    BY DEF valid_exit
  <2> HIDE DEF Goal
  <2>6. Goal
    BY <1>1, <2>1, <2>2, <2>3, <2>4, <2>5 DEF eval_mm_valid
  <2> QED
    BY <2>6 DEF Goal
<1>2. CASE ~ eval_mm_valid
  <2>1. read_trace => UNCHANGED ranges
    BY DEF read_trace
  <2>2. eval_libc => UNCHANGED ranges
    BY DEF eval_libc
  <2>3. libc_done => UNCHANGED ranges
    BY DEF libc_done
  <2>4. eval_mm_util => UNCHANGED ranges
    BY DEF eval_mm_util
  <2>5. eval_mm_speed => UNCHANGED ranges
    BY DEF eval_mm_speed
  <2>6. report => UNCHANGED ranges
    BY DEF report
  <2>7. UNCHANGED vars => UNCHANGED ranges
    BY DEF vars
  <2> QED
    BY <1>2, <2>1, <2>2, <2>3, <2>4, <2>5, <2>6, <2>7 DEF Next, Terminating
<1> QED
  BY <1>1, <1>2

(* Every step keeps two ranges disjoint or the newer one around the older, *)
(* which is all that the test of add_range gives.                          *)
LEMMA RangesStep ==
  ASSUME TypedStates, ControlOK, MemoryOK, RangesOK, [Next]_vars
  PROVE  RangesOK'
<1>1. CASE UNCHANGED ranges
  BY <1>1 DEF RangesOK, Nested
<1>2. CASE ranges' = <<>>
  BY <1>2 DEF RangesOK, Nested
<1>3. CASE ranges' = remove_range(ranges, blocks[op.id])
  <2>1. remove_range(ranges, blocks[op.id]) \in Seq(Extents) /\ Nested(remove_range(ranges, blocks[op.id]))
    BY NestedRemove DEF RangesOK
  <2> QED
    BY <1>3, <2>1 DEF RangesOK
<1>4. ASSUME op.size \in Int, op.size > 0, NEW r \in mm_malloc(alloc, op.size),
             NEW R, R \in {ranges, remove_range(ranges, blocks[op.id])},
             Accepts(R, r.alloc, r.p, op.size), ranges' = add_range(R, r.p, op.size)
      PROVE  RangesOK'
  <2>1. r.p \in Nat /\ op.size \in Nat
    <3>1. alloc \in States
      BY DEF MemoryOK
    <3>2. \A n \in Int : \A s \in mm_malloc(alloc, n) : s.p \in Nat
      BY <3>1 DEF TypedStates
    <3> QED
      BY <1>4, <3>2
  <2>2. R \in Seq(Extents) /\ Nested(R)
    BY <1>4, NestedRemove DEF RangesOK
  <2>3. add_range(R, r.p, op.size) \in Seq(Extents) /\ Nested(add_range(R, r.p, op.size))
    BY <1>4, <2>1, <2>2, NestedAdd
  <2> QED
    BY <1>4, <2>3 DEF RangesOK
<1> QED
  BY <1>1, <1>2, <1>3, <1>4, NextRanges

-----------------------------------------------------------------------------
(* The statistics of eval_mm_util. *)
StatsOK ==
  /\ stats \in [total : Nat, max_total : Nat, max_heap : Nat]
  /\ phase = "util" /\ opnum > 0 => stats.total = SumOver(block_sizes, LiveIds)

(* The larger of two numbers. *)
LEMMA MaxOfTwo ==
  ASSUME NEW a \in Nat, NEW b \in Nat
  PROVE  Max({a, b}) \in {a, b} /\ Max({a, b}) \in Nat /\ Max({a, b}) >= a /\ Max({a, b}) >= b
<1> DEFINE S == {a, b}
<1>1. S \in SUBSET Int /\ S # {}
  OBVIOUS
<1>2. IsFiniteSet(S)
  <2>1. IsFiniteSet({a}) /\ {a} \cup {b} = S
    BY FS_Singleton
  <2> QED
    BY <2>1, FS_AddElement
<1> HIDE DEF S
<1>3. Max(S) \in S /\ \A y \in S : Max(S) >= y
  BY <1>1, <1>2, MaxProperties
<1> QED
  BY <1>3 DEF S

(* The sizes of the live blocks, after a request. *)
LEMMA TotalStep ==
  ASSUME ControlOK, block_sizes \in [Ids -> Nat], UNCHANGED files,
         NEW f \in Phases, NEW c \in {"a", "r", "f"}, Running(f, c), advance
  PROVE  /\ SumOver(block_sizes, LiveIds) \in Nat
         /\ c = "a" /\ op.size \in Nat /\ block_sizes' = [block_sizes EXCEPT ![op.id] = op.size] =>
              SumOver(block_sizes', LiveIds') = SumOver(block_sizes, LiveIds) + op.size
         /\ c = "r" /\ op.size \in Nat /\ block_sizes' = [block_sizes EXCEPT ![op.id] = op.size] =>
              SumOver(block_sizes', LiveIds') = SumOver(block_sizes, LiveIds) + (op.size - block_sizes[op.id])
         /\ c = "f" /\ UNCHANGED block_sizes =>
              SumOver(block_sizes', LiveIds') = SumOver(block_sizes, LiveIds) - block_sizes[op.id]
<1>1. /\ tracenum \in 1 .. NumTraces /\ opnum \in DOMAIN trace /\ op.cmd = c /\ op.id \in Ids
  BY RunningFacts
<1>2. /\ c = "a" => LiveIds' = LiveIds \cup {op.id} /\ op.id \notin LiveIds
      /\ c = "r" => LiveIds' = LiveIds /\ op.id \in LiveIds
      /\ c = "f" => LiveIds' = LiveIds \ {op.id} /\ op.id \in LiveIds
  BY <1>1, LiveStep
<1> DEFINE S == LiveIds
           s == block_sizes
           x == op.id
           n == op.size
           g == [s EXCEPT ![x] = n]
<1>3. IsFiniteSet(S) /\ (\A y \in S : s[y] \in Nat /\ s[y] \in Int) /\ x \in Ids /\ s \in [Ids -> Nat]
  BY <1>1, LiveFinite
<1>4. g[x] = n /\ \A y \in S \ {x} : g[y] = s[y]
  BY <1>1, LiveFinite
<1> HIDE DEF S, s, x, n, g
<1>5. SumOver(s, S) \in Nat
  BY <1>3, SumNat
<1>6. ASSUME x \notin S, n \in Nat PROVE SumOver(g, S \cup {x}) = SumOver(s, S) + n
  <2>1. \A y \in S : g[y] = s[y]
    BY <1>4, <1>6
  <2>2. SumOver(g, S) = SumOver(s, S)
    BY <1>3, <2>1, SumAgree
  <2>3. (\A y \in S : g[y] \in Int) /\ g[x] \in Int
    BY <1>3, <1>4, <1>6, <2>1
  <2>4. SumOver(g, S \cup {x}) = SumOver(g, S) + g[x]
    BY <1>3, <1>6, <2>3, SumAdd
  <2> QED
    BY <1>4, <2>2, <2>4
<1>7. ASSUME x \in S, n \in Nat PROVE SumOver(g, S) = SumOver(s, S) + (n - s[x])
  <2>1. g[x] \in Int /\ s[x] \in Int
    BY <1>3, <1>4, <1>7
  <2>2. SumOver(g, S) = SumOver(s, S) - s[x] + g[x]
    BY <1>3, <1>4, <1>7, <2>1, SumChange
  <2> QED
    BY <1>4, <1>5, <1>7, <2>1, <2>2
<1>8. ASSUME x \in S PROVE SumOver(s, S \ {x}) = SumOver(s, S) - s[x]
  BY <1>3, <1>8, SumRemove
<1>9. ASSUME c = "a", n \in Nat, s' = g PROVE SumOver(s', LiveIds') = SumOver(s, S) + n
  <2>1. LiveIds' = S \cup {x} /\ x \notin S
    BY <1>2, <1>9 DEF S, x
  <2>2. SumOver(g, S \cup {x}) = SumOver(s, S) + n
    BY <1>6, <1>9, <2>1
  <2> QED
    BY <1>9, <2>1, <2>2
<1>10. ASSUME c = "r", n \in Nat, s' = g PROVE SumOver(s', LiveIds') = SumOver(s, S) + (n - s[x])
  <2>1. LiveIds' = S /\ x \in S
    BY <1>2, <1>10 DEF S, x
  <2>2. SumOver(g, S) = SumOver(s, S) + (n - s[x])
    BY <1>7, <1>10, <2>1
  <2> QED
    BY <1>10, <2>1, <2>2
<1>11. ASSUME c = "f", s' = s PROVE SumOver(s', LiveIds') = SumOver(s, S) - s[x]
  <2>1. LiveIds' = S \ {x} /\ x \in S
    BY <1>2, <1>11 DEF S, x
  <2>2. SumOver(s, S \ {x}) = SumOver(s, S) - s[x]
    BY <1>8, <2>1
  <2> QED
    BY <1>11, <2>1, <2>2
<1>12. s' = block_sizes'
  BY DEF s
<1> QED
  <2>1. c = "a" /\ op.size \in Nat /\ block_sizes' = [block_sizes EXCEPT ![op.id] = op.size] =>
              SumOver(block_sizes', LiveIds') = SumOver(block_sizes, LiveIds) + op.size
    BY <1>9, <1>12 DEF S, s, x, n, g
  <2>2. c = "r" /\ op.size \in Nat /\ block_sizes' = [block_sizes EXCEPT ![op.id] = op.size] =>
              SumOver(block_sizes', LiveIds') = SumOver(block_sizes, LiveIds) + (op.size - block_sizes[op.id])
    BY <1>10, <1>12 DEF S, s, x, n, g
  <2>3. c = "f" /\ UNCHANGED block_sizes =>
              SumOver(block_sizes', LiveIds') = SumOver(block_sizes, LiveIds) - block_sizes[op.id]
    BY <1>11, <1>12 DEF S, s, x
  <2>4. SumOver(block_sizes, LiveIds) \in Nat
    BY <1>5 DEF S, s
  <2> QED
    BY <2>1, <2>2, <2>3, <2>4

(* After Update. *)
LEMMA UpdateFacts ==
  ASSUME NEW total \in Nat, StatsOK, IsFiniteSet(Mapped(alloc')), Update(total)
  PROVE  /\ stats' \in [total : Nat, max_total : Nat, max_heap : Nat]
         /\ stats'.total = total
         /\ stats'.max_total = Max({stats.max_total, total})
         /\ stats'.max_heap = Max({stats.max_heap, mem_heapsize(alloc')})
         /\ mem_heapsize(alloc') \in Nat
<1>1. stats.max_total \in Nat /\ stats.max_heap \in Nat
  BY DEF StatsOK
<1>2. mem_heapsize(alloc') \in Nat
  <2>1. Cardinality(Mapped(alloc')) \in Nat /\ PAGE \in Nat
    BY FS_CardinalityType, DriverAssumption
  <2>2. \A a, b \in Nat : a * b \in Nat
    OBVIOUS
  <2> QED
    BY <2>1, <2>2 DEF mem_heapsize
<1>3. /\ Max({stats.max_total, total}) \in Nat
      /\ Max({stats.max_heap, mem_heapsize(alloc')}) \in Nat
  BY <1>1, <1>2, MaxOfTwo
<1> QED
  BY <1>2, <1>3 DEF Update

(* What a step does to the statistics: a request that eval_mm_util serves  *)
(* updates them with the bytes that are now allocated.                     *)
UtilServes ==
  /\ phase = "util" /\ advance
  /\ \E c \in {"a", "r", "f"} :
       /\ Running("util", c)
       /\ c \in {"a", "r"} => /\ op.size \in Nat
                              /\ block_sizes' = [block_sizes EXCEPT ![op.id] = op.size]
                              /\ \E r \in mm_malloc(alloc, op.size) :
                                   /\ r.p # NULL /\ blocks' = [blocks EXCEPT ![op.id] = r.p]
                                   /\ c = "a" => alloc' = r.alloc
                                   /\ c = "r" => alloc' \in mm_free(r.alloc, blocks[op.id])
       /\ c = "f" => UNCHANGED <<blocks, block_sizes>> /\ alloc' \in mm_free(alloc, blocks[op.id])
  /\ Update(SumOver(block_sizes', LiveIds'))
  /\ SumOver(block_sizes', LiveIds') \in Nat

(* What a step does to the statistics of eval_mm_util.                     *)
LEMMA NextStats ==
  ASSUME ControlOK, PositiveOK, MemoryOK, StatsOK, [Next]_vars, ArraysOK'
  PROVE  \/ UNCHANGED <<stats, phase, tracenum, opnum, files, block_sizes>>
         \/ UNCHANGED stats /\ (phase' # "util" \/ opnum' = 0)
         \/ stats' = NoStats /\ (opnum' = 1 \/ phase' # "util")
         \/ UtilServes
<1> DEFINE Goal ==
         \/ UNCHANGED <<stats, phase, tracenum, opnum, files, block_sizes>>
         \/ UNCHANGED stats /\ (phase' # "util" \/ opnum' = 0)
         \/ stats' = NoStats /\ (opnum' = 1 \/ phase' # "util")
         \/ UtilServes
<1>1. read_trace => Goal
  BY DEF read_trace, enter, exit, overrun, results
<1>2. eval_libc => Goal
  <2> SUFFICES ASSUME eval_libc PROVE Goal
    OBVIOUS
  <2>0. UNCHANGED stats
    BY DEF eval_libc
  <2>1. ASSUME NEW f \in {"libc_valid", "libc_speed"}, libc_enter(f) \/ libc_alloc(f) \/ libc_free(f)
        PROVE  phase' # "util"
    BY <2>1 DEF libc_enter, libc_alloc, libc_free, libc_fails, libc_gives, Running, exit, advance
  <2>2. libc_valid_realloc \/ libc_speed_realloc => phase' # "util"
    BY DEF libc_valid_realloc, libc_speed_realloc, libc_fails, libc_gives, Running, exit, advance
  <2>3. libc_exit => phase' # "util"
    BY DEF libc_exit, AtEnd, enter, next_trace
  <2> QED
    BY <2>0, <2>1, <2>2, <2>3 DEF eval_libc
<1>3. libc_done => Goal
  BY DEF libc_done, results
<1>4. eval_mm_valid => Goal
  <2> SUFFICES ASSUME eval_mm_valid PROVE Goal
    OBVIOUS
  <2>0. UNCHANGED stats
    BY DEF eval_mm_valid
  <2>1. valid_enter => phase' # "util"
    BY DEF valid_enter, valid_fail, advance, next_trace
  <2>2. valid_alloc => phase' # "util"
    BY DEF valid_alloc, assert_fails, valid_fail, Running, advance, next_trace, exit
  <2>3. valid_realloc => phase' # "util"
    BY DEF valid_realloc, assert_fails, valid_fail, Running, advance, next_trace, exit
  <2>4. valid_free => phase' # "util"
    BY DEF valid_free, Running, advance
  <2>5. valid_exit => opnum' = 0
    BY DEF valid_exit, enter
  <2> QED
    BY <2>0, <2>1, <2>2, <2>3, <2>4, <2>5 DEF eval_mm_valid
<1>5. eval_mm_util => Goal
  <2> SUFFICES ASSUME eval_mm_util PROVE Goal
    OBVIOUS
  <2>0. UNCHANGED files /\ "util" \in Phases /\ block_sizes \in [Ids -> Nat]
    BY DEF eval_mm_util, Phases, Evaluations, MemoryOK, ArraysOK
  <2>a. stats.total \in Nat
    BY DEF StatsOK
  <2>1. util_enter => Goal
    BY DEF util_enter, advance, exit
  <2>b. ASSUME NEW c \in {"a", "r", "f"}, Running("util", c)
        PROVE  /\ phase = "util" /\ op.id \in Ids /\ stats.total = SumOver(block_sizes, LiveIds)
               /\ c \in {"a", "r"} => op.size \in Nat
    <3>1. phase = "util" /\ op.id \in Ids /\ opnum > 0
      BY <2>0, <2>b, RunningFacts
    <3> QED
      BY <2>b, <3>1, RunningSize DEF StatsOK
  <2>c. ASSUME advance, phase = "util" PROVE SumOver(block_sizes', LiveIds') \in Nat
    <3>1. ControlOK'
      BY ControlStep
    <3>2. IsFiniteSet(LiveIds') /\ LiveIds' \subseteq Ids
      <4>1. opnum' \in Nat
        <5>1. tracenum \in 1 .. NumTraces
          BY <2>0, <2>c DEF ControlOK
        <5>2. opnum \in 0 .. Len(trace) + 1 /\ Len(trace) \in Nat
          BY <5>1, TraceFacts
        <5> QED
          BY <2>c, <5>2 DEF advance
      <4>2. IsFiniteSet(Before(trace', opnum')) /\ Before(trace', opnum') \subseteq Ids
        BY <4>1, BeforeFinite
      <4> QED
        BY <4>2 DEF LiveIds
    <3>3. block_sizes' \in [Ids -> Nat]
      BY DEF ArraysOK
    <3>4. \A y \in LiveIds' : block_sizes'[y] \in Nat
      BY <3>2, <3>3
    <3> QED
      BY <3>2, <3>4, SumNat
  <2>2. util_alloc => Goal
    <3> SUFFICES ASSUME util_alloc PROVE Goal
      OBVIOUS
    <3>1. Running("util", "a")
      BY DEF util_alloc
    <3>2. PICK r \in mm_malloc(alloc, op.size) :
            \/ app_error(r)
            \/ r.p # NULL /\ Remember(r.p) /\ alloc' = r.alloc /\ Update(stats.total + op.size) /\ advance
      BY DEF util_alloc
    <3>3. CASE app_error(r)
      BY <3>3 DEF app_error, exit
    <3>4. CASE r.p # NULL /\ Remember(r.p) /\ alloc' = r.alloc /\ Update(stats.total + op.size) /\ advance
      <4>1. /\ phase = "util" /\ op.id \in Ids /\ stats.total = SumOver(block_sizes, LiveIds)
            /\ op.size \in Nat
        BY <2>b, <3>1
      <4>2. block_sizes' = [block_sizes EXCEPT ![op.id] = op.size] /\ blocks' = [blocks EXCEPT ![op.id] = r.p]
        BY <3>4 DEF Remember
      <4>3. SumOver(block_sizes', LiveIds') = stats.total + op.size
        BY <2>0, <3>1, <3>4, <4>1, <4>2, TotalStep
      <4>4. Update(SumOver(block_sizes', LiveIds')) /\ SumOver(block_sizes', LiveIds') \in Nat
        BY <2>c, <3>4, <4>1, <4>3
      <4>5. UtilServes
        BY <3>1, <3>4, <4>1, <4>2, <4>4 DEF UtilServes
      <4> QED
        BY <4>5
    <3> QED
      BY <3>2, <3>3, <3>4
  <2>3. util_realloc => Goal
    <3> SUFFICES ASSUME util_realloc PROVE Goal
      OBVIOUS
    <3>1. Running("util", "r")
      BY DEF util_realloc
    <3>2. PICK r \in mm_malloc(alloc, op.size) :
            \/ app_error(r)
            \/ /\ r.p # NULL /\ Remember(r.p) /\ alloc' \in mm_free(r.alloc, blocks[op.id])
               /\ Update(realloc_total) /\ advance
      BY DEF util_realloc
    <3>3. CASE app_error(r)
      BY <3>3 DEF app_error, exit
    <3>4. CASE /\ r.p # NULL /\ Remember(r.p) /\ alloc' \in mm_free(r.alloc, blocks[op.id])
               /\ Update(realloc_total) /\ advance
      <4>1. /\ phase = "util" /\ op.id \in Ids /\ stats.total = SumOver(block_sizes, LiveIds)
            /\ op.size \in Nat
        BY <2>b, <3>1
      <4>2. block_sizes' = [block_sizes EXCEPT ![op.id] = op.size] /\ blocks' = [blocks EXCEPT ![op.id] = r.p]
        BY <3>4 DEF Remember
      <4>3. SumOver(block_sizes', LiveIds') = realloc_total
        BY <2>0, <3>1, <3>4, <4>1, <4>2, TotalStep DEF realloc_total
      <4>4. Update(SumOver(block_sizes', LiveIds')) /\ SumOver(block_sizes', LiveIds') \in Nat
        BY <2>c, <3>4, <4>1, <4>3
      <4>5. UtilServes
        BY <3>1, <3>4, <4>1, <4>2, <4>4 DEF UtilServes
      <4> QED
        BY <4>5
    <3> QED
      BY <3>2, <3>3, <3>4
  <2>4. util_free => Goal
    <3> SUFFICES ASSUME util_free PROVE Goal
      OBVIOUS
    <3>1. /\ Running("util", "f") /\ alloc' \in mm_free(alloc, blocks[op.id])
          /\ Update(stats.total - block_sizes[op.id]) /\ advance /\ UNCHANGED <<blocks, block_sizes>>
      BY DEF util_free
    <3>2. phase = "util" /\ op.id \in Ids /\ stats.total = SumOver(block_sizes, LiveIds)
      BY <2>b, <3>1
    <3>3. SumOver(block_sizes', LiveIds') = stats.total - block_sizes[op.id]
      BY <2>0, <3>1, <3>2, TotalStep
    <3>4. Update(SumOver(block_sizes', LiveIds')) /\ SumOver(block_sizes', LiveIds') \in Nat
      BY <2>c, <3>1, <3>2, <3>3
    <3>5. UtilServes
      BY <3>1, <3>2, <3>4 DEF UtilServes
    <3> QED
      BY <3>5
  <2>5. util_exit => Goal
    BY DEF util_exit, enter
  <2> HIDE DEF Goal
  <2> QED
    BY <2>1, <2>2, <2>3, <2>4, <2>5 DEF eval_mm_util
<1>6. eval_mm_speed => Goal
  <2> SUFFICES ASSUME eval_mm_speed PROVE Goal
    OBVIOUS
  <2>0. UNCHANGED stats
    BY DEF eval_mm_speed, results
  <2>1. speed_enter \/ speed_exit \/ speed_free => phase' # "util"
    BY DEF speed_enter, speed_exit, speed_free, AtEnd, Running, next_trace, advance, exit
  <2>2. speed_alloc \/ speed_realloc => phase' # "util"
    BY DEF speed_alloc, speed_realloc, speed_error, Running, advance, exit
  <2> QED
    BY <2>0, <2>1, <2>2 DEF eval_mm_speed
<1>7. report => Goal
  BY DEF report
<1>8. UNCHANGED vars => Goal
  BY DEF vars, control, results
<1> HIDE DEF Goal
<1>9. Goal
  BY <1>1, <1>2, <1>3, <1>4, <1>5, <1>6, <1>7, <1>8 DEF Next, Terminating
<1> QED
  BY <1>9 DEF Goal

(* total_size stays the sum of the live blocks' sizes, and max_total the   *)
(* largest it has been.                                                    *)
LEMMA StatsStep ==
  ASSUME ControlOK, PositiveOK, MemoryOK, StatsOK, [Next]_vars, ArraysOK', IsFiniteSet(Mapped(alloc'))
  PROVE  StatsOK'
<1>1. CASE UNCHANGED <<stats, phase, tracenum, opnum, files, block_sizes>>
  BY <1>1 DEF StatsOK, LiveIds, trace
<1>2. CASE UNCHANGED stats /\ (phase' # "util" \/ opnum' = 0)
  BY <1>2 DEF StatsOK
<1>3. CASE stats' = NoStats /\ (opnum' = 1 \/ phase' # "util")
  <2>1. opnum' = 1 => LiveIds' = {}
    BY BeforeStart DEF LiveIds
  <2>2. opnum' = 1 => SumOver(block_sizes', LiveIds') = 0
    BY <2>1, SumEmpty
  <2> QED
    BY <1>3, <2>2 DEF StatsOK, NoStats
<1>4. CASE UtilServes
  <2> DEFINE t == SumOver(block_sizes', LiveIds')
  <2>2. t \in Nat /\ Update(t)
    BY <1>4 DEF UtilServes
  <2> HIDE DEF t
  <2>3. stats' \in [total : Nat, max_total : Nat, max_heap : Nat] /\ stats'.total = t
    BY <2>2, UpdateFacts
  <2> QED
    BY <2>3 DEF StatsOK, t
<1> QED
  BY <1>1, <1>2, <1>3, <1>4, NextStats

-----------------------------------------------------------------------------
(* The counts main reports. *)
CountOK == errors \in 0 .. NumTraces /\ score.numcorrect \in 0 .. NumTraces

(* Errors of a step that ends the process, and who writes the score. *)
LEMMA NextCounts ==
  [Next]_vars => /\ \/ phase' \notin {"exit", "overrun"} \/ UNCHANGED errors
                    \/ phase \in Comparisons /\ errors' = errors + 1
                 /\ UNCHANGED score \/ report
<1> SUFFICES ASSUME [Next]_vars
             PROVE  /\ \/ phase' \notin {"exit", "overrun"} \/ UNCHANGED errors
                       \/ phase \in Comparisons /\ errors' = errors + 1
                    /\ UNCHANGED score \/ report
  OBVIOUS
<1> DEFINE Goal == \/ phase' \notin {"exit", "overrun"} \/ UNCHANGED errors
                   \/ phase \in Comparisons /\ errors' = errors + 1
<1>1. read_trace => Goal /\ UNCHANGED score
  BY DEF read_trace, results
<1>2. eval_libc => Goal /\ UNCHANGED score
  <2> SUFFICES ASSUME eval_libc PROVE Goal
    BY DEF eval_libc
  <2>1. ASSUME NEW f \in {"libc_valid", "libc_speed"}, libc_enter(f) \/ libc_alloc(f) \/ libc_free(f)
        PROVE  Goal
    BY <2>1 DEF libc_enter, libc_alloc, libc_free, libc_fails, libc_gives, Running, Comparisons
  <2>2. libc_valid_realloc \/ libc_speed_realloc => Goal
    BY DEF libc_valid_realloc, libc_speed_realloc, libc_fails, libc_gives, Running, Comparisons
  <2>3. libc_exit => Goal
    BY DEF libc_exit
  <2> QED
    BY <2>1, <2>2, <2>3 DEF eval_libc
<1>3. libc_done => Goal /\ UNCHANGED score
  BY DEF libc_done, results
<1>4. eval_mm_valid => Goal /\ UNCHANGED score
  <2>1. valid_enter => Goal
    BY DEF valid_enter, valid_fail, advance, next_trace
  <2>2. valid_alloc => Goal
    BY DEF valid_alloc, assert_fails, valid_fail, next_trace
  <2>3. valid_realloc => Goal
    BY DEF valid_realloc, assert_fails, valid_fail, next_trace
  <2>4. valid_free \/ valid_exit => Goal
    BY DEF valid_free, valid_exit
  <2> QED
    BY <2>1, <2>2, <2>3, <2>4 DEF eval_mm_valid
<1>5. eval_mm_util => Goal /\ UNCHANGED score
  BY DEF eval_mm_util
<1>6. eval_mm_speed => Goal /\ UNCHANGED score
  BY DEF eval_mm_speed, results
<1>7. report => Goal
  BY DEF report
<1>8. UNCHANGED vars => Goal /\ UNCHANGED score
  BY DEF vars, results
<1> QED
  BY <1>1, <1>2, <1>3, <1>4, <1>5, <1>6, <1>7, <1>8 DEF Next, Terminating

(* As many errors as traces at most. *)
LEMMA FailedBound ==
  ASSUME NEW stat, NEW n \in 0 .. NumTraces
  PROVE  Cardinality(Failed(stat, n)) \in 0 .. NumTraces
<1>1. NumTraces \in Nat /\ n \in Nat
  BY DriverAssumption
<1>2. IsFiniteSet(1 .. n) /\ Cardinality(1 .. n) = n
  <2>1. IsFiniteSet(1 .. n) /\ Cardinality(1 .. n) = IF 1 > n THEN 0 ELSE n - 1 + 1
    BY <1>1, FS_Interval
  <2> QED
    BY <1>1, <2>1
<1>3. Failed(stat, n) \in SUBSET (1 .. n)
  BY DEF Failed
<1>4. IsFiniteSet(Failed(stat, n)) /\ Cardinality(Failed(stat, n)) <= n
  BY <1>2, <1>3, FS_Subset
<1>5. Cardinality(Failed(stat, n)) \in Nat
  BY <1>4, FS_CardinalityType
<1> QED
  BY <1>1, <1>4, <1>5

(* errors counts the traces that failed, at most one each.                 *)
LEMMA CountStep == ControlOK /\ ScoreOK /\ CountOK /\ [Next]_vars => CountOK'
<1> SUFFICES ASSUME ControlOK, ScoreOK, CountOK, [Next]_vars PROVE CountOK'
  OBVIOUS
<1>0. ControlOK' /\ ScoreOK' /\ NumTraces \in Nat \ {0}
  BY ControlStep, ScoreStep, DriverAssumption
<1>1. errors' \in 0 .. NumTraces
  <2>1. CASE phase' \in {"exit", "overrun"}
    <3>1. UNCHANGED errors \/ (phase \in Comparisons /\ errors' = errors + 1)
      BY <2>1, NextCounts
    <3>2. phase \in Comparisons => errors = 0
      BY DEF ScoreOK, Earlier
    <3> QED
      BY <1>0, <3>1, <3>2 DEF CountOK
  <2>2. CASE phase' \in Earlier
    BY <1>0, <2>2 DEF ScoreOK
  <2>3. CASE phase' \in Evaluations \cup {"read", "done"}
    <3>1. tracenum' - 1 \in 0 .. NumTraces
      <4>1. tracenum' \in 1 .. NumTraces + 1
        BY <1>0 DEF ControlOK
      <4>2. \A n \in 1 .. NumTraces + 1 : n - 1 \in 0 .. NumTraces
        BY <1>0
      <4> QED
        BY <4>1, <4>2
    <3>2. errors' = Cardinality(Failed(mm_stats', tracenum' - 1))
      BY <1>0, <2>3 DEF ScoreOK
    <3>3. Cardinality(Failed(mm_stats', tracenum' - 1)) \in 0 .. NumTraces
      BY <3>1, FailedBound
    <3> QED
      BY <3>2, <3>3
  <2>4. phase' \in Earlier \cup Evaluations \cup {"read", "done", "exit", "overrun"}
    BY <1>0 DEF ControlOK, Phases, Earlier
  <2> QED
    BY <2>1, <2>2, <2>3, <2>4
<1>2. score'.numcorrect \in 0 .. NumTraces
  <2>1. CASE UNCHANGED score
    BY <2>1 DEF CountOK
  <2>2. CASE report
    <3>1. /\ score'.numcorrect = Cardinality({i \in DOMAIN mm_stats : mm_stats[i].valid})
          /\ phase = "read"
      BY <2>2 DEF report
    <3>2. mm_stats = [k \in 1 .. NumTraces |-> mm_stats[k]]
      BY <3>1 DEF ScoreOK
    <3> DEFINE V == {i \in DOMAIN mm_stats : mm_stats[i].valid}
    <3>3. V \in SUBSET (1 .. NumTraces)
      BY <3>2
    <3> HIDE DEF V
    <3>4. IsFiniteSet(1 .. NumTraces) /\ Cardinality(1 .. NumTraces) = NumTraces
      <4>1. IsFiniteSet(1 .. NumTraces) /\ Cardinality(1 .. NumTraces) = IF 1 > NumTraces THEN 0 ELSE NumTraces - 1 + 1
        BY <1>0, FS_Interval
      <4> QED
        BY <1>0, <4>1
    <3>5. IsFiniteSet(V) /\ Cardinality(V) <= NumTraces
      BY <3>3, <3>4, FS_Subset
    <3>6. Cardinality(V) \in Nat
      BY <3>5, FS_CardinalityType
    <3>7. score'.numcorrect = Cardinality(V)
      BY <3>1 DEF V
    <3> QED
      BY <1>0, <3>5, <3>6, <3>7
  <2> QED
    BY <2>1, <2>2, NextCounts
<1> QED
  BY <1>1, <1>2 DEF CountOK

-----------------------------------------------------------------------------
(* The inductive invariant for every typed allocator. *)
AnyInv ==
  /\ ControlOK /\ ScoreOK /\ LibcOK /\ PositiveOK /\ MemoryOK /\ RangesOK /\ StatsOK
  /\ CountOK

(* The invariant holds when the program starts.                            *)
LEMMA AnyInit ==
  ASSUME Typed
  PROVE  Init => AnyInv
<1> SUFFICES ASSUME Init PROVE AnyInv
  OBVIOUS
<1>1. ControlOK /\ ScoreOK /\ LibcOK
  BY ControlInit, ScoreInit, LibcInit
<1>2. PositiveOK
  BY DEF Init, PositiveOK
<1>3. MemoryOK
  BY DEF Init, MemoryOK, ArraysOK, NoBlocks, NULL, Typed, Closed
<1>4. RangesOK
  BY DEF Init, RangesOK, Nested
<1>5. StatsOK
  BY DEF Init, StatsOK, NoStats
<1>6. CountOK
  BY DriverAssumption DEF Init, CountOK
<1> QED
  BY <1>1, <1>2, <1>3, <1>4, <1>5, <1>6 DEF AnyInv

(* Every step keeps the invariant, whatever the allocator returns.         *)
LEMMA AnyStep ==
  ASSUME Typed
  PROVE  AnyInv /\ [Next]_vars => AnyInv'
<1> SUFFICES ASSUME AnyInv, [Next]_vars PROVE AnyInv'
  OBVIOUS
<1>0. /\ ControlOK /\ ScoreOK /\ LibcOK /\ PositiveOK /\ MemoryOK /\ RangesOK /\ StatsOK
      /\ CountOK
  BY DEF AnyInv
<1>1. ControlOK' /\ ScoreOK' /\ LibcOK' /\ PositiveOK' /\ CountOK'
  BY <1>0, ControlStep, ScoreStep, LibcStep, PositiveStep, CountStep
<1>a. AnswersOK
  <2> SUFFICES ASSUME phase \in Evaluations, opnum \in DOMAIN trace, NEW r \in mm_malloc(alloc, op.size)
               PROVE  r.p \in Nat
    BY DEF AnswersOK
  <2>1. tracenum \in 1 .. NumTraces
    BY <1>0 DEF ControlOK, Phases
  <2>2. op.size \in Int
    BY <1>0, <2>1, TraceFacts
  <2> QED
    BY <1>0, <2>2 DEF MemoryOK, Typed, TypedStates
<1>2. MemoryOK'
  BY <1>0, <1>a, ArraysStep, AllocStep DEF MemoryOK, Typed
<1>3. RangesOK'
  BY <1>0, RangesStep DEF Typed
<1>4. StatsOK'
  <2>1. IsFiniteSet(Mapped(alloc'))
    BY <1>2 DEF MemoryOK, Typed, TypedStates
  <2> QED
    BY <1>0, <1>2, <2>1, StatsStep DEF MemoryOK
<1> QED
  BY <1>1, <1>2, <1>3, <1>4 DEF AnyInv

(* The invariant holds in every reachable state, whatever the allocator    *)
(* returns.                                                                *)
LEMMA Untrusted ==
  ASSUME Typed
  PROVE  Spec => []AnyInv
<1>1. Init => AnyInv
  BY AnyInit
<1>2. AnyInv /\ [Next]_vars => AnyInv'
  BY AnyStep
<1> QED
  BY <1>1, <1>2, PTL DEF Spec

(* Every variable has its type, with every allocator whose functions have  *)
(* theirs: the statistics of eval_mm_util never fall below 0, and no more  *)
(* errors are counted than there are traces.                               *)
THEOREM TypeCorrect ==
  ASSUME Typed
  PROVE  Spec => []TypeOK
<1>1. AnyInv => TypeOK
  <2> SUFFICES ASSUME AnyInv PROVE TypeOK
    OBVIOUS
  <2>1. /\ ControlOK /\ CountOK /\ blocks \in [Ids -> Nat] /\ block_sizes \in [Ids -> Nat]
        /\ ranges \in Seq(Extents) /\ stats \in [total : Nat, max_total : Nat, max_heap : Nat]
    BY DEF AnyInv, MemoryOK, ArraysOK, RangesOK, StatsOK
  <2>2. \A r \in ToSet(ranges) : r.lo \in Nat /\ r.hi \in Nat
    <3>1. \A i \in DOMAIN ranges : ranges[i] \in Extents
      BY <2>1
    <3>2. \A r \in ToSet(ranges) : \E i \in DOMAIN ranges : r = ranges[i]
      BY DEF ToSet
    <3> QED
      BY <3>1, <3>2 DEF Extents
  <2>3. phase \in {"libc_read", "libc_valid", "libc_speed", "read", "valid", "util", "speed",
                   "done", "exit", "overrun"}
    BY <2>1 DEF ControlOK, Phases, Evaluations, Comparisons
  <2> QED
    BY <2>1, <2>2, <2>3 DEF TypeOK, ControlOK, CountOK
<1> QED
  BY <1>1, Untrusted, PTL

(* Whatever addresses the allocator returns, the range list holds disjoint *)
(* ranges, but for those that lie around an older one.                     *)
THEOREM OverlapsMissed ==
  ASSUME Typed
  PROVE  Spec => []OnlyContainmentMissed
<1>1. AnyInv => OnlyContainmentMissed
  BY DEF AnyInv, RangesOK, Nested, OnlyContainmentMissed
<1> QED
  BY <1>1, Untrusted, PTL

-----------------------------------------------------------------------------
(* One byte per page step and the last byte are enough: every page of the  *)
(* payload holds one of them.                                              *)
LEMMA ProbesSuffice ==
  ASSUME NEW R, NEW A, NEW lo \in Nat, NEW size \in Nat, size > 0, Accepts(R, A, lo, size)
  PROVE  PagesOf(Bytes(Extent(lo, size))) \subseteq Mapped(A)
<1>0. PAGE \in Nat /\ PAGE > 0
  BY DriverAssumption
<1>1. Bytes(Extent(lo, size)) = lo .. lo + size - 1
  BY DEF Bytes, Extent
<1>2. ASSUME NEW j \in 0 .. size - 1, j % PAGE = 0 PROVE (lo + j) \div PAGE \in Mapped(A)
  BY <1>2 DEF Accepts, Probes, is_mapped
<1>3. (lo + size - 1) \div PAGE \in Mapped(A)
  BY DEF Accepts, Probes, is_mapped
<1>4. ASSUME NEW a \in lo .. lo + size - 1 PROVE a \div PAGE \in Mapped(A)
  <2> DEFINE q == (a - lo) \div PAGE
             j == PAGE * q
             n == (lo + j) \div PAGE
  <2>1. q \in Int /\ j \in Int /\ j <= a - lo /\ a - lo < j + PAGE
    BY <1>0, DivBounds
  <2>2. j >= 0
    <3>1. ASSUME q <= -1 PROVE FALSE
      <4>1. j <= PAGE * (-1)
        BY <1>0, <2>1, <3>1, TimesMonotone
      <4> QED
        BY <1>0, <2>1, <4>1
    <3>2. q >= 0
      BY <2>1, <3>1
    <3>3. PAGE * 0 <= j
      BY <1>0, <2>1, <3>2, TimesMonotone
    <3> QED
      BY <1>0, <2>1, <3>3
  <2>3. j % PAGE = 0
    BY <1>0, <2>1, ModTimes
  <2> HIDE DEF j
  <2>4. j \in 0 .. size - 1 /\ lo + j \in Nat
    BY <2>1, <2>2
  <2>5. n \in Mapped(A)
    BY <1>2, <2>3, <2>4
  <2>6. n \in Int /\ PAGE * n \in Int /\ PAGE * n <= lo + j /\ lo + j < PAGE * n + PAGE
    BY <1>0, <2>4, DivBounds
  <2> HIDE DEF n
  <2>7. PAGE * (n + 1) = PAGE * n + PAGE /\ n + 1 \in Int
    BY <1>0, <2>6
  <2>8. CASE a < PAGE * n + PAGE
    <3>1. PAGE * n <= a
      BY <2>1, <2>6
    <3>2. a \div PAGE = n
      BY <1>0, <2>6, <2>8, <3>1, DivUnique
    <3> QED
      BY <2>5, <3>2
  <2>9. CASE a >= PAGE * n + PAGE
    <3>1. a < PAGE * (n + 1) + PAGE
      BY <1>0, <2>1, <2>6, <2>7
    <3>2. a \div PAGE = n + 1
      <4>1. PAGE * (n + 1) <= a /\ a \in Int
        BY <2>7, <2>9
      <4> QED
        BY <1>0, <2>7, <3>1, <4>1, DivUnique
    <3>3. CASE j + PAGE <= size - 1
      <4>1. (j + PAGE) % PAGE = 0
        <5>1. j + PAGE = PAGE * (q + 1) /\ q + 1 \in Int
          BY <1>0, <2>1 DEF j
        <5> QED
          BY <1>0, <5>1, ModTimes
      <4>2. j + PAGE \in 0 .. size - 1
        BY <1>0, <2>4, <3>3
      <4>3. (lo + (j + PAGE)) \div PAGE \in Mapped(A)
        BY <1>2, <4>1, <4>2
      <4>4. (lo + (j + PAGE)) \div PAGE = n + 1
        <5>1. PAGE * (n + 1) <= lo + (j + PAGE) /\ lo + (j + PAGE) < PAGE * (n + 1) + PAGE
          BY <1>0, <2>4, <2>6, <2>7
        <5>2. lo + (j + PAGE) \in Int
          BY <1>0, <2>4
        <5> QED
          BY <1>0, <2>7, <5>1, <5>2, DivUnique
      <4> QED
        BY <3>2, <4>3, <4>4
    <3>4. CASE ~ (j + PAGE <= size - 1)
      <4>1. PAGE * (n + 1) <= lo + size - 1 /\ lo + size - 1 < PAGE * (n + 1) + PAGE
        BY <1>0, <2>4, <2>6, <2>7, <2>9, <3>4
      <4>2. (lo + size - 1) \div PAGE = n + 1
        BY <1>0, <2>7, <4>1, DivUnique
      <4> QED
        BY <1>3, <3>2, <4>2
    <3> QED
      BY <3>3, <3>4
  <2>10. a \in Int /\ PAGE * n + PAGE \in Int
    BY <1>0, <2>6
  <2> QED
    BY <2>8, <2>9, <2>10
<1> QED
  BY <1>1, <1>4 DEF PagesOf

(* Writing a block maps and unmaps nothing, and mm_free unmaps nothing.    *)
KeepsPages == \A A \in States :
  /\ \A p, n \in Nat : \A i \in Ids : Mapped(memset(A, p, n, i)) = Mapped(A)
  /\ \A p \in Nat : \A B \in mm_free(A, p) : Mapped(A) \subseteq Mapped(B)

(* Whatever the allocator returns, a payload that enters the range list    *)
(* has all its bytes on mapped pages, for every size of the payload and of *)
(* a page.                                                                 *)
THEOREM AcceptedMapped ==
  ASSUME Typed, KeepsPages
  PROVE  Spec => AcceptedIsMapped
<1>1. AnyInv /\ [Next]_vars =>
        [\A r \in ToSet(ranges') \ ToSet(ranges) : PagesOf(Bytes(r)) \subseteq Mapped(alloc')]_vars
  <2> SUFFICES ASSUME AnyInv, [Next]_vars, NEW e \in ToSet(ranges') \ ToSet(ranges)
               PROVE  PagesOf(Bytes(e)) \subseteq Mapped(alloc')
    OBVIOUS
  <2>0. /\ ControlOK /\ alloc \in States /\ blocks \in [Ids -> Nat] /\ ranges \in Seq(Extents)
    BY DEF AnyInv, MemoryOK, ArraysOK, RangesOK
  <2>1. /\ ToSet(<<>>) = {}
        /\ \A lo : ToSet(remove_range(ranges, lo)) \subseteq ToSet(ranges)
    <3>1. ToSet(<<>>) = {}
      BY DEF ToSet
    <3>2. ASSUME NEW lo, NEW x \in ToSet(remove_range(ranges, lo)) PROVE x \in ToSet(ranges)
      <4> DEFINE T == remove_range(ranges, lo)
      <4>1. CASE \E k \in 1 .. Len(ranges) :
              /\ ranges[k].lo = lo
              /\ T \in Seq(Extents) /\ Len(T) = Len(ranges) - 1
              /\ \A i \in 1 .. Len(ranges) - 1 : T[i] = ranges[IF i < k THEN i ELSE i + 1]
        <5>1. PICK k \in 1 .. Len(ranges) :
              /\ T \in Seq(Extents) /\ Len(T) = Len(ranges) - 1
              /\ \A i \in 1 .. Len(ranges) - 1 : T[i] = ranges[IF i < k THEN i ELSE i + 1]
          BY <4>1
        <5> HIDE DEF T
        <5>2. PICK i \in 1 .. Len(ranges) - 1 : x = T[i]
          BY <3>2, <5>1 DEF ToSet, T
        <5>3. (IF i < k THEN i ELSE i + 1) \in DOMAIN ranges
          BY <2>0
        <5> QED
          BY <5>1, <5>2, <5>3 DEF ToSet
      <4>2. CASE T = ranges
        BY <3>2, <4>2
      <4> QED
        BY <2>0, <4>1, <4>2, RemoveRange
    <3> QED
      BY <3>1, <3>2
  <2>2. ~ UNCHANGED ranges /\ ranges' # <<>> /\ ranges' # remove_range(ranges, blocks[op.id])
    BY <2>1
  <2>3. PICK r \in mm_malloc(alloc, op.size) :
          /\ op.id \in Ids /\ op.size \in Int /\ op.size > 0
          /\ \/ /\ Accepts(ranges, r.alloc, r.p, op.size)
                /\ ranges' = add_range(ranges, r.p, op.size)
                /\ alloc' = memset(r.alloc, r.p, op.size, op.id)
             \/ /\ Accepts(remove_range(ranges, blocks[op.id]), r.alloc, r.p, op.size)
                /\ ranges' = add_range(remove_range(ranges, blocks[op.id]), r.p, op.size)
                /\ alloc' \in mm_free(memset(r.alloc, r.p, op.size, op.id), blocks[op.id])
    BY <2>0, <2>2, NextRanges
  <2>4. /\ alloc \in States /\ r.p \in Nat /\ r.alloc \in States /\ op.size \in Nat
        /\ memset(r.alloc, r.p, op.size, op.id) \in States
    <3>1. \A n \in Int : \A x \in mm_malloc(alloc, n) : x.p \in Nat /\ x.alloc \in States
      BY <2>0 DEF Typed, TypedStates, Closed
    <3>2. r.p \in Nat /\ r.alloc \in States /\ op.size \in Nat
      BY <2>3, <3>1
    <3> QED
      BY <2>0, <2>3, <3>2 DEF Typed, TypedStates, Closed
  <2>5. Mapped(memset(r.alloc, r.p, op.size, op.id)) = Mapped(r.alloc)
    BY <2>3, <2>4 DEF KeepsPages
  <2>6. Mapped(r.alloc) \subseteq Mapped(alloc')
    <3>1. CASE alloc' = memset(r.alloc, r.p, op.size, op.id)
      BY <2>5, <3>1
    <3>2. CASE alloc' \in mm_free(memset(r.alloc, r.p, op.size, op.id), blocks[op.id])
      <4>1. blocks[op.id] \in Nat
        BY <2>0, <2>3
      <4>2. Mapped(memset(r.alloc, r.p, op.size, op.id)) \subseteq Mapped(alloc')
        BY <2>4, <3>2, <4>1 DEF KeepsPages
      <4> QED
        BY <2>5, <4>2
    <3> QED
      BY <2>3, <3>1, <3>2
  <2>7. ASSUME NEW R \in Seq(Extents), ToSet(R) \subseteq ToSet(ranges), Accepts(R, r.alloc, r.p, op.size),
               ranges' = add_range(R, r.p, op.size)
        PROVE  PagesOf(Bytes(e)) \subseteq Mapped(alloc')
    <3> DEFINE T == add_range(R, r.p, op.size)
    <3>1. /\ T \in Seq(Extents) /\ Len(T) = Len(R) + 1 /\ T[1] = Extent(r.p, op.size)
          /\ \A i \in 2 .. Len(R) + 1 : T[i] = R[i - 1]
      BY <2>3, <2>4, AddRange, ZenonT(60)
    <3> HIDE DEF T
    <3>2. PICK i \in DOMAIN T : e = T[i]
      BY <2>7 DEF ToSet, T
    <3>3. i \in 1 .. Len(R) + 1 /\ Len(R) \in Nat
      BY <3>1
    <3>4. i = 1
      <4>1. i # 1 => i - 1 \in DOMAIN R /\ e = R[i - 1]
        BY <3>1, <3>2, <3>3
      <4>2. i # 1 => e \in ToSet(R)
        BY <4>1 DEF ToSet
      <4> QED
        BY <2>7, <4>2
    <3>5. e = Extent(r.p, op.size)
      BY <3>1, <3>2, <3>4
    <3>6. PagesOf(Bytes(Extent(r.p, op.size))) \subseteq Mapped(r.alloc)
      BY <2>3, <2>4, <2>7, ProbesSuffice
    <3> QED
      BY <2>6, <3>5, <3>6
  <2>8. remove_range(ranges, blocks[op.id]) \in Seq(Extents)
    BY <2>0, NestedRemove DEF AnyInv, RangesOK
  <2> QED
    BY <2>0, <2>1, <2>3, <2>7, <2>8
<1> QED
  BY <1>1, Untrusted, PTL DEF Spec, AcceptedIsMapped

-----------------------------------------------------------------------------
(* An allocator that keeps its contract.  The states of Ready are those    *)
(* between mm_init and mem_reset; Payloads(A) are the extents it has given *)
(* out in such a state A.                                                  *)
CONSTANTS Ready, Payloads(_)

(* Payloads are aligned, mapped and disjoint. *)
Kept(A) ==
  /\ Mapped(A) \subseteq Int
  /\ Held(A) = {e.lo : e \in Payloads(A)}
  /\ \A e \in Payloads(A) : /\ e \in Extents /\ e.lo # NULL /\ e.lo <= e.hi
                            /\ e.lo % ALIGNMENT = 0
                            /\ PagesOf(Bytes(e)) \subseteq Mapped(A)
  /\ \A e, f \in Payloads(A) : e = f \/ Disjoint(e, f)

(* mm_malloc gives a payload of its own, with n bytes or more. *)
Gives(A, n, r) ==
  /\ r.alloc \in Ready
  /\ \E e \in Payloads(r.alloc) : /\ r.p = e.lo /\ e.lo + n - 1 <= e.hi
                                  /\ e \notin Payloads(A)
                                  /\ Payloads(r.alloc) = Payloads(A) \cup {e}

(* mm_free takes the payload at p back. *)
TakesBack(A, p, B) == B \in Ready /\ Payloads(B) = {e \in Payloads(A) : e.lo # p}

(* Some trace file asks for n bytes. *)
Asked(n) == \E f \in TraceFiles : \E k \in DOMAIN f.ops : f.ops[k].cmd # "f" /\ f.ops[k].size = n

(* It owes nothing for a size no trace asks for, and NULL for 0 bytes.     *)
KeepsContract ==
  /\ Fresh \in States /\ Mapped(Fresh) = {}
  /\ \A A \in States :
       /\ ~ Aborted(A) /\ IsFiniteSet(Mapped(A))
       /\ \A r \in mm_init(A) : /\ r.ok /\ r.alloc \in Ready /\ Payloads(r.alloc) = {}
                                /\ Mapped(A) = {} => Mapped(r.alloc) = {}
  /\ \A A \in Ready :
       /\ A \in States /\ Kept(A)
       /\ mem_reset(A) \in States /\ Mapped(mem_reset(A)) = {}
       /\ Asked(0) => \A r \in mm_malloc(A, 0) : r.p = NULL /\ r.alloc \in States
       /\ \A n \in Nat \ {0} : Asked(n) => \A r \in mm_malloc(A, n) : Gives(A, n, r)
       /\ \A e \in Payloads(A) : \A B \in mm_free(A, e.lo) : TakesBack(A, e.lo, B)
       /\ \A e \in Payloads(A) : \A n \in Nat \ {0} : \A i \in Ids : e.lo + n - 1 <= e.hi =>
            /\ memset(A, e.lo, n, i) \in Ready
            /\ Payloads(memset(A, e.lo, n, i)) = Payloads(A)

(* Every trace file agrees with its header, and no size is negative. *)
GoodFiles == \A f \in TraceFiles :
  HeaderHolds(f) /\ \A n \in DOMAIN f.ops : f.ops[n].cmd # "f" => f.ops[n].size >= 0

Trusted == KeepsContract /\ GoodFiles

(* Files with true headers fit ops. *)
LEMMA NoOverrun ==
  ASSUME GoodFiles, ControlOK
  PROVE  phase # "overrun"
<1> SUFFICES ASSUME phase = "overrun" PROVE FALSE
  OBVIOUS
<1>1. tracenum \in 1 .. NumTraces /\ Len(trace) > files[tracenum].num_ops
  BY DriverAssumption DEF ControlOK
<1>2. Len(trace) \in Nat /\ files[tracenum].ops = trace /\ files[tracenum] \in TraceFiles
  BY <1>1, TraceFacts DEF trace
<1>3. files[tracenum].num_ops = Len(trace)
  BY <1>2 DEF GoodFiles, HeaderHolds
<1> QED
  BY <1>1, <1>2, <1>3

(* A request for no bytes. *)
HasEmpty(f) == \E n \in DOMAIN f.ops : f.ops[n].cmd # "f" /\ f.ops[n].size = 0

NoneEmpty == \A f \in TraceFiles : ~ HasEmpty(f)

-----------------------------------------------------------------------------
(* The addresses b that are recorded for the ids of a set are those of the *)
(* payloads of a set, one each; each payload has room for its id's size.   *)
Matches(b, live, P) ==
  /\ \A i \in live : \E e \in P : b[i] = e.lo
  /\ \A e \in P : \E i \in live : b[i] = e.lo
  /\ \A i, j \in live : b[i] = b[j] => i = j

Covered(b, s, live, P) ==
  \A i \in live : s[i] \in Nat /\ s[i] > 0 /\ \E e \in P : b[i] = e.lo /\ b[i] + s[i] - 1 <= e.hi

(* An id less, with its payload. *)
LEMMA MatchesTake ==
  ASSUME NEW b, NEW live, NEW P, Matches(b, live, P), NEW id \in live
  PROVE  Matches(b, live \ {id}, {e \in P : e.lo # b[id]})
BY DEF Matches

(* Without an id and its payload the other sizes still fit.                *)
LEMMA CoveredTake ==
  ASSUME NEW b, NEW s, NEW live, NEW P, Matches(b, live, P), Covered(b, s, live, P), NEW id \in live
  PROVE  Covered(b, s, live \ {id}, {e \in P : e.lo # b[id]})
BY DEF Matches, Covered

(* An id more, with a payload. *)
LEMMA MatchesGive ==
  ASSUME NEW b \in [Ids -> Nat], NEW live \in SUBSET Ids, NEW P, Matches(b, live, P),
         NEW id \in Ids \ live, NEW e, e.lo \in Nat, \A f \in P : f.lo # e.lo
  PROVE  Matches([b EXCEPT ![id] = e.lo], live \cup {id}, P \cup {e})
<1> DEFINE c == [b EXCEPT ![id] = e.lo]
<1>1. c[id] = e.lo /\ \A i \in live : c[i] = b[i]
  OBVIOUS
<1> HIDE DEF c
<1>2. \A i \in live : b[i] # e.lo
  BY DEF Matches
<1>3. Matches(c, live \cup {id}, P \cup {e})
  <2>1. \A i \in live \cup {id} : \E f \in P \cup {e} : c[i] = f.lo
    BY <1>1 DEF Matches
  <2>2. \A f \in P \cup {e} : \E i \in live \cup {id} : c[i] = f.lo
    BY <1>1 DEF Matches
  <2>3. \A i, j \in live \cup {id} : c[i] = c[j] => i = j
    BY <1>1, <1>2 DEF Matches
  <2> QED
    BY <2>1, <2>2, <2>3 DEF Matches
<1> QED
  BY <1>3 DEF c

(* With an id and a payload that holds its size, all sizes fit.            *)
LEMMA CoveredGive ==
  ASSUME NEW b \in [Ids -> Nat], NEW s \in [Ids -> Nat], NEW live \in SUBSET Ids, NEW P,
         Covered(b, s, live, P),
         NEW id \in Ids \ live, NEW e, e.lo \in Nat, NEW n \in Nat, n > 0, e.lo + n - 1 <= e.hi
  PROVE  Covered([b EXCEPT ![id] = e.lo], [s EXCEPT ![id] = n], live \cup {id}, P \cup {e})
<1> DEFINE c == [b EXCEPT ![id] = e.lo]
           t == [s EXCEPT ![id] = n]
<1>1. /\ c[id] = e.lo /\ \A i \in live : c[i] = b[i]
      /\ t[id] = n /\ \A i \in live : t[i] = s[i]
  OBVIOUS
<1> HIDE DEF c, t
<1>2. Covered(c, t, live \cup {id}, P \cup {e})
  BY <1>1 DEF Covered
<1> QED
  BY <1>2 DEF c, t

-----------------------------------------------------------------------------
(* The range list R has one range for each of the ids.                     *)
RangesMatch(R, b, s, live) ==
  /\ R \in Seq(Extents)
  /\ ToSet(R) = {Extent(b[i], s[i]) : i \in live}
  /\ \A j, k \in DOMAIN R : R[j].lo = R[k].lo => j = k
  /\ Len(R) = Cardinality(live)

(* The range list has one range for each live id, and no two ranges at one *)
(* address.                                                                *)
LEMMA RangesFacts ==
  ASSUME NEW R, NEW b, NEW s, NEW live, RangesMatch(R, b, s, live)
  PROVE  /\ R \in Seq(Extents) /\ Len(R) \in Nat /\ DOMAIN R = 1 .. Len(R)
         /\ \A j, k \in 1 .. Len(R) : R[j].lo = R[k].lo => j = k
         /\ Len(R) = Cardinality(live)
         /\ \A i \in live : \E k \in 1 .. Len(R) : R[k] = Extent(b[i], s[i])
         /\ \A k \in 1 .. Len(R) : \E i \in live : R[k] = Extent(b[i], s[i])
         /\ \A i \in live : \E k \in 1 .. Len(R) : R[k].lo = b[i]
         /\ \A k \in 1 .. Len(R) : \E i \in live : R[k].lo = b[i]
<1>0. /\ R \in Seq(Extents) /\ Len(R) \in Nat /\ DOMAIN R = 1 .. Len(R)
      /\ \A j, k \in 1 .. Len(R) : R[j].lo = R[k].lo => j = k
      /\ Len(R) = Cardinality(live)
  BY DEF RangesMatch
<1>a. \A i \in live : \E k \in 1 .. Len(R) : R[k] = Extent(b[i], s[i])
  BY <1>0 DEF RangesMatch, ToSet
<1>b. \A k \in 1 .. Len(R) : \E i \in live : R[k] = Extent(b[i], s[i])
  <2>1. \A k \in 1 .. Len(R) : R[k] \in ToSet(R)
    BY <1>0 DEF ToSet
  <2> QED
    BY <2>1 DEF RangesMatch
<1>c. \A i : Extent(b[i], s[i]).lo = b[i]
  BY DEF Extent
<1> QED
  BY <1>0, <1>a, <1>b, <1>c

(* A range starts at address a. *)
RangeAt(R, a) == \E k \in 1 .. Len(R) : R[k].lo = a

(* Every id that is listed has a range at its address. *)
LEMMA RangeOfId ==
  ASSUME NEW R, NEW b, NEW s, NEW live, RangesMatch(R, b, s, live), NEW id \in live
  PROVE  RangeAt(R, b[id])
<1>1. \A i \in live : \E k \in 1 .. Len(R) : R[k].lo = b[i]
  BY RangesFacts, SMTT(60)
<1> QED
  BY <1>1 DEF RangeAt

(* remove_range takes out the range of an id. *)
LEMMA RangesTake ==
  ASSUME NEW R, NEW b, NEW s, NEW live, IsFiniteSet(live), NEW P, Matches(b, live, P),
         RangesMatch(R, b, s, live), NEW id \in live
  PROVE  RangesMatch(remove_range(R, b[id]), b, s, live \ {id})
<1> DEFINE T == remove_range(R, b[id])
<1>0. /\ R \in Seq(Extents) /\ Len(R) \in Nat /\ DOMAIN R = 1 .. Len(R)
      /\ \A j, k \in 1 .. Len(R) : R[j].lo = R[k].lo => j = k
      /\ Len(R) = Cardinality(live)
  BY DEF RangesMatch
<1>a. \A i \in live : \E k \in 1 .. Len(R) : R[k] = Extent(b[i], s[i])
  BY RangesFacts
<1>b. \A k \in 1 .. Len(R) : \E i \in live : R[k] = Extent(b[i], s[i])
  BY RangesFacts
<1>1. PICK k \in 1 .. Len(R) :
        /\ R[k].lo = b[id]
        /\ T \in Seq(Extents) /\ Len(T) = Len(R) - 1
        /\ \A i \in 1 .. Len(R) - 1 : T[i] = R[IF i < k THEN i ELSE i + 1]
  <2>a. RangeAt(R, b[id])
    BY RangeOfId
  <2>1. \E k \in 1 .. Len(R) : R[k].lo = b[id]
    BY <2>a DEF RangeAt
  <2>2. \/ remove_range(R, b[id]) = R /\ \A i \in 1 .. Len(R) : R[i].lo # b[id]
        \/ \E k \in 1 .. Len(R) :
             /\ R[k].lo = b[id]
             /\ remove_range(R, b[id]) \in Seq(Extents) /\ Len(remove_range(R, b[id])) = Len(R) - 1
             /\ \A i \in 1 .. Len(R) - 1 : remove_range(R, b[id])[i] = R[IF i < k THEN i ELSE i + 1]
    BY <1>0, RemoveRange, ZenonT(60)
  <2> QED
    BY <2>1, <2>2
<1> HIDE DEF T
<1>2. \A i \in 1 .. Len(R) - 1 : (IF i < k THEN i ELSE i + 1) \in (1 .. Len(R)) \ {k}
  BY <1>0
<1>3. \A m \in (1 .. Len(R)) \ {k} : \E i \in 1 .. Len(R) - 1 : m = IF i < k THEN i ELSE i + 1
  <2> SUFFICES ASSUME NEW m \in (1 .. Len(R)) \ {k}
               PROVE  \E i \in 1 .. Len(R) - 1 : m = IF i < k THEN i ELSE i + 1
    OBVIOUS
  <2>1. CASE m < k
    BY <1>0, <2>1
  <2>2. CASE m > k
    <3>1. m - 1 \in 1 .. Len(R) - 1 /\ m = IF m - 1 < k THEN m - 1 ELSE (m - 1) + 1
      BY <1>0, <2>2
    <3> QED
      BY <3>1
  <2> QED
    BY <1>0, <2>1, <2>2
<1>4. DOMAIN T = 1 .. Len(R) - 1
  BY <1>0, <1>1
<1>5. \A i, j \in DOMAIN T : T[i].lo = T[j].lo => i = j
  <2> SUFFICES ASSUME NEW i \in 1 .. Len(R) - 1, NEW j \in 1 .. Len(R) - 1, T[i].lo = T[j].lo
               PROVE  i = j
    BY <1>4
  <2>1. (IF i < k THEN i ELSE i + 1) = (IF j < k THEN j ELSE j + 1)
    BY <1>0, <1>1, <1>2
  <2> QED
    BY <1>0, <2>1
<1>6. Len(T) = Cardinality(live \ {id})
  BY <1>0, <1>1, FS_RemoveElement
<1>7. \A i, j \in live : b[i] = b[j] => i = j
  BY DEF Matches
<1>8. ASSUME NEW x \in ToSet(T) PROVE x \in {Extent(b[i], s[i]) : i \in live \ {id}}
  <2>1. PICK i \in 1 .. Len(R) - 1 : x = T[i]
    BY <1>4, <1>8 DEF ToSet
  <2>2. PICK m \in (1 .. Len(R)) \ {k} : x = R[m]
    BY <1>1, <1>2, <2>1
  <2>3. PICK j \in live : R[m] = Extent(b[j], s[j])
    BY <1>b
  <2>4. R[m].lo = b[j]
    BY <2>3 DEF Extent
  <2>5. j # id
    BY <1>0, <1>1, <2>2, <2>4
  <2> QED
    BY <2>2, <2>3, <2>5
<1>9. ASSUME NEW j \in live \ {id} PROVE Extent(b[j], s[j]) \in ToSet(T)
  <2>1. PICK m \in 1 .. Len(R) : R[m] = Extent(b[j], s[j])
    BY <1>a
  <2>2. R[m].lo = b[j]
    BY <2>1 DEF Extent
  <2>3. m # k
    BY <1>1, <1>7, <2>2
  <2>4. PICK i \in 1 .. Len(R) - 1 : m = IF i < k THEN i ELSE i + 1
    BY <1>3, <2>3
  <2>5. T[i] = R[m] /\ i \in DOMAIN T
    BY <1>1, <1>4, <2>4
  <2> QED
    BY <2>1, <2>5 DEF ToSet
<1>10. ToSet(T) = {Extent(b[i], s[i]) : i \in live \ {id}}
  BY <1>8, <1>9
<1> QED
  BY <1>1, <1>5, <1>6, <1>10 DEF RangesMatch, T

(* add_range puts the range of an id in front. *)
LEMMA RangesGive ==
  ASSUME NEW R, NEW b \in [Ids -> Nat], NEW s \in [Ids -> Nat], NEW live \in SUBSET Ids, IsFiniteSet(live),
         RangesMatch(R, b, s, live), NEW id \in Ids \ live, NEW p \in Nat, NEW n \in Nat, n > 0,
         \A i \in live : b[i] # p
  PROVE  RangesMatch(add_range(R, p, n), [b EXCEPT ![id] = p], [s EXCEPT ![id] = n], live \cup {id})
<1> DEFINE c == [b EXCEPT ![id] = p]
           t == [s EXCEPT ![id] = n]
           T == add_range(R, p, n)
           e == Extent(p, n)
<1>0. /\ R \in Seq(Extents) /\ Len(R) \in Nat /\ DOMAIN R = 1 .. Len(R)
      /\ \A j, k \in 1 .. Len(R) : R[j].lo = R[k].lo => j = k
      /\ Len(R) = Cardinality(live)
  BY DEF RangesMatch
<1>1. /\ c[id] = p /\ \A i \in live : c[i] = b[i]
      /\ t[id] = n /\ \A i \in live : t[i] = s[i]
  OBVIOUS
<1> HIDE DEF c, t, T, e
<1>2. /\ T \in Seq(Extents) /\ Len(T) = Len(R) + 1
      /\ T[1] = e /\ e.lo = p
      /\ \A i \in 2 .. Len(R) + 1 : T[i] = R[i - 1]
  <2>1. R \in Seq(Extents)
    BY <1>0
  <2>2. /\ Extent(p, n) \in Extents /\ Extent(p, n).lo = p /\ Extent(p, n).hi = p + n - 1
        /\ add_range(R, p, n) \in Seq(Extents) /\ Len(add_range(R, p, n)) = Len(R) + 1
        /\ add_range(R, p, n)[1] = Extent(p, n)
        /\ \A i \in 2 .. Len(R) + 1 : add_range(R, p, n)[i] = R[i - 1]
    BY <2>1, AddRange, ZenonT(60)
  <2> QED
    BY <2>2 DEF T, e
<1>a. \A i \in live : \E k \in 1 .. Len(R) : R[k] = Extent(b[i], s[i])
  BY RangesFacts
<1>b. \A k \in 1 .. Len(R) : \E i \in live : R[k] = Extent(b[i], s[i])
  BY RangesFacts
<1>3. \A k \in 1 .. Len(R) : R[k].lo # p
  <2>1. \A k \in 1 .. Len(R) : \E i \in live : R[k].lo = b[i]
    BY RangesFacts
  <2> QED
    BY <2>1
<1>4. DOMAIN T = 1 .. Len(R) + 1
  BY <1>0, <1>2
<1>5. ASSUME NEW i \in DOMAIN T, NEW j \in DOMAIN T, T[i].lo = T[j].lo PROVE i = j
  <2>1. \A m \in DOMAIN T : m = 1 \/ (m \in 2 .. Len(R) + 1 /\ m - 1 \in 1 .. Len(R))
    BY <1>0, <1>4
  <2>2. i = 1 <=> j = 1
    BY <1>2, <1>3, <1>5, <2>1
  <2>3. i # 1 => i - 1 = j - 1
    BY <1>0, <1>2, <1>5, <2>1, <2>2
  <2> QED
    BY <1>0, <1>4, <2>2, <2>3
<1>6. Len(T) = Cardinality(live \cup {id})
  <2>1. Cardinality(live \cup {id}) = Cardinality(live) + 1
    BY FS_AddElement
  <2> QED
    BY <1>0, <1>2, <2>1
<1>7. ASSUME NEW x \in ToSet(T) PROVE x \in {Extent(c[i], t[i]) : i \in live \cup {id}}
  <2>1. PICK m \in 1 .. Len(R) + 1 : x = T[m]
    BY <1>4, <1>7 DEF ToSet
  <2>2. CASE m = 1
    BY <1>1, <1>2, <2>1, <2>2 DEF e
  <2>3. CASE m # 1
    <3>1. m \in 2 .. Len(R) + 1 /\ m - 1 \in 1 .. Len(R)
      BY <1>0, <2>3
    <3>2. PICK j \in live : R[m - 1] = Extent(b[j], s[j])
      BY <1>b, <3>1
    <3> QED
      BY <1>1, <1>2, <2>1, <3>1, <3>2
  <2> QED
    BY <2>2, <2>3
<1>8. ASSUME NEW j \in live \cup {id} PROVE Extent(c[j], t[j]) \in ToSet(T)
  <2>1. CASE j = id
    <3>1. 1 \in DOMAIN T
      BY <1>0, <1>4
    <3> QED
      BY <1>1, <1>2, <2>1, <3>1 DEF ToSet, e
  <2>2. CASE j \in live
    <3>1. PICK k \in 1 .. Len(R) : R[k] = Extent(b[j], s[j])
      BY <1>a, <2>2
    <3>2. k + 1 \in 2 .. Len(R) + 1 /\ (k + 1) - 1 = k /\ k + 1 \in DOMAIN T
      BY <1>0, <1>4
    <3>3. T[k + 1] = R[k]
      BY <1>2, <3>2
    <3> QED
      BY <1>1, <2>2, <3>1, <3>2, <3>3 DEF ToSet
  <2> QED
    BY <2>1, <2>2
<1>9. ToSet(T) = {Extent(c[i], t[i]) : i \in live \cup {id}}
  BY <1>7, <1>8
<1> QED
  BY <1>2, <1>5, <1>6, <1>9 DEF RangesMatch, c, t, T

-----------------------------------------------------------------------------
(* Blocks fit the heap: their bytes are different ones on mapped pages.    *)
Rooms(b, s, live) == UNION {b[i] .. b[i] + s[i] - 1 : i \in live}
PageBytes(M)      == UNION {PAGE * q .. PAGE * q + PAGE - 1 : q \in M}

OutOfWay(b, s, live) ==
  /\ \A i \in live : b[i] \in Nat /\ s[i] \in Nat /\ s[i] > 0
  /\ \A i, j \in live : i = j \/ b[i] + s[i] - 1 < b[j] \/ b[j] + s[j] - 1 < b[i]

(* An interval of n numbers. *)
LEMMA IntervalCount ==
  ASSUME NEW a \in Int, NEW n \in Nat
  PROVE  IsFiniteSet(a .. a + n - 1) /\ Cardinality(a .. a + n - 1) = n
<1> DEFINE h == a + n - 1
<1>1. h \in Int /\ (a > h => n = 0) /\ h - a + 1 = n
  OBVIOUS
<1> HIDE DEF h
<1>2. IsFiniteSet(a .. h) /\ Cardinality(a .. h) = IF a > h THEN 0 ELSE h - a + 1
  BY <1>1, FS_Interval
<1>3. IsFiniteSet(a .. h) /\ Cardinality(a .. h) = n
  BY <1>1, <1>2
<1> QED
  BY <1>3 DEF h

(* Disjoint blocks have as many bytes as their sizes add up to. *)
LEMMA RoomsCount ==
  ASSUME NEW b, NEW s, NEW live, IsFiniteSet(live), OutOfWay(b, s, live)
  PROVE  IsFiniteSet(Rooms(b, s, live)) /\ Cardinality(Rooms(b, s, live)) = SumOver(s, live)
<1> DEFINE Good(T) == IsFiniteSet(Rooms(b, s, T)) /\ Cardinality(Rooms(b, s, T)) = SumOver(s, T)
           F == {T \in SUBSET live : Good(T)}
<1>1. {} \in F
  <2>1. Rooms(b, s, {}) = {}
    BY DEF Rooms
  <2> QED
    BY <2>1, FS_EmptySet, SumEmpty
<1>2. ASSUME NEW T \in SUBSET live, NEW x \in live \ T, T \in F PROVE T \cup {x} \in F
  <2> DEFINE V == b[x] .. b[x] + s[x] - 1
             U == Rooms(b, s, T)
  <2>1. Rooms(b, s, T \cup {x}) = U \cup V
    BY DEF Rooms
  <2>2. U \cap V = {}
    <3> SUFFICES ASSUME NEW a \in U, a \in V PROVE FALSE
      OBVIOUS
    <3>1. PICK i \in T : a \in b[i] .. b[i] + s[i] - 1
      BY DEF Rooms
    <3>2. /\ b[i] \in Nat /\ s[i] \in Nat /\ b[x] \in Nat /\ s[x] \in Nat
          /\ b[i] + s[i] - 1 < b[x] \/ b[x] + s[x] - 1 < b[i]
      BY DEF OutOfWay
    <3> QED
      BY <3>1, <3>2
  <2>3. IsFiniteSet(V) /\ Cardinality(V) = s[x]
    <3>1. b[x] \in Nat /\ s[x] \in Nat /\ s[x] > 0
      BY DEF OutOfWay
    <3>2. b[x] \in Int /\ s[x] \in Nat
      BY <3>1
    <3>3. /\ IsFiniteSet(b[x] .. b[x] + s[x] - 1)
          /\ Cardinality(b[x] .. b[x] + s[x] - 1) = s[x]
      BY <3>2, IntervalCount
    <3> QED
      BY <3>3
  <2>4. IsFiniteSet(T) /\ (\A y \in T : s[y] \in Int) /\ s[x] \in Int
    BY FS_Subset DEF OutOfWay
  <2>5. SumOver(s, T \cup {x}) = SumOver(s, T) + s[x] /\ SumOver(s, T) \in Int
    BY <2>4, SumAdd
  <2>6. IsFiniteSet(U) /\ Cardinality(U) = SumOver(s, T)
    BY <1>2
  <2> HIDE DEF U, V
  <2>7. /\ IsFiniteSet(U \cup V)
        /\ Cardinality(U \cup V) = Cardinality(U) + Cardinality(V) - Cardinality(U \cap V)
    BY <2>3, <2>6, FS_Union
  <2>8. Cardinality(U \cap V) = 0
    BY <2>2, FS_EmptySet
  <2>9. Cardinality(U \cup V) = SumOver(s, T) + s[x]
    BY <2>3, <2>4, <2>5, <2>6, <2>7, <2>8
  <2> QED
    BY <2>1, <2>5, <2>7, <2>9
<1> HIDE DEF F
<1>3. live \in F
  BY <1>1, <1>2, FiniteInduct
<1> QED
  BY <1>3 DEF F

(* Pages have no more bytes than PAGE each. *)
LEMMA PageBytesCount ==
  ASSUME NEW M \in SUBSET Int, IsFiniteSet(M)
  PROVE  IsFiniteSet(PageBytes(M)) /\ Cardinality(PageBytes(M)) <= PAGE * Cardinality(M)
<1> DEFINE Good(T) == IsFiniteSet(PageBytes(T)) /\ Cardinality(PageBytes(T)) <= PAGE * Cardinality(T)
           F == {T \in SUBSET M : Good(T)}
<1>0. PAGE \in Nat /\ PAGE > 0 /\ \A x, y \in Int : x * y \in Int
  BY DriverAssumption
<1>1. {} \in F
  <2>1. PageBytes({}) = {}
    BY DEF PageBytes
  <2>2. PAGE * 0 = 0
    BY <1>0
  <2> QED
    BY <2>1, <2>2, FS_EmptySet
<1>2. ASSUME NEW T \in SUBSET M, NEW x \in M \ T, T \in F PROVE T \cup {x} \in F
  <2> DEFINE low == PAGE * x
             V == low .. low + PAGE - 1
             U == PageBytes(T)
             c == Cardinality(T)
  <2>1. PageBytes(T \cup {x}) = U \cup V
    BY DEF PageBytes
  <2>2. IsFiniteSet(T)
    BY FS_Subset
  <2>3. Cardinality(T \cup {x}) = c + 1 /\ c \in Nat
    BY <2>2, FS_AddElement, FS_CardinalityType
  <2>4. low \in Int
    BY <1>0
  <2>5. IsFiniteSet(U) /\ Cardinality(U) <= PAGE * c
    BY <1>2
  <2> HIDE DEF low
  <2>6. IsFiniteSet(V) /\ Cardinality(V) = PAGE
    BY <1>0, <2>4, IntervalCount
  <2> HIDE DEF U, V, c
  <2>7. /\ IsFiniteSet(U \cup V)
        /\ Cardinality(U \cup V) = Cardinality(U) + Cardinality(V) - Cardinality(U \cap V)
    BY <2>5, <2>6, FS_Union
  <2>8. Cardinality(U \cap V) \in Nat /\ Cardinality(U) \in Nat
    BY <2>5, FS_Intersection, FS_CardinalityType
  <2>9. PAGE * (c + 1) = PAGE * c + PAGE /\ PAGE * c \in Int
    BY <1>0, <2>3
  <2>10. Cardinality(U \cup V) <= PAGE * (c + 1)
    <3> DEFINE m == PAGE * c
    <3>1. m \in Int /\ Cardinality(U) <= m /\ PAGE * (c + 1) = m + PAGE
      BY <2>5, <2>9
    <3> HIDE DEF m
    <3> QED
      BY <1>0, <2>6, <2>7, <2>8, <3>1
  <2>11. Cardinality(PageBytes(T \cup {x})) <= PAGE * Cardinality(T \cup {x})
    BY <2>1, <2>3, <2>10
  <2> QED
    BY <2>1, <2>7, <2>11
<1> HIDE DEF F
<1>3. M \in F
  BY <1>1, <1>2, FiniteInduct
<1> QED
  BY <1>3 DEF F

(* What is recorded fits the heap. *)
LEMMA SizesFit ==
  ASSUME NEW A, Kept(A), IsFiniteSet(Mapped(A)), NEW b, NEW s, NEW live, IsFiniteSet(live),
         Matches(b, live, Payloads(A)), Covered(b, s, live, Payloads(A))
  PROVE  /\ SumOver(s, live) <= mem_heapsize(A)
         /\ live # {} => mem_heapsize(A) > 0
         /\ SumOver(s, live) \in Nat /\ mem_heapsize(A) \in Nat
<1>0. PAGE \in Nat /\ PAGE > 0
  BY DriverAssumption
<1>1. ASSUME NEW i \in live
      PROVE  \E e \in Payloads(A) : /\ b[i] = e.lo /\ b[i] + s[i] - 1 <= e.hi /\ s[i] \in Nat /\ s[i] > 0
                                    /\ e.lo \in Nat /\ e.hi \in Nat
                                    /\ PagesOf(Bytes(e)) \subseteq Mapped(A)
  <2>1. PICK e \in Payloads(A) : b[i] = e.lo /\ b[i] + s[i] - 1 <= e.hi
    BY DEF Covered
  <2>2. e.lo \in Nat /\ e.hi \in Nat
    BY DEF Kept, Extents
  <2> QED
    BY <2>1, <2>2 DEF Covered, Kept
<1>2. OutOfWay(b, s, live)
  <2>1. ASSUME NEW i \in live, NEW j \in live, i # j
        PROVE  b[i] + s[i] - 1 < b[j] \/ b[j] + s[j] - 1 < b[i]
    <3>1. PICK e \in Payloads(A) : /\ b[i] = e.lo /\ b[i] + s[i] - 1 <= e.hi /\ s[i] \in Nat
                                   /\ e.lo \in Nat /\ e.hi \in Nat
      BY <1>1
    <3>2. PICK f \in Payloads(A) : /\ b[j] = f.lo /\ b[j] + s[j] - 1 <= f.hi /\ s[j] \in Nat
                                   /\ f.lo \in Nat /\ f.hi \in Nat
      BY <1>1
    <3>3. b[i] # b[j]
      BY <2>1 DEF Matches
    <3>4. Disjoint(e, f)
      BY <3>1, <3>2, <3>3 DEF Kept
    <3> QED
      BY <3>1, <3>2, <3>4 DEF Disjoint
  <2> QED
    BY <1>1, <2>1 DEF OutOfWay
<1>3. IsFiniteSet(Rooms(b, s, live)) /\ Cardinality(Rooms(b, s, live)) = SumOver(s, live)
  BY <1>2, RoomsCount
<1>4. IsFiniteSet(PageBytes(Mapped(A))) /\ Cardinality(PageBytes(Mapped(A))) <= PAGE * Cardinality(Mapped(A))
  BY PageBytesCount DEF Kept
<1>5. ASSUME NEW i \in live, NEW a \in b[i] .. b[i] + s[i] - 1
      PROVE  a \in Int /\ a \div PAGE \in Mapped(A)
  <2>1. PICK e \in Payloads(A) : /\ b[i] = e.lo /\ b[i] + s[i] - 1 <= e.hi /\ s[i] \in Nat
                                 /\ e.lo \in Nat /\ e.hi \in Nat
                                 /\ PagesOf(Bytes(e)) \subseteq Mapped(A)
    BY <1>1
  <2>2. a \in e.lo .. e.hi
    BY <2>1
  <2>3. a \in Bytes(e)
    BY <2>2 DEF Bytes
  <2> QED
    BY <2>1, <2>2, <2>3 DEF PagesOf
<1>6. Rooms(b, s, live) \subseteq PageBytes(Mapped(A))
  <2> SUFFICES ASSUME NEW a \in Rooms(b, s, live) PROVE a \in PageBytes(Mapped(A))
    OBVIOUS
  <2> DEFINE q == a \div PAGE
             m == PAGE * q
  <2>1. a \in Int /\ q \in Mapped(A)
    BY <1>5 DEF Rooms
  <2>2. m \in Int /\ m <= a /\ a < m + PAGE
    BY <1>0, <2>1, DivBounds
  <2> HIDE DEF m
  <2>3. a \in m .. m + PAGE - 1
    BY <1>0, <2>1, <2>2
  <2> QED
    BY <2>1, <2>3 DEF PageBytes, m
<1>7. Cardinality(Rooms(b, s, live)) <= Cardinality(PageBytes(Mapped(A)))
  BY <1>4, <1>6, FS_Subset
<1>8. Cardinality(Mapped(A)) \in Nat /\ (live # {} => Cardinality(Mapped(A)) # 0)
  <2>1. ASSUME NEW i \in live PROVE Mapped(A) # {}
    <3>1. b[i] \in Nat /\ s[i] \in Nat /\ s[i] > 0
      BY <1>2 DEF OutOfWay
    <3>2. b[i] \in b[i] .. b[i] + s[i] - 1
      BY <3>1
    <3> QED
      BY <1>5, <3>2
  <2> QED
    BY <2>1, FS_EmptySet, FS_CardinalityType
<1>9. /\ mem_heapsize(A) = PAGE * Cardinality(Mapped(A)) /\ mem_heapsize(A) \in Nat
      /\ live # {} => mem_heapsize(A) > 0
  <2>1. \A c \in Nat : PAGE * c \in Nat /\ (c # 0 => PAGE * c > 0)
    BY <1>0
  <2> QED
    BY <1>8, <2>1 DEF mem_heapsize
<1>10. Cardinality(Rooms(b, s, live)) \in Nat /\ Cardinality(PageBytes(Mapped(A))) \in Nat
  BY <1>3, <1>4, FS_CardinalityType
<1> QED
  BY <1>3, <1>4, <1>7, <1>9, <1>10

-----------------------------------------------------------------------------
(* Payload e is what mm_malloc gave for n bytes.                           *)
IsGiven(A, n, r, e) ==
  /\ r.alloc \in Ready /\ e \in Payloads(r.alloc) /\ Payloads(r.alloc) = Payloads(A) \cup {e}
  /\ r.p = e.lo /\ r.p # NULL /\ e.lo \in Nat /\ e.hi \in Nat /\ e.lo + n - 1 <= e.hi
  /\ e.lo % ALIGNMENT = 0
  /\ PagesOf(Bytes(e)) \subseteq Mapped(r.alloc)
  /\ \A f \in Payloads(A) : f.lo # e.lo /\ Disjoint(f, e)

(* mm_malloc's result in the driver's terms.                               *)
LEMMA MallocGives ==
  ASSUME KeepsContract, NEW A \in Ready, NEW n \in Nat, n > 0, Asked(n), NEW r \in mm_malloc(A, n)
  PROVE  \E e : IsGiven(A, n, r, e)
<1>1. Gives(A, n, r)
  BY DEF KeepsContract
<1>2. PICK e \in Payloads(r.alloc) : /\ r.p = e.lo /\ e.lo + n - 1 <= e.hi
                                     /\ e \notin Payloads(A)
                                     /\ Payloads(r.alloc) = Payloads(A) \cup {e}
  BY <1>1 DEF Gives
<1>3. r.alloc \in Ready /\ Kept(r.alloc)
  BY <1>1 DEF Gives, KeepsContract
<1>4. \A f \in Payloads(r.alloc) : f.lo \in Nat /\ f.hi \in Nat /\ f.lo <= f.hi
  BY <1>3 DEF Kept, Extents
<1>5. /\ e.lo # NULL /\ e.lo % ALIGNMENT = 0
      /\ PagesOf(Bytes(e)) \subseteq Mapped(r.alloc)
  BY <1>3 DEF Kept
<1>6. ASSUME NEW f \in Payloads(A) PROVE f.lo # e.lo /\ Disjoint(f, e)
  <2>1. Disjoint(f, e)
    BY <1>2, <1>3 DEF Kept
  <2>2. f \in Payloads(r.alloc)
    BY <1>2
  <2> QED
    BY <1>4, <2>1, <2>2 DEF Disjoint
<1>7. IsGiven(A, n, r, e)
  BY <1>2, <1>3, <1>4, <1>5, <1>6 DEF IsGiven
<1> QED
  BY <1>7

(* The ranges on the list lie in payloads. *)
Within(R, P) == \A q \in ToSet(R) : \E f \in P : /\ q.lo = f.lo /\ q.hi <= f.hi
                                                 /\ q.lo \in Nat /\ q.hi \in Nat /\ q.lo <= q.hi

(* When ranges match ids and sizes fit payloads, the ranges lie in         *)
(* payloads.                                                               *)
LEMMA RangesWithin ==
  ASSUME NEW R, NEW b, NEW s, NEW live, RangesMatch(R, b, s, live), NEW P, Covered(b, s, live, P),
         \A i \in live : b[i] \in Nat
  PROVE  Within(R, P)
<1> SUFFICES ASSUME NEW q \in ToSet(R)
             PROVE  \E f \in P : /\ q.lo = f.lo /\ q.hi <= f.hi
                                 /\ q.lo \in Nat /\ q.hi \in Nat /\ q.lo <= q.hi
  BY DEF Within
<1>1. PICK i \in live : q = Extent(b[i], s[i])
  BY DEF RangesMatch
<1>2. q.lo = b[i] /\ q.hi = b[i] + s[i] - 1
  BY <1>1 DEF Extent
<1>3. PICK f \in P : b[i] = f.lo /\ b[i] + s[i] - 1 <= f.hi
  BY DEF Covered
<1>4. b[i] \in Nat /\ s[i] \in Nat /\ s[i] > 0
  BY DEF Covered
<1> QED
  BY <1>2, <1>3, <1>4

(* add_range accepts what mm_malloc gave: it is aligned and mapped, and    *)
(* overlaps no range on the list.                                          *)
LEMMA GivenAccepted ==
  ASSUME NEW A, NEW n \in Nat, n > 0, NEW r, NEW e, IsGiven(A, n, r, e), NEW R, Within(R, Payloads(A)),
         \A f \in Payloads(A) : f.hi \in Nat
  PROVE  Accepts(R, r.alloc, r.p, n)
<1>0. r.p = e.lo /\ e.lo \in Nat /\ e.hi \in Nat /\ e.lo + n - 1 <= e.hi /\ PAGE \in Nat /\ PAGE > 0
  BY DriverAssumption DEF IsGiven
<1>1. r.p % ALIGNMENT = 0
  BY DEF IsGiven
<1>2. ASSUME NEW a \in Probes(r.p, n) PROVE is_mapped(r.alloc, a)
  <2>1. a \in e.lo .. e.hi
    BY <1>0, <1>2 DEF Probes
  <2>2. a \div PAGE \in PagesOf(Bytes(e))
    BY <2>1 DEF PagesOf, Bytes
  <2> QED
    BY <2>2 DEF is_mapped, IsGiven
<1>3. ASSUME NEW q \in ToSet(R) PROVE ~ Overlaps(Extent(r.p, n), q)
  <2>1. PICK f \in Payloads(A) : /\ q.lo = f.lo /\ q.hi <= f.hi
                                 /\ q.lo \in Nat /\ q.hi \in Nat /\ q.lo <= q.hi
    BY <1>3 DEF Within
  <2>2. f.hi < e.lo \/ e.hi < f.lo
    BY DEF IsGiven, Disjoint
  <2> DEFINE x == Extent(r.p, n)
  <2>3. x.lo = e.lo /\ x.hi = e.lo + n - 1
    BY <1>0 DEF Extent
  <2>4. f.hi \in Nat
    BY <2>1
  <2> HIDE DEF x
  <2> QED
    BY <1>0, <2>1, <2>2, <2>3, <2>4 DEF Overlaps, x
<1> QED
  BY <1>1, <1>2, <1>3 DEF Accepts

-----------------------------------------------------------------------------
(* Until an error is counted, no page is mapped between the evaluations; in *)
(* one, the arrays and the range list show what the allocator has given    *)
(* out.                                                                    *)
HeapOK ==
  /\ alloc \in States
  /\ errors = 0 /\ phase # "exit" /\ (phase \notin Evaluations \/ opnum \in {0, 1}) => Mapped(alloc) = {}
  /\ phase \in Evaluations /\ opnum > 0 =>
       alloc \in Ready /\ Matches(blocks, LiveIds, Payloads(alloc))
  /\ phase \in {"valid", "util"} /\ opnum > 0 =>
       Covered(blocks, block_sizes, LiveIds, Payloads(alloc))
  /\ phase = "valid" /\ opnum > 0 => RangesMatch(ranges, blocks, block_sizes, LiveIds)

(* What a step does to the heap. *)
HeapStays  == UNCHANGED <<phase, opnum, tracenum, files, blocks, block_sizes, ranges, alloc, errors>>
HeapRests  == /\ phase' \notin Evaluations \/ opnum' = 0
              /\ Mapped(alloc') = {} \/ errors' # 0 \/ phase' = "exit"
              /\ UNCHANGED ranges
HeapStarts == /\ phase \in Evaluations /\ opnum = 0 /\ opnum' = 1 /\ UNCHANGED <<phase, files, errors>>
              /\ alloc' \in Ready /\ Payloads(alloc') = {} /\ (Mapped(alloc) = {} => Mapped(alloc') = {})
              /\ (phase = "valid" => ranges' = <<>>)

OtherPayloads == IF op.cmd = "a" THEN Payloads(alloc) ELSE {e \in Payloads(alloc) : e.lo # blocks[op.id]}
OtherRanges   == IF op.cmd = "a" THEN ranges ELSE remove_range(ranges, blocks[op.id])

FreeServed ==
  /\ op.cmd = "f" /\ UNCHANGED <<blocks, block_sizes>>
  /\ Payloads(alloc') = OtherPayloads
  /\ phase = "valid" => ranges' = OtherRanges

BlockServed(e) ==
  /\ op.cmd # "f" /\ op.size \in Nat /\ op.size > 0
  /\ e.lo \in Nat /\ e.lo + op.size - 1 <= e.hi /\ \A f \in OtherPayloads : f.lo # e.lo
  /\ Payloads(alloc') = OtherPayloads \cup {e}
  /\ blocks' = [blocks EXCEPT ![op.id] = e.lo]
  /\ block_sizes' = IF phase = "speed" THEN block_sizes ELSE [block_sizes EXCEPT ![op.id] = op.size]
  /\ phase = "valid" => ranges' = add_range(OtherRanges, e.lo, op.size)

HeapServes ==
  /\ phase \in Evaluations /\ opnum \in DOMAIN trace /\ advance /\ UNCHANGED files
  /\ alloc' \in Ready
  /\ FreeServed \/ \E e : BlockServed(e)

(* No error is counted and the process goes on, or the trace asks for no   *)
(* bytes.                                                                  *)
Blameless == UNCHANGED errors /\ (phase' = "exit" => phase = "exit")
Justly    == tracenum \in 1 .. NumTraces /\ HasEmpty(files[tracenum]) /\ errors' \in {errors, errors + 1}

Safe      == alloc' \in States /\ (Blameless \/ Justly)
HeapMoves == Safe /\ (HeapStays \/ HeapRests \/ HeapStarts \/ HeapServes)

(* The size of a request is one the trace file asks for. *)
LEMMA SizeAsked ==
  ASSUME GoodFiles, ControlOK, NEW f \in Phases, NEW c \in {"a", "r"}, Running(f, c)
  PROVE  /\ op.size \in Nat /\ Asked(op.size) /\ tracenum \in 1 .. NumTraces
         /\ op.size = 0 => HasEmpty(files[tracenum])
<1>1. tracenum \in 1 .. NumTraces /\ opnum \in DOMAIN trace /\ op.cmd = c /\ op.size \in Int
  BY RunningFacts
<1>2. files[tracenum] \in TraceFiles
  BY <1>1 DEF ControlOK
<1>3. /\ opnum \in DOMAIN files[tracenum].ops /\ op = files[tracenum].ops[opnum]
      /\ files[tracenum].ops[opnum].cmd # "f"
  BY <1>1 DEF trace, op
<1>4. op.size >= 0
  BY <1>2, <1>3 DEF GoodFiles
<1>5. Asked(op.size)
  BY <1>2, <1>3 DEF Asked
<1>6. op.size = 0 => HasEmpty(files[tracenum])
  BY <1>3 DEF HasEmpty
<1> QED
  BY <1>1, <1>4, <1>5, <1>6

(* A trace that is measured asks for one byte or more every time. *)
LEMMA SizeMeasured ==
  ASSUME GoodFiles, ControlOK, PositiveOK, NEW f \in {"util", "speed"}, NEW c \in {"a", "r"}, Running(f, c)
  PROVE  op.size \in Nat /\ op.size > 0 /\ Asked(op.size)
<1>1. f \in Phases
  BY DEF Phases, Evaluations
<1> QED
  BY <1>1, SizeAsked, RunningSize

(* Payloads that were given out start at different addresses. *)
LEMMA OneByAddress ==
  ASSUME NEW A, Kept(A), NEW e \in Payloads(A), NEW f \in Payloads(A), e.lo = f.lo
  PROVE  e = f
<1>1. /\ e.lo \in Nat /\ e.hi \in Nat /\ e.lo <= e.hi
      /\ f.lo \in Nat /\ f.hi \in Nat /\ f.lo <= f.hi
  BY DEF Kept, Extents
<1>2. ~ Disjoint(e, f)
  BY <1>1 DEF Disjoint
<1> QED
  BY <1>2 DEF Kept

(* The old block of a request is a payload. *)
LEMMA OldIsPayload ==
  ASSUME ControlOK, HeapOK, NEW f \in Evaluations, NEW c \in {"r", "f"}, Running(f, c)
  PROVE  \E e \in Payloads(alloc) : blocks[op.id] = e.lo
<1>1. phase = f /\ op.id \in LiveIds /\ opnum > 0
  <2>1. f \in Phases
    BY DEF Phases
  <2> QED
    BY <2>1, RunningFacts
<1> QED
  BY <1>1 DEF HeapOK, Matches

(* mm_free of the old block, after mm_malloc gave the new one. *)
LEMMA FreeAfter ==
  ASSUME KeepsContract, NEW A, NEW n, NEW r, NEW e, IsGiven(A, n, r, e),
         NEW W \in Ready, Payloads(W) = Payloads(r.alloc), NEW f \in Payloads(A),
         NEW B \in mm_free(W, f.lo)
  PROVE  B \in Ready /\ Payloads(B) = {x \in Payloads(A) : x.lo # f.lo} \cup {e}
<1>1. f \in Payloads(W) /\ Payloads(W) = Payloads(A) \cup {e} /\ e.lo # f.lo
  BY DEF IsGiven
<1>2. TakesBack(W, f.lo, B)
  BY <1>1 DEF KeepsContract
<1> QED
  BY <1>1, <1>2 DEF TakesBack

(* memset within the payload given. *)
LEMMA FillGiven ==
  ASSUME KeepsContract, NEW A, NEW n \in Nat, n > 0, NEW r, NEW e, IsGiven(A, n, r, e), NEW i \in Ids
  PROVE  memset(r.alloc, r.p, n, i) \in Ready /\ Payloads(memset(r.alloc, r.p, n, i)) = Payloads(r.alloc)
<1>1. r.alloc \in Ready /\ e \in Payloads(r.alloc) /\ r.p = e.lo /\ e.lo + n - 1 <= e.hi
  BY DEF IsGiven
<1>2. \A m \in Nat \ {0} : \A j \in Ids : e.lo + m - 1 <= e.hi =>
            /\ memset(r.alloc, e.lo, m, j) \in Ready
            /\ Payloads(memset(r.alloc, e.lo, m, j)) = Payloads(r.alloc)
  BY <1>1 DEF KeepsContract
<1>3. n \in Nat \ {0}
  OBVIOUS
<1> QED
  BY <1>1, <1>2, <1>3

(* Reading a trace touches no payload.                                     *)
LEMMA HeapRead ==
  ASSUME GoodFiles, ControlOK, HeapOK, read_trace
  PROVE  HeapMoves
<1>1. files[tracenum] \in TraceFiles
  BY DEF read_trace, ControlOK
<1>2. HeaderHolds(files[tracenum])
  BY <1>1 DEF GoodFiles
<1>3. phase \notin Evaluations /\ phase # "exit" /\ UNCHANGED <<errors, alloc, ranges>>
  BY DEF read_trace, Evaluations, results
<1>4. enter(IF phase = "read" THEN "valid" ELSE "libc_valid")
  <2>1. tracenum \in 1 .. NumTraces
    BY DriverAssumption DEF read_trace, ControlOK
  <2>2. Len(trace) \in Nat /\ files[tracenum].ops = trace
    BY <2>1, TraceFacts DEF trace
  <2>3. ~ (Len(trace) > files[tracenum].num_ops)
    BY <1>2, <2>2 DEF HeaderHolds
  <2> QED
    BY <1>2, <2>3 DEF read_trace
<1>5. opnum' = 0 /\ phase' # "exit"
  BY <1>4 DEF enter
<1> QED
  BY <1>3, <1>5 DEF HeapMoves, Safe, Blameless, HeapRests, HeapOK

(* The libc passes touch no payload of the student's allocator, and fail   *)
(* only when a trace asks for no bytes.                                    *)
LEMMA HeapLibc ==
  ASSUME GoodFiles, ControlOK, CountOK, HeapOK, eval_libc
  PROVE  HeapMoves
<1>0. UNCHANGED <<alloc, ranges>> /\ alloc \in States
  BY DEF eval_libc, HeapOK
<1>a. Comparisons = {"libc_valid", "libc_speed"} /\ Evaluations = {"valid", "util", "speed"} /\ Comparisons \subseteq Phases
  BY DEF Comparisons, Evaluations, Phases
<1> DEFINE Fails == Justly /\ phase' = "exit"
           Goes  == UNCHANGED errors /\ phase \in Comparisons /\ phase' \in Comparisons \cup {"libc_read"}
<1>1. ASSUME NEW f \in Comparisons, NEW c \in {"a", "r"}, Running(f, c), libc_fails(f) PROVE Fails
  <2>1. op.size \in Nat /\ tracenum \in 1 .. NumTraces /\ (op.size = 0 => HasEmpty(files[tracenum]))
    BY <1>1, <1>a, SizeAsked
  <2> QED
    BY <1>1, <2>1 DEF libc_fails, MayFail, exit, Justly
<1>2. ASSUME NEW f \in Comparisons, Running(f, "a") \/ Running(f, "r"), NEW held, NEW p, libc_gives(held, p) PROVE Goes
  BY <1>2 DEF libc_gives, Running, advance
<1>3. ASSUME NEW f \in Comparisons, libc_enter(f) \/ libc_alloc(f) \/ libc_free(f)
      PROVE  Fails \/ Goes
  <2>1. CASE libc_alloc(f)
    <3>1. Running(f, "a") /\ (libc_fails(f) \/ libc_gives(libc, Unused(libc)))
      BY <2>1 DEF libc_alloc
    <3> HIDE DEF Fails, Goes
    <3> QED
      BY <1>1, <1>2, <3>1
  <2> QED
    BY <1>3, <2>1 DEF libc_enter, libc_free, Running, advance
<1>4. ASSUME libc_valid_realloc PROVE Fails \/ Goes
  <2> DEFINE rest == libc \ {blocks[op.id]}
  <2>1. Running("libc_valid", "r") /\ (libc_fails("libc_valid") \/ libc_gives(rest, Unused(rest)))
    BY <1>4 DEF libc_valid_realloc
  <2> HIDE DEF rest, Fails, Goes
  <2> QED
    BY <1>1, <1>2, <1>a, <2>1
<1>5. ASSUME libc_speed_realloc PROVE Fails \/ Goes
  <2> DEFINE rest == libc \ {blocks[op.id]}
  <2>1. Running("libc_speed", "r") /\ (libc_fails("libc_speed") \/ libc_gives(rest, Unused(libc)))
    BY <1>5 DEF libc_speed_realloc
  <2> HIDE DEF rest, Fails, Goes
  <2> QED
    BY <1>1, <1>2, <1>a, <2>1
<1>6. ASSUME libc_exit PROVE Goes
  BY <1>6, <1>a DEF libc_exit, AtEnd, enter, next_trace
<1> HIDE DEF Fails, Goes
<1>7. Fails \/ Goes
  BY <1>3, <1>4, <1>5, <1>6, <1>a DEF eval_libc
<1>8. CASE Fails
  BY <1>0, <1>8, <1>a DEF Fails, HeapMoves, Safe, HeapRests
<1>9. CASE Goes
  <2>1. UNCHANGED errors /\ phase \notin Evaluations /\ phase # "exit" /\ phase' \notin Evaluations \cup {"exit"}
    BY <1>9, <1>a DEF Goes
  <2> QED
    BY <1>0, <2>1 DEF HeapMoves, Safe, Blameless, HeapRests, HeapOK
<1> QED
  BY <1>7, <1>8, <1>9

(* mm_init succeeds. *)
LEMMA HeapInit ==
  ASSUME KeepsContract, HeapOK, NEW r \in mm_init(alloc)
  PROVE  /\ r.ok /\ r.alloc \in Ready /\ r.alloc \in States /\ Payloads(r.alloc) = {}
         /\ Mapped(alloc) = {} => Mapped(r.alloc) = {}
BY DEF KeepsContract, HeapOK

(* Every payload of the heap's state has ends. *)
LEMMA PayloadEnds ==
  ASSUME KeepsContract, alloc \in Ready
  PROVE  Kept(alloc) /\ \A f \in Payloads(alloc) : f.lo \in Nat /\ f.hi \in Nat /\ f.lo <= f.hi
BY DEF KeepsContract, Kept, Extents

(* An allocator that an evaluation has initialised. *)
LEMMA IsReady ==
  ASSUME ControlOK, HeapOK, NEW f \in Evaluations, NEW c, Running(f, c)
  PROVE  alloc \in Ready /\ phase = f /\ opnum > 0
<1>1. phase = f /\ opnum > 0
  BY RunningFacts DEF Phases
<1> QED
  BY <1>1 DEF HeapOK

(* So is one whose trace is at its end. *)
LEMMA AtEndReady ==
  ASSUME ControlOK, HeapOK, NEW f \in Evaluations, AtEnd(f)
  PROVE  alloc \in Ready
<1>1. phase = f /\ opnum = Len(trace) + 1 /\ tracenum \in 1 .. NumTraces
  BY DEF AtEnd, ControlOK, Phases
<1>2. Len(trace) \in Nat
  BY <1>1, TraceFacts
<1> QED
  BY <1>1, <1>2 DEF HeapOK

(* The list that add_range looks at lies in the payloads. *)
LEMMA ListWithin ==
  ASSUME KeepsContract, ControlOK, MemoryOK, HeapOK, NEW c \in {"a", "r"}, Running("valid", c)
  PROVE  Within(OtherRanges, Payloads(alloc))
<1>0. "valid" \in Phases /\ "valid" \in Evaluations /\ "valid" \in {"valid", "util"}
  BY DEF Phases, Evaluations
<1>1. phase = "valid" /\ opnum > 0 /\ op.cmd = c /\ op.id \in Ids /\ (c = "r" => op.id \in LiveIds)
  BY <1>0, RunningFacts
<1>2. /\ Matches(blocks, LiveIds, Payloads(alloc))
      /\ Covered(blocks, block_sizes, LiveIds, Payloads(alloc))
      /\ RangesMatch(ranges, blocks, block_sizes, LiveIds)
  BY <1>0, <1>1 DEF HeapOK
<1>3. IsFiniteSet(LiveIds) /\ \A i \in LiveIds : blocks[i] \in Nat
  BY LiveFinite DEF MemoryOK, ArraysOK
<1>4. CASE c = "a"
  BY <1>1, <1>2, <1>3, <1>4, RangesWithin DEF OtherRanges
<1>5. CASE c = "r"
  <2> DEFINE rest == remove_range(ranges, blocks[op.id])
             live == LiveIds \ {op.id}
  <2>1. op.id \in LiveIds
    BY <1>1, <1>5
  <2>2. RangesMatch(rest, blocks, block_sizes, live)
    BY <1>2, <1>3, <2>1, RangesTake
  <2>3. Covered(blocks, block_sizes, live, Payloads(alloc)) /\ \A i \in live : blocks[i] \in Nat
    BY <1>2, <1>3 DEF Covered
  <2> HIDE DEF rest, live
  <2>4. Within(rest, Payloads(alloc))
    BY <2>2, <2>3, RangesWithin
  <2> QED
    BY <1>1, <1>5, <2>4 DEF OtherRanges, rest
<1> QED
  BY <1>4, <1>5

(* What mm_malloc returned for one byte or more is neither NULL nor        *)
(* refused.                                                                *)
LEMMA NeverRefused ==
  ASSUME KeepsContract, GoodFiles, ControlOK, MemoryOK, HeapOK,
         NEW c \in {"a", "r"}, Running("valid", c), op.size # 0, NEW r \in mm_malloc(alloc, op.size)
  PROVE  /\ ~ Refused(OtherRanges, r) /\ ~ assert_fails(r)
         /\ op.size \in Nat /\ op.size > 0
         /\ \E e : IsGiven(alloc, op.size, r, e)
<1>0. "valid" \in Phases /\ "valid" \in Evaluations
  BY DEF Phases, Evaluations
<1>1. op.size \in Nat /\ op.size > 0 /\ Asked(op.size) /\ alloc \in Ready
  BY <1>0, SizeAsked, IsReady
<1>2. PICK e : IsGiven(alloc, op.size, r, e)
  BY <1>1, MallocGives
<1>3. Within(OtherRanges, Payloads(alloc))
  BY ListWithin
<1>4. \A f \in Payloads(alloc) : f.hi \in Nat
  BY <1>1, PayloadEnds
<1>5. Accepts(OtherRanges, r.alloc, r.p, op.size)
  <2> DEFINE n == op.size
             R == OtherRanges
  <2>1. n \in Nat /\ n > 0 /\ IsGiven(alloc, n, r, e) /\ Within(R, Payloads(alloc))
    BY <1>1, <1>2, <1>3
  <2> HIDE DEF n, R
  <2>2. Accepts(R, r.alloc, r.p, n)
    BY <1>4, <2>1, GivenAccepted
  <2> QED
    BY <2>2 DEF n, R
<1>6. r.p # NULL
  BY <1>2 DEF IsGiven
<1> QED
  BY <1>1, <1>2, <1>5, <1>6 DEF Refused, assert_fails

(* For no bytes mm_malloc returns NULL, as the trace deserves. *)
LEMMA EmptyFails ==
  ASSUME KeepsContract, GoodFiles, ControlOK, HeapOK,
         NEW c \in {"a", "r"}, Running("valid", c), op.size = 0, NEW r \in mm_malloc(alloc, op.size)
  PROVE  /\ r.p = NULL /\ r.alloc \in States /\ ~ assert_fails(r)
         /\ tracenum \in 1 .. NumTraces /\ HasEmpty(files[tracenum])
<1>0. "valid" \in Phases /\ "valid" \in Evaluations
  BY DEF Phases, Evaluations
<1>1. Asked(0) /\ tracenum \in 1 .. NumTraces /\ HasEmpty(files[tracenum]) /\ alloc \in Ready
  BY <1>0, SizeAsked, IsReady
<1>2. r.p = NULL /\ r.alloc \in States
  BY <1>1 DEF KeepsContract
<1> QED
  BY <1>1, <1>2 DEF assert_fails

(* A trace that fails is left, with an error. *)
LEMMA FailRests ==
  ASSUME CountOK, valid_fail, alloc' \in States, UNCHANGED ranges,
         tracenum \in 1 .. NumTraces, HasEmpty(files[tracenum])
  PROVE  HeapMoves
<1>1. errors' = errors + 1 /\ errors' # 0 /\ phase' = "read" /\ opnum' = 0
  BY DEF valid_fail, CountOK, next_trace
<1> QED
  BY <1>1 DEF HeapMoves, Safe, Justly, HeapRests

(* A payload that was given for a request is served. *)
LEMMA GivenServed ==
  ASSUME KeepsContract, ControlOK, HeapOK, UNCHANGED files, op.size \in Nat, op.size > 0,
         NEW f \in Evaluations, NEW c \in {"a", "r"}, Running(f, c), advance,
         NEW r, NEW e, IsGiven(alloc, op.size, r, e),
         NEW W \in Ready, Payloads(W) = Payloads(r.alloc),
         c = "a" => alloc' = W,
         c = "r" => alloc' \in mm_free(W, blocks[op.id]),
         blocks' = [blocks EXCEPT ![op.id] = r.p],
         block_sizes' = IF phase = "speed" THEN block_sizes ELSE [block_sizes EXCEPT ![op.id] = op.size],
         phase = "valid" => ranges' = add_range(OtherRanges, r.p, op.size)
  PROVE  alloc' \in States /\ HeapServes
<1>0. f \in Phases
  BY DEF Phases
<1>1. phase = f /\ opnum \in DOMAIN trace /\ op.cmd = c
  BY <1>0, RunningFacts
<1>3. r.p = e.lo /\ e.lo \in Nat /\ e.lo + op.size - 1 <= e.hi /\ \A x \in Payloads(alloc) : x.lo # e.lo
  BY DEF IsGiven
<1>4. \A x \in OtherPayloads : x.lo # e.lo
  BY <1>3 DEF OtherPayloads
<1>5. alloc' \in Ready /\ Payloads(alloc') = OtherPayloads \cup {e}
  <2>1. CASE c = "a"
    BY <1>1, <2>1 DEF OtherPayloads, IsGiven
  <2>2. CASE c = "r"
    <3>1. PICK x \in Payloads(alloc) : blocks[op.id] = x.lo
      BY <2>2, OldIsPayload
    <3>2. alloc' \in mm_free(W, x.lo)
      BY <2>2, <3>1
    <3>3. alloc' \in Ready /\ Payloads(alloc') = {y \in Payloads(alloc) : y.lo # x.lo} \cup {e}
      BY <3>2, FreeAfter
    <3> QED
      BY <1>1, <2>2, <3>1, <3>3 DEF OtherPayloads
  <2> QED
    BY <2>1, <2>2
<1>6. BlockServed(e)
  BY <1>1, <1>3, <1>4, <1>5 DEF BlockServed
<1> QED
  BY <1>1, <1>5, <1>6 DEF HeapServes, KeepsContract

(* A block that is freed is served. *)
LEMMA FreeServes ==
  ASSUME KeepsContract, ControlOK, HeapOK, UNCHANGED files, NEW f \in Evaluations, Running(f, "f"), advance,
         alloc' \in mm_free(alloc, blocks[op.id]), UNCHANGED <<blocks, block_sizes>>,
         phase = "valid" => ranges' = remove_range(ranges, blocks[op.id])
  PROVE  alloc' \in States /\ HeapServes
<1>1. phase = f /\ opnum \in DOMAIN trace /\ op.cmd = "f"
  BY RunningFacts DEF Phases
<1>2. PICK x \in Payloads(alloc) : blocks[op.id] = x.lo
  BY OldIsPayload
<1>3. TakesBack(alloc, x.lo, alloc')
  BY <1>2, IsReady DEF KeepsContract
<1>4. FreeServed
  BY <1>1, <1>2, <1>3 DEF FreeServed, TakesBack, OtherPayloads, OtherRanges
<1> QED
  BY <1>1, <1>3, <1>4 DEF HeapServes, TakesBack, KeepsContract

(* An evaluation's function enters. *)
LEMMA HeapEnters ==
  ASSUME KeepsContract, HeapOK, phase \in Evaluations, opnum = 0, UNCHANGED <<files, errors>>, advance,
         NEW r \in mm_init(alloc), alloc' = r.alloc, phase = "valid" => ranges' = <<>>
  PROVE  alloc' \in States /\ HeapStarts
<1>1. /\ alloc' \in Ready /\ alloc' \in States /\ Payloads(alloc') = {}
      /\ Mapped(alloc) = {} => Mapped(alloc') = {}
  BY HeapInit
<1> QED
  BY <1>1 DEF HeapStarts, advance

(* Every step of eval_mm_valid serves a request, stops before one, or      *)
(* starts from an empty heap; it records no error.                         *)
LEMMA HeapValid ==
  ASSUME KeepsContract, GoodFiles, ControlOK, MemoryOK, CountOK, HeapOK, eval_mm_valid
  PROVE  HeapMoves
<1>0. /\ "valid" \in Evaluations /\ Evaluations = {"valid", "util", "speed"}
      /\ UNCHANGED files /\ alloc \in States
  BY DEF Evaluations, eval_mm_valid, HeapOK
<1>1. CASE valid_enter
  <2>1. phase = "valid" /\ opnum = 0 /\ ranges' = <<>>
    BY <1>1 DEF valid_enter
  <2>2. PICK r \in mm_init(alloc) :
          /\ alloc' = r.alloc
          /\ IF r.ok THEN advance /\ UNCHANGED <<blocks, block_sizes, errors>> ELSE valid_fail
    BY <1>1 DEF valid_enter
  <2>3. r.ok
    BY <1>0, <2>1, HeapInit
  <2>4. advance /\ UNCHANGED errors
    BY <2>2, <2>3
  <2>5. alloc' \in States /\ HeapStarts
    BY <1>0, <2>1, <2>2, <2>4, HeapEnters
  <2> QED
    BY <1>0, <2>1, <2>4, <2>5 DEF HeapMoves, Safe, Blameless, advance
<1>2. CASE valid_alloc
  <2>1. Running("valid", "a") /\ phase = "valid" /\ op.cmd = "a"
    BY <1>2 DEF valid_alloc, Running
  <2>2. PICK r \in mm_malloc(alloc, op.size) :
          \/ alloc' = r.alloc /\ assert_fails(r) /\ UNCHANGED ranges
          \/ alloc' = r.alloc /\ Refused(ranges, r) /\ valid_fail /\ UNCHANGED ranges
          \/ /\ Remember(r.p)
             /\ Served(ranges, r)
             /\ ranges' = add_range(ranges, r.p, op.size)
             /\ alloc' = memset(r.alloc, r.p, op.size, op.id)
             /\ advance /\ UNCHANGED errors
    BY <1>2 DEF valid_alloc
  <2>3. OtherRanges = ranges
    BY <2>1 DEF OtherRanges
  <2>a. CASE op.size = 0
    <3>1. r.p = NULL /\ r.alloc \in States /\ ~ assert_fails(r) /\ tracenum \in 1 .. NumTraces /\ HasEmpty(files[tracenum])
      BY <2>1, <2>a, EmptyFails
    <3>2. alloc' = r.alloc /\ valid_fail /\ UNCHANGED ranges
      BY <2>2, <3>1 DEF Served
    <3> QED
      BY <3>1, <3>2, FailRests
  <2> SUFFICES ASSUME op.size # 0 PROVE HeapMoves
    BY <2>a
  <2>4. ~ Refused(ranges, r) /\ ~ assert_fails(r)
    BY <2>1, <2>3, NeverRefused
  <2>5. PICK e : IsGiven(alloc, op.size, r, e)
    BY <2>1, NeverRefused
  <2>6. /\ Remember(r.p) /\ ranges' = add_range(OtherRanges, r.p, op.size)
        /\ alloc' = memset(r.alloc, r.p, op.size, op.id)
        /\ advance /\ UNCHANGED errors
    BY <2>2, <2>3, <2>4
  <2>7. op.size \in Nat /\ op.size > 0 /\ op.id \in Ids
    BY <1>0, <2>1, NeverRefused, RunningFacts DEF Phases
  <2>8. alloc' \in Ready /\ Payloads(alloc') = Payloads(r.alloc)
    <3> DEFINE n == op.size
               i == op.id
    <3>1. n \in Nat /\ n > 0 /\ i \in Ids /\ IsGiven(alloc, n, r, e)
      BY <2>5, <2>7
    <3> HIDE DEF n, i
    <3>2. memset(r.alloc, r.p, n, i) \in Ready /\ Payloads(memset(r.alloc, r.p, n, i)) = Payloads(r.alloc)
      BY <3>1, FillGiven
    <3> QED
      BY <2>6, <3>2 DEF n, i
  <2>9. /\ blocks' = [blocks EXCEPT ![op.id] = r.p]
        /\ block_sizes' = IF phase = "speed" THEN block_sizes ELSE [block_sizes EXCEPT ![op.id] = op.size]
    BY <2>1, <2>6 DEF Remember
  <2> DEFINE W == alloc'
  <2>10. W \in Ready /\ Payloads(W) = Payloads(r.alloc) /\ alloc' = W
    BY <2>8
  <2> HIDE DEF W
  <2>11. alloc' \in States /\ HeapServes
    BY <1>0, <2>1, <2>5, <2>6, <2>7, <2>9, <2>10, GivenServed
  <2> QED
    BY <1>0, <2>6, <2>11 DEF HeapMoves, Safe, Blameless, advance
<1>3. CASE valid_realloc
  <2>1. Running("valid", "r") /\ phase = "valid" /\ op.cmd = "r"
    BY <1>3 DEF valid_realloc, Running
  <2>2. OtherRanges = remove_range(ranges, blocks[op.id])
    BY <2>1 DEF OtherRanges
  <2>3. PICK r \in mm_malloc(alloc, op.size) :
          \/ assert_fails(r)
          \/ /\ alloc' = r.alloc /\ Refused(OtherRanges, r) /\ valid_fail
             /\ ranges' = IF r.p = NULL THEN ranges ELSE OtherRanges
          \/ /\ Remember(r.p)
             /\ Served(OtherRanges, r)
             /\ ranges' = add_range(OtherRanges, r.p, op.size)
             /\ alloc' \in mm_free(memset(r.alloc, r.p, op.size, op.id), blocks[op.id])
             /\ advance /\ UNCHANGED errors
    BY <1>3, <2>2 DEF valid_realloc
  <2>a. CASE op.size = 0
    <3>1. r.p = NULL /\ r.alloc \in States /\ ~ assert_fails(r) /\ tracenum \in 1 .. NumTraces /\ HasEmpty(files[tracenum])
      BY <2>1, <2>a, EmptyFails
    <3>2. alloc' = r.alloc /\ valid_fail /\ UNCHANGED ranges
      BY <2>3, <3>1 DEF Served
    <3> QED
      BY <3>1, <3>2, FailRests
  <2> SUFFICES ASSUME op.size # 0 PROVE HeapMoves
    BY <2>a
  <2>4. ~ Refused(OtherRanges, r) /\ ~ assert_fails(r)
    BY <2>1, NeverRefused
  <2>5. PICK e : IsGiven(alloc, op.size, r, e)
    BY <2>1, NeverRefused
  <2>6. /\ Remember(r.p) /\ ranges' = add_range(OtherRanges, r.p, op.size)
        /\ alloc' \in mm_free(memset(r.alloc, r.p, op.size, op.id), blocks[op.id])
        /\ advance /\ UNCHANGED errors
    BY <2>3, <2>4
  <2>7. op.size \in Nat /\ op.size > 0 /\ op.id \in Ids
    BY <1>0, <2>1, NeverRefused, RunningFacts DEF Phases
  <2> DEFINE W == memset(r.alloc, r.p, op.size, op.id)
  <2>8. W \in Ready /\ Payloads(W) = Payloads(r.alloc)
    <3> DEFINE n == op.size
               i == op.id
    <3>1. n \in Nat /\ n > 0 /\ i \in Ids /\ IsGiven(alloc, n, r, e)
      BY <2>5, <2>7
    <3> HIDE DEF n, i
    <3>2. memset(r.alloc, r.p, n, i) \in Ready /\ Payloads(memset(r.alloc, r.p, n, i)) = Payloads(r.alloc)
      BY <3>1, FillGiven
    <3> QED
      BY <3>2 DEF n, i
  <2>9. /\ blocks' = [blocks EXCEPT ![op.id] = r.p]
        /\ block_sizes' = IF phase = "speed" THEN block_sizes ELSE [block_sizes EXCEPT ![op.id] = op.size]
    BY <2>1, <2>6 DEF Remember
  <2>10. alloc' \in mm_free(W, blocks[op.id])
    BY <2>6
  <2> HIDE DEF W
  <2>11. alloc' \in States /\ HeapServes
    BY <1>0, <2>1, <2>5, <2>6, <2>7, <2>8, <2>9, <2>10, GivenServed
  <2> QED
    BY <1>0, <2>6, <2>11 DEF HeapMoves, Safe, Blameless, advance
<1>4. CASE valid_free
  <2>1. /\ Running("valid", "f") /\ ranges' = remove_range(ranges, blocks[op.id])
        /\ alloc' \in mm_free(alloc, blocks[op.id])
        /\ advance /\ UNCHANGED <<blocks, block_sizes, errors>>
    BY <1>4 DEF valid_free
  <2>2. alloc' \in States /\ HeapServes
    BY <1>0, <2>1, FreeServes
  <2> QED
    BY <1>0, <2>1, <2>2 DEF HeapMoves, Safe, Blameless, advance
<1>5. CASE valid_exit
  <2>1. opnum' = 0 /\ phase' = "util" /\ alloc' = mem_reset(alloc) /\ UNCHANGED <<errors, ranges>>
    BY <1>5 DEF valid_exit, enter
  <2>2. alloc' \in States /\ Mapped(alloc') = {}
    BY <1>0, <1>5, <2>1, AtEndReady DEF KeepsContract, valid_exit
  <2> QED
    BY <1>0, <2>1, <2>2 DEF HeapMoves, Safe, Blameless, HeapRests
<1> QED
  BY <1>1, <1>2, <1>3, <1>4, <1>5 DEF eval_mm_valid

(* Every step of eval_mm_util does the same with the arrays alone.         *)
LEMMA HeapUtil ==
  ASSUME KeepsContract, GoodFiles, ControlOK, PositiveOK, HeapOK, eval_mm_util
  PROVE  HeapMoves
<1>0. /\ "util" \in Evaluations /\ "util" \in Phases /\ Evaluations = {"valid", "util", "speed"}
      /\ UNCHANGED <<files, errors, ranges>> /\ alloc \in States
  BY DEF Evaluations, Phases, eval_mm_util, HeapOK
<1>1. CASE util_enter
  <2>1. PICK r \in mm_init(alloc) : alloc' = r.alloc /\ (IF r.ok THEN advance ELSE exit)
    BY <1>1 DEF util_enter
  <2>2. phase = "util" /\ opnum = 0
    BY <1>1 DEF util_enter
  <2>3. advance
    BY <1>0, <2>1, <2>2, HeapInit
  <2>4. alloc' \in States /\ HeapStarts
    BY <1>0, <2>1, <2>2, <2>3, HeapEnters
  <2> QED
    BY <1>0, <2>2, <2>3, <2>4 DEF HeapMoves, Safe, Blameless, advance
<1>a. ASSUME NEW c \in {"a", "r"}, Running("util", c), NEW r \in mm_malloc(alloc, op.size)
      PROVE  ~ app_error(r) /\ op.size \in Nat /\ op.size > 0 /\ \E e : IsGiven(alloc, op.size, r, e)
  <2>1. op.size \in Nat /\ op.size > 0 /\ Asked(op.size) /\ alloc \in Ready
    BY <1>0, <1>a, SizeMeasured, IsReady
  <2>2. PICK e : IsGiven(alloc, op.size, r, e)
    BY <1>0, <2>1, MallocGives
  <2> QED
    BY <2>1, <2>2 DEF IsGiven, app_error
<1>2. CASE util_alloc
  <2>1. Running("util", "a") /\ phase = "util"
    BY <1>2 DEF util_alloc, Running
  <2>2. PICK r \in mm_malloc(alloc, op.size) :
          app_error(r) \/ (Remember(r.p) /\ alloc' = r.alloc /\ advance)
    BY <1>2 DEF util_alloc
  <2>3. PICK e : IsGiven(alloc, op.size, r, e)
    BY <1>a, <2>1
  <2>4. Remember(r.p) /\ alloc' = r.alloc /\ advance
    BY <1>a, <2>1, <2>2
  <2>5. /\ blocks' = [blocks EXCEPT ![op.id] = r.p]
        /\ block_sizes' = IF phase = "speed" THEN block_sizes ELSE [block_sizes EXCEPT ![op.id] = op.size]
    BY <2>1, <2>4 DEF Remember
  <2> DEFINE W == r.alloc
  <2>6. W \in Ready /\ Payloads(W) = Payloads(r.alloc) /\ alloc' = W
    BY <2>3, <2>4 DEF IsGiven
  <2> HIDE DEF W
  <2>7. alloc' \in States /\ HeapServes
    BY <1>0, <1>a, <2>1, <2>3, <2>4, <2>5, <2>6, GivenServed
  <2> QED
    BY <1>0, <2>1, <2>4, <2>7 DEF HeapMoves, Safe, Blameless, advance
<1>3. CASE util_realloc
  <2>1. Running("util", "r") /\ phase = "util"
    BY <1>3 DEF util_realloc, Running
  <2>2. PICK r \in mm_malloc(alloc, op.size) :
          app_error(r) \/ (Remember(r.p) /\ alloc' \in mm_free(r.alloc, blocks[op.id]) /\ advance)
    BY <1>3 DEF util_realloc
  <2>3. PICK e : IsGiven(alloc, op.size, r, e)
    BY <1>a, <2>1
  <2>4. Remember(r.p) /\ alloc' \in mm_free(r.alloc, blocks[op.id]) /\ advance
    BY <1>a, <2>1, <2>2
  <2>5. /\ blocks' = [blocks EXCEPT ![op.id] = r.p]
        /\ block_sizes' = IF phase = "speed" THEN block_sizes ELSE [block_sizes EXCEPT ![op.id] = op.size]
    BY <2>1, <2>4 DEF Remember
  <2> DEFINE W == r.alloc
  <2>6. W \in Ready /\ Payloads(W) = Payloads(r.alloc) /\ alloc' \in mm_free(W, blocks[op.id])
    BY <2>3, <2>4 DEF IsGiven
  <2> HIDE DEF W
  <2>7. alloc' \in States /\ HeapServes
    BY <1>0, <1>a, <2>1, <2>3, <2>4, <2>5, <2>6, GivenServed
  <2> QED
    BY <1>0, <2>1, <2>4, <2>7 DEF HeapMoves, Safe, Blameless, advance
<1>4. CASE util_free
  <2>1. /\ Running("util", "f") /\ phase = "util"
        /\ alloc' \in mm_free(alloc, blocks[op.id]) /\ advance /\ UNCHANGED <<blocks, block_sizes>>
    BY <1>4 DEF util_free, Running
  <2>2. alloc' \in States /\ HeapServes
    BY <1>0, <2>1, FreeServes
  <2> QED
    BY <1>0, <2>1, <2>2 DEF HeapMoves, Safe, Blameless, advance
<1>5. CASE util_exit
  <2>1. opnum' = 0 /\ phase' = "speed" /\ alloc' = mem_reset(alloc)
    BY <1>5 DEF util_exit, enter
  <2>2. alloc' \in States /\ Mapped(alloc') = {}
    BY <1>0, <1>5, <2>1, AtEndReady DEF KeepsContract, util_exit
  <2> QED
    BY <1>0, <2>1, <2>2 DEF HeapMoves, Safe, Blameless, HeapRests
<1> QED
  BY <1>1, <1>2, <1>3, <1>4, <1>5 DEF eval_mm_util

(* Every step of eval_mm_speed does the same with the addresses alone.     *)
LEMMA HeapSpeed ==
  ASSUME KeepsContract, GoodFiles, ControlOK, PositiveOK, HeapOK, eval_mm_speed
  PROVE  HeapMoves
<1>0. /\ "speed" \in Evaluations /\ "speed" \in Phases /\ Evaluations = {"valid", "util", "speed"}
      /\ UNCHANGED <<files, errors, block_sizes, ranges>> /\ alloc \in States
  BY DEF Evaluations, Phases, eval_mm_speed, HeapOK, results
<1>1. CASE speed_enter
  <2>1. PICK r \in mm_init(alloc) : alloc' = r.alloc /\ (IF r.ok THEN advance ELSE exit)
    BY <1>1 DEF speed_enter
  <2>2. phase = "speed" /\ opnum = 0
    BY <1>1 DEF speed_enter
  <2>3. advance
    BY <1>0, <2>1, <2>2, HeapInit
  <2>4. alloc' \in States /\ HeapStarts
    BY <1>0, <2>1, <2>2, <2>3, HeapEnters
  <2> QED
    BY <1>0, <2>2, <2>3, <2>4 DEF HeapMoves, Safe, Blameless, advance
<1>a. ASSUME NEW c \in {"a", "r"}, Running("speed", c), NEW r \in mm_malloc(alloc, op.size)
      PROVE  ~ speed_error(r) /\ op.size \in Nat /\ op.size > 0 /\ \E e : IsGiven(alloc, op.size, r, e)
  <2>1. op.size \in Nat /\ op.size > 0 /\ Asked(op.size) /\ alloc \in Ready
    BY <1>0, <1>a, SizeMeasured, IsReady
  <2>2. PICK e : IsGiven(alloc, op.size, r, e)
    BY <1>0, <2>1, MallocGives
  <2> QED
    BY <2>1, <2>2 DEF IsGiven, speed_error
<1>2. CASE speed_alloc
  <2>1. Running("speed", "a") /\ phase = "speed"
    BY <1>2 DEF speed_alloc, Running
  <2>2. PICK r \in mm_malloc(alloc, op.size) :
          speed_error(r) \/ (blocks' = [blocks EXCEPT ![op.id] = r.p] /\ alloc' = r.alloc /\ advance)
    BY <1>2 DEF speed_alloc
  <2>3. PICK e : IsGiven(alloc, op.size, r, e)
    BY <1>a, <2>1
  <2>4. blocks' = [blocks EXCEPT ![op.id] = r.p] /\ alloc' = r.alloc /\ advance
    BY <1>a, <2>1, <2>2
  <2>5. block_sizes' = IF phase = "speed" THEN block_sizes ELSE [block_sizes EXCEPT ![op.id] = op.size]
    BY <1>0, <2>1
  <2> DEFINE W == r.alloc
  <2>6. W \in Ready /\ Payloads(W) = Payloads(r.alloc) /\ alloc' = W
    BY <2>3, <2>4 DEF IsGiven
  <2> HIDE DEF W
  <2>7. alloc' \in States /\ HeapServes
    BY <1>0, <1>a, <2>1, <2>3, <2>4, <2>5, <2>6, GivenServed
  <2> QED
    BY <1>0, <2>1, <2>4, <2>7 DEF HeapMoves, Safe, Blameless, advance
<1>3. CASE speed_realloc
  <2>1. Running("speed", "r") /\ phase = "speed"
    BY <1>3 DEF speed_realloc, Running
  <2>2. PICK r \in mm_malloc(alloc, op.size) :
          \/ speed_error(r)
          \/ /\ blocks' = [blocks EXCEPT ![op.id] = r.p]
             /\ alloc' \in mm_free(r.alloc, blocks[op.id]) /\ advance
    BY <1>3 DEF speed_realloc
  <2>3. PICK e : IsGiven(alloc, op.size, r, e)
    BY <1>a, <2>1
  <2>4. blocks' = [blocks EXCEPT ![op.id] = r.p] /\ alloc' \in mm_free(r.alloc, blocks[op.id]) /\ advance
    BY <1>a, <2>1, <2>2
  <2>5. block_sizes' = IF phase = "speed" THEN block_sizes ELSE [block_sizes EXCEPT ![op.id] = op.size]
    BY <1>0, <2>1
  <2> DEFINE W == r.alloc
  <2>6. W \in Ready /\ Payloads(W) = Payloads(r.alloc) /\ alloc' \in mm_free(W, blocks[op.id])
    BY <2>3, <2>4 DEF IsGiven
  <2> HIDE DEF W
  <2>7. alloc' \in States /\ HeapServes
    BY <1>0, <1>a, <2>1, <2>3, <2>4, <2>5, <2>6, GivenServed
  <2> QED
    BY <1>0, <2>1, <2>4, <2>7 DEF HeapMoves, Safe, Blameless, advance
<1>4. CASE speed_free
  <2>1. /\ Running("speed", "f") /\ phase = "speed"
        /\ alloc' \in mm_free(alloc, blocks[op.id]) /\ advance /\ UNCHANGED <<blocks, block_sizes>>
    BY <1>0, <1>4 DEF speed_free, Running
  <2>2. alloc' \in States /\ HeapServes
    BY <1>0, <2>1, FreeServes
  <2> QED
    BY <1>0, <2>1, <2>2 DEF HeapMoves, Safe, Blameless, advance
<1>5. CASE speed_exit
  <2>1. opnum' = 0 /\ phase' \in {"speed", "read"} /\ alloc' = mem_reset(alloc)
    BY <1>5 DEF speed_exit, next_trace, AtEnd
  <2>2. alloc' \in States /\ Mapped(alloc') = {}
    BY <1>0, <1>5, <2>1, AtEndReady DEF KeepsContract, speed_exit
  <2> QED
    BY <1>0, <2>1, <2>2 DEF HeapMoves, Safe, Blameless, HeapRests
<1> QED
  BY <1>1, <1>2, <1>3, <1>4, <1>5 DEF eval_mm_speed

(* Every step leaves the heap alone, empties it, or serves a request; none *)
(* ends the process early or counts an error.                              *)
LEMMA NextHeap ==
  ASSUME KeepsContract, GoodFiles, ControlOK, PositiveOK, MemoryOK, CountOK, HeapOK, [Next]_vars
  PROVE  HeapMoves
<1>1. CASE libc_done \/ report
  <2>1. phase \notin Evaluations \cup {"exit"} /\ phase' \in {"read", "done"} /\ UNCHANGED <<alloc, errors, ranges>>
    BY <1>1 DEF libc_done, report, results, Evaluations
  <2> QED
    BY <2>1 DEF HeapMoves, Safe, Blameless, HeapRests, HeapOK, Evaluations
<1>2. CASE UNCHANGED vars
  BY <1>2 DEF HeapMoves, Safe, Blameless, HeapStays, HeapOK, vars, control, results
<1> QED
  BY <1>1, <1>2, HeapRead, HeapLibc, HeapValid, HeapUtil, HeapSpeed DEF Next, Terminating

OtherIds == IF op.cmd = "a" THEN LiveIds ELSE LiveIds \ {op.id}

(* The request's own id and payload apart, all match. *)
LEMMA OthersMatch ==
  ASSUME ControlOK, HeapOK, phase \in Evaluations, opnum \in DOMAIN trace
  PROVE  /\ op.id \in Ids \ OtherIds /\ OtherIds \in SUBSET Ids /\ IsFiniteSet(OtherIds)
         /\ tracenum \in 1 .. NumTraces /\ opnum \in Nat /\ opnum > 0 /\ op.cmd \in {"a", "r", "f"}
         /\ Matches(blocks, OtherIds, OtherPayloads)
         /\ phase \in {"valid", "util"} => Covered(blocks, block_sizes, OtherIds, OtherPayloads)
         /\ phase = "valid" => RangesMatch(OtherRanges, blocks, block_sizes, OtherIds)
<1>1. Running(phase, op.cmd) /\ phase \in Phases
  BY DEF Running, Phases
<1>2. /\ tracenum \in 1 .. NumTraces /\ opnum \in Nat \ {0} /\ op.id \in Ids
      /\ IF op.cmd = "a" THEN op.id \notin LiveIds ELSE op.id \in LiveIds
  <2> DEFINE f == phase
             c == op.cmd
  <2>1. f \in Phases /\ Running(f, c)
    BY <1>1
  <2> HIDE DEF f, c
  <2>2. /\ tracenum \in 1 .. NumTraces /\ op.id \in Ids /\ opnum \in Nat \ {0}
        /\ IF c = "a" THEN op.id \notin LiveIds ELSE op.id \in LiveIds
    BY <2>1, RunningFacts
  <2> QED
    BY <2>2 DEF c
<1>3. op.cmd \in {"a", "r", "f"}
  BY <1>2, TraceFacts DEF op, Request
<1>4. IsFiniteSet(LiveIds) /\ LiveIds \subseteq Ids
  BY LiveFinite
<1>5. OtherIds \in SUBSET Ids /\ IsFiniteSet(OtherIds) /\ op.id \notin OtherIds
  BY <1>2, <1>4, FS_RemoveElement DEF OtherIds
<1>6. /\ Matches(blocks, LiveIds, Payloads(alloc))
      /\ phase \in {"valid", "util"} => Covered(blocks, block_sizes, LiveIds, Payloads(alloc))
      /\ phase = "valid" => RangesMatch(ranges, blocks, block_sizes, LiveIds)
  BY <1>2 DEF HeapOK
<1>7. CASE op.cmd = "a"
  BY <1>2, <1>3, <1>5, <1>6, <1>7 DEF OtherIds, OtherPayloads, OtherRanges
<1>8. CASE op.cmd # "a"
  <2>1. op.id \in LiveIds
    BY <1>2, <1>8
  <2>2. Matches(blocks, LiveIds \ {op.id}, {e \in Payloads(alloc) : e.lo # blocks[op.id]})
    BY <1>6, <2>1, MatchesTake
  <2>3. phase \in {"valid", "util"} =>
          Covered(blocks, block_sizes, LiveIds \ {op.id}, {e \in Payloads(alloc) : e.lo # blocks[op.id]})
    BY <1>6, <2>1, CoveredTake
  <2>4. phase = "valid" =>
          RangesMatch(remove_range(ranges, blocks[op.id]), blocks, block_sizes, LiveIds \ {op.id})
    BY <1>4, <1>6, <2>1, RangesTake
  <2> QED
    BY <1>2, <1>3, <1>5, <1>8, <2>2, <2>3, <2>4 DEF OtherIds, OtherPayloads, OtherRanges
<1> QED
  BY <1>7, <1>8

(* The ids after a request. *)
LEMMA IdsServed ==
  ASSUME ControlOK, HeapOK, HeapServes
  PROVE  /\ op.cmd = "f" => LiveIds' = OtherIds
         /\ op.cmd # "f" => LiveIds' = OtherIds \cup {op.id}
<1>1. /\ tracenum \in 1 .. NumTraces /\ opnum \in DOMAIN trace /\ advance /\ UNCHANGED files
      /\ op.cmd \in {"a", "r", "f"}
  BY OthersMatch DEF HeapServes
<1>2. /\ op.cmd = "a" => LiveIds' = LiveIds \cup {op.id}
      /\ op.cmd = "r" => LiveIds' = LiveIds /\ op.id \in LiveIds
      /\ op.cmd = "f" => LiveIds' = LiveIds \ {op.id}
  BY <1>1, LiveStep
<1> QED
  BY <1>1, <1>2 DEF OtherIds

(* After a request is served ids and payloads match again.                 *)
LEMMA HeapServed ==
  ASSUME ControlOK, MemoryOK, HeapOK, HeapServes, Safe
  PROVE  HeapOK'
<1>0. /\ phase' = phase /\ phase \in Evaluations /\ opnum' = opnum + 1 /\ opnum \in DOMAIN trace
  BY DEF HeapServes, advance
<1>1. /\ op.id \in Ids \ OtherIds /\ OtherIds \in SUBSET Ids /\ IsFiniteSet(OtherIds)
      /\ opnum \in Nat /\ opnum > 0
      /\ Matches(blocks, OtherIds, OtherPayloads)
      /\ phase \in {"valid", "util"} => Covered(blocks, block_sizes, OtherIds, OtherPayloads)
      /\ phase = "valid" => RangesMatch(OtherRanges, blocks, block_sizes, OtherIds)
  BY <1>0, OthersMatch
<1>a. blocks \in [Ids -> Nat] /\ block_sizes \in [Ids -> Nat]
  BY DEF MemoryOK, ArraysOK
<1>2. opnum' # 0 /\ opnum' # 1
  BY <1>0, <1>1
<1>3. /\ Matches(blocks', LiveIds', Payloads(alloc'))
      /\ phase \in {"valid", "util"} => Covered(blocks', block_sizes', LiveIds', Payloads(alloc'))
      /\ phase = "valid" => RangesMatch(ranges', blocks', block_sizes', LiveIds')
  <2>1. CASE FreeServed
    <3>1. LiveIds' = OtherIds /\ UNCHANGED <<blocks, block_sizes>> /\ Payloads(alloc') = OtherPayloads
      BY <2>1, IdsServed DEF FreeServed
    <3> QED
      BY <1>1, <2>1, <3>1 DEF FreeServed
  <2>2. ASSUME NEW e, BlockServed(e)
        PROVE  /\ Matches(blocks', LiveIds', Payloads(alloc'))
               /\ phase \in {"valid", "util"} => Covered(blocks', block_sizes', LiveIds', Payloads(alloc'))
               /\ phase = "valid" => RangesMatch(ranges', blocks', block_sizes', LiveIds')
    <3> DEFINE n == op.size
               id == op.id
               s2 == [block_sizes EXCEPT ![id] = n]
               b2 == [blocks EXCEPT ![id] = e.lo]
    <3>1. /\ n \in Nat /\ n > 0 /\ id \in Ids \ OtherIds
          /\ e.lo \in Nat /\ e.lo + n - 1 <= e.hi /\ \A f \in OtherPayloads : f.lo # e.lo
          /\ Payloads(alloc') = OtherPayloads \cup {e}
          /\ blocks' = b2 /\ (phase # "speed" => block_sizes' = s2)
          /\ phase = "valid" => ranges' = add_range(OtherRanges, e.lo, n)
      BY <1>1, <2>2 DEF BlockServed
    <3>2. LiveIds' = OtherIds \cup {id}
      BY <2>2, IdsServed DEF BlockServed
    <3>3. \A i \in OtherIds : blocks[i] # e.lo
      BY <1>1, <3>1 DEF Matches
    <3> HIDE DEF n, id
    <3>4. Matches(b2, OtherIds \cup {id}, OtherPayloads \cup {e})
      BY <1>1, <1>a, <3>1, MatchesGive
    <3>5. phase \in {"valid", "util"} => Covered(b2, s2, OtherIds \cup {id}, OtherPayloads \cup {e})
      BY <1>1, <1>a, <3>1, CoveredGive
    <3>6. phase = "valid" => RangesMatch(add_range(OtherRanges, e.lo, n), b2, s2, OtherIds \cup {id})
      <4> DEFINE p == e.lo
      <4>1. p \in Nat /\ \A i \in OtherIds : blocks[i] # p
        BY <3>1, <3>3
      <4> HIDE DEF p
      <4>2. phase = "valid" =>
              RangesMatch(add_range(OtherRanges, p, n), [blocks EXCEPT ![id] = p], s2, OtherIds \cup {id})
        BY <1>1, <1>a, <3>1, <4>1, RangesGive
      <4> QED
        BY <4>2 DEF p
    <3> HIDE DEF b2, s2
    <3> QED
      BY <3>1, <3>2, <3>4, <3>5, <3>6
  <2> QED
    BY <2>1, <2>2 DEF HeapServes
<1> QED
  BY <1>0, <1>2, <1>3 DEF HeapOK, Safe, HeapServes

(* What is recorded goes on to match what the allocator has given out.     *)
LEMMA HeapStep ==
  ASSUME KeepsContract, GoodFiles, ControlOK, PositiveOK, MemoryOK, CountOK, HeapOK, [Next]_vars
  PROVE  HeapOK'
<1>0. Safe /\ (HeapStays \/ HeapRests \/ HeapStarts \/ HeapServes)
  BY NextHeap DEF HeapMoves
<1>e. {"valid", "util"} \subseteq Evaluations /\ "valid" \in Evaluations
  BY DEF Evaluations
<1>1. CASE HeapStays
  <2>1. UNCHANGED LiveIds
    BY <1>1 DEF HeapStays, LiveIds, trace
  <2> QED
    BY <1>0, <1>1, <2>1 DEF HeapOK, Safe, HeapStays
<1>2. CASE HeapRests
  <2>1. phase' \notin Evaluations \/ (opnum' # 1 /\ ~ (opnum' > 0))
    BY <1>2 DEF HeapRests
  <2>2. Mapped(alloc') = {} \/ errors' # 0 \/ phase' = "exit"
    BY <1>2 DEF HeapRests
  <2> QED
    BY <1>0, <1>e, <2>1, <2>2 DEF HeapOK, Safe
<1>3. CASE HeapStarts
  <2>1. /\ phase' = phase /\ opnum' = 1 /\ Payloads(alloc') = {} /\ alloc' \in Ready
        /\ errors' = 0 /\ phase' # "exit" => Mapped(alloc') = {}
        /\ phase = "valid" => ranges' = <<>>
    BY <1>3 DEF HeapStarts, HeapOK
  <2>2. LiveIds' = {}
    <3>1. Before(trace', 1) = {}
      BY BeforeStart
    <3> QED
      BY <2>1, <3>1 DEF LiveIds
  <2>3. Matches(blocks', {}, {}) /\ Covered(blocks', block_sizes', {}, {})
    BY DEF Matches, Covered
  <2>4. RangesMatch(<<>>, blocks', block_sizes', {})
    <3>1. <<>> \in Seq(Extents) /\ Len(<<>>) = 0 /\ DOMAIN <<>> = {} /\ ToSet(<<>>) = {}
      BY DEF ToSet
    <3>2. Cardinality({}) = 0
      BY FS_EmptySet
    <3> QED
      BY <3>1, <3>2 DEF RangesMatch
  <2> QED
    BY <1>0, <2>1, <2>2, <2>3, <2>4 DEF HeapOK, Safe
<1>4. CASE HeapServes
  BY <1>0, <1>4, HeapServed
<1> QED
  BY <1>0, <1>1, <1>2, <1>3, <1>4

-----------------------------------------------------------------------------
(* The statistics of eval_mm_util: the largest total is at most the        *)
(* largest heap, which is not empty after the first request.               *)
UtilOK == phase = "util" /\ opnum > 0 =>
  /\ stats.max_total <= stats.max_heap
  /\ opnum > 1 => stats.max_heap > 0

(* What fits the heap after a step. *)
LEMMA FitsNext ==
  ASSUME Trusted, ControlOK', HeapOK', phase' = "util", opnum' \in Nat, opnum' > 0
  PROVE  /\ SumOver(block_sizes', LiveIds') <= mem_heapsize(alloc')
         /\ LiveIds' # {} => mem_heapsize(alloc') > 0
         /\ SumOver(block_sizes', LiveIds') \in Nat /\ mem_heapsize(alloc') \in Nat
         /\ IsFiniteSet(Mapped(alloc'))
<1> DEFINE A == alloc'
           b == blocks'
           s == block_sizes'
           live == LiveIds'
<1>1. alloc' \in Ready /\ alloc' \in States
  BY DEF HeapOK, Evaluations
<1>2. IsFiniteSet(Mapped(A)) /\ Kept(A)
  BY <1>1 DEF Trusted, KeepsContract
<1>3. IsFiniteSet(live)
  <2>1. IsFiniteSet(Before(trace', opnum'))
    BY BeforeFinite
  <2> QED
    BY <2>1 DEF LiveIds
<1>4. Matches(b, live, Payloads(A)) /\ Covered(b, s, live, Payloads(A))
  BY DEF HeapOK, Evaluations
<1> HIDE DEF A, b, s, live
<1>5. /\ SumOver(s, live) <= mem_heapsize(A)
      /\ live # {} => mem_heapsize(A) > 0
      /\ SumOver(s, live) \in Nat /\ mem_heapsize(A) \in Nat
  BY <1>2, <1>3, <1>4, SizesFit
<1> QED
  BY <1>2, <1>5 DEF A, s, live

(* The totals that eval_mm_util records stay within the heap it measured.  *)
LEMMA UtilStep ==
  ASSUME Trusted, ControlOK, PositiveOK, MemoryOK, CountOK, StatsOK, HeapOK, UtilOK,
         [Next]_vars, ArraysOK', ControlOK', HeapOK'
  PROVE  UtilOK'
<1>1. CASE UNCHANGED <<stats, phase, tracenum, opnum, files, block_sizes>>
  BY <1>1 DEF UtilOK
<1>2. CASE UNCHANGED stats /\ (phase' # "util" \/ opnum' = 0)
  BY <1>2 DEF UtilOK
<1>3. CASE stats' = NoStats /\ (opnum' = 1 \/ phase' # "util")
  BY <1>3 DEF UtilOK, NoStats
<1>4. CASE UtilServes
  <2> DEFINE t == SumOver(block_sizes', LiveIds')
             h == mem_heapsize(alloc')
             m == stats.max_total
             k == stats.max_heap
  <2>1. PICK c \in {"a", "r", "f"} : Running("util", c)
    BY <1>4 DEF UtilServes
  <2>2. /\ phase = "util" /\ phase' = "util" /\ opnum' = opnum + 1 /\ UNCHANGED tracenum
        /\ Update(t) /\ t \in Nat
    BY <1>4 DEF UtilServes, advance
  <2>3. "util" \in Phases /\ "util" \in Evaluations
    BY DEF Phases, Evaluations
  <2>4. /\ opnum \in Nat \ {0} /\ opnum \in DOMAIN trace /\ op.cmd = c
        /\ IF c = "a" THEN op.id \notin LiveIds ELSE op.id \in LiveIds
    BY <2>1, <2>3, RunningFacts
  <2>5. opnum' \in Nat /\ opnum' > 0
    BY <2>2, <2>4
  <2>6. /\ t <= h /\ (LiveIds' # {} => h > 0) /\ h \in Nat
        /\ IsFiniteSet(Mapped(alloc'))
    BY <2>2, <2>5, FitsNext
  <2>7. m \in Nat /\ k \in Nat /\ m <= k /\ (opnum > 1 => k > 0)
    BY <2>2, <2>4 DEF StatsOK, UtilOK
  <2> HIDE DEF t, h
  <2>8. stats'.max_total = Max({m, t}) /\ stats'.max_heap = Max({k, mem_heapsize(alloc')})
    BY <2>2, <2>6, UpdateFacts
  <2> HIDE DEF m, k
  <2>9. /\ Max({m, t}) \in {m, t} /\ Max({k, h}) \in Nat /\ Max({k, h}) >= k /\ Max({k, h}) >= h
    BY <2>2, <2>6, <2>7, MaxOfTwo
  <2>10. opnum = 1 => LiveIds' # {}
    <3> SUFFICES ASSUME opnum = 1 PROVE LiveIds' # {}
      OBVIOUS
    <3>1. LiveIds = {}
      BY LiveStart
    <3>2. c = "a"
      BY <2>4, <3>1
    <3>3. HeapServes
      <4>1. HeapMoves
        BY NextHeap DEF Trusted
      <4> QED
        BY <2>2, <2>3, <2>4, <4>1 DEF HeapMoves, HeapStays, HeapRests, HeapStarts
    <3>4. LiveIds' = OtherIds \cup {op.id}
      BY <2>4, <3>2, <3>3, IdsServed
    <3> QED
      BY <3>4
  <2>11. Max({m, t}) <= Max({k, h}) /\ Max({k, h}) > 0
    <3>1. h > 0 \/ k > 0
      BY <2>4, <2>6, <2>7, <2>10
    <3> QED
      BY <2>2, <2>6, <2>7, <2>9, <3>1
  <2> QED
    BY <2>8, <2>11 DEF UtilOK, h
<1> QED
  BY <1>1, <1>2, <1>3, <1>4, NextStats

-----------------------------------------------------------------------------
(* Who is blamed: the process ends early only when a trace file asks for   *)
(* no bytes, and the traces passed are those that never do.                *)
BlameOK ==
  /\ phase = "exit" => \E k \in DOMAIN files : HasEmpty(files[k])
  /\ phase \in Evaluations \cup {"read", "done"} =>
       \A k \in 1 .. tracenum - 1 : mm_stats[k].valid <=> ~ HasEmpty(files[k])

(* A trace that is measured has no request for no bytes.                   *)
LEMMA MeasuredFull ==
  ASSUME ControlOK, PositiveOK, phase \in {"util", "speed"}
  PROVE  tracenum \in 1 .. NumTraces /\ ~ HasEmpty(files[tracenum])
<1>1. tracenum \in 1 .. NumTraces
  BY DEF ControlOK, Phases, Evaluations
<1>2. DOMAIN trace = 1 .. Len(trace) /\ Len(trace) \in Nat /\ trace = files[tracenum].ops
  BY <1>1, TraceFacts DEF trace
<1>3. \A k \in DOMAIN files[tracenum].ops : files[tracenum].ops[k].cmd # "f" => files[tracenum].ops[k].size > 0
  BY <1>2 DEF PositiveOK, PositiveBefore
<1>4. \A k \in DOMAIN files[tracenum].ops : files[tracenum].ops[k].cmd # "f" => files[tracenum].ops[k].size # 0
  BY <1>3
<1> QED
  BY <1>1, <1>4 DEF HasEmpty

(* Every step blames those traces only.                                    *)
LEMMA BlameStep ==
  ASSUME Trusted, ControlOK, ScoreOK, PositiveOK, MemoryOK, CountOK, HeapOK, BlameOK, [Next]_vars
  PROVE  BlameOK'
<1>0. Safe
  BY NextHeap DEF HeapMoves, Trusted
<1>1. UNCHANGED files /\ DOMAIN files = 1 .. NumTraces
  BY NextMoves DEF ControlOK
<1>2. Evaluations = {"valid", "util", "speed"} /\ Earlier = {"libc_read", "libc_valid", "libc_speed"}
  BY DEF Evaluations, Earlier, Comparisons
<1>3. tracenum \in 1 .. NumTraces + 1 /\ (phase \in Evaluations => tracenum \in 1 .. NumTraces) /\ NumTraces \in Nat
  BY DriverAssumption DEF ControlOK, Phases
<1>4. CASE phase' = "exit"
  <2>1. \E k \in DOMAIN files : HasEmpty(files[k])
    <3>1. CASE Blameless
      BY <1>4, <3>1 DEF Blameless, BlameOK
    <3>2. CASE Justly
      BY <1>1, <3>2 DEF Justly
    <3> QED
      BY <1>0, <3>1, <3>2 DEF Safe
  <2> QED
    BY <1>1, <1>2, <1>4, <2>1 DEF BlameOK
<1>5. CASE ScoreKept
  BY <1>1, <1>5 DEF ScoreKept, BlameOK
<1>6. CASE FailsTrace
  <2>1. phase = "valid" /\ phase' = "read" /\ tracenum' = tracenum + 1 /\ errors' = errors + 1 /\ mm_stats' = mm_stats
    BY <1>6 DEF FailsTrace, next_trace
  <2>2. errors' # errors
    BY <2>1 DEF CountOK
  <2>3. HasEmpty(files[tracenum])
    BY <1>0, <2>2 DEF Safe, Blameless, Justly
  <2>4. ~ mm_stats[tracenum].valid
    BY <1>2, <1>3, <2>1 DEF ScoreOK
  <2>5. \A k \in 1 .. tracenum - 1 : mm_stats[k].valid <=> ~ HasEmpty(files[k])
    BY <1>2, <2>1 DEF BlameOK
  <2>6. \A k \in 1 .. tracenum' - 1 : k = tracenum \/ k \in 1 .. tracenum - 1
    BY <1>3, <2>1
  <2>7. \A k \in 1 .. tracenum' - 1 : mm_stats'[k].valid <=> ~ HasEmpty(files'[k])
    BY <1>1, <2>1, <2>3, <2>4, <2>5, <2>6
  <2> QED
    BY <2>1, <2>7 DEF BlameOK
<1>7. CASE PassesTrace \/ RatesTrace
  <2>1. phase \in Evaluations /\ phase' \in Evaluations /\ tracenum' = tracenum
    BY <1>2, <1>7 DEF PassesTrace, RatesTrace
  <2>2. ASSUME NEW k \in 1 .. tracenum - 1 PROVE mm_stats'[k] = mm_stats[k]
    <3>1. mm_stats = [n \in 1 .. NumTraces |-> mm_stats[n]] /\ k \in 1 .. NumTraces /\ k # tracenum
      BY <1>2, <1>3, <2>1 DEF ScoreOK
    <3> QED
      BY <1>7, <3>1 DEF PassesTrace, RatesTrace
  <2>3. phase' # "exit"
    BY <1>2, <2>1
  <2> QED
    BY <1>1, <2>1, <2>2, <2>3 DEF BlameOK
<1>8. CASE LeavesTrace
  <2>1. phase = "speed" /\ phase' = "read" /\ tracenum' = tracenum + 1 /\ mm_stats' = mm_stats
    BY <1>8 DEF LeavesTrace, next_trace
  <2>2. ~ HasEmpty(files[tracenum]) /\ mm_stats[tracenum].valid
    BY <2>1, MeasuredFull DEF ScoreOK
  <2>3. \A k \in 1 .. tracenum - 1 : mm_stats[k].valid <=> ~ HasEmpty(files[k])
    BY <1>2, <2>1 DEF BlameOK
  <2>4. \A k \in 1 .. tracenum' - 1 : k = tracenum \/ k \in 1 .. tracenum - 1
    BY <1>3, <2>1
  <2>5. \A k \in 1 .. tracenum' - 1 : mm_stats'[k].valid <=> ~ HasEmpty(files'[k])
    BY <1>1, <2>1, <2>2, <2>3, <2>4
  <2> QED
    BY <2>1, <2>5 DEF BlameOK
<1>9. CASE ReadsTrace
  BY <1>1, <1>9 DEF ReadsTrace, BlameOK
<1>10. CASE Compares
  BY <1>2, <1>10 DEF Compares, BlameOK
<1>11. CASE StartsOver
  BY <1>11 DEF StartsOver, BlameOK
<1>12. CASE report
  BY <1>1, <1>12 DEF report, BlameOK
<1>13. CASE phase' = "overrun"
  BY <1>2, <1>13 DEF BlameOK
<1> QED
  BY <1>13, <1>4, <1>5, <1>6, <1>7, <1>8, <1>9, <1>10, <1>11, <1>12, NextScores

-----------------------------------------------------------------------------
(* The inductive invariant for an allocator that keeps its contract.       *)
ContractInv ==
  /\ ControlOK /\ ScoreOK /\ LibcOK /\ PositiveOK /\ MemoryOK /\ StatsOK /\ CountOK
  /\ HeapOK /\ UtilOK /\ BlameOK

(* The invariant holds when the program starts.                            *)
LEMMA ContractInit ==
  ASSUME Trusted
  PROVE  Init => ContractInv
<1> SUFFICES ASSUME Init PROVE ContractInv
  OBVIOUS
<1>1. ControlOK /\ ScoreOK /\ LibcOK
  BY ControlInit, ScoreInit, LibcInit
<1>2. PositiveOK
  BY DEF Init, PositiveOK
<1>3. MemoryOK
  BY DEF Init, MemoryOK, ArraysOK, NoBlocks, NULL, Trusted, KeepsContract
<1>4. StatsOK /\ UtilOK
  BY DEF Init, StatsOK, UtilOK, NoStats
<1>5. CountOK
  BY DriverAssumption DEF Init, CountOK
<1>6. HeapOK
  BY DEF Init, HeapOK, Trusted, KeepsContract, Evaluations
<1>7. BlameOK
  BY DEF Init, BlameOK
<1> QED
  BY <1>1, <1>2, <1>3, <1>4, <1>5, <1>6, <1>7 DEF ContractInv

(* mm_malloc answers with addresses, as it keeps its contract.             *)
LEMMA AnswersOnce ==
  ASSUME Trusted, ControlOK, HeapOK
  PROVE  AnswersOK
<1> SUFFICES ASSUME phase \in Evaluations, opnum \in DOMAIN trace, op.cmd # "f", NEW r \in mm_malloc(alloc, op.size)
             PROVE  r.p \in Nat
  BY DEF AnswersOK
<1> DEFINE f == phase
           c == op.cmd
<1>1. f \in Evaluations /\ f \in Phases /\ c \in {"a", "r"} /\ Running(f, c)
  <2>1. tracenum \in 1 .. NumTraces
    BY DEF ControlOK, Phases
  <2>2. op.cmd \in {"a", "r", "f"}
    BY <2>1, TraceFacts DEF Request
  <2> QED
    BY <2>2 DEF Running, Phases
<1> HIDE DEF f, c
<1>2. op.size \in Nat /\ Asked(op.size) /\ alloc \in Ready
  BY <1>1, SizeAsked, IsReady DEF Trusted
<1>3. CASE op.size = 0
  BY <1>2, <1>3 DEF Trusted, KeepsContract, NULL
<1>4. CASE op.size # 0
  <2>1. PICK e : IsGiven(alloc, op.size, r, e)
    BY <1>2, <1>4, MallocGives DEF Trusted
  <2> QED
    BY <2>1 DEF IsGiven
<1> QED
  BY <1>3, <1>4

(* Every step keeps the invariant when the allocator keeps its contract.   *)
LEMMA ContractStep ==
  ASSUME Trusted
  PROVE  ContractInv /\ [Next]_vars => ContractInv'
<1> SUFFICES ASSUME ContractInv, [Next]_vars PROVE ContractInv'
  OBVIOUS
<1>0. /\ ControlOK /\ ScoreOK /\ LibcOK /\ PositiveOK /\ MemoryOK /\ StatsOK /\ CountOK
      /\ HeapOK /\ UtilOK /\ BlameOK
      /\ KeepsContract /\ GoodFiles
  BY DEF ContractInv, Trusted
<1>1. ControlOK' /\ ScoreOK' /\ LibcOK' /\ PositiveOK' /\ CountOK'
  BY <1>0, ControlStep, ScoreStep, LibcStep, PositiveStep, CountStep
<1>2. HeapOK'
  BY <1>0, HeapStep
<1>3. ArraysOK' /\ alloc' \in States
  BY <1>0, <1>2, ArraysStep, AnswersOnce DEF HeapOK
<1>4. MemoryOK'
  BY <1>3 DEF MemoryOK
<1>5. StatsOK'
  <2>1. IsFiniteSet(Mapped(alloc'))
    BY <1>0, <1>3 DEF KeepsContract
  <2> QED
    BY <1>0, <1>3, <2>1, StatsStep
<1>6. UtilOK'
  BY <1>0, <1>1, <1>2, <1>3, UtilStep
<1>7. BlameOK'
  BY <1>0, BlameStep
<1> QED
  BY <1>1, <1>2, <1>4, <1>5, <1>6, <1>7 DEF ContractInv

(* The invariant holds in every reachable state when the allocator keeps   *)
(* its contract.                                                           *)
LEMMA Contracted ==
  ASSUME Trusted
  PROVE  Spec => []ContractInv
<1>1. Init => ContractInv
  BY ContractInit
<1>2. ContractInv /\ [Next]_vars => ContractInv'
  BY ContractStep
<1> QED
  BY <1>1, <1>2, PTL DEF Spec

(* main counts an error for a trace that asks for 0 bytes and for no other *)
(* trace, and the process ends early only when there is such a trace.      *)
BlamedForEmpty ==
  /\ ~ Aborted(alloc)
  /\ phase = "exit" => \E k \in DOMAIN files : HasEmpty(files[k])
  /\ phase \in Evaluations \cup {"read", "done"} =>
       errors = Cardinality({k \in 1 .. tracenum - 1 : HasEmpty(files[k])})

(* The invariant says who is blamed.                                       *)
LEMMA InvBlames ==
  ASSUME Trusted
  PROVE  ContractInv => BlamedForEmpty
<1> SUFFICES ASSUME ContractInv PROVE BlamedForEmpty
  OBVIOUS
<1>1. ~ Aborted(alloc)
  BY DEF ContractInv, HeapOK, Trusted, KeepsContract
<1>2. ASSUME phase \in Evaluations \cup {"read", "done"}
      PROVE  errors = Cardinality({k \in 1 .. tracenum - 1 : HasEmpty(files[k])})
  <2>1. errors = Cardinality(Failed(mm_stats, tracenum - 1))
    BY <1>2 DEF ContractInv, ScoreOK
  <2>2. \A k \in 1 .. tracenum - 1 : mm_stats[k].valid <=> ~ HasEmpty(files[k])
    BY <1>2 DEF ContractInv, BlameOK
  <2>3. Failed(mm_stats, tracenum - 1) = {k \in 1 .. tracenum - 1 : HasEmpty(files[k])}
    BY <2>2 DEF Failed
  <2> QED
    BY <2>1, <2>3
<1> QED
  BY <1>1, <1>2 DEF BlamedForEmpty, ContractInv, BlameOK

(* With an allocator that keeps its contract, returns NULL for 0 bytes and *)
(* is given trace files that agree with their headers, every trace passes  *)
(* that asks for no empty block, whatever traces failed before it.         *)
THEOREM BlamedFairly ==
  ASSUME Trusted
  PROVE  Spec => []BlamedForEmpty
<1>1. ContractInv => BlamedForEmpty
  BY InvBlames
<1>2. Spec => []ContractInv
  BY Contracted
<1> QED
  BY <1>1, <1>2, PTL

(* When no trace file asks for 0 bytes, no check fails.                    *)
LEMMA InvNeverBlames ==
  ASSUME Trusted, NoneEmpty
  PROVE  ContractInv => NoFalseAlarm
<1> SUFFICES ASSUME ContractInv PROVE NoFalseAlarm
  OBVIOUS
<1>0. BlamedForEmpty /\ ControlOK /\ ScoreOK
  BY InvBlames DEF ContractInv
<1>1. \A k \in 1 .. NumTraces : ~ HasEmpty(files[k])
  BY <1>0 DEF ControlOK, NoneEmpty
<1>2. tracenum \in 1 .. NumTraces + 1 /\ NumTraces \in Nat /\ DOMAIN files = 1 .. NumTraces
  BY <1>0, DriverAssumption DEF ControlOK
<1>3. phase \notin {"exit", "overrun"} /\ ~ Aborted(alloc)
  BY <1>0, <1>1, <1>2, NoOverrun DEF BlamedForEmpty, Trusted
<1>4. errors = 0
  <2>1. CASE phase \in Earlier
    BY <1>0, <2>1 DEF ScoreOK
  <2>2. CASE phase \in Evaluations \cup {"read", "done"}
    <3>1. {k \in 1 .. tracenum - 1 : HasEmpty(files[k])} = {}
      BY <1>1, <1>2
    <3>2. Cardinality({}) = 0
      BY FS_EmptySet
    <3> QED
      BY <1>0, <2>2, <3>1, <3>2 DEF BlamedForEmpty
  <2> QED
    BY <1>0, <1>3, <2>1, <2>2 DEF ControlOK, Phases, Earlier
<1> QED
  BY <1>3, <1>4 DEF NoFalseAlarm

(* With an allocator that keeps its contract and trace files that agree    *)
(* with their headers and ask for no empty block, no check of the driver   *)
(* fails, in any evaluation of any trace.                                  *)
THEOREM NeverBlamed ==
  ASSUME Trusted, NoneEmpty
  PROVE  Spec => []NoFalseAlarm
<1>1. ContractInv => NoFalseAlarm
  BY InvNeverBlames
<1>2. Spec => []ContractInv
  BY Contracted
<1> QED
  BY <1>1, <1>2, PTL

(* With such trace files every evaluation starts with an empty heap.       *)
THEOREM StartsCorrect ==
  ASSUME Trusted, NoneEmpty
  PROVE  Spec => []StartsEmpty
<1>1. ContractInv => StartsEmpty
  BY InvNeverBlames DEF NoFalseAlarm, ContractInv, HeapOK, StartsEmpty
<1>2. Spec => []ContractInv
  BY Contracted
<1> QED
  BY <1>1, <1>2, PTL

(* In eval_mm_valid the range list has one range for every block the trace *)
(* holds, with its address and size, at the payloads given out.            *)
THEOREM RangesCorrect ==
  ASSUME Trusted
  PROVE  Spec => []RangesExact
<1>1. ContractInv => RangesExact
  <2> SUFFICES ASSUME ContractInv, phase = "valid", opnum > 0
               PROVE  /\ ToSet(ranges) = Current /\ Len(ranges) = Cardinality(LiveIds)
                      /\ {r.lo : r \in ToSet(ranges)} = Held(alloc)
    BY DEF RangesExact
  <2>1. /\ RangesMatch(ranges, blocks, block_sizes, LiveIds)
        /\ Matches(blocks, LiveIds, Payloads(alloc)) /\ alloc \in Ready
    BY DEF ContractInv, HeapOK, Evaluations
  <2>2. Held(alloc) = {e.lo : e \in Payloads(alloc)}
    BY <2>1 DEF Trusted, KeepsContract, Kept
  <2>3. ToSet(ranges) = Current /\ Len(ranges) = Cardinality(LiveIds)
    BY <2>1 DEF RangesMatch, Current
  <2>4. {r.lo : r \in ToSet(ranges)} = {blocks[i] : i \in LiveIds}
    <3>1. \A i \in LiveIds : Extent(blocks[i], block_sizes[i]).lo = blocks[i]
      BY DEF Extent
    <3> QED
      BY <2>3, <3>1 DEF Current
  <2>5. {blocks[i] : i \in LiveIds} = {e.lo : e \in Payloads(alloc)}
    BY <2>1 DEF Matches
  <2> QED
    BY <2>2, <2>3, <2>4, <2>5
<1>2. Spec => []ContractInv
  BY Contracted
<1> QED
  BY <1>1, <1>2, PTL

(* As many recorded pointers as ids that recorded them. *)
LEMMA RecordedCount ==
  ASSUME NEW b, NEW live, IsFiniteSet(live), NEW held, Recorded(b, live, held)
  PROVE  Cardinality({b[i] : i \in live}) = Cardinality(live)
<1> DEFINE T == {b[i] : i \in live}
           g == [i \in live |-> b[i]]
<1>1. g \in Bijection(live, T)
  BY DEF Recorded, Bijection, Injection, Surjection, IsInjective
<1>2. ExistsBijection(live, T)
  BY <1>1 DEF ExistsBijection
<1> HIDE DEF T
<1>3. Cardinality(T) = Cardinality(live)
  BY <1>2, FS_Bijection
<1> QED
  BY <1>3 DEF T

(* In every evaluation the recorded blocks are what the allocator, or the  *)
(* C library, has given out and not got back.                              *)
THEOREM FreesCorrect ==
  ASSUME Trusted
  PROVE  Spec => []FreesHeld
<1>1. ContractInv => FreesHeld
  <2> SUFFICES ASSUME ContractInv PROVE FreesHeld
    OBVIOUS
  <2> DEFINE recorded == {blocks[i] : i \in LiveIds}
  <2>1. ASSUME phase \in Evaluations, opnum > 0 PROVE recorded = Held(alloc)
    <3>1. Matches(blocks, LiveIds, Payloads(alloc)) /\ alloc \in Ready
      BY <2>1 DEF ContractInv, HeapOK
    <3>2. Held(alloc) = {e.lo : e \in Payloads(alloc)}
      BY <3>1 DEF Trusted, KeepsContract, Kept
    <3>3. recorded = {e.lo : e \in Payloads(alloc)}
      BY <3>1 DEF Matches
    <3> QED
      BY <3>2, <3>3
  <2>2. ASSUME phase \in Comparisons, opnum > 0
        PROVE  recorded \subseteq libc /\ Cardinality(recorded) = Cardinality(LiveIds)
    <3>1. Recorded(blocks, LiveIds, libc)
      BY <2>2 DEF ContractInv, LibcOK
    <3>2. IsFiniteSet(LiveIds)
      BY LiveFinite DEF ContractInv
    <3>3. Cardinality({blocks[i] : i \in LiveIds}) = Cardinality(LiveIds)
      BY <3>1, <3>2, RecordedCount
    <3>4. recorded \subseteq libc
      BY <3>1 DEF Recorded
    <3> QED
      BY <3>3, <3>4
  <2> QED
    BY <2>1, <2>2 DEF FreesHeld
<1>2. Spec => []ContractInv
  BY Contracted
<1> QED
  BY <1>1, <1>2, PTL

(* The running total of eval_mm_util is the number of bytes allocated,     *)
(* they fit the heap, and the utilization is defined and at most 1.        *)
THEOREM UtilCorrect ==
  ASSUME Trusted
  PROVE  Spec => []UtilSound
<1>1. ContractInv => UtilSound
  <2> SUFFICES ASSUME ContractInv, phase = "util", opnum > 0
               PROVE  /\ stats.total = FoldFunctionOnSet(+, 0, block_sizes, LiveIds)
                      /\ stats.total <= mem_heapsize(alloc)
                      /\ opnum > 1 => stats.max_heap > 0 /\ stats.max_total <= stats.max_heap
    BY DEF UtilSound
  <2>1. stats.total = SumOver(block_sizes, LiveIds)
    BY DEF ContractInv, StatsOK
  <2>2. /\ Matches(blocks, LiveIds, Payloads(alloc))
        /\ Covered(blocks, block_sizes, LiveIds, Payloads(alloc))
        /\ alloc \in Ready
    BY DEF ContractInv, HeapOK, Evaluations
  <2>3. Kept(alloc) /\ IsFiniteSet(Mapped(alloc))
    BY <2>2 DEF Trusted, KeepsContract
  <2>4. IsFiniteSet(LiveIds)
    BY LiveFinite DEF ContractInv
  <2>5. SumOver(block_sizes, LiveIds) <= mem_heapsize(alloc)
    BY <2>2, <2>3, <2>4, SizesFit
  <2>6. opnum > 1 => stats.max_heap > 0 /\ stats.max_total <= stats.max_heap
    BY DEF ContractInv, UtilOK
  <2>7. SumOver(block_sizes, LiveIds) = FoldFunctionOnSet(+, 0, block_sizes, LiveIds)
    BY DEF SumOver
  <2> QED
    BY <2>1, <2>5, <2>6, <2>7
<1>2. Spec => []ContractInv
  BY Contracted
<1> QED
  BY <1>1, <1>2, PTL

(* Only eval_mm_valid changes the range list. *)
LEMMA WhoChangesRanges == [Next]_vars => UNCHANGED ranges \/ phase = "valid"
<1>1. eval_mm_valid => phase = "valid"
  BY DEF eval_mm_valid, valid_enter, valid_alloc, valid_realloc, valid_free, valid_exit, Running, AtEnd
<1>2. read_trace \/ eval_libc \/ libc_done \/ eval_mm_util \/ eval_mm_speed \/ report => UNCHANGED ranges
  BY DEF read_trace, eval_libc, libc_done, eval_mm_util, eval_mm_speed, report
<1>3. UNCHANGED vars => UNCHANGED ranges
  BY DEF vars
<1> QED
  BY <1>1, <1>2, <1>3 DEF Next, Terminating

(* With an allocator that keeps its contract and may unmap what is free, a *)
(* payload that enters the range list lies on mapped pages.                *)
THEOREM AcceptedStaysMapped ==
  ASSUME Trusted
  PROVE  Spec => AcceptedIsMapped
<1>1. ContractInv /\ ContractInv' /\ [Next]_vars =>
        [\A r \in ToSet(ranges') \ ToSet(ranges) : PagesOf(Bytes(r)) \subseteq Mapped(alloc')]_vars
  <2> SUFFICES ASSUME ContractInv, ContractInv', [Next]_vars, NEW r \in ToSet(ranges') \ ToSet(ranges)
               PROVE  PagesOf(Bytes(r)) \subseteq Mapped(alloc')
    OBVIOUS
  <2>1. ~ UNCHANGED ranges /\ phase = "valid" /\ ranges' # <<>>
    <3>1. ToSet(<<>>) = {}
      BY DEF ToSet
    <3> QED
      BY <3>1, WhoChangesRanges
  <2>2. HeapServes
    <3>1. HeapMoves
      BY NextHeap DEF Trusted, ContractInv
    <3> QED
      BY <2>1, <3>1 DEF HeapMoves, HeapStays, HeapRests, HeapStarts
  <2>3. phase' = "valid" /\ opnum' > 0
    <3>1. opnum \in Nat /\ opnum > 0
      BY <2>2, OthersMatch DEF HeapServes, ContractInv
    <3> QED
      BY <2>1, <2>2, <3>1 DEF HeapServes, advance
  <2>4. /\ RangesMatch(ranges', blocks', block_sizes', LiveIds')
        /\ Covered(blocks', block_sizes', LiveIds', Payloads(alloc'))
        /\ alloc' \in Ready
    BY <2>3 DEF ContractInv, HeapOK, Evaluations
  <2>5. PICK i \in LiveIds' : r = Extent(blocks'[i], block_sizes'[i])
    BY <2>4 DEF RangesMatch
  <2>6. PICK e \in Payloads(alloc') : blocks'[i] = e.lo /\ blocks'[i] + block_sizes'[i] - 1 <= e.hi
    BY <2>4 DEF Covered
  <2>7. /\ e.lo \in Nat /\ e.hi \in Nat /\ PagesOf(Bytes(e)) \subseteq Mapped(alloc')
        /\ block_sizes'[i] \in Nat
    BY <2>4 DEF Trusted, KeepsContract, Kept, Extents, Covered
  <2>8. r.lo = e.lo /\ r.hi = e.lo + block_sizes'[i] - 1 /\ r.hi <= e.hi
    BY <2>5, <2>6 DEF Extent
  <2>9. Bytes(r) \subseteq Bytes(e)
    BY <2>7, <2>8 DEF Bytes
  <2> QED
    BY <2>7, <2>9 DEF PagesOf
<1>2. Spec => []ContractInv
  BY Contracted
<1> QED
  BY <1>1, <1>2, PTL DEF Spec, AcceptedIsMapped

-----------------------------------------------------------------------------
(* The hypotheses hold of the allocator of module Contract, with any       *)
(* pages but the page at NULL.                                             *)
CONSTANTS Pages, Slack, Extra   \* see Contract

C == INSTANCE Contract

ContractConstants ==
  /\ Pages \subseteq Nat \ {0} /\ Pages # {} /\ IsFiniteSet(Pages)
  /\ Slack \subseteq Nat
  /\ \A x \in Extra : x \subseteq Int /\ IsFiniteSet(x)

IsContract ==
  /\ States = {A \in [held : SUBSET Extents, mapped : SUBSET Int] : Kept(A) /\ IsFiniteSet(A.mapped)}
  /\ Ready = States
  /\ Fresh = C!NoPages
  /\ \A A : /\ Payloads(A) = A.held /\ Mapped(A) = A.mapped
            /\ Held(A) = {h.lo : h \in A.held} /\ ~ Aborted(A)
            /\ mm_init(A) = C!Init(A) /\ mem_reset(A) = C!Reset(A)
            /\ \A n : mm_malloc(A, n) = C!Malloc(A, n)
            /\ \A p : mm_free(A, p) = C!Free(A, p)
            /\ \A p, n, i : memset(A, p, n, i) = A

(* Division keeps the order, so that a payload's pages are an interval. *)
LEMMA DivMonotone ==
  ASSUME NEW x \in Int, NEW y \in Int, x <= y, NEW d \in Nat, d > 0
  PROVE  x \div d <= y \div d
<1> DEFINE p == x \div d
           q == y \div d
           dp == d * p
           dq == d * q
<1>1. p \in Int /\ q \in Int /\ dp <= x /\ y < dq + d /\ dp \in Int /\ dq \in Int
  BY DivBounds
<1>2. q + 1 <= p => d * (q + 1) <= d * p
  <2>1. q + 1 \in Int
    BY <1>1
  <2> HIDE DEF p, q
  <2> QED
    BY <1>1, <2>1, TimesMonotone
<1>3. d * (q + 1) = dq + d
  <2> HIDE DEF p, q
  <2> QED
    BY <1>1 DEF dq
<1>4. ~ (q + 1 <= p)
  <2> HIDE DEF p, q, dq
  <2> SUFFICES ASSUME q + 1 <= p PROVE FALSE
    OBVIOUS
  <2>1. dq + d <= dp
    BY <1>2, <1>3 DEF dp
  <2> HIDE DEF dp
  <2> QED
    BY <1>1, <2>1
<1> HIDE DEF p, q
<1>5. p <= q
  BY <1>1, <1>4
<1> QED
  BY <1>5 DEF p, q

(* The pages of a payload's bytes are among those that module Contract     *)
(* maps for it.                                                            *)
LEMMA PagesInterval ==
  ASSUME NEW e, e.lo \in Nat, e.hi \in Nat
  PROVE  PagesOf(Bytes(e)) \subseteq C!PagesOf(e) /\ IsFiniteSet(C!PagesOf(e)) /\ C!PagesOf(e) \subseteq Int
<1>0. PAGE \in Nat /\ PAGE > 0 /\ e.lo \in Int /\ e.hi \in Int
  BY DriverAssumption
<1>1. e.lo \div PAGE \in Int /\ e.hi \div PAGE \in Int
  BY <1>0, DivBounds
<1>2. ASSUME NEW a \in Bytes(e) PROVE a \div PAGE \in C!PagesOf(e)
  <2>1. a \in Int /\ e.lo <= a /\ a <= e.hi
    BY <1>0, <1>2 DEF Bytes
  <2>2. e.lo \div PAGE <= a \div PAGE /\ a \div PAGE <= e.hi \div PAGE /\ a \div PAGE \in Int
    BY <1>0, <2>1, DivMonotone, DivBounds
  <2> DEFINE q == a \div PAGE
             l == e.lo \div PAGE
             h == e.hi \div PAGE
  <2>3. q \in Int /\ l \in Int /\ h \in Int /\ l <= q /\ q <= h
    BY <1>1, <2>2
  <2> HIDE DEF q, l, h
  <2>4. q \in l .. h
    BY <2>3
  <2> QED
    BY <2>4 DEF C!PagesOf, q, l, h
<1>3. IsFiniteSet(C!PagesOf(e)) /\ C!PagesOf(e) \subseteq Int
  <2>1. IsFiniteSet(e.lo \div PAGE .. e.hi \div PAGE)
    BY <1>1, FS_Interval
  <2> QED
    BY <2>1 DEF C!PagesOf
<1> QED
  BY <1>2, <1>3 DEF PagesOf

(* A free place is aligned, and large enough. *)
LEMMA PlaceFacts ==
  ASSUME ContractConstants, NEW A, NEW n \in Int, NEW e \in C!Places(A, n)
  PROVE  /\ e.lo \in Nat /\ e.lo % ALIGNMENT = 0 /\ e = [lo |-> e.lo, hi |-> e.hi]
         /\ C!PagesOf(e) \subseteq Pages /\ \A h \in A.held : C!Disjoint(h, e)
         /\ n > 0 => e.hi \in Nat /\ e.lo + n - 1 <= e.hi /\ e.lo <= e.hi
<1> DEFINE u == (n + ALIGNMENT - 1) \div ALIGNMENT
<1>0. ALIGNMENT \in Nat /\ ALIGNMENT > 0
  BY DriverAssumption
<1>1. PICK a \in C!Starts, k \in Slack : e = C!Extent(a, ALIGNMENT * (u + k))
  BY DEF C!Places
<1>2. C!PagesOf(e) \subseteq Pages /\ \A h \in A.held : C!Disjoint(h, e)
  BY DEF C!Places
<1>3. PICK m \in Nat : a = ALIGNMENT * m
  <2>1. Max(Pages) \in Pages
    BY MaxProperties DEF ContractConstants
  <2>2. C!Max(Pages) \in Nat
    BY <2>1 DEF C!Max, Max, ContractConstants
  <2> DEFINE b == PAGE * (C!Max(Pages) + 1)
  <2>3. b \in Int
    BY <2>2, DriverAssumption
  <2> HIDE DEF b
  <2>4. b \div ALIGNMENT \in Int
    BY <1>0, <2>3, DivBounds
  <2>5. \A i \in 0 .. b \div ALIGNMENT : i \in Nat
    BY <2>4
  <2> QED
    BY <2>5 DEF C!Starts, b
<1>4. a \in Nat /\ a % ALIGNMENT = 0
  <2>1. ALIGNMENT * m \in Nat
    BY <1>0
  <2>2. (ALIGNMENT * m) % ALIGNMENT = 0
    BY <1>0, ModTimes
  <2> QED
    BY <1>3, <2>1, <2>2
<1>5. e.lo = a /\ e.hi = a + ALIGNMENT * (u + k) - 1 /\ e = [lo |-> e.lo, hi |-> e.hi]
  BY <1>1 DEF C!Extent
<1>6. n > 0 => ALIGNMENT * (u + k) \in Nat /\ n <= ALIGNMENT * (u + k)
  <2> DEFINE x == n + ALIGNMENT - 1
             w == ALIGNMENT * u
  <2>1. x \in Int /\ k \in Nat
    BY <1>0 DEF ContractConstants
  <2>2. u \in Int /\ w \in Int /\ x < w + ALIGNMENT
    BY <1>0, <2>1, DivBounds
  <2> HIDE DEF u
  <2>3. w <= ALIGNMENT * (u + k) /\ ALIGNMENT * (u + k) \in Int
    <3>1. u + k \in Int /\ u <= u + k
      BY <2>1, <2>2
    <3>2. ALIGNMENT * u <= ALIGNMENT * (u + k)
      BY <1>0, <2>2, <3>1, TimesMonotone
    <3> DEFINE y == u + k
    <3>3. \A c, d \in Int : c * d \in Int
      OBVIOUS
    <3> QED
      BY <1>0, <3>1, <3>2, <3>3
  <2> DEFINE z == ALIGNMENT * (u + k)
  <2>4. w \in Int /\ z \in Int /\ w <= z /\ n + ALIGNMENT - 1 < w + ALIGNMENT
    BY <2>2, <2>3
  <2> HIDE DEF w, z
  <2>5. n > 0 => z \in Nat /\ n <= z
    BY <1>0, <2>4
  <2> QED
    BY <2>5 DEF z
<1>7. n > 0 => e.hi \in Nat /\ e.lo + n - 1 <= e.hi /\ e.lo <= e.hi
  <2> DEFINE z == ALIGNMENT * (u + k)
  <2>1. n > 0 => z \in Nat /\ n <= z
    BY <1>6
  <2>2. e.lo = a /\ e.hi = a + z - 1
    BY <1>5
  <2> HIDE DEF z
  <2> QED
    BY <1>4, <2>1, <2>2
<1> QED
  BY <1>2, <1>4, <1>5, <1>7

(* A state of the contract with these payloads and pages. *)
LEMMA IsState ==
  ASSUME IsContract, NEW A, A \in [held : SUBSET Extents, mapped : SUBSET Int], IsFiniteSet(A.mapped),
         \A e \in A.held : /\ e \in Extents /\ e.lo # NULL /\ e.lo <= e.hi
                           /\ e.lo % ALIGNMENT = 0
                           /\ PagesOf(Bytes(e)) \subseteq A.mapped,
         \A e, f \in A.held : e = f \/ Disjoint(e, f)
  PROVE  A \in States
<1>1. Payloads(A) = A.held /\ Mapped(A) = A.mapped /\ Held(A) = {h.lo : h \in A.held} /\ ~ Aborted(A)
  BY DEF IsContract
<1>2. Kept(A)
  BY <1>1 DEF Kept
<1> QED
  BY <1>2 DEF IsContract

(* What a state of the contract's allocator is.                            *)
LEMMA StateFacts ==
  ASSUME IsContract, NEW A \in States
  PROVE  /\ A \in [held : SUBSET Extents, mapped : SUBSET Int] /\ IsFiniteSet(A.mapped)
         /\ Kept(A) /\ Payloads(A) = A.held /\ Mapped(A) = A.mapped
         /\ \A e \in A.held : /\ e \in Extents /\ e.lo # NULL /\ e.lo <= e.hi
                              /\ e.lo % ALIGNMENT = 0
                              /\ PagesOf(Bytes(e)) \subseteq A.mapped
                              /\ e.lo \in Nat /\ e.hi \in Nat
         /\ \A e, f \in A.held : e = f \/ Disjoint(e, f)
<1>1. A \in [held : SUBSET Extents, mapped : SUBSET Int] /\ IsFiniteSet(A.mapped) /\ Kept(A)
  BY DEF IsContract
<1>2. Payloads(A) = A.held /\ Mapped(A) = A.mapped
  BY DEF IsContract
<1> QED
  BY <1>1, <1>2 DEF Kept, Extents

(* malloc of module Contract. *)
LEMMA ContractMalloc ==
  ASSUME ContractConstants, IsContract, NEW A \in States, NEW n \in Nat, n > 0, NEW r \in C!Malloc(A, n)
  PROVE  Gives(A, n, r)
<1>1. PICK e \in C!Places(A, n), x \in Extra :
        r = [p |-> e.lo, alloc |-> [held   |-> A.held \cup {e},
                                    mapped |-> A.mapped \cup C!PagesOf(e) \cup x]]
  BY DEF C!Malloc
<1> DEFINE B == r.alloc
<1>2. r.p = e.lo /\ B.held = A.held \cup {e} /\ B.mapped = A.mapped \cup C!PagesOf(e) \cup x
      /\ B = [held |-> B.held, mapped |-> B.mapped]
  BY <1>1
<1> HIDE DEF B
<1>3. /\ e.lo \in Nat /\ e.hi \in Nat /\ e.lo % ALIGNMENT = 0 /\ e \in Extents
      /\ e.lo + n - 1 <= e.hi /\ e.lo <= e.hi
      /\ C!PagesOf(e) \subseteq Pages /\ \A h \in A.held : Disjoint(h, e)
  <2>1. /\ e.lo \in Nat /\ e.lo % ALIGNMENT = 0 /\ e = [lo |-> e.lo, hi |-> e.hi]
        /\ C!PagesOf(e) \subseteq Pages /\ \A h \in A.held : C!Disjoint(h, e)
        /\ n > 0 => e.hi \in Nat /\ e.lo + n - 1 <= e.hi /\ e.lo <= e.hi
    BY PlaceFacts
  <2>2. e \in Extents
    BY <2>1 DEF Extents
  <2> QED
    BY <2>1, <2>2 DEF C!Disjoint, Disjoint
<1>4. PagesOf(Bytes(e)) \subseteq C!PagesOf(e) /\ IsFiniteSet(C!PagesOf(e)) /\ C!PagesOf(e) \subseteq Int
  BY <1>3, PagesInterval
<1>5. e.lo # NULL
  <2> SUFFICES ASSUME e.lo = 0 PROVE FALSE
    BY DEF NULL
  <2>1. 0 \in Bytes(e)
    BY <1>3 DEF Bytes
  <2>2. 0 \div PAGE \in C!PagesOf(e)
    BY <1>4, <2>1 DEF PagesOf
  <2>3. 0 \div PAGE = 0
    BY DriverAssumption
  <2> QED
    BY <1>3, <2>2, <2>3 DEF ContractConstants
<1>6. /\ A \in [held : SUBSET Extents, mapped : SUBSET Int] /\ IsFiniteSet(A.mapped)
      /\ Payloads(A) = A.held
      /\ \A h \in A.held : /\ h \in Extents /\ h.lo # NULL /\ h.lo <= h.hi
                           /\ h.lo % ALIGNMENT = 0
                           /\ PagesOf(Bytes(h)) \subseteq A.mapped
                           /\ h.lo \in Nat /\ h.hi \in Nat
      /\ \A g, h \in A.held : g = h \/ Disjoint(g, h)
  BY StateFacts
<1>7. B.held \subseteq Extents /\ B.mapped \subseteq Int /\ IsFiniteSet(B.mapped)
  <2>1. x \subseteq Int /\ IsFiniteSet(x)
    BY DEF ContractConstants
  <2>2. IsFiniteSet(A.mapped \cup C!PagesOf(e))
    BY <1>4, <1>6, FS_Union
  <2>3. IsFiniteSet((A.mapped \cup C!PagesOf(e)) \cup x)
    BY <2>1, <2>2, FS_Union
  <2> QED
    BY <1>2, <1>3, <1>4, <1>6, <2>1, <2>3
<1>8. B \in [held : SUBSET Extents, mapped : SUBSET Int]
  BY <1>2, <1>7
<1>9. ASSUME NEW h \in B.held
      PROVE  /\ h \in Extents /\ h.lo # NULL /\ h.lo <= h.hi
             /\ h.lo % ALIGNMENT = 0 /\ PagesOf(Bytes(h)) \subseteq B.mapped
  BY <1>2, <1>3, <1>4, <1>5, <1>6
<1>10. ASSUME NEW g \in B.held, NEW h \in B.held PROVE g = h \/ Disjoint(g, h)
  BY <1>2, <1>3, <1>6 DEF Disjoint
<1>11. B \in States
  BY <1>7, <1>8, <1>9, <1>10, IsState
<1>12. Payloads(B) = B.held
  BY DEF IsContract
<1>13. e \notin A.held
  BY <1>3 DEF Disjoint
<1> QED
  BY <1>2, <1>3, <1>6, <1>11, <1>12, <1>13 DEF Gives, B, IsContract

(* free of module Contract. *)
LEMMA ContractFree ==
  ASSUME IsContract, NEW A \in States, NEW p, NEW B \in C!Free(A, p)
  PROVE  TakesBack(A, p, B)
<1> DEFINE held   == {h \in A.held : h.lo # p}
           needed == UNION {C!PagesOf(h) : h \in held}
<1>1. PICK x \in Extra : B = [held |-> held, mapped |-> A.mapped \ (x \ needed)]
  BY DEF C!Free
<1>2. B.held = held /\ B.mapped = A.mapped \ (x \ needed) /\ B = [held |-> B.held, mapped |-> B.mapped]
  BY <1>1
<1>3. /\ A \in [held : SUBSET Extents, mapped : SUBSET Int] /\ IsFiniteSet(A.mapped)
      /\ Payloads(A) = A.held
      /\ \A h \in A.held : /\ h \in Extents /\ h.lo # NULL /\ h.lo <= h.hi
                           /\ h.lo % ALIGNMENT = 0
                           /\ PagesOf(Bytes(h)) \subseteq A.mapped
                           /\ h.lo \in Nat /\ h.hi \in Nat
      /\ \A g, h \in A.held : g = h \/ Disjoint(g, h)
  BY StateFacts
<1>4. ASSUME NEW h \in held
      PROVE  /\ h \in Extents /\ h.lo # NULL /\ h.lo <= h.hi
             /\ h.lo % ALIGNMENT = 0 /\ PagesOf(Bytes(h)) \subseteq B.mapped
  <2>1. PagesOf(Bytes(h)) \subseteq needed
    <3>1. PagesOf(Bytes(h)) \subseteq C!PagesOf(h)
      BY <1>3, PagesInterval
    <3> QED
      BY <3>1
  <2> HIDE DEF needed
  <2> QED
    BY <1>2, <1>3, <2>1
<1> HIDE DEF needed
<1>5. IsFiniteSet(B.mapped)
  <2>1. B.mapped \in SUBSET A.mapped
    BY <1>2
  <2> QED
    BY <1>3, <2>1, FS_Subset
<1>6. B \in [held : SUBSET Extents, mapped : SUBSET Int]
  BY <1>2, <1>3
<1>7. \A g, h \in B.held : g = h \/ Disjoint(g, h)
  BY <1>2, <1>3
<1>8. B \in States
  BY <1>2, <1>4, <1>5, <1>6, <1>7, IsState
<1>9. Payloads(B) = B.held
  BY DEF IsContract
<1> QED
  BY <1>2, <1>3, <1>8, <1>9 DEF TakesBack, IsContract

(* The allocator of module Contract keeps the contract these proofs assume *)
(* of an allocator, so that what they show holds of it.                    *)
THEOREM ContractKept ==
  ASSUME ContractConstants, IsContract
  PROVE  KeepsContract
<1>1. C!NoPages \in States /\ Mapped(C!NoPages) = {}
  <2> DEFINE A == C!NoPages
  <2>1. A.held = {} /\ A.mapped = {} /\ A \in [held : SUBSET Extents, mapped : SUBSET Int]
    BY DEF C!NoPages
  <2>2. Mapped(A) = A.mapped
    BY DEF IsContract
  <2> HIDE DEF A
  <2>3. IsFiniteSet(A.mapped)
    BY <2>1, FS_EmptySet
  <2>4. A \in States
    BY <2>1, <2>3, IsState
  <2> QED
    BY <2>1, <2>2, <2>4 DEF A
<1>2. Fresh \in States /\ Mapped(Fresh) = {}
  BY <1>1 DEF IsContract
<1>3. ASSUME NEW A \in States
      PROVE  /\ ~ Aborted(A) /\ IsFiniteSet(Mapped(A))
             /\ \A r \in mm_init(A) : /\ r.ok /\ r.alloc \in Ready /\ Payloads(r.alloc) = {}
                                      /\ Mapped(A) = {} => Mapped(r.alloc) = {}
  <2>0. /\ A \in [held : SUBSET Extents, mapped : SUBSET Int] /\ IsFiniteSet(A.mapped)
        /\ Mapped(A) = A.mapped
    BY StateFacts
  <2>1. ~ Aborted(A)
    BY DEF IsContract
  <2>2. ASSUME NEW r \in mm_init(A)
        PROVE  /\ r.ok /\ r.alloc \in Ready /\ Payloads(r.alloc) = {}
               /\ Mapped(A) = {} => Mapped(r.alloc) = {}
    <3> DEFINE B == r.alloc
    <3>1. r = [ok |-> TRUE, alloc |-> [A EXCEPT !.held = {}]]
      BY <2>2 DEF IsContract, C!Init
    <3>2. r.ok /\ B.held = {} /\ B.mapped = A.mapped /\ B \in [held : SUBSET Extents, mapped : SUBSET Int]
      BY <2>0, <3>1
    <3> HIDE DEF B
    <3>3. B \in States
      BY <2>0, <3>2, IsState
    <3>4. Payloads(B) = B.held /\ Mapped(B) = B.mapped /\ Ready = States
      BY DEF IsContract
    <3> QED
      BY <2>0, <3>2, <3>3, <3>4 DEF B
  <2> QED
    BY <2>0, <2>1, <2>2
<1>4. ASSUME NEW A \in Ready
      PROVE  /\ A \in States /\ Kept(A)
             /\ mem_reset(A) \in States /\ Mapped(mem_reset(A)) = {}
             /\ \A r \in mm_malloc(A, 0) : r.p = NULL /\ r.alloc \in States
             /\ \A n \in Nat \ {0} : \A r \in mm_malloc(A, n) : Gives(A, n, r)
             /\ \A e \in Payloads(A) : \A B \in mm_free(A, e.lo) : TakesBack(A, e.lo, B)
             /\ \A e \in Payloads(A) : \A n \in Nat \ {0} : \A i \in Ids : e.lo + n - 1 <= e.hi =>
                  /\ memset(A, e.lo, n, i) \in Ready
                  /\ Payloads(memset(A, e.lo, n, i)) = Payloads(A)
  <2>a. A \in States
    BY DEF IsContract
  <2>0. Kept(A) /\ A \in [held : SUBSET Extents, mapped : SUBSET Int] /\ Payloads(A) = A.held
    BY <2>a, StateFacts
  <2>1. mem_reset(A) \in States /\ Mapped(mem_reset(A)) = {}
    <3>1. mem_reset(A) = C!NoPages
      BY DEF IsContract, C!Reset
    <3> QED
      BY <1>1, <3>1
  <2>2. ASSUME NEW r \in mm_malloc(A, 0) PROVE r.p = NULL /\ r.alloc \in States
    BY <2>a, <2>2 DEF IsContract, C!Malloc, C!NULL, NULL
  <2>3. ASSUME NEW n \in Nat \ {0}, NEW r \in mm_malloc(A, n) PROVE Gives(A, n, r)
    <3>1. r \in C!Malloc(A, n) /\ n \in Nat /\ n > 0
      BY <2>3 DEF IsContract
    <3> QED
      BY <2>a, <3>1, ContractMalloc
  <2>4. ASSUME NEW e \in Payloads(A), NEW B \in mm_free(A, e.lo) PROVE TakesBack(A, e.lo, B)
    <3>1. B \in C!Free(A, e.lo)
      BY <2>4 DEF IsContract
    <3> QED
      BY <2>a, <3>1, ContractFree
  <2>5. \A p, n, i : memset(A, p, n, i) = A
    BY DEF IsContract
  <2> QED
    BY <2>0, <2>1, <2>2, <2>3, <2>4, <2>5, <2>a
<1> QED
  BY <1>2, <1>3, <1>4 DEF KeepsContract
=============================================================================
