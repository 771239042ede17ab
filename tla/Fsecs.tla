------------------------------- MODULE Fsecs -------------------------------
(***************************************************************************)
(* fsecs.c with the three timing packages config.h chooses from: fcyc.c,   *)
(* the K-best scheme on the cycle counter of clock.c (its i386 version),   *)
(* and the two functions of ftimer.c, which average over runs.             *)
(*                                                                         *)
(* Time passes in whole units, cycles for fcyc.c and microseconds for      *)
(* ftimer.c.  A call measures a function that takes a time of its own and  *)
(* may be interrupted by timer ticks.                                      *)
(***************************************************************************)
EXTENDS Integers, Sequences, FiniteSets

CONSTANTS
  K,             \* kbest: 3
  MaxSamples,    \* maxsamples: 20
  EpsPercent,    \* epsilon, in hundredths: 1
  W,             \* values of an unsigned: 2^32
  NEVENT, THRESHOLD, RECORDTHRESH,
  Runs,          \* the runs ftimer.c averages over: 10
  SECOND,        \* microseconds of a second
  MAX_ETIME,     \* seconds
  Works,         \* bound of the model: the times a run of the function takes
  COST,          \* bound of the model: the cycles a timer tick takes
  Starts         \* bound of the model: what the counter or clock shows at first

ASSUME FsecsAssumption ==
  /\ K \in Nat \ {0} /\ MaxSamples \in Nat \ {0} /\ EpsPercent \in Nat
  /\ W \in Nat \ {0} /\ SECOND \in Nat \ {0} /\ MAX_ETIME \in Nat /\ Runs \in Nat \ {0}
  /\ NEVENT \in Nat \ {0} /\ THRESHOLD \in Nat /\ RECORDTHRESH \in Nat /\ COST \in Nat
  /\ Works \subseteq Nat /\ Starts \subseteq 0 .. W * W - 1

VARIABLES
  package,       \* "fcyc", "fcyc_comp" (compensate is set), "itimer" or "gettod"
  pc,            \* "idle", or what is done next
  values,        \* the array of K entries
  samples,       \* all samples of this call (the code keeps their number)
  cyc_per_tick,
  e,             \* timer events callibrate has seen
  cyc,           \* <<cyc_hi, cyc_lo>>, or the time <<tv_sec, tv_usec>> at the start
  i,             \* runs made by ftimer.c
  result,        \* of the last call, for ftimer.c as the sum of all runs
  now            \* the truth: work done since the start, time and ticks passed

vars == <<package, pc, values, samples, cyc_per_tick, e, cyc, i, result, now>>

samplecount == Len(samples)

NoValues == [n \in 1 .. K |-> 0]
NoTime   == [work |-> 0, time |-> 0, ticks |-> 0]

Init ==
  /\ package \in {"fcyc", "fcyc_comp", "itimer", "gettod"}
  /\ pc = "idle" /\ values = NoValues /\ samples = <<>>
  /\ cyc_per_tick = 0 /\ e = 0 /\ cyc = <<0, 0>> /\ i = 0 /\ result = 0 /\ now = NoTime

(* fsecs, and init_sampler in fcyc. *)
fsecs ==
  /\ pc = "idle"
  /\ pc' = IF package \in {"fcyc", "fcyc_comp"} THEN "start" ELSE "first"
  /\ values' = NoValues /\ samples' = <<>> /\ i' = 0 /\ now' = NoTime
  /\ UNCHANGED <<package, cyc_per_tick, e, cyc, result>>

-----------------------------------------------------------------------------
(* clock.c *)

(* The two words of a time, in words of n values. *)
Words(t, n) == <<(t \div n) % n, t % n>>

(* Mutant: no borrow. *)
elapsed_NoBorrow(new, old) == (((new[1] - old[1]) % W) * W) + ((new[2] - old[2]) % W)

(* The subtraction of get_counter. *)
elapsed(new, old) ==
  LET lo     == (new[2] - old[2]) % W
      borrow == IF lo > new[2] THEN 1 ELSE 0
      hi     == (new[1] - old[1] - borrow) % W
  IN  hi * W + lo

get_counter == elapsed(Words(cyc[1] * W + cyc[2] + now.time, W), cyc)

(* start_comp_counter: an uncalibrated counter is calibrated first. *)
start ==
  /\ pc = "start"
  /\ pc' = IF package = "fcyc_comp" /\ cyc_per_tick = 0 THEN "callibrate" ELSE "counter"
  /\ e' = 0
  /\ UNCHANGED <<package, values, samples, cyc_per_tick, cyc, i, result, now>>

(* What may be measured when ticks have been counted since the last time   *)
(* callibrate looked: their cost and the turns of the loop, which are less *)
(* than THRESHOLD before the last one; a tick that comes between the two   *)
(* clock readings is counted and not measured.                             *)
Gaps(ticks) ==
  {g \in {m * COST + x : m \in {ticks - 1, ticks}, x \in 0 .. THRESHOLD} :
     g >= THRESHOLD /\ g % ticks = 0}

(* Mutant: an event counts only when it is recorded. *)
callibrate_OnlyRecorded ==
  /\ pc = "callibrate"
  /\ \E ticks \in 1 .. 2 : \E gap \in Gaps(ticks) :
       LET cpt == gap \div ticks
           rec == (cyc_per_tick = 0 \/ cyc_per_tick > cpt) /\ cpt > RECORDTHRESH
       IN  /\ cyc_per_tick' = IF rec THEN cpt ELSE cyc_per_tick
           /\ e' = IF rec THEN e + 1 ELSE e
  /\ pc' = IF e' < NEVENT THEN pc ELSE "counter"
  /\ UNCHANGED <<package, values, samples, cyc, i, result, now>>

(* A turn of the loop that sees ticks; the others change nothing.          *)
(* Quotients that are no whole numbers are left out.                       *)
callibrate ==
  /\ pc = "callibrate"
  /\ \E ticks \in 1 .. 2 : \E gap \in Gaps(ticks) :
       LET cpt == gap \div ticks IN
       cyc_per_tick' = IF /\ cyc_per_tick = 0 \/ cyc_per_tick > cpt
                          /\ cpt > RECORDTHRESH
                       THEN cpt ELSE cyc_per_tick
  /\ e' = e + 1
  /\ pc' = IF e' < NEVENT THEN pc ELSE "counter"
  /\ UNCHANGED <<package, values, samples, cyc, i, result, now>>

(* start_comp_counter has read the ticks; one may come before start_counter. *)
start_counter ==
  /\ pc = "counter" /\ pc' = "run"
  /\ \E t \in Starts : cyc' = Words(t, W)
  /\ \E late \in 0 .. 1 : now' = [NoTime EXCEPT !.ticks = late]
  /\ UNCHANGED <<package, values, samples, cyc_per_tick, e, i, result>>

(* f(argp) *)
Measured ==
  \E w \in Works, ticks \in 0 .. 1 :
    now' = [work  |-> now.work + w, time |-> now.time + w + ticks * COST,
            ticks |-> now.ticks + ticks]

run ==
  /\ pc = "run" /\ pc' = "stop"
  /\ Measured
  /\ UNCHANGED <<package, values, samples, cyc_per_tick, e, cyc, i, result>>

-----------------------------------------------------------------------------
(* fcyc.c *)

(* Insertion sort: the entry at pos moves before the larger ones. *)
Insert(vals, pos) ==
  LET at == 1 + Cardinality({n \in 1 .. pos - 1 : vals[n] <= vals[pos]})
  IN  [n \in DOMAIN vals |-> IF n < at \/ n > pos THEN vals[n]
                             ELSE IF n = at THEN vals[pos] ELSE vals[n - 1]]

(* Mutant: the array fills and is not replaced. *)
add_sample_FirstK(vals, n, val) ==
  IF n < K THEN Insert([vals EXCEPT ![n + 1] = val], n + 1) ELSE vals

(* The array after sample val, when n samples were taken before. *)
add_sample(vals, n, val) ==
  IF n < K THEN Insert([vals EXCEPT ![n + 1] = val], n + 1)
  ELSE IF val < vals[K] THEN Insert([vals EXCEPT ![K] = val], K)
  ELSE vals

has_converged(vals, n) == n >= K /\ (100 + EpsPercent) * vals[1] >= 100 * vals[K]

(* Mutant: one run too many. *)
gives_up_Late(n) == n > MaxSamples

gives_up(n) == n >= MaxSamples

(* Mutant: the ticks are not compensated for. *)
get_comp_counter_Raw(ticks) == get_counter

(* ticks have been counted since start_comp_counter. *)
get_comp_counter(ticks) == get_counter - ticks * cyc_per_tick

(* The counter is read, then the ticks, and one may come in between. *)
stop ==
  /\ pc = "stop"
  /\ \E late \in 0 .. 1 :
       LET val == IF package = "fcyc_comp" THEN get_comp_counter(now.ticks + late)
                  ELSE get_counter
           n   == samplecount + 1
       IN  /\ values' = add_sample(values, samplecount, val)
           /\ samples' = Append(samples, val)
           /\ IF has_converged(values', n) \/ gives_up(n)
              THEN pc' = "idle" /\ result' = values'[1]
              ELSE pc' = "start" /\ UNCHANGED result
  /\ UNCHANGED <<package, cyc_per_tick, e, cyc, i, now>>

-----------------------------------------------------------------------------
(* ftimer.c *)

difference(new, old) == SECOND * (new[1] - old[1]) + (new[2] - old[2])

Seconds(t) == <<t \div SECOND, t % SECOND>>

(* gettimeofday, and getitimer of a timer that was set to MAX_ETIME, at    *)
(* time t; the timer counts down and has no interval to start again with.  *)
tod(t)          == Seconds(t)
CountDown(left) == Seconds(IF left > 0 THEN left ELSE 0)
itimer(t)       == CountDown(SECOND * MAX_ETIME - t)

first ==
  /\ pc = "first" /\ pc' = "loop"
  /\ \E t \in Starts : cyc' = IF package = "gettod" THEN tod(t) ELSE itimer(t)
  /\ UNCHANGED <<package, values, samples, cyc_per_tick, e, i, result, now>>

loop ==
  /\ pc = "loop" /\ i < Runs
  /\ Measured /\ i' = i + 1
  /\ UNCHANGED <<package, pc, values, samples, cyc_per_tick, e, cyc, result>>

last ==
  /\ pc = "loop" /\ i = Runs /\ pc' = "idle"
  /\ LET shown == SECOND * cyc[1] + cyc[2]
         timer == <<MAX_ETIME, 0>>
     IN  result' = IF package = "gettod" THEN difference(tod(shown + now.time), cyc)
                   ELSE difference(timer, CountDown(shown - now.time)) - difference(timer, cyc)
  /\ UNCHANGED <<package, values, samples, cyc_per_tick, e, cyc, i, now>>

-----------------------------------------------------------------------------
Step == start \/ callibrate \/ start_counter \/ run \/ stop \/ first \/ loop \/ last
Next == fsecs \/ Step

Spec == Init /\ [][Next]_vars

(* A call goes on by itself; in callibrate, because ticks keep coming. *)
FairSpec == Spec /\ WF_vars(Step)

-----------------------------------------------------------------------------
(* Counters stay within their bounds, the words of a time within theirs.   *)
TypeOK ==
  /\ pc \in {"idle", "start", "callibrate", "counter", "run", "stop", "first", "loop"}
  /\ values \in [1 .. K -> Int]
  /\ samples \in Seq(Int) /\ samplecount <= MaxSamples
  /\ cyc_per_tick \in Nat /\ e \in 0 .. NEVENT /\ i \in 0 .. Runs
  /\ cyc[1] \in Nat /\ cyc[2] \in Nat

(* The array holds the K smallest of all samples so far, in order: each    *)
(* entry stands for a sample of its own, and a sample that no entry stands *)
(* for is not smaller than any entry of a full array.  The incremental     *)
(* insertion must keep what sorting everything would give.                 *)
KeepsKBest ==
  LET n == IF K < samplecount THEN K ELSE samplecount IN
  \E of \in [1 .. n -> 1 .. samplecount] :
    /\ \A j, k \in 1 .. n : j < k => of[j] # of[k] /\ values[j] <= values[k]
    /\ \A k \in 1 .. n : values[k] = samples[of[k]]
    /\ \A m \in 1 .. samplecount :
         (\A k \in 1 .. n : of[k] # m) => n = K /\ values[K] <= samples[m]

(* A call of fcyc that ends before MaxSamples runs has K samples within    *)
(* epsilon of the time it returns, and no sample was smaller; this goes    *)
(* for the negative times, too, that a compensated counter may show.       *)
EarlyMeansAgreed ==
  pc = "idle" /\ samples # <<>> =>
    /\ \A n \in DOMAIN samples : result <= samples[n]
    /\ samplecount < MaxSamples =>
         Cardinality({n \in DOMAIN samples :
                        100 * samples[n] <= (100 + EpsPercent) * result}) >= K

(* What the sampler keeps and when it stops is what the K-best scheme is.  *)
SamplingExact == KeepsKBest /\ EarlyMeansAgreed

(* The cycle counter, read as two words, shows the time that passed,       *)
(* wherever it stood at the start and whichever word overflows.            *)
CounterExact == pc = "stop" => get_counter = now.time

(* Compensation takes what ticks cost off the time of the function and     *)
(* never leaves any of it; as it reads two clocks one after the other, it  *)
(* may take off two ticks too many, and less than nothing may be left.     *)
CompensatedWithin ==
  [][package = "fcyc_comp" /\ pc = "stop" /\ cyc_per_tick = COST =>
       LET val == samples'[Len(samples')] IN
       now.work - 2 * COST <= val /\ val <= now.work]_vars

(* The differences of seconds and fractions in ftimer.c are the time that  *)
(* passed in all runs, whichever fraction is larger.                       *)
ClockExact == pc = "idle" /\ i > 0 => result = now.time

(* Each of the three packages measures the time that passed.               *)
TimeExact == CounterExact /\ ClockExact

(* Every call returns: sampling gives up, and calibration comes to an end  *)
(* even if it finds no event worth recording.                              *)
Returns == pc # "idle" ~> pc = "idle"
=============================================================================
