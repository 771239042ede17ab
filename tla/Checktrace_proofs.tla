------------------------- MODULE Checktrace_proofs -------------------------
(***************************************************************************)
(* Proofs about Checktrace, for every set of trace files and every trace   *)
(* from elsewhere, of any length, and about the files of the generators.   *)
(***************************************************************************)
EXTENDS Checktrace, Generators, Structures

Request == [cmd : {"a", "r", "f"}, id : Ids]
Line    == [cmd : FirstWords, id : Ids]

(* The inductive invariant.  Besides what the runs check, the lines read   *)
(* so far are those of the file, and while a trace is read the table has   *)
(* entries "a" only.                                                       *)
StateOK ==
  /\ file \in Files \cup {Elsewhere}
  /\ lines \in Seq(Line) /\ num_ops \in Nat
  /\ HASH \in [DOMAIN HASH -> {"a", "x"}]
  /\ DOMAIN HASH \subseteq Ids /\ IsFiniteSet(DOMAIN HASH)
  /\ status \in {"reading", "died", "printed", "Balanced", "Unbalanced"}

TraceOK ==
  /\ file # Elsewhere => IsTrace(lines)
  /\ status = "reading" /\ IsTrace(lines) => HASH \in [DOMAIN HASH -> {"a"}]

ReadSoFar ==
  status \in {"reading", "died"} /\ file # Elsewhere =>
    /\ Len(lines) <= Len(file.ops)
    /\ \A n \in 1 .. Len(lines) : lines[n] = file.ops[n]

OutputAgrees == HeaderHolds(file) => OutputReadable

IInv == StateOK /\ TraceOK /\ ReadsRight /\ ReadSoFar /\ PrintsBalanced /\ OutputAgrees

-----------------------------------------------------------------------------
(* The order perl's keys come in: every element once. *)
LEMMA SetToSeqProperties ==
  ASSUME NEW S, IsFiniteSet(S)
  PROVE  /\ Cardinality(S) \in Nat
         /\ DOMAIN SetToSeq(S) = 1 .. Cardinality(S)
         /\ \A i, j \in 1 .. Cardinality(S) : SetToSeq(S)[i] = SetToSeq(S)[j] => i = j
         /\ S = {SetToSeq(S)[i] : i \in 1 .. Cardinality(S)}
<1> DEFINE c == Cardinality(S)
           f == SetToSeq(S)
<1>1. c \in Nat /\ ExistsBijection(1 .. c, S)
  BY FS_CardinalityType
<1>2. \E g \in [1 .. c -> S] : IsInjective(g)
  BY <1>1 DEF ExistsBijection, Bijection, Injection
<1>3. f \in [1 .. c -> S] /\ IsInjective(f)
  BY <1>2 DEF SetToSeq
<1> HIDE DEF f
<1>4. f \in Injection(1 .. c, S)
  BY <1>3 DEF Injection
<1>5. Cardinality(1 .. c) = c
  <2>1. Cardinality(1 .. c) = IF 1 > c THEN 0 ELSE c - 1 + 1
    BY <1>1, FS_Interval
  <2> HIDE DEF c
  <2> QED
    BY <1>1, <2>1
<1>6. f \in Surjection(1 .. c, S)
  BY <1>4, <1>5, FS_Injection
<1>7. S = {f[i] : i \in 1 .. c}
  BY <1>3, <1>6 DEF Surjection
<1>8. \A i, j \in 1 .. c : f[i] = f[j] => i = j
  BY <1>3 DEF IsInjective
<1> QED
  BY <1>1, <1>3, <1>7, <1>8 DEF f

(* A trace is a sequence of requests. *)
LEMMA TraceRequests ==
  ASSUME NEW ls \in Seq(Line), IsTrace(ls)
  PROVE  ls \in Seq(Request)
<1>1. ls \in [1 .. Len(ls) -> Line] /\ Len(ls) \in Nat
  OBVIOUS
<1>2. \A n \in 1 .. Len(ls) : ls[n] \in Request
  BY <1>1 DEF IsTrace, Commands, Line, Request
<1>3. ls \in [1 .. Len(ls) -> Request]
  BY <1>1, <1>2
<1> QED
  BY <1>1, <1>3

(* Every request is a line. *)
LEMMA RequestIsLine ==
  Request \subseteq Line
BY DEF Request, Line, FirstWords, Commands

(* What NextLine yields is a line, and for a file the next of its own. *)
LEMMA NextLineIsLine ==
  ASSUME IInv, NEW q \in NextLine
  PROVE  /\ q \in Line
         /\ file # Elsewhere => /\ Len(lines) + 1 <= Len(file.ops)
                                /\ q = file.ops[Len(lines) + 1] /\ q \in Request
<1>1. /\ file \in Files => file.ops \in Seq(Request)
      /\ AnyIds \subseteq Ids
  BY ChecktraceAssumption DEF ChecktraceAssumption, Request
<1>2. CASE file = Elsewhere
  BY <1>1, <1>2 DEF NextLine, Line
<1>3. CASE file # Elsewhere
  <2>1. file \in Files /\ file.ops \in Seq(Request) /\ DOMAIN file.ops = 1 .. Len(file.ops)
        /\ Len(file.ops) \in Nat
    BY <1>1, <1>3 DEF IInv, StateOK
  <2>2. PICK n \in {Len(lines) + 1} \cap DOMAIN file.ops : q = file.ops[n]
    BY <1>3 DEF NextLine
  <2>3. Len(lines) + 1 <= Len(file.ops) /\ q = file.ops[Len(lines) + 1] /\ q \in Request
    BY <2>1, <2>2
  <2> QED
    BY <2>3, RequestIsLine
<1> QED
  BY <1>2, <1>3

(* What the invariant says of a trace that is being read. *)
LEMMA ReadingTrace ==
  ASSUME IInv, status = "reading", IsTrace(lines)
  PROVE  /\ lines \in Seq(Request) /\ WellFormed(lines)
         /\ HASH \in [DOMAIN HASH -> {"a"}] /\ DOMAIN HASH = Before(lines, Len(lines) + 1)
<1>1. lines \in Seq(Request)
  BY TraceRequests DEF IInv, StateOK
<1> QED
  BY <1>1 DEF IInv, TraceOK, ReadsRight, DiesOnlyIfIllFormed, TallyExact

(* While it reads a trace, the table tells whether a request is in order. *)
LEMMA DiesRight ==
  ASSUME IInv, status = "reading", IsTrace(lines), NEW q \in Request
  PROVE  Dies(q) <=> ~ WellFormed(Append(lines, q))
<1>1. WellFormed(lines) /\ DOMAIN HASH = Before(lines, Len(lines) + 1)
  BY ReadingTrace
<1>2. lines \in Seq(Request) /\ \A i \in DOMAIN HASH : HASH[i] = "a"
  BY ReadingTrace
<1>3. WellFormed(Append(lines, q)) <=>
        /\ q.cmd = "a" => q.id \notin DOMAIN HASH
        /\ q.cmd # "a" => q.id \in DOMAIN HASH
  BY <1>1, <1>2, WellFormedAppend
<1>4. q.cmd \in {"a", "r", "f"}
  BY DEF Request
<1> QED
  BY <1>2, <1>3, <1>4 DEF Dies, Outstanding

(* The table after a line holds the line's id, or lost it, or is as before. *)
LEMMA TallyOK ==
  ASSUME StateOK, NEW q \in Line, ~ Dies(q)
  PROVE  /\ Tally(q) \in [DOMAIN Tally(q) -> {"a", "x"}]
         /\ DOMAIN Tally(q) \subseteq Ids /\ IsFiniteSet(DOMAIN Tally(q))
<1>1. /\ HASH \in [DOMAIN HASH -> {"a", "x"}] /\ DOMAIN HASH \subseteq Ids
      /\ IsFiniteSet(DOMAIN HASH) /\ q.id \in Ids /\ q.cmd \in {"a", "r", "f", "x"}
  BY DEF StateOK, Line, FirstWords, Commands
<1>2. CASE q.cmd = "r"
  <2>1. Tally(q) = HASH
    BY <1>2 DEF Tally
  <2> QED
    BY <1>1, <2>1
<1>3. CASE q.cmd = "f"
  <2>1. Tally(q) = [i \in DOMAIN HASH \ {q.id} |-> HASH[i]]
    BY <1>3 DEF Tally
  <2>2. IsFiniteSet(DOMAIN HASH \ {q.id})
    BY <1>1, FS_RemoveElement
  <2> QED
    BY <1>1, <2>1, <2>2
<1>4. CASE q.cmd \in {"a", "x"}
  <2>1. Tally(q) = [i \in DOMAIN HASH \cup {q.id} |-> IF i = q.id THEN q.cmd ELSE HASH[i]]
    BY <1>4 DEF Tally
  <2>2. IsFiniteSet(DOMAIN HASH \cup {q.id})
    BY <1>1, FS_AddElement
  <2> QED
    BY <1>1, <1>4, <2>1, <2>2
<1> QED
  BY <1>1, <1>2, <1>3, <1>4

-----------------------------------------------------------------------------
(* The start, the reading of a line, and the two ends. *)
LEMMA IInvInitially ==
  ASSUME Init
  PROVE  IInv
<1>1. <<>> \in Seq(Line) /\ Len(<<>>) = 0 /\ DOMAIN <<>> = {} /\ IsFiniteSet({})
  BY FS_EmptySet
<1>2. WellFormed(<<>>) /\ Before(<<>>, 0 + 1) = {}
  BY <1>1, BeforeStart DEF WellFormed
<1>3. StateOK /\ TraceOK
  BY <1>1 DEF Init, StateOK, TraceOK, IsTrace
<1>4. ReadsRight
  BY <1>1, <1>2 DEF Init, ReadsRight, DiesOnlyIfIllFormed, TallyExact
<1>5. ReadSoFar
  <2>1. file \in Files => Len(file.ops) \in Nat
    <3>1. file \in Files => file.ops \in Seq(Request)
      BY ChecktraceAssumption DEF ChecktraceAssumption, Request
    <3> QED
      BY <3>1
  <2> QED
    BY <1>1, <2>1 DEF Init, ReadSoFar
<1>6. PrintsBalanced /\ OutputAgrees
  BY DEF Init, PrintsBalanced, OutputAgrees, OutputReadable
<1> QED
  BY <1>3, <1>4, <1>5, <1>6 DEF IInv

(* Of a trace, the table stays the ids that are allocated. *)
LEMMA TallyFollows ==
  ASSUME IInv, status = "reading", IsTrace(lines), NEW q \in Request, ~ Dies(q)
  PROVE  /\ Tally(q) \in [DOMAIN Tally(q) -> {"a"}]
         /\ DOMAIN Tally(q) = Before(Append(lines, q), Len(Append(lines, q)) + 1)
<1> DEFINE ls == Append(lines, q)
           n == Len(lines) + 1
<1>1. /\ lines \in Seq(Request) /\ WellFormed(lines)
      /\ HASH \in [DOMAIN HASH -> {"a"}] /\ DOMAIN HASH = Before(lines, n)
  BY ReadingTrace
<1>2. q.cmd \in {"a", "r", "f"} /\ q.id \in Ids
  BY DEF Request
<1>3. Before(ls, n) = DOMAIN HASH
  <2>1. n \in 0 .. Len(lines) + 1
    BY <1>1
  <2> QED
    BY <1>1, <2>1, WellFormedAppend
<1>4. n \in Nat /\ n > 0 /\ Len(ls) + 1 = n + 1 /\ ls[n] = q
  BY <1>1
<1> HIDE DEF ls, n
<1>5. /\ q.cmd = "a" => Before(ls, n + 1) = DOMAIN HASH \cup {q.id}
      /\ q.cmd = "f" => Before(ls, n + 1) = DOMAIN HASH \ {q.id}
      /\ q.cmd = "r" => Before(ls, n + 1) = DOMAIN HASH
  <2>1. /\ q.cmd = "a" => Before(ls, n + 1) = Before(ls, n) \cup ({q.id} \cap Ids)
        /\ q.cmd = "f" => Before(ls, n + 1) = Before(ls, n) \ {q.id}
        /\ q.cmd \notin {"a", "f"} => Before(ls, n + 1) = Before(ls, n)
    BY <1>4, BeforeStep
  <2> QED
    BY <1>2, <1>3, <2>1
<1>6. Tally(q) \in [DOMAIN Tally(q) -> {"a"}] /\ DOMAIN Tally(q) = Before(ls, Len(ls) + 1)
  <2>1. CASE q.cmd = "a"
    <3>1. Tally(q) = [i \in DOMAIN HASH \cup {q.id} |-> IF i = q.id THEN "a" ELSE HASH[i]]
      BY <2>1 DEF Tally
    <3> QED
      BY <1>1, <1>4, <1>5, <2>1, <3>1
  <2>2. CASE q.cmd = "f"
    <3>1. Tally(q) = [i \in DOMAIN HASH \ {q.id} |-> HASH[i]]
      BY <2>2 DEF Tally
    <3> QED
      BY <1>1, <1>4, <1>5, <2>2, <3>1
  <2>3. CASE q.cmd = "r"
    <3>1. Tally(q) = HASH
      BY <2>3 DEF Tally
    <3> QED
      BY <1>1, <1>4, <1>5, <2>3, <3>1
  <2> QED
    BY <1>2, <2>1, <2>2, <2>3
<1> QED
  BY <1>6 DEF ls

(* Reading a line keeps the invariant, whether the script dies or goes on. *)
LEMMA ReadKeeps ==
  ASSUME IInv, NEW q \in NextLine, read(q)
  PROVE  IInv'
<1>1. /\ status = "reading" /\ lines' = Append(lines, q) /\ file' = file /\ num_ops' = num_ops
      /\ Dies(q) => status' = "died" /\ HASH' = HASH
      /\ ~ Dies(q) => HASH' = Tally(q) /\ status' = status
  BY DEF read
<1>2. q \in Line /\ lines \in Seq(Line)
  BY NextLineIsLine DEF IInv, StateOK
<1>3. /\ lines' \in Seq(Line) /\ Len(lines') = Len(lines) + 1 /\ Len(lines) \in Nat
      /\ DOMAIN lines' = 1 .. Len(lines) + 1 /\ DOMAIN lines = 1 .. Len(lines)
      /\ lines'[Len(lines) + 1] = q /\ \A n \in 1 .. Len(lines) : lines'[n] = lines[n]
  BY <1>1, <1>2
<1>4. IsTrace(lines') <=> IsTrace(lines) /\ q \in Request
  <2>1. q \in Request <=> q.cmd \in Commands
    BY <1>2 DEF Line, Request, Commands
  <2>2. 1 .. Len(lines) + 1 = (1 .. Len(lines)) \cup {Len(lines) + 1}
    BY <1>3
  <2> QED
    BY <1>3, <2>1, <2>2 DEF IsTrace
<1>5. StateOK'
  <2>1. CASE Dies(q)
    BY <1>1, <1>3, <2>1 DEF IInv, StateOK
  <2>2. CASE ~ Dies(q)
    BY <1>1, <1>2, <1>3, <2>2, TallyOK DEF IInv, StateOK
  <2> QED
    BY <2>1, <2>2
<1>6. ASSUME IsTrace(lines')
      PROVE  /\ status' = "died" <=> ~ WellFormed(lines')
             /\ status' = "reading" => /\ HASH' \in [DOMAIN HASH' -> {"a"}]
                                       /\ DOMAIN HASH' = Before(lines', Len(lines') + 1)
  <2>1. IsTrace(lines) /\ q \in Request
    BY <1>4, <1>6
  <2>2. Dies(q) <=> ~ WellFormed(lines')
    BY <1>1, <2>1, DiesRight
  <2>3. ~ Dies(q) => /\ Tally(q) \in [DOMAIN Tally(q) -> {"a"}]
                     /\ DOMAIN Tally(q) = Before(lines', Len(lines') + 1)
    BY <1>1, <2>1, TallyFollows
  <2> QED
    BY <1>1, <2>2, <2>3
<1>7. TraceOK'
  <2>1. file # Elsewhere => IsTrace(lines')
    BY <1>4, NextLineIsLine DEF IInv, TraceOK
  <2> QED
    BY <1>1, <1>6, <2>1 DEF TraceOK
<1>8. ReadsRight'
  BY <1>6 DEF ReadsRight, DiesOnlyIfIllFormed, TallyExact
<1>9. ReadSoFar'
  <2> SUFFICES ASSUME file' # Elsewhere
               PROVE  /\ Len(lines') <= Len(file.ops)
                      /\ \A n \in 1 .. Len(lines') : lines'[n] = file.ops[n]
    BY <1>1 DEF ReadSoFar
  <2>1. Len(lines) + 1 <= Len(file.ops) /\ q = file.ops[Len(lines) + 1]
    BY <1>1, NextLineIsLine
  <2>2. \A n \in 1 .. Len(lines) : lines[n] = file.ops[n]
    BY <1>1 DEF IInv, ReadSoFar
  <2>3. 1 .. Len(lines') = (1 .. Len(lines)) \cup {Len(lines) + 1}
    BY <1>3
  <2> QED
    BY <1>3, <2>1, <2>2, <2>3
<1>10. status' \in {"reading", "died"}
  BY <1>1
<1>11. PrintsBalanced' /\ OutputAgrees'
  BY <1>10 DEF PrintsBalanced, OutputAgrees, OutputReadable
<1> QED
  BY <1>5, <1>7, <1>8, <1>9, <1>11 DEF IInv

(* The place of the first element that passes a test, or 0. *)
LEMMA FirstPlace ==
  ASSUME NEW I, NEW n \in Nat, I \subseteq 1 .. n
  PROVE  /\ (IF I # {} THEN Min(I) ELSE 0) \in 0 .. n
         /\ (IF I # {} THEN Min(I) ELSE 0) = 0 <=> I = {}
<1>1. I # {} => Min(I) \in I
  <2>1. I # {} => \E x \in I : \A y \in I : x <= y
    BY NatMinimum
  <2> QED
    BY <2>1 DEF Min
<1>2. \A x \in I : x \in Int /\ 1 <= x /\ x <= n
  OBVIOUS
<1> DEFINE m == Min(I)
<1>3. I # {} => m \in I /\ m \in Int /\ 1 <= m /\ m <= n
  BY <1>1, <1>2
<1> HIDE DEF m
<1>4. /\ (IF I # {} THEN m ELSE 0) \in 0 .. n
      /\ (IF I # {} THEN m ELSE 0) = 0 <=> I = {}
  BY <1>3
<1> QED
  BY <1>4 DEF m

(* What is printed: the lines and the frees; of a trace, all of them. *)
LEMMA PrintKeeps ==
  ASSUME IInv, print
  PROVE  IInv'
<1> DEFINE D == DOMAIN HASH
           c == Cardinality(D)
           rest == SetToSeq(D)
           I == {i \in 1 .. Len(rest) : HASH[rest[i]] \notin {"a", "r"}}
           invalid == IF I # {} THEN Min(I) ELSE 0
           d == IF invalid = 0 THEN Len(rest) ELSE invalid - 1
           frees == [i \in 1 .. d |-> [cmd |-> "f", id |-> rest[i]]]
           l == Len(lines)
<1>1. /\ status = "reading" /\ EndOfFile
      /\ status' = IF invalid = 0 THEN "printed" ELSE "died"
      /\ num_ops' = old_num_ops + c /\ lines' = lines \o frees /\ file' = file /\ HASH' = HASH
  <2>1. SelectInSeq(rest, LAMBDA i : HASH[i] \notin {"a", "r"}) = invalid
    BY DEF SelectInSeq
  <2> QED
    BY <2>1, Zenon DEF print, PrintAll
<1>2. lines \in Seq(Line) /\ l \in Nat /\ D \subseteq Ids
  BY DEF IInv, StateOK
<1>3. /\ c \in Nat /\ DOMAIN rest = 1 .. c /\ D = {rest[i] : i \in 1 .. c}
      /\ \A i, j \in 1 .. c : rest[i] = rest[j] => i = j
  <2>1. IsFiniteSet(D)
    BY DEF IInv, StateOK
  <2> HIDE DEF D
  <2> QED
    BY <2>1, SetToSeqProperties
<1>4. Len(rest) = c
  BY <1>3
<1>5. ASSUME IsTrace(lines) PROVE I = {}
  <2>1. \A i \in D : HASH[i] = "a"
    BY <1>1, <1>5, ReadingTrace
  <2> HIDE DEF D, rest, c
  <2> QED
    BY <1>3, <1>4, <2>1
<1> HIDE DEF D, c, rest
<1>6. invalid \in 0 .. c /\ (invalid = 0 <=> I = {})
  <2>1. I \subseteq 1 .. c
    BY <1>4
  <2> HIDE DEF I
  <2> QED
    BY <1>3, <2>1, FirstPlace
<1> HIDE DEF I, invalid
<1>7. d \in 0 .. c /\ (I = {} => d = c)
  BY <1>3, <1>4, <1>6
<1> HIDE DEF d
<1>8. frees \in Seq(Line) /\ Len(frees) = d
      /\ \A i \in 1 .. d : frees[i].cmd = "f" /\ frees[i].id = rest[i]
  <2>1. \A i \in 1 .. d : rest[i] \in Ids
    BY <1>2, <1>3, <1>7
  <2>2. frees \in [1 .. d -> Line]
    BY <2>1 DEF Line, FirstWords, Commands
  <2> QED
    BY <1>7, <2>2
<1> HIDE DEF frees
<1>9. /\ lines' \in Seq(Line) /\ Len(lines') = l + d /\ DOMAIN lines' = 1 .. l + d
      /\ \A n \in 1 .. l : lines'[n] = lines[n]
      /\ \A i \in 1 .. d : lines'[l + i] = frees[i]
  <2>1. lines' \in Seq(Line) /\ Len(lines') = l + d
        /\ \A n \in 1 .. l + d : lines'[n] = IF n <= l THEN lines[n] ELSE frees[n - l]
    BY <1>1, <1>2, <1>8, ConcatProperties
  <2>2. \A i \in 1 .. d : l + i \in 1 .. l + d /\ ~ (l + i <= l) /\ (l + i) - l = i
    BY <1>2, <1>7
  <2> QED
    BY <1>2, <1>7, <2>1, <2>2
<1>10. \A n \in 1 .. l + d : n \in 1 .. l \/ \E i \in 1 .. d : n = l + i
  <2>1. \A n \in 1 .. l + d : n \in 1 .. l \/ (n - l \in 1 .. d /\ n = l + (n - l))
    BY <1>2, <1>7
  <2> QED
    BY <2>1
<1>11. IsTrace(lines') <=> IsTrace(lines)
  <2>1. DOMAIN lines = 1 .. l /\ 1 .. l \subseteq 1 .. l + d
    BY <1>2, <1>7
  <2>2. \A i \in 1 .. d : lines'[l + i].cmd \in Commands
    BY <1>8, <1>9 DEF Commands
  <2> QED
    BY <1>9, <1>10, <2>1, <2>2 DEF IsTrace
<1>12. num_ops' \in Nat
  <2>1. file \in Files => file.num_ops \in Nat
    BY ChecktraceAssumption DEF ChecktraceAssumption
  <2>2. old_num_ops \in Nat
    BY <1>2, <2>1 DEF old_num_ops, IInv, StateOK
  <2> QED
    BY <1>1, <1>3, <2>2
<1>13. StateOK' /\ TraceOK'
  BY <1>1, <1>9, <1>11, <1>12 DEF IInv, StateOK, TraceOK
<1>14. CASE ~ IsTrace(lines)
  <2>1. file = Elsewhere
    BY <1>14 DEF IInv, TraceOK
  <2>2. ReadsRight' /\ ReadSoFar' /\ PrintsBalanced' /\ OutputAgrees'
    BY <1>1, <1>11, <1>14, <2>1 DEF ReadsRight, DiesOnlyIfIllFormed, TallyExact, ReadSoFar,
                                    PrintsBalanced, OutputAgrees, OutputReadable
  <2> QED
    BY <1>13, <2>2 DEF IInv
<1>15. CASE IsTrace(lines)
  <2>1. status' = "printed" /\ d = c
    BY <1>1, <1>5, <1>6, <1>7, <1>15
  <2>2. WellFormed(lines) /\ lines \in Seq(Request) /\ D = Before(lines, l + 1)
    BY <1>1, <1>15, ReadingTrace DEF D
  <2>3. Balanced(lines')
    <3>1. Before(lines, Len(lines) + 1) = {rest[i] : i \in 1 .. c}
      BY <1>3, <2>2
    <3>2. \A i \in 1 .. c : lines'[Len(lines) + i].cmd = "f" /\ lines'[Len(lines) + i].id = rest[i]
      BY <1>8, <1>9, <2>1
    <3>3. DOMAIN lines' = 1 .. Len(lines) + c /\ Len(lines') = Len(lines) + c
      BY <1>9, <2>1
    <3>4. \A n \in 1 .. Len(lines) : lines'[n] = lines[n]
      BY <1>9
    <3>5. FollowedByFrees(lines', lines, rest, c)
      BY <1>3, <3>1, <3>2, <3>3, <3>4 DEF FollowedByFrees
    <3> HIDE DEF l
    <3> QED
      BY <1>3, <2>2, <3>5, FreesBalance
  <2>4. ReadsRight' /\ ReadSoFar' /\ PrintsBalanced'
    BY <2>1, <2>3 DEF Balanced, ReadsRight, DiesOnlyIfIllFormed, TallyExact, ReadSoFar,
                      PrintsBalanced
  <2>5. OutputAgrees'
    <3> SUFFICES ASSUME HeaderHolds(file), file # Elsewhere
                 PROVE  HeaderHolds([num_ids |-> file.num_ids, num_ops |-> num_ops', ops |-> lines'])
      BY <1>1 DEF OutputAgrees, OutputReadable
    <3>1. /\ file.ops \in Seq(Request) /\ Len(file.ops) \in Nat
          /\ DOMAIN file.ops = 1 .. Len(file.ops)
      <4>1. file \in Files
        BY DEF IInv, StateOK
      <4>2. file.ops \in Seq(Request)
        BY <4>1, ChecktraceAssumption DEF ChecktraceAssumption, Request
      <4> QED
        BY <4>2
    <3>2. l = Len(file.ops) /\ \A n \in 1 .. l : lines[n] = file.ops[n]
      BY <1>1 DEF EndOfFile, IInv, ReadSoFar
    <3>3. num_ops' = Len(lines')
      BY <1>1, <1>9, <2>1, <3>2 DEF HeaderHolds, old_num_ops
    <3>4. {lines'[n].id : n \in {k \in DOMAIN lines' : lines'[k].cmd # "f"}}
            = {file.ops[n].id : n \in {k \in DOMAIN file.ops : file.ops[k].cmd # "f"}}
      <4>1. \A n \in 1 .. l : n \in 1 .. l + d /\ lines'[n] = file.ops[n]
        BY <1>2, <1>7, <1>9, <3>2
      <4>2. \A i \in 1 .. d : lines'[l + i].cmd = "f"
        BY <1>8, <1>9
      <4>3. {k \in DOMAIN lines' : lines'[k].cmd # "f"}
              = {k \in DOMAIN file.ops : file.ops[k].cmd # "f"}
        <5>1. \A k \in 1 .. l + d : lines'[k].cmd # "f" => k \in 1 .. l
          BY <1>10, <4>2
        <5> QED
          BY <1>9, <3>1, <3>2, <4>1, <5>1
      <4>4. \A n \in {k \in DOMAIN file.ops : file.ops[k].cmd # "f"} : lines'[n] = file.ops[n]
        BY <3>1, <3>2, <4>1
      <4> QED
        BY <4>3, <4>4
    <3> QED
      BY <3>3, <3>4 DEF HeaderHolds
  <2> QED
    BY <1>13, <2>4, <2>5 DEF IInv
<1> QED
  BY <1>14, <1>15

(* At the end of the file HASH holds the ids that were not freed.          *)
LEMMA SummaryKeeps ==
  ASSUME IInv, summary
  PROVE  IInv'
<1>1. /\ status = "reading" /\ UNCHANGED <<file, lines, HASH, num_ops>>
      /\ status' = IF HASH = <<>> THEN "Balanced" ELSE "Unbalanced"
  BY DEF summary
<1>2. IsTrace(lines) => /\ WellFormed(lines) /\ DOMAIN HASH = Before(lines, Len(lines) + 1)
                        /\ HASH \in [DOMAIN HASH -> {"a"}]
  BY <1>1, ReadingTrace
<1>3. HASH = <<>> <=> DOMAIN HASH = {}
  <2>1. DOMAIN <<>> = {}
    OBVIOUS
  <2>2. ASSUME DOMAIN HASH = {} PROVE HASH = <<>>
    <3>1. HASH \in [{} -> {"a", "x"}] /\ <<>> \in [{} -> {"a", "x"}]
      BY <2>2 DEF IInv, StateOK
    <3> QED
      BY <3>1
  <2> QED
    BY <2>1, <2>2
<1>4. PrintsBalanced'
  BY <1>1, <1>2, <1>3 DEF PrintsBalanced, Balanced
<1>5. StateOK' /\ TraceOK'
  BY <1>1 DEF IInv, StateOK, TraceOK
<1>6. ReadsRight' /\ ReadSoFar' /\ OutputAgrees'
  BY <1>1, <1>2 DEF ReadsRight, DiesOnlyIfIllFormed, TallyExact, ReadSoFar, OutputAgrees,
                    OutputReadable
<1> QED
  BY <1>4, <1>5, <1>6 DEF IInv

(* The invariant holds in every reachable state. *)
THEOREM Invariance == Spec => []IInv
<1>1. Init => IInv
  BY IInvInitially
<1>2. IInv /\ [Next]_vars => IInv'
  <2> SUFFICES ASSUME IInv, [Next]_vars PROVE IInv'
    OBVIOUS
  <2>1. CASE \E q \in NextLine : read(q)
    BY <2>1, ReadKeeps
  <2>2. CASE print
    BY <2>2, PrintKeeps
  <2>3. CASE summary
    BY <2>3, SummaryKeeps
  <2>4. CASE UNCHANGED vars
    BY <2>4 DEF vars, IInv, StateOK, TraceOK, ReadsRight, DiesOnlyIfIllFormed, TallyExact, ReadSoFar,
                PrintsBalanced, OutputAgrees, OutputReadable
  <2> QED
    BY <2>1, <2>2, <2>3, <2>4 DEF Next
<1> QED
  BY <1>1, <1>2, PTL DEF Spec

(* Whatever the lines, the table never holds a freed id marked as freed:   *)
(* no reuse of an id after its free is ever found out.                     *)
THEOREM TypeCorrect == Spec => []TypeOK
<1>1. IInv => TypeOK
  <2> SUFFICES ASSUME IInv PROVE TypeOK
    OBVIOUS
  <2>1. \A q \in ToSet(lines) : q \in Line
    <3>1. lines \in Seq(Line)
      BY DEF IInv, StateOK
    <3> QED
      BY <3>1 DEF ToSet
  <2> QED
    BY <2>1 DEF TypeOK, IInv, StateOK, Line
<1> QED
  BY <1>1, Invariance, PTL

(* Of lines that are requests, the script dies exactly at the first one    *)
(* that the driver could not carry out, and its table is the set of ids    *)
(* the requests left allocated.                                            *)
THEOREM ReadsCorrectly == Spec => []ReadsRight
<1>1. IInv => ReadsRight
  BY DEF IInv
<1> QED
  BY <1>1, Invariance, PTL

(* What it prints of requests is balanced and is read back, if the headers *)
(* of the files agree with their traces; what it says with -s is true.     *)
THEOREM PrintsCorrectly ==
  ASSUME \A f \in Files : HeaderHolds(f)
  PROVE  Spec => []PrintsRight
<1>1. IInv => PrintsRight
  BY DEF IInv, StateOK, OutputAgrees, OutputReadable, PrintsRight
<1> QED
  BY <1>1, Invariance, PTL

(* No file of requests that the driver can carry out is rejected. *)
THEOREM WellFormedAccepted ==
  ASSUME \A f \in Files : HeaderHolds(f) /\ WellFormed(f.ops)
  PROVE  Spec => []GeneratedAccepted
<1>1. IInv => GeneratedAccepted
  <2> SUFFICES ASSUME IInv, file # Elsewhere, status = "died" PROVE FALSE
    BY DEF IInv, StateOK, GeneratedAccepted
  <2>1. file \in Files /\ IsTrace(lines) /\ lines \in Seq(Request)
    BY TraceRequests DEF IInv, StateOK, TraceOK
  <2>2. file.ops \in Seq(Request) /\ WellFormed(file.ops)
    BY <2>1, ChecktraceAssumption DEF ChecktraceAssumption, Request
  <2>3. Len(lines) <= Len(file.ops) /\ \A n \in 1 .. Len(lines) : lines[n] = file.ops[n]
    BY DEF IInv, ReadSoFar
  <2>4. WellFormed(lines)
    BY <2>1, <2>2, <2>3, WellFormedPrefix
  <2> QED
    BY <2>1, <2>4 DEF IInv, ReadsRight, DiesOnlyIfIllFormed
<1> QED
  BY <1>1, Invariance, PTL

-----------------------------------------------------------------------------
(* The files that the generators write. *)

(* A request tells its command and its id. *)
LEMMA RequestParts ==
  ASSUME NEW x, NEW y
  PROVE  /\ Alloc(x).cmd = "a" /\ Alloc(x).id = x
         /\ Free(x).cmd = "f" /\ Free(x).id = x
         /\ Realloc(x).cmd = "r" /\ Realloc(x).id = x
         /\ Alloc(x) = Alloc(y) => x = y
         /\ Free(x) = Free(y) => x = y
         /\ Realloc(x) = Realloc(y) => x = y
         /\ Alloc(x) # Free(y) /\ Alloc(x) # Realloc(y) /\ Free(x) # Realloc(y)
<1>1. \A z : /\ Alloc(z).cmd = "a" /\ Alloc(z).id = z
             /\ Free(z).cmd = "f" /\ Free(z).id = z
             /\ Realloc(z).cmd = "r" /\ Realloc(z).id = z
  BY DEF Alloc, Free, Realloc
<1> QED
  BY <1>1

(* The traces of all generators: an id is allocated and freed once, freed  *)
(* or reallocated after its allocation, and not reallocated after its free. *)
OnceEach(tr) ==
  /\ \A m, n \in DOMAIN tr : tr[m] = tr[n] /\ tr[n].cmd # "r" => m = n
  /\ \A n \in DOMAIN tr : tr[n].cmd # "a" => \E k \in 1 .. n - 1 : tr[k] = Alloc(tr[n].id)
  /\ \A m, n \in DOMAIN tr : tr[m] = Free(tr[n].id) /\ tr[n].cmd = "r" => n < m

(* A client may issue such a trace. *)
LEMMA OnceWellFormed ==
  ASSUME NEW tr \in Seq(Request), OnceEach(tr)
  PROVE  WellFormed(tr)
<1> SUFFICES ASSUME NEW n \in 1 .. Len(tr)
             PROVE  IF tr[n].cmd = "a" THEN tr[n].id \notin Before(tr, n)
                                       ELSE tr[n].id \in Before(tr, n)
  BY DEF WellFormed
<1>1. \A k \in 1 .. Len(tr) : tr[k] \in Request
  OBVIOUS
<1>2. \A k \in 1 .. Len(tr) : tr[k] = [cmd |-> tr[k].cmd, id |-> tr[k].id] /\ tr[k].id \in Ids
  BY <1>1 DEF Request
<1>3. CASE tr[n].cmd = "a"
  <2> SUFFICES ASSUME tr[n].id \in Before(tr, n) PROVE FALSE
    BY <1>3
  <2>1. PICK k \in 1 .. n - 1 : tr[k].cmd = "a" /\ tr[k].id = tr[n].id
    BY DEF Before
  <2>2. tr[k] = tr[n] /\ k \in 1 .. Len(tr)
    <3>1. k \in 1 .. Len(tr) /\ n \in 1 .. Len(tr)
      OBVIOUS
    <3>2. tr[k] = [cmd |-> tr[k].cmd, id |-> tr[k].id] /\ tr[n] = [cmd |-> tr[n].cmd, id |-> tr[n].id]
      BY <1>2, <3>1
    <3> QED
      BY <1>3, <2>1, <3>1, <3>2
  <2>3. k = n
    BY <1>3, <2>2 DEF OnceEach
  <2> QED
    BY <2>1, <2>3
<1>4. CASE tr[n].cmd # "a"
  <2>1. PICK k \in 1 .. n - 1 : tr[k] = Alloc(tr[n].id)
    BY <1>4 DEF OnceEach
  <2>2. tr[k].cmd = "a" /\ tr[k].id = tr[n].id
    BY <2>1 DEF Alloc
  <2>3. ASSUME NEW j \in k + 1 .. n - 1, tr[j].cmd = "f", tr[j].id = tr[n].id PROVE FALSE
    <3>1. j \in 1 .. Len(tr) /\ j < n
      OBVIOUS
    <3>2. tr[j] = Free(tr[n].id)
      BY <1>2, <2>3, <3>1 DEF Free
    <3>3. CASE tr[n].cmd = "r"
      <4>1. n < j
        BY <3>1, <3>2, <3>3 DEF OnceEach
      <4> QED
        BY <3>1, <4>1
    <3>4. CASE tr[n].cmd # "r"
      <4>1. tr[n].cmd = "f"
        BY <1>1, <1>4, <3>4 DEF Request
      <4>2. tr[j] = tr[n]
        BY <1>2, <3>2, <4>1 DEF Free
      <4>3. j = n
        BY <3>1, <3>4, <4>2 DEF OnceEach
      <4> QED
        BY <3>1, <4>3
    <3> QED
      BY <3>3, <3>4
  <2>4. tr[n].id \in Before(tr, n)
    BY <1>2, <2>2, <2>3 DEF Before
  <2> QED
    BY <1>4, <2>4
<1> QED
  BY <1>3, <1>4

(* The header agrees with the requests when the last id is below num_ids.  *)
LEMMA HeaderTrue ==
  ASSUME NEW f, NEW R, f.ops \in Seq(R), f.num_ops = Len(f.ops), f.num_ids \in Nat,
         NEW m \in 1 .. Len(f.ops), f.ops[m].cmd # "f", f.ops[m].id = f.num_ids - 1,
         \A n \in 1 .. Len(f.ops) : f.ops[n].id \in 0 .. f.num_ids - 1
  PROVE  HeaderHolds(f)
<1> DEFINE S == {f.ops[n].id : n \in {k \in DOMAIN f.ops : f.ops[k].cmd # "f"}}
           N == 0 .. f.num_ids - 1
<1>1. DOMAIN f.ops = 1 .. Len(f.ops)
  OBVIOUS
<1>2. {0} \cup S \subseteq N /\ f.num_ids - 1 \in S /\ N \subseteq Int
  BY <1>1
<1>3. IsFiniteSet(N)
  <2>1. \A i, j \in Int : IsFiniteSet(i .. j)
    BY FS_Interval
  <2> QED
    BY <2>1
<1> HIDE DEF S, N
<1>4. IsFiniteSet({0} \cup S) /\ {0} \cup S \subseteq Int /\ {0} \cup S # {}
  BY <1>2, <1>3, FS_Subset
<1>5. Max({0} \cup S) \in {0} \cup S /\ Max({0} \cup S) >= f.num_ids - 1
  BY <1>2, <1>4, MaxProperties
<1>6. Max({0} \cup S) \in 0 .. f.num_ids - 1
  BY <1>2, <1>5 DEF N
<1>7. f.num_ids = 1 + Max({0} \cup S)
  BY <1>5, <1>6
<1> QED
  BY <1>7 DEF S, HeaderHolds

(* What is to be shown of a file of l requests. *)
LEMMA FileSound ==
  ASSUME NEW f, NEW l \in Nat, f.num_ops = l, f.ops = [j \in 1 .. l |-> f.ops[j]],
         f.num_ids \in Nat, 0 .. f.num_ids - 1 \subseteq Ids,
         \A j \in 1 .. l : /\ f.ops[j] \in {Alloc(f.ops[j].id), Free(f.ops[j].id), Realloc(f.ops[j].id)}
                           /\ f.ops[j].id \in 0 .. f.num_ids - 1,
         \E j \in 1 .. l : f.ops[j] = Alloc(f.num_ids - 1),
         OnceEach(f.ops)
  PROVE  HeaderHolds(f) /\ WellFormed(f.ops)
<1> DEFINE T == f.ops
<1>1. \A j \in 1 .. l : T[j] \in Request
  BY DEF Request, Alloc, Free, Realloc
<1>2. T \in [1 .. l -> Request]
  <2> HIDE DEF T
  <2> QED
    BY <1>1 DEF T
<1>3. T \in Seq(Request) /\ Len(T) = l
  <2> HIDE DEF T
  <2> QED
    BY <1>2
<1>4. WellFormed(T)
  BY <1>3, OnceWellFormed
<1>5. PICK m \in 1 .. l : T[m] = Alloc(f.num_ids - 1)
  OBVIOUS
<1>6. T[m].cmd # "f" /\ T[m].id = f.num_ids - 1
  BY <1>5, RequestParts
<1>7. HeaderHolds(f)
  BY <1>3, <1>6, HeaderTrue
<1> QED
  BY <1>4, <1>7

-----------------------------------------------------------------------------
(* gen_binary.pl *)

(* The allocations of the first loop. *)
LEMMA Pairs ==
  ASSUME NEW n \in Nat
  PROVE  Loop(0, n, LAMBDA i : <<Alloc(2 * i), Alloc(2 * i + 1)>>)
           = [j \in 1 .. 2 * n |-> Alloc(j - 1)]
<1> DEFINE turn(i) == <<Alloc(2 * i), Alloc(2 * i + 1)>>
<1>1. ASSUME NEW j \in 1 .. 2 * n
      PROVE  turn(0 + ((j - 1) \div 2))[1 + ((j - 1) % 2)] = Alloc(j - 1)
  <2>1. (j - 1) % 2 \in 0 .. 1 /\ j - 1 = 2 * ((j - 1) \div 2) + ((j - 1) % 2)
    OBVIOUS
  <2>2. CASE (j - 1) % 2 = 0
    BY <2>1, <2>2
  <2>3. CASE (j - 1) % 2 = 1
    BY <2>1, <2>3
  <2> QED
    BY <2>1, <2>2, <2>3
<1>2. Loop(0, n, LAMBDA i : <<Alloc(2 * i), Alloc(2 * i + 1)>>)
        = [j \in 1 .. 2 * n |-> turn(0 + ((j - 1) \div 2))[1 + ((j - 1) % 2)]]
  BY DEF Loop
<1> QED
  BY <1>1, <1>2

(* The whole trace. *)
LEMMA BinaryTrace ==
  ASSUME NEW n \in Nat
  PROVE  gen_binary(n).ops = [j \in 1 .. 4 * n |->
           IF j <= 2 * n THEN Alloc(j - 1)
           ELSE IF j <= 3 * n THEN Free(2 * (j - 2 * n) - 1) ELSE Alloc(j - n - 1)]
<1> DEFINE A == [j \in 1 .. 2 * n |-> Alloc(j - 1)]
           F == [j \in 1 .. n |-> Free(2 * j - 1)]
           B == [j \in 1 .. n |-> Alloc(2 * n + j - 1)]
<1>2. Loop(0, n, LAMBDA i : <<Free(2 * i + 1)>>) = F
  BY DEF Loop
<1>3. Loop(0, n, LAMBDA i : <<Alloc(2 * n + i)>>) = B
  BY DEF Loop
<1>4. gen_binary(n).ops = A \o F \o B
  BY <1>2, <1>3, Pairs DEF gen_binary
<1> QED
  BY <1>4

(* Odd ids of the first loop are freed once, after it. *)
LEMMA BinarySound ==
  ASSUME NEW n \in Nat \ {0}, 0 .. 3 * n - 1 \subseteq Ids
  PROVE  HeaderHolds(gen_binary(n)) /\ WellFormed(gen_binary(n).ops)
<1> DEFINE b == gen_binary(n)
           T == [j \in 1 .. 4 * n |->
                  IF j <= 2 * n THEN Alloc(j - 1)
                  ELSE IF j <= 3 * n THEN Free(2 * (j - 2 * n) - 1) ELSE Alloc(j - n - 1)]
<1>1. b.num_ids = 3 * n /\ b.num_ops = 4 * n
  BY DEF gen_binary
<1>2. b.ops = T
  BY BinaryTrace
<1>3. ASSUME NEW j \in 1 .. 4 * n
      PROVE  T[j] \in {Alloc(T[j].id), Free(T[j].id), Realloc(T[j].id)} /\ T[j].id \in 0 .. 3 * n - 1
  BY RequestParts
<1>4. T[4 * n] = Alloc(3 * n - 1)
  OBVIOUS
<1>5. OnceEach(T)
  <2>1. ASSUME NEW i \in 1 .. 4 * n, NEW j \in 1 .. 4 * n, T[i] = T[j] PROVE i = j
    BY <2>1, RequestParts
  <2>2. ASSUME NEW j \in 1 .. 4 * n, T[j].cmd # "a"
        PROVE  \E k \in 1 .. j - 1 : T[k] = Alloc(T[j].id)
    <3>1. j > 2 * n /\ j <= 3 * n /\ T[j].id = 2 * (j - 2 * n) - 1
      BY <2>2, RequestParts
    <3>2. 2 * (j - 2 * n) \in 1 .. 2 * n /\ 2 * (j - 2 * n) \in 1 .. j - 1
      BY <3>1
    <3>3. T[2 * (j - 2 * n)] = Alloc(2 * (j - 2 * n) - 1)
      BY <3>2
    <3> HIDE DEF T
    <3> QED
      BY <3>1, <3>2, <3>3
  <2>3. \A j \in 1 .. 4 * n : T[j].cmd # "r"
    BY RequestParts
  <2>4. DOMAIN T = 1 .. 4 * n
    OBVIOUS
  <2> HIDE DEF T
  <2> QED
    BY <2>1, <2>2, <2>3, <2>4 DEF OnceEach
<1>6. T = [j \in 1 .. 4 * n |-> T[j]] /\ 4 * n \in 1 .. 4 * n
  OBVIOUS
<1> HIDE DEF b, T
<1>7. HeaderHolds(b) /\ WellFormed(b.ops)
  BY <1>1, <1>2, <1>3, <1>4, <1>5, <1>6, FileSound
<1> QED
  BY <1>7 DEF b

-----------------------------------------------------------------------------
(* gen_coalescing.pl *)

(* The request q is on line j of a file of gen_coalescing. *)
CoalescingLine(n, j, q) ==
  \/ j = 1 /\ q = Alloc(3 * n)
  \/ j = 6 * n + 2 /\ q = Free(3 * n)
  \/ \E i \in 0 .. n - 1 :
       \/ j = 6 * i + 2 /\ q = Alloc(3 * i)
       \/ j = 6 * i + 3 /\ q = Alloc(3 * i + 1)
       \/ j = 6 * i + 4 /\ q = Free(3 * i)
       \/ j = 6 * i + 5 /\ q = Free(3 * i + 1)
       \/ j = 6 * i + 6 /\ q = Alloc(3 * i + 2)
       \/ j = 6 * i + 7 /\ q = Free(3 * i + 2)

(* Two lists, one after the other. *)
LEMMA Concatenation ==
  ASSUME NEW a \in Nat, NEW b \in Nat, NEW p, NEW t,
         p = [j \in 1 .. a |-> p[j]], t = [j \in 1 .. b |-> t[j]]
  PROVE  p \o t = [j \in 1 .. a + b |-> IF j <= a THEN p[j] ELSE t[j - a]]
OBVIOUS

(* A loop between two requests. *)
LEMMA Framed ==
  ASSUME NEW k \in Nat, NEW M, M = [j \in 1 .. k |-> M[j]], NEW x, NEW y,
         NEW s, s = <<x>> \o M \o <<y>>
  PROVE  /\ Len(s) = k + 2 /\ s = [j \in 1 .. k + 2 |-> s[j]]
         /\ s[1] = x /\ s[k + 2] = y
         /\ \A j \in 2 .. k + 1 : s[j] = M[j - 1]
<1>1. Len(M) = k
  OBVIOUS
<1> QED
  BY <1>1

(* Every line of the file is as described. *)
LEMMA CoalescingTrace ==
  ASSUME NEW n \in Nat
  PROVE  LET ops == gen_coalescing(n).ops IN
         /\ Len(ops) = 6 * n + 2 /\ ops = [j \in 1 .. 6 * n + 2 |-> ops[j]]
         /\ \A j \in 1 .. 6 * n + 2 : CoalescingLine(n, j, ops[j])
<1> DEFINE turn(i) == <<Alloc(3 * i), Alloc(3 * i + 1), Free(3 * i), Free(3 * i + 1),
                        Alloc(3 * i + 2), Free(3 * i + 2)>>
           M == [j \in 1 .. 6 * n |-> turn((j - 1) \div 6)[1 + ((j - 1) % 6)]]
           ops == gen_coalescing(n).ops
<1>1. ops = <<Alloc(3 * n)>> \o M \o <<Free(3 * n)>>
  <2>1. Loop(0, n, LAMBDA i : <<Alloc(3 * i), Alloc(3 * i + 1), Free(3 * i), Free(3 * i + 1),
                                Alloc(3 * i + 2), Free(3 * i + 2)>>) = M
    BY DEF Loop
  <2> HIDE DEF M
  <2> QED
    BY <2>1 DEF gen_coalescing
<1>2. ASSUME NEW j \in 2 .. 6 * n + 1 PROVE CoalescingLine(n, j, M[j - 1])
  <2> DEFINE i == (j - 2) \div 6
             k == (j - 2) % 6
  <2>1. i \in 0 .. n - 1 /\ k \in 0 .. 5 /\ j = 6 * i + 2 + k
    OBVIOUS
  <2>2. M[j - 1] = turn(i)[1 + k]
    <3>1. j - 1 \in 1 .. 6 * n /\ (j - 1) - 1 = j - 2
      OBVIOUS
    <3> HIDE DEF turn
    <3> QED
      BY <3>1
  <2> HIDE DEF i, k, M
  <2>3. CASE k = 0
    BY <2>1, <2>2, <2>3 DEF CoalescingLine
  <2>4. CASE k = 1
    BY <2>1, <2>2, <2>4 DEF CoalescingLine
  <2>5. CASE k = 2
    BY <2>1, <2>2, <2>5 DEF CoalescingLine
  <2>6. CASE k = 3
    BY <2>1, <2>2, <2>6 DEF CoalescingLine
  <2>7. CASE k = 4
    BY <2>1, <2>2, <2>7 DEF CoalescingLine
  <2>8. CASE k = 5
    BY <2>1, <2>2, <2>8 DEF CoalescingLine
  <2> QED
    BY <2>1, <2>3, <2>4, <2>5, <2>6, <2>7, <2>8
<1>3. M = [j \in 1 .. 6 * n |-> M[j]]
  OBVIOUS
<1> HIDE DEF M, ops
<1>4. /\ Len(ops) = 6 * n + 2 /\ ops = [j \in 1 .. 6 * n + 2 |-> ops[j]]
      /\ ops[1] = Alloc(3 * n) /\ ops[6 * n + 2] = Free(3 * n)
      /\ \A j \in 2 .. 6 * n + 1 : ops[j] = M[j - 1]
  <2> DEFINE k == 6 * n
  <2>1. k \in Nat /\ M = [j \in 1 .. k |-> M[j]]
    BY <1>3
  <2> HIDE DEF k
  <2>2. /\ Len(ops) = k + 2 /\ ops = [j \in 1 .. k + 2 |-> ops[j]]
        /\ ops[1] = Alloc(3 * n) /\ ops[k + 2] = Free(3 * n)
        /\ \A j \in 2 .. k + 1 : ops[j] = M[j - 1]
    BY <1>1, <2>1, Framed
  <2> QED
    BY <2>2 DEF k
<1>5. ASSUME NEW j \in 1 .. 6 * n + 2 PROVE CoalescingLine(n, j, ops[j])
  <2>1. CASE j \in {1, 6 * n + 2}
    BY <1>4, <2>1 DEF CoalescingLine
  <2>2. CASE j \in 2 .. 6 * n + 1
    BY <1>2, <1>4, <2>2
  <2> QED
    BY <2>1, <2>2
<1> QED
  BY <1>4, <1>5 DEF ops

(* No line of it comes twice, and a free follows its allocation. *)
LEMMA CoalescingOnce ==
  ASSUME NEW n \in Nat, NEW j \in Nat, NEW q, CoalescingLine(n, j, q)
  PROVE  /\ q.cmd # "r" /\ q.id \in 0 .. 3 * n
         /\ \A k \in Nat : CoalescingLine(n, k, q) => k = j
         /\ q.cmd = "f" => \E k \in 1 .. j - 1 : CoalescingLine(n, k, Alloc(q.id))
<1>1. q.cmd # "r" /\ q.id \in 0 .. 3 * n
  BY RequestParts DEF CoalescingLine
<1>2. ASSUME NEW k \in Nat, CoalescingLine(n, k, q) PROVE k = j
  BY <1>2, RequestParts DEF CoalescingLine
<1>3. ASSUME q.cmd = "f" PROVE \E k \in 1 .. j - 1 : CoalescingLine(n, k, Alloc(q.id))
  <2>1. CASE j = 6 * n + 2 /\ q = Free(3 * n)
    <3>1. CoalescingLine(n, 1, Alloc(3 * n)) /\ q.id = 3 * n
      BY <2>1, RequestParts DEF CoalescingLine
    <3> QED
      BY <2>1, <3>1
  <2>2. CASE j # 6 * n + 2
    <3>1. PICK i \in 0 .. n - 1 : \/ j = 6 * i + 4 /\ q = Free(3 * i)
                                  \/ j = 6 * i + 5 /\ q = Free(3 * i + 1)
                                  \/ j = 6 * i + 7 /\ q = Free(3 * i + 2)
      BY <1>3, <2>2, RequestParts DEF CoalescingLine
    <3>2. /\ CoalescingLine(n, 6 * i + 2, Alloc(3 * i))
          /\ CoalescingLine(n, 6 * i + 3, Alloc(3 * i + 1))
          /\ CoalescingLine(n, 6 * i + 6, Alloc(3 * i + 2))
      BY DEF CoalescingLine
    <3>3. CASE j = 6 * i + 4 /\ q = Free(3 * i)
      BY <3>2, <3>3, RequestParts
    <3>4. CASE j = 6 * i + 5 /\ q = Free(3 * i + 1)
      BY <3>2, <3>4, RequestParts
    <3>5. CASE j = 6 * i + 7 /\ q = Free(3 * i + 2)
      BY <3>2, <3>5, RequestParts
    <3> QED
      BY <3>1, <3>3, <3>4, <3>5
  <2> QED
    BY <1>3, <2>1, <2>2, RequestParts DEF CoalescingLine
<1> QED
  BY <1>1, <1>2, <1>3

(* One request per line. *)
LEMMA CoalescingBack ==
  ASSUME NEW n \in Nat, NEW k \in Nat, NEW q, NEW p, CoalescingLine(n, k, q), CoalescingLine(n, k, p)
  PROVE q = p
BY DEF CoalescingLine

(* gen_coalescing.pl writes what a client may issue. *)
LEMMA CoalescingSound ==
  ASSUME NEW n \in Nat, 0 .. 3 * n \subseteq Ids
  PROVE  HeaderHolds(gen_coalescing(n)) /\ WellFormed(gen_coalescing(n).ops)
<1> DEFINE b == gen_coalescing(n)
           T == b.ops
           l == 6 * n + 2
<1>1. T = [j \in 1 .. l |-> T[j]] /\ \A j \in 1 .. l : CoalescingLine(n, j, T[j])
  BY CoalescingTrace
<1>2. b.num_ids = 3 * n + 1 /\ b.num_ops = l
  BY DEF gen_coalescing
<1>3. l \in Nat /\ 1 \in 1 .. l /\ b.num_ids \in Nat /\ b.num_ids - 1 = 3 * n
  BY <1>2
<1> HIDE DEF b, l
<1>4. T[1] = Alloc(3 * n)
  BY <1>1, <1>3, CoalescingBack DEF CoalescingLine
<1>5. ASSUME NEW j \in 1 .. l
      PROVE  /\ T[j] \in {Alloc(T[j].id), Free(T[j].id), Realloc(T[j].id)} /\ T[j].id \in 0 .. 3 * n
             /\ T[j].cmd # "r"
             /\ \A k \in Nat : CoalescingLine(n, k, T[j]) => k = j
             /\ T[j].cmd = "f" => \E k \in 1 .. j - 1 : CoalescingLine(n, k, Alloc(T[j].id))
  <2>1. CoalescingLine(n, j, T[j]) /\ j \in Nat
    BY <1>1, <1>3
  <2> HIDE DEF T
  <2>2. T[j] \in {Alloc(T[j].id), Free(T[j].id)}
    BY <2>1, RequestParts DEF CoalescingLine
  <2> QED
    BY <2>1, <2>2, CoalescingOnce
<1> HIDE DEF T
<1>6. OnceEach(T)
  <2>1. DOMAIN T = 1 .. l
    BY <1>1
  <2>2. ASSUME NEW i \in 1 .. l, NEW j \in 1 .. l, T[i] = T[j] PROVE i = j
    BY <1>1, <1>3, <1>5, <2>2
  <2>3. ASSUME NEW j \in 1 .. l, T[j].cmd # "a"
        PROVE  \E k \in 1 .. j - 1 : T[k] = Alloc(T[j].id)
    <3>1. T[j].cmd = "f"
      BY <1>5, <2>3, RequestParts
    <3>2. PICK k \in 1 .. j - 1 : CoalescingLine(n, k, Alloc(T[j].id))
      BY <1>5, <3>1
    <3>3. k \in 1 .. l
      BY <1>3
    <3>4. T[k] = Alloc(T[j].id)
      BY <1>1, <1>3, <3>2, <3>3, CoalescingBack
    <3> QED
      BY <3>4
  <2> QED
    BY <1>5, <2>1, <2>2, <2>3 DEF OnceEach
<1>7. HeaderHolds(b) /\ WellFormed(b.ops)
  BY <1>1, <1>2, <1>3, <1>4, <1>5, <1>6, FileSound DEF T
<1> QED
  BY <1>7 DEF b

-----------------------------------------------------------------------------
(* gen_realloc2.pl *)

(* The request q is on line j of a file of gen_realloc2. *)
Realloc2Line(n, j, q) ==
  \/ j = 1 /\ q = Alloc(0)
  \/ j = 2 /\ q = Alloc(1)
  \/ \E i \in 1 .. n - 1 : \/ j = 3 * i /\ q = Realloc(0)
                           \/ j = 3 * i + 1 /\ q = Alloc(i + 1)
                           \/ j = 3 * i + 2 /\ q = Free(i)
  \/ j = 3 * n /\ q = Free(n)
  \/ j = 3 * n + 1 /\ q = Free(0)

(* A loop between two pairs of requests. *)
LEMMA FramedTwice ==
  ASSUME NEW k \in Nat, NEW M, M = [j \in 1 .. k |-> M[j]], NEW x, NEW x2, NEW y, NEW y2,
         NEW s, s = <<x, x2>> \o M \o <<y, y2>>
  PROVE  /\ Len(s) = k + 4 /\ s = [j \in 1 .. k + 4 |-> s[j]]
         /\ s[1] = x /\ s[2] = x2 /\ s[k + 3] = y /\ s[k + 4] = y2
         /\ \A j \in 3 .. k + 2 : s[j] = M[j - 2]
<1> DEFINE p == <<x, x2>> \o M
<1>1. Len(M) = k
  OBVIOUS
<1>2. /\ Len(p) = k + 2 /\ p = [j \in 1 .. k + 2 |-> p[j]] /\ p[1] = x /\ p[2] = x2
      /\ \A j \in 3 .. k + 2 : p[j] = M[j - 2]
  BY <1>1
<1> DEFINE t == <<y, y2>>
<1>3. s = p \o t /\ t = [j \in 1 .. 2 |-> t[j]] /\ Len(t) = 2 /\ t[1] = y /\ t[2] = y2
  OBVIOUS
<1> HIDE DEF p, t
<1>4. s = [j \in 1 .. k + 4 |-> IF j <= k + 2 THEN p[j] ELSE t[j - (k + 2)]]
  <2>1. k + 2 \in Nat /\ 2 \in Nat /\ (k + 2) + 2 = k + 4
    OBVIOUS
  <2>2. p \o t = [j \in 1 .. (k + 2) + 2 |-> IF j <= k + 2 THEN p[j] ELSE t[j - (k + 2)]]
    BY <1>2, <1>3, <2>1, Concatenation
  <2> QED
    BY <1>3, <2>1, <2>2
<1>5. /\ Len(s) = k + 4 /\ s = [j \in 1 .. k + 4 |-> s[j]]
      /\ s[k + 3] = t[1] /\ s[k + 4] = t[2]
      /\ \A j \in 1 .. k + 2 : s[j] = p[j]
  BY <1>4
<1>6. 1 \in 1 .. k + 2 /\ 2 \in 1 .. k + 2
  OBVIOUS
<1>7. \A j \in 3 .. k + 2 : s[j] = M[j - 2]
  BY <1>2, <1>5
<1> QED
  BY <1>2, <1>3, <1>5, <1>6, <1>7

(* Every line of the file is as described. *)
LEMMA Realloc2Trace ==
  ASSUME NEW n \in Nat \ {0}
  PROVE  LET ops == gen_realloc2(n).ops IN
         /\ ops = [j \in 1 .. 3 * n + 1 |-> ops[j]]
         /\ \A j \in 1 .. 3 * n + 1 : Realloc2Line(n, j, ops[j])
<1> DEFINE turn(i) == <<Realloc(0), Alloc(i + 1), Free(i)>>
           k == 3 * (n - 1)
           M == [j \in 1 .. k |-> turn(1 + ((j - 1) \div 3))[1 + ((j - 1) % 3)]]
           ops == gen_realloc2(n).ops
<1>1. ops = <<Alloc(0), Alloc(1)>> \o M \o <<Free(n), Free(0)>>
  <2>1. Loop(1, n, LAMBDA i : <<Realloc(0), Alloc(i + 1), Free(i)>>) = M
    BY DEF Loop
  <2> HIDE DEF M
  <2> QED
    BY <2>1 DEF gen_realloc2
<1>2. ASSUME NEW j \in 3 .. k + 2 PROVE Realloc2Line(n, j, M[j - 2])
  <2> DEFINE i == 1 + ((j - 3) \div 3)
             c == (j - 3) % 3
  <2>1. i \in 1 .. n - 1 /\ c \in 0 .. 2 /\ j = 3 * i + c
    OBVIOUS
  <2>2. M[j - 2] = turn(i)[1 + c]
    <3>1. j - 2 \in 1 .. k /\ (j - 2) - 1 = j - 3
      OBVIOUS
    <3> HIDE DEF turn
    <3> QED
      BY <3>1
  <2> HIDE DEF i, c, M, k
  <2>3. CASE c = 0
    BY <2>1, <2>2, <2>3 DEF Realloc2Line
  <2>4. CASE c = 1
    BY <2>1, <2>2, <2>4 DEF Realloc2Line
  <2>5. CASE c = 2
    BY <2>1, <2>2, <2>5 DEF Realloc2Line
  <2> QED
    BY <2>1, <2>3, <2>4, <2>5
<1>3. M = [j \in 1 .. k |-> M[j]]
  OBVIOUS
<1>4. k \in Nat /\ k + 4 = 3 * n + 1 /\ k + 3 = 3 * n
  OBVIOUS
<1> HIDE DEF M, ops, k
<1>5. /\ ops = [j \in 1 .. k + 4 |-> ops[j]]
      /\ ops[1] = Alloc(0) /\ ops[2] = Alloc(1) /\ ops[k + 3] = Free(n) /\ ops[k + 4] = Free(0)
      /\ \A j \in 3 .. k + 2 : ops[j] = M[j - 2]
  BY <1>1, <1>3, <1>4, FramedTwice, SMTT(30)
<1>6. ASSUME NEW j \in 1 .. k + 4 PROVE Realloc2Line(n, j, ops[j])
  <2>1. CASE j \in {1, 2, k + 3, k + 4}
    BY <1>4, <1>5, <2>1 DEF Realloc2Line
  <2>2. CASE j \in 3 .. k + 2
    BY <1>2, <1>5, <2>2
  <2> QED
    BY <1>4, <2>1, <2>2
<1> QED
  BY <1>4, <1>5, <1>6 DEF ops

(* One request per line. *)
LEMMA Realloc2Back ==
  ASSUME NEW n \in Nat \ {0}, NEW k \in Nat, NEW q, NEW p, Realloc2Line(n, k, q), Realloc2Line(n, k, p)
  PROVE q = p
BY DEF Realloc2Line

(* No line but the realloc comes twice, frees and reallocs follow their    *)
(* allocations, and the free of block 0 is the last line.                  *)
LEMMA Realloc2Once ==
  ASSUME NEW n \in Nat \ {0}, NEW j \in Nat, NEW q, Realloc2Line(n, j, q)
  PROVE  /\ q \in {Alloc(q.id), Free(q.id), Realloc(q.id)} /\ q.id \in 0 .. n
         /\ q.cmd # "r" => \A k \in Nat : Realloc2Line(n, k, q) => k = j
         /\ q.cmd # "a" => \E k \in 1 .. j - 1 : Realloc2Line(n, k, Alloc(q.id))
         /\ q.cmd = "r" => \A k \in Nat : Realloc2Line(n, k, Free(q.id)) => j < k
<1>1. q \in {Alloc(q.id), Free(q.id), Realloc(q.id)} /\ q.id \in 0 .. n
  BY RequestParts DEF Realloc2Line
<1>2. ASSUME q.cmd # "r", NEW k \in Nat, Realloc2Line(n, k, q) PROVE k = j
  <2> DEFINE P == IF q.cmd = "a" THEN IF q.id = 0 THEN 1 ELSE IF q.id = 1 THEN 2 ELSE 3 * q.id - 2
                  ELSE IF q.id = 0 THEN 3 * n + 1 ELSE IF q.id = n THEN 3 * n ELSE 3 * q.id + 2
  <2>1. ASSUME NEW c \in Nat, Realloc2Line(n, c, q) PROVE c = P
    <3>1. CASE q.cmd = "a"
      <4>1. \/ c = 1 /\ q.id = 0
            \/ c = 2 /\ q.id = 1
            \/ \E i \in 1 .. n - 1 : c = 3 * i + 1 /\ q.id = i + 1
        BY <2>1, <3>1, RequestParts DEF Realloc2Line
      <4> QED
        BY <3>1, <4>1
    <3>2. CASE q.cmd # "a"
      <4>1. \/ \E i \in 1 .. n - 1 : c = 3 * i + 2 /\ q.id = i
            \/ c = 3 * n /\ q.id = n
            \/ c = 3 * n + 1 /\ q.id = 0
        BY <1>2, <2>1, <3>2, RequestParts DEF Realloc2Line
      <4> QED
        BY <3>2, <4>1
    <3> QED
      BY <3>1, <3>2
  <2> QED
    BY <1>2, <2>1
<1>3. ASSUME q.cmd # "a" PROVE \E k \in 1 .. j - 1 : Realloc2Line(n, k, Alloc(q.id))
  <2>1. CASE q.id = 0
    <3>1. Realloc2Line(n, 1, Alloc(0)) /\ 1 \in 1 .. j - 1
      BY <1>3, RequestParts DEF Realloc2Line
    <3> QED
      BY <2>1, <3>1
  <2>2. CASE q.id = 1
    <3>1. Realloc2Line(n, 2, Alloc(1)) /\ 2 \in 1 .. j - 1
      BY <1>3, <2>2, RequestParts DEF Realloc2Line
    <3> QED
      BY <2>2, <3>1
  <2>3. CASE q.id > 1
    <3> DEFINE i == q.id - 1
    <3>1. i \in 1 .. n - 1 /\ 3 * i + 1 \in 1 .. j - 1
      BY <1>3, <2>3, RequestParts DEF Realloc2Line
    <3>2. Realloc2Line(n, 3 * i + 1, Alloc(i + 1)) /\ i + 1 = q.id
      BY <1>1, <3>1 DEF Realloc2Line
    <3> HIDE DEF i
    <3> QED
      BY <3>1, <3>2
  <2> QED
    BY <1>1, <2>1, <2>2, <2>3
<1>4. ASSUME q.cmd = "r", NEW k \in Nat, Realloc2Line(n, k, Free(q.id)) PROVE j < k
  BY <1>4, RequestParts DEF Realloc2Line
<1> QED
  BY <1>1, <1>2, <1>3, <1>4

(* gen_realloc2.pl writes what a client may issue. *)
LEMMA Realloc2Sound ==
  ASSUME NEW n \in Nat \ {0}, 0 .. n \subseteq Ids
  PROVE  HeaderHolds(gen_realloc2(n)) /\ WellFormed(gen_realloc2(n).ops)
<1> DEFINE b == gen_realloc2(n)
           T == b.ops
           l == 3 * n + 1
<1>1. T = [j \in 1 .. l |-> T[j]] /\ \A j \in 1 .. l : Realloc2Line(n, j, T[j])
  BY Realloc2Trace
<1>2. b.num_ids = n + 1 /\ b.num_ops = l
  BY DEF gen_realloc2
<1>3. l \in Nat /\ b.num_ids \in Nat /\ b.num_ids - 1 = n
  BY <1>2
<1>4. \E j \in 1 .. l : Realloc2Line(n, j, Alloc(n))
  <2>1. CASE n = 1
    BY <2>1 DEF Realloc2Line
  <2>2. CASE n > 1
    <3>1. Realloc2Line(n, 3 * (n - 1) + 1, Alloc((n - 1) + 1)) /\ (n - 1) + 1 = n
      BY <2>2 DEF Realloc2Line
    <3> QED
      BY <2>2, <3>1
  <2> QED
    BY <2>1, <2>2
<1> HIDE DEF b, l
<1>5. \A k \in 1 .. l : \A q : Realloc2Line(n, k, q) => T[k] = q
  BY <1>1, <1>3, Realloc2Back
<1>6. ASSUME NEW j \in 1 .. l
      PROVE  /\ T[j] \in {Alloc(T[j].id), Free(T[j].id), Realloc(T[j].id)} /\ T[j].id \in 0 .. n
             /\ T[j].cmd # "r" => \A k \in Nat : Realloc2Line(n, k, T[j]) => k = j
             /\ T[j].cmd # "a" => \E k \in 1 .. j - 1 : Realloc2Line(n, k, Alloc(T[j].id))
             /\ T[j].cmd = "r" => \A k \in Nat : Realloc2Line(n, k, Free(T[j].id)) => j < k
  <2>1. Realloc2Line(n, j, T[j]) /\ j \in Nat
    BY <1>1, <1>3
  <2> HIDE DEF T
  <2> QED
    BY <2>1, Realloc2Once
<1> HIDE DEF T
<1>7. OnceEach(T)
  <2>1. DOMAIN T = 1 .. l
    BY <1>1
  <2>2. ASSUME NEW i \in 1 .. l, NEW j \in 1 .. l, T[i] = T[j], T[j].cmd # "r" PROVE i = j
    BY <1>1, <1>3, <1>6, <2>2
  <2>3. ASSUME NEW j \in 1 .. l, T[j].cmd # "a"
        PROVE  \E k \in 1 .. j - 1 : T[k] = Alloc(T[j].id)
    <3>1. PICK k \in 1 .. j - 1 : Realloc2Line(n, k, Alloc(T[j].id))
      BY <1>6, <2>3
    <3>2. k \in 1 .. l
      BY <1>3
    <3> QED
      BY <1>5, <3>1, <3>2
  <2>4. ASSUME NEW i \in 1 .. l, NEW j \in 1 .. l, T[i] = Free(T[j].id), T[j].cmd = "r" PROVE j < i
    <3>1. Realloc2Line(n, i, Free(T[j].id)) /\ i \in Nat
      BY <1>1, <1>3, <2>4
    <3> QED
      BY <1>6, <2>4, <3>1
  <2> QED
    BY <2>1, <2>2, <2>3, <2>4 DEF OnceEach
<1>8. \E j \in 1 .. l : T[j] = Alloc(n)
  BY <1>4, <1>5
<1>9. HeaderHolds(b) /\ WellFormed(b.ops)
  BY <1>1, <1>2, <1>3, <1>6, <1>7, <1>8, FileSound DEF T
<1> QED
  BY <1>9 DEF b

-----------------------------------------------------------------------------
(* gen_random.pl *)

(* A list of the allocations of n blocks with the frees of the first i. *)
FreesInserted(n, i, t) ==
  /\ t = [j \in 1 .. n + i |-> t[j]]
  /\ \A j \in 1 .. n + i : \/ \E id \in 0 .. n - 1 : t[j] = Alloc(id)
                           \/ \E id \in 0 .. i - 1 : t[j] = Free(id)
  /\ \A j, k \in 1 .. n + i : t[j] = t[k] => j = k
  /\ \A id \in 0 .. n - 1 : \E j \in 1 .. n + i : t[j] = Alloc(id)
  /\ \A j \in 1 .. n + i : \A id \in 0 .. i - 1 :
       t[j] = Free(id) => \E k \in 1 .. j - 1 : t[k] = Alloc(id)

(* The search of the script finds the allocation. *)
LEMMA FindsAllocation ==
  ASSUME NEW n \in Nat, NEW i \in 0 .. n - 1, NEW t, FreesInserted(n, i, t)
  PROVE  \E m \in 1 .. n + i : /\ t[m] = Alloc(i)
                               /\ SelectInSeq(t, LAMBDA q : q = Alloc(i)) = m
<1>1. PICK m \in 1 .. n + i : t[m] = Alloc(i)
  BY DEF FreesInserted
<1> DEFINE I == {k \in 1 .. Len(t) : t[k] = Alloc(i)}
<1>2. Len(t) = n + i
  BY DEF FreesInserted
<1>3. I = {m}
  BY <1>1, <1>2 DEF FreesInserted
<1>4. Min(I) = m
  <2>1. \A x \in I : x = m
    BY <1>3
  <2>2. m \in I /\ \A y \in I : m =< y
    BY <1>3
  <2> HIDE DEF I
  <2> QED
    BY <2>1, <2>2 DEF Min
<1>5. SelectInSeq(t, LAMBDA q : q = Alloc(i)) = IF I # {} THEN Min(I) ELSE 0
  BY DEF SelectInSeq
<1> HIDE DEF I
<1> QED
  BY <1>1, <1>3, <1>4, <1>5

(* u is t, of l entries, with q behind the first p. *)
Inserted(t, l, p, q, u) ==
  /\ u = [j \in 1 .. l + 1 |-> u[j]]
  /\ \A j \in 1 .. l + 1 : u[j] = IF j <= p THEN t[j] ELSE IF j = p + 1 THEN q ELSE t[j - 1]

(* What a list is after an insertion. *)
LEMMA InsertAtEntries ==
  ASSUME NEW l \in Nat, NEW t, t = [j \in 1 .. l |-> t[j]], NEW p \in 0 .. l, NEW q
  PROVE  Inserted(t, l, p, q, InsertAt(t, p + 1, q))
<1> DEFINE x == SubSeq(t, 1, p)
           y == SubSeq(t, p + 1, l)
           z == <<q>>
           c == l - p
<1>1. Len(t) = l
  OBVIOUS
<1>2. x = [j \in 1 .. p |-> t[j]] /\ p \in Nat
  BY <1>1
<1>3. y = [j \in 1 .. c |-> t[p + j]] /\ c \in Nat
  BY <1>1
<1>4. z = [j \in 1 .. 1 |-> q]
  OBVIOUS
<1>5. InsertAt(t, p + 1, q) = x \o z \o y
  <2>1. (p + 1) - 1 = p
    OBVIOUS
  <2>2. InsertAt(t, p + 1, q) = SubSeq(t, 1, (p + 1) - 1) \o z \o SubSeq(t, p + 1, Len(t))
    BY Zenon DEF InsertAt
  <2> QED
    BY <1>1, <2>1, <2>2, Zenon
<1> HIDE DEF x, y, z
<1>6. x \o z = [j \in 1 .. p + 1 |-> IF j <= p THEN x[j] ELSE z[j - p]]
  BY <1>2, <1>4, Concatenation
<1> DEFINE w == x \o z
<1>7. w = [j \in 1 .. p + 1 |-> IF j <= p THEN t[j] ELSE q]
  BY <1>2, <1>4, <1>6
<1>8. p + 1 \in Nat /\ w = [j \in 1 .. p + 1 |-> w[j]] /\ y = [j \in 1 .. c |-> y[j]]
  BY <1>2, <1>3, <1>7
<1>9. InsertAt(t, p + 1, q) = w \o y
  BY <1>5
<1> HIDE DEF w, c
<1>10. w \o y = [j \in 1 .. (p + 1) + c |-> IF j <= p + 1 THEN w[j] ELSE y[j - (p + 1)]]
  BY <1>3, <1>8, Concatenation
<1>11. (p + 1) + c = l + 1
  BY DEF c
<1>12. ASSUME NEW j \in 1 .. l + 1
       PROVE (IF j <= p + 1 THEN w[j] ELSE y[j - (p + 1)])
               = IF j <= p THEN t[j] ELSE IF j = p + 1 THEN q ELSE t[j - 1]
  <2>1. CASE j <= p + 1
    BY <1>7, <2>1
  <2>2. CASE j > p + 1
    <3>1. j - (p + 1) \in 1 .. c /\ p + (j - (p + 1)) = j - 1
      BY <2>2 DEF c
    <3> QED
      BY <1>3, <2>2, <3>1
  <2> QED
    BY <2>1, <2>2
<1> DEFINE u == InsertAt(t, p + 1, q)
<1>13. u = [j \in 1 .. l + 1 |-> IF j <= p + 1 THEN w[j] ELSE y[j - (p + 1)]]
  BY <1>9, <1>10, <1>11
<1> HIDE DEF u
<1>14. u = [j \in 1 .. l + 1 |-> u[j]]
  BY <1>13
<1>15. \A j \in 1 .. l + 1 : u[j] = IF j <= p THEN t[j] ELSE IF j = p + 1 THEN q ELSE t[j - 1]
  BY <1>12, <1>13
<1>16. Inserted(t, l, p, q, u)
  BY <1>14, <1>15 DEF Inserted
<1> QED
  BY <1>16 DEF u

(* The free of block i in a place behind its allocation. *)
LEMMA InsertKeeps ==
  ASSUME NEW n \in Nat, NEW i \in 0 .. n - 1, NEW t, FreesInserted(n, i, t),
         NEW p \in Places(Len(t), SelectInSeq(t, LAMBDA q : q = Alloc(i)) - 1)
  PROVE  FreesInserted(n, i + 1, InsertAt(t, p + 1, Free(i)))
<1>1. PICK m \in 1 .. n + i : t[m] = Alloc(i) /\ SelectInSeq(t, LAMBDA q : q = Alloc(i)) = m
  BY FindsAllocation
<1> DEFINE l == n + i
           u == InsertAt(t, p + 1, Free(i))
<1>2. t = [j \in 1 .. l |-> t[j]] /\ l \in Nat
  BY DEF FreesInserted
<1>3. l \in Nat /\ Len(t) = l
  BY <1>2
<1>4. /\ \A j \in 1 .. l : \/ \E id \in 0 .. n - 1 : t[j] = Alloc(id)
                           \/ \E id \in 0 .. i - 1 : t[j] = Free(id)
      /\ \A j, k \in 1 .. l : t[j] = t[k] => j = k
      /\ \A id \in 0 .. n - 1 : \E j \in 1 .. l : t[j] = Alloc(id)
      /\ \A j \in 1 .. l : \A id \in 0 .. i - 1 :
           t[j] = Free(id) => \E k \in 1 .. j - 1 : t[k] = Alloc(id)
  BY DEF FreesInserted
<1>5. m \in 1 .. l /\ l + 1 = n + (i + 1) /\ (i + 1) - 1 = i
  BY <1>1
<1> HIDE DEF l
<1>6. p \in m .. l
  <2>1. p \in Places(l, m - 1)
    BY <1>1, <1>3
  <2> QED
    BY <1>3, <1>5, <2>1 DEF Places
<1>7. p \in 0 .. l
  BY <1>3, <1>5, <1>6
<1>8. u = InsertAt(t, p + 1, Free(i))
  OBVIOUS
<1> HIDE DEF u
<1>9. /\ u = [j \in 1 .. l + 1 |-> u[j]]
      /\ \A j \in 1 .. l + 1 :
           u[j] = IF j <= p THEN t[j] ELSE IF j = p + 1 THEN Free(i) ELSE t[j - 1]
  <2>1. Inserted(t, l, p, Free(i), InsertAt(t, p + 1, Free(i)))
    BY <1>2, <1>7, InsertAtEntries
  <2> QED
    BY <1>8, <2>1 DEF Inserted
<1>10. ASSUME NEW j \in 1 .. l, t[j] = Free(i) PROVE FALSE
  <2>1. CASE \E id \in 0 .. n - 1 : t[j] = Alloc(id)
    BY <1>10, <2>1, RequestParts
  <2>2. CASE \E id \in 0 .. i - 1 : t[j] = Free(id)
    <3>1. PICK id \in 0 .. i - 1 : t[j] = Free(id)
      BY <2>2
    <3>2. Free(id).id = id /\ Free(i).id = i
      BY RequestParts
    <3> QED
      BY <1>10, <3>1, <3>2
  <2> QED
    BY <1>4, <2>1, <2>2
<1> DEFINE old(j) == IF j <= p THEN j ELSE j - 1
<1>11. \A j \in 1 .. l + 1 : u[j] = IF j = p + 1 THEN Free(i) ELSE t[old(j)]
  <2> SUFFICES ASSUME NEW j \in 1 .. l + 1
               PROVE  u[j] = IF j = p + 1 THEN Free(i) ELSE t[old(j)]
    OBVIOUS
  <2>1. u[j] = IF j <= p THEN t[j] ELSE IF j = p + 1 THEN Free(i) ELSE t[j - 1]
    BY <1>9
  <2>2. j = p + 1 => ~ (j <= p)
    BY <1>7
  <2> QED
    BY <2>1, <2>2
<1>12. \A j \in 1 .. l + 1 : j # p + 1 => old(j) \in 1 .. l
  BY <1>3, <1>7
<1>13. \A j, k \in 1 .. l + 1 : j # p + 1 /\ k # p + 1 =>
         (old(j) = old(k) => j = k) /\ (old(k) < old(j) => k < j)
  BY <1>3, <1>7
<1>14. \A k \in 1 .. l : \E j \in 1 .. l + 1 : j # p + 1 /\ old(j) = k
  <2> SUFFICES ASSUME NEW k \in 1 .. l PROVE \E j \in 1 .. l + 1 : j # p + 1 /\ old(j) = k
    OBVIOUS
  <2>1. CASE k <= p
    <3>1. k \in 1 .. l + 1 /\ k # p + 1 /\ old(k) = k
      BY <1>3, <1>7, <2>1
    <3> HIDE DEF old
    <3> QED
      BY <3>1
  <2>2. CASE k > p
    <3>1. k + 1 \in 1 .. l + 1 /\ k + 1 # p + 1 /\ old(k + 1) = k
      BY <1>3, <1>7, <2>2
    <3> HIDE DEF old
    <3> QED
      BY <3>1
  <2> QED
    BY <1>7, <2>1, <2>2
<1>15. p + 1 \in 1 .. l + 1 /\ u[p + 1] = Free(i)
  <2>1. p + 1 \in 1 .. l + 1 /\ ~ (p + 1 <= p)
    BY <1>3, <1>7
  <2> QED
    BY <1>9, <2>1
<1>16. old(m) = m /\ m \in 1 .. p
  BY <1>3, <1>5, <1>6
<1> HIDE DEF old
<1>17. \A j \in 1 .. l + 1 : j # p + 1 => u[j] = t[old(j)]
  BY <1>11
<1>18. ASSUME NEW j \in 1 .. l + 1
       PROVE  \/ \E id \in 0 .. n - 1 : u[j] = Alloc(id)
              \/ \E id \in 0 .. i : u[j] = Free(id)
  <2>1. CASE j = p + 1
    BY <1>15, <2>1
  <2>2. CASE j # p + 1
    <3>1. u[j] = t[old(j)] /\ old(j) \in 1 .. l
      BY <1>12, <1>17, <2>2
    <3>2. \/ \E id \in 0 .. n - 1 : t[old(j)] = Alloc(id)
          \/ \E id \in 0 .. i - 1 : t[old(j)] = Free(id)
      BY <1>4, <3>1
    <3> QED
      BY <3>1, <3>2
  <2> QED
    BY <2>1, <2>2
<1>19. ASSUME NEW j \in 1 .. l + 1, NEW k \in 1 .. l + 1, u[j] = u[k] PROVE j = k
  <2>1. CASE j # p + 1 /\ k # p + 1
    BY <1>4, <1>12, <1>13, <1>17, <1>19, <2>1
  <2>2. CASE j = p + 1 /\ k # p + 1
    BY <1>10, <1>12, <1>15, <1>17, <1>19, <2>2
  <2>3. CASE j # p + 1 /\ k = p + 1
    BY <1>10, <1>12, <1>15, <1>17, <1>19, <2>3
  <2> QED
    BY <2>1, <2>2, <2>3
<1>20. ASSUME NEW id \in 0 .. n - 1 PROVE \E j \in 1 .. l + 1 : u[j] = Alloc(id)
  <2>1. PICK k \in 1 .. l : t[k] = Alloc(id)
    BY <1>4
  <2> QED
    BY <1>14, <1>17, <2>1
<1>21. ASSUME NEW j \in 1 .. l + 1, NEW id \in 0 .. i, u[j] = Free(id)
       PROVE  \E k \in 1 .. j - 1 : u[k] = Alloc(id)
  <2>1. CASE j = p + 1
    <3>1. id = i
      <4>1. Free(id) = Free(i) /\ Free(id).id = id /\ Free(i).id = i
        BY <1>15, <1>21, <2>1, RequestParts
      <4> QED
        BY <4>1
    <3>2. m \in 1 .. j - 1 /\ m \in 1 .. l + 1 /\ m # p + 1
      BY <1>3, <1>7, <1>16, <2>1
    <3>3. u[m] = Alloc(i)
      BY <1>1, <1>16, <1>17, <3>2
    <3> QED
      BY <3>1, <3>2, <3>3
  <2>2. CASE j # p + 1
    <3>1. t[old(j)] = Free(id) /\ old(j) \in 1 .. l
      BY <1>12, <1>17, <1>21, <2>2
    <3>2. id \in 0 .. i - 1
      BY <1>10, <1>21, <3>1
    <3>3. PICK k \in 1 .. old(j) - 1 : t[k] = Alloc(id)
      BY <1>4, <3>1, <3>2
    <3>4. k \in 1 .. l /\ k < old(j)
      BY <1>3, <3>1
    <3>5. PICK k2 \in 1 .. l + 1 : k2 # p + 1 /\ old(k2) = k
      BY <1>14, <3>4
    <3>6. k2 \in 1 .. j - 1
      BY <1>3, <1>13, <2>2, <3>4, <3>5
    <3>7. u[k2] = Alloc(id)
      BY <1>17, <3>3, <3>5
    <3> QED
      BY <3>6, <3>7
  <2> QED
    BY <2>1, <2>2
<1>22. u = [j \in 1 .. l + 1 |-> u[j]]
  BY <1>9
<1>23. FreesInserted(n, i + 1, u)
  BY <1>5, <1>18, <1>19, <1>20, <1>21, <1>22 DEF FreesInserted
<1> QED
  BY <1>23 DEF u

(* The lists after the frees of the blocks below k, as the script makes    *)
(* them in a loop.                                                         *)
Insertions(g, A, n) ==
  g = [i \in 0 .. n |-> IF i = 0 THEN A ELSE InsertFree(g[i - 1], i - 1)]

(* There are such lists. *)
LEMMA InsertionsExist ==
  ASSUME NEW A, NEW n \in Nat
  PROVE  \E g : Insertions(g, A, n)
<1> DEFINE S == {k \in Nat : \E g : Insertions(g, A, k)}
<1>1. 0 \in S
  <2>1. Insertions([i \in 0 .. 0 |-> A], A, 0)
    BY DEF Insertions
  <2> QED
    BY <2>1
<1>2. ASSUME NEW k \in Nat, k \in S PROVE k + 1 \in S
  <2>1. PICK g : Insertions(g, A, k)
    BY <1>2
  <2> DEFINE h == [i \in 0 .. k + 1 |-> IF i <= k THEN g[i] ELSE InsertFree(g[k], k)]
  <2>2. \A i \in 0 .. k : g[i] = IF i = 0 THEN A ELSE InsertFree(g[i - 1], i - 1)
    BY <2>1 DEF Insertions
  <2>3. ASSUME NEW i \in 0 .. k + 1
        PROVE  h[i] = IF i = 0 THEN A ELSE InsertFree(h[i - 1], i - 1)
    <3>1. CASE i <= k
      BY <2>2, <3>1
    <3>2. CASE i = k + 1
      <4>1. h[i] = InsertFree(g[k], k) /\ h[k] = g[k] /\ i - 1 = k /\ i # 0
        BY <3>2
      <4> HIDE DEF h
      <4> QED
        BY <4>1
    <3> QED
      BY <3>1, <3>2
  <2>4. h = [i \in 0 .. k + 1 |-> h[i]]
    OBVIOUS
  <2> HIDE DEF h
  <2>5. Insertions(h, A, k + 1)
    BY <2>3, <2>4 DEF Insertions
  <2> QED
    BY <2>5
<1> HIDE DEF S
<1>3. n \in S
  BY <1>1, <1>2, NatInduct
<1> QED
  BY <1>3 DEF S

(* Each turn inserts one free. *)
LEMMA InsertFreeKeeps ==
  ASSUME NEW n \in Nat, NEW i \in 0 .. n - 1, NEW traces,
         \A t \in traces : FreesInserted(n, i, t)
  PROVE  \A t \in InsertFree(traces, i) : FreesInserted(n, i + 1, t)
<1> SUFFICES ASSUME NEW u \in InsertFree(traces, i) PROVE FreesInserted(n, i + 1, u)
  OBVIOUS
<1>1. PICK t \in traces :
        \E p \in Places(Len(t), SelectInSeq(t, LAMBDA q : q = Alloc(i)) - 1) :
          u = InsertAt(t, p + 1, Free(i))
  BY Zenon DEF InsertFree
<1>2. PICK p \in Places(Len(t), SelectInSeq(t, LAMBDA q : q = Alloc(i)) - 1) :
        u = InsertAt(t, p + 1, Free(i))
  BY <1>1
<1>3. FreesInserted(n, i, t)
  BY <1>1
<1> QED
  BY <1>2, <1>3, InsertKeeps

(* What the script writes. *)
LEMMA RandomTraces ==
  ASSUME NEW n \in Nat, NEW f \in gen_random(n)
  PROVE  /\ f.num_ids = n /\ f.num_ops = 2 * n
         /\ FreesInserted(n, n, f.ops)
<1> DEFINE allocs == [j \in 1 .. n |-> Alloc(j - 1)]
           inserted == CHOOSE g : g = [i \in 0 .. n |->
                         IF i = 0 THEN {allocs} ELSE InsertFree(g[i - 1], i - 1)]
<1>1. Loop(0, n, LAMBDA i : <<Alloc(i)>>) = allocs
  BY DEF Loop
<1>2. gen_random(n) = {[num_ids |-> n, num_ops |-> 2 * n, ops |-> t] : t \in inserted[n]}
  BY <1>1, Zenon DEF gen_random
<1>3. FreesInserted(n, 0, allocs)
  <2>1. \A j \in 1 .. n : allocs[j] = Alloc(j - 1) /\ j - 1 \in 0 .. n - 1
    OBVIOUS
  <2>2. \A id \in 0 .. n - 1 : id + 1 \in 1 .. n /\ (id + 1) - 1 = id
    OBVIOUS
  <2>3. allocs = [j \in 1 .. n + 0 |-> allocs[j]] /\ n + 0 = n
    OBVIOUS
  <2> HIDE DEF allocs
  <2>4. \A j, k \in 1 .. n : allocs[j] = allocs[k] => j = k
    BY <2>1, RequestParts
  <2>5. \A id \in 0 .. n - 1 : \E j \in 1 .. n : allocs[j] = Alloc(id)
    BY <2>1, <2>2
  <2>6. \A j \in 1 .. n : \E id \in 0 .. n - 1 : allocs[j] = Alloc(id)
    BY <2>1
  <2> DEFINE m == n + 0
  <2>7. m = n /\ \A id : id \notin 0 .. 0 - 1
    OBVIOUS
  <2> HIDE DEF m
  <2>8. /\ allocs = [j \in 1 .. m |-> allocs[j]]
        /\ \A j \in 1 .. m : \/ \E id \in 0 .. n - 1 : allocs[j] = Alloc(id)
                             \/ \E id \in 0 .. 0 - 1 : allocs[j] = Free(id)
        /\ \A j, k \in 1 .. m : allocs[j] = allocs[k] => j = k
        /\ \A id \in 0 .. n - 1 : \E j \in 1 .. m : allocs[j] = Alloc(id)
        /\ \A j \in 1 .. m : \A id \in 0 .. 0 - 1 :
             allocs[j] = Free(id) => \E k \in 1 .. j - 1 : allocs[k] = Alloc(id)
    BY <2>3, <2>4, <2>5, <2>6, <2>7
  <2> QED
    BY <2>8, Zenon DEF FreesInserted, m
<1> HIDE DEF allocs
<1>4. Insertions(inserted, {allocs}, n)
  <2>1. \E g : Insertions(g, {allocs}, n)
    BY InsertionsExist
  <2> QED
    BY <2>1, Zenon DEF Insertions
<1> HIDE DEF inserted
<1> DEFINE S == {i \in Nat : i <= n => \A t \in inserted[i] : FreesInserted(n, i, t)}
<1>5. 0 \in S
  BY <1>3, <1>4 DEF Insertions
<1>6. ASSUME NEW i \in Nat, i \in S PROVE i + 1 \in S
  <2> SUFFICES ASSUME i + 1 <= n PROVE \A t \in inserted[i + 1] : FreesInserted(n, i + 1, t)
    OBVIOUS
  <2>1. inserted[i + 1] = InsertFree(inserted[i], i)
    <3>1. i + 1 \in 0 .. n /\ i + 1 # 0 /\ (i + 1) - 1 = i
      OBVIOUS
    <3> QED
      BY <1>4, <3>1 DEF Insertions
  <2>2. i \in 0 .. n - 1 /\ \A t \in inserted[i] : FreesInserted(n, i, t)
    BY <1>6
  <2> HIDE DEF S
  <2> QED
    BY <2>1, <2>2, InsertFreeKeeps
<1> HIDE DEF S
<1>7. n \in S
  BY <1>5, <1>6, NatInduct
<1>8. \A t \in inserted[n] : FreesInserted(n, n, t)
  BY <1>7 DEF S
<1> QED
  BY <1>2, <1>8

(* gen_random.pl writes what a client may issue, wherever the frees go. *)
LEMMA RandomSound ==
  ASSUME NEW n \in Nat \ {0}, 0 .. n - 1 \subseteq Ids, NEW f \in gen_random(n)
  PROVE  HeaderHolds(f) /\ WellFormed(f.ops)
<1> DEFINE T == f.ops
           l == n + n
<1>1. f.num_ids = n /\ f.num_ops = l /\ l \in Nat /\ FreesInserted(n, n, T)
  BY RandomTraces
<1>2. /\ T = [j \in 1 .. l |-> T[j]]
      /\ \A j \in 1 .. l : \/ \E id \in 0 .. n - 1 : T[j] = Alloc(id)
                           \/ \E id \in 0 .. n - 1 : T[j] = Free(id)
      /\ \A j, k \in 1 .. l : T[j] = T[k] => j = k
      /\ \A id \in 0 .. n - 1 : \E j \in 1 .. l : T[j] = Alloc(id)
      /\ \A j \in 1 .. l : \A id \in 0 .. n - 1 :
           T[j] = Free(id) => \E k \in 1 .. j - 1 : T[k] = Alloc(id)
  BY <1>1, Zenon DEF FreesInserted
<1>3. n - 1 \in 0 .. n - 1
  OBVIOUS
<1> HIDE DEF T, l
<1>4. ASSUME NEW j \in 1 .. l
      PROVE  /\ T[j] \in {Alloc(T[j].id), Free(T[j].id), Realloc(T[j].id)} /\ T[j].id \in 0 .. n - 1
             /\ T[j].cmd # "r"
             /\ T[j].cmd # "a" => T[j] = Free(T[j].id)
  BY <1>2, RequestParts
<1>5. OnceEach(T)
  <2>1. DOMAIN T = 1 .. l
    BY <1>2
  <2> QED
    BY <1>2, <1>4, <2>1 DEF OnceEach
<1>6. \E j \in 1 .. l : T[j] = Alloc(n - 1)
  BY <1>2, <1>3
<1>7. HeaderHolds(f) /\ WellFormed(f.ops)
  BY <1>1, <1>2, <1>4, <1>5, <1>6, FileSound DEF T
<1> QED
  BY <1>7

-----------------------------------------------------------------------------
(* The files that the scripts may write for n iterations or blocks. *)
Written(n) == {gen_binary(n), gen_coalescing(n), gen_realloc2(n)} \cup gen_random(n)

(* Every generator writes, for every number of iterations or blocks, a     *)
(* trace that a client may issue, under a header that agrees with it; for  *)
(* gen_random.pl this is so wherever rand puts the frees.                  *)
THEOREM GeneratorsSound ==
  ASSUME NEW n \in Nat \ {0}, 0 .. 3 * n \subseteq Ids, NEW f \in Written(n)
  PROVE  HeaderHolds(f) /\ WellFormed(f.ops)
<1>1. 0 .. 3 * n - 1 \subseteq Ids /\ 0 .. n \subseteq Ids /\ 0 .. n - 1 \subseteq Ids
  OBVIOUS
<1>2. CASE f = gen_binary(n)
  BY <1>1, <1>2, BinarySound
<1>3. CASE f = gen_coalescing(n)
  BY <1>3, CoalescingSound
<1>4. CASE f = gen_realloc2(n)
  BY <1>1, <1>4, Realloc2Sound
<1>5. CASE f \in gen_random(n)
  BY <1>1, <1>5, RandomSound
<1> QED
  BY <1>2, <1>3, <1>4, <1>5 DEF Written

(* The script accepts what the generators write, of any length, and what   *)
(* it prints of it is balanced and is read back by the driver.             *)
THEOREM GeneratorsAccepted ==
  ASSUME \A f \in Files : \E n \in Nat \ {0} : 0 .. 3 * n \subseteq Ids /\ f \in Written(n)
  PROVE  Spec => [](GeneratedAccepted /\ PrintsRight)
<1>1. \A f \in Files : HeaderHolds(f) /\ WellFormed(f.ops)
  BY GeneratorsSound
<1>2. Spec => []GeneratedAccepted
  BY <1>1, WellFormedAccepted
<1>3. Spec => []PrintsRight
  BY <1>1, PrintsCorrectly
<1> QED
  BY <1>2, <1>3, PTL
=============================================================================
