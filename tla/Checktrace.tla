----------------------------- MODULE Checktrace -----------------------------
(***************************************************************************)
(* traces/checktrace.pl: reads a trace line by line, dies at the first     *)
(* inconsistency it tests for, and prints the trace with the free requests *)
(* that balance it.                                                        *)
(***************************************************************************)
EXTENDS Traces, SequencesExt

CONSTANTS
  Files,     \* trace files the generators wrote
  AnyIds,    \* bound of the model: the ids of a trace from elsewhere
  MaxOps     \* bound of the model: the lines of a trace from elsewhere

ASSUME ChecktraceAssumption ==
  /\ MaxOps \in Nat /\ AnyIds \subseteq Ids
  /\ Ids \subseteq Nat
  /\ \A f \in Files : f.ops \in Seq([cmd : {"a", "r", "f"}, id : Ids]) /\ f.num_ops \in Nat

VARIABLES
  file,     \* the trace file read, or Elsewhere: any lines
  lines,    \* the lines read so far, and at the end those printed
  HASH,     \* id -> command, for the outstanding requests
  num_ops,  \* of the header printed
  status    \* "reading", "died", "printed", or with -s "Balanced" or "Unbalanced"

vars == <<file, lines, HASH, num_ops, status>>

Elsewhere == [num_ids |-> 0, num_ops |-> 0, ops |-> <<>>]

-----------------------------------------------------------------------------
Init == /\ file \in Files \cup {Elsewhere}
        /\ lines = <<>> /\ HASH = <<>> /\ num_ops = 0 /\ status = "reading"

(* A line that begins with some word and an id.  "x" stands for every word *)
(* that is no command; the script skips blank lines.                       *)
Commands   == {"a", "r", "f"}
FirstWords == Commands \cup {"x"}

(* What the next line may be, and whether there may be none. *)
NextLine == IF file = Elsewhere
            THEN {q \in [cmd : FirstWords, id : AnyIds] : Len(lines) < MaxOps}
            ELSE {file.ops[n] : n \in {Len(lines) + 1} \cap DOMAIN file.ops}
EndOfFile == file = Elsewhere \/ Len(lines) = Len(file.ops)

Outstanding(id) == id \in DOMAIN HASH

(* Mutant: no test of a free. *)
Dies_NotOnFree(q) ==
  \/ q.cmd = "r" /\ ~ Outstanding(q.id)
  \/ q.cmd = "a" /\ Outstanding(q.id) /\ HASH[q.id] = "a"

(* The tests of the loop, in its order.  The fifth one is left out: it     *)
(* compares the negation of an entry, "" or 1, with "f".                   *)
Dies(q) ==
  \/ q.cmd = "r" /\ ~ Outstanding(q.id)
  \/ q.cmd = "a" /\ Outstanding(q.id) /\ HASH[q.id] = "a"
  \/ q.cmd = "a" /\ Outstanding(q.id) /\ HASH[q.id] = "f"
  \/ q.cmd = "f" /\ ~ Outstanding(q.id)

(* Mutant: the entry of a freed id stays. *)
Tally_Marks(q) ==
  IF q.cmd = "r" THEN HASH
  ELSE [i \in DOMAIN HASH \cup {q.id} |-> IF i = q.id THEN q.cmd ELSE HASH[i]]

(* The table after a line that passed; any other word is entered like "a". *)
Tally(q) ==
  CASE q.cmd = "r" -> HASH
    [] q.cmd = "f" -> [i \in DOMAIN HASH \ {q.id} |-> HASH[i]]
    [] OTHER       -> [i \in DOMAIN HASH \cup {q.id} |->
                         IF i = q.id THEN q.cmd ELSE HASH[i]]

read(q) ==
  /\ status = "reading"
  /\ lines' = Append(lines, q)
  /\ IF Dies(q) THEN status' = "died" /\ UNCHANGED HASH
     ELSE HASH' = Tally(q) /\ UNCHANGED status
  /\ UNCHANGED <<file, num_ops>>

(* A trace from elsewhere comes with a header that tells the truth. *)
old_num_ops == IF file = Elsewhere THEN Len(lines) ELSE file.num_ops

(* The end of the trace, under a header with ops requests: one free per    *)
(* outstanding id follows the trace, up to an id whose entry is no         *)
(* command, at which the script dies.  (It prints the ids in the order of  *)
(* their digits.)                                                          *)
PrintAll(ops) ==
  /\ status = "reading" /\ EndOfFile
  /\ num_ops' = ops
  /\ LET rest    == SetToSeq(DOMAIN HASH)
         invalid == SelectInSeq(rest, LAMBDA i : HASH[i] \notin {"a", "r"})
         frees   == IF invalid = 0 THEN Len(rest) ELSE invalid - 1
     IN  /\ status' = IF invalid = 0 THEN "printed" ELSE "died"
         /\ lines' = lines \o [i \in 1 .. frees |-> [cmd |-> "f", id |-> rest[i]]]
  /\ UNCHANGED <<file, HASH>>

(* Mutant: the header is printed as it was read. *)
print_OldHeader == PrintAll(old_num_ops)

print == PrintAll(old_num_ops + Cardinality(DOMAIN HASH))

(* Option -s. *)
summary ==
  /\ status = "reading" /\ EndOfFile
  /\ status' = IF HASH = <<>> THEN "Balanced" ELSE "Unbalanced"
  /\ UNCHANGED <<file, lines, HASH, num_ops>>

Next == (\E q \in NextLine : read(q)) \/ print \/ summary

Spec == Init /\ [][Next]_vars

-----------------------------------------------------------------------------
(* An entry of the table is never "f", since a free deletes the entry of   *)
(* its id: the test for a reused ID, which looks for one, never succeeds.  *)
TypeOK ==
  /\ \A q \in ToSet(lines) : q.cmd \in FirstWords /\ q.id \in Ids
  /\ num_ops \in Nat
  /\ DOMAIN HASH \subseteq Ids /\ \A i \in DOMAIN HASH : HASH[i] \in {"a", "x"}
  /\ status \in {"reading", "died", "printed", "Balanced", "Unbalanced"}

(* Every line is a request. *)
IsTrace(ls) == \A n \in DOMAIN ls : ls[n].cmd \in Commands

(* Of requests, the script dies exactly at a realloc or free of an id that *)
(* is not allocated and at a second allocation of one that is.  (That it   *)
(* lets an id be reused after its free is ReusedIdDies.)                   *)
DiesOnlyIfIllFormed == IsTrace(lines) => ((status = "died") <=> ~ WellFormed(lines))

(* The table holds the ids left allocated by the requests read. *)
TallyExact ==
  status = "reading" /\ IsTrace(lines) => DOMAIN HASH = Before(lines, Len(lines) + 1)

(* The table tells allocated ids from others at every line of a trace, and *)
(* so the script dies where an order of requests is one that the driver    *)
(* cannot carry out, and at the end does not die.                          *)
ReadsRight == DiesOnlyIfIllFormed /\ TallyExact

(* traces/README has the id of an allocation identify it uniquely, and the *)
(* script has a message for an id that is reused: it dies of a trace that  *)
(* allocates an id again after its free.                                   *)
ReusedIdDies ==
  \A m, n \in DOMAIN lines :
    lines[m].cmd = "a" /\ lines[n] = lines[m] /\ m # n => status = "died"

(* What it prints of a trace is a balanced trace, and with -s it says      *)
(* correctly whether the trace is one.                                     *)
PrintsBalanced ==
  IsTrace(lines) => /\ status \in {"printed", "Balanced"} => Balanced(lines)
                    /\ status = "Unbalanced" => ~ Balanced(lines)

(* The header printed agrees with the requests printed, so that the driver *)
(* reads every balanced trace.                                             *)
OutputReadable ==
  status = "printed" /\ file # Elsewhere =>
    HeaderHolds([num_ids |-> file.num_ids, num_ops |-> num_ops, ops |-> lines])

(* What the script prints is a balanced trace that can be read back, and   *)
(* what it says with -s is true.                                           *)
PrintsRight == PrintsBalanced /\ OutputReadable

(* The generators write traces that the script accepts, with headers that  *)
(* agree with them, wherever gen_random inserts its frees.                 *)
GeneratedAccepted ==
  file # Elsewhere => HeaderHolds(file) /\ status # "died"
=============================================================================
