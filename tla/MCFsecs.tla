------------------------------ MODULE MCFsecs ------------------------------
(* A small instance of Fsecs: words of 8 values, so that a run of the      *)
(* function wraps the low word, the high word and the seconds; two times   *)
(* that agree within epsilon and one that does not.                        *)
EXTENDS Fsecs
=============================================================================
