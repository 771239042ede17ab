------------------------------ MODULE MCMemlib ------------------------------
(* A small instance of Memlib: runs of one and two pages. *)
EXTENDS Memlib

MCRuns == {1, 2}
=============================================================================
