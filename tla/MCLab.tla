------------------------------- MODULE MCLab -------------------------------
(* A small instance of Lab: pages of 12 granules and a few trace files.    *)
EXTENDS Lab

A(id, size) == [cmd |-> "a", id |-> id, size |-> size]
R(id, size) == [cmd |-> "r", id |-> id, size |-> size]
F(id)       == [cmd |-> "f", id |-> id, size |-> 0]

File(ids, ops) == [num_ids |-> ids, num_ops |-> Len(ops), ops |-> ops]

MCTraceFiles == {
  (* blocks freed to the left, to the right and between others, one that *)
  (* is asked for again and one that is too small by its tags            *)
  File(3, <<A(0, 16), A(1, 17), A(2, 16), F(1), A(1, 5), F(0), A(0, 40), F(2), F(1)>>),
  (* a chunk of two pages, which loses its blocks to a free and to a *)
  (* reallocation into another chunk; two blocks are left            *)
  File(3, <<A(0, 130), A(1, 100), A(2, 16), R(0, 16), F(1)>>),
  (* a chunk that is unmapped, another one, an empty request *)
  File(2, <<A(1, 40), F(1), A(1, 16), A(0, 0), F(1)>>),
  (* no requests *)
  File(1, <<>>)}
=============================================================================
