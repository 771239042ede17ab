---------------------------- MODULE MCBlockHeap ----------------------------
(***************************************************************************)
(* A small instance of BlockHeap: pages of 12 granules (10 behind the page *)
(* header, room for three minimal blocks), three pages, and requests of 1  *)
(* and 2 granules, of one that needs two pages, and the largest the word   *)
(* size admits (which no memory serves).                                   *)
(***************************************************************************)
EXTENDS BlockHeap

MCSizes == {0, 16, 17, 130, 768}
=============================================================================
