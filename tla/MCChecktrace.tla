---------------------------- MODULE MCChecktrace ----------------------------
(* A small instance of Checktrace: short files of every generator.         *)
EXTENDS Checktrace, Generators

MCFiles == {gen_binary(2), gen_coalescing(2), gen_realloc2(3)}
             \cup gen_random(1) \cup gen_random(2) \cup gen_random(4)
=============================================================================
