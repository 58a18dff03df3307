--------------------------- MODULE MCGenerations ---------------------------
(* Generations 1 .. 2^7 - 1: all of a 7-bit Index, so that the last         *)
(* generations reach the boundary the code has at u64::MAX.                 *)
EXTENDS Generations
=============================================================================
