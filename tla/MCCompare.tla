----------------------------- MODULE MCCompare -----------------------------
(* Entries are not stored: their size does not matter.                     *)
EXTENDS Compare

CONSTANTS v1, v2

Swap == Permutations(Value)
MCEntrySize == [x \in Value \X (1 .. MaxN) |-> 1]
=============================================================================
