------------------------- MODULE MCKeyValueStorage -------------------------
(* An entry takes one position.                                            *)
EXTENDS KeyValueStorage

CONSTANTS v1, v2, r1, r2

MCEntrySize == [x \in Value \X (1 .. MaxN) |-> 1]
=============================================================================
