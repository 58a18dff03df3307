--------------------------- MODULE MCBlockStorage ---------------------------
(* Two payloads, whose entries take two and three cells.                   *)
EXTENDS BlockStorage

CONSTANTS v1, v2

MCEntrySize == [x \in Value \X (1 .. MaxN) |-> IF x[1] = v1 THEN 2 ELSE 3]
=============================================================================
