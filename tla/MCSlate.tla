------------------------------ MODULE MCSlate ------------------------------
(* A Slate with at most MaxN entries, with payloads of no byte and of two,  *)
(* and what reads its entries.                                             *)
EXTENDS Serialize, Branches

CONSTANTS v1, v2

MCPayloadSize == [v \in Value |-> IF v = v1 THEN 0 ELSE 2]
\* Index, count, length of the payload, hash and delimiter, and the inodes.
MCEntrySize == [x \in Value \X (1 .. MaxN) |->
                  8 + 1 + 4 + 32 + 12 + 50 * Len(inodes(x[2])) + MCPayloadSize[x[1]]]
=============================================================================
