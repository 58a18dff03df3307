------------------------------ MODULE MCQuery ------------------------------
(* One query next to the writer, over payloads of different size, so that   *)
(* entries written after a truncation may or may not start where old ones   *)
(* did.                                                                     *)
EXTENDS Query

CONSTANTS v1, v2

\* One unit for the fixed fields, one per inode, none or one for the payload.
MCEntrySize == [x \in Value \X (1 .. MaxN) |->
                  1 + Len(inodes(x[2])) + (IF x[1] = v1 THEN 0 ELSE 1)]
=============================================================================
