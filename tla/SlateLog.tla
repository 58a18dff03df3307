----------------------------- MODULE SlateLog ------------------------------
(***************************************************************************)
(* What a Slate promises its user about its values: they are a list that   *)
(* append extends by one and that truncate(i) cuts before the i-th value.  *)
(***************************************************************************)
EXTENDS Integers, Sequences

CONSTANT Value

VARIABLE log

Init == log = <<>>

Add(v) == log' = Append(log, v)
Cut(i) == i \in 1 .. Len(log) /\ log' = SubSeq(log, 1, i - 1)

Next == (\E v \in Value : Add(v)) \/ (\E i \in 1 .. Len(log) : Cut(i))

Spec == Init /\ [][Next]_log
=============================================================================
