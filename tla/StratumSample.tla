--------------------------- MODULE StratumSample ---------------------------
(***************************************************************************)
(* The StratumSample of src/lib.rs: a leaf and the hashes of the nodes that *)
(* branch off the way from the root to it (the authentication path).       *)
(***************************************************************************)
EXTENDS Entry

\* The leaf is its payload, witnesses is a set of nodes with their hashes.
Witness(i, j, hash) == [i |-> i, j |-> j, hash |-> hash]
Sample(rev, i, payload, witnesses) ==
    [revision |-> rev, i |-> i, payload |-> payload, witnesses |-> witnesses]

witness_hash(x, a) == (CHOOSE w \in x.witnesses : w.i = a.i /\ w.j = a.j).hash

\* compute_hash meets every witness it unwraps and the leaf it expects.
given(x, a) == \E w \in x.witnesses : w.i = a.i /\ w.j = a.j
root_hash_succeeds(x) ==
    LET complete[a \in Addrs] ==
          IF a.j = 0 THEN x.i = a.i
          ELSE LET l == left_of(a.i, a.j)
                   r == right_of(a.i, a.j)
               IN  \/ contains(l.i, l.j, x.i) /\ given(x, r) /\ complete[l]
                   \/ contains(r.i, r.j, x.i) /\ given(x, l) /\ complete[r]
    IN  x.revision > 0 /\ complete[root_of(x.revision)]

\* StratumSample::root_hash and compute_hash, for a sample they succeed on.
root_hash(x) ==
    LET compute_hash[a \in Addrs] ==
          IF a.j = 0 THEN from_bytes(0, x.payload)
          ELSE LET l == left_of(a.i, a.j)
                   r == right_of(a.i, a.j)
               IN  IF contains(l.i, l.j, x.i)
                   THEN combine(compute_hash[l], a.j, witness_hash(x, r))
                   ELSE combine(witness_hash(x, l), a.j, compute_hash[r])
    IN  compute_hash[root_of(x.revision)]

\* The nodes whose hashes get_sample collects, those that branch off the way from
\* b_{i,j} down to leaf goal.
branches_off(x, goal) ==
    LET below[a \in Addrs] ==
          IF a.j = 0 THEN {}
          ELSE LET l == left_of(a.i, a.j)
                   r == right_of(a.i, a.j)
               IN  IF contains(l.i, l.j, goal) THEN {r} \cup below[l] ELSE {l} \cup below[r]
    IN  below[x]
=============================================================================
