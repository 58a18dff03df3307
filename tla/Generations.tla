---------------------------- MODULE Generations ----------------------------
(***************************************************************************)
(* A tree grown one generation at a time, entry n writing the inodes that  *)
(* Model::new(n).inodes() lists (the loop of Slate::append without hashes  *)
(* and storage).  The closed formulas of src/formula.rs answer questions   *)
(* about generation n in O(1); here they are compared with the tree that   *)
(* the writes have really built.                                           *)
(***************************************************************************)
EXTENDS Formula

CONSTANT MaxN           \* generations to grow (a bound of the model)

ASSUME GenerationAssumption == MaxN \in Index

VARIABLE entries        \* entries[i]: the inodes stored with entry i, leaf to root

n == Len(entries)       \* the current generation

Init == entries = <<>>

Grow == n < MaxN /\ entries' = Append(entries, inodes(n + 1))

Next == Grow
Spec == Init /\ [][Next]_entries

-----------------------------------------------------------------------------
(* The current tree, read off the written inodes only: the root is the     *)
(* highest node of the last entry, the children are those the inodes name. *)

InodesAt(i, j) == {w \in ToSet(entries[i]) : w.node.j = j}
Inode(i, j) == CHOOSE w \in InodesAt(i, j) : TRUE
Top == IF entries[n] = <<>> THEN Addr(n, 0) ELSE Last(entries[n]).node

\* The nodes below and including b_{i,j}.
Subtree(i, j) ==
    LET below[x \in [i : 1 .. i, j : 0 .. j]] ==
          IF x.j = 0 THEN {x}
          ELSE UNION {{w.node} \cup below[w.left] \cup below[w.right] : w \in InodesAt(x.i, x.j)}
    IN  below[Addr(i, j)]
Tree == IF n = 0 THEN {} ELSE Subtree(Top.i, Top.j)
Leaves(nodes) == {x.i : x \in {y \in nodes : y.j = 0}}

\* For every leaf the number of branches on its way down from the root, and
\* how many of them turn left, that is to another entry.
Route(leaf, branches, lefts) == [leaf |-> leaf, branches |-> branches, lefts |-> lefts]
Routes ==
    LET below[x \in [i : 1 .. n, j : 0 .. Top.j]] ==
          IF x.j = 0 THEN {Route(x.i, 0, 0)}
          ELSE UNION {{Route(r.leaf, r.branches + 1, r.lefts + 1) : r \in below[w.left]}
                      \cup {Route(r.leaf, r.branches + 1, r.lefts) : r \in below[w.right]} :
                         w \in InodesAt(x.i, x.j)}
    IN  IF n = 0 THEN {} ELSE below[Top]

-----------------------------------------------------------------------------

\* Slate::append looks the left child of every new inode up in the PBST roots
\* of the previous generation (lib.rs:538-545) and panics when one is missing:
\* the left children that entry n + 1 writes are roots of generation n.
LeftsAreOldRoots ==
    [][\A k \in 1 .. Len(Last(entries')) :
        Last(entries')[k].left \in ToSet(pbst_roots(n))]_entries

\* The debug assertions of the append loop (lib.rs:539-542), the root that append
\* takes from the last inode (lib.rs:557-558) and the reader of serialized entries
\* (serialize.rs:11-24), which rebuilds each right child as the inode before it:
\* the inodes of an entry belong to it and climb from its leaf, each over the one
\* before and with the higher child on the left, up to the root of its generation.
SpineIsAChain ==
    n > 0 =>
    LET s == entries[n]
    IN  /\ \A k \in 1 .. Len(s) :
              /\ s[k].node.i = n
              /\ s[k].right = (IF k = 1 THEN Addr(n, 0) ELSE s[k - 1].node)
              /\ s[k].left.j >= s[k].right.j
              /\ s[k].node.j = s[k].left.j + 1
        /\ root_of(n) = IF Len(s) = 0 THEN Addr(n, 0) ELSE s[Len(s)].node

\* The perfect subtrees tile the leaves 1..n from left to right, in strictly
\* decreasing height, as many as count_pbsts says (formula.rs:151-173).
RootsTileLeaves ==
    LET r == pbst_roots(n)
    IN  /\ Len(r) = count_pbsts(n)
        /\ \A k \in 1 .. Len(r) :
              /\ is_pbst(r[k].i, r[k].j)
              /\ range_start(r[k].i, r[k].j) = (IF k = 1 THEN 0 ELSE r[k - 1].i) + 1
              /\ k > 1 => r[k].j < r[k - 1].j
        /\ n > 0 => r[Len(r)].i = n

\* root_of and subnodes_of (formula.rs:193-212), which every walk and every
\* sample verification uses, describe exactly the tree that was written, and
\* total_nodes counts its nodes.
SubnodesAreWritten ==
    n > 0 =>
    /\ Top = root_of(n) /\ Top = root(n)
    /\ Cardinality(Tree) = total_nodes(n)
    /\ \A x \in Tree : x.j > 0 =>
          LET w == Inode(x.i, x.j) IN <<w.left, w.right>> = subnodes_of(x.i, x.j)

\* range, leaf_count and contains (formula.rs:183-255) give in O(1) the leaves
\* below a node of the tree.
RangeIsLeaves ==
    \A x \in Tree :
        LET leaves == Leaves(Subtree(x.i, x.j))
        IN  /\ leaves = range(x.i, x.j)
            /\ Cardinality(leaves) = leaf_count(x.i, x.j)
            /\ \A k \in 0 .. n + 1 : contains(x.i, x.j, k) <=> k \in leaves

\* is_valid (formula.rs:214-241) accepts exactly the leaf of an entry and the
\* inodes the entry has written.
ValidIsWritten ==
    \A i \in {0, n} : \A j \in Height :
        is_valid(i, j) <=>
            i > 0 /\ (j = 0 \/ \E k \in 1 .. Len(entries[i]) : entries[i][k].node.j = j)

\* The closed formulas of the shape describe the tree that was written.
FormulasDescribeTree == SubnodesAreWritten /\ RangeIsLeaves /\ ValidIsWritten

\* entry_access_distance (formula.rs:278-285) is the number of entries that
\* have to be read to reach entry k from entry n.
DistanceIsHops ==
    /\ \A r \in Routes : entry_access_distance(r.leaf, n) = r.lefts
    /\ entry_access_distance(n + 1, n) = NoIndex

\* stratum_sample_size (formula.rs:257-276) is the number of branches on the
\* way from the root to the leaf, which is the number of hashes in its sample.
SampleSizeIsDepth ==
    \A r \in Routes : stratum_sample_size(n, r.leaf) = r.branches

\* entry_access_distance_limits (formula.rs:287-359): the two results bound
\* the access distance of every index, each covering every index just once.
LimitsBoundDistance ==
    n > 0 =>
    \A k \in 1 .. n :
        LET at(ranges) == {d \in 1 .. Len(ranges) : ranges[d][1] <= k /\ k <= ranges[d][2]}
            low  == at(distance_lower_ranges(n))
            high == at(distance_upper_ranges(n))
        IN  /\ Cardinality(low) = 1 /\ Cardinality(high) = 1
            /\ \A l \in low, h \in high :
                  /\ l - 1 <= entry_access_distance(k, n)
                  /\ entry_access_distance(k, n) <= h - 1

\* The closed formulas of the distances describe the ways down that tree.
DistancesAreHops == DistanceIsHops /\ SampleSizeIsDepth /\ LimitsBoundDistance

\* formula.rs:143-146: a node is permanent exactly when it is the root of a
\* perfect subtree; every other node lives for one generation.
PbstsArePermanent ==
    [][\A x \in Tree : x \in Tree' <=> is_pbst(x.i, x.j)]_entries

\* formula.rs:106: Model::inode returns the inode b_{i,j}, and None when there
\* is no such inode.
InodeFindsEveryNode ==
    \A x \in Tree : x.j > 0 => inode(n, x.i, x.j) # {}
=============================================================================
