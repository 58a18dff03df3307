------------------------------ MODULE Formula ------------------------------
(***************************************************************************)
(* The arithmetic of src/formula.rs: which nodes the tree of generation n  *)
(* has and how they are connected.  A node b_{i,j} is identified by the    *)
(* index i of the entry that stores it and its height j.  Definitions keep *)
(* the names of the functions they translate.                              *)
(***************************************************************************)
EXTENDS Integers, Sequences, FiniteSets, SequencesExt

CONSTANT INDEX_SIZE     \* the width of Index in bits (64 in the code)

ASSUME IndexSizeAssumption == INDEX_SIZE \in Nat \ {0}

NoIndex == -1           \* the None of an Option<u8>

Index  == 0 .. (2^INDEX_SIZE - 1)
Height == 0 .. INDEX_SIZE

Addr(i, j) == [i |-> i, j |-> j]
INodeAddr(node, left, right) == [node |-> node, left |-> left, right |-> right]
Addrs == [i : Index \ {0}, j : Height]

-----------------------------------------------------------------------------
(* Bits.                                                                   *)

pow2e(j) == 2^j

\* i mod 2^j; the code keeps i itself when j is the whole width.
i_mod_2e(i, j) == IF j >= INDEX_SIZE THEN i ELSE i % 2^j

bit_length(x) == Cardinality({b \in 0 .. (INDEX_SIZE - 1) : 2^b <= x})
count_ones(x) == Cardinality({b \in 0 .. (INDEX_SIZE - 1) : (x \div 2^b) % 2 = 1})

ceil_log2(x)  == bit_length(x - 1)
floor_log2(x) == bit_length(x) - 1

-----------------------------------------------------------------------------
(* Nodes.                                                                  *)

\* Variant: a fault that PbstsArePermanent shows.
is_pbst_before(i, j) == i_mod_2e(i - 1, j) = 0
is_pbst(i, j) == i_mod_2e(i, j) = 0

\* Variant: a fault that RootsTileLeaves shows.
count_pbsts_all(n) == bit_length(n)
count_pbsts(n) == count_ones(n)
total_nodes(n) == IF n = 0 THEN 0 ELSE 2 * n - 1

\* Variant: a fault that FormulasDescribeTree shows.
range_start_low(i, j) == i - i_mod_2e(i, j)
range_start(i, j) == i - i_mod_2e(i - 1, j)
range(i, j)       == range_start(i, j) .. i
leaf_count(i, j)  == i_mod_2e(i - 1, j) + 1
\* Variant: a fault that DistancesAreHops and SampleProvesRoot show.
contains_open(i, j, k) == range_start(i, j) <= k /\ k < i
contains(i, j, k) == range_start(i, j) <= k /\ k <= i

root_of(n) == Addr(n, ceil_log2(n))

\* left_upper | left_lower is a sum: the first is a multiple of 2^j.
left_of(i, j) ==
    LET left_upper == IF j < INDEX_SIZE THEN ((i - 1) \div 2^j) * 2^j ELSE 0
    IN  Addr(left_upper + pow2e(j - 1), j - 1)
\* Variant: a fault that FormulasDescribeTree shows.
right_of_pbst(i, j) == Addr(i, j - 1)
right_of(i, j) == Addr(i, ceil_log2(i - left_of(i, j).i))
subnodes_of(i, j) == <<left_of(i, j), right_of(i, j)>>

\* Variant: a fault that FormulasDescribeTree shows.
is_valid_half(i, j) ==
    /\ i # 0
    /\ \/ j \in {0, ceil_log2(i)}
       \/ j < ceil_log2(i) /\ (is_pbst(i, j) \/ i % 2^j >= 2^(j - 1))
is_valid(i, j) ==
    /\ i # 0
    /\ \/ j = 0
       \/ j = ceil_log2(i)
       \/ j < ceil_log2(i) /\ is_pbst(i, j)
       \/ j < ceil_log2(i) /\ i % 2^j > 2^(j - 1)

-----------------------------------------------------------------------------
(* The model of generation n: its perfect subtrees, left to right, and the *)
(* ephemeral nodes that connect them, the root first.                      *)

pbst_roots(n) ==
    LET roots[remaining \in 0 .. n] ==
          IF remaining = 0 THEN <<>>
          ELSE LET j    == floor_log2(remaining)
                   size == pow2e(j)
               IN  <<Addr(n - remaining + size, j)>> \o roots[remaining - size]
    IN  roots[n]

ephemeral_nodes(n) ==
    LET pbsts   == pbst_roots(n)
        node(k) == Addr(n, pbsts[k].j + 1)
        last    == Len(pbsts) - 1
    IN  [k \in 1 .. last |->
           INodeAddr(node(k), pbsts[k], IF k = last THEN pbsts[k + 1] ELSE node(k + 1))]

root(n) == IF ephemeral_nodes(n) = <<>> THEN pbst_roots(n)[1] ELSE ephemeral_nodes(n)[1].node

pbst_inode(i, j) == INodeAddr(Addr(i, j), Addr(i - 2^(j - 1), j - 1), Addr(i, j - 1))

\* Variant: a fault that LeftsAreOldRoots shows.
spine_left_first(n, j) == Addr(n - 2^j + 1, j - 1)
spine_left(n, j) == Addr(n - 2^j + 2^(j - 1), j - 1)

\* The nodes above the leaf of entry n when it completes a perfect subtree.
pbst_spine(n) ==
    LET own == {k \in ToSet(pbst_roots(n)) : k.i = n}
        h   == IF own = {} THEN 0 ELSE (CHOOSE k \in own : TRUE).j
    IN  [k \in 1 .. h |-> LET j == h - k + 1
                          IN  INodeAddr(Addr(n, j), spine_left(n, j), Addr(n, j - 1))]

\* Variant: a fault that SpineIsAChain shows.
inodes_downwards(n) == ephemeral_nodes(n) \o pbst_spine(n)

\* The inodes that entry n adds, from the leaf up.
inodes(n) == Reverse(ephemeral_nodes(n) \o pbst_spine(n))

\* Model::inode, a set of at most one inode (the Option of the code).
inode(n, i, j) ==
    IF j = 0 THEN {}
    ELSE IF is_pbst(i, j) /\ i < n THEN {pbst_inode(i, j)}
    ELSE {e \in ToSet(ephemeral_nodes(n)) : e.node = Addr(i, j)}

-----------------------------------------------------------------------------
(* Distances.                                                              *)

\* The number of branches between the root of generation n and leaf i.
stratum_sample_size(n, i) ==
    LET branch_count[x \in Addrs] ==
          IF x.j = 0 THEN 0
          ELSE LET left == left_of(x.i, x.j)
               IN  1 + IF contains(left.i, left.j, i) THEN branch_count[left]
                                                      ELSE branch_count[right_of(x.i, x.j)]
        r == root_of(n)
    IN  IF contains(r.i, r.j, i) THEN branch_count[r] ELSE 0

\* Variant: a fault that DistancesAreHops shows.
entry_access_distance_inside(k, n) ==
    LET holders == {r \in ToSet(pbst_roots(n)) : contains(r.i, r.j, k)}
        r       == CHOOSE x \in holders : TRUE
    IN  IF holders = {} THEN NoIndex ELSE r.j - count_ones(k - range_start(r.i, r.j))
entry_access_distance(k, n) ==
    LET holders == {r \in ToSet(pbst_roots(n)) : contains(r.i, r.j, k)}
        r       == CHOOSE x \in holders : TRUE
    IN  IF holders = {} THEN NoIndex
        ELSE r.j - count_ones(k - range_start(r.i, r.j)) + (IF r.i # n THEN 1 ELSE 0)

\* Variant: a fault that DistancesAreHops shows.
distance_lower_ranges_long(n) ==
    LET pbsts == pbst_roots(n)
        h     == pbsts[1].j
        marks == (IF Len(pbsts) > 1 THEN <<n>> ELSE <<>>) \o [d \in 1 .. h + 1 |-> pow2e(h + 1 - d)]
    IN  <<<<n, n>>>> \o [d \in 1 .. Len(marks) - 1 |-> <<marks[d + 1], marks[d]>>]

\* The two results of entry_access_distance_limits: element d + 1 is the range
\* of the indices at distance d, as <<first, last>>.
distance_lower_ranges(n) ==
    LET pbsts == pbst_roots(n)
        h     == pbsts[1].j
        marks == (IF Len(pbsts) > 1 THEN <<n>> ELSE <<>>) \o [d \in 1 .. h + 1 |-> pow2e(h + 1 - d)]
    IN  <<<<n, n>>>> \o [d \in 1 .. Len(marks) - 1 |-> <<marks[d + 1], marks[d] - 1>>]

distance_upper_ranges(n) ==
    LET pbsts    == pbst_roots(n)
        h        == ceil_log2(n)
        \* what the subtree r claims for distance d, 0 when it claims nothing
        claim(r, d) ==
            LET shift == IF r = pbsts[Len(pbsts)] THEN d ELSE d - 1
            IN  IF shift \in 0 .. r.j
                THEN range_start(r.i, r.j) - 1 + (pow2e(r.j) + 1 - pow2e(shift)) ELSE 0
        \* the fold over the subtrees from the right keeps the first claim
        claimed(d) == {k \in 1 .. Len(pbsts) : claim(pbsts[k], d) # 0}
        mark(d)    == IF claimed(d) = {} THEN 0 ELSE claim(pbsts[Max(claimed(d))], d)
    IN  [d \in 1 .. h |-> <<mark(d) + 1, mark(d - 1)>>] \o <<<<1, 1>>>>
=============================================================================
