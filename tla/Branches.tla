------------------------------ MODULE Branches ------------------------------
(***************************************************************************)
(* The ValuesWithBranches of src/lib.rs: the values below a node of the    *)
(* tree, with the nodes that branch off the way from the root to it, from  *)
(* the root down.  A client computes the root from them.                   *)
(***************************************************************************)
EXTENDS Slate

Node(i, j, hash) == [i |-> i, j |-> j, hash |-> hash]
ValuesWithBranches(values, branches) == [values |-> values, branches |-> branches]

\* Value::to_node of the value of an index.
to_node(i, value) == Node(i, 0, from_bytes(0, value))

\* Node::parent, and what it asserts.
\* Variant: a fault that ValuesProveRoot shows.
parent_of_right(left, right) == Node(right.i, right.j + 1, combine(left.hash, right.j + 1, right.hash))
parent(left, right) == Node(right.i, left.j + 1, combine(left.hash, left.j + 1, right.hash))
may_be_siblings(left, right) == left.i < right.i /\ left.j >= right.j

\* One turn of the loop that folds the nodes two by two: an odd one at the end
\* is carried over.
\* Variant: a fault that ValuesProveRoot shows.
fold_pairs_from_end(nodes) ==
    LET odd == Len(nodes) % 2
    IN  [k \in 1 .. (Len(nodes) + 1) \div 2 |->
            IF k = 1 /\ odd = 1 THEN nodes[1]
            ELSE parent(nodes[2 * k - 1 - odd], nodes[2 * k - odd])]
fold_pairs(nodes) ==
    [k \in 1 .. (Len(nodes) + 1) \div 2 |->
        IF 2 * k <= Len(nodes) THEN parent(nodes[2 * k - 1], nodes[2 * k]) ELSE nodes[2 * k - 1]]

\* The nodes after so many turns of the loop, which ends when one is left.
turned(values, turns) ==
    LET after[t \in 0 .. turns] == IF t = 0 THEN values ELSE fold_pairs(after[t - 1])
    IN  after[turns]
folded(values) == turned(values, ceil_log2(Len(values)))

\* What is known after so many branches, the last one first.
joined(x, count) ==
    LET after[k \in 0 .. count] ==
          IF k = 0 THEN Head(folded(x.values))
          ELSE LET branch == x.branches[Len(x.branches) - k + 1]
               IN  IF after[k - 1].i < branch.i THEN parent(after[k - 1], branch)
                   ELSE parent(branch, after[k - 1])
    IN  after[count]

\* ValuesWithBranches::root.
root_of_values(x) == joined(x, Len(x.branches))

-----------------------------------------------------------------------------
(* The sets of values a server may hand out for the current revision.      *)

stored_node(i, j) ==
    LET e == CHOOSE x \in entries_of(storage) : index_of(x) = i
    IN  Node(i, j, (CHOOSE m \in entry_meta(e, j) : TRUE).hash)

Top == root_of(revision)

\* The nodes of the tree, and the way from the root to one of them.
tree_nodes ==
    LET below[a \in Addrs] ==
          {a} \cup (IF a.j = 0 THEN {} ELSE below[left_of(a.i, a.j)] \cup below[right_of(a.i, a.j)])
    IN  IF revision = 0 THEN {} ELSE below[Top]
branches_to(node) ==
    LET way[a \in Addrs] ==
          IF a.j <= node.j THEN <<>>
          ELSE LET l == left_of(a.i, a.j)
                   r == right_of(a.i, a.j)
               IN  IF contains(l.i, l.j, node.i) THEN <<stored_node(r.i, r.j)>> \o way[l]
                   ELSE <<stored_node(l.i, l.j)>> \o way[r]
    IN  way[Top]

nodes_of(node) ==
    [k \in 1 .. leaf_count(node.i, node.j) |->
        LET i == range_start(node.i, node.j) + k - 1 IN to_node(i, Log[i])]
values_below(node) == ValuesWithBranches(nodes_of(node), branches_to(node))

-----------------------------------------------------------------------------
(* Properties.                                                             *)

\* The values below any node and the branches beside the way to it give the
\* root of the current revision, also below nodes that are not perfect
\* (lib.rs:140-172).
BranchesLeadToRoot ==
    \A node \in tree_nodes :
        root_of_values(values_below(node)) = stored_node(revision, Top.j)

\* Folding joins a node with its right sibling only, which is not higher (what
\* parent asserts in debug builds, lib.rs:78-79): two values, two nodes folded
\* before, and what is known with a branch; one node is left for the branches.
FoldingJoinsSiblings ==
    \A node \in tree_nodes :
        LET x == values_below(node)
            known(k) == joined(x, k)
            branch(k) == x.branches[Len(x.branches) - k]
        IN  /\ Len(folded(x.values)) = 1
            /\ \A turn \in 0 .. ceil_log2(Len(x.values)) - 1 :
                  LET nodes == turned(x.values, turn)
                  IN  \A k \in 1 .. Len(nodes) \div 2 : may_be_siblings(nodes[2 * k - 1], nodes[2 * k])
            /\ \A k \in 0 .. Len(x.branches) - 1 :
                  \/ may_be_siblings(known(k), branch(k)) \/ may_be_siblings(branch(k), known(k))

\* The values below a node prove the root, and without a debug assertion failing.
ValuesProveRoot == BranchesLeadToRoot /\ FoldingJoinsSiblings
=============================================================================
