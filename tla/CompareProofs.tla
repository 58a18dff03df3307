---------------------------- MODULE CompareProofs ----------------------------
(***************************************************************************)
(* Theorems about compare and the search for a leaf in which two trees     *)
(* differ: the nodes of an answer contain the leaves that differ, each of  *)
(* them once, the search finds the latest of them, its samples are always  *)
(* accepted, and each answer leads further down.                           *)
(***************************************************************************)
EXTENDS Compare, SampleProofs

-----------------------------------------------------------------------------
(* The hashes of a tree tell its leaves apart.                             *)

\* The recursion of node_hash.
tree_step(log, f, a) ==
    IF a.j = 0 THEN from_bytes(0, log[a.i])
    ELSE combine(f[left_of(a.i, a.j)], a.j, f[right_of(a.i, a.j)])
tree_of(log) == CHOOSE f : f = [a \in Addrs |-> tree_step(log, f, a)]

LEMMA TreeRecursion ==
    ASSUME NEW log
    PROVE  tree_of(log) = [a \in Addrs |-> tree_step(log, tree_of(log), a)]
<1> DEFINE Good(f, h) == f = [a \in {b \in Addrs : b.j <= h} |-> tree_step(log, f, a)]
           T == {h \in Nat : \E f : Good(f, h)}
<1>1. 0 \in T
  <2> DEFINE f == [a \in {b \in Addrs : b.j <= 0} |-> tree_step(log, <<>>, a)]
  <2>1. ASSUME NEW a \in Addrs, a.j <= 0 PROVE tree_step(log, f, a) = tree_step(log, <<>>, a)
    <3>1. a.j = 0
      BY <2>1, AddrHeights
    <3>2. QED
      BY <3>1 DEF tree_step
  <2>2. Good(f, 0)
    BY <2>1
  <2>3. QED
    BY <2>2
<1>2. ASSUME NEW h \in Nat, h \in T PROVE h + 1 \in T
  <2>1. PICK f : Good(f, h)
    BY <1>2
  <2> DEFINE g == [a \in {b \in Addrs : b.j <= h + 1} |-> IF a.j <= h THEN f[a] ELSE tree_step(log, f, a)]
  <2>2. \A a \in Addrs : a.j <= h => g[a] = f[a] /\ f[a] = tree_step(log, f, a)
    <3>1. \A a \in Addrs : a.j \in Nat
      BY AddrHeights
    <3>2. QED
      BY <2>1, <3>1
  <2> HIDE DEF g
  <2>3. ASSUME NEW a \in Addrs, a.j <= h + 1 PROVE tree_step(log, g, a) = tree_step(log, f, a)
    <3>1. a.j \in Nat
      BY AddrHeights
    <3>2. CASE a.j = 0
      BY <3>2 DEF tree_step
    <3>3. CASE a.j # 0
      <4> DEFINE l == left_of(a.i, a.j)
                 r == right_of(a.i, a.j)
      <4>1. l \in Addrs /\ r \in Addrs /\ l.j = a.j - 1 /\ r.j < a.j
        BY <3>3, ChildrenAreLower
      <4>2. l.j \in Nat /\ r.j \in Nat
        BY <4>1, AddrHeights
      <4> HIDE DEF l, r
      <4>3. l.j <= h /\ r.j <= h
        BY <2>3, <3>1, <4>1, <4>2
      <4>4. g[l] = f[l] /\ g[r] = f[r]
        BY <2>2, <4>1, <4>3
      <4>5. QED
        BY <4>4 DEF tree_step, l, r
    <3>4. QED
      BY <3>2, <3>3
  <2>4. \A a \in Addrs : a.j <= h + 1 => g[a] = tree_step(log, g, a)
    BY <2>2, <2>3 DEF g
  <2>5. Good(g, h + 1)
    <3>1. g = [a \in {b \in Addrs : b.j <= h + 1} |-> g[a]]
      BY DEF g
    <3> DEFINE A == {b \in Addrs : b.j <= h + 1}
    <3>2. \A a \in A : g[a] = tree_step(log, g, a)
      BY <2>4
    <3> HIDE DEF A
    <3>3. [a \in A |-> g[a]] = [a \in A |-> tree_step(log, g, a)]
      BY <3>2
    <3>4. QED
      BY <3>1, <3>3 DEF A
  <2> HIDE DEF Good
  <2>6. \E k : Good(k, h + 1)
    BY <2>5
  <2>7. QED
    BY <2>6
<1> HIDE DEF T
<1>3. T \in SUBSET Nat
  BY DEF T
<1>4. T = Nat
  BY <1>1, <1>2, <1>3, Induct
<1>5. INDEX_SIZE \in T
  BY <1>4, IndexSizeAssumption
<1>6. Addrs = {b \in Addrs : b.j <= INDEX_SIZE}
  BY AddrHeights
<1>7. \E f : f = [a \in Addrs |-> tree_step(log, f, a)]
  <2>1. PICK f : Good(f, INDEX_SIZE)
    BY <1>5 DEF T
  <2>2. f = [a \in Addrs |-> tree_step(log, f, a)]
    BY <1>6, <2>1
  <2>3. QED
    BY <2>2
<1>8. QED
  BY <1>7 DEF tree_of

\* The steps of node_hash at a leaf and at an inode.
LEMMA TreeStep ==
    ASSUME NEW m \in Index \ {0}, NEW L
    PROVE  /\ node_hash(L)[Addr(m, 0)] = from_bytes(0, L[m])
           /\ \A k \in 1 .. Len(inodes(m)) :
                LET w == inodes(m)[k]
                IN  node_hash(L)[w.node] = combine(node_hash(L)[w.left], w.node.j, node_hash(L)[w.right])
<1> DEFINE g == tree_of(L)
<1>1. \A a \in Addrs : g[a] = tree_step(L, g, a)
  <2>1. g = [a \in Addrs |-> tree_step(L, g, a)]
    BY TreeRecursion
  <2> HIDE DEF g
  <2>2. QED
    BY <2>1
<1>2. Addr(m, 0) \in Addrs /\ Addr(m, 0).j = 0 /\ Addr(m, 0).i = m
  BY NoBranches DEF Addr
<1>3. node_hash(L) = g
  BY DEF node_hash, tree_of, tree_step
<1> HIDE DEF g
<1>4. g[Addr(m, 0)] = from_bytes(0, L[m])
  BY <1>1, <1>2 DEF tree_step
<1>5. ASSUME NEW k \in 1 .. Len(inodes(m))
      PROVE  LET w == inodes(m)[k]
             IN  g[w.node] = combine(g[w.left], w.node.j, g[w.right])
  <2> DEFINE w == inodes(m)[k]
  <2>1. /\ w.node \in Addrs /\ w.node = Addr(m, w.node.j) /\ w.node.j # 0
        /\ left_of(m, w.node.j) = w.left /\ right_of(m, w.node.j) = w.right
    BY InodeChildren
  <2>2. w.node.i = m
    BY <2>1 DEF Addr
  <2> HIDE DEF w
  <2>3. QED
    BY <1>1, <2>1, <2>2 DEF tree_step, w
<1>6. QED
  BY <1>3, <1>4, <1>5

LEMMA LogTree ==
    ASSUME NEW rev \in Index, NEW L
    PROVE  HashTree(node_hash(L), rev)
<1>1. \A m \in 1 .. rev : m \in Index \ {0}
  BY IndexIsNat
<1>2. QED
  BY <1>1, TreeStep DEF HashTree

\* Two trees have the same hash in a node just when they have the same leaves
\* below it.
LEMMA SameHash ==
    ASSUME NEW m \in Index \ {0}, NEW j \in Nat, HasNode(m, j), NEW L, NEW M
    PROVE  node_hash(L)[Addr(m, j)] = node_hash(M)[Addr(m, j)] <=> \A i \in Over(Addr(m, j)) : L[i] = M[i]
<1> DEFINE Same(a) == node_hash(L)[a] = node_hash(M)[a] <=> \A i \in Over(a) : L[i] = M[i]
           S == {a \in Addrs : Same(a)}
<1>1. ASSUME NEW n \in Index \ {0} PROVE Addr(n, 0) \in S
  <2>1. Addr(n, 0) \in Addrs /\ Over(Addr(n, 0)) = {n}
    BY NoBranches, OverLeaf
  <2>2. node_hash(L)[Addr(n, 0)] = from_bytes(0, L[n]) /\ node_hash(M)[Addr(n, 0)] = from_bytes(0, M[n])
    BY TreeStep
  <2>3. from_bytes(0, L[n]) = from_bytes(0, M[n]) <=> L[n] = M[n]
    BY DEF from_bytes
  <2>4. QED
    BY <2>1, <2>2, <2>3
<1>2. ASSUME NEW n \in Index \ {0}, NEW k \in 1 .. Len(inodes(n)),
             inodes(n)[k].left \in S, inodes(n)[k].right \in S
      PROVE  inodes(n)[k].node \in S
  <2> DEFINE w == inodes(n)[k]
             l == w.left
             r == w.right
             a == w.node
  <2>1. a \in Addrs
    BY InodeChildren
  <2>2. /\ node_hash(L)[a] = combine(node_hash(L)[l], a.j, node_hash(L)[r])
        /\ node_hash(M)[a] = combine(node_hash(M)[l], a.j, node_hash(M)[r])
    BY TreeStep
  <2>3. Over(a) = Over(l) \cup Over(r)
    BY OverInode
  <2>4. Same(l) /\ Same(r)
    BY <1>2
  <2> HIDE DEF l, r, a, w
  <2>5. node_hash(L)[a] = node_hash(M)[a] <=>
           node_hash(L)[l] = node_hash(M)[l] /\ node_hash(L)[r] = node_hash(M)[r]
    BY <2>2 DEF combine
  <2>6. Same(a)
    BY <2>3, <2>4, <2>5
  <2>7. QED
    BY <2>1, <2>6 DEF a, w
<1> HIDE DEF S
<1>3. Addr(m, j) \in S
  BY <1>1, <1>2, NodeInduction
<1>4. QED
  BY <1>3 DEF S

-----------------------------------------------------------------------------
(* A sample divides its tree into its leaf and the nodes that branch off.  *)

Parts(rev, i) == branches_off(root_of(rev), i) \cup {Addr(i, 0)}

LEMMA PartsTile ==
    ASSUME NEW rev \in Index \ {0}, NEW i \in 1 .. rev
    PROVE  /\ \A p \in Parts(rev, i) :
                p \in Addrs /\ p = Addr(p.i, p.j) /\ HasNode(p.i, p.j) /\ p.i \in 1 .. rev /\ Over(p) \subseteq 1 .. rev
           /\ \A k \in 1 .. rev : \E p \in Parts(rev, i) : k \in Over(p)
           /\ \A p, q \in Parts(rev, i) : \A k \in Over(p) : k \in Over(q) => p = q
<1> DEFINE r == root_of(rev)
           B == branches_off(r, i)
<1>1. r = Addr(rev, r.j) /\ r.j \in Nat /\ HasNode(rev, r.j) /\ Over(r) = 1 .. rev
  BY RootNode
<1>2. rev \in Nat \ {0} /\ i \in Index \ {0} /\ 1 .. rev \subseteq Index \ {0}
  BY IndexIsNat
<1>3. Branches(r, i)
  <2>1. i \in Over(Addr(rev, r.j))
    BY <1>1
  <2>2. Branches(Addr(rev, r.j), i)
    BY <1>1, <2>1, BranchesOff
  <2>3. QED
    BY <1>1, <2>2
<1>4. Addr(i, 0) \in Addrs /\ Over(Addr(i, 0)) = {i} /\ Addr(i, 0).i = i /\ Addr(i, 0).j = 0
  BY <1>2, NoBranches, OverLeaf DEF Addr
<1>5. HasNode(i, 0)
  BY DEF HasNode
<1>6. /\ \A b \in B : b \in Addrs /\ HasNode(b.i, b.j) /\ i \notin Over(b) /\ Over(b) \subseteq 1 .. rev
      /\ \A k \in 1 .. rev : k # i => \E b \in B : k \in Over(b)
      /\ \A b, c \in B : \A k \in Over(b) : k \in Over(c) => b = c
  BY <1>1, <1>3 DEF Branches
<1> HIDE DEF r
<1>7. \A b \in B : b = Addr(b.i, b.j) /\ b.i \in 1 .. rev
  <2> SUFFICES ASSUME NEW b \in B PROVE b = Addr(b.i, b.j) /\ b.i \in 1 .. rev
    OBVIOUS
  <2>1. b \in Addrs /\ HasNode(b.i, b.j) /\ Over(b) \subseteq 1 .. rev
    BY <1>6
  <2>2. b = Addr(b.i, b.j) /\ b.j \in Nat /\ b.i \in Index \ {0}
    BY <2>1, AddrHeights DEF Addrs
  <2>3. Over(b) = range_start(b.i, b.j) .. b.i /\ range_start(b.i, b.j) \in 1 .. b.i
    BY <2>1, <2>2, OverOwn
  <2>4. b.i \in Over(b)
    <3>1. b.i \in Nat
      BY <2>1, AddrHeights
    <3>2. \A f \in 1 .. b.i : b.i \in f .. b.i
      BY <3>1
    <3>3. QED
      BY <2>3, <3>2
  <2>5. QED
    BY <2>1, <2>2, <2>4
<1>8. Parts(rev, i) = B \cup {Addr(i, 0)}
  BY DEF Parts, r
<1> HIDE DEF B
<1>9. ASSUME NEW p \in B \cup {Addr(i, 0)}
      PROVE  p \in Addrs /\ p = Addr(p.i, p.j) /\ HasNode(p.i, p.j) /\ p.i \in 1 .. rev /\ Over(p) \subseteq 1 .. rev
  <2>1. CASE p \in B
    BY <1>6, <1>7, <2>1
  <2>2. CASE p = Addr(i, 0)
    BY <1>4, <1>5, <2>2
  <2>3. QED
    BY <2>1, <2>2
<1>10. ASSUME NEW p \in B \cup {Addr(i, 0)}, NEW q \in B \cup {Addr(i, 0)}, NEW k \in Over(p), k \in Over(q)
       PROVE  p = q
  BY <1>4, <1>6, <1>10
<1>11. ASSUME NEW k \in 1 .. rev PROVE \E p \in B \cup {Addr(i, 0)} : k \in Over(p)
  BY <1>4, <1>6
<1>12. QED
  BY <1>8, <1>9, <1>10, <1>11

-----------------------------------------------------------------------------
(* What compare answers.                                                   *)

LEMMA SampleIsGood ==
    ASSUME NEW rev \in Index \ {0}, NEW i \in 1 .. rev, NEW L
    PROVE  GoodSample(node_hash(L), rev, get_sample(L, rev, i))
<1> DEFINE x == get_sample(L, rev, i)
           H == node_hash(L)
           B == branches_off(root_of(rev), i)
<1>1. x = Sample(rev, i, L[i], {Witness(a.i, a.j, H[a]) : a \in B})
  BY DEF get_sample
<1>2. \A a \in B : a = Addr(a.i, a.j)
  BY PartsTile DEF Parts
<1> HIDE DEF x, H, B
<1>3. /\ x.revision = rev /\ x.i = i /\ x.payload = L[i]
      /\ x.witnesses = {Witness(a.i, a.j, H[a]) : a \in B}
  BY <1>1 DEF Sample
<1>4. H[Addr(i, 0)] = from_bytes(0, L[i])
  <2>1. i \in Index \ {0}
    BY IndexIsNat
  <2>2. QED
    BY <2>1, TreeStep DEF H
<1>5. ASSUME NEW a \in B
      PROVE  LET w == Witness(a.i, a.j, H[a])
             IN  w = Witness(w.i, w.j, w.hash) /\ w.hash = H[Addr(w.i, w.j)] /\ Addr(w.i, w.j) = a
  BY <1>2 DEF Witness
<1>6. \A w \in x.witnesses : w = Witness(w.i, w.j, w.hash) /\ w.hash = H[Addr(w.i, w.j)] /\ Addr(w.i, w.j) \in B
  BY <1>3, <1>5
<1>7. \A a \in B : \E w \in x.witnesses : Addr(w.i, w.j) = a
  BY <1>3, <1>5
<1>8. {Addr(w.i, w.j) : w \in x.witnesses} = B
  BY <1>6, <1>7
<1>9. GoodSample(H, rev, x)
  BY <1>3, <1>4, <1>6, <1>8 DEF GoodSample, B
<1>10. QED
  BY <1>9 DEF x, H

\* compare of two samples of an index: both are accepted, and the answer are the
\* parts over leaves that differ.
LEMMA Compared ==
    ASSUME NEW rev \in Index \ {0}, NEW i \in 1 .. rev, NEW L, NEW M
    PROVE  LET x == get_sample(L, rev, i)
               y == get_sample(M, rev, i)
           IN  /\ x.revision = rev /\ x.i = i
               /\ comparable(x, y) /\ root_hash_succeeds(x) /\ root_hash_succeeds(y)
               /\ compare_never_panics(x, y)
               /\ identical(x, y) <=> \A k \in 1 .. rev : L[k] = M[k]
               /\ divergents(x, y) = {p \in Parts(rev, i) : \E k \in Over(p) : L[k] # M[k]}
<1> DEFINE x == get_sample(L, rev, i)
           y == get_sample(M, rev, i)
           G == node_hash(L)
           H == node_hash(M)
           B == branches_off(root_of(rev), i)
           r == root_of(rev)
           Differ(p) == \E k \in Over(p) : L[k] # M[k]
<1>1. GoodSample(G, rev, x) /\ GoodSample(H, rev, y)
  BY SampleIsGood
<1>2. HashTree(G, rev) /\ HashTree(H, rev)
  BY LogTree
<1>3. /\ root_hash_succeeds(x) /\ root_hash(x) = G[r]
      /\ root_hash_succeeds(y) /\ root_hash(y) = H[r]
  <2> HIDE DEF x, y, G, H
  <2>1. root_hash_succeeds(x) /\ root_hash(x) = G[r]
    BY <1>1, <1>2, SamplesProve
  <2>2. root_hash_succeeds(y) /\ root_hash(y) = H[r]
    BY <1>1, <1>2, SamplesProve
  <2>3. QED
    BY <2>1, <2>2
<1>4. /\ x.revision = rev /\ x.i = i /\ x.payload = L[i]
      /\ y.revision = rev /\ y.i = i /\ y.payload = M[i]
  BY DEF get_sample, Sample
<1>5. /\ \A p \in Parts(rev, i) : p \in Addrs /\ p = Addr(p.i, p.j) /\ HasNode(p.i, p.j)
      /\ Parts(rev, i) = B \cup {Addr(i, 0)}
  BY PartsTile DEF Parts
<1>6. \A p \in Parts(rev, i) : G[p] # H[p] <=> Differ(p)
  <2> SUFFICES ASSUME NEW p \in Parts(rev, i) PROVE G[p] # H[p] <=> Differ(p)
    OBVIOUS
  <2>1. p = Addr(p.i, p.j) /\ HasNode(p.i, p.j) /\ p.i \in Index \ {0} /\ p.j \in Nat
    BY <1>5, AddrHeights DEF Addrs
  <2>2. G[Addr(p.i, p.j)] = H[Addr(p.i, p.j)] <=> \A k \in Over(Addr(p.i, p.j)) : L[k] = M[k]
    BY <2>1, SameHash
  <2> HIDE DEF G, H
  <2>3. QED
    BY <2>1, <2>2
<1>7. G[r] = H[r] <=> \A k \in 1 .. rev : L[k] = M[k]
  <2>1. r = Addr(rev, r.j) /\ r.j \in Nat /\ HasNode(rev, r.j) /\ Over(r) = 1 .. rev
    BY RootNode
  <2> HIDE DEF r
  <2>2. G[Addr(rev, r.j)] = H[Addr(rev, r.j)] <=> \A k \in Over(Addr(rev, r.j)) : L[k] = M[k]
    BY <2>1, SameHash
  <2> HIDE DEF G, H
  <2>3. QED
    BY <2>1, <2>2
<1> HIDE DEF x, y, G, H, Differ
<1>8. /\ \A w \in x.witnesses : w = Witness(w.i, w.j, w.hash) /\ w.hash = G[Addr(w.i, w.j)] /\ Addr(w.i, w.j) \in B
      /\ \A b \in B : \E w \in x.witnesses : b = Addr(w.i, w.j)
  BY <1>1, <1>4 DEF GoodSample
<1>9. /\ \A u \in y.witnesses : u = Witness(u.i, u.j, u.hash) /\ u.hash = H[Addr(u.i, u.j)] /\ Addr(u.i, u.j) \in B
      /\ \A b \in B : \E u \in y.witnesses : b = Addr(u.i, u.j)
  BY <1>1, <1>4 DEF GoodSample
<1>10. ASSUME NEW w \in x.witnesses
       PROVE  /\ \E u \in y.witnesses : u.i = w.i /\ u.j = w.j
              /\ witness_hash(y, w) = H[Addr(w.i, w.j)]
  <2>1. PICK u \in y.witnesses : Addr(w.i, w.j) = Addr(u.i, u.j)
    BY <1>8, <1>9
  <2>2. u.i = w.i /\ u.j = w.j
    BY <2>1 DEF Addr
  <2>3. \A v \in y.witnesses : v.i = w.i /\ v.j = w.j => v.hash = H[Addr(w.i, w.j)]
    BY <1>9
  <2>4. witness_hash(y, w) = H[Addr(w.i, w.j)]
    BY <2>2, <2>3 DEF witness_hash
  <2>5. QED
    BY <2>2, <2>4
<1>11. compare_never_panics(x, y)
  BY <1>10 DEF compare_never_panics
<1>12. {Addr(w.i, w.j) : w \in {u \in x.witnesses : u.hash # witness_hash(y, u)}} = {b \in B : Differ(b)}
  <2>1. ASSUME NEW w \in x.witnesses PROVE w.hash # witness_hash(y, w) <=> Differ(Addr(w.i, w.j))
    <3>1. w.hash = G[Addr(w.i, w.j)] /\ Addr(w.i, w.j) \in Parts(rev, i)
      BY <1>5, <1>8
    <3>2. witness_hash(y, w) = H[Addr(w.i, w.j)]
      BY <1>10
    <3>3. QED
      BY <1>6, <3>1, <3>2
  <2>2. QED
    BY <1>8, <2>1
<1>13. from_bytes(0, x.payload) # from_bytes(0, y.payload) <=> Differ(Addr(i, 0))
  <2>1. Over(Addr(i, 0)) = {i}
    <3>1. i \in Index \ {0}
      BY IndexIsNat
    <3>2. QED
      BY <3>1, OverLeaf
  <2>2. from_bytes(0, L[i]) = from_bytes(0, M[i]) <=> L[i] = M[i]
    BY DEF from_bytes
  <2>3. QED
    BY <1>4, <2>1, <2>2 DEF Differ
<1>14. divergents(x, y) = {p \in Parts(rev, i) : Differ(p)}
  <2>1. divergents(x, y) = {b \in B : Differ(b)} \cup
           {a \in {Addr(x.i, 0)} : from_bytes(0, x.payload) # from_bytes(0, y.payload)}
    BY <1>12 DEF divergents
  <2>2. divergents(x, y) = {b \in B : Differ(b)} \cup {a \in {Addr(i, 0)} : Differ(a)}
    <3>1. {a \in {Addr(x.i, 0)} : from_bytes(0, x.payload) # from_bytes(0, y.payload)} = {a \in {Addr(i, 0)} : Differ(a)}
      BY <1>4, <1>13
    <3>2. QED
      BY <2>1, <3>1
  <2>3. QED
    BY <1>5, <2>2
<1>15. identical(x, y) <=> \A k \in 1 .. rev : L[k] = M[k]
  BY <1>3, <1>7 DEF identical
<1>16. comparable(x, y)
  BY <1>4 DEF comparable
<1>17. QED
  BY <1>3, <1>4, <1>11, <1>14, <1>15, <1>16 DEF x, y, Differ

-----------------------------------------------------------------------------
(* The inductive invariant.                                                *)

SearchSteps == {"none", "ask", "sent", "answered", "found", "identical", "failed"}

\* The parts of the sample of leaf i in which the trees differ.
Diverging(i) == {p \in Parts(search.revision, i) : \E k \in Differing : contains(p.i, p.j, k)}

\* What each party has said stays true of the revision of the search, whatever
\* they append.
CompareInv ==
    /\ client \in Seq(Value) /\ Len(client) <= MaxN
    /\ server \in Seq(Value) /\ Len(server) <= MaxN
    /\ search = Search(search.step, search.revision, search.i, search.node, search.sample, search.diffs)
    /\ search.step \in SearchSteps
    /\ search.step # "none" => search.revision \in 1 .. Len(client) /\ search.i \in 1 .. search.revision
    /\ search.step = "sent" => search.sample = get_sample(client, search.revision, search.i)
    /\ search.step \in {"answered", "found", "identical"} => search.revision <= Len(server)
    /\ search.step = "answered" => Differing # {} /\ search.diffs = Diverging(search.i)
    /\ search.step = "found" => search.i \in Differing /\ \A k \in Differing : k <= search.i
    /\ search.step = "identical" => Differing = {}

\* The search stands at a node on the way from the root to its leaf, and has come
\* down only to nodes that contain the latest leaf that differs.
OnWay(a, i) == /\ a \in Addrs /\ HasNode(a.i, a.j) /\ contains(a.i, a.j, i)
               /\ branches_off(a, i) \subseteq branches_off(root_of(search.revision), i)
ContainsLatest(a) == \E k \in Differing : contains(a.i, a.j, k) /\ \A l \in Differing : l <= k
WayInv ==
    search.step \in {"ask", "sent", "answered"} =>
        /\ OnWay(search.node, search.i)
        /\ \/ search.node = root_of(search.revision)
           \/ search.revision <= Len(server) /\ ContainsLatest(search.node)

\* A sample that get_sample makes of the client's list is one the server can
\* compare: its root hash can be computed and both samples have the same nodes.
AlwaysComparable ==
    search.step = "sent" /\ search.revision <= Len(server) =>
        LET x == search.sample
            y == get_sample(server, x.revision, x.i)
        IN  /\ comparable(y, x) /\ root_hash_succeeds(y) /\ root_hash_succeeds(x)
            /\ compare_never_panics(y, x)

\* An answer that does not end the search leads to a lower node.
LeadsDown == search.step = "answered" /\ search'.step = "ask" => search'.node.j \in 0 .. search.node.j - 1
AnswersLeadDown == [][LeadsDown]_compareVars

\* What is appended changes no sample of an older revision.
LEMMA SampleStays ==
    ASSUME NEW rev \in Index \ {0}, NEW i \in 1 .. rev, NEW L, NEW M, \A k \in 1 .. rev : M[k] = L[k]
    PROVE  get_sample(M, rev, i) = get_sample(L, rev, i)
<1> DEFINE G == node_hash(L)
           H == node_hash(M)
           B == branches_off(root_of(rev), i)
<1>1. \A b \in B : G[b] = H[b]
  <2> SUFFICES ASSUME NEW b \in B PROVE G[b] = H[b]
    OBVIOUS
  <2>1. b \in Addrs /\ b = Addr(b.i, b.j) /\ HasNode(b.i, b.j) /\ Over(b) \subseteq 1 .. rev
    BY PartsTile DEF Parts
  <2>2. b.i \in Index \ {0} /\ b.j \in Nat
    BY <2>1, AddrHeights DEF Addrs
  <2>3. G[Addr(b.i, b.j)] = H[Addr(b.i, b.j)] <=> \A k \in Over(Addr(b.i, b.j)) : L[k] = M[k]
    BY <2>1, <2>2, SameHash
  <2> HIDE DEF G, H, B
  <2>4. QED
    BY <2>1, <2>3
<1>2. {Witness(a.i, a.j, G[a]) : a \in B} = {Witness(a.i, a.j, H[a]) : a \in B}
  BY <1>1
<1>3. L[i] = M[i]
  OBVIOUS
<1>4. get_sample(L, rev, i) = Sample(rev, i, L[i], {Witness(a.i, a.j, G[a]) : a \in B})
  BY DEF get_sample
<1>5. get_sample(M, rev, i) = Sample(rev, i, M[i], {Witness(a.i, a.j, H[a]) : a \in B})
  BY DEF get_sample
<1> HIDE DEF G, H, B
<1>6. QED
  BY <1>2, <1>3, <1>4, <1>5

\* A revision both parties may have is one of the code's indices.
LEMMA SearchRevision ==
    ASSUME CompareInv, search.step # "none"
    PROVE  /\ search.revision \in Index \ {0} /\ search.revision \in Nat \ {0} /\ search.i \in 1 .. search.revision
           /\ search.revision \in 1 .. Len(client)
<1>1. Len(client) \in Nat /\ Len(client) <= MaxN /\ search.revision \in 1 .. Len(client) /\ search.i \in 1 .. search.revision
  BY DEF CompareInv
<1>2. MaxN \in Nat /\ 0 .. MaxN \subseteq Index
  BY CompareAssumption, IndexIsNat
<1>3. QED
  BY <1>1, <1>2

LEMMA CompareInvInit == Init => CompareInv
<1> SUFFICES ASSUME Init PROVE CompareInv
  OBVIOUS
<1>1. client = <<>> /\ server = <<>> /\ search = NoSearch
  BY DEF Init
<1>2. <<>> \in Seq(Value) /\ Len(<<>>) = 0 /\ 0 <= MaxN
  BY StorageAssumption
<1>3. search.step = "none" /\ search = Search(search.step, search.revision, search.i, search.node, search.sample, search.diffs)
  BY <1>1 DEF NoSearch, Search
<1>4. QED
  BY <1>1, <1>2, <1>3 DEF CompareInv, SearchSteps

\* Appending changes nothing up to the revision of the search.
LEMMA ClientAppendKeeps ==
    ASSUME CompareInv, NEW v \in Value, ClientAppend(v)
    PROVE  CompareInv'
<1>1. /\ client' = Append(client, v) /\ server' = server /\ search' = search /\ Len(client) < MaxN
      /\ client \in Seq(Value) /\ Len(client) \in Nat
  BY DEF ClientAppend, CompareInv
<1>2. client' \in Seq(Value) /\ Len(client') <= MaxN /\ Len(client') = Len(client) + 1
  BY <1>1, StorageAssumption
<1>3. search.step # "none" => Differing' = Differing /\ search.revision \in 1 .. Len(client')
  <2> SUFFICES ASSUME search.step # "none" PROVE Differing' = Differing /\ search.revision \in 1 .. Len(client')
    OBVIOUS
  <2>1. search.revision \in 1 .. Len(client)
    BY SearchRevision
  <2>2. \A k \in 1 .. search.revision : client'[k] = client[k]
    BY <1>1, <2>1
  <2>3. QED
    BY <1>1, <1>2, <2>1, <2>2 DEF Differing
<1>4. search.step = "sent" => search.sample = get_sample(client', search.revision, search.i)
  <2> SUFFICES ASSUME search.step = "sent" PROVE search.sample = get_sample(client', search.revision, search.i)
    OBVIOUS
  <2>1. search.revision \in 1 .. Len(client) /\ search.revision \in Index \ {0} /\ search.i \in 1 .. search.revision
    BY SearchRevision
  <2>2. \A k \in 1 .. search.revision : client'[k] = client[k]
    BY <1>1, <2>1
  <2>3. get_sample(client', search.revision, search.i) = get_sample(client, search.revision, search.i)
    BY <2>1, <2>2, SampleStays
  <2>4. QED
    BY <1>1, <2>3 DEF CompareInv
<1>5. search.step # "none" => Diverging(search.i)' = Diverging(search.i)
  BY <1>1, <1>3 DEF Diverging
<1>6. QED
  BY <1>1, <1>2, <1>3, <1>4, <1>5 DEF CompareInv

LEMMA ServerAppendKeeps ==
    ASSUME CompareInv, NEW v \in Value, ServerAppend(v)
    PROVE  CompareInv'
<1>1. /\ server' = Append(server, v) /\ client' = client /\ search' = search /\ Len(server) < MaxN
      /\ server \in Seq(Value) /\ Len(server) \in Nat
  BY DEF ServerAppend, CompareInv
<1>2. server' \in Seq(Value) /\ Len(server') <= MaxN /\ Len(server') = Len(server) + 1
  BY <1>1, StorageAssumption
<1>3. search.step # "none" /\ search.revision <= Len(server) =>
          Differing' = Differing /\ Diverging(search.i)' = Diverging(search.i) /\ search.revision <= Len(server')
  <2> SUFFICES ASSUME search.step # "none", search.revision <= Len(server)
               PROVE  Differing' = Differing /\ Diverging(search.i)' = Diverging(search.i) /\ search.revision <= Len(server')
    OBVIOUS
  <2>1. search.revision \in Nat
    BY SearchRevision
  <2>2. \A k \in 1 .. search.revision : server'[k] = server[k]
    BY <1>1, <2>1
  <2>3. Differing' = Differing
    BY <1>1, <2>2 DEF Differing
  <2>4. QED
    BY <1>1, <1>2, <2>1, <2>3 DEF Diverging
<1>4. QED
  BY <1>1, <1>2, <1>3 DEF CompareInv

LEMMA StartKeeps ==
    ASSUME CompareInv, NEW i \in 1 .. MaxN, Start(i)
    PROVE  CompareInv'
<1> DEFINE n == Len(client)
<1>1. /\ search' = Search("ask", n, i, root_of(n), NoSample, {}) /\ i \in 1 .. n
      /\ client' = client /\ server' = server
  BY DEF Start
<1>2. n \in Nat
  BY DEF CompareInv
<1>3. n \in 1 .. n
  BY <1>1, <1>2
<1>4. /\ search' = Search(search'.step, search'.revision, search'.i, search'.node, search'.sample, search'.diffs)
      /\ search'.step = "ask" /\ search'.revision = n /\ search'.i = i
  BY <1>1 DEF Search
<1> HIDE DEF n
<1>5. QED
  BY <1>1, <1>3, <1>4 DEF CompareInv, SearchSteps, n

LEMMA AskKeeps ==
    ASSUME CompareInv, Ask
    PROVE  CompareInv'
<1>1. /\ search.step = "ask" /\ client' = client /\ server' = server
      /\ search' = [search EXCEPT !.step = "sent", !.sample = get_sample(client, search.revision, search.i)]
  BY DEF Ask
<1>2. search = Search(search.step, search.revision, search.i, search.node, search.sample, search.diffs)
  BY DEF CompareInv
<1>3. search' = Search("sent", search.revision, search.i, search.node,
                       get_sample(client, search.revision, search.i), search.diffs)
  BY <1>1, <1>2 DEF Search
<1>4. /\ search' = Search(search'.step, search'.revision, search'.i, search'.node, search'.sample, search'.diffs)
      /\ search'.step = "sent" /\ search'.revision = search.revision /\ search'.i = search.i
      /\ search'.sample = get_sample(client, search.revision, search.i)
  BY <1>3 DEF Search
<1>5. QED
  BY <1>1, <1>4 DEF CompareInv, SearchSteps

\* What the server finds out about a sample.
LEMMA Answer ==
    ASSUME CompareInv, search.step = "sent", search.revision <= Len(server)
    PROVE  LET x == search.sample
               y == get_sample(server, x.revision, x.i)
           IN  /\ comparable(y, x) /\ root_hash_succeeds(y) /\ root_hash_succeeds(x)
               /\ compare_never_panics(y, x)
               /\ identical(y, x) <=> Differing = {}
               /\ divergents(y, x) = Diverging(search.i)
<1> DEFINE rev == search.revision
           i == search.i
           x == search.sample
           z == get_sample(server, rev, i)
<1>1. rev \in Index \ {0} /\ i \in 1 .. rev
  BY SearchRevision
<1>2. x = get_sample(client, rev, i)
  BY DEF CompareInv
<1>3. /\ z.revision = rev /\ z.i = i /\ comparable(z, x) /\ root_hash_succeeds(z) /\ root_hash_succeeds(x)
      /\ compare_never_panics(z, x)
      /\ identical(z, x) <=> \A k \in 1 .. rev : server[k] = client[k]
      /\ divergents(z, x) = {p \in Parts(rev, i) : \E k \in Over(p) : server[k] # client[k]}
  <2> HIDE DEF rev, i, x
  <2>1. QED
    BY <1>1, <1>2, Compared
<1>4. get_sample(server, x.revision, x.i) = z
  BY <1>3 DEF comparable
<1>5. Differing = {k \in 1 .. rev : client[k] # server[k]}
  BY DEF Differing
<1>6. \A p \in Parts(rev, i) : Over(p) \subseteq 1 .. rev
  BY <1>1, PartsTile
<1>7. rev \in Nat
  BY SearchRevision
<1> HIDE DEF z, x
<1>8. divergents(z, x) = Diverging(i)
  <2>1. Diverging(i) = {p \in Parts(rev, i) : \E k \in Differing : contains(p.i, p.j, k)}
    BY DEF Diverging
  <2> HIDE DEF rev, i
  <2>2. \A p \in Parts(rev, i) : (\E k \in Over(p) : server[k] # client[k]) <=>
                                 (\E k \in Differing : contains(p.i, p.j, k))
    <3> SUFFICES ASSUME NEW p \in Parts(rev, i)
                 PROVE  (\E k \in Over(p) : server[k] # client[k]) <=> \E k \in Differing : contains(p.i, p.j, k)
      OBVIOUS
    <3>1. \A k \in 1 .. rev : k \in Over(p) <=> contains(p.i, p.j, k)
      BY <1>7 DEF Over
    <3>2. Over(p) \subseteq 1 .. rev
      BY <1>6
    <3>3. QED
      BY <1>5, <3>1, <3>2
  <2>3. QED
    BY <1>3, <2>1, <2>2
<1>9. identical(z, x) <=> Differing = {}
  BY <1>3, <1>5
<1>10. QED
  BY <1>3, <1>4, <1>8, <1>9 DEF x

LEMMA CompareKeeps ==
    ASSUME CompareInv, Compare
    PROVE  CompareInv'
<1> DEFINE x == search.sample
           y == get_sample(server, x.revision, x.i)
<1>1. search.step = "sent" /\ client' = client /\ server' = server
  BY DEF Compare
<1>2. /\ search = Search(search.step, search.revision, search.i, search.node, search.sample, search.diffs)
      /\ search.revision \in Nat /\ Len(server) \in Nat
  BY <1>1, SearchRevision DEF CompareInv
<1>3. CASE search.revision > Len(server)
  <2>1. search' = [search EXCEPT !.step = "failed", !.sample = NoSample]
    BY <1>3 DEF Compare
  <2>2. search' = Search("failed", search.revision, search.i, search.node, NoSample, search.diffs)
    BY <1>2, <2>1 DEF Search
  <2>3. /\ search' = Search(search'.step, search'.revision, search'.i, search'.node, search'.sample, search'.diffs)
        /\ search'.step = "failed" /\ search'.revision = search.revision /\ search'.i = search.i
    BY <2>2 DEF Search
  <2>4. QED
    BY <1>1, <2>3 DEF CompareInv, SearchSteps
<1>4. CASE ~(search.revision > Len(server))
  <2>1. search.revision <= Len(server)
    BY <1>2, <1>4
  <2>2. (identical(y, x) <=> Differing = {}) /\ divergents(y, x) = Diverging(search.i)
    BY <1>1, <2>1, Answer
  <2>3. search' = IF identical(y, x) THEN [search EXCEPT !.step = "identical", !.sample = NoSample]
                  ELSE [search EXCEPT !.step = "answered", !.sample = NoSample, !.diffs = divergents(y, x)]
    BY <1>4 DEF Compare
  <2> HIDE DEF x, y
  <2>4. Differing' = Differing /\ Diverging(search.i)' = Diverging(search.i) /\ search'.i = search.i
    <3>1. search'.revision = search.revision /\ search'.i = search.i
      BY <1>2, <2>3 DEF Search
    <3>2. Differing' = Differing
      BY <1>1, <3>1 DEF Differing
    <3>3. QED
      BY <1>1, <3>1, <3>2 DEF Diverging
  <2>5. CASE identical(y, x)
    <3>1. search' = Search("identical", search.revision, search.i, search.node, NoSample, search.diffs)
      BY <1>2, <2>3, <2>5 DEF Search
    <3>2. /\ search' = Search(search'.step, search'.revision, search'.i, search'.node, search'.sample, search'.diffs)
          /\ search'.step = "identical" /\ search'.revision = search.revision /\ search'.i = search.i
      BY <3>1 DEF Search
    <3>3. QED
      BY <1>1, <2>1, <2>2, <2>4, <2>5, <3>2 DEF CompareInv, SearchSteps
  <2>6. CASE ~identical(y, x)
    <3>1. search' = Search("answered", search.revision, search.i, search.node, NoSample, Diverging(search.i))
      BY <1>2, <2>2, <2>3, <2>6 DEF Search
    <3>2. /\ search' = Search(search'.step, search'.revision, search'.i, search'.node, search'.sample, search'.diffs)
          /\ search'.step = "answered" /\ search'.revision = search.revision /\ search'.i = search.i
          /\ search'.diffs = Diverging(search.i)
      BY <3>1 DEF Search
    <3>3. search'.diffs = Diverging(search.i)'
      BY <2>4, <3>2
    <3>4. QED
      BY <1>1, <2>1, <2>2, <2>4, <2>6, <3>2, <3>3 DEF CompareInv, SearchSteps
  <2>7. QED
    BY <2>5, <2>6
<1>5. QED
  BY <1>3, <1>4

LEMMA RestartKeeps ==
    ASSUME CompareInv, Restart
    PROVE  CompareInv'
<1>1. search' = NoSearch /\ client' = client /\ server' = server
  BY DEF Restart
<1>2. /\ search'.step = "none"
      /\ search' = Search(search'.step, search'.revision, search'.i, search'.node, search'.sample, search'.diffs)
  BY <1>1 DEF NoSearch, Search
<1>3. QED
  BY <1>1, <1>2 DEF CompareInv, SearchSteps

\* An answer of several nodes has a first one.
LEMMA FirstNode ==
    ASSUME NEW T \in SUBSET Addrs, T # {}
    PROVE  /\ first_divergent(T) \in T
           /\ \A b \in T : LET a == first_divergent(T) IN a.i > b.i \/ (a.i = b.i /\ a.j >= b.j)
<1>1. \A a \in T : a.i \in Nat /\ a.i < 2^INDEX_SIZE /\ a.j \in Nat /\ a.j < INDEX_SIZE + 1
  <2>1. INDEX_SIZE \in Nat /\ 2^INDEX_SIZE \in Nat
    <3>1. INDEX_SIZE \in Nat
      BY IndexSizeAssumption
    <3>2. QED
      BY <3>1, PowerCounts
  <2>2. \A a \in T : a.i \in Index
    BY DEF Addrs
  <2>3. \A a \in T : a.j \in Nat /\ a.j <= INDEX_SIZE /\ a.i \in Nat
    BY AddrHeights
  <2>4. QED
    BY <2>1, <2>2, <2>3 DEF Index
<1>2. INDEX_SIZE + 1 \in Nat /\ 2^INDEX_SIZE \in Nat
  <2>1. INDEX_SIZE \in Nat
    BY IndexSizeAssumption
  <2>2. 2^INDEX_SIZE \in Nat
    BY <2>1, PowerCounts
  <2>3. QED
    BY <2>1, <2>2
<1> DEFINE I == {a.i : a \in T}
<1>3. I \in SUBSET Nat /\ I # {} /\ \A x \in I : x < 2^INDEX_SIZE
  BY <1>1
<1>4. PICK m \in I : \A x \in I : x <= m
  <2> HIDE DEF I
  <2>1. QED
    BY <1>2, <1>3, GreatestElement
<1> DEFINE J == {a.j : a \in {b \in T : b.i = m}}
<1>5. J \in SUBSET Nat /\ J # {} /\ \A x \in J : x < INDEX_SIZE + 1
  BY <1>1, <1>4
<1>6. PICK h \in J : \A x \in J : x <= h
  <2> HIDE DEF J, I
  <2>1. QED
    BY <1>2, <1>5, GreatestElement
<1>7. PICK a \in T : a.i = m /\ a.j = h
  BY <1>6
<1>8. \A b \in T : b.i <= m /\ (b.i = m => b.j <= h)
  BY <1>4, <1>6
<1> HIDE DEF I, J
<1>9. \A b \in T : a.i > b.i \/ (a.i = b.i /\ a.j >= b.j)
  <2> SUFFICES ASSUME NEW b \in T PROVE a.i > b.i \/ (a.i = b.i /\ a.j >= b.j)
    OBVIOUS
  <2>1. a.i \in Nat /\ a.j \in Nat /\ b.i \in Nat /\ b.j \in Nat
    BY <1>1
  <2>2. b.i <= a.i /\ (b.i = a.i => b.j <= a.j)
    BY <1>7, <1>8
  <2>3. QED
    BY <2>1, <2>2
<1>10. QED
  BY <1>9 DEF first_divergent

\* Of the parts in which the trees differ, the first is the one that contains the
\* latest leaf that differs.
LEMMA FirstIsLatest ==
    ASSUME CompareInv, search.step = "answered"
    PROVE  LET d == first_divergent(search.diffs)
           IN  /\ d \in search.diffs /\ d \in Parts(search.revision, search.i) /\ d.i \in 1 .. search.revision
               /\ \A k \in Differing : k <= d.i
               /\ ContainsLatest(d)
<1> DEFINE rev == search.revision
           P == Parts(rev, search.i)
           D == search.diffs
           d == first_divergent(D)
<1>1. rev \in Index \ {0} /\ search.i \in 1 .. rev /\ rev \in Nat
  BY SearchRevision
<1>2. /\ \A p \in P : p \in Addrs /\ p = Addr(p.i, p.j) /\ HasNode(p.i, p.j) /\ p.i \in 1 .. rev /\ Over(p) \subseteq 1 .. rev
      /\ \A k \in 1 .. rev : \E p \in P : k \in Over(p)
      /\ \A p, q \in P : \A k \in Over(p) : k \in Over(q) => p = q
  BY <1>1, PartsTile
<1>3. Differing \subseteq 1 .. rev /\ Differing # {}
  BY DEF CompareInv, Differing
<1>4. D = {p \in P : \E k \in Differing : contains(p.i, p.j, k)}
  BY DEF CompareInv, Diverging
<1>5. \A p \in P : p.i \in Nat /\ range_start(p.i, p.j) \in 1 .. p.i /\ Over(p) = range_start(p.i, p.j) .. p.i
  <2> SUFFICES ASSUME NEW p \in P
               PROVE  p.i \in Nat /\ range_start(p.i, p.j) \in 1 .. p.i /\ Over(p) = range_start(p.i, p.j) .. p.i
    OBVIOUS
  <2>1. p = Addr(p.i, p.j) /\ HasNode(p.i, p.j) /\ p.i \in Index \ {0} /\ p.j \in Nat /\ p.i \in Nat
    BY <1>2, AddrHeights DEF Addrs
  <2>2. Over(Addr(p.i, p.j)) = range_start(p.i, p.j) .. p.i /\ range_start(p.i, p.j) \in 1 .. p.i
    BY <2>1, OverOwn
  <2>3. QED
    BY <2>1, <2>2
<1>6. \A p \in P : \A k \in 1 .. rev : k \in Over(p) <=> contains(p.i, p.j, k)
  BY <1>1 DEF Over
<1>7. PICK g \in Differing : \A k \in Differing : k <= g
  <2>1. Differing \in SUBSET Nat /\ rev + 1 \in Nat /\ \A k \in Differing : k < rev + 1
    BY <1>1, <1>3
  <2>2. QED
    BY <1>3, <2>1, GreatestElement
<1>8. PICK e \in P : g \in Over(e)
  BY <1>2, <1>3
<1>9. e \in D
  BY <1>3, <1>4, <1>6, <1>7, <1>8
<1>10. D \in SUBSET Addrs /\ D # {}
  BY <1>2, <1>4, <1>9
<1>11. d \in D /\ (d.i > e.i \/ d.i = e.i)
  <2> HIDE DEF D
  <2>1. QED
    BY <1>9, <1>10, FirstNode
<1>12. d \in P /\ \E k \in Differing : contains(d.i, d.j, k)
  BY <1>4, <1>11
<1>13. PICK k \in Differing : contains(d.i, d.j, k)
  BY <1>12
<1> HIDE DEF D, d, P
<1>14. g \in Over(d)
  <2>1. k \in Over(d) /\ k <= g
    BY <1>3, <1>6, <1>7, <1>12, <1>13
  <2>2. g \in Nat /\ k \in Nat /\ g <= e.i /\ range_start(d.i, d.j) <= k
    BY <1>3, <1>5, <1>7, <1>8, <1>12, <2>1
  <2>3. d.i \in Nat /\ e.i \in Nat /\ range_start(d.i, d.j) \in 1 .. d.i
    BY <1>5, <1>8, <1>12
  <2>4. g \in range_start(d.i, d.j) .. d.i
    BY <1>11, <2>1, <2>2, <2>3
  <2>5. QED
    BY <1>5, <1>12, <2>4
<1>15. contains(d.i, d.j, g)
  BY <1>3, <1>6, <1>7, <1>12, <1>14
<1>16. \A l \in Differing : l <= d.i
  <2>1. g <= d.i /\ g \in Nat /\ d.i \in Nat
    BY <1>5, <1>12, <1>14
  <2>2. QED
    BY <1>1, <1>3, <1>7, <2>1
<1>17. ContainsLatest(d)
  BY <1>7, <1>15 DEF ContainsLatest
<1>18. d.i \in 1 .. rev
  BY <1>2, <1>12
<1>19. QED
  BY <1>11, <1>12, <1>16, <1>17, <1>18 DEF D, d, P

LEMMA ContinueKeeps ==
    ASSUME CompareInv, Continue
    PROVE  CompareInv'
<1> DEFINE d == first_divergent(search.diffs)
           step == IF d.j = 0 THEN "found" ELSE "ask"
<1>1. /\ search.step = "answered" /\ client' = client /\ server' = server
      /\ search' = [search EXCEPT !.step = step, !.i = d.i, !.node = d, !.diffs = {}]
  BY DEF Continue
<1>2. search = Search(search.step, search.revision, search.i, search.node, search.sample, search.diffs)
  BY DEF CompareInv
<1>3. /\ d \in Parts(search.revision, search.i) /\ d.i \in 1 .. search.revision
      /\ \A k \in Differing : k <= d.i
      /\ ContainsLatest(d)
  BY <1>1, FirstIsLatest
<1>4. search.revision \in Index \ {0} /\ search.i \in 1 .. search.revision /\ search.revision \in Nat
  BY <1>1, SearchRevision
<1>5. d = Addr(d.i, d.j) /\ d.i \in Index \ {0}
  <2> HIDE DEF d
  <2>1. d \in Addrs /\ d = Addr(d.i, d.j)
    BY <1>3, <1>4, PartsTile
  <2>2. QED
    BY <2>1 DEF Addrs
<1> HIDE DEF d
<1>6. d.j = 0 => d.i \in Differing
  <2> SUFFICES ASSUME d.j = 0 PROVE d.i \in Differing
    OBVIOUS
  <2>1. PICK k \in Differing : contains(d.i, d.j, k)
    BY <1>3 DEF ContainsLatest
  <2>2. k \in Nat
    BY <1>4 DEF Differing
  <2>3. Over(d) = {d.i}
    BY <1>5, OverLeaf
  <2>4. k \in Over(d)
    BY <2>1, <2>2 DEF Over
  <2>5. QED
    BY <2>1, <2>3, <2>4
<1>7. search' = Search(step, search.revision, d.i, d, search.sample, {})
  BY <1>1, <1>2 DEF Search
<1>8. /\ search' = Search(search'.step, search'.revision, search'.i, search'.node, search'.sample, search'.diffs)
      /\ search'.step = step /\ search'.revision = search.revision /\ search'.i = d.i
  BY <1>7 DEF Search
<1>9. Differing' = Differing
  BY <1>1, <1>8 DEF Differing
<1>10. search.revision <= Len(server)
  BY <1>1 DEF CompareInv
<1>11. step \in {"found", "ask"} /\ (step = "found" <=> d.j = 0)
  OBVIOUS
<1> HIDE DEF step
<1>12. QED
  BY <1>1, <1>3, <1>6, <1>8, <1>9, <1>10, <1>11 DEF CompareInv, SearchSteps

LEMMA CompareInvStep == CompareInv /\ [Next]_compareVars => CompareInv'
<1> SUFFICES ASSUME CompareInv, [Next]_compareVars PROVE CompareInv'
  OBVIOUS
<1>1. CASE UNCHANGED compareVars
  BY <1>1 DEF CompareInv, compareVars, Differing, Diverging
<1>2. ASSUME NEW v \in Value, ClientAppend(v) PROVE CompareInv'
  BY <1>2, ClientAppendKeeps
<1>3. ASSUME NEW v \in Value, ServerAppend(v) PROVE CompareInv'
  BY <1>3, ServerAppendKeeps
<1>4. ASSUME NEW i \in 1 .. MaxN, Start(i) PROVE CompareInv'
  BY <1>4, StartKeeps
<1>5. CASE SearchStep
  BY <1>5, AskKeeps, CompareKeeps, ContinueKeeps DEF SearchStep
<1>6. CASE Restart
  BY <1>6, RestartKeeps
<1>7. QED
  BY <1>1, <1>2, <1>3, <1>4, <1>5, <1>6 DEF Next

\* What both parties keep in every state.
THEOREM CompareInvariant == Spec => []CompareInv
<1>1. Init => CompareInv
  BY CompareInvInit
<1>2. CompareInv /\ [Next]_compareVars => CompareInv'
  BY CompareInvStep
<1>3. QED
  BY <1>1, <1>2, PTL DEF Spec

-----------------------------------------------------------------------------
(* What the search promises.                                               *)

LEMMA AnswersExact == CompareInv => CompareIsExact
<1> SUFFICES ASSUME CompareInv PROVE CompareIsExact
  OBVIOUS
<1>1. search.step = "identical" => Differing = {}
  BY DEF CompareInv
<1>2. ASSUME search.step = "answered", NEW k \in Differing
      PROVE  Cardinality({d \in search.diffs : contains(d.i, d.j, k)}) = 1
  <2> DEFINE rev == search.revision
             P == Parts(rev, search.i)
  <2>1. rev \in Index \ {0} /\ search.i \in 1 .. rev /\ rev \in Nat
    BY <1>2, SearchRevision
  <2>2. /\ \E p \in P : k \in Over(p)
        /\ \A p, q \in P : k \in Over(p) => (k \in Over(q) => p = q)
    <3>1. k \in 1 .. rev
      BY DEF Differing
    <3>2. QED
      BY <2>1, <3>1, PartsTile
  <2>3. PICK p \in P : k \in Over(p)
    BY <2>2
  <2>4. search.diffs = {d \in P : \E l \in Differing : contains(d.i, d.j, l)}
    BY <1>2 DEF CompareInv, Diverging
  <2>5. \A d : k \in Over(d) <=> contains(d.i, d.j, k)
    BY <2>1 DEF Over, Differing
  <2> HIDE DEF P
  <2>6. {d \in search.diffs : contains(d.i, d.j, k)} = {p}
    BY <2>2, <2>3, <2>4, <2>5
  <2>7. QED
    BY <2>6, FS_Singleton
<1>3. ASSUME search.step = "answered", NEW d \in search.diffs
      PROVE  \E k \in Differing : contains(d.i, d.j, k)
  BY <1>3 DEF CompareInv, Diverging
<1>4. QED
  BY <1>1, <1>2, <1>3 DEF CompareIsExact

\* An answer names nodes that contain all leaves that differ, each of them once,
\* and no other node; compare says Identical only of trees that are (lib.rs:753-756,
\* 806-840).
THEOREM AnswersAreExact == Spec => []CompareIsExact
BY CompareInvariant, AnswersExact, PTL

LEMMA FoundIsLatest == CompareInv => SearchFindsLatest
<1> SUFFICES ASSUME CompareInv, search.step = "found"
             PROVE  Differing # {} /\ search.i = Max(Differing)
  BY DEF SearchFindsLatest
<1>1. search.i \in Differing /\ \A k \in Differing : k <= search.i
  BY DEF CompareInv
<1>2. Differing \subseteq Nat
  BY SearchRevision DEF Differing
<1>3. ASSUME NEW m \in Differing, \A k \in Differing : m >= k PROVE m = search.i
  <2>1. m >= search.i /\ m <= search.i
    BY <1>1, <1>3
  <2>2. m \in Nat /\ search.i \in Nat
    BY <1>1, <1>2
  <2>3. QED
    BY <2>1, <2>2
<1>4. \A k \in Differing : search.i >= k
  <2>1. \A k \in Differing : k \in Nat /\ search.i \in Nat /\ k <= search.i
    BY <1>1, <1>2
  <2>2. QED
    BY <2>1
<1>5. Max(Differing) = search.i
  BY <1>1, <1>3, <1>4 DEF Max
<1>6. QED
  BY <1>1, <1>5

\* The search comes to the latest leaf that differs (lib.rs:772-803, 837).
THEOREM SearchIsCorrect == Spec => []SearchFindsLatest
BY CompareInvariant, FoundIsLatest, PTL

LEMMA SentIsComparable == CompareInv => AlwaysComparable
BY Answer DEF AlwaysComparable

\* No sample that get_sample makes of a client's list has root_hash fail or compare
\* panic, whatever the list, its revision and the index asked for (lib.rs:717-751,
\* 806-840).  Of a sample that has lost a witness nothing is said: it does panic.
THEOREM CompareNeverFails == Spec => []AlwaysComparable
BY CompareInvariant, SentIsComparable, PTL

-----------------------------------------------------------------------------
(* Each answer leads further down.                                         *)

\* The nodes that branch off below a node are lower than it, and so are, for a
\* leaf of one of them, those that branch off below that one.
LowerBranches(x) ==
    \A i \in Over(x) : \A b \in branches_off(x, i) :
        b.j < x.j /\ \A g \in Over(b) : branches_off(b, g) \subseteq branches_off(x, g)

LEMMA BranchesAreLower ==
    ASSUME NEW m \in Index \ {0}, NEW j \in Nat, HasNode(m, j)
    PROVE  LowerBranches(Addr(m, j))
<1> DEFINE S == {x \in Addrs : LowerBranches(x)}
<1>1. ASSUME NEW n \in Index \ {0} PROVE Addr(n, 0) \in S
  <2>1. Addr(n, 0) \in Addrs /\ \A i : branches_off(Addr(n, 0), i) = {}
    BY NoBranches
  <2>2. QED
    BY <2>1 DEF LowerBranches
<1>2. ASSUME NEW n \in Index \ {0}, NEW k \in 1 .. Len(inodes(n)),
             inodes(n)[k].left \in S, inodes(n)[k].right \in S
      PROVE  inodes(n)[k].node \in S
  <2> DEFINE w == inodes(n)[k]
             l == w.left
             r == w.right
             x == w.node
  <2>1. /\ x \in Addrs /\ l \in Addrs /\ r \in Addrs /\ l = Addr(l.i, l.j) /\ r = Addr(r.i, r.j)
        /\ l.i \in Index \ {0} /\ r.i \in Index \ {0} /\ HasNode(l.i, l.j) /\ HasNode(r.i, r.j)
        /\ x.j \in Nat /\ l.j \in 0 .. x.j - 1 /\ r.j \in 0 .. x.j - 1
    <3>1. /\ x \in Addrs /\ l \in Addrs /\ r \in Addrs /\ l = Addr(l.i, l.j) /\ r = Addr(n, r.j)
          /\ l.i \in Index \ {0} /\ HasNode(l.i, l.j) /\ HasNode(n, r.j)
          /\ x.j \in Nat /\ l.j \in 0 .. x.j - 1 /\ r.j \in 0 .. x.j - 1
      BY InodeChildren
    <3> HIDE DEF w
    <3>2. r.i = n
      BY <3>1 DEF Addr
    <3>3. QED
      BY <3>1, <3>2
  <2>2. Over(x) = Over(l) \cup Over(r) /\ Over(l) \cap Over(r) = {}
    BY OverInode
  <2>3. \A g : branches_off(x, g) = IF contains(l.i, l.j, g) THEN {r} \cup branches_off(l, g)
                                    ELSE {l} \cup branches_off(r, g)
    BY BranchesStep
  <2>4. LowerBranches(l) /\ LowerBranches(r)
    BY <1>2
  <2> HIDE DEF w, l, r, x
  <2>5. ASSUME NEW c \in {l, r}, NEW i \in Over(c), NEW b \in branches_off(c, i)
        PROVE  b.j \in Nat /\ b.j < c.j /\ Over(b) \subseteq Over(c)
    <3>1. c = Addr(c.i, c.j) /\ c.i \in Index \ {0} /\ c.j \in Nat /\ HasNode(c.i, c.j)
      BY <2>1
    <3>2. Branches(Addr(c.i, c.j), i)
      BY <3>1, BranchesOff
    <3>3. Branches(c, i)
      BY <3>1, <3>2
    <3>4. b \in Addrs /\ Over(b) \subseteq Over(c)
      BY <3>3 DEF Branches
    <3>5. b.j < c.j
      BY <2>4 DEF LowerBranches
    <3>6. QED
      BY <3>4, <3>5, AddrHeights
  <2>6. \A g \in Over(l) : branches_off(x, g) = {r} \cup branches_off(l, g)
    BY <2>3 DEF Over
  <2>7. \A g \in Over(r) : branches_off(x, g) = {l} \cup branches_off(r, g)
    BY <2>2, <2>3 DEF Over
  <2>8. ASSUME NEW c \in {l, r}, NEW o \in {l, r},
               \A g \in Over(c) : branches_off(x, g) = {o} \cup branches_off(c, g),
               \A g \in Over(o) : branches_off(x, g) = {c} \cup branches_off(o, g),
               NEW i \in Over(c), NEW b \in branches_off(x, i)
        PROVE  b.j < x.j /\ \A g \in Over(b) : branches_off(b, g) \subseteq branches_off(x, g)
    <3>1. CASE b = o
      <4>1. b.j < x.j
        BY <2>1, <3>1
      <4>2. QED
        BY <2>8, <3>1, <4>1
    <3>2. CASE b \in branches_off(c, i)
      <4>1. b.j \in Nat /\ b.j < c.j /\ Over(b) \subseteq Over(c)
        BY <2>5, <3>2
      <4>2. b.j < x.j
        <5>1. x.j \in Nat /\ c.j \in 0 .. x.j - 1
          BY <2>1
        <5>2. QED
          BY <4>1, <5>1
      <4>3. \A g \in Over(b) : branches_off(b, g) \subseteq branches_off(c, g)
        BY <2>4, <3>2 DEF LowerBranches
      <4>4. QED
        BY <2>8, <4>1, <4>2, <4>3
    <3>3. QED
      BY <2>8, <3>1, <3>2
  <2>9. LowerBranches(x)
    <3> SUFFICES ASSUME NEW i \in Over(x), NEW b \in branches_off(x, i)
                 PROVE  b.j < x.j /\ \A g \in Over(b) : branches_off(b, g) \subseteq branches_off(x, g)
      BY DEF LowerBranches
    <3>1. CASE i \in Over(l)
      BY <2>6, <2>7, <2>8, <3>1
    <3>2. CASE i \in Over(r)
      BY <2>6, <2>7, <2>8, <3>2
    <3>3. QED
      BY <2>2, <3>1, <3>2
  <2>10. QED
    BY <2>1, <2>9 DEF x, w
<1> HIDE DEF S
<1>3. Addr(m, j) \in S
  BY <1>1, <1>2, NodeInduction
<1>4. QED
  BY <1>3 DEF S

LEMMA RootOnWay ==
    ASSUME NEW rev \in Index \ {0}, NEW i \in 1 .. rev
    PROVE  LET a == root_of(rev) IN a \in Addrs /\ HasNode(a.i, a.j) /\ contains(a.i, a.j, i)
<1> DEFINE a == root_of(rev)
<1>1. a \in Addrs /\ a.i = rev /\ HasNode(rev, a.j) /\ Over(a) = 1 .. rev
  BY RootNode
<1> HIDE DEF a
<1>2. contains(a.i, a.j, i)
  BY <1>1 DEF Over
<1>3. QED
  BY <1>1, <1>2 DEF a

\* The node of an answer the search goes on with is below the node it stands at,
\* and again on the way to its new leaf.
LEMMA Descent ==
    ASSUME CompareInv, WayInv, search.step = "answered", first_divergent(search.diffs).j # 0
    PROVE  LET d == first_divergent(search.diffs)
           IN  d.j \in 0 .. search.node.j - 1 /\ OnWay(d, d.i)
<1> DEFINE rev == search.revision
           i == search.i
           x == search.node
           d == first_divergent(search.diffs)
           R == root_of(rev)
<1>1. rev \in Index \ {0} /\ i \in 1 .. rev /\ rev \in Nat
  BY SearchRevision
<1>2. d \in Parts(rev, i) /\ d.i \in 1 .. rev /\ ContainsLatest(d)
  BY FirstIsLatest
<1>3. PICK g \in Differing : contains(d.i, d.j, g) /\ \A l \in Differing : l <= g
  BY <1>2 DEF ContainsLatest
<1>4. g \in 1 .. rev /\ g \in Nat
  BY <1>1 DEF Differing
<1>5. /\ x \in Addrs /\ HasNode(x.i, x.j) /\ contains(x.i, x.j, i)
      /\ branches_off(x, i) \subseteq branches_off(R, i)
  BY DEF WayInv, OnWay
<1> HIDE DEF d
<1>6. contains(x.i, x.j, g)
  <2>1. CASE x = R
    BY <1>1, <1>4, <2>1, RootOnWay
  <2>2. CASE ContainsLatest(x)
    <3>1. PICK k \in Differing : contains(x.i, x.j, k) /\ \A l \in Differing : l <= k
      BY <2>2 DEF ContainsLatest
    <3>2. k = g
      <4>1. k <= g /\ g <= k /\ k \in Nat
        BY <1>1, <1>3, <3>1 DEF Differing
      <4>2. QED
        BY <1>4, <4>1
    <3>3. QED
      BY <3>1, <3>2
  <2>3. QED
    BY <2>1, <2>2 DEF WayInv
<1> HIDE DEF x, R
<1>7. x = Addr(x.i, x.j) /\ x.i \in Index \ {0} /\ x.j \in Nat
  BY <1>5, AddrHeights DEF Addrs
<1>8. i \in Over(x) /\ g \in Over(x) /\ g \in Over(d)
  <2>1. i \in Nat
    BY <1>1
  <2> HIDE DEF i
  <2>2. QED
    BY <1>3, <1>4, <1>5, <1>6, <2>1 DEF Over
<1>9. Branches(x, i) /\ LowerBranches(x)
  <2>1. Branches(Addr(x.i, x.j), i) /\ LowerBranches(Addr(x.i, x.j))
    <3>1. i \in Over(Addr(x.i, x.j))
      BY <1>7, <1>8
    <3> HIDE DEF i
    <3>2. QED
      BY <1>5, <1>7, <3>1, BranchesOff, BranchesAreLower
  <2>2. QED
    BY <1>7, <2>1
<1>10. /\ \A p \in Parts(rev, i) : p \in Addrs /\ p = Addr(p.i, p.j) /\ HasNode(p.i, p.j)
       /\ \A p, q \in Parts(rev, i) : \A k \in Over(p) : k \in Over(q) => p = q
       /\ Parts(rev, i) = branches_off(R, i) \cup {Addr(i, 0)}
  <2>1. /\ \A p \in Parts(rev, i) : p \in Addrs /\ p = Addr(p.i, p.j) /\ HasNode(p.i, p.j)
        /\ \A p, q \in Parts(rev, i) : \A k \in Over(p) : k \in Over(q) => p = q
    BY <1>1, PartsTile
  <2>2. Parts(rev, i) = branches_off(R, i) \cup {Addr(i, 0)}
    BY DEF Parts, R
  <2>3. QED
    BY <2>1, <2>2
<1>11. g # i
  <2> SUFFICES ASSUME g = i PROVE FALSE
    OBVIOUS
  <2>1. Over(Addr(i, 0)) = {i}
    <3>1. i \in Index \ {0}
      BY <1>1, IndexIsNat
    <3>2. QED
      BY <3>1, OverLeaf
  <2>2. d = Addr(i, 0)
    BY <1>2, <1>8, <1>10, <2>1
  <2>3. d.j = 0
    BY <2>2 DEF Addr
  <2>4. QED
    BY <2>3 DEF d
<1>12. PICK b \in branches_off(x, i) : g \in Over(b)
  BY <1>8, <1>9, <1>11 DEF Branches
<1>13. b = d
  BY <1>2, <1>5, <1>8, <1>10, <1>12
<1>14. d.j \in 0 .. x.j - 1
  <2>1. d.j < x.j
    BY <1>8, <1>9, <1>12, <1>13 DEF LowerBranches
  <2>2. d.j \in Nat
    BY <1>2, <1>10, AddrHeights
  <2>3. QED
    BY <1>7, <2>1, <2>2
<1>15. OnWay(d, d.i)
  <2>1. d \in Addrs /\ HasNode(d.i, d.j) /\ d = Addr(d.i, d.j) /\ d.i \in Index \ {0} /\ d.j \in Nat /\ d.i \in Nat
    BY <1>2, <1>10, AddrHeights DEF Addrs
  <2>2. d.i \in Over(d)
    <3>1. Over(Addr(d.i, d.j)) = range_start(d.i, d.j) .. d.i /\ range_start(d.i, d.j) \in 1 .. d.i
      BY <2>1, OverOwn
    <3>2. \A f \in 1 .. d.i : d.i \in f .. d.i
      BY <2>1
    <3>3. QED
      BY <2>1, <3>1, <3>2
  <2>3. contains(d.i, d.j, d.i)
    BY <2>2 DEF Over
  <2>4. branches_off(d, d.i) \subseteq branches_off(R, d.i)
    <3>1. d \in branches_off(R, i)
      BY <1>5, <1>12, <1>13
    <3>2. R = Addr(rev, R.j) /\ R.j \in Nat /\ HasNode(rev, R.j) /\ Over(R) = 1 .. rev
      BY <1>1, RootNode DEF R
    <3>3. LowerBranches(Addr(rev, R.j))
      BY <1>1, <3>2, BranchesAreLower
    <3>4. QED
      BY <1>1, <2>2, <3>1, <3>2, <3>3 DEF LowerBranches
  <2>5. QED
    BY <2>1, <2>3, <2>4 DEF OnWay, R
<1>16. QED
  BY <1>14, <1>15 DEF d, x

LEMMA WayInvInit == Init => WayInv
BY DEF Init, NoSearch, Search, WayInv

LEMMA AppendKeepsWay ==
    ASSUME CompareInv, WayInv, search' = search, search.step # "none",
           \A k \in 1 .. search.revision : client'[k] = client[k],
           search.revision <= Len(server) =>
               search.revision <= Len(server') /\ \A k \in 1 .. search.revision : server'[k] = server[k]
    PROVE  WayInv'
<1>1. search.revision <= Len(server) => Differing' = Differing /\ search.revision <= Len(server')
  BY DEF Differing
<1>2. search.revision <= Len(server) => ContainsLatest(search.node)' = ContainsLatest(search.node)
  BY <1>1 DEF ContainsLatest
<1>3. OnWay(search.node, search.i)' = OnWay(search.node, search.i)
  BY DEF OnWay
<1>4. QED
  BY <1>1, <1>2, <1>3 DEF WayInv

LEMMA WayInvStep == CompareInv /\ WayInv /\ [Next]_compareVars => WayInv'
<1> SUFFICES ASSUME CompareInv, WayInv, [Next]_compareVars PROVE WayInv'
  OBVIOUS
<1>1. CASE UNCHANGED compareVars
  BY <1>1 DEF WayInv, compareVars, OnWay, ContainsLatest, Differing
<1>2. ASSUME NEW v \in Value, ClientAppend(v) PROVE WayInv'
  <2>1. client' = Append(client, v) /\ server' = server /\ search' = search /\ client \in Seq(Value)
    BY <1>2 DEF ClientAppend, CompareInv
  <2>2. CASE search.step = "none"
    BY <2>1, <2>2 DEF WayInv
  <2>3. CASE search.step # "none"
    <3>1. search.revision \in 1 .. Len(client)
      BY <2>3, SearchRevision
    <3>2. \A k \in 1 .. search.revision : client'[k] = client[k]
      BY <2>1, <3>1
    <3>3. QED
      BY <2>1, <2>3, <3>2, AppendKeepsWay
  <2>4. QED
    BY <2>2, <2>3
<1>3. ASSUME NEW v \in Value, ServerAppend(v) PROVE WayInv'
  <2>1. server' = Append(server, v) /\ client' = client /\ search' = search /\ server \in Seq(Value)
    BY <1>3 DEF ServerAppend, CompareInv
  <2>2. CASE search.step = "none"
    BY <2>1, <2>2 DEF WayInv
  <2>3. CASE search.step # "none"
    <3>1. search.revision \in Nat
      BY <2>3, SearchRevision
    <3>2. search.revision <= Len(server) =>
              search.revision <= Len(server') /\ \A k \in 1 .. search.revision : server'[k] = server[k]
      BY <2>1, <3>1
    <3>3. QED
      BY <2>1, <2>3, <3>2, AppendKeepsWay
  <2>4. QED
    BY <2>2, <2>3
<1>4. ASSUME NEW i \in 1 .. MaxN, Start(i) PROVE WayInv'
  <2> DEFINE n == Len(client)
             a == root_of(n)
  <2>1. search' = Search("ask", n, i, a, NoSample, {}) /\ i \in 1 .. n
    BY <1>4 DEF Start
  <2>2. n \in Index \ {0}
    <3>1. n \in Nat /\ n <= MaxN
      BY DEF CompareInv
    <3>2. MaxN \in Nat /\ 0 .. MaxN \subseteq Index
      BY CompareAssumption, IndexIsNat
    <3>3. QED
      BY <2>1, <3>1, <3>2
  <2>3. search'.revision = n /\ search'.i = i /\ search'.node = root_of(n)
    BY <2>1 DEF Search
  <2> HIDE DEF n
  <2>4. a \in Addrs /\ HasNode(a.i, a.j) /\ contains(a.i, a.j, i)
    BY <2>1, <2>2, RootOnWay
  <2>5. OnWay(search.node, search.i)'
    BY <2>3, <2>4 DEF OnWay
  <2>6. QED
    BY <2>3, <2>5 DEF WayInv
<1>5. CASE Ask
  <2>1. /\ search.step = "ask" /\ client' = client /\ server' = server
        /\ search' = [search EXCEPT !.step = "sent", !.sample = get_sample(client, search.revision, search.i)]
    BY <1>5 DEF Ask
  <2>2. search = Search(search.step, search.revision, search.i, search.node, search.sample, search.diffs)
    BY DEF CompareInv
  <2>3. search'.node = search.node /\ search'.i = search.i /\ search'.revision = search.revision
    BY <2>1, <2>2 DEF Search
  <2>4. Differing' = Differing
    BY <2>1, <2>3 DEF Differing
  <2>5. QED
    BY <2>1, <2>3, <2>4 DEF WayInv, OnWay, ContainsLatest
<1>6. CASE Compare
  <2>1. search.step = "sent" /\ client' = client /\ server' = server
    BY <1>6 DEF Compare
  <2>2. search = Search(search.step, search.revision, search.i, search.node, search.sample, search.diffs)
    BY DEF CompareInv
  <2>3. search'.node = search.node /\ search'.i = search.i /\ search'.revision = search.revision
    BY <1>6, <2>2 DEF Compare, Search
  <2>4. Differing' = Differing
    BY <2>1, <2>3 DEF Differing
  <2>5. QED
    BY <2>1, <2>3, <2>4 DEF WayInv, OnWay, ContainsLatest
<1>7. CASE Continue
  <2> DEFINE d == first_divergent(search.diffs)
             step == IF d.j = 0 THEN "found" ELSE "ask"
  <2>1. /\ search.step = "answered" /\ client' = client /\ server' = server
        /\ search' = [search EXCEPT !.step = step, !.i = d.i, !.node = d, !.diffs = {}]
    BY <1>7 DEF Continue
  <2>2. search = Search(search.step, search.revision, search.i, search.node, search.sample, search.diffs)
    BY DEF CompareInv
  <2>3. ContainsLatest(d)
    BY <2>1, FirstIsLatest
  <2>4. d.j # 0 => OnWay(d, d.i)
    BY <2>1, Descent
  <2> HIDE DEF d
  <2>5. /\ search'.node = d /\ search'.i = d.i /\ search'.revision = search.revision
        /\ search'.step = step
    BY <2>1, <2>2 DEF Search
  <2>6. Differing' = Differing
    BY <2>1, <2>5 DEF Differing
  <2>7. search.revision <= Len(server)
    BY <2>1 DEF CompareInv
  <2>8. d.j # 0 => WayInv'
    BY <2>1, <2>3, <2>4, <2>5, <2>6, <2>7 DEF WayInv, OnWay, ContainsLatest
  <2>9. d.j = 0 => WayInv'
    BY <2>5 DEF WayInv
  <2>10. QED
    BY <2>8, <2>9
<1>8. CASE Restart
  BY <1>8 DEF Restart, NoSearch, Search, WayInv
<1>9. QED
  BY <1>1, <1>2, <1>3, <1>4, <1>5, <1>6, <1>7, <1>8 DEF Next, SearchStep

LEMMA StepLeadsDown == CompareInv /\ WayInv /\ [Next]_compareVars => [LeadsDown]_compareVars
<1> SUFFICES ASSUME CompareInv, WayInv, Next, search.step = "answered", search'.step = "ask"
             PROVE  search'.node.j \in 0 .. search.node.j - 1
  BY DEF LeadsDown
<1>1. ~Ask /\ ~Compare /\ ~Restart /\ \A i : ~Start(i)
  BY DEF Ask, Compare, Restart, Start
<1>2. \A v : ~ClientAppend(v) /\ ~ServerAppend(v)
  BY DEF ClientAppend, ServerAppend
<1>3. Continue
  BY <1>1, <1>2 DEF Next, SearchStep
<1> DEFINE d == first_divergent(search.diffs)
           step == IF d.j = 0 THEN "found" ELSE "ask"
<1>4. search' = [search EXCEPT !.step = step, !.i = d.i, !.node = d, !.diffs = {}]
  BY <1>3 DEF Continue
<1>5. search = Search(search.step, search.revision, search.i, search.node, search.sample, search.diffs)
  BY DEF CompareInv
<1>6. d.j # 0 => d.j \in 0 .. search.node.j - 1
  BY Descent
<1> HIDE DEF d
<1>7. search'.step = step /\ search'.node = d
  BY <1>4, <1>5 DEF Search
<1>8. QED
  BY <1>6, <1>7

\* Each answer that does not end the search leads to a lower node: a search takes no
\* more rounds than its tree is high (lib.rs:778-803).
THEOREM SearchDescends == Spec => AnswersLeadDown
<1>1. Init => CompareInv /\ WayInv
  BY CompareInvInit, WayInvInit
<1>2. CompareInv /\ WayInv /\ [Next]_compareVars => CompareInv' /\ WayInv'
  BY CompareInvStep, WayInvStep
<1>3. CompareInv /\ WayInv /\ [Next]_compareVars => [LeadsDown]_compareVars
  BY StepLeadsDown
<1>4. QED
  BY <1>1, <1>2, <1>3, PTL DEF Spec, AnswersLeadDown
=============================================================================
