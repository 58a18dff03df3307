---------------------------- MODULE SampleProofs ----------------------------
(***************************************************************************)
(* Theorems about samples: the nodes that branch off the way to a leaf     *)
(* stand over all leaves but that one, and a sample that has their hashes  *)
(* leads to the hash of the root.                                          *)
(***************************************************************************)
EXTENDS StratumSample, FormulaProofs

-----------------------------------------------------------------------------
(* The recursions from a node down.                                        *)

\* The recursion of branches_off, from a node down.
off_step(goal, f, a) ==
    IF a.j = 0 THEN {}
    ELSE LET l == left_of(a.i, a.j)
             r == right_of(a.i, a.j)
         IN  IF contains(l.i, l.j, goal) THEN {r} \cup f[l] ELSE {l} \cup f[r]
off_of(goal) == CHOOSE f : f = [a \in Addrs |-> off_step(goal, f, a)]

LEMMA OffRecursion ==
    ASSUME NEW goal
    PROVE  off_of(goal) = [a \in Addrs |-> off_step(goal, off_of(goal), a)]
<1> DEFINE Good(f, h) == f = [a \in {b \in Addrs : b.j <= h} |-> off_step(goal, f, a)]
           T == {h \in Nat : \E f : Good(f, h)}
<1>1. 0 \in T
  <2> DEFINE f == [a \in {b \in Addrs : b.j <= 0} |-> off_step(goal, <<>>, a)]
  <2>1. ASSUME NEW a \in Addrs, a.j <= 0 PROVE off_step(goal, f, a) = off_step(goal, <<>>, a)
    <3>1. a.j = 0
      BY <2>1, AddrHeights
    <3>2. QED
      BY <3>1 DEF off_step
  <2>2. Good(f, 0)
    BY <2>1
  <2>3. QED
    BY <2>2
<1>2. ASSUME NEW h \in Nat, h \in T PROVE h + 1 \in T
  <2>1. PICK f : Good(f, h)
    BY <1>2
  <2> DEFINE g == [a \in {b \in Addrs : b.j <= h + 1} |-> IF a.j <= h THEN f[a] ELSE off_step(goal, f, a)]
  <2>2. \A a \in Addrs : a.j <= h => g[a] = f[a] /\ f[a] = off_step(goal, f, a)
    <3>1. \A a \in Addrs : a.j \in Nat
      BY AddrHeights
    <3>2. QED
      BY <2>1, <3>1
  <2> HIDE DEF g
  <2>3. ASSUME NEW a \in Addrs, a.j <= h + 1 PROVE off_step(goal, g, a) = off_step(goal, f, a)
    <3>1. a.j \in Nat
      BY AddrHeights
    <3>2. CASE a.j = 0
      BY <3>2 DEF off_step
    <3>3. CASE a.j # 0
      <4> DEFINE l == left_of(a.i, a.j)
                 r == right_of(a.i, a.j)
      <4>1. l \in Addrs /\ r \in Addrs /\ l.j = a.j - 1 /\ r.j < a.j
        BY <3>3, ChildrenAreLower
      <4>2. l.j \in Nat /\ r.j \in Nat
        BY <4>1, AddrHeights
      <4> HIDE DEF l, r
      <4>3. l.j <= h /\ r.j <= h
        BY <2>3, <3>1, <4>1, <4>2
      <4>4. g[l] = f[l] /\ g[r] = f[r]
        BY <2>2, <4>1, <4>3
      <4>5. QED
        BY <4>4 DEF off_step, l, r
    <3>4. QED
      BY <3>2, <3>3
  <2>4. \A a \in Addrs : a.j <= h + 1 => g[a] = off_step(goal, g, a)
    BY <2>2, <2>3 DEF g
  <2>5. Good(g, h + 1)
    <3>1. g = [a \in {b \in Addrs : b.j <= h + 1} |-> g[a]]
      BY DEF g
    <3> DEFINE A == {b \in Addrs : b.j <= h + 1}
    <3>2. \A a \in A : g[a] = off_step(goal, g, a)
      BY <2>4
    <3> HIDE DEF A
    <3>3. [a \in A |-> g[a]] = [a \in A |-> off_step(goal, g, a)]
      BY <3>2
    <3>4. QED
      BY <3>1, <3>3 DEF A
  <2> HIDE DEF Good
  <2>6. \E k : Good(k, h + 1)
    BY <2>5
  <2>7. QED
    BY <2>6
<1> HIDE DEF T
<1>3. T \in SUBSET Nat
  BY DEF T
<1>4. T = Nat
  BY <1>1, <1>2, <1>3, Induct
<1>5. INDEX_SIZE \in T
  BY <1>4, IndexSizeAssumption
<1>6. Addrs = {b \in Addrs : b.j <= INDEX_SIZE}
  BY AddrHeights
<1>7. \E f : f = [a \in Addrs |-> off_step(goal, f, a)]
  <2>1. PICK f : Good(f, INDEX_SIZE)
    BY <1>5 DEF T
  <2>2. f = [a \in Addrs |-> off_step(goal, f, a)]
    BY <1>6, <2>1
  <2>3. QED
    BY <2>2
<1>8. QED
  BY <1>7 DEF off_of

\* The recursion of root_hash_succeeds.
complete_step(x, f, a) ==
    IF a.j = 0 THEN x.i = a.i
    ELSE LET l == left_of(a.i, a.j)
             r == right_of(a.i, a.j)
         IN  \/ contains(l.i, l.j, x.i) /\ given(x, r) /\ f[l]
             \/ contains(r.i, r.j, x.i) /\ given(x, l) /\ f[r]
complete_of(x) == CHOOSE f : f = [a \in Addrs |-> complete_step(x, f, a)]

LEMMA CompleteRecursion ==
    ASSUME NEW x
    PROVE  complete_of(x) = [a \in Addrs |-> complete_step(x, complete_of(x), a)]
<1> DEFINE Good(f, h) == f = [a \in {b \in Addrs : b.j <= h} |-> complete_step(x, f, a)]
           T == {h \in Nat : \E f : Good(f, h)}
<1>1. 0 \in T
  <2> DEFINE f == [a \in {b \in Addrs : b.j <= 0} |-> complete_step(x, <<>>, a)]
  <2>1. ASSUME NEW a \in Addrs, a.j <= 0 PROVE complete_step(x, f, a) = complete_step(x, <<>>, a)
    <3>1. a.j = 0
      BY <2>1, AddrHeights
    <3>2. QED
      BY <3>1 DEF complete_step
  <2>2. Good(f, 0)
    BY <2>1
  <2>3. QED
    BY <2>2
<1>2. ASSUME NEW h \in Nat, h \in T PROVE h + 1 \in T
  <2>1. PICK f : Good(f, h)
    BY <1>2
  <2> DEFINE g == [a \in {b \in Addrs : b.j <= h + 1} |-> IF a.j <= h THEN f[a] ELSE complete_step(x, f, a)]
  <2>2. \A a \in Addrs : a.j <= h => g[a] = f[a] /\ f[a] = complete_step(x, f, a)
    <3>1. \A a \in Addrs : a.j \in Nat
      BY AddrHeights
    <3>2. QED
      BY <2>1, <3>1
  <2> HIDE DEF g
  <2>3. ASSUME NEW a \in Addrs, a.j <= h + 1 PROVE complete_step(x, g, a) = complete_step(x, f, a)
    <3>1. a.j \in Nat
      BY AddrHeights
    <3>2. CASE a.j = 0
      BY <3>2 DEF complete_step
    <3>3. CASE a.j # 0
      <4> DEFINE l == left_of(a.i, a.j)
                 r == right_of(a.i, a.j)
      <4>1. l \in Addrs /\ r \in Addrs /\ l.j = a.j - 1 /\ r.j < a.j
        BY <3>3, ChildrenAreLower
      <4>2. l.j \in Nat /\ r.j \in Nat
        BY <4>1, AddrHeights
      <4> HIDE DEF l, r
      <4>3. l.j <= h /\ r.j <= h
        BY <2>3, <3>1, <4>1, <4>2
      <4>4. g[l] = f[l] /\ g[r] = f[r]
        BY <2>2, <4>1, <4>3
      <4>5. QED
        BY <4>4 DEF complete_step, l, r
    <3>4. QED
      BY <3>2, <3>3
  <2>4. \A a \in Addrs : a.j <= h + 1 => g[a] = complete_step(x, g, a)
    BY <2>2, <2>3 DEF g
  <2>5. Good(g, h + 1)
    <3>1. g = [a \in {b \in Addrs : b.j <= h + 1} |-> g[a]]
      BY DEF g
    <3> DEFINE A == {b \in Addrs : b.j <= h + 1}
    <3>2. \A a \in A : g[a] = complete_step(x, g, a)
      BY <2>4
    <3> HIDE DEF A
    <3>3. [a \in A |-> g[a]] = [a \in A |-> complete_step(x, g, a)]
      BY <3>2
    <3>4. QED
      BY <3>1, <3>3 DEF A
  <2> HIDE DEF Good
  <2>6. \E k : Good(k, h + 1)
    BY <2>5
  <2>7. QED
    BY <2>6
<1> HIDE DEF T
<1>3. T \in SUBSET Nat
  BY DEF T
<1>4. T = Nat
  BY <1>1, <1>2, <1>3, Induct
<1>5. INDEX_SIZE \in T
  BY <1>4, IndexSizeAssumption
<1>6. Addrs = {b \in Addrs : b.j <= INDEX_SIZE}
  BY AddrHeights
<1>7. \E f : f = [a \in Addrs |-> complete_step(x, f, a)]
  <2>1. PICK f : Good(f, INDEX_SIZE)
    BY <1>5 DEF T
  <2>2. f = [a \in Addrs |-> complete_step(x, f, a)]
    BY <1>6, <2>1
  <2>3. QED
    BY <2>2
<1>8. QED
  BY <1>7 DEF complete_of

\* The recursion of root_hash.
hash_at(x, f, a) ==
    IF a.j = 0 THEN from_bytes(0, x.payload)
    ELSE LET l == left_of(a.i, a.j)
             r == right_of(a.i, a.j)
         IN  IF contains(l.i, l.j, x.i) THEN combine(f[l], a.j, witness_hash(x, r))
             ELSE combine(witness_hash(x, l), a.j, f[r])
hashes_of(x) == CHOOSE f : f = [a \in Addrs |-> hash_at(x, f, a)]

LEMMA HashRecursion ==
    ASSUME NEW x
    PROVE  hashes_of(x) = [a \in Addrs |-> hash_at(x, hashes_of(x), a)]
<1> DEFINE Good(f, h) == f = [a \in {b \in Addrs : b.j <= h} |-> hash_at(x, f, a)]
           T == {h \in Nat : \E f : Good(f, h)}
<1>1. 0 \in T
  <2> DEFINE f == [a \in {b \in Addrs : b.j <= 0} |-> hash_at(x, <<>>, a)]
  <2>1. ASSUME NEW a \in Addrs, a.j <= 0 PROVE hash_at(x, f, a) = hash_at(x, <<>>, a)
    <3>1. a.j = 0
      BY <2>1, AddrHeights
    <3>2. QED
      BY <3>1 DEF hash_at
  <2>2. Good(f, 0)
    BY <2>1
  <2>3. QED
    BY <2>2
<1>2. ASSUME NEW h \in Nat, h \in T PROVE h + 1 \in T
  <2>1. PICK f : Good(f, h)
    BY <1>2
  <2> DEFINE g == [a \in {b \in Addrs : b.j <= h + 1} |-> IF a.j <= h THEN f[a] ELSE hash_at(x, f, a)]
  <2>2. \A a \in Addrs : a.j <= h => g[a] = f[a] /\ f[a] = hash_at(x, f, a)
    <3>1. \A a \in Addrs : a.j \in Nat
      BY AddrHeights
    <3>2. QED
      BY <2>1, <3>1
  <2> HIDE DEF g
  <2>3. ASSUME NEW a \in Addrs, a.j <= h + 1 PROVE hash_at(x, g, a) = hash_at(x, f, a)
    <3>1. a.j \in Nat
      BY AddrHeights
    <3>2. CASE a.j = 0
      BY <3>2 DEF hash_at
    <3>3. CASE a.j # 0
      <4> DEFINE l == left_of(a.i, a.j)
                 r == right_of(a.i, a.j)
      <4>1. l \in Addrs /\ r \in Addrs /\ l.j = a.j - 1 /\ r.j < a.j
        BY <3>3, ChildrenAreLower
      <4>2. l.j \in Nat /\ r.j \in Nat
        BY <4>1, AddrHeights
      <4> HIDE DEF l, r
      <4>3. l.j <= h /\ r.j <= h
        BY <2>3, <3>1, <4>1, <4>2
      <4>4. g[l] = f[l] /\ g[r] = f[r]
        BY <2>2, <4>1, <4>3
      <4>5. QED
        BY <4>4 DEF hash_at, l, r
    <3>4. QED
      BY <3>2, <3>3
  <2>4. \A a \in Addrs : a.j <= h + 1 => g[a] = hash_at(x, g, a)
    BY <2>2, <2>3 DEF g
  <2>5. Good(g, h + 1)
    <3>1. g = [a \in {b \in Addrs : b.j <= h + 1} |-> g[a]]
      BY DEF g
    <3> DEFINE A == {b \in Addrs : b.j <= h + 1}
    <3>2. \A a \in A : g[a] = hash_at(x, g, a)
      BY <2>4
    <3> HIDE DEF A
    <3>3. [a \in A |-> g[a]] = [a \in A |-> hash_at(x, g, a)]
      BY <3>2
    <3>4. QED
      BY <3>1, <3>3 DEF A
  <2> HIDE DEF Good
  <2>6. \E k : Good(k, h + 1)
    BY <2>5
  <2>7. QED
    BY <2>6
<1> HIDE DEF T
<1>3. T \in SUBSET Nat
  BY DEF T
<1>4. T = Nat
  BY <1>1, <1>2, <1>3, Induct
<1>5. INDEX_SIZE \in T
  BY <1>4, IndexSizeAssumption
<1>6. Addrs = {b \in Addrs : b.j <= INDEX_SIZE}
  BY AddrHeights
<1>7. \E f : f = [a \in Addrs |-> hash_at(x, f, a)]
  <2>1. PICK f : Good(f, INDEX_SIZE)
    BY <1>5 DEF T
  <2>2. f = [a \in Addrs |-> hash_at(x, f, a)]
    BY <1>6, <2>1
  <2>3. QED
    BY <2>2
<1>8. QED
  BY <1>7 DEF hashes_of

-----------------------------------------------------------------------------
(* The nodes that branch off.                                              *)

\* The step of branches_off at an inode.
LEMMA BranchesStep ==
    ASSUME NEW m \in Index \ {0}, NEW k \in 1 .. Len(inodes(m)), NEW goal
    PROVE  LET w == inodes(m)[k]
           IN  branches_off(w.node, goal) =
                 IF contains(w.left.i, w.left.j, goal) THEN {w.right} \cup branches_off(w.left, goal)
                 ELSE {w.left} \cup branches_off(w.right, goal)
<1> DEFINE w == inodes(m)[k]
           g == off_of(goal)
<1>1. /\ w.node \in Addrs /\ w.left \in Addrs /\ w.right \in Addrs /\ w.node = Addr(m, w.node.j)
      /\ w.node.j # 0 /\ left_of(m, w.node.j) = w.left /\ right_of(m, w.node.j) = w.right
  BY InodeChildren
<1>2. \A x \in Addrs : branches_off(x, goal) = g[x] /\ g[x] = off_step(goal, g, x)
  <2>1. \A x : branches_off(x, goal) = g[x]
    BY DEF branches_off, off_of, off_step
  <2>2. g = [a \in Addrs |-> off_step(goal, g, a)]
    BY OffRecursion
  <2> HIDE DEF g
  <2>3. QED
    BY <2>1, <2>2
<1>3. w.node.i = m
  BY <1>1 DEF Addr
<1> HIDE DEF w, g
<1>4. off_step(goal, g, w.node) = IF contains(w.left.i, w.left.j, goal) THEN {w.right} \cup g[w.left]
                                  ELSE {w.left} \cup g[w.right]
  BY <1>1, <1>3 DEF off_step
<1>5. QED
  BY <1>1, <1>2, <1>4 DEF w

LEMMA NoBranches ==
    ASSUME NEW m \in Index \ {0}, NEW goal
    PROVE  Addr(m, 0) \in Addrs /\ branches_off(Addr(m, 0), goal) = {}
<1> DEFINE g == off_of(goal)
<1>1. Addr(m, 0) \in Addrs /\ Addr(m, 0).j = 0
  BY IndexSizeAssumption DEF Addr, Addrs, Height
<1>2. branches_off(Addr(m, 0), goal) = g[Addr(m, 0)]
  BY DEF branches_off, off_of, off_step
<1>3. g[Addr(m, 0)] = off_step(goal, g, Addr(m, 0))
  <2>1. g = [a \in Addrs |-> off_step(goal, g, a)]
    BY OffRecursion
  <2> HIDE DEF g
  <2>2. QED
    BY <1>1, <2>1
<1>4. QED
  BY <1>1, <1>2, <1>3 DEF off_step

\* What the nodes that branch off the way from x down to a leaf are: they stand
\* over each leaf of x but the goal, each over leaves of its own, and they are as
\* many as stratum_sample_size counts.
Branches(x, goal) ==
    LET B == branches_off(x, goal)
    IN  /\ IsFiniteSet(B) /\ Cardinality(B) = count_of(goal)[x]
        /\ \A b \in B : b \in Addrs /\ HasNode(b.i, b.j) /\ goal \notin Over(b) /\ Over(b) \subseteq Over(x)
        /\ \A i \in Over(x) : i # goal => \E b \in B : i \in Over(b)
        /\ \A b, c \in B : \A i \in Over(b) : i \in Over(c) => b = c

LEMMA BranchesOff ==
    ASSUME NEW m \in Index \ {0}, NEW j \in Nat, HasNode(m, j), NEW goal \in Over(Addr(m, j))
    PROVE  Branches(Addr(m, j), goal)
<1> DEFINE S == {x \in Addrs : \A g \in Over(x) : Branches(x, g)}
<1>1. ASSUME NEW i \in Index \ {0} PROVE Addr(i, 0) \in S
  <2>1. Addr(i, 0) \in Addrs /\ Over(Addr(i, 0)) = {i}
    BY NoBranches, OverLeaf
  <2>2. \A g : branches_off(Addr(i, 0), g) = {} /\ count_of(g)[Addr(i, 0)] = 0
    BY NoBranches, CountStep
  <2>3. Branches(Addr(i, 0), i)
    BY <2>1, <2>2, FS_EmptySet DEF Branches
  <2>4. QED
    BY <2>1, <2>3
<1>2. ASSUME NEW i \in Index \ {0}, NEW k \in 1 .. Len(inodes(i)),
             inodes(i)[k].left \in S, inodes(i)[k].right \in S
      PROVE  inodes(i)[k].node \in S
  <2> DEFINE w == inodes(i)[k]
             l == w.left
             r == w.right
             x == w.node
  <2>1. /\ x \in Addrs /\ l \in Addrs /\ r \in Addrs /\ l.i \in Index \ {0} /\ l.j \in Nat /\ r.j \in Nat
        /\ HasNode(l.i, l.j) /\ HasNode(r.i, r.j) /\ l = Addr(l.i, l.j) /\ r = Addr(r.i, r.j) /\ r.i = i
    <3>1. /\ x \in Addrs /\ l \in Addrs /\ r \in Addrs /\ l.i \in Index \ {0}
          /\ HasNode(l.i, l.j) /\ HasNode(i, r.j) /\ l = Addr(l.i, l.j) /\ r = Addr(i, r.j)
      BY InodeChildren
    <3>2. r.i = i
      BY <3>1 DEF Addr
    <3> HIDE DEF l, r, x
    <3>3. QED
      BY <3>1, <3>2, AddrHeights
  <2>2. Over(x) = Over(l) \cup Over(r) /\ Over(l) \cap Over(r) = {}
    BY OverInode
  <2>3. l.i \in Over(l) /\ r.i \in Over(r)
    <3> HIDE DEF l, r
    <3>1. /\ Over(l) = range_start(l.i, l.j) .. l.i /\ range_start(l.i, l.j) \in 1 .. l.i
          /\ Over(r) = range_start(r.i, r.j) .. r.i /\ range_start(r.i, r.j) \in 1 .. r.i
      BY <2>1, OverOwn
    <3>2. l.i \in Nat /\ r.i \in Nat
      BY <2>1, IndexIsNat
    <3>3. QED
      BY <3>1, <3>2
  <2> SUFFICES ASSUME NEW g \in Over(x) PROVE Branches(x, g)
    BY <2>1
  <2>4. /\ branches_off(x, g) = IF contains(l.i, l.j, g) THEN {r} \cup branches_off(l, g)
                                ELSE {l} \cup branches_off(r, g)
        /\ count_of(g)[x] = 1 + IF contains(l.i, l.j, g) THEN count_of(g)[l] ELSE count_of(g)[r]
    BY BranchesStep, CountStep
  <2>5. g \in Nat /\ (contains(l.i, l.j, g) <=> g \in Over(l))
    BY DEF Over
  <2>6. (\A y \in Over(l) : Branches(l, y)) /\ (\A y \in Over(r) : Branches(r, y))
    BY <1>2
  <2> HIDE DEF l, r, x, w, S
  <2>7. ASSUME NEW c \in {l, r}, NEW o \in {l, r}, c # o, g \in Over(c), g \notin Over(o)
        PROVE  Branches(x, g)
    <3> DEFINE B == branches_off(c, g)
    <3>1. branches_off(x, g) = {o} \cup B /\ count_of(g)[x] = 1 + count_of(g)[c]
      BY <2>2, <2>4, <2>5, <2>7
    <3>2. Branches(c, g)
      BY <2>6, <2>7
    <3>3. Over(x) = Over(c) \cup Over(o) /\ Over(c) \cap Over(o) = {} /\ o.i \in Over(o)
          /\ o \in Addrs /\ HasNode(o.i, o.j)
      BY <2>1, <2>2, <2>3, <2>7
    <3>4. o \notin B
      BY <3>2, <3>3 DEF Branches
    <3>5. IsFiniteSet({o} \cup B) /\ Cardinality({o} \cup B) = count_of(g)[x]
      <4>1. IsFiniteSet(B) /\ Cardinality(B) = count_of(g)[c]
        BY <3>2 DEF Branches
      <4>2. IsFiniteSet(B \cup {o}) /\ Cardinality(B \cup {o}) = Cardinality(B) + 1 /\ Cardinality(B) \in Nat
        BY <3>4, <4>1, FS_AddElement, FS_CardinalityType
      <4>3. {o} \cup B = B \cup {o}
        OBVIOUS
      <4> HIDE DEF B
      <4>4. Cardinality(B) + 1 = 1 + count_of(g)[c]
        BY <4>1, <4>2
      <4>5. QED
        BY <3>1, <4>2, <4>3, <4>4
    <3>6. \A b \in {o} \cup B : b \in Addrs /\ HasNode(b.i, b.j) /\ g \notin Over(b) /\ Over(b) \subseteq Over(x)
      BY <2>7, <3>2, <3>3 DEF Branches
    <3>7. \A y \in Over(x) : y # g => \E b \in {o} \cup B : y \in Over(b)
      BY <3>2, <3>3 DEF Branches
    <3>8. \A b, d \in {o} \cup B : \A y \in Over(b) : y \in Over(d) => b = d
      <4>1. \A b \in B : Over(b) \cap Over(o) = {}
        BY <3>2, <3>3 DEF Branches
      <4>2. \A b, d \in B : \A y \in Over(b) : y \in Over(d) => b = d
        BY <3>2 DEF Branches
      <4> HIDE DEF B
      <4>3. QED
        BY <4>1, <4>2
    <3>9. QED
      BY <3>1, <3>5, <3>6, <3>7, <3>8 DEF Branches
  <2>8. QED
    BY <2>2, <2>7
<1> HIDE DEF S
<1>3. Addr(m, j) \in S
  BY <1>1, <1>2, NodeInduction
<1>4. QED
  BY <1>3 DEF S

-----------------------------------------------------------------------------
(* What a sample proves.                                                   *)

\* The steps of root_hash_succeeds and root_hash at a leaf and at an inode.
LEMMA CompleteStep ==
    ASSUME NEW m \in Index \ {0}, NEW x
    PROVE  /\ complete_of(x)[Addr(m, 0)] <=> x.i = m
           /\ \A k \in 1 .. Len(inodes(m)) :
                LET w == inodes(m)[k]
                IN  complete_of(x)[w.node] <=>
                      \/ contains(w.left.i, w.left.j, x.i) /\ given(x, w.right) /\ complete_of(x)[w.left]
                      \/ contains(w.right.i, w.right.j, x.i) /\ given(x, w.left) /\ complete_of(x)[w.right]
<1> DEFINE g == complete_of(x)
<1>1. \A a \in Addrs : g[a] = complete_step(x, g, a)
  <2>1. g = [a \in Addrs |-> complete_step(x, g, a)]
    BY CompleteRecursion
  <2> HIDE DEF g
  <2>2. QED
    BY <2>1
<1>2. Addr(m, 0) \in Addrs /\ Addr(m, 0).j = 0 /\ Addr(m, 0).i = m
  BY NoBranches DEF Addr
<1> HIDE DEF g
<1>3. g[Addr(m, 0)] <=> x.i = m
  BY <1>1, <1>2 DEF complete_step
<1>4. ASSUME NEW k \in 1 .. Len(inodes(m))
      PROVE  LET w == inodes(m)[k]
             IN  g[w.node] <=> \/ contains(w.left.i, w.left.j, x.i) /\ given(x, w.right) /\ g[w.left]
                               \/ contains(w.right.i, w.right.j, x.i) /\ given(x, w.left) /\ g[w.right]
  <2> DEFINE w == inodes(m)[k]
  <2>1. /\ w.node \in Addrs /\ w.node = Addr(m, w.node.j) /\ w.node.j # 0
        /\ left_of(m, w.node.j) = w.left /\ right_of(m, w.node.j) = w.right
    BY InodeChildren
  <2>2. w.node.i = m
    BY <2>1 DEF Addr
  <2> HIDE DEF w
  <2>3. g[w.node] = complete_step(x, g, w.node)
    BY <1>1, <2>1
  <2>4. complete_step(x, g, w.node) <=>
           \/ contains(w.left.i, w.left.j, x.i) /\ given(x, w.right) /\ g[w.left]
           \/ contains(w.right.i, w.right.j, x.i) /\ given(x, w.left) /\ g[w.right]
    BY <2>1, <2>2 DEF complete_step
  <2>5. QED
    BY <2>3, <2>4 DEF w
<1>5. QED
  BY <1>3, <1>4 DEF g

LEMMA HashStep ==
    ASSUME NEW m \in Index \ {0}, NEW x
    PROVE  /\ hashes_of(x)[Addr(m, 0)] = from_bytes(0, x.payload)
           /\ \A k \in 1 .. Len(inodes(m)) :
                LET w == inodes(m)[k]
                IN  hashes_of(x)[w.node] =
                      IF contains(w.left.i, w.left.j, x.i)
                      THEN combine(hashes_of(x)[w.left], w.node.j, witness_hash(x, w.right))
                      ELSE combine(witness_hash(x, w.left), w.node.j, hashes_of(x)[w.right])
<1> DEFINE g == hashes_of(x)
<1>1. \A a \in Addrs : g[a] = hash_at(x, g, a)
  <2>1. g = [a \in Addrs |-> hash_at(x, g, a)]
    BY HashRecursion
  <2> HIDE DEF g
  <2>2. QED
    BY <2>1
<1>2. Addr(m, 0) \in Addrs /\ Addr(m, 0).j = 0
  BY NoBranches DEF Addr
<1> HIDE DEF g
<1>3. g[Addr(m, 0)] = from_bytes(0, x.payload)
  BY <1>1, <1>2 DEF hash_at
<1>4. ASSUME NEW k \in 1 .. Len(inodes(m))
      PROVE  LET w == inodes(m)[k]
             IN  g[w.node] = IF contains(w.left.i, w.left.j, x.i)
                             THEN combine(g[w.left], w.node.j, witness_hash(x, w.right))
                             ELSE combine(witness_hash(x, w.left), w.node.j, g[w.right])
  <2> DEFINE w == inodes(m)[k]
  <2>1. /\ w.node \in Addrs /\ w.node = Addr(m, w.node.j) /\ w.node.j # 0
        /\ left_of(m, w.node.j) = w.left /\ right_of(m, w.node.j) = w.right
    BY InodeChildren
  <2>2. w.node.i = m
    BY <2>1 DEF Addr
  <2> HIDE DEF w
  <2>3. QED
    BY <1>1, <2>1, <2>2 DEF hash_at, w
<1>5. QED
  BY <1>3, <1>4 DEF g

\* H gives each node of the first rev entries the hash of its children's.
HashTree(H, rev) ==
    \A m \in 1 .. rev : \A k \in 1 .. Len(inodes(m)) :
        LET w == inodes(m)[k]
        IN  H[w.node] = combine(H[w.left], w.node.j, H[w.right])

\* A sample with the hashes of all nodes that branch off its way has the hash of
\* each node on the way.
Witnessed(H, x, a) == \A b \in branches_off(a, x.i) : given(x, b) /\ witness_hash(x, b) = H[b]

LEMMA SampleLeads ==
    ASSUME NEW rev \in Index, NEW H, HashTree(H, rev), NEW x, x.i \in Nat,
           H[Addr(x.i, 0)] = from_bytes(0, x.payload),
           NEW m \in 1 .. rev, NEW j \in Nat, HasNode(m, j), x.i \in Over(Addr(m, j)),
           Witnessed(H, x, Addr(m, j))
    PROVE  complete_of(x)[Addr(m, j)] /\ hashes_of(x)[Addr(m, j)] = H[Addr(m, j)]
<1> DEFINE Leads(a) == complete_of(x)[a] /\ hashes_of(x)[a] = H[a]
           S == {a \in Addrs : a.i <= rev /\ x.i \in Over(a) /\ Witnessed(H, x, a) => Leads(a)}
<1>1. ASSUME NEW i \in Index \ {0} PROVE Addr(i, 0) \in S
  <2>1. Addr(i, 0) \in Addrs /\ Over(Addr(i, 0)) = {i}
    BY NoBranches, OverLeaf
  <2>2. complete_of(x)[Addr(i, 0)] <=> x.i = i
    BY CompleteStep
  <2>3. hashes_of(x)[Addr(i, 0)] = from_bytes(0, x.payload)
    BY HashStep
  <2>4. x.i = i => Leads(Addr(i, 0))
    BY <2>2, <2>3
  <2> HIDE DEF Leads
  <2>5. QED
    BY <2>1, <2>4
<1>2. ASSUME NEW i \in Index \ {0}, NEW k \in 1 .. Len(inodes(i)),
             inodes(i)[k].left \in S, inodes(i)[k].right \in S
      PROVE  inodes(i)[k].node \in S
  <2> DEFINE w == inodes(i)[k]
             l == w.left
             r == w.right
             a == w.node
  <2>1. a \in Addrs /\ l \in Addrs /\ r \in Addrs /\ l.i \in 1 .. i - 1 /\ r.i = i /\ a.i = i
    <3>1. /\ a \in Addrs /\ l \in Addrs /\ r \in Addrs /\ l.i \in 1 .. i - 1
          /\ a = Addr(i, a.j) /\ r = Addr(i, r.j)
      BY InodeChildren
    <3>2. QED
      BY <3>1 DEF Addr
  <2> SUFFICES ASSUME a.i <= rev, x.i \in Over(a), Witnessed(H, x, a) PROVE Leads(a)
    BY <2>1
  <2>2. i \in 1 .. rev /\ l.i <= rev /\ r.i <= rev
    <3>1. i \in Nat \ {0} /\ rev \in Nat
      BY IndexIsNat
    <3> HIDE DEF l, r, a
    <3>2. QED
      BY <2>1, <3>1
  <2>3. H[a] = combine(H[l], a.j, H[r])
    BY <2>2 DEF HashTree
  <2>4. Over(a) = Over(l) \cup Over(r) /\ Over(l) \cap Over(r) = {}
    BY OverInode
  <2>5. /\ contains(l.i, l.j, x.i) <=> x.i \in Over(l)
        /\ contains(r.i, r.j, x.i) <=> x.i \in Over(r)
    BY DEF Over
  <2>6. branches_off(a, x.i) = IF contains(l.i, l.j, x.i) THEN {r} \cup branches_off(l, x.i)
                               ELSE {l} \cup branches_off(r, x.i)
    BY BranchesStep
  <2>7. complete_of(x)[a] <=> \/ contains(l.i, l.j, x.i) /\ given(x, r) /\ complete_of(x)[l]
                              \/ contains(r.i, r.j, x.i) /\ given(x, l) /\ complete_of(x)[r]
    BY CompleteStep
  <2>12. hashes_of(x)[a] = IF contains(l.i, l.j, x.i)
                           THEN combine(hashes_of(x)[l], a.j, witness_hash(x, r))
                           ELSE combine(witness_hash(x, l), a.j, hashes_of(x)[r])
    BY HashStep
  <2>8. l \in S /\ r \in S
    BY <1>2
  <2> HIDE DEF l, r, a, w
  <2>9. CASE x.i \in Over(l)
    <3>1. Witnessed(H, x, l) /\ given(x, r) /\ witness_hash(x, r) = H[r]
      BY <2>5, <2>6, <2>9 DEF Witnessed
    <3>2. Leads(l)
      BY <2>2, <2>8, <2>9, <3>1
    <3>3. QED
      BY <2>3, <2>5, <2>7, <2>9, <2>12, <3>1, <3>2
  <2>10. CASE x.i \in Over(r) /\ x.i \notin Over(l)
    <3>1. Witnessed(H, x, r) /\ given(x, l) /\ witness_hash(x, l) = H[l]
      BY <2>5, <2>6, <2>10 DEF Witnessed
    <3>2. Leads(r)
      BY <2>2, <2>8, <2>10, <3>1
    <3>3. QED
      BY <2>3, <2>5, <2>7, <2>10, <2>12, <3>1, <3>2
  <2>11. QED
    BY <2>4, <2>9, <2>10
<1> HIDE DEF S
<1>3. Addr(m, j) \in S
  <2>1. m \in Index \ {0}
    BY IndexIsNat
  <2>2. QED
    BY <1>1, <1>2, <2>1, NodeInduction
<1>4. Addr(m, j).i <= rev
  BY DEF Addr
<1>5. QED
  BY <1>3, <1>4 DEF S

\* The root of a generation is a node of its entry, over all leaves.
LEMMA RootNode ==
    ASSUME NEW m \in Index \ {0}
    PROVE  LET r == root_of(m)
           IN  /\ r = Addr(m, r.j) /\ r.i = m /\ r.j \in Nat /\ r \in Addrs /\ HasNode(m, r.j)
               /\ Over(r) = 1 .. m
<1> DEFINE r == root_of(m)
           s == inodes(m)
<1>1. r = IF Len(s) = 0 THEN Addr(m, 0) ELSE s[Len(s)].node
  BY FormulasFitInodes
<1>2. Len(s) \in Nat
  BY InodeHeights
<1>3. CASE Len(s) = 0
  <2>1. m = 1
    BY <1>3, InodesTile
  <2>2. r = Addr(m, 0) /\ r \in Addrs /\ Over(r) = {m}
    BY <1>1, <1>3, NoBranches, OverLeaf
  <2>3. r.i = m /\ r.j = 0
    BY <2>2 DEF Addr
  <2>4. {m} = 1 .. m
    BY <2>1
  <2>5. HasNode(m, r.j)
    BY <2>3 DEF HasNode
  <2> HIDE DEF r
  <2>6. r = Addr(m, r.j) /\ r.j \in Nat
    BY <2>2, <2>3
  <2>7. Over(r) = 1 .. m
    BY <2>2, <2>4
  <2>8. QED
    BY <2>2, <2>3, <2>5, <2>6, <2>7 DEF r
<1>4. CASE Len(s) # 0
  <2>1. Len(s) \in 1 .. Len(s)
    BY <1>2, <1>4
  <2> DEFINE w == s[Len(s)]
  <2>2. /\ r = w.node /\ w.node \in Addrs /\ w.node = Addr(m, w.node.j) /\ HasNode(m, w.node.j) /\ w.node.j \in Nat
    BY <1>1, <1>4, <2>1, InodeChildren
  <2>3. range_start(m, w.node.j) = 1
    <3>1. range_start(m, w.node.j) = first_leaf(s, Len(s))
      BY <2>1, FormulasFitInodes
    <3>2. first_leaf(s, Len(s)) = 1
      BY <1>4, InodesTile
    <3>3. QED
      BY <3>1, <3>2
  <2>4. Over(Addr(m, w.node.j)) = 1 .. m
    <3> HIDE DEF w
    <3>1. Over(Addr(m, w.node.j)) = range_start(m, w.node.j) .. m
      BY <2>2, OverOwn
    <3>2. QED
      BY <2>3, <3>1
  <2> HIDE DEF w
  <2>5. r.i = m /\ r.j = w.node.j
    BY <2>2 DEF Addr
  <2> HIDE DEF r
  <2>6. QED
    BY <2>2, <2>4, <2>5 DEF r
<1>5. QED
  BY <1>3, <1>4

\* A sample of leaf x.i of revision rev, that has the payload of the leaf and the
\* hashes of just the nodes that branch off the way to it.
GoodSample(H, rev, x) ==
    /\ x.revision = rev /\ x.i \in 1 .. rev /\ H[Addr(x.i, 0)] = from_bytes(0, x.payload)
    /\ \A w \in x.witnesses : w = Witness(w.i, w.j, w.hash) /\ w.hash = H[Addr(w.i, w.j)]
    /\ {Addr(w.i, w.j) : w \in x.witnesses} = branches_off(root_of(rev), x.i)

\* Such a sample leads to the hash of the root, with one witness per branch.
THEOREM SamplesProve ==
    ASSUME NEW rev \in Index \ {0}, NEW H, HashTree(H, rev), NEW x, GoodSample(H, rev, x)
    PROVE  /\ root_hash_succeeds(x) /\ root_hash(x) = H[root_of(rev)]
           /\ Cardinality(x.witnesses) = stratum_sample_size(rev, x.i)
<1> DEFINE r == root_of(rev)
           B == branches_off(r, x.i)
           W == x.witnesses
<1>1. /\ r = Addr(rev, r.j) /\ r.i = rev /\ r.j \in Nat /\ HasNode(rev, r.j) /\ Over(r) = 1 .. rev
  BY RootNode
<1>2. rev \in Index /\ rev \in 1 .. rev /\ x.i \in Nat /\ x.i \in Over(r)
  <2>1. rev \in Nat \ {0}
    BY IndexIsNat
  <2>2. x.i \in 1 .. rev
    BY DEF GoodSample
  <2> HIDE DEF r
  <2>3. QED
    BY <1>1, <2>1, <2>2
<1>3. Branches(r, x.i)
  <2>1. x.i \in Over(Addr(rev, r.j))
    BY <1>1, <1>2
  <2>2. Branches(Addr(rev, r.j), x.i)
    BY <1>1, <1>2, <2>1, BranchesOff
  <2>3. QED
    BY <1>1, <2>2
<1>4. \A b \in B : b = Addr(b.i, b.j)
  BY <1>3, AddrHeights DEF Branches
<1>5. /\ \A w \in W : w = Witness(w.i, w.j, w.hash) /\ w.hash = H[Addr(w.i, w.j)] /\ Addr(w.i, w.j) \in B
      /\ \A b \in B : \E w \in W : b = Addr(w.i, w.j)
  BY DEF GoodSample
<1>6. Witnessed(H, x, r)
  <2> SUFFICES ASSUME NEW b \in B PROVE given(x, b) /\ witness_hash(x, b) = H[b]
    BY DEF Witnessed
  <2>1. PICK w \in W : w.i = b.i /\ w.j = b.j
    BY <1>5 DEF Addr
  <2>2. \A u \in W : u.i = b.i /\ u.j = b.j => u.hash = H[b]
    BY <1>4, <1>5
  <2> HIDE DEF B
  <2>3. witness_hash(x, b) = H[b]
    BY <2>1, <2>2 DEF witness_hash
  <2>4. QED
    BY <2>1, <2>3 DEF given
<1>7. complete_of(x)[r] /\ hashes_of(x)[r] = H[r]
  <2>1. H[Addr(x.i, 0)] = from_bytes(0, x.payload)
    BY DEF GoodSample
  <2> HIDE DEF r
  <2>2. QED
    BY <1>1, <1>2, <1>6, <2>1, SampleLeads
<1>8. root_hash_succeeds(x) /\ root_hash(x) = H[r]
  <2>1. x.revision = rev /\ rev > 0
    BY <1>2 DEF GoodSample
  <2>2. root_hash_succeeds(x) <=> x.revision > 0 /\ complete_of(x)[root_of(x.revision)]
    BY DEF root_hash_succeeds, complete_of, complete_step
  <2>3. root_hash(x) = hashes_of(x)[root_of(x.revision)]
    BY DEF root_hash, hashes_of, hash_at
  <2>4. QED
    BY <1>7, <2>1, <2>2, <2>3
<1>9. Cardinality(W) = Cardinality(B)
  <2> DEFINE f == [b \in B |-> Witness(b.i, b.j, H[b])]
  <2>1. IsFiniteSet(B)
    BY <1>3 DEF Branches
  <2> HIDE DEF B, W
  <2>2. ASSUME NEW w \in W
        PROVE  Addr(w.i, w.j) \in B /\ f[Addr(w.i, w.j)] = w
    <3>1. w = Witness(w.i, w.j, w.hash) /\ w.hash = H[Addr(w.i, w.j)] /\ Addr(w.i, w.j) \in B
      BY <1>5
    <3>2. Addr(w.i, w.j).i = w.i /\ Addr(w.i, w.j).j = w.j
      BY DEF Addr
    <3>3. QED
      BY <3>1, <3>2
  <2>3. ASSUME NEW b \in B PROVE f[b] \in W
    <3>1. PICK w \in W : b = Addr(w.i, w.j)
      BY <1>5
    <3>2. f[Addr(w.i, w.j)] = w
      BY <2>2
    <3> HIDE DEF f
    <3>3. QED
      BY <3>1, <3>2
  <2>4. ASSUME NEW b \in B, NEW c \in B, f[b] = f[c] PROVE b = c
    <3>1. Witness(b.i, b.j, H[b]) = Witness(c.i, c.j, H[c])
      BY <2>4
    <3>2. b.i = c.i /\ b.j = c.j
      BY <3>1 DEF Witness
    <3>3. QED
      BY <1>4, <3>2
  <2>5. f \in [B -> W] /\ \A w \in W : \E b \in B : f[b] = w
    <3>1. \A w \in W : \E b \in B : f[b] = w
      BY <2>2
    <3>2. f \in [B -> W]
      BY <2>3
    <3>3. QED
      BY <3>1, <3>2
  <2>6. DOMAIN f = B
    OBVIOUS
  <2> HIDE DEF f
  <2>7. f \in Bijection(B, W)
    BY <2>4, <2>5, <2>6 DEF Bijection, Injection, Surjection, IsInjective
  <2>8. ExistsBijection(B, W)
    BY <2>7 DEF ExistsBijection
  <2>9. QED
    BY <2>1, <2>8, FS_Bijection
<1>10. stratum_sample_size(rev, x.i) = Cardinality(B)
  <2>1. stratum_sample_size(rev, x.i) = IF contains(r.i, r.j, x.i) THEN count_of(x.i)[r] ELSE 0
    BY DEF stratum_sample_size, count_of, count_step
  <2>2. contains(r.i, r.j, x.i)
    BY <1>2 DEF Over
  <2>3. Cardinality(B) = count_of(x.i)[r]
    BY <1>3 DEF Branches
  <2>4. QED
    BY <2>1, <2>2, <2>3
<1>11. QED
  BY <1>8, <1>9, <1>10
=============================================================================
