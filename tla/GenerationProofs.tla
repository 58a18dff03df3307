-------------------------- MODULE GenerationProofs --------------------------
(***************************************************************************)
(* Theorems about the growing tree, for every width of Index and every     *)
(* number of generations that it can count.                                *)
(***************************************************************************)
EXTENDS Generations, FormulaProofs

\* One list of inodes for each generation, as Model::inodes computes it.
Written == /\ entries \in Seq(Seq(INodes)) /\ n \in 0 .. MaxN
           /\ \A k \in 1 .. n : entries[k] = inodes(k)

LEMMA WrittenInit == Init => Written
<1> SUFFICES ASSUME Init PROVE Written
  OBVIOUS
<1>1. MaxN \in Nat
  BY GenerationAssumption, IndexIsNat
<1>2. entries = <<>> /\ n = 0
  BY DEF Init, n
<1>3. QED
  BY <1>1, <1>2 DEF Written

LEMMA GrowWrites ==
    ASSUME Written, Grow
    PROVE  /\ Written' /\ n' = n + 1 /\ n + 1 \in Index \ {0} /\ n \in Index
           /\ Last(entries') = inodes(n + 1)
<1>1. n \in Nat /\ MaxN \in Nat /\ n < MaxN /\ entries' = Append(entries, inodes(n + 1))
  BY GenerationAssumption, IndexIsNat DEF Written, Grow
<1>2. n + 1 \in 0 .. MaxN /\ n \in 0 .. MaxN /\ n + 1 # 0
  BY <1>1
<1>3. n + 1 \in Index \ {0} /\ n \in Index
  BY <1>2, GenerationAssumption, IndexIsNat
<1>4. inodes(n + 1) \in Seq(INodes)
  BY <1>3, InodesClimb
<1>5. /\ entries' \in Seq(Seq(INodes)) /\ Len(entries') = n + 1
      /\ \A k \in 1 .. n : entries'[k] = entries[k]
      /\ entries'[n + 1] = inodes(n + 1)
  BY <1>1, <1>4, AppendProperties DEF Written, n
<1>6. n' = n + 1
  BY <1>5 DEF n
<1>7. \A k \in 1 .. n + 1 : entries'[k] = inodes(k)
  BY <1>1, <1>5 DEF Written
<1>8. QED
  BY <1>2, <1>3, <1>5, <1>6, <1>7 DEF Written, Last

\* Every generation has written the inodes that Model::new(n).inodes() lists.
THEOREM WrittenInvariant == Spec => []Written
<1>1. ASSUME Written, [Next]_entries PROVE Written'
  <2>1. CASE Grow
    BY <1>1, <2>1, GrowWrites
  <2>2. CASE UNCHANGED entries
    BY <1>1, <2>2 DEF Written, n
  <2>3. QED
    BY <1>1, <2>1, <2>2 DEF Next
<1>2. QED
  BY <1>1, WrittenInit, PTL DEF Spec

\* The perfect subtrees of every generation tile its leaves from left to right in
\* decreasing height, as many as count_pbsts says (formula.rs:151-173).
THEOREM RootsTileEveryGeneration == Spec => []RootsTileLeaves
<1>1. ASSUME Written PROVE RootsTileLeaves
  <2>1. n \in Index
    BY <1>1, GenerationAssumption, IndexIsNat DEF Written
  <2>2. QED
    BY <2>1, RootsTile DEF RootsTileLeaves
<1>2. QED
  BY <1>1, WrittenInvariant, PTL

\* The inodes of an entry belong to it and climb from its leaf, each over the one
\* before it, up to the root of its generation, as append asserts and the reader
\* of serialized entries relies on (lib.rs:539-542, 557-558, serialize.rs:11-24).
THEOREM SpinesAreChains == Spec => []SpineIsAChain
<1>1. ASSUME Written PROVE SpineIsAChain
  <2> SUFFICES ASSUME n > 0
               PROVE  /\ \A k \in 1 .. Len(entries[n]) :
                            /\ entries[n][k].node.i = n
                            /\ entries[n][k].right = (IF k = 1 THEN Addr(n, 0) ELSE entries[n][k - 1].node)
                            /\ entries[n][k].left.j >= entries[n][k].right.j
                            /\ entries[n][k].node.j = entries[n][k].left.j + 1
                      /\ root_of(n) = IF Len(entries[n]) = 0 THEN Addr(n, 0)
                                      ELSE entries[n][Len(entries[n])].node
    BY DEF SpineIsAChain
  <2>1. n \in Index \ {0} /\ n \in 1 .. n
    BY <1>1, GenerationAssumption, IndexIsNat DEF Written
  <2>2. entries[n] = inodes(n)
    BY <1>1, <2>1 DEF Written
  <2>3. root_of(n) = IF Len(inodes(n)) = 0 THEN Addr(n, 0) ELSE inodes(n)[Len(inodes(n))].node
    BY <2>1, FormulasFitInodes
  <2>4. QED
    BY <2>1, <2>2, <2>3, InodesClimb
<1>2. QED
  BY <1>1, WrittenInvariant, PTL

\* The left child of every inode that append writes is the root of a perfect
\* subtree of the generation before, where append looks it up (lib.rs:538-545).
THEOREM LeftsAreRoots == Spec => LeftsAreOldRoots
<1>1. ASSUME Written, Grow
      PROVE  \A k \in 1 .. Len(Last(entries')) : Last(entries')[k].left \in ToSet(pbst_roots(n))
  <2>1. n + 1 \in Index \ {0} /\ n \in Index /\ Last(entries') = inodes(n + 1)
    BY <1>1, GrowWrites
  <2>2. n \in Nat /\ (n + 1) - 1 = n
    BY <2>1, IndexIsNat
  <2> DEFINE s == inodes(n + 1)
  <2>3. ASSUME NEW k \in 1 .. Len(s) PROVE s[k].left \in ToSet(pbst_roots(n))
    <3>1. s \in Seq(INodes) /\ is_root(n, s[k].left.i, s[k].left.j)
      BY <2>1, <2>2, InodesClimb
    <3>2. s[k] \in INodes
      BY <3>1, ElementOfSeq
    <3> HIDE DEF s
    <3>3. s[k].left.i \in Nat /\ s[k].left.j \in Nat /\ s[k].left = Addr(s[k].left.i, s[k].left.j)
      BY <3>2 DEF INodes, NodeAddr, Addr
    <3>4. Addr(s[k].left.i, s[k].left.j) \in ToSet(pbst_roots(n))
      BY <2>1, <3>1, <3>3, RootsTile
    <3>5. QED
      BY <3>3, <3>4
  <2>4. QED
    BY <2>1, <2>3
<1>2. ASSUME Written, [Next]_entries
      PROVE  [\A k \in 1 .. Len(Last(entries')) :
                 Last(entries')[k].left \in ToSet(pbst_roots(n))]_entries
  BY <1>1, <1>2 DEF Next
<1>3. QED
  BY <1>2, WrittenInvariant, PTL DEF Spec, LeftsAreOldRoots

-----------------------------------------------------------------------------
(* The nodes of the subtree of a node.                                     *)

\* The nodes of the perfect subtrees that end at f .. t and begin at f or later.
PerfectNodes(f, t) ==
    {x \in NodeAddr : x.i \in f .. t /\ x.i % 2^x.j = 0 /\ 2^x.j <= (x.i - f) + 1}
\* The nodes of entry m up to height j.
OwnNodes(m, j) == {Addr(m, q) : q \in {q \in 0 .. j : HasNode(m, q)}}
\* The nodes of the subtree b_{m,j}.
NodesUnder(m, j) == PerfectNodes(range_start(m, j), m - 1) \cup OwnNodes(m, j)

\* A perfect subtree over leaves of which the first 2^g are one of height g, and
\* at most as many follow, does not lie across the end of that one.
LEMMA PerfectAfter ==
    ASSUME NEW f \in Nat \ {0}, NEW g \in Nat, NEW l \in Nat, l = (f + 2^g) - 1, l % 2^g = 0,
           NEW i \in Nat, l < i, i < l + 2^g, NEW q \in Nat, i % 2^q = 0,
           2^q <= (i - f) + 1
    PROVE  2^q <= i - l
<1> SUFFICES ASSUME i - l < 2^q PROVE FALSE
  BY PowerCounts
<1>1. \E e \in Nat : i % 2^e = 0 /\ l % 2^e = 0 /\ i < l + 2^e
  <2>1. CASE q <= g
    <3>1. l % 2^q = 0
      <4>1. q \in 0 .. g
        BY <2>1
      <4>2. QED
        BY <4>1, LowerPowerDivides
    <3>2. i < l + 2^q
      BY PowerCounts
    <3>3. QED
      BY <3>1, <3>2
  <2>2. CASE g < q
    <3>1. i % 2^g = 0
      <4>1. g \in 0 .. q
        BY <2>2
      <4>2. QED
        BY <4>1, LowerPowerDivides
    <3>2. QED
      BY <3>1
  <2>3. QED
    BY <2>1, <2>2
<1>2. PICK e \in Nat : i % 2^e = 0 /\ l % 2^e = 0 /\ i < l + 2^e
  BY <1>1
<1> DEFINE d == 2^e
           a == i \div d
           b == l \div d
<1>3. d \in Nat \ {0}
  BY PowerCounts
<1>4. i % d = 0 /\ l % d = 0 /\ i < l + d
  BY <1>2
<1> HIDE DEF d
<1>5. a \in Nat /\ b \in Nat /\ i = a * d /\ l = b * d
  BY <1>3, <1>4, Division
<1> HIDE DEF a, b
<1>6. b * d < a * d /\ a * d < (b + 1) * d
  BY <1>3, <1>4, <1>5
<1>7. b < a /\ a < b + 1
  BY <1>3, <1>5, <1>6
<1>8. QED
  BY <1>5, <1>7

LEMMA IsUnder ==
    ASSUME NEW m \in Nat \ {0}, NEW j \in Nat
    PROVE  /\ NodesUnder(m, j) \subseteq NodeAddr
           /\ \A x \in NodeAddr :
                x \in NodesUnder(m, j) <=>
                   \/ /\ x.i \in range_start(m, j) .. m - 1
                      /\ x.i % 2^x.j = 0 /\ 2^x.j <= (x.i - range_start(m, j)) + 1
                   \/ x.i = m /\ x.j <= j /\ HasNode(m, x.j)
<1> DEFINE f == range_start(m, j)
<1> HIDE DEF f
<1>1. ASSUME NEW x \in NodeAddr
      PROVE  x \in OwnNodes(m, j) <=> x.i = m /\ x.j <= j /\ HasNode(m, x.j)
  <2>1. x.i \in Nat /\ x.j \in Nat /\ x = Addr(x.i, x.j)
    BY DEF NodeAddr, Addr
  <2>2. ASSUME x \in OwnNodes(m, j) PROVE x.i = m /\ x.j <= j /\ HasNode(m, x.j)
    <3>1. PICK q \in 0 .. j : HasNode(m, q) /\ x = Addr(m, q)
      BY <2>2 DEF OwnNodes
    <3>2. x.i = m /\ x.j = q
      BY <3>1 DEF Addr
    <3>3. QED
      BY <3>1, <3>2
  <2>3. ASSUME x.i = m, x.j <= j, HasNode(m, x.j) PROVE x \in OwnNodes(m, j)
    BY <2>1, <2>3 DEF OwnNodes
  <2>4. QED
    BY <2>2, <2>3
<1>2. OwnNodes(m, j) \subseteq NodeAddr
  BY DEF OwnNodes, NodeAddr, Addr
<1>3. NodesUnder(m, j) \subseteq NodeAddr
  BY <1>2 DEF NodesUnder, PerfectNodes
<1>4. ASSUME NEW x \in NodeAddr
      PROVE  x \in PerfectNodes(f, m - 1) <=>
                 x.i \in f .. m - 1 /\ x.i % 2^x.j = 0 /\ 2^x.j <= (x.i - f) + 1
  BY DEF PerfectNodes
<1>5. \A x \in NodeAddr : x \in NodesUnder(m, j) <=> x \in PerfectNodes(f, m - 1) \/ x \in OwnNodes(m, j)
  BY DEF NodesUnder, f
<1>6. \A x \in NodeAddr : x \in NodesUnder(m, j) <=>
        \/ x.i \in f .. m - 1 /\ x.i % 2^x.j = 0 /\ 2^x.j <= (x.i - f) + 1
        \/ x.i = m /\ x.j <= j /\ HasNode(m, x.j)
  BY <1>1, <1>4, <1>5
<1>7. QED
  BY <1>3, <1>6 DEF f

\* The subtree of an inode is the inode and the subtrees of its two children,
\* which have no node in common.
LEMMA UnderInode ==
    ASSUME NEW m \in Index \ {0}, NEW k \in 1 .. Len(inodes(m))
    PROVE  LET w == inodes(m)[k]
               below == NodesUnder(w.left.i, w.left.j)
               beside == NodesUnder(w.right.i, w.right.j)
           IN  /\ NodesUnder(m, w.node.j) = {w.node} \cup below \cup beside
               /\ w.node \notin below \cup beside /\ below \cap beside = {}
<1> DEFINE w == inodes(m)[k]
           l == w.left.i
           j == w.node.j
           r == w.right.j
           f == range_start(m, j)
           p == 2^(j - 1)
           g == j - 1
           A == NodesUnder(l, g)
           B == NodesUnder(m, r)
<1>1. /\ w.node = Addr(m, j) /\ w.left = Addr(l, g) /\ w.right = Addr(m, r)
      /\ j \in Nat \ {0} /\ r \in 0 .. j - 1 /\ l \in 1 .. m - 1 /\ l \in Index \ {0}
      /\ f \in 1 .. l /\ l = (f + p) - 1 /\ (m - f) + 1 <= 2 * p
      /\ range_start(l, g) = f /\ range_start(m, r) = l + 1 /\ l % p = 0
      /\ \A q \in Nat : HasNode(m, q) => q <= r \/ q = j \/ j < q
      /\ HasNode(m, j)
  BY InodeStands
<1>2. m \in Nat \ {0}
  BY IndexIsNat
<1>3. w.left.i = l /\ w.left.j = g /\ w.right.i = m
  BY <1>1 DEF Addr
<1>4. p = 2^g
  OBVIOUS
<1> HIDE DEF p, f, r, l, j, w
<1>5. g \in Nat /\ g + 1 = j /\ r \in Nat /\ l \in Nat \ {0} /\ f \in Nat \ {0} /\ m - 1 \in Nat
  BY <1>1, <1>2
<1>6. p \in Nat \ {0}
  BY <1>4, <1>5, PowerCounts
<1>0. /\ f \in Nat \ {0} /\ l \in Nat /\ m \in Nat /\ p \in Nat
      /\ f <= l /\ l < m /\ m - 1 < l + p
  <2>1. f \in Nat \ {0} /\ l \in Nat /\ m \in Nat /\ p \in Nat
    BY <1>2, <1>5, <1>6
  <2>2. f \in 1 .. l /\ l \in 1 .. m - 1 /\ l = (f + p) - 1 /\ (m - f) + 1 <= 2 * p
    BY <1>1
  <2>3. QED
    BY <2>1, <2>2
<1> HIDE DEF g
<1>7. /\ NodesUnder(m, j) \subseteq NodeAddr
      /\ \A x \in NodeAddr :
            x \in NodesUnder(m, j) <=>
                   \/ x.i \in f .. m - 1 /\ x.i % 2^x.j = 0 /\ 2^x.j <= (x.i - f) + 1
                   \/ x.i = m /\ x.j <= j /\ HasNode(m, x.j)
  BY <1>1, <1>2, IsUnder DEF f
<1>8. /\ A \subseteq NodeAddr
      /\ \A x \in NodeAddr :
            x \in A <=>
                   \/ x.i \in f .. l - 1 /\ x.i % 2^x.j = 0 /\ 2^x.j <= (x.i - f) + 1
                   \/ x.i = l /\ x.j <= g /\ HasNode(l, x.j)
  BY <1>1, <1>5, IsUnder
<1>9. /\ B \subseteq NodeAddr
      /\ \A x \in NodeAddr :
            x \in B <=>
                   \/ x.i \in l + 1 .. m - 1 /\ x.i % 2^x.j = 0 /\ 2^x.j <= (x.i - (l + 1)) + 1
                   \/ x.i = m /\ x.j <= r /\ HasNode(m, x.j)
  BY <1>1, <1>2, <1>5, IsUnder
<1> HIDE DEF A, B
<1>10. Addr(m, j) \in NodeAddr /\ Addr(m, j).i = m /\ Addr(m, j).j = j
  BY <1>1, <1>2 DEF NodeAddr, Addr
<1>11. ASSUME NEW x \in NodeAddr, x \in NodesUnder(m, j) PROVE x = Addr(m, j) \/ x \in A \/ x \in B
  <2>1. x.i \in Nat /\ x.j \in Nat /\ x = Addr(x.i, x.j)
    BY DEF NodeAddr, Addr
  <2>2. CASE x.i \in f .. m - 1 /\ x.i % 2^x.j = 0 /\ 2^x.j <= (x.i - f) + 1
    <3>1. CASE x.i < l
      <4>1. x.i \in f .. l - 1
        BY <1>5, <2>2, <3>1
      <4>2. QED
        BY <1>8, <2>2, <4>1
    <3>2. CASE x.i = l
      <4>1. 2^x.j <= 2^g
        BY <1>1, <1>4, <1>5, <1>6, <2>1, <2>2, <3>2, PowerCounts
      <4>2. x.j <= g
        BY <1>5, <2>1, <4>1, PowerOrder
      <4>3. HasNode(l, x.j)
        BY <1>1, <2>1, <2>2, <3>2, EntryHeights
      <4>4. QED
        BY <1>8, <3>2, <4>2, <4>3
    <3>3. CASE l < x.i
      <4>1. x.i < l + p
        BY <1>0, <2>2
      <4>2. 2^x.j <= x.i - l
        <5> DEFINE a == x.i
                   b == x.j
        <5>1. a \in Nat /\ b \in Nat /\ l < a /\ a < l + 2^g /\ a % 2^b = 0 /\ 2^b <= (a - f) + 1
          BY <1>4, <2>1, <2>2, <3>3, <4>1
        <5>2. l = (f + 2^g) - 1 /\ l % 2^g = 0 /\ l \in Nat
          BY <1>1, <1>4, <1>5
        <5> HIDE DEF a, b
        <5>3. 2^b <= a - l
          BY <1>5, <5>1, <5>2, PerfectAfter
        <5>4. QED
          BY <5>3 DEF a, b
      <4>3. x.i \in l + 1 .. m - 1 /\ (x.i - (l + 1)) + 1 = x.i - l
        BY <1>5, <2>1, <2>2, <3>3
      <4>4. QED
        BY <1>9, <2>2, <4>2, <4>3
    <3>4. QED
      BY <1>5, <2>1, <3>1, <3>2, <3>3
  <2>3. CASE x.i = m /\ x.j <= j /\ HasNode(m, x.j)
    <3>1. x.j <= r \/ x.j = j
      BY <1>1, <2>1, <2>3
    <3>2. QED
      BY <1>9, <2>1, <2>3, <3>1
  <2>4. QED
    BY <1>7, <1>11, <2>2, <2>3
<1>12. ASSUME NEW x \in NodeAddr, x = Addr(m, j) \/ x \in A \/ x \in B PROVE x \in NodesUnder(m, j)
  <2>1. x.i \in Nat /\ x.j \in Nat /\ x = Addr(x.i, x.j)
    BY DEF NodeAddr, Addr
  <2>2. CASE x = Addr(m, j)
    BY <1>1, <1>7, <1>10, <2>2
  <2>3. CASE x.i \in f .. l - 1 /\ x.i % 2^x.j = 0 /\ 2^x.j <= (x.i - f) + 1
    <3>1. x.i \in f .. m - 1
      BY <1>0, <2>3
    <3>2. QED
      BY <1>7, <2>3, <3>1
  <2>4. CASE x.i = l /\ x.j <= g /\ HasNode(l, x.j)
    <3>1. l % 2^x.j = 0
      <4>1. x.j \in 0 .. g /\ l % 2^g = 0
        BY <1>1, <1>4, <1>5, <2>1, <2>4
      <4>2. QED
        BY <1>5, <4>1, LowerPowerDivides
    <3>2. 2^x.j <= 2^g
      BY <1>5, <2>1, <2>4, PowerOrder
    <3>3. 2^x.j <= (x.i - f) + 1
      <4>1. 2^x.j <= p /\ 2^x.j \in Nat
        BY <1>4, <2>1, <3>2, PowerCounts
      <4>2. (x.i - f) + 1 = p
        <5>1. l = (f + p) - 1 /\ f \in Nat /\ p \in Nat /\ l \in Nat
          BY <1>1, <1>5, <1>6
        <5>2. (l - f) + 1 = p
          BY <5>1
        <5>3. QED
          BY <2>4, <5>2
      <4>3. QED
        BY <4>1, <4>2
    <3>4. x.i \in f .. m - 1 /\ x.i % 2^x.j = 0
      BY <1>1, <1>5, <2>4, <3>1
    <3>5. QED
      BY <1>7, <3>3, <3>4
  <2>5. CASE x.i \in l + 1 .. m - 1 /\ x.i % 2^x.j = 0 /\ 2^x.j <= (x.i - (l + 1)) + 1
    <3>1. x.i \in f .. m - 1 /\ x.i - (l + 1) <= x.i - f
      BY <1>0, <2>5
    <3>2. 2^x.j <= (x.i - f) + 1
      <4>1. x.i \in Nat /\ l \in Nat /\ f \in Nat /\ 2^x.j \in Nat
        BY <1>5, <2>1, PowerCounts
      <4>2. 2^x.j <= (x.i - (l + 1)) + 1
        BY <2>5
      <4>3. QED
        BY <3>1, <4>1, <4>2
    <3>3. QED
      BY <1>7, <2>5, <3>1, <3>2
  <2>6. CASE x.i = m /\ x.j <= r /\ HasNode(m, x.j)
    <3>1. x.j <= j
      BY <1>1, <1>5, <2>1, <2>6
    <3>2. QED
      BY <1>7, <2>6, <3>1
  <2>7. QED
    BY <1>8, <1>9, <1>12, <2>2, <2>3, <2>4, <2>5, <2>6
<1>13. NodesUnder(m, j) = {Addr(m, j)} \cup A \cup B
  BY <1>7, <1>8, <1>9, <1>10, <1>11, <1>12
<1>14. \A x \in A : x.i <= l
  BY <1>5, <1>8
<1>15. \A x \in B : l < x.i /\ (x.i = m => x.j < j)
  <2> SUFFICES ASSUME NEW x \in B PROVE l < x.i /\ (x.i = m => x.j < j)
    OBVIOUS
  <2>1. x \in NodeAddr /\ x.i \in Nat /\ x.j \in Nat
    BY <1>9 DEF NodeAddr
  <2>2. x.i \in l + 1 .. m - 1 \/ (x.i = m /\ x.j <= r)
    BY <1>9, <2>1
  <2>3. r < j /\ l < m
    BY <1>1, <1>2, <1>5
  <2>4. QED
    BY <1>2, <1>5, <2>1, <2>2, <2>3
<1>16. Addr(m, j) \notin A /\ Addr(m, j) \notin B
  BY <1>1, <1>2, <1>5, <1>10, <1>14, <1>15
<1>17. A \cap B = {}
  <2> SUFFICES ASSUME NEW x \in A, x \in B PROVE FALSE
    OBVIOUS
  <2>1. x.i \in Nat /\ x.i <= l /\ l < x.i
    BY <1>8, <1>14, <1>15 DEF NodeAddr
  <2>2. QED
    BY <1>5, <2>1
<1>18. w.node = Addr(m, j) /\ A = NodesUnder(w.left.i, w.left.j) /\ B = NodesUnder(w.right.i, w.right.j)
  BY <1>1, <1>3 DEF A, B, r
<1> HIDE DEF A, B
<1>19. QED
  BY <1>13, <1>16, <1>17, <1>18 DEF w, j

\* A subtree without branches is its leaf.
LEMMA UnderLeaf ==
    ASSUME NEW m \in Index \ {0}
    PROVE  NodesUnder(m, 0) = {Addr(m, 0)}
<1>1. m \in Nat \ {0} /\ range_start(m, 0) = m
  BY IndexIsNat, RangeOfLeaf
<1>2. Addr(m, 0) \in NodeAddr /\ Addr(m, 0).i = m /\ Addr(m, 0).j = 0
  BY <1>1 DEF NodeAddr, Addr
<1>3. \A x \in NodeAddr : x \in NodesUnder(m, 0) <=> x.i = m /\ x.j = 0
  <2> SUFFICES ASSUME NEW x \in NodeAddr
               PROVE  x \in NodesUnder(m, 0) <=> x.i = m /\ x.j = 0
    OBVIOUS
  <2>1. x \in NodesUnder(m, 0) <=>
                   \/ /\ x.i \in m .. m - 1
                      /\ x.i % 2^x.j = 0 /\ 2^x.j <= (x.i - m) + 1
                   \/ x.i = m /\ x.j <= 0 /\ HasNode(m, x.j)
    BY <1>1, IsUnder
  <2>2. x.i \notin m .. m - 1 /\ x.j \in Nat
    BY <1>1 DEF NodeAddr
  <2>3. QED
    BY <2>1, <2>2 DEF HasNode
<1>4. \A x \in NodeAddr : x.i = m /\ x.j = 0 <=> x = Addr(m, 0)
  BY <1>2 DEF NodeAddr, Addr
<1>5. NodesUnder(m, 0) \subseteq NodeAddr
  BY <1>1, IsUnder
<1>6. QED
  BY <1>2, <1>3, <1>4, <1>5

\* A subtree over c leaves has 2 * c - 1 nodes.
LEMMA UnderCounts ==
    ASSUME NEW m \in Index \ {0}, NEW j \in Nat, HasNode(m, j)
    PROVE  /\ IsFiniteSet(NodesUnder(m, j)) /\ range_start(m, j) \in 1 .. m
           /\ Cardinality(NodesUnder(m, j)) = 2 * ((m - range_start(m, j)) + 1) - 1
<1> DEFINE Counts(a, b) ==
             /\ IsFiniteSet(NodesUnder(a, b)) /\ range_start(a, b) \in 1 .. a
             /\ Cardinality(NodesUnder(a, b)) = 2 * ((a - range_start(a, b)) + 1) - 1
           T == {h \in Nat : \A b \in 0 .. h : \A a \in Index \ {0} : HasNode(a, b) => Counts(a, b)}
<1>1. ASSUME NEW a \in Index \ {0} PROVE Counts(a, 0)
  <2>1. a \in Nat \ {0} /\ range_start(a, 0) = a /\ NodesUnder(a, 0) = {Addr(a, 0)}
    BY IndexIsNat, RangeOfLeaf, UnderLeaf
  <2>2. IsFiniteSet({Addr(a, 0)}) /\ Cardinality({Addr(a, 0)}) = 1
    BY FS_Singleton
  <2>3. 2 * ((a - range_start(a, 0)) + 1) - 1 = 1 /\ range_start(a, 0) \in 1 .. a
    BY <2>1
  <2>4. IsFiniteSet(NodesUnder(a, 0)) /\ Cardinality(NodesUnder(a, 0)) = 1
    BY <2>1, <2>2
  <2>5. QED
    BY <2>3, <2>4
<1>2. 0 \in T
  BY <1>1
<1>3. ASSUME NEW h \in Nat, h \in T PROVE h + 1 \in T
  <2> SUFFICES ASSUME NEW a \in Index \ {0}, HasNode(a, h + 1) PROVE Counts(a, h + 1)
    BY <1>3
  <2>1. h + 1 # 0
    OBVIOUS
  <2>2. PICK k \in 1 .. Len(inodes(a)) : inodes(a)[k].node.j = h + 1
    BY <2>1 DEF HasNode
  <2> DEFINE w == inodes(a)[k]
             l == w.left.i
             r == w.right.j
             f == range_start(a, h + 1)
             A == NodesUnder(l, h)
             B == NodesUnder(a, r)
  <2>3. /\ w.node = Addr(a, h + 1) /\ w.left = Addr(l, h) /\ w.right = Addr(a, r)
        /\ r \in 0 .. h /\ l \in 1 .. a - 1 /\ l \in Index \ {0}
        /\ f \in 1 .. l /\ range_start(l, h) = f /\ range_start(a, r) = l + 1
        /\ l % 2^h = 0 /\ HasNode(a, r)
    <3> DEFINE q == w.node.j
    <3>1. /\ w.node = Addr(a, q) /\ w.left = Addr(l, q - 1) /\ w.right = Addr(a, r)
          /\ r \in 0 .. q - 1 /\ l \in 1 .. a - 1 /\ l \in Index \ {0}
          /\ range_start(a, q) \in 1 .. l /\ range_start(l, q - 1) = range_start(a, q)
          /\ range_start(a, r) = l + 1 /\ l % 2^(q - 1) = 0 /\ HasNode(a, r)
      BY InodeStands
    <3>2. q = h + 1 /\ q - 1 = h
      BY <2>2
    <3> HIDE DEF q, w
    <3>3. QED
      BY <3>1, <3>2
  <2>4. NodesUnder(a, h + 1) = {w.node} \cup A \cup B /\ w.node \notin A \cup B /\ A \cap B = {}
    <3>1. w.left.i = l /\ w.left.j = h /\ w.right.i = a
      BY <2>3 DEF Addr
    <3>2. QED
      BY <2>2, <3>1, UnderInode
  <2> HIDE DEF w, l, r, f
  <2>5. HasNode(l, h)
    BY <2>3, EntryHeights
  <2>6. Counts(l, h) /\ Counts(a, r)
    <3>1. h \in 0 .. h /\ r \in 0 .. h
      BY <2>3
    <3>2. QED
      BY <1>3, <2>3, <2>5, <3>1
  <2>7. a \in Nat /\ l \in Nat /\ f \in Nat
    BY <2>3, IndexIsNat
  <2> HIDE DEF A, B
  <2>8. /\ IsFiniteSet(A) /\ Cardinality(A) = 2 * ((l - f) + 1) - 1
        /\ IsFiniteSet(B) /\ Cardinality(B) = 2 * ((a - (l + 1)) + 1) - 1
    BY <2>3, <2>6 DEF A, B
  <2>9. IsFiniteSet(A \cup B) /\ Cardinality(A \cup B) = Cardinality(A) + Cardinality(B) - 0
    BY <2>4, <2>8, FS_Union, FS_EmptySet
  <2>10. /\ IsFiniteSet((A \cup B) \cup {w.node})
         /\ Cardinality((A \cup B) \cup {w.node}) = Cardinality(A \cup B) + 1
    BY <2>4, <2>9, FS_AddElement
  <2>11. NodesUnder(a, h + 1) = (A \cup B) \cup {w.node}
    BY <2>4
  <2>12. Cardinality(NodesUnder(a, h + 1)) = 2 * ((a - f) + 1) - 1
    <3> DEFINE N == Cardinality(NodesUnder(a, h + 1))
               M == Cardinality(A \cup B)
    <3>1. N = M + 1
      BY <2>10, <2>11
    <3>2. M = (2 * ((l - f) + 1) - 1) + (2 * ((a - (l + 1)) + 1) - 1)
      BY <2>7, <2>8, <2>9
    <3> HIDE DEF N, M
    <3>3. N = 2 * ((a - f) + 1) - 1
      BY <2>7, <3>1, <3>2
    <3>4. QED
      BY <3>3 DEF N
  <2>13. f \in 1 .. a
    BY <2>3, <2>7
  <2>14. QED
    BY <2>10, <2>11, <2>12, <2>13 DEF f
<1>4. T = Nat
  <2> T \in SUBSET Nat
    OBVIOUS
  <2> HIDE DEF T
  <2>1. QED
    BY <1>2, <1>3, Induct
<1>5. j \in T /\ j \in 0 .. j
  BY <1>4
<1> HIDE DEF Counts
<1>6. Counts(m, j)
  BY <1>5
<1>7. QED
  BY <1>6 DEF Counts

-----------------------------------------------------------------------------
(* The tree that is read off the written inodes.                           *)

\* The recursion of Subtree, from a node down.
below_step(f, x) ==
    IF x.j = 0 THEN {x}
    ELSE UNION {{w.node} \cup f[w.left] \cup f[w.right] : w \in InodesAt(x.i, x.j)}
below_of(i, j) == CHOOSE f : f = [x \in [i : 1 .. i, j : 0 .. j] |-> below_step(f, x)]

LEMMA SubtreeUnfold ==
    ASSUME NEW i, NEW j
    PROVE  Subtree(i, j) = below_of(i, j)[Addr(i, j)]
BY DEF Subtree, below_of, below_step

\* The inode that an entry has at a height, if any.
LEMMA InodesHere ==
    ASSUME Written, NEW m \in 1 .. n, NEW j
    PROVE  /\ m \in Index \ {0}
           /\ \A w \in InodesAt(m, j) :
                \E k \in 1 .. Len(inodes(m)) : w = inodes(m)[k] /\ inodes(m)[k].node.j = j
           /\ \A k \in 1 .. Len(inodes(m)) : inodes(m)[k].node.j = j => InodesAt(m, j) = {inodes(m)[k]}
<1>1. n \in 0 .. MaxN /\ entries[m] = inodes(m)
  BY DEF Written
<1>2. m \in Index \ {0}
  BY <1>1, GenerationAssumption, IndexIsNat
<1> DEFINE s == inodes(m)
<1>3. /\ s \in Seq(INodes) /\ DOMAIN s = 1 .. Len(s)
      /\ \A a, b \in 1 .. Len(s) : s[a].node.j = s[b].node.j => a = b
  BY <1>2, InodeHeights
<1> HIDE DEF s
<1>4. ToSet(s) = {s[k] : k \in 1 .. Len(s)}
  BY <1>3 DEF ToSet
<1>5. InodesAt(m, j) = {w \in ToSet(s) : w.node.j = j}
  BY <1>1 DEF InodesAt, s
<1>6. \A w \in InodesAt(m, j) : \E k \in 1 .. Len(s) : w = s[k] /\ s[k].node.j = j
  BY <1>4, <1>5
<1>7. ASSUME NEW k \in 1 .. Len(s), s[k].node.j = j PROVE InodesAt(m, j) = {s[k]}
  <2>1. s[k] \in InodesAt(m, j)
    BY <1>4, <1>5, <1>7
  <2>2. \A w \in InodesAt(m, j) : w = s[k]
    BY <1>3, <1>6, <1>7
  <2>3. QED
    BY <2>1, <2>2
<1>8. QED
  BY <1>2, <1>6, <1>7 DEF s

LEMMA ChildrenBelow ==
    ASSUME NEW i \in Nat \ {0}, NEW j \in Nat, NEW m \in Index \ {0}, m <= i,
           NEW k \in 1 .. Len(inodes(m)), inodes(m)[k].node.j <= j
    PROVE  LET w == inodes(m)[k]
           IN  /\ w.node = Addr(m, w.node.j) /\ w.node.j \in Nat \ {0}
               /\ w.left \in [i : 1 .. i, j : 0 .. j] /\ w.right \in [i : 1 .. i, j : 0 .. j]
               /\ w.left.i \in Index \ {0} /\ w.left.i <= m /\ w.right.i = m
               /\ w.left.j \in 0 .. w.node.j - 1 /\ w.right.j \in 0 .. w.node.j - 1
               /\ HasNode(w.left.i, w.left.j) /\ HasNode(m, w.right.j)
<1> DEFINE w == inodes(m)[k]
           l == w.left.i
           h == w.node.j
           r == w.right.j
<1>1. /\ w.node = Addr(m, h) /\ w.left = Addr(l, h - 1) /\ w.right = Addr(m, r)
      /\ h \in Nat \ {0} /\ r \in 0 .. h - 1 /\ l \in 1 .. m - 1 /\ l \in Index \ {0}
      /\ l % 2^(h - 1) = 0 /\ HasNode(m, r)
  BY InodeStands
<1>2. m \in Nat /\ h <= j
  BY IndexIsNat
<1>3. w.left.j = h - 1 /\ w.right.i = m
  BY <1>1 DEF Addr
<1> HIDE DEF w, l, h, r
<1>4. h - 1 \in Nat /\ h - 1 \in 0 .. j /\ r \in 0 .. j /\ l \in 1 .. i /\ m \in 1 .. i /\ l <= m
  BY <1>1, <1>2
<1>5. HasNode(l, h - 1)
  BY <1>1, <1>4, EntryHeights
<1>6. Addr(l, h - 1) \in [i : 1 .. i, j : 0 .. j] /\ Addr(m, r) \in [i : 1 .. i, j : 0 .. j]
  BY <1>4 DEF Addr
<1>7. h - 1 \in 0 .. h - 1
  BY <1>4
<1>8. QED
  BY <1>1, <1>3, <1>4, <1>5, <1>6, <1>7 DEF w, l, h, r

\* A function that gives every node of an entry the nodes of its subtree, and
\* every other address nothing, solves the recursion.
LEMMA BelowStep ==
    ASSUME Written, NEW f, NEW m \in 1 .. n, NEW j \in Nat, HasNode(m, j),
           NEW i \in Nat, m <= i,
           \A y \in [i : 1 .. i, j : 0 .. j] :
               y.j < j /\ y.i \in 1 .. m /\ HasNode(y.i, y.j) => f[y] = NodesUnder(y.i, y.j)
    PROVE  below_step(f, Addr(m, j)) = NodesUnder(m, j)
<1>0. m \in Index \ {0} /\ m \in Nat \ {0} /\ i \in Nat \ {0}
  BY InodesHere, IndexIsNat
<1>1. Addr(m, j).i = m /\ Addr(m, j).j = j
  BY DEF Addr
<1>2. CASE j = 0
  BY <1>0, <1>1, <1>2, UnderLeaf DEF below_step
<1>3. CASE j # 0
  <2>1. PICK k \in 1 .. Len(inodes(m)) : inodes(m)[k].node.j = j
    BY <1>3 DEF HasNode
  <2> DEFINE w == inodes(m)[k]
  <2>2. InodesAt(m, j) = {w}
    BY <2>1, InodesHere
  <2>3. /\ w.left \in [i : 1 .. i, j : 0 .. j] /\ w.right \in [i : 1 .. i, j : 0 .. j]
        /\ w.left.i \in Index \ {0} /\ w.left.i <= m /\ w.right.i = m
        /\ w.left.j \in 0 .. j - 1 /\ w.right.j \in 0 .. j - 1
        /\ HasNode(w.left.i, w.left.j) /\ HasNode(m, w.right.j)
    BY <1>0, <2>1, ChildrenBelow, SMTT(30)
  <2>4. NodesUnder(m, j) = {w.node} \cup NodesUnder(w.left.i, w.left.j)
                                    \cup NodesUnder(w.right.i, w.right.j)
    BY <1>0, <2>1, UnderInode
  <2> HIDE DEF w
  <2>5. f[w.left] = NodesUnder(w.left.i, w.left.j)
    <3>1. w.left.i \in 1 .. m /\ w.left.j < j
      BY <1>0, <2>3, IndexIsNat
    <3>2. QED
      BY <2>3, <3>1
  <2>6. f[w.right] = NodesUnder(w.right.i, w.right.j)
    BY <1>0, <2>3
  <2>7. below_step(f, Addr(m, j)) = {w.node} \cup f[w.left] \cup f[w.right]
    BY <1>1, <1>3, <2>2 DEF below_step
  <2>8. QED
    BY <2>4, <2>5, <2>6, <2>7
<1>4. QED
  BY <1>2, <1>3

\* The nodes that are read off the written inodes below a node are those of its
\* subtree.
LEMMA SubtreeIs ==
    ASSUME Written, NEW i \in 1 .. n, NEW j \in Nat, HasNode(i, j)
    PROVE  Subtree(i, j) = NodesUnder(i, j)
<1> DEFINE D == [i : 1 .. i, j : 0 .. j]
           g == [x \in D |-> IF HasNode(x.i, x.j) THEN NodesUnder(x.i, x.j) ELSE {}]
           f == below_of(i, j)
<1>0. n \in Nat /\ i \in Nat \ {0} /\ \A x \in D : x.i \in 1 .. n /\ x.i <= i /\ x.j \in Nat /\ x = Addr(x.i, x.j)
  <2>1. n \in Nat
    BY GenerationAssumption, IndexIsNat DEF Written
  <2>2. QED
    BY <2>1 DEF Addr
<1>1. g = [x \in D |-> below_step(g, x)]
  <2> SUFFICES ASSUME NEW x \in D PROVE g[x] = below_step(g, x)
    OBVIOUS
  <2>1. x.i \in 1 .. n /\ x.i <= i /\ x.j \in Nat /\ x = Addr(x.i, x.j)
    BY <1>0
  <2>2. CASE HasNode(x.i, x.j)
    <3>1. \A y \in D : HasNode(y.i, y.j) => g[y] = NodesUnder(y.i, y.j)
      OBVIOUS
    <3>2. g[x] = NodesUnder(x.i, x.j)
      BY <2>2
    <3> HIDE DEF g
    <3>3. \A y \in [i : 1 .. i, j : 0 .. x.j] :
               y.j < x.j /\ y.i \in 1 .. x.i /\ HasNode(y.i, y.j) => g[y] = NodesUnder(y.i, y.j)
      BY <3>1
    <3>4. below_step(g, Addr(x.i, x.j)) = NodesUnder(x.i, x.j)
      BY <1>0, <2>1, <2>2, <3>3, BelowStep
    <3>5. QED
      BY <2>1, <3>2, <3>4
  <2>3. CASE ~HasNode(x.i, x.j)
    <3>1. x.j # 0
      BY <2>3 DEF HasNode
    <3>2. InodesAt(x.i, x.j) = {}
      BY <2>1, <2>3, InodesHere DEF HasNode
    <3>3. g[x] = {}
      BY <2>3
    <3> HIDE DEF g
    <3>4. below_step(g, x) = {}
      BY <3>1, <3>2 DEF below_step
    <3>5. QED
      BY <3>3, <3>4
  <2>4. QED
    BY <2>2, <2>3
<1>2. f = [x \in D |-> below_step(f, x)]
  <2> HIDE DEF g
  <2>1. QED
    BY <1>1 DEF below_of
<1> HIDE DEF f, g
<1> DEFINE T == {h \in Nat : \A x \in D : x.j <= h /\ HasNode(x.i, x.j) => f[x] = NodesUnder(x.i, x.j)}
<1>3. ASSUME NEW x \in D, HasNode(x.i, x.j),
             \A y \in D : y.j < x.j /\ HasNode(y.i, y.j) => f[y] = NodesUnder(y.i, y.j)
      PROVE  f[x] = NodesUnder(x.i, x.j)
  <2>1. x.i \in 1 .. n /\ x.i <= i /\ x.j \in 0 .. j /\ x.j \in Nat /\ x = Addr(x.i, x.j)
    BY <1>0
  <2>2. [i : 1 .. i, j : 0 .. x.j] \subseteq D
    BY <2>1
  <2>3. \A y \in [i : 1 .. i, j : 0 .. x.j] :
             y.j < x.j /\ y.i \in 1 .. x.i /\ HasNode(y.i, y.j) => f[y] = NodesUnder(y.i, y.j)
    BY <1>3, <2>2
  <2>4. below_step(f, Addr(x.i, x.j)) = NodesUnder(x.i, x.j)
    BY <1>0, <1>3, <2>1, <2>3, BelowStep
  <2>5. f[x] = below_step(f, x)
    BY <1>2
  <2>6. QED
    BY <2>1, <2>4, <2>5
<1>4. 0 \in T
  BY <1>3
<1>5. ASSUME NEW h \in Nat, h \in T PROVE h + 1 \in T
  <2> SUFFICES ASSUME NEW x \in D, x.j <= h + 1, HasNode(x.i, x.j)
               PROVE  f[x] = NodesUnder(x.i, x.j)
    OBVIOUS
  <2>1. \A y \in D : y.j < x.j => y.j <= h
    BY <1>0
  <2>2. QED
    BY <1>3, <1>5, <2>1
<1>6. T = Nat
  <2> T \in SUBSET Nat
    OBVIOUS
  <2> HIDE DEF T
  <2>1. QED
    BY <1>4, <1>5, Induct
<1>7. Addr(i, j) \in D /\ Addr(i, j).i = i /\ Addr(i, j).j = j
  BY <1>0 DEF Addr
<1>8. f[Addr(i, j)] = NodesUnder(i, j)
  <2>1. j \in T
    BY <1>6
  <2> HIDE DEF D
  <2>2. \A x \in D : x.j <= j /\ HasNode(x.i, x.j) => f[x] = NodesUnder(x.i, x.j)
    BY <2>1
  <2>3. QED
    BY <1>7, <2>2
<1>9. QED
  BY <1>8, SubtreeUnfold DEF f

\* The root of the tree is the highest node of the last entry, with every leaf
\* below it.
LEMMA TopIs ==
    ASSUME Written, n > 0
    PROVE  /\ n \in Index \ {0} /\ n \in 1 .. n
           /\ Top = root_of(n) /\ Top = root(n) /\ Top = Addr(n, Top.j) /\ Top.j \in Nat
           /\ HasNode(n, Top.j) /\ range_start(n, Top.j) = 1
           /\ \A q \in Nat : HasNode(n, q) => q <= Top.j
<1> DEFINE s == inodes(n)
           d == ephemeral_nodes(n) \o pbst_spine(n)
<1>1. n \in Index \ {0} /\ n \in 1 .. n /\ entries[n] = s /\ n \in Nat
  <2>1. n \in 0 .. MaxN /\ MaxN \in Nat
    BY GenerationAssumption, IndexIsNat DEF Written
  <2>2. n \in 1 .. n /\ n \in 0 .. MaxN
    BY <2>1
  <2>3. QED
    BY <2>1, <2>2, GenerationAssumption, IndexIsNat DEF Written
<1>2. /\ s \in Seq(INodes) /\ Len(s) \in Nat /\ DOMAIN s = 1 .. Len(s)
      /\ \A k \in 1 .. Len(s) : s[k].node = Addr(n, s[k].node.j) /\ s[k].node.j \in Nat \ {0}
      /\ \A k, m \in 1 .. Len(s) : k < m => s[k].node.j < s[m].node.j
  BY <1>1, InodeHeights
<1>3. /\ root_of(n) = IF Len(s) = 0 THEN Addr(n, 0) ELSE s[Len(s)].node
      /\ \A k \in 1 .. Len(s) : range_start(n, s[k].node.j) = first_leaf(s, k)
  BY <1>1, FormulasFitInodes
<1>4. IF Len(s) = 0 THEN n = 1 ELSE first_leaf(s, Len(s)) = 1
  BY <1>1, InodesTile
<1>5. Top = IF Len(s) = 0 THEN Addr(n, 0) ELSE s[Len(s)].node
  <2> HIDE DEF s
  <2>1. s = <<>> <=> Len(s) = 0
    BY <1>2, EmptySeq
  <2>2. QED
    BY <1>1, <2>1 DEF Top, Last
<1>6. root(n) = IF Len(s) = 0 THEN Addr(n, 0) ELSE s[Len(s)].node
  <2> DEFINE e == ephemeral_nodes(n)
             b == pbst_spine(n)
             p == pbst_roots(n)
             h == p[Len(p)].j
  <2>1. /\ h \in Nat /\ p[Len(p)] = Addr(n, h) /\ Len(b) = h
        /\ h > 0 => b[1].node = Addr(n, h)
    BY <1>1, SpineShape
  <2>2. Len(e) = Len(p) - 1 /\ Descends(n, e)
    BY <1>1, EphemeralShape
  <2>3. /\ Len(d) = Len(e) + Len(b) /\ Descends(n, d)
        /\ \A k \in 1 .. Len(d) : d[k] = IF k <= Len(e) THEN e[k] ELSE b[k - Len(e)]
    BY <1>1, DownwardsShape
  <2>4. d \in Seq(INodes) /\ e \in Seq(INodes)
    BY <2>2, <2>3 DEF Descends
  <2>5. s = Reverse(d)
    BY DEF inodes
  <2>6. Len(d) \in Nat /\ Len(e) \in Nat /\ (e = <<>> <=> Len(e) = 0)
    BY <2>4, EmptySeq
  <2> HIDE DEF d, e, s
  <2>7. Len(s) = Len(d) /\ \A k \in 1 .. Len(d) : s[k] = d[(Len(d) - k) + 1]
    BY <2>4, <2>5, <2>6 DEF Reverse
  <2>8. CASE Len(d) = 0
    BY <2>1, <2>2, <2>3, <2>6, <2>7, <2>8 DEF root, e
  <2>9. CASE Len(d) # 0
    <3>1. Len(d) \in 1 .. Len(d) /\ (Len(d) - Len(d)) + 1 = 1 /\ 1 \in 1 .. Len(d)
      BY <2>6, <2>9
    <3>2. s[Len(s)] = d[1]
      BY <2>7, <3>1
    <3>3. CASE Len(e) # 0
      <4>1. d[1] = e[1] /\ root(n) = e[1].node
        BY <2>3, <2>6, <3>1, <3>3 DEF root, e
      <4>2. QED
        BY <2>7, <2>9, <3>2, <4>1
    <3>4. CASE Len(e) = 0
      <4>1. d[1] = b[1] /\ root(n) = p[1] /\ Len(p) = 1 /\ h > 0
        <5>1. d[1] = b[1 - Len(e)] /\ root(n) = p[1]
          BY <2>3, <2>6, <3>1, <3>4 DEF root, e
        <5>2. Len(p) = 1
          <6>1. Len(p) \in Nat
            BY <1>1, RootsTile, LenProperties
          <6>2. QED
            BY <2>2, <3>4, <6>1
        <5>3. h > 0
          BY <2>1, <2>3, <2>9, <3>4
        <5>4. QED
          BY <3>4, <5>1, <5>2, <5>3
      <4>2. QED
        BY <2>1, <2>7, <2>9, <3>2, <4>1
    <3>5. QED
      BY <3>3, <3>4
  <2>10. QED
    BY <2>8, <2>9
<1>7. CASE Len(s) = 0
  <2>1. n = 1 /\ Top = Addr(n, 0) /\ Top.j = 0
    BY <1>4, <1>5, <1>7 DEF Addr
  <2>2. range_start(n, 0) = 1 /\ HasNode(n, 0)
    BY <1>1, <2>1, RangeOfLeaf DEF HasNode
  <2>3. \A q \in Nat : HasNode(n, q) => q <= 0
    BY <1>2, <1>7 DEF HasNode
  <2>4. QED
    BY <1>1, <1>3, <1>5, <1>6, <1>7, <2>1, <2>2, <2>3
<1>8. CASE Len(s) # 0
  <2>1. Len(s) \in 1 .. Len(s)
    BY <1>2, <1>8
  <2>2. Top = s[Len(s)].node
    BY <1>5, <1>8
  <2>3. HasNode(n, Top.j) /\ Top.j \in Nat \ {0} /\ Top = Addr(n, Top.j)
    BY <1>2, <2>1, <2>2 DEF HasNode
  <2>4. range_start(n, Top.j) = 1
    BY <1>3, <1>4, <1>8, <2>1, <2>2
  <2>5. ASSUME NEW q \in Nat, HasNode(n, q) PROVE q <= Top.j
    <3> HIDE DEF s
    <3>1. CASE q = 0
      BY <2>3, <3>1
    <3>2. ASSUME NEW k \in 1 .. Len(s), s[k].node.j = q PROVE q <= Top.j
      <4>1. Len(s) \in Nat
        BY <1>2
      <4>2. k = Len(s) \/ k < Len(s)
        BY <4>1
      <4>3. CASE k < Len(s)
        <5>1. s[k].node.j < s[Len(s)].node.j
          BY <1>2, <2>1, <4>3
        <5>2. QED
          BY <2>2, <2>3, <3>2, <5>1
      <4>4. CASE k = Len(s)
        BY <2>2, <2>3, <3>2, <4>4
      <4>5. QED
        BY <4>2, <4>3, <4>4
    <3>3. QED
      BY <2>5, <3>1, <3>2 DEF HasNode, s
  <2>6. QED
    BY <1>1, <1>3, <1>5, <1>6, <1>8, <2>3, <2>4, <2>5
<1>9. QED
  BY <1>7, <1>8

\* The nodes of the tree of generation n: the roots of the perfect subtrees that
\* end before n, and the nodes of entry n.
LEMMA TreeIs ==
    ASSUME Written, n > 0
    PROVE  /\ Tree = NodesUnder(n, Top.j) /\ Tree \subseteq NodeAddr
           /\ \A x \in NodeAddr :
                 x \in Tree <=>
                    \/ x.i \in 1 .. n - 1 /\ x.i % 2^x.j = 0
                    \/ x.i = n /\ HasNode(n, x.j)
           /\ \A x \in Tree : x = Addr(x.i, x.j) /\ x.i \in 1 .. n /\ x.j \in Nat /\ HasNode(x.i, x.j)
<1>1. /\ n \in Index \ {0} /\ n \in 1 .. n /\ Top = Addr(n, Top.j) /\ Top.j \in Nat
      /\ HasNode(n, Top.j) /\ range_start(n, Top.j) = 1
      /\ \A q \in Nat : HasNode(n, q) => q <= Top.j
  BY TopIs
<1>2. n \in Nat \ {0} /\ \A m \in 1 .. n : m \in Index \ {0}
  <2>1. n \in Nat \ {0}
    BY <1>1, IndexIsNat
  <2>2. QED
    BY <1>1, <2>1, IndexIsNat
<1>3. Top.i = n
  BY <1>1 DEF Addr
<1>4. Tree = NodesUnder(n, Top.j)
  BY <1>1, <1>2, <1>3, SubtreeIs DEF Tree
<1> DEFINE t == Top.j
<1> HIDE DEF t
<1>5. /\ NodesUnder(n, t) \subseteq NodeAddr
      /\ \A x \in NodeAddr :
            x \in NodesUnder(n, t) <=>
                \/ x.i \in 1 .. n - 1 /\ x.i % 2^x.j = 0 /\ 2^x.j <= (x.i - 1) + 1
                \/ x.i = n /\ x.j <= t /\ HasNode(n, x.j)
  BY <1>1, <1>2, IsUnder DEF t
<1>6. ASSUME NEW x \in NodeAddr, x.i \in 1 .. n - 1, x.i % 2^x.j = 0 PROVE 2^x.j <= (x.i - 1) + 1
  <2> DEFINE a == x.i
             p == 2^x.j
  <2>1. x.j \in Nat
    BY DEF NodeAddr
  <2>2. a \in Nat \ {0} /\ p \in Nat \ {0} /\ a % p = 0
    <3>1. a \in Nat \ {0}
      BY <1>2, <1>6
    <3>2. p \in Nat \ {0}
      BY <2>1, PowerCounts
    <3>3. QED
      BY <1>6, <3>1, <3>2
  <2> HIDE DEF a, p
  <2>3. p <= a
    BY <2>2
  <2>4. p <= (a - 1) + 1
    BY <2>2, <2>3
  <2>5. QED
    BY <2>4 DEF a, p
<1>7. \A x \in NodeAddr : x.j \in Nat
  BY DEF NodeAddr
<1>8. \A x \in NodeAddr :
                 x \in NodesUnder(n, t) <=>
                    \/ x.i \in 1 .. n - 1 /\ x.i % 2^x.j = 0
                    \/ x.i = n /\ HasNode(n, x.j)
  BY <1>1, <1>5, <1>6, <1>7 DEF t
<1>9. ASSUME NEW x \in NodesUnder(n, t)
      PROVE  x = Addr(x.i, x.j) /\ x.i \in 1 .. n /\ x.j \in Nat /\ HasNode(x.i, x.j)
  <2>1. x \in NodeAddr /\ x.j \in Nat /\ x = Addr(x.i, x.j)
    BY <1>5 DEF NodeAddr, Addr
  <2>2. CASE x.i \in 1 .. n - 1 /\ x.i % 2^x.j = 0
    <3>1. x.i \in 1 .. n
      BY <1>2, <2>2
    <3>2. HasNode(x.i, x.j)
      BY <1>2, <2>1, <2>2, <3>1, EntryHeights
    <3>3. QED
      BY <2>1, <3>1, <3>2
  <2>3. CASE x.i = n /\ HasNode(n, x.j)
    BY <1>2, <2>1, <2>3
  <2>4. QED
    BY <1>8, <2>1, <2>2, <2>3
<1>10. QED
  BY <1>4, <1>5, <1>8, <1>9 DEF t

-----------------------------------------------------------------------------
(* The closed formulas describe that tree.                                 *)

\* A node is the root of a perfect subtree when its height divides its index.
LEMMA PbstDivides ==
    ASSUME NEW i \in Index \ {0}, NEW j \in Nat
    PROVE  is_pbst(i, j) <=> i % 2^j = 0
<1>1. i \in Nat \ {0} /\ INDEX_SIZE \in Nat /\ i < 2^INDEX_SIZE
  <2>1. INDEX_SIZE \in Nat /\ i \in Nat
    BY IndexIsNat
  <2>2. 2^INDEX_SIZE \in Nat
    BY <2>1, PowerCounts
  <2>3. QED
    BY <2>1, <2>2 DEF Index
<1>2. CASE j < INDEX_SIZE
  BY <1>1, <1>2 DEF is_pbst, i_mod_2e
<1>3. CASE INDEX_SIZE <= j
  <2>1. 2^INDEX_SIZE <= 2^j
    BY <1>1, <1>3, PowerOrder
  <2> DEFINE d == 2^j
  <2>2. d \in Nat \ {0} /\ i < d
    <3>1. 2^j \in Nat \ {0} /\ 2^INDEX_SIZE \in Nat
      BY <1>1, PowerCounts
    <3>2. QED
      BY <1>1, <2>1, <3>1
  <2> HIDE DEF d
  <2>3. i % d = i
    BY <1>1, <2>2
  <2>4. ~is_pbst(i, j)
    BY <1>1, <1>3 DEF is_pbst, i_mod_2e
  <2>5. QED
    BY <1>1, <2>3, <2>4 DEF d
<1>4. QED
  BY <1>1, <1>2, <1>3

\* What a number leaves over 2 * d is more than d when it has the digit d and
\* leaves something over d.
LEMMA HalfLeft ==
    ASSUME NEW m \in Nat, NEW d \in Nat \ {0}
    PROVE  m % (2 * d) > d <=> (m \div d) % 2 = 1 /\ m % d # 0
<1> DEFINE q == m \div d
           r == m % d
           c == q \div 2
           e == q % 2
           D == 2 * d
<1>1. q \in Nat /\ r \in 0 .. d - 1 /\ m = q * d + r
  BY Division
<1> HIDE DEF q, r
<1>2. c \in Nat /\ e \in 0 .. 1 /\ q = c * 2 + e
  BY <1>1
<1> HIDE DEF c, e
<1>3. D \in Nat \ {0}
  OBVIOUS
<1>4. CASE e = 0
  <2>1. q = c * 2
    BY <1>2, <1>4
  <2>2. q * d = c * D
    BY <1>2, <2>1
  <2>3. m = c * D + r /\ r \in 0 .. D - 1
    BY <1>1, <2>2
  <2> HIDE DEF D
  <2>4. m % D = r
    <3>1. c \in Nat
      BY <1>2
    <3>2. QED
      BY <1>3, <2>3, <3>1, Quotient
  <2>5. ~(m % D > d)
    BY <1>1, <2>4
  <2>6. QED
    BY <1>4, <2>5 DEF D, q, e
<1>5. CASE e = 1
  <2>1. q = c * 2 + 1
    BY <1>2, <1>5
  <2>2. q * d = c * D + d
    BY <1>2, <2>1
  <2> DEFINE t == d + r
  <2>3. m = c * D + t /\ t \in 0 .. D - 1
    <3>1. c * D \in Nat
      BY <1>2, <1>3
    <3> HIDE DEF D
    <3>2. m = c * D + t
      BY <1>1, <2>2, <3>1
    <3>3. t \in 0 .. D - 1
      BY <1>1 DEF D
    <3>4. QED
      BY <3>2, <3>3
  <2> HIDE DEF D, t
  <2>4. m % D = t
    <3>1. c \in Nat
      BY <1>2
    <3>2. QED
      BY <1>3, <2>3, <3>1, Quotient
  <2>5. m % D > d <=> r # 0
    BY <1>1, <2>4 DEF t
  <2>6. QED
    BY <1>5, <2>5 DEF D, q, r, e
<1>6. QED
  BY <1>2, <1>4, <1>5

\* root_of and subnodes_of describe the tree that was written, and total_nodes
\* counts its nodes.
LEMMA WrittenSubnodes == Written => SubnodesAreWritten
<1> SUFFICES ASSUME Written, n > 0
             PROVE  /\ Top = root_of(n) /\ Top = root(n)
                    /\ Cardinality(Tree) = total_nodes(n)
                    /\ \A x \in Tree : x.j > 0 =>
                          <<Inode(x.i, x.j).left, Inode(x.i, x.j).right>> = subnodes_of(x.i, x.j)
  BY DEF SubnodesAreWritten
<1>1. /\ n \in Index \ {0} /\ Top = root_of(n) /\ Top = root(n) /\ Top.j \in Nat
      /\ HasNode(n, Top.j) /\ range_start(n, Top.j) = 1
  BY TopIs
<1>2. /\ Tree = NodesUnder(n, Top.j)
      /\ \A x \in Tree : x = Addr(x.i, x.j) /\ x.i \in 1 .. n /\ x.j \in Nat /\ HasNode(x.i, x.j)
  BY TreeIs
<1>3. n \in Nat \ {0}
  BY <1>1, IndexIsNat
<1>4. Cardinality(Tree) = total_nodes(n)
  <2>1. Cardinality(Tree) = 2 * ((n - 1) + 1) - 1
    BY <1>1, <1>2, UnderCounts
  <2>2. 2 * ((n - 1) + 1) - 1 = 2 * n - 1
    BY <1>3
  <2>3. QED
    BY <1>3, <2>1, <2>2 DEF total_nodes
<1>5. ASSUME NEW x \in Tree, x.j > 0
      PROVE  <<Inode(x.i, x.j).left, Inode(x.i, x.j).right>> = subnodes_of(x.i, x.j)
  <2>1. x.i \in 1 .. n /\ x.j \in Nat /\ x.j # 0 /\ HasNode(x.i, x.j)
    BY <1>2, <1>5
  <2>2. PICK k \in 1 .. Len(inodes(x.i)) : inodes(x.i)[k].node.j = x.j
    BY <2>1 DEF HasNode
  <2>3. InodesAt(x.i, x.j) = {inodes(x.i)[k]} /\ x.i \in Index \ {0}
    BY <2>1, <2>2, InodesHere
  <2>4. Inode(x.i, x.j) = inodes(x.i)[k]
    BY <2>3 DEF Inode
  <2>5. left_of(x.i, x.j) = inodes(x.i)[k].left /\ right_of(x.i, x.j) = inodes(x.i)[k].right
    BY <2>2, <2>3, FormulasFitInodes
  <2>6. QED
    BY <2>4, <2>5 DEF subnodes_of
<1>6. QED
  BY <1>1, <1>4, <1>5

\* The leaves of a subtree are its range.
LEMMA LeavesUnder ==
    ASSUME NEW m \in Index \ {0}, NEW j \in Nat, HasNode(m, j)
    PROVE  Leaves(NodesUnder(m, j)) = range(m, j)
<1> DEFINE f == range_start(m, j)
           N == NodesUnder(m, j)
<1>1. m \in Nat \ {0} /\ f \in 1 .. m
  BY IndexIsNat, UnderCounts
<1>2. /\ N \subseteq NodeAddr
      /\ \A x \in NodeAddr :
                x \in N <=>
                   \/ x.i \in f .. m - 1 /\ x.i % 2^x.j = 0 /\ 2^x.j <= (x.i - f) + 1
                   \/ x.i = m /\ x.j <= j /\ HasNode(m, x.j)
  BY <1>1, IsUnder
<1> HIDE DEF N, f
<1>3. ASSUME NEW a \in f .. m PROVE a \in Leaves(N)
  <2>1. a \in Nat /\ Addr(a, 0) \in NodeAddr /\ Addr(a, 0).i = a /\ Addr(a, 0).j = 0
    BY <1>1 DEF NodeAddr, Addr
  <2>2. Addr(a, 0) \in N
    <3>1. CASE a = m
      BY <1>2, <2>1, <3>1 DEF HasNode
    <3>2. CASE a # m
      <4>1. a \in f .. m - 1
        BY <1>1, <3>2
      <4>2. a % 2^0 = 0 /\ 2^0 <= (a - f) + 1
        BY <1>1, <2>1, PowerZero
      <4>3. QED
        BY <1>2, <2>1, <4>1, <4>2
    <3>3. QED
      BY <3>1, <3>2
  <2>3. QED
    BY <2>1, <2>2 DEF Leaves
<1>4. ASSUME NEW a \in Leaves(N) PROVE a \in f .. m
  <2>1. PICK x \in N : x.j = 0 /\ a = x.i
    BY DEF Leaves
  <2>2. x.i \in f .. m - 1 \/ x.i = m
    BY <1>2, <2>1
  <2>3. QED
    BY <1>1, <2>1, <2>2
<1>5. QED
  BY <1>3, <1>4 DEF range, N, f

\* range, leaf_count and contains describe the leaves below every node.
LEMMA WrittenRanges == Written => RangeIsLeaves
<1> SUFFICES ASSUME Written, NEW x \in Tree
             PROVE  LET leaves == Leaves(Subtree(x.i, x.j))
                    IN  /\ leaves = range(x.i, x.j)
                        /\ Cardinality(leaves) = leaf_count(x.i, x.j)
                        /\ \A k \in 0 .. n + 1 : contains(x.i, x.j, k) <=> k \in leaves
  BY DEF RangeIsLeaves
<1>1. n > 0
  <2>1. n # 0 /\ n \in Nat
    BY GenerationAssumption, IndexIsNat DEF Written, Tree
  <2>2. QED
    BY <2>1
<1>2. x.i \in 1 .. n /\ x.j \in Nat /\ HasNode(x.i, x.j)
  BY <1>1, TreeIs
<1>3. x.i \in Index \ {0}
  BY <1>2, InodesHere
<1> DEFINE i == x.i
           j == x.j
           f == range_start(i, j)
<1>4. i \in Nat /\ f \in 1 .. i
  BY <1>2, <1>3, UnderCounts, IndexIsNat
<1>5. Leaves(Subtree(i, j)) = f .. i
  BY <1>2, <1>3, SubtreeIs, LeavesUnder DEF range
<1>6. Cardinality(f .. i) = leaf_count(i, j)
  <2>1. Cardinality(f .. i) = i - f + 1
    BY <1>4, FS_Interval
  <2>2. f = i - i_mod_2e(i - 1, j)
    BY DEF range_start
  <2>3. i_mod_2e(i - 1, j) \in Int
    <3>1. INDEX_SIZE \in Nat /\ 2^j \in Nat \ {0} /\ i - 1 \in Int
      <4>1. 2^j \in Nat \ {0}
        BY <1>2, PowerCounts
      <4>2. INDEX_SIZE \in Nat
        BY IndexIsNat
      <4> HIDE DEF i
      <4>3. QED
        BY <1>4, <4>1, <4>2
    <3> DEFINE d == 2^j
               a == i - 1
    <3> HIDE DEF d, a
    <3>2. a % d \in Int /\ a \in Int
      BY <3>1 DEF d, a
    <3>3. i_mod_2e(a, j) \in {a, a % d}
      BY DEF i_mod_2e, d
    <3>4. QED
      BY <3>2, <3>3 DEF a
  <2> HIDE DEF i, j, f
  <2>4. i - f + 1 = i_mod_2e(i - 1, j) + 1
    BY <1>4, <2>2, <2>3
  <2>5. QED
    BY <2>1, <2>4 DEF leaf_count
<1>7. \A k \in 0 .. n + 1 : contains(i, j, k) <=> k \in f .. i
  <2> SUFFICES ASSUME NEW k \in 0 .. n + 1 PROVE contains(i, j, k) <=> k \in f .. i
    OBVIOUS
  <2>1. contains(i, j, k) <=> f <= k /\ k <= i
    BY DEF contains
  <2> HIDE DEF f, i
  <2>2. QED
    BY <1>4, <2>1
<1>8. QED
  BY <1>5, <1>6, <1>7 DEF range

\* is_valid accepts the leaf of an entry and the inodes that it has written.
LEMMA WrittenValid == Written => ValidIsWritten
<1> SUFFICES ASSUME Written, NEW i \in {0, n}, NEW j \in Height
             PROVE  is_valid(i, j) <=>
                       i > 0 /\ (j = 0 \/ \E k \in 1 .. Len(entries[i]) : entries[i][k].node.j = j)
  BY DEF ValidIsWritten
<1>0. n \in Nat /\ INDEX_SIZE \in Nat /\ j \in Nat
  BY GenerationAssumption, IndexIsNat DEF Written, Height
<1>1. CASE i = 0
  BY <1>1 DEF is_valid
<1>2. CASE i # 0
  <2>1. i = n /\ n > 0
    BY <1>0, <1>2
  <2>2. /\ n \in Index \ {0} /\ n \in 1 .. n /\ Top = root_of(n) /\ Top.j \in Nat
        /\ HasNode(n, Top.j) /\ \A q \in Nat : HasNode(n, q) => q <= Top.j
    BY <2>1, TopIs
  <2>3. entries[n] = inodes(n)
    BY <2>2 DEF Written
  <2>4. Top.j = ceil_log2(n)
    BY <2>2 DEF root_of, Addr
  <2> DEFINE c == ceil_log2(n)
  <2>5. c \in Nat /\ HasNode(n, c) /\ \A q \in Nat : HasNode(n, q) => q <= c
    BY <2>2, <2>4
  <2>6. is_pbst(n, j) <=> n % 2^j = 0
    BY <1>0, <2>2, PbstDivides
  <2>7. j > 0 => (n % 2^j > 2^(j - 1) <=> one_at(n, j - 1) /\ n % 2^(j - 1) # 0)
    <3> SUFFICES ASSUME j > 0
                 PROVE  n % 2^j > 2^(j - 1) <=> one_at(n, j - 1) /\ n % 2^(j - 1) # 0
      OBVIOUS
    <3> DEFINE g == j - 1
               d == 2^g
    <3>1. g \in Nat /\ g + 1 = j
      BY <1>0
    <3> HIDE DEF g
    <3>2. 2^j = 2 * d /\ d \in Nat \ {0}
      BY <3>1, PowerDoubles, PowerCounts
    <3>3. n % (2 * d) > d <=> (n \div d) % 2 = 1 /\ n % d # 0
      BY <1>0, <3>2, HalfLeft
    <3>4. QED
      BY <3>2, <3>3 DEF one_at, g
  <2>8. j > 0 => (HasNode(n, j) <=> is_pbst(n, j) \/ n % 2^j > 2^(j - 1))
    BY <1>0, <2>2, <2>6, <2>7, EntryHeights
  <2>9. is_valid(n, j) <=> j = 0 \/ j = c \/ (j < c /\ (is_pbst(n, j) \/ n % 2^j > 2^(j - 1)))
    BY <2>1, <2>6 DEF is_valid
  <2> HIDE DEF c
  <2>10. is_valid(n, j) <=> HasNode(n, j)
    <3>1. CASE j = 0
      BY <2>9, <3>1 DEF HasNode
    <3>2. CASE j # 0 /\ j < c
      BY <1>0, <2>5, <2>8, <2>9, <3>2
    <3>3. CASE j = c
      BY <2>5, <2>9, <3>3
    <3>4. CASE j # 0 /\ j > c
      BY <1>0, <2>5, <2>9, <3>4
    <3>5. QED
      BY <1>0, <2>5, <3>1, <3>2, <3>3, <3>4
  <2>11. QED
    BY <2>1, <2>3, <2>10 DEF HasNode
<1>3. QED
  BY <1>1, <1>2

\* The closed formulas of src/formula.rs for the root, the subnodes, the range of
\* leaves and the valid nodes (formula.rs:183-255) describe, for every generation
\* and every width of Index, the tree that the entries have written.
THEOREM FormulasAreTrue == Spec => []FormulasDescribeTree
<1>1. Written => FormulasDescribeTree
  BY WrittenSubnodes, WrittenRanges, WrittenValid DEF FormulasDescribeTree
<1>2. QED
  BY <1>1, WrittenInvariant, PTL

\* The nodes of the tree of a generation.
TreeKnown ==
    IF n = 0 THEN Tree = {}
    ELSE /\ n \in Index /\ Tree \subseteq NodeAddr
         /\ \A x \in NodeAddr :
               x \in Tree <=>
                  \/ x.i \in 1 .. n - 1 /\ x.i % 2^x.j = 0
                  \/ x.i = n /\ HasNode(n, x.j)

\* A node stays when the tree grows exactly when it is the root of a perfect
\* subtree; every other one lives for one generation (formula.rs:143-146).
THEOREM PerfectSubtreesStay == Spec => PbstsArePermanent
<1>1. Written => TreeKnown
  <2> SUFFICES ASSUME Written PROVE TreeKnown
    OBVIOUS
  <2>1. n \in Nat
    BY GenerationAssumption, IndexIsNat DEF Written
  <2>2. CASE n = 0
    BY <2>2 DEF TreeKnown, Tree
  <2>3. CASE n # 0
    BY <2>1, <2>3, TreeIs, TopIs DEF TreeKnown
  <2>4. QED
    BY <2>2, <2>3
<1>2. ASSUME Written, TreeKnown, TreeKnown', Grow, NEW x \in Tree
      PROVE  x \in Tree' <=> is_pbst(x.i, x.j)
  <2>1. n' = n + 1 /\ n \in Nat /\ n # 0 /\ n \in Index \ {0}
    <3>1. n # 0
      BY <1>2 DEF TreeKnown
    <3>2. QED
      BY <1>2, <3>1, GrowWrites, IndexIsNat
  <2>2. /\ x \in NodeAddr /\ x.i \in Nat /\ x.j \in Nat /\ x.i \in 1 .. n
    <3>1. x \in NodeAddr /\ (x.i \in 1 .. n - 1 \/ x.i = n)
      BY <1>2, <2>1 DEF TreeKnown
    <3>2. QED
      BY <2>1, <3>1 DEF NodeAddr
  <2>3. n' # 0 /\ n' - 1 = n
    BY <2>1
  <2>4. x \in Tree' <=> \/ x.i \in 1 .. n /\ x.i % 2^x.j = 0
                        \/ x.i = n' /\ HasNode(n', x.j)
    BY <1>2, <2>2, <2>3 DEF TreeKnown
  <2>5. x.i # n' /\ x.i \in Index \ {0}
    BY <2>1, <2>2, IndexIsNat
  <2>6. QED
    BY <2>2, <2>4, <2>5, PbstDivides
<1>3. ASSUME Written, TreeKnown, TreeKnown', [Next]_entries
      PROVE  [\A x \in Tree : x \in Tree' <=> is_pbst(x.i, x.j)]_entries
  BY <1>2, <1>3 DEF Next
<1>4. QED
  BY <1>1, <1>3, WrittenInvariant, PTL DEF Spec, PbstsArePermanent

-----------------------------------------------------------------------------
(* Ones among the digits.                                                  *)

LEMMA OnesAreCounted ==
    ASSUME NEW x
    PROVE  count_ones(x) \in Nat
<1> DEFINE B == {b \in 0 .. (INDEX_SIZE - 1) : (x \div 2^b) % 2 = 1}
<1>1. IsFiniteSet(0 .. (INDEX_SIZE - 1))
  BY IndexSizeAssumption, FS_Interval
<1>2. B \subseteq 0 .. (INDEX_SIZE - 1)
  OBVIOUS
<1> HIDE DEF B
<1>3. Cardinality(B) \in Nat
  BY <1>1, <1>2, FS_Subset, FS_CardinalityType
<1>4. QED
  BY <1>3 DEF count_ones, B

\* A digit on top of the others is one more.
LEMMA OneOnTop ==
    ASSUME NEW e \in Nat, e + 1 <= INDEX_SIZE, NEW s \in Nat, s < 2^e
    PROVE  count_ones(2^e + s) = count_ones(s) + 1
<1> DEFINE r == 2^e + s
<1>1. INDEX_SIZE \in Nat \ {0} /\ e \in 0 .. INDEX_SIZE - 1
  BY IndexSizeAssumption
<1>2. 2^e \in Nat \ {0} /\ 2^(e + 1) = 2 * 2^e /\ 2^(e + 1) \in Nat /\ 2^INDEX_SIZE \in Nat
  <2>1. 2^e \in Nat \ {0} /\ 2^(e + 1) = 2 * 2^e
    BY PowerCounts, PowerDoubles
  <2>2. 2^INDEX_SIZE \in Nat
    BY <1>1, PowerCounts
  <2>3. e + 1 \in Nat
    OBVIOUS
  <2>4. 2^(e + 1) \in Nat
    BY <2>3, PowerCounts
  <2>5. QED
    BY <2>1, <2>2, <2>4
<1>3. 2^(e + 1) <= 2^INDEX_SIZE
  BY <1>1, PowerOrder
<1>4. r \in Nat \ {0} /\ r < 2^INDEX_SIZE
  BY <1>2, <1>3
<1>5. r \in Index
  BY <1>2, <1>4 DEF Index
<1> HIDE DEF r
<1>6. r = 2^e + s
  BY DEF r
<1>7. count_ones(r) = count_ones(s) + 1
  BY <1>1, <1>4, <1>5, <1>6, CountOnesStep
<1>8. QED
  BY <1>6, <1>7

\* How many ones a number below a power has, and all of them only the last.
LEMMA OnesBelow ==
    ASSUME NEW e \in 0 .. INDEX_SIZE, NEW x \in Nat, x < 2^e
    PROVE  count_ones(x) <= e /\ (x + 1 < 2^e => count_ones(x) <= e - 1)
<1> DEFINE Few(h, y) == count_ones(y) <= h /\ (y + 1 < 2^h => count_ones(y) <= h - 1)
           T == {h \in Nat : h <= INDEX_SIZE => \A y \in Nat : y < 2^h => Few(h, y)}
<1>1. 0 \in T
  <2>1. ASSUME NEW y \in Nat, y < 2^0 PROVE Few(0, y)
    <3>1. y = 0 /\ ~(y + 1 < 2^0)
      BY <2>1, PowerZero
    <3>2. count_ones(y) = 0
      BY <3>1, CountOnesZero
    <3>3. QED
      BY <3>1, <3>2
  <2>2. QED
    BY <2>1
<1>2. ASSUME NEW h \in Nat, h \in T PROVE h + 1 \in T
  <2> SUFFICES ASSUME h + 1 <= INDEX_SIZE, NEW y \in Nat, y < 2^(h + 1)
               PROVE  Few(h + 1, y)
    OBVIOUS
  <2>1. 2^(h + 1) = 2 * 2^h /\ 2^h \in Nat \ {0} /\ count_ones(y) \in Nat
    BY PowerDoubles, PowerCounts, OnesAreCounted
  <2>2. \A z \in Nat : z < 2^h => Few(h, z)
    BY <1>2, IndexSizeAssumption
  <2>3. CASE y < 2^h
    <3>1. count_ones(y) <= h
      BY <2>2, <2>3
    <3>2. QED
      BY <2>1, <3>1
  <2>4. CASE ~(y < 2^h)
    <3> DEFINE s == y - 2^h
    <3>1. s \in Nat /\ s < 2^h /\ y = 2^h + s
      BY <2>1, <2>4
    <3> HIDE DEF s
    <3>2. Few(h, s) /\ count_ones(s) \in Nat
      BY <2>2, <3>1, OnesAreCounted
    <3>3. count_ones(y) = count_ones(s) + 1
      BY <3>1, OneOnTop
    <3>4. y + 1 < 2^(h + 1) => s + 1 < 2^h
      BY <2>1, <3>1
    <3>5. count_ones(y) <= h + 1
      BY <3>2, <3>3
    <3>6. ASSUME y + 1 < 2^(h + 1) PROVE count_ones(y) <= (h + 1) - 1
      BY <3>2, <3>3, <3>4, <3>6
    <3>7. QED
      BY <3>5, <3>6
  <2>5. QED
    BY <2>3, <2>4
<1>3. T = Nat
  <2>1. T \in SUBSET Nat
    OBVIOUS
  <2> HIDE DEF T
  <2>2. QED
    BY <1>1, <1>2, <2>1, Induct
<1>4. e \in Nat /\ e <= INDEX_SIZE /\ e \in T
  BY <1>3, IndexSizeAssumption
<1>5. QED
  BY <1>4

\* Counting from the other end turns the digits over.
LEMMA OnesMirrored ==
    ASSUME NEW e \in 0 .. INDEX_SIZE, NEW x \in Nat, NEW y \in Nat, x + y + 1 = 2^e
    PROVE  count_ones(x) = e - count_ones(y)
<1> DEFINE Mirror(h, a, b) == a + b + 1 = 2^h => count_ones(a) + count_ones(b) = h
           T == {h \in Nat : h <= INDEX_SIZE => \A a, b \in Nat : Mirror(h, a, b)}
<1>1. 0 \in T
  <2>1. ASSUME NEW a \in Nat, NEW b \in Nat, a + b + 1 = 2^0 PROVE count_ones(a) + count_ones(b) = 0
    <3>1. a = 0 /\ b = 0
      BY <2>1, PowerZero
    <3>2. count_ones(a) = 0 /\ count_ones(b) = 0
      BY <3>1, CountOnesZero
    <3>3. QED
      BY <3>2
  <2>2. QED
    BY <2>1
<1>2. ASSUME NEW h \in Nat, h \in T PROVE h + 1 \in T
  <2> SUFFICES ASSUME h + 1 <= INDEX_SIZE, NEW a \in Nat, NEW b \in Nat, a + b + 1 = 2^(h + 1)
               PROVE  count_ones(a) + count_ones(b) = h + 1
    OBVIOUS
  <2>1. 2^(h + 1) = 2 * 2^h /\ 2^h \in Nat \ {0}
    BY PowerDoubles, PowerCounts
  <2>2. \A c, d \in Nat : Mirror(h, c, d)
    BY <1>2, IndexSizeAssumption
  <2>3. ASSUME NEW c \in Nat, NEW d \in Nat, c + d + 1 = 2^(h + 1), c < 2^h
        PROVE  count_ones(c) + count_ones(d) = h + 1
    <3> DEFINE s == d - 2^h
    <3>1. s \in Nat /\ s < 2^h /\ d = 2^h + s /\ c + s + 1 = 2^h
      BY <2>1, <2>3
    <3> HIDE DEF s
    <3>2. count_ones(c) + count_ones(s) = h
      BY <2>2, <3>1
    <3>3. count_ones(d) = count_ones(s) + 1 /\ count_ones(s) \in Nat /\ count_ones(c) \in Nat
      BY <3>1, OneOnTop, OnesAreCounted
    <3>4. QED
      BY <3>2, <3>3
  <2>4. a < 2^h \/ b < 2^h
    BY <2>1
  <2>5. CASE a < 2^h
    BY <2>3, <2>5
  <2>6. CASE b < 2^h
    <3>1. b + a + 1 = 2^(h + 1)
      BY <2>1
    <3>2. count_ones(b) + count_ones(a) = h + 1
      BY <2>3, <2>6, <3>1
    <3>3. QED
      BY <3>2, OnesAreCounted
  <2>7. QED
    BY <2>4, <2>5, <2>6
<1>3. T = Nat
  <2>1. T \in SUBSET Nat
    OBVIOUS
  <2> HIDE DEF T
  <2>2. QED
    BY <1>1, <1>2, <2>1, Induct
<1>4. e \in Nat /\ e <= INDEX_SIZE /\ e \in T
  BY <1>3, IndexSizeAssumption
<1>5. count_ones(x) + count_ones(y) = e /\ count_ones(x) \in Nat /\ count_ones(y) \in Nat
  BY <1>4, OnesAreCounted
<1>6. QED
  BY <1>5

-----------------------------------------------------------------------------
(* The distance of an entry.                                               *)

\* The roots of a generation, once more: they end further right and are lower
\* one after the other, and each begins where the one before it ends.
Ordered(s) ==
    /\ Len(s) \in Nat \ {0} /\ DOMAIN s = 1 .. Len(s)
    /\ \A q \in 1 .. Len(s) :
          /\ s[q].i \in Nat \ {0} /\ s[q].j \in 0 .. INDEX_SIZE - 1
          /\ 2^s[q].j \in Nat \ {0} /\ 2^s[q].j <= s[q].i
          /\ range_start(s[q].i, s[q].j) = (s[q].i - 2^s[q].j) + 1
          /\ s[q].i - 2^s[q].j = IF q = 1 THEN 0 ELSE s[q - 1].i
    /\ \A p, q \in 1 .. Len(s) : p < q => s[p].i < s[q].i /\ s[q].j < s[p].j

LEMMA RootsAreOrdered ==
    ASSUME NEW m \in Index \ {0}
    PROVE  LET s == pbst_roots(m)
           IN  Ordered(s) /\ s[Len(s)].i = m /\ s[1].j = floor_log2(m) /\ s[1].i = 2^s[1].j
<1> DEFINE s == pbst_roots(m)
<1>1. m \in Nat \ {0} /\ m \in Index /\ INDEX_SIZE \in Nat
  BY IndexIsNat
<1>2. /\ s \in Seq(NodeAddr) /\ Len(s) > 0 /\ s[Len(s)].i = m /\ s[1].j = floor_log2(m)
      /\ \A q \in 1 .. Len(s) :
            /\ s[q].i \in 1 .. m /\ s[q].j < INDEX_SIZE
            /\ is_pbst(s[q].i, s[q].j)
            /\ range_start(s[q].i, s[q].j) = (IF q = 1 THEN 0 ELSE s[q - 1].i) + 1
            /\ q > 1 => s[q].j < s[q - 1].j
  BY <1>1, RootsTile
<1> HIDE DEF s
<1>3. Len(s) \in Nat \ {0} /\ DOMAIN s = 1 .. Len(s) /\ \A q \in 1 .. Len(s) : s[q] \in NodeAddr
  BY <1>2, LenProperties, ElementOfSeq
<1>4. ASSUME NEW q \in 1 .. Len(s)
      PROVE  /\ s[q].i \in Nat \ {0} /\ s[q].j \in 0 .. INDEX_SIZE - 1
             /\ 2^s[q].j \in Nat \ {0} /\ 2^s[q].j <= s[q].i
             /\ range_start(s[q].i, s[q].j) = (s[q].i - 2^s[q].j) + 1
             /\ s[q].i - 2^s[q].j = IF q = 1 THEN 0 ELSE s[q - 1].i
  <2> DEFINE i == s[q].i
             j == s[q].j
             d == 2^j
             b == IF q = 1 THEN 0 ELSE s[q - 1].i
  <2>1. i \in Nat \ {0} /\ j \in Nat /\ j < INDEX_SIZE /\ is_pbst(i, j)
    <3>1. s[q].j \in Nat
      BY <1>3 DEF NodeAddr
    <3>2. QED
      BY <1>1, <1>2, <3>1
  <2>2. range_start(i, j) = b + 1
    BY <1>2
  <2>3. b \in Nat
    <3>1. q # 1 => q - 1 \in 1 .. Len(s)
      BY <1>3
    <3>2. q # 1 => s[q - 1].i \in Nat
      BY <1>1, <1>2, <3>1
    <3>3. QED
      BY <3>2
  <2> HIDE DEF i, j, b
  <2>4. range_start(i, j) = (i - 2^j) + 1
    BY <2>1, PerfectRange
  <2>5. d \in Nat \ {0}
    BY <2>1, PowerCounts
  <2> HIDE DEF d
  <2>6. range_start(i, j) = (i - d) + 1
    BY <2>4 DEF d
  <2>7. i - d = b
    BY <2>1, <2>2, <2>3, <2>5, <2>6
  <2>8. d <= i
    BY <2>1, <2>3, <2>5, <2>7
  <2>9. j \in 0 .. INDEX_SIZE - 1
    BY <1>1, <2>1
  <2>10. QED
    BY <2>1, <2>5, <2>6, <2>7, <2>8, <2>9 DEF i, j, d, b
<1>5. \A p, q \in 1 .. Len(s) : p < q => s[p].i < s[q].i /\ s[q].j < s[p].j
  <2> DEFINE After(g) == \A p, q \in 1 .. Len(s) : q = (p + g) + 1 => s[p].i < s[q].i /\ s[q].j < s[p].j
             T == {g \in Nat : After(g)}
  <2>1. ASSUME NEW p \in 1 .. Len(s), NEW q \in 1 .. Len(s), q = p + 1
        PROVE  s[p].i < s[q].i /\ s[q].j < s[p].j
    <3>1. q > 1 /\ q # 1 /\ q - 1 = p
      BY <1>3, <2>1
    <3>2. s[q].j < s[p].j
      BY <1>2, <3>1
    <3>3. s[q].i - 2^s[q].j = s[p].i /\ s[q].i \in Nat /\ 2^s[q].j \in Nat \ {0}
      BY <1>4, <3>1
    <3> DEFINE d == 2^s[q].j
    <3> HIDE DEF d
    <3>4. s[q].i - d = s[p].i /\ s[q].i \in Nat /\ d \in Nat \ {0}
      BY <3>3 DEF d
    <3>5. s[p].i < s[q].i
      BY <3>4
    <3>6. QED
      BY <3>2, <3>5
  <2>2. 0 \in T
    <3>1. After(0)
      <4> SUFFICES ASSUME NEW p \in 1 .. Len(s), NEW q \in 1 .. Len(s), q = (p + 0) + 1
                   PROVE  s[p].i < s[q].i /\ s[q].j < s[p].j
        OBVIOUS
      <4>1. q = p + 1
        BY <1>3
      <4>2. QED
        BY <2>1, <4>1
    <3>2. QED
      BY <3>1
  <2>3. ASSUME NEW g \in Nat, g \in T PROVE g + 1 \in T
    <3>1. After(g + 1)
      <4> SUFFICES ASSUME NEW p \in 1 .. Len(s), NEW q \in 1 .. Len(s), q = (p + (g + 1)) + 1
                   PROVE  s[p].i < s[q].i /\ s[q].j < s[p].j
        OBVIOUS
      <4> DEFINE r == q - 1
      <4>1. r \in 1 .. Len(s) /\ r = (p + g) + 1 /\ q = r + 1
        BY <1>3
      <4> HIDE DEF r
      <4>2. s[p].i < s[r].i /\ s[r].j < s[p].j
        BY <2>3, <4>1
      <4>3. s[r].i < s[q].i /\ s[q].j < s[r].j
        BY <2>1, <4>1
      <4>4. \A t \in {p, q, r} : s[t].i \in Int /\ s[t].j \in Int
        BY <1>4, <4>1
      <4>5. QED
        BY <4>2, <4>3, <4>4
    <3>2. QED
      BY <3>1
  <2>4. T = Nat
    <3>1. T \in SUBSET Nat
      OBVIOUS
    <3> HIDE DEF T
    <3>2. QED
      BY <2>2, <2>3, <3>1, Induct
  <2> SUFFICES ASSUME NEW p \in 1 .. Len(s), NEW q \in 1 .. Len(s), p < q
               PROVE  s[p].i < s[q].i /\ s[q].j < s[p].j
    OBVIOUS
  <2>5. (q - p) - 1 \in Nat /\ q = (p + ((q - p) - 1)) + 1
    BY <1>3
  <2>6. After((q - p) - 1)
    BY <2>4, <2>5
  <2> HIDE DEF T
  <2>7. QED
    BY <2>5, <2>6
<1>6. s[1].i = 2^s[1].j
  <2>1. 1 \in 1 .. Len(s)
    BY <1>3
  <2>2. s[1].i - 2^s[1].j = 0 /\ s[1].i \in Nat /\ 2^s[1].j \in Nat
    BY <1>4, <2>1
  <2> DEFINE d == 2^s[1].j
  <2> HIDE DEF d
  <2>3. s[1].i - d = 0 /\ s[1].i \in Nat /\ d \in Nat
    BY <2>2 DEF d
  <2>4. s[1].i = d
    BY <2>3
  <2>5. QED
    BY <2>4 DEF d
<1>7. Ordered(s)
  BY <1>3, <1>4, <1>5 DEF Ordered
<1>8. QED
  BY <1>2, <1>6, <1>7 DEF s

\* Which of the roots holds a leaf.
Holds(r, k) == r.i - 2^r.j < k /\ k <= r.i

LEMMA HolderIs ==
    ASSUME NEW m \in Index \ {0}, NEW k \in 1 .. m
    PROVE  LET s == pbst_roots(m)
           IN  \E q \in 1 .. Len(s) : Holds(s[q], k)
<1> DEFINE s == pbst_roots(m)
           T == {q \in 1 .. Len(s) : k <= s[q].i}
<1>1. Ordered(s) /\ s[Len(s)].i = m /\ m \in Nat
  BY RootsAreOrdered, IndexIsNat
<1> HIDE DEF s
<1>2. Len(s) \in T
  BY <1>1 DEF Ordered
<1>3. T \in SUBSET Nat /\ T # {}
  BY <1>2
<1>4. PICK q \in T : \A p \in T : q <= p
  <2> HIDE DEF T
  <2>1. QED
    BY <1>3, LeastElement
<1>5. q \in 1 .. Len(s) /\ k <= s[q].i /\ Len(s) \in Nat
  BY <1>1, <1>4 DEF Ordered
<1>6. s[q].i - 2^s[q].j < k
  <2>1. s[q].i - 2^s[q].j = IF q = 1 THEN 0 ELSE s[q - 1].i
    BY <1>1, <1>5 DEF Ordered
  <2>2. CASE q = 1
    BY <2>1, <2>2
  <2>3. CASE q # 1
    <3>1. q - 1 \in 1 .. Len(s) /\ ~(q <= q - 1)
      BY <1>5, <2>3
    <3>2. q - 1 \notin T
      BY <1>4, <3>1
    <3>3. ~(k <= s[q - 1].i) /\ s[q - 1].i \in Nat
      BY <1>1, <3>1, <3>2 DEF Ordered
    <3>4. QED
      BY <2>1, <2>3, <3>3
  <2>4. QED
    BY <2>2, <2>3
<1>7. QED
  BY <1>5, <1>6 DEF Holds, s

\* entry_access_distance in two ways: the ones of the way to the leaf from the
\* last one of the subtree that holds it, or what is missing on it from the first.
LEMMA DistanceIs ==
    ASSUME NEW m \in Index \ {0}, NEW k \in Int, NEW q \in 1 .. Len(pbst_roots(m)), Holds(pbst_roots(m)[q], k)
    PROVE  LET s == pbst_roots(m)
               r == s[q]
               e == IF q = Len(s) THEN 0 ELSE 1
           IN  /\ k \in 1 .. m /\ r.i - k \in Nat /\ r.i - k < 2^r.j
               /\ (k - range_start(r.i, r.j)) + (r.i - k) + 1 = 2^r.j
               /\ entry_access_distance(k, m) = count_ones(r.i - k) + e
               /\ entry_access_distance(k, m) = (r.j - count_ones(k - range_start(r.i, r.j))) + e
<1> DEFINE s == pbst_roots(m)
           r == s[q]
           e == IF q = Len(s) THEN 0 ELSE 1
           f == range_start(r.i, r.j)
           d == 2^r.j
           x == k - f
           y == r.i - k
<1>1. Ordered(s) /\ s[Len(s)].i = m /\ m \in Nat /\ s \in Seq(NodeAddr)
  BY RootsAreOrdered, RootsTile, IndexIsNat
<1> HIDE DEF s
<1>2. q \in 1 .. Len(s) /\ Holds(s[q], k) /\ Len(s) \in Nat /\ Len(s) \in 1 .. Len(s)
  BY <1>1 DEF s, Ordered
<1>2a. \A p, t \in 1 .. Len(s) : s[p].i \in Nat /\ (p < t \/ p = t => s[p].i <= s[t].i) /\ (p < t => s[p].i < s[t].i)
  <2>1. \A p \in 1 .. Len(s) : s[p].i \in Nat
    BY <1>1 DEF Ordered
  <2>2. \A p, t \in 1 .. Len(s) : p < t => s[p].i < s[t].i
    BY <1>1 DEF Ordered
  <2>3. QED
    BY <2>1, <2>2
<1>3. /\ r.i \in Nat \ {0} /\ r.j \in 0 .. INDEX_SIZE - 1 /\ d \in Nat \ {0} /\ d <= r.i
      /\ f = (r.i - d) + 1 /\ r.i - d < k /\ k <= r.i
  BY <1>1, <1>2 DEF Ordered, Holds
<1>4. r.i <= m /\ (r.i # m <=> q # Len(s))
  <2>1. q # Len(s) => r.i < m
    <3>1. q # Len(s) => q < Len(s)
      BY <1>2
    <3>2. QED
      BY <1>1, <1>2, <1>2a, <3>1
  <2> HIDE DEF r, d
  <2>2. r = s[q] /\ r.i \in Nat
    BY <1>3 DEF r
  <2>3. QED
    BY <1>1, <2>1, <2>2
<1>5. {t \in ToSet(s) : contains(t.i, t.j, k)} = {r}
  <2>1. ToSet(s) = {s[p] : p \in 1 .. Len(s)}
    BY <1>1 DEF Ordered, ToSet
  <2>2. ASSUME NEW p \in 1 .. Len(s) PROVE contains(s[p].i, s[p].j, k) <=> p = q
    <3> DEFINE c == 2^s[p].j
    <3>1. /\ s[p].i \in Nat /\ c \in Nat \ {0} /\ range_start(s[p].i, s[p].j) = (s[p].i - c) + 1
          /\ s[p].i - c = IF p = 1 THEN 0 ELSE s[p - 1].i
      BY <1>1 DEF Ordered
    <3>2. /\ d \in Nat \ {0} /\ r.i - d = IF q = 1 THEN 0 ELSE s[q - 1].i
      BY <1>1, <1>2 DEF Ordered
    <3> HIDE DEF c, d, r
    <3>3. contains(s[p].i, s[p].j, k) <=> (s[p].i - c) + 1 <= k /\ k <= s[p].i
      BY <3>1 DEF contains
    <3>4. CASE p = q
      <4>1. s[p].i = r.i /\ c = d
        BY <3>4 DEF c, d, r
      <4>2. QED
        BY <1>3, <3>3, <3>4, <4>1
    <3>5. CASE p < q
      <4>1. q # 1 /\ q - 1 \in 1 .. Len(s) /\ (p < q - 1 \/ p = q - 1)
        BY <1>2, <3>5
      <4>2. s[q - 1].i \in Nat /\ s[p].i <= s[q - 1].i
        BY <1>2a, <4>1
      <4>3. ~(k <= s[p].i)
        BY <1>3, <3>1, <3>2, <4>1, <4>2
      <4>4. QED
        BY <3>3, <3>5, <4>3
    <3>6. CASE q < p
      <4>1. p # 1 /\ p - 1 \in 1 .. Len(s) /\ (q < p - 1 \/ q = p - 1)
        BY <1>2, <3>6
      <4>2. s[p - 1].i \in Nat /\ r.i <= s[p - 1].i
        BY <1>2, <1>2a, <4>1 DEF r
      <4>3. ~((s[p].i - c) + 1 <= k)
        BY <1>3, <3>1, <4>1, <4>2
      <4>4. QED
        BY <3>3, <3>6, <4>3
    <3>7. QED
      BY <1>2, <3>4, <3>5, <3>6
  <2>3. QED
    BY <1>2, <2>1, <2>2
<1>6. x \in Nat /\ y \in Nat /\ x + y + 1 = d /\ y < d
  <2> HIDE DEF d, r
  <2>1. QED
    BY <1>3
<1>7. entry_access_distance(k, m) = (r.j - count_ones(x)) + e
  <2> DEFINE holders == {t \in ToSet(s) : contains(t.i, t.j, k)}
  <2> HIDE DEF r, x
  <2>1. holders = {r} /\ holders # {} /\ (CHOOSE t \in holders : TRUE) = r
    BY <1>5
  <2> HIDE DEF holders
  <2>2. entry_access_distance(k, m) = (r.j - count_ones(k - range_start(r.i, r.j))) + (IF r.i # m THEN 1 ELSE 0)
    BY <2>1 DEF entry_access_distance, holders, s
  <2>3. QED
    BY <1>4, <2>2 DEF x
<1>8. count_ones(x) = r.j - count_ones(y) /\ count_ones(y) \in Nat
  <2>1. r.j \in 0 .. INDEX_SIZE
    BY <1>3, IndexSizeAssumption
  <2> HIDE DEF x, y, r
  <2>2. x + y + 1 = 2^r.j
    BY <1>6 DEF d
  <2>3. QED
    BY <1>6, <2>1, <2>2, OnesMirrored, OnesAreCounted
<1>9. entry_access_distance(k, m) = count_ones(y) + e
  <2> HIDE DEF x, y, r
  <2>1. r.j \in Int
    BY <1>3
  <2>2. QED
    BY <1>7, <1>8, <2>1
<1>10. k \in 1 .. m
  <2> HIDE DEF d, r
  <2>1. QED
    BY <1>1, <1>3, <1>4
<1> HIDE DEF x, y, r, f, d, e
<1>11. QED
  BY <1>6, <1>7, <1>9, <1>10 DEF x, y, r, f, d, e, s

-----------------------------------------------------------------------------
(* The limits of the distances.                                            *)

\* The elements of two lists in a row.
LEMMA InARow ==
    ASSUME NEW a \in Nat, NEW b \in Nat, NEW u, NEW v,
           u = [d \in 1 .. a |-> u[d]], v = [d \in 1 .. b |-> v[d]]
    PROVE  /\ Len(u \o v) = a + b
           /\ \A d \in 1 .. a + b : (u \o v)[d] = IF d <= a THEN u[d] ELSE v[d - a]
<1> DEFINE S == {u[d] : d \in 1 .. a} \cup {v[d] : d \in 1 .. b}
<1>1. u \in [1 .. a -> S] /\ v \in [1 .. b -> S]
  OBVIOUS
<1> HIDE DEF S
<1>2. u \in Seq(S) /\ Len(u) = a /\ v \in Seq(S) /\ Len(v) = b
  BY <1>1
<1>3. QED
  BY <1>2, ConcatProperties

\* A list of falling marks cuts the numbers between the last and the first into
\* intervals, so that each is in just one.
LEMMA OneInterval ==
    ASSUME NEW T \in Nat, NEW M, \A a \in 0 .. T : M[a] \in Int,
           \A a, b \in 0 .. T : a < b => M[b] <= M[a],
           NEW k \in Int, M[T] <= k, k < M[0]
    PROVE  \E d \in 1 .. T : \A c \in 1 .. T : (M[c] <= k /\ k < M[c - 1]) <=> c = d
<1> DEFINE B == {a \in 0 .. T : M[a] <= k}
<1>1. B \in SUBSET Nat /\ T \in B
  OBVIOUS
<1>2. PICK d \in B : \A a \in B : d <= a
  <2> HIDE DEF B
  <2>1. QED
    BY <1>1, LeastElement
<1>3. d \in 1 .. T /\ d - 1 \in 0 .. T
  BY <1>2
<1>4. M[d] <= k /\ k < M[d - 1]
  <2>1. d - 1 \notin B
    BY <1>2, <1>3
  <2>2. QED
    BY <1>2, <1>3, <2>1
<1>5. ASSUME NEW c \in 1 .. T, NEW e \in 1 .. T, M[c] <= k, k < M[e - 1] PROVE ~(c < e)
  <2> SUFFICES ASSUME c < e PROVE FALSE
    OBVIOUS
  <2>1. c \in 0 .. T /\ e - 1 \in 0 .. T /\ (c < e - 1 \/ c = e - 1)
    OBVIOUS
  <2>2. M[e - 1] <= M[c] /\ M[c] \in Int /\ M[e - 1] \in Int
    BY <2>1
  <2>3. QED
    BY <1>5, <2>2
<1>6. ASSUME NEW c \in 1 .. T, M[c] <= k, k < M[c - 1] PROVE c = d
  <2>1. ~(c < d) /\ ~(d < c)
    BY <1>3, <1>4, <1>5, <1>6
  <2>2. QED
    BY <1>3, <2>1
<1>7. QED
  BY <1>3, <1>4, <1>6

\* 1 when there are several roots, and their tree therefore higher than the first.
several(m) == IF Len(pbst_roots(m)) = 1 THEN 0 ELSE 1

LEMMA HeightIs ==
    ASSUME NEW m \in Index \ {0}
    PROVE  LET h == pbst_roots(m)[1].j
           IN  /\ h \in Nat /\ ceil_log2(m) = h + several(m) /\ several(m) \in 0 .. 1
               /\ several(m) = 0 => m = 2^h
               /\ several(m) = 1 => 2^h < m
<1> DEFINE s == pbst_roots(m)
           h == s[1].j
<1>1. /\ Ordered(s) /\ s[Len(s)].i = m /\ h = floor_log2(m) /\ s[1].i = 2^h
      /\ m \in Nat \ {0} /\ m \in Index
  BY RootsAreOrdered, IndexIsNat
<1> HIDE DEF s
<1>2. Len(s) \in Nat \ {0} /\ h \in Nat /\ 2^h \in Nat \ {0}
  <2>1. 1 \in 1 .. Len(s) /\ Len(s) \in Nat \ {0}
    BY <1>1 DEF Ordered
  <2>2. h \in 0 .. INDEX_SIZE - 1
    BY <1>1, <2>1 DEF Ordered
  <2>3. h \in Nat
    BY <2>2, IndexSizeAssumption
  <2>4. QED
    BY <2>1, <2>3, PowerCounts
<1>3. CASE Len(s) = 1
  <2>1. several(m) = 0
    BY <1>3 DEF several, s
  <2>2. m = 2^h
    BY <1>1, <1>3
  <2>3. ceil_log2(m) = h
    <3> HIDE DEF h
    <3>1. CASE h = 0
      BY <2>2, <3>1, PowerZero, CeilLog
    <3>2. CASE h # 0
      <4> DEFINE g == h - 1
      <4>1. g \in Nat /\ g + 1 = h
        BY <1>2, <3>2
      <4> HIDE DEF g
      <4>2. 2^h = 2 * 2^g /\ 2^g \in Nat \ {0}
        BY <4>1, PowerDoubles, PowerCounts
      <4>3. 2^g < m /\ m <= 2 * 2^g
        BY <2>2, <4>2
      <4>4. ceil_log2(m) = g + 1
        BY <1>1, <4>1, <4>3, CeilLog
      <4>5. QED
        BY <4>1, <4>4
    <3>3. QED
      BY <3>1, <3>2
  <2>4. QED
    BY <1>2, <2>1, <2>2, <2>3 DEF s
<1>4. CASE Len(s) # 1
  <2>1. several(m) = 1
    BY <1>4 DEF several, s
  <2>2. 2^h < m
    <3> DEFINE g == Len(s)
    <3>0. g \in Nat \ {0} /\ g # 1
      BY <1>2, <1>4
    <3> HIDE DEF g
    <3>1. 1 \in 1 .. g /\ g \in 1 .. g /\ 1 < g
      BY <3>0
    <3>2. s[1].i < s[Len(s)].i
      BY <1>1, <3>1 DEF Ordered, g
    <3>3. QED
      BY <1>1, <3>2
  <2>3. m < 2^(h + 1)
    BY <1>1, FloorLog
  <2> HIDE DEF h
  <2>4. 2^(h + 1) = 2 * 2^h
    BY <1>2, PowerDoubles
  <2>5. m <= 2 * 2^h
    BY <1>1, <1>2, <2>3, <2>4
  <2>6. ceil_log2(m) = h + 1
    BY <1>1, <1>2, <2>2, <2>5, CeilLog
  <2>7. QED
    BY <1>2, <2>1, <2>2, <2>6 DEF h, s
<1>5. QED
  BY <1>3, <1>4

\* The lower limits fall by halves, from the last index to the first.
lower_mark(m, a) == IF a = 0 THEN m ELSE 2^(ceil_log2(m) - a)

LEMMA LowerRangesAre ==
    ASSUME NEW m \in Index \ {0}
    PROVE  LET R == distance_lower_ranges(m)
               T == ceil_log2(m)
           IN  /\ Len(R) = T + 1 /\ R[1] = <<m, m>>
               /\ \A a \in 1 .. T : R[a + 1] = <<lower_mark(m, a), lower_mark(m, a - 1) - 1>>
<1> DEFINE s == pbst_roots(m)
           h == s[1].j
           o == several(m)
           T == h + o
           u == IF Len(s) > 1 THEN <<m>> ELSE <<>>
           v == [d \in 1 .. h + 1 |-> pow2e(h + 1 - d)]
           marks == u \o v
           w == [d \in 1 .. Len(marks) - 1 |-> <<marks[d + 1], marks[d] - 1>>]
<1>1. h \in Nat /\ ceil_log2(m) = T /\ o \in 0 .. 1 /\ (o = 0 => m = 2^h)
  BY HeightIs
<1>2. Len(s) \in Nat \ {0}
  BY RootsAreOrdered DEF Ordered
<1>3. distance_lower_ranges(m) = <<<<m, m>>>> \o w
  BY DEF distance_lower_ranges
<1>4. u = [d \in 1 .. o |-> u[d]] /\ (o = 1 => u[1] = m)
  <2> DEFINE g == Len(s)
  <2>1. g \in Nat \ {0} /\ o = IF g = 1 THEN 0 ELSE 1
    BY <1>2 DEF several
  <2>2. u = IF g > 1 THEN <<m>> ELSE <<>>
    OBVIOUS
  <2> HIDE DEF g, u, o, s
  <2>3. CASE g = 1
    BY <2>1, <2>2, <2>3
  <2>4. CASE g # 1
    BY <2>1, <2>2, <2>4
  <2>5. QED
    BY <2>3, <2>4
<1>5. v = [d \in 1 .. h + 1 |-> v[d]] /\ \A d \in 1 .. h + 1 : v[d] = 2^((h + 1) - d)
  <2> HIDE DEF h
  <2>1. \A d \in 1 .. h + 1 : v[d] = pow2e(h + 1 - d)
    OBVIOUS
  <2>2. \A d \in 1 .. h + 1 : pow2e(h + 1 - d) = 2^((h + 1) - d)
    <3>1. \A d \in Int : h + 1 - d = (h + 1) - d
      BY <1>1
    <3>2. QED
      BY <3>1 DEF pow2e
  <2>3. v = [d \in 1 .. h + 1 |-> v[d]]
    OBVIOUS
  <2> HIDE DEF v
  <2>4. QED
    BY <2>1, <2>2, <2>3
<1> HIDE DEF u, v, h, o, s
<1>6. /\ Len(marks) = o + (h + 1)
      /\ \A d \in 1 .. o + (h + 1) : marks[d] = IF d <= o THEN u[d] ELSE v[d - o]
  <2>1. o \in Nat /\ h + 1 \in Nat
    BY <1>1
  <2>2. QED
    BY <1>4, <1>5, <2>1, InARow
<1> HIDE DEF marks
<1>7. \A a \in 0 .. T : marks[a + 1] = lower_mark(m, a)
  <2> SUFFICES ASSUME NEW a \in 0 .. T PROVE marks[a + 1] = lower_mark(m, a)
    OBVIOUS
  <2>1. a + 1 \in 1 .. o + (h + 1)
    BY <1>1
  <2>2. CASE a + 1 <= o
    <3>1. o = 1 /\ a = 0
      BY <1>1, <2>2
    <3>2. 1 \in 1 .. o + (h + 1) /\ 1 <= o /\ a + 1 = 1
      BY <2>1, <3>1
    <3>3. marks[1] = u[1] /\ u[1] = m
      BY <1>4, <1>6, <3>1, <3>2
    <3>4. lower_mark(m, 0) = m
      BY DEF lower_mark
    <3>5. QED
      BY <3>1, <3>2, <3>3, <3>4
  <2>3. CASE ~(a + 1 <= o)
    <3>1. (a + 1) - o \in 1 .. h + 1 /\ (h + 1) - ((a + 1) - o) = T - a
      BY <1>1, <2>3
    <3>2. marks[a + 1] = 2^(T - a)
      BY <1>5, <1>6, <2>1, <2>3, <3>1
    <3>3. CASE a = 0
      <4>1. o = 0 /\ T - a = h
        BY <1>1, <2>3, <3>3
      <4>2. QED
        BY <1>1, <3>2, <3>3, <4>1 DEF lower_mark
    <3>4. CASE a # 0
      <4> HIDE DEF T
      <4>1. QED
        BY <1>1, <3>2, <3>4 DEF lower_mark
    <3>5. QED
      BY <3>3, <3>4
  <2>4. QED
    BY <2>2, <2>3
<1>8. Len(marks) - 1 = T /\ T \in Nat
  BY <1>1, <1>6
<1>9. w = [d \in 1 .. T |-> w[d]] /\ \A d \in 1 .. T : w[d] = <<marks[d + 1], marks[d] - 1>>
  BY <1>8
<1> HIDE DEF w, T
<1> DEFINE one == <<<<m, m>>>>
<1>10. one = [d \in 1 .. 1 |-> one[d]] /\ one[1] = <<m, m>>
  OBVIOUS
<1> HIDE DEF one
<1>11. /\ Len(one \o w) = 1 + T
       /\ \A d \in 1 .. 1 + T : (one \o w)[d] = IF d <= 1 THEN one[d] ELSE w[d - 1]
  BY <1>8, <1>9, <1>10, InARow
<1> DEFINE R == distance_lower_ranges(m)
<1>12. R = one \o w
  BY <1>3 DEF one
<1> HIDE DEF R
<1>13. Len(R) = T + 1 /\ R[1] = <<m, m>>
  BY <1>8, <1>10, <1>11, <1>12
<1>14. ASSUME NEW a \in 1 .. T PROVE R[a + 1] = <<lower_mark(m, a), lower_mark(m, a - 1) - 1>>
  <2>1. a + 1 \in 1 .. 1 + T /\ ~(a + 1 <= 1) /\ (a + 1) - 1 = a /\ a \in 0 .. T /\ a - 1 \in 0 .. T /\ (a - 1) + 1 = a
    BY <1>8
  <2>2. R[a + 1] = w[a]
    BY <1>11, <1>12, <2>1
  <2>3. w[a] = <<marks[a + 1], marks[a] - 1>>
    BY <1>9
  <2>4. marks[a + 1] = lower_mark(m, a) /\ marks[a] = lower_mark(m, a - 1)
    <3>1. marks[(a - 1) + 1] = lower_mark(m, a - 1)
      BY <1>7, <2>1
    <3>2. QED
      BY <1>7, <2>1, <3>1
  <2>5. QED
    BY <2>2, <2>3, <2>4
<1>15. QED
  BY <1>1, <1>13, <1>14 DEF R

\* The marks of the lower limits fall from m to 1.
LEMMA LowerMarksFall ==
    ASSUME NEW m \in Index \ {0}
    PROVE  LET T == ceil_log2(m)
           IN  /\ T \in Nat /\ lower_mark(m, 0) = m /\ lower_mark(m, T) = 1
               /\ \A a \in 0 .. T : lower_mark(m, a) \in Nat
               /\ \A a, b \in 0 .. T : a < b => lower_mark(m, b) <= lower_mark(m, a)
<1> DEFINE T == ceil_log2(m)
           h == pbst_roots(m)[1].j
           o == several(m)
<1>1. h \in Nat /\ T = h + o /\ o \in 0 .. 1 /\ (o = 0 => m = 2^h) /\ (o = 1 => 2^h < m)
  BY HeightIs
<1>2. m \in Nat
  BY IndexIsNat
<1> HIDE DEF h, o, T
<1>3. T \in Nat
  BY <1>1
<1>4. \A a \in 0 .. T : lower_mark(m, a) = IF a = 0 THEN m ELSE 2^(T - a)
  BY DEF lower_mark, T
<1>5. ASSUME NEW a \in 1 .. T PROVE T - a \in Nat /\ lower_mark(m, a) = 2^(T - a) /\ 2^(T - a) \in Nat
  <2>1. T - a \in Nat /\ a \in 0 .. T /\ a # 0
    BY <1>3
  <2>2. QED
    BY <1>4, <2>1, PowerCounts
<1>6. lower_mark(m, 0) = m
  BY <1>3, <1>4
<1>7. lower_mark(m, T) = 1
  <2>1. CASE T = 0
    <3>1. o = 0 /\ h = 0
      BY <1>1, <2>1
    <3>2. QED
      BY <1>1, <1>6, <2>1, <3>1, PowerZero
  <2>2. CASE T # 0
    <3>1. T \in 1 .. T /\ T - T = 0
      BY <1>3, <2>2
    <3>2. QED
      BY <1>5, <3>1, PowerZero
  <2>3. QED
    BY <2>1, <2>2
<1>8. ASSUME NEW a \in 0 .. T, NEW b \in 0 .. T, a < b PROVE lower_mark(m, b) <= lower_mark(m, a)
  <2>1. b \in 1 .. T /\ lower_mark(m, b) = 2^(T - b) /\ T - b \in Nat
    BY <1>3, <1>5, <1>8
  <2>2. CASE a = 0
    <3>1. 2^(T - b) <= 2^h
      <4>1. T - b <= h
        BY <1>1, <2>1
      <4>2. QED
        BY <1>1, <2>1, <4>1, PowerOrder
    <3>2. 2^h <= m /\ 2^h \in Nat /\ 2^(T - b) \in Nat
      <4>1. 2^h \in Nat /\ 2^(T - b) \in Nat
        BY <1>1, <2>1, PowerCounts
      <4>2. QED
        BY <1>1, <1>2, <4>1
    <3> DEFINE x == 2^(T - b)
               y == 2^h
    <3> HIDE DEF x, y
    <3>3. x <= y /\ y <= m /\ x \in Nat /\ y \in Nat
      BY <3>1, <3>2 DEF x, y
    <3>4. x <= m
      BY <1>2, <3>3
    <3>5. QED
      BY <1>6, <2>1, <2>2, <3>4 DEF x
  <2>3. CASE a # 0
    <3>1. a \in 1 .. T /\ T - a \in Nat /\ T - b <= T - a
      BY <1>3, <1>8, <2>1, <2>3
    <3>2. 2^(T - b) <= 2^(T - a)
      BY <2>1, <3>1, PowerOrder
    <3>3. QED
      BY <1>5, <2>1, <3>1, <3>2
  <2>4. QED
    BY <2>2, <2>3
<1>9. \A a \in 0 .. T : lower_mark(m, a) \in Nat
  <2> SUFFICES ASSUME NEW a \in 0 .. T PROVE lower_mark(m, a) \in Nat
    OBVIOUS
  <2>1. CASE a = 0
    BY <1>2, <1>6, <2>1
  <2>2. CASE a # 0
    <3>1. a \in 1 .. T
      BY <1>3, <2>2
    <3>2. QED
      BY <1>5, <3>1
  <2>3. QED
    BY <2>1, <2>2
<1>10. QED
  BY <1>3, <1>6, <1>7, <1>8, <1>9 DEF T

\* No index is nearer than the lower limits say.
LEMMA LowerLimit ==
    ASSUME NEW m \in Index \ {0}, NEW k \in 1 .. m
    PROVE  /\ entry_access_distance(k, m) \in Nat
           /\ \A a \in 1 .. ceil_log2(m) : k < lower_mark(m, a - 1) => a <= entry_access_distance(k, m)
<1> DEFINE s == pbst_roots(m)
           T == ceil_log2(m)
           h == s[1].j
           o == several(m)
<1>1. /\ Ordered(s) /\ s[Len(s)].i = m /\ s[1].i = 2^h /\ m \in Nat
      /\ h \in Nat /\ T = h + o /\ o \in 0 .. 1 /\ (o = 0 => m = 2^h)
      /\ o = IF Len(s) = 1 THEN 0 ELSE 1
  BY RootsAreOrdered, HeightIs, IndexIsNat DEF several
<1>2. PICK q \in 1 .. Len(s) : Holds(s[q], k)
  BY HolderIs
<1> DEFINE D == entry_access_distance(k, m)
           r == s[q]
           e == IF q = Len(s) THEN 0 ELSE 1
           x == k - range_start(r.i, r.j)
           y == r.i - k
<1>3. k \in Int
  OBVIOUS
<1>4. /\ y \in Nat /\ x + y + 1 = 2^r.j /\ D = count_ones(y) + e /\ D = (r.j - count_ones(x)) + e /\ y < 2^r.j
  BY <1>2, <1>3, DistanceIs
<1> HIDE DEF D
<1>5. D \in Nat
  <2> HIDE DEF y
  <2>1. count_ones(y) \in Nat
    BY OnesAreCounted
  <2>2. QED
    BY <1>4, <2>1
<1>6. r.j \in 0 .. INDEX_SIZE - 1 /\ r.j \in 0 .. INDEX_SIZE /\ r.j \in Nat /\ 2^r.j \in Nat
      /\ range_start(r.i, r.j) = (r.i - 2^r.j) + 1 /\ r.i \in Nat
  <2>1. r.j \in 0 .. INDEX_SIZE - 1 /\ range_start(r.i, r.j) = (r.i - 2^r.j) + 1 /\ r.i \in Nat
    BY <1>1, <1>2 DEF Ordered
  <2> HIDE DEF r
  <2>2. r.j \in Nat /\ r.j \in 0 .. INDEX_SIZE
    BY <2>1, IndexSizeAssumption
  <2>3. QED
    BY <2>1, <2>2, PowerCounts
<1>7. x \in Int /\ x \in Nat
  <2> DEFINE d == 2^r.j
  <2>1. x = k - ((r.i - d) + 1) /\ d \in Nat /\ r.i \in Nat /\ y < d /\ y \in Nat /\ y = r.i - k
    BY <1>4, <1>6
  <2> HIDE DEF d, x, r, y
  <2>2. QED
    BY <2>1
<1>8. k < m => 1 <= D
  <2> SUFFICES ASSUME k < m PROVE 1 <= D
    OBVIOUS
  <2>1. CASE q = Len(s)
    <3>1. r.i = m /\ e = 0
      BY <1>1, <2>1
    <3>2. y >= 1
      BY <1>1, <3>1
    <3> DEFINE d == 2^r.j
    <3>3. d \in Nat /\ x + y + 1 = d
      BY <1>4, <1>6
    <3> HIDE DEF d, x, y, r
    <3>4. x + 1 < d
      BY <1>4, <1>7, <3>2, <3>3
    <3>5. x < 2^r.j /\ x + 1 < 2^r.j
      BY <1>7, <3>3, <3>4 DEF d
    <3>6. count_ones(x) <= r.j - 1 /\ count_ones(x) \in Nat
      BY <1>6, <1>7, <3>5, OnesBelow, OnesAreCounted
    <3>7. QED
      BY <1>4, <1>6, <3>1, <3>6
  <2>2. CASE q # Len(s)
    <3>1. e = 1
      BY <2>2
    <3> HIDE DEF y
    <3>2. count_ones(y) \in Nat
      BY OnesAreCounted
    <3>3. QED
      BY <1>4, <3>1, <3>2
  <2>3. QED
    BY <2>1, <2>2
<1>9. ASSUME NEW b \in Nat, b + 1 <= h, k < 2^(b + 1) PROVE (h - b) + o <= D
  <2>1. 2^(b + 1) <= 2^h /\ 2^(b + 1) \in Nat /\ 2^h \in Nat
    <3>1. b + 1 \in Nat
      OBVIOUS
    <3>2. QED
      BY <1>1, <1>9, <3>1, PowerOrder, PowerCounts
  <2> DEFINE c == 2^(b + 1)
             g == 2^h
  <2>2. k <= g
    <3>1. c <= g /\ c \in Nat /\ g \in Nat /\ k < c
      BY <1>9, <2>1
    <3> HIDE DEF c, g
    <3>2. QED
      BY <3>1
  <2>3. 1 \in 1 .. Len(s) /\ Len(s) \in Nat \ {0}
    BY <1>1 DEF Ordered
  <2>4. Holds(s[1], k)
    <3>1. s[1].i - 2^s[1].j = 0
      BY <1>1, <2>3 DEF Ordered
    <3>2. QED
      BY <1>1, <2>2, <3>1 DEF Holds
  <2>5. D = (h - count_ones(k - range_start(s[1].i, h))) + (IF 1 = Len(s) THEN 0 ELSE 1)
    BY <1>3, <2>3, <2>4, DistanceIs DEF D
  <2>6. range_start(s[1].i, h) = 1
    <3>1. range_start(s[1].i, s[1].j) = (s[1].i - 2^s[1].j) + 1 /\ s[1].i - 2^s[1].j = 0
      BY <1>1, <2>3 DEF Ordered
    <3>2. QED
      BY <3>1
  <2>7. D = (h - count_ones(k - 1)) + o
    BY <1>1, <2>5, <2>6
  <2>8. count_ones(k - 1) <= b /\ count_ones(k - 1) \in Nat
    <3>0. h \in 0 .. INDEX_SIZE - 1
      BY <1>1, <2>3 DEF Ordered
    <3> HIDE DEF h
    <3>1. b + 1 \in 0 .. INDEX_SIZE
      BY <1>1, <1>9, <3>0, IndexSizeAssumption
    <3>2. k - 1 \in Nat /\ (k - 1) + 1 = k
      BY <1>1
    <3>3. k - 1 < 2^(b + 1) /\ (k - 1) + 1 < 2^(b + 1)
      <4>1. k < c /\ c \in Nat
        BY <1>9, <2>1
      <4> HIDE DEF c
      <4>2. k - 1 < c
        BY <4>1
      <4>3. QED
        BY <3>2, <4>1, <4>2 DEF c
    <3>4. count_ones(k - 1) <= (b + 1) - 1
      BY <3>1, <3>2, <3>3, OnesBelow
    <3>5. (b + 1) - 1 = b
      OBVIOUS
    <3>6. QED
      BY <3>4, <3>5, OnesAreCounted
  <2> HIDE DEF h, o
  <2>9. QED
    BY <1>1, <2>7, <2>8
<1>10. ASSUME NEW a \in 1 .. T, k < lower_mark(m, a - 1) PROVE a <= D
  <2> HIDE DEF h, o
  <2>1. CASE a = 1 /\ o = 1
    <3>1. k < m
      BY <1>10, <2>1 DEF lower_mark
    <3>2. QED
      BY <1>8, <2>1, <3>1
  <2>2. CASE ~(a = 1 /\ o = 1)
    <3> DEFINE b == T - a
    <3>1. b \in Nat /\ b + 1 = T - (a - 1) /\ b + 1 <= h /\ (h - b) + o = a
      <4> HIDE DEF T
      <4>1. QED
        BY <1>1, <2>2
    <3>2. k < 2^(b + 1)
      <4>1. CASE a = 1
        <5>1. o = 0 /\ b + 1 = h /\ k < m
          <6>1. o = 0 /\ a - 1 = 0
            BY <1>1, <2>2, <4>1
          <6>2. k < m
            BY <1>10, <6>1 DEF lower_mark
          <6>3. b + 1 = h
            BY <1>1, <3>1, <4>1, <6>1
          <6>4. QED
            BY <6>1, <6>2, <6>3
        <5> HIDE DEF b
        <5>2. QED
          BY <1>1, <5>1
      <4>2. CASE a # 1
        <5>1. a - 1 # 0
          BY <4>2
        <5>2. lower_mark(m, a - 1) = 2^(T - (a - 1))
          BY <5>1 DEF lower_mark
        <5> HIDE DEF b, T
        <5>3. QED
          BY <1>10, <3>1, <5>2
      <4>3. QED
        BY <4>1, <4>2
    <3> HIDE DEF b
    <3>3. (h - b) + o <= D
      BY <1>9, <3>1, <3>2
    <3>4. QED
      BY <3>1, <3>3
  <2>3. QED
    BY <2>1, <2>2
<1>11. QED
  BY <1>5, <1>10 DEF D, T

\* The upper limits: what a subtree claims for a distance, and the claim that is
\* kept.
claim_of(m, r, d) ==
    LET pbsts == pbst_roots(m)
        shift == IF r = pbsts[Len(pbsts)] THEN d ELSE d - 1
    IN  IF shift \in 0 .. r.j
        THEN range_start(r.i, r.j) - 1 + (pow2e(r.j) + 1 - pow2e(shift)) ELSE 0
claimed_of(m, d) == {k \in 1 .. Len(pbst_roots(m)) : claim_of(m, pbst_roots(m)[k], d) # 0}
mark_of(m, d) == IF claimed_of(m, d) = {} THEN 0 ELSE claim_of(m, pbst_roots(m)[Max(claimed_of(m, d))], d)

LEMMA UpperRangesAre ==
    ASSUME NEW m \in Index \ {0}
    PROVE  LET R == distance_upper_ranges(m)
               T == ceil_log2(m)
           IN  /\ Len(R) = T + 1 /\ R[T + 1] = <<1, 1>>
               /\ \A d \in 1 .. T : R[d] = <<mark_of(m, d) + 1, mark_of(m, d - 1)>>
<1> DEFINE T == ceil_log2(m)
           v == [d \in 1 .. T |-> <<mark_of(m, d) + 1, mark_of(m, d - 1)>>]
           one == <<<<1, 1>>>>
           R == distance_upper_ranges(m)
<1>1. R = v \o one
  BY DEF distance_upper_ranges, mark_of, claimed_of, claim_of
<1>2. T \in Nat
  BY LowerMarksFall
<1> HIDE DEF R, T
<1>3. v = [d \in 1 .. T |-> v[d]] /\ \A d \in 1 .. T : v[d] = <<mark_of(m, d) + 1, mark_of(m, d - 1)>>
  OBVIOUS
<1>4. one = [d \in 1 .. 1 |-> one[d]] /\ one[1] = <<1, 1>>
  OBVIOUS
<1> HIDE DEF v, one
<1>5. /\ Len(v \o one) = T + 1
      /\ \A d \in 1 .. T + 1 : (v \o one)[d] = IF d <= T THEN v[d] ELSE one[d - T]
  BY <1>2, <1>3, <1>4, InARow
<1>6. R[T + 1] = <<1, 1>>
  <2>1. T + 1 \in 1 .. T + 1 /\ ~(T + 1 <= T) /\ (T + 1) - T = 1
    BY <1>2
  <2>2. QED
    BY <1>1, <1>4, <1>5, <2>1
<1>7. ASSUME NEW d \in 1 .. T PROVE R[d] = <<mark_of(m, d) + 1, mark_of(m, d - 1)>>
  <2>1. d \in 1 .. T + 1 /\ d <= T
    BY <1>2
  <2>2. QED
    BY <1>1, <1>3, <1>5, <2>1
<1>8. QED
  BY <1>1, <1>5, <1>6, <1>7 DEF R, T

\* A subtree claims what its last leaves are at that distance from its end.
shift_of(m, q, d) == IF q = Len(pbst_roots(m)) THEN d ELSE d - 1

LEMMA ClaimIs ==
    ASSUME NEW m \in Index \ {0}, NEW q \in 1 .. Len(pbst_roots(m)), NEW d \in Int
    PROVE  LET r == pbst_roots(m)[q]
               t == shift_of(m, q, d)
           IN  /\ t \in 0 .. r.j => /\ claim_of(m, r, d) = (r.i + 1) - 2^t /\ claim_of(m, r, d) # 0
                                    /\ (r.i + 1) - 2^t > r.i - 2^r.j /\ (r.i + 1) - 2^t <= r.i
               /\ t \notin 0 .. r.j => claim_of(m, r, d) = 0
<1> DEFINE s == pbst_roots(m)
           r == s[q]
           t == shift_of(m, q, d)
           p == 2^r.j
           g == 2^t
<1>1. Ordered(s)
  BY RootsAreOrdered
<1> HIDE DEF s
<1>2. q \in 1 .. Len(s) /\ Len(s) \in 1 .. Len(s) /\ Len(s) \in Nat
  BY <1>1 DEF s, Ordered
<1>3. r = s[Len(s)] <=> q = Len(s)
  <2>1. q < Len(s) => s[q].i < s[Len(s)].i /\ s[q].i \in Nat
    BY <1>1, <1>2 DEF Ordered
  <2>2. q # Len(s) => q < Len(s)
    BY <1>2
  <2>3. q < Len(s) => s[q].i # s[Len(s)].i
    BY <2>1
  <2>4. QED
    BY <2>2, <2>3
<1>4. t = IF r = s[Len(s)] THEN d ELSE d - 1
  BY <1>3 DEF shift_of, s
<1>5. /\ r.i \in Nat /\ r.j \in Nat /\ p \in Nat \ {0} /\ p <= r.i /\ range_start(r.i, r.j) = (r.i - p) + 1
  BY <1>1, <1>2, IndexSizeAssumption DEF Ordered
<1>6. claim_of(m, r, d) = IF t \in 0 .. r.j THEN range_start(r.i, r.j) - 1 + (pow2e(r.j) + 1 - pow2e(t)) ELSE 0
  BY <1>4 DEF claim_of, s
<1>7. ASSUME t \in 0 .. r.j
      PROVE  claim_of(m, r, d) = (r.i + 1) - g /\ (r.i + 1) - g > 0 /\ (r.i + 1) - g > r.i - p /\ (r.i + 1) - g <= r.i
  <2> HIDE DEF r, t
  <2>1. t \in Nat /\ t <= r.j
    BY <1>5, <1>7
  <2>2. g \in Nat \ {0} /\ g <= p
    BY <1>5, <2>1, PowerCounts, PowerOrder
  <2>3. claim_of(m, r, d) = range_start(r.i, r.j) - 1 + (p + 1 - g)
    BY <1>6, <1>7 DEF pow2e
  <2> HIDE DEF p, g
  <2>4. QED
    BY <1>5, <2>2, <2>3
<1> HIDE DEF r, t
<1>8. t \notin 0 .. r.j => claim_of(m, r, d) = 0
  BY <1>6
<1>9. QED
  BY <1>7, <1>8 DEF g, p, r, t, s

\* The subtree whose claim is kept is the last one that claims the distance.
Marks(m, d, q) ==
    LET s == pbst_roots(m)
    IN  /\ q \in 1 .. Len(s) /\ shift_of(m, q, d) \in 0 .. s[q].j
        /\ mark_of(m, d) = (s[q].i + 1) - 2^shift_of(m, q, d)
        /\ \A p \in 1 .. Len(s) : q < p => shift_of(m, p, d) \notin 0 .. s[p].j

LEMMA MarkIs ==
    ASSUME NEW m \in Index \ {0}, NEW d \in 0 .. ceil_log2(m)
    PROVE  \E q : Marks(m, d, q)
<1> DEFINE s == pbst_roots(m)
           h == s[1].j
           o == several(m)
           L == Len(s)
           C == claimed_of(m, d)
<1>1. Ordered(s) /\ h \in Nat /\ ceil_log2(m) = h + o /\ o \in 0 .. 1 /\ o = IF L = 1 THEN 0 ELSE 1
  BY RootsAreOrdered, HeightIs DEF several
<1>2. L \in Nat \ {0} /\ \A q \in 1 .. L : s[q].j \in Nat
  BY <1>1, IndexSizeAssumption DEF Ordered
<1>3. d \in Nat /\ d \in Int /\ d <= h + o
  <2> HIDE DEF h, o
  <2>1. QED
    BY <1>1
<1>4. \A q \in 1 .. L : /\ q \in C <=> shift_of(m, q, d) \in 0 .. s[q].j
                        /\ q \in C => claim_of(m, s[q], d) = (s[q].i + 1) - 2^shift_of(m, q, d)
  <2> SUFFICES ASSUME NEW q \in 1 .. L
               PROVE  /\ q \in C <=> shift_of(m, q, d) \in 0 .. s[q].j
                      /\ q \in C => claim_of(m, s[q], d) = (s[q].i + 1) - 2^shift_of(m, q, d)
    OBVIOUS
  <2>1. q \in C <=> claim_of(m, s[q], d) # 0
    BY DEF claimed_of
  <2> HIDE DEF C
  <2>2. QED
    BY <1>3, <2>1, ClaimIs
<1>5. C # {}
  <2> HIDE DEF h, o
  <2>1. CASE d = 0
    <3>1. shift_of(m, L, d) = 0 /\ L \in 1 .. L
      BY <1>2, <2>1 DEF shift_of
    <3>2. 0 \in 0 .. s[L].j
      BY <1>2, <3>1
    <3>3. QED
      BY <1>4, <3>1, <3>2
  <2>2. CASE d # 0
    <3>1. 1 \in 1 .. L /\ shift_of(m, 1, d) = (IF L = 1 THEN d ELSE d - 1)
      BY <1>2 DEF shift_of
    <3>2. shift_of(m, 1, d) \in 0 .. h
      BY <1>1, <1>3, <2>2, <3>1
    <3>3. QED
      BY <1>4, <3>1, <3>2 DEF h
  <2>3. QED
    BY <2>1, <2>2
<1>6. C \in SUBSET Nat /\ L + 1 \in Nat /\ \A x \in C : x < L + 1 /\ x \in 1 .. L
  <2>1. C \subseteq 1 .. L
    BY DEF claimed_of
  <2> HIDE DEF C, L
  <2>2. QED
    BY <1>2, <2>1
<1> HIDE DEF C
<1>7. \E x \in C : \A y \in C : y <= x
  <2> DEFINE b == L + 1
  <2>1. b \in Nat /\ \A x \in C : x < b
    BY <1>6
  <2> HIDE DEF b
  <2>2. QED
    BY <1>5, <1>6, <2>1, GreatestElement
<1> DEFINE q == Max(C)
<1>8. q \in C /\ \A y \in C : y <= q
  <2>1. PICK x \in C : \A y \in C : x >= y
    BY <1>6, <1>7
  <2>2. q \in C /\ \A y \in C : q >= y
    BY <2>1 DEF Max
  <2> HIDE DEF q
  <2>3. QED
    BY <1>6, <2>2
<1>9. mark_of(m, d) = claim_of(m, s[q], d)
  BY <1>5 DEF mark_of, C
<1> HIDE DEF q
<1>10. ASSUME NEW p \in 1 .. L, q < p PROVE shift_of(m, p, d) \notin 0 .. s[p].j
  <2>1. p \notin C
    BY <1>2, <1>6, <1>8, <1>10
  <2>2. QED
    BY <1>4, <2>1
<1>11. Marks(m, d, q)
  BY <1>4, <1>6, <1>8, <1>9, <1>10 DEF Marks
<1>12. QED
  BY <1>11

\* The marks of the upper limits fall from m to 1.
LEMMA UpperMarksFall ==
    ASSUME NEW m \in Index \ {0}
    PROVE  LET T == ceil_log2(m)
           IN  /\ mark_of(m, 0) = m /\ mark_of(m, T) = 1
               /\ \A a \in 0 .. T : mark_of(m, a) \in Int
               /\ \A a, b \in 0 .. T : a < b => mark_of(m, b) <= mark_of(m, a)
<1> DEFINE s == pbst_roots(m)
           T == ceil_log2(m)
           h == s[1].j
           o == several(m)
           L == Len(s)
<1>1. /\ Ordered(s) /\ s[L].i = m /\ m \in Nat /\ s[1].i = 2^h
      /\ h \in Nat /\ T = h + o /\ o \in 0 .. 1 /\ o = IF L = 1 THEN 0 ELSE 1
  BY RootsAreOrdered, HeightIs, IndexIsNat DEF several
<1>2. L \in Nat \ {0} /\ \A q \in 1 .. L : s[q].j \in Nat /\ s[q].i \in Nat /\ 2^s[q].j \in Nat
  <2>1. L \in Nat \ {0} /\ \A q \in 1 .. L : s[q].j \in Nat /\ s[q].i \in Nat
    BY <1>1, IndexSizeAssumption DEF Ordered
  <2>2. QED
    BY <2>1, PowerCounts
<1> HIDE DEF h, o, T
<1>3. T \in Nat
  BY <1>1
<1>4. ASSUME NEW a \in 0 .. T, NEW q, Marks(m, a, q)
      PROVE  /\ q \in 1 .. L /\ shift_of(m, q, a) \in 0 .. s[q].j /\ shift_of(m, q, a) \in Nat
             /\ mark_of(m, a) = (s[q].i + 1) - 2^shift_of(m, q, a) /\ 2^shift_of(m, q, a) \in Nat
             /\ mark_of(m, a) \in Int
             /\ mark_of(m, a) > s[q].i - 2^s[q].j /\ mark_of(m, a) <= s[q].i
             /\ \A p \in 1 .. L : q < p => shift_of(m, p, a) \notin 0 .. s[p].j
  <2>1. /\ q \in 1 .. L /\ shift_of(m, q, a) \in 0 .. s[q].j
        /\ mark_of(m, a) = (s[q].i + 1) - 2^shift_of(m, q, a)
        /\ \A p \in 1 .. L : q < p => shift_of(m, p, a) \notin 0 .. s[p].j
    BY <1>4 DEF Marks
  <2>2. shift_of(m, q, a) \in Nat
    BY <1>2, <2>1
  <2>3. 2^shift_of(m, q, a) \in Nat
    BY <2>2, PowerCounts
  <2>4. (s[q].i + 1) - 2^shift_of(m, q, a) > s[q].i - 2^s[q].j /\ (s[q].i + 1) - 2^shift_of(m, q, a) <= s[q].i
    <3>1. a \in Int
      OBVIOUS
    <3>2. QED
      BY <2>1, <3>1, ClaimIs
  <2>5. mark_of(m, a) \in Int
    <3> DEFINE g == 2^shift_of(m, q, a)
    <3>1. g \in Nat /\ mark_of(m, a) = (s[q].i + 1) - g /\ s[q].i \in Nat
      BY <1>2, <2>1, <2>3
    <3> HIDE DEF g
    <3>2. QED
      BY <3>1
  <2>6. QED
    BY <2>1, <2>2, <2>3, <2>4, <2>5
<1>5. \A a \in 0 .. T : mark_of(m, a) \in Int
  <2> SUFFICES ASSUME NEW a \in 0 .. T PROVE mark_of(m, a) \in Int
    OBVIOUS
  <2>1. PICK q : Marks(m, a, q)
    BY MarkIs DEF T
  <2>2. QED
    BY <1>4, <2>1
<1>6. mark_of(m, 0) = m
  <2>1. 0 \in 0 .. T
    BY <1>3
  <2>2. PICK q : Marks(m, 0, q)
    BY <2>1, MarkIs DEF T
  <2>3. q \in 1 .. L /\ shift_of(m, q, 0) \in Nat /\ mark_of(m, 0) = (s[q].i + 1) - 2^shift_of(m, q, 0)
    BY <1>4, <2>1, <2>2
  <2>4. q = L /\ shift_of(m, q, 0) = 0
    BY <2>3 DEF shift_of
  <2>5. mark_of(m, 0) = (m + 1) - 1
    BY <1>1, <2>3, <2>4, PowerZero
  <2>6. QED
    BY <1>1, <2>5
<1>7. mark_of(m, T) = 1
  <2>1. T \in 0 .. T
    BY <1>3
  <2>2. PICK q : Marks(m, T, q)
    BY <2>1, MarkIs DEF T
  <2>3. q \in 1 .. L /\ shift_of(m, q, T) \in 0 .. s[q].j /\ mark_of(m, T) = (s[q].i + 1) - 2^shift_of(m, q, T)
    BY <1>4, <2>1, <2>2
  <2>4. q = 1
    <3> SUFFICES ASSUME q # 1 PROVE FALSE
      OBVIOUS
    <3>1. 1 \in 1 .. L /\ 1 < q /\ L # 1
      BY <1>2, <2>3
    <3>2. s[q].j < h /\ s[q].j \in Nat
      <4>1. s[q].j < s[1].j
        BY <1>1, <2>3, <3>1 DEF Ordered
      <4>2. QED
        BY <1>2, <2>3, <4>1 DEF h
    <3>3. shift_of(m, q, T) >= h
      BY <1>1, <3>1 DEF shift_of
    <3>4. QED
      BY <1>1, <2>3, <3>2, <3>3
  <2>5. shift_of(m, q, T) = h
    <3>1. shift_of(m, q, T) = IF L = 1 THEN T ELSE T - 1
      BY <2>4 DEF shift_of
    <3>2. QED
      BY <1>1, <3>1
  <2>6. mark_of(m, T) = (2^h + 1) - 2^h /\ 2^h \in Nat
    BY <1>1, <2>3, <2>4, <2>5, PowerCounts
  <2> DEFINE g == 2^h
  <2> HIDE DEF g
  <2>7. mark_of(m, T) = (g + 1) - g /\ g \in Nat
    BY <2>6 DEF g
  <2>8. QED
    BY <2>7
<1>8. ASSUME NEW a \in 0 .. T, NEW b \in 0 .. T, a < b PROVE mark_of(m, b) <= mark_of(m, a)
  <2>1. PICK q : Marks(m, a, q)
    BY MarkIs DEF T
  <2>2. PICK p : Marks(m, b, p)
    BY MarkIs DEF T
  <2>3. /\ q \in 1 .. L /\ shift_of(m, q, a) \in 0 .. s[q].j /\ shift_of(m, q, a) \in Nat
        /\ mark_of(m, a) = (s[q].i + 1) - 2^shift_of(m, q, a) /\ 2^shift_of(m, q, a) \in Nat
        /\ mark_of(m, a) \in Int /\ mark_of(m, a) > s[q].i - 2^s[q].j
        /\ \A t \in 1 .. L : q < t => shift_of(m, t, a) \notin 0 .. s[t].j
    BY <1>4, <2>1
  <2>4. /\ p \in 1 .. L /\ shift_of(m, p, b) \in 0 .. s[p].j /\ shift_of(m, p, b) \in Nat
        /\ mark_of(m, b) = (s[p].i + 1) - 2^shift_of(m, p, b) /\ 2^shift_of(m, p, b) \in Nat
        /\ mark_of(m, b) \in Int /\ mark_of(m, b) <= s[p].i
    BY <1>4, <2>2
  <2>5. CASE q < p
    <3>1. shift_of(m, p, a) \notin 0 .. s[p].j
      BY <2>3, <2>4, <2>5
    <3>2. shift_of(m, p, a) < shift_of(m, p, b) /\ shift_of(m, p, a) \in Int /\ shift_of(m, p, b) \in Int
      BY <1>3, <1>8 DEF shift_of
    <3>3. shift_of(m, p, a) < 0
      BY <1>2, <2>4, <3>1, <3>2
    <3>4. a = 0
      BY <1>3, <3>3 DEF shift_of
    <3>5. q = L
      BY <2>3, <3>4 DEF shift_of
    <3>6. QED
      BY <1>2, <2>4, <2>5, <3>5
  <2>6. CASE q = p
    <3>1. shift_of(m, q, a) < shift_of(m, q, b) /\ shift_of(m, q, a) \in Int /\ shift_of(m, q, b) \in Int
      BY <1>3, <1>8 DEF shift_of
    <3>2. 2^shift_of(m, q, a) <= 2^shift_of(m, q, b)
      BY <2>3, <2>4, <2>6, <3>1, PowerOrder
    <3> DEFINE x == 2^shift_of(m, q, a)
               y == 2^shift_of(m, q, b)
    <3>3. x <= y /\ x \in Nat /\ y \in Nat /\ s[q].i \in Nat
          /\ mark_of(m, a) = (s[q].i + 1) - x /\ mark_of(m, b) = (s[q].i + 1) - y
      BY <1>2, <2>3, <2>4, <2>6, <3>2
    <3> HIDE DEF x, y
    <3>4. QED
      BY <3>3
  <2>7. CASE p < q
    <3>1. q # 1 /\ q - 1 \in 1 .. L /\ (p < q - 1 \/ p = q - 1)
      <4>1. p \in 1 .. L /\ q \in 1 .. L /\ L \in Nat
        BY <1>2, <2>3, <2>4
      <4> HIDE DEF L
      <4>2. QED
        BY <2>7, <4>1
    <3>2. s[q].i - 2^s[q].j = s[q - 1].i
      BY <1>1, <2>3, <3>1 DEF Ordered
    <3>3. p < q - 1 => s[p].i < s[q - 1].i
      BY <1>1, <2>4, <3>1 DEF Ordered
    <3>4. s[q - 1].i \in Nat /\ s[p].i \in Nat
      BY <1>2, <2>4, <3>1
    <3>5. s[p].i <= s[q - 1].i
      BY <3>1, <3>3, <3>4
    <3>6. mark_of(m, a) > s[q - 1].i
      BY <2>3, <3>2
    <3>7. QED
      <4> DEFINE x == mark_of(m, b)
                 y == mark_of(m, a)
                 u == s[p].i
                 v == s[q - 1].i
      <4>1. x \in Int /\ x <= u /\ y \in Int /\ u \in Nat /\ v \in Nat /\ u <= v /\ y > v
        BY <2>3, <2>4, <3>4, <3>5, <3>6
      <4> HIDE DEF x, y, u, v
      <4>2. x <= y
        BY <4>1
      <4>3. QED
        BY <4>2 DEF x, y
  <2>8. QED
    BY <1>2, <2>3, <2>4, <2>5, <2>6, <2>7
<1>9. QED
  BY <1>5, <1>6, <1>7, <1>8 DEF T

\* No index is further away than the upper limits say.
LEMMA UpperLimit ==
    ASSUME NEW m \in Index \ {0}, NEW k \in 1 .. m
    PROVE  /\ \A d \in 1 .. ceil_log2(m) : mark_of(m, d) < k => entry_access_distance(k, m) <= d - 1
           /\ k = 1 => entry_access_distance(k, m) <= ceil_log2(m)
<1> DEFINE s == pbst_roots(m)
           T == ceil_log2(m)
           L == Len(s)
           D == entry_access_distance(k, m)
<1>1. Ordered(s) /\ m \in Nat /\ T \in Nat /\ T = s[1].j + several(m) /\ several(m) = IF L = 1 THEN 0 ELSE 1
  BY RootsAreOrdered, HeightIs, LowerMarksFall, IndexIsNat DEF several
<1>2. L \in Nat \ {0} /\ \A q \in 1 .. L : s[q].j \in 0 .. INDEX_SIZE - 1 /\ s[q].j \in Nat /\ s[q].i \in Nat
  BY <1>1, IndexSizeAssumption DEF Ordered
<1>3. k \in Int /\ k \in Nat \ {0}
  OBVIOUS
<1>4. PICK q \in 1 .. L : Holds(s[q], k)
  BY HolderIs
<1> DEFINE e == IF q = L THEN 0 ELSE 1
           y == s[q].i - k
<1>5. /\ y \in Nat /\ y < 2^s[q].j /\ D = count_ones(y) + e
      /\ D = (s[q].j - count_ones(k - range_start(s[q].i, s[q].j))) + e
  BY <1>3, <1>4, DistanceIs
<1> HIDE DEF D
<1>6. k = 1 => D <= T
  <2> SUFFICES ASSUME k = 1 PROVE D <= T
    OBVIOUS
  <2>1. q = 1
    <3> SUFFICES ASSUME q # 1 PROVE FALSE
      OBVIOUS
    <3>1. s[q].i - 2^s[q].j = s[q - 1].i /\ q - 1 \in 1 .. L
      BY <1>1, <1>2 DEF Ordered
    <3>2. s[q - 1].i \in Nat \ {0}
      BY <1>1, <3>1 DEF Ordered
    <3>3. s[q].i - 2^s[q].j < 1
      BY <1>4 DEF Holds
    <3>4. QED
      BY <3>1, <3>2, <3>3
  <2> DEFINE x == k - range_start(s[q].i, s[q].j)
  <2>2. count_ones(x) \in Nat
    BY OnesAreCounted
  <2> HIDE DEF x, T
  <2>3. e = several(m) /\ D = (s[1].j - count_ones(x)) + e /\ s[1].j \in Nat /\ several(m) \in Nat
    BY <1>1, <1>2, <1>5, <2>1 DEF x
  <2>4. QED
    BY <1>1, <2>2, <2>3
<1>7. ASSUME NEW d \in 1 .. T, mark_of(m, d) < k PROVE D <= d - 1
  <2> HIDE DEF T
  <2>1. d \in Nat \ {0} /\ d \in 0 .. T
    BY <1>1
  <2>2. PICK p : Marks(m, d, p)
    BY <2>1, MarkIs DEF T
  <2> DEFINE t == shift_of(m, p, d)
             g == 2^t
  <2>3. /\ p \in 1 .. L /\ t \in 0 .. s[p].j
        /\ mark_of(m, d) = (s[p].i + 1) - g
        /\ \A r \in 1 .. L : p < r => shift_of(m, r, d) \notin 0 .. s[r].j
    BY <2>2 DEF Marks
  <2>4. t \in Nat /\ g \in Nat /\ t = IF p = L THEN d ELSE d - 1
    <3>1. t \in Nat /\ t = IF p = L THEN d ELSE d - 1
      BY <1>2, <2>3 DEF shift_of
    <3>2. QED
      BY <3>1, PowerCounts
  <2>5. mark_of(m, d) > s[p].i - 2^s[p].j
    <3>1. d \in Int
      OBVIOUS
    <3>2. QED
      BY <2>3, <3>1, ClaimIs
  <2> HIDE DEF t, g, y, e
  <2>6. count_ones(y) \in Nat
    BY OnesAreCounted
  <2>7. CASE p = q
    <3>1. y + 1 < g
      <4>1. y = s[p].i - k /\ s[p].i \in Nat /\ (s[p].i + 1) - g < k
        BY <1>2, <1>7, <2>3, <2>7 DEF y
      <4>2. QED
        BY <1>3, <2>4, <4>1
    <3>2. t \in 0 .. INDEX_SIZE /\ y < g
      <4>1. t \in 0 .. s[p].j /\ s[p].j \in 0 .. INDEX_SIZE - 1
        BY <1>2, <2>3
      <4>2. t \in 0 .. INDEX_SIZE
        BY <4>1, IndexSizeAssumption
      <4>3. QED
        BY <1>5, <2>4, <3>1, <4>2
    <3>3. count_ones(y) <= t - 1
      BY <1>5, <3>1, <3>2, OnesBelow DEF g
    <3>4. e = IF p = L THEN 0 ELSE 1
      BY <2>7 DEF e
    <3>5. QED
      BY <1>5, <2>1, <2>4, <2>6, <3>3, <3>4
  <2>8. CASE p < q
    <3>1. shift_of(m, q, d) \notin 0 .. s[q].j /\ shift_of(m, q, d) = IF q = L THEN d ELSE d - 1
      BY <1>4, <2>3, <2>8 DEF shift_of
    <3>2. count_ones(y) <= s[q].j
      <4>1. s[q].j \in 0 .. INDEX_SIZE
        BY <1>2, <1>4, IndexSizeAssumption
      <4>2. QED
        BY <1>5, <4>1, OnesBelow
    <3>3. s[q].j \in Nat /\ s[q].j < IF q = L THEN d ELSE d - 1
      <4>1. s[q].j \in Nat
        BY <1>2, <1>4
      <4>2. QED
        BY <2>1, <3>1, <4>1
    <3>4. e = IF q = L THEN 0 ELSE 1
      BY DEF e
    <3>5. QED
      BY <1>5, <2>1, <2>6, <3>2, <3>3, <3>4
  <2>9. CASE q < p
    <3>1. p # 1 /\ p - 1 \in 1 .. L /\ (q < p - 1 \/ q = p - 1)
      <4>1. p \in 1 .. L /\ q \in 1 .. L /\ L \in Nat
        BY <1>2, <1>4, <2>3
      <4> HIDE DEF L
      <4>2. QED
        BY <2>9, <4>1
    <3>2. s[p].i - 2^s[p].j = s[p - 1].i
      BY <1>1, <2>3, <3>1 DEF Ordered
    <3>3. q < p - 1 => s[q].i < s[p - 1].i
      BY <1>1, <1>4, <3>1 DEF Ordered
    <3>4. s[p - 1].i \in Nat /\ s[q].i \in Nat
      BY <1>2, <1>4, <3>1
    <3>5. s[q].i <= s[p - 1].i
      BY <3>1, <3>3, <3>4
    <3>6. k <= s[q].i
      BY <1>4 DEF Holds
    <3>7. mark_of(m, d) > s[p - 1].i
      BY <2>5, <3>2
    <3>8. mark_of(m, d) \in Int
      BY <2>1, UpperMarksFall DEF T
    <3> DEFINE u == s[q].i
               v == s[p - 1].i
               x == mark_of(m, d)
    <3>9. x \in Int /\ u \in Nat /\ v \in Nat /\ u <= v /\ k <= u /\ x > v /\ x < k
      BY <1>7, <3>4, <3>5, <3>6, <3>7, <3>8
    <3> HIDE DEF u, v, x
    <3>10. FALSE
      BY <1>3, <3>9
    <3>11. QED
      BY <3>10
  <2>10. QED
    <3>1. p \in 1 .. L /\ q \in 1 .. L /\ L \in Nat
      BY <1>2, <1>4, <2>3
    <3> HIDE DEF L
    <3>2. p = q \/ p < q \/ q < p
      BY <3>1
    <3>3. QED
      BY <2>7, <2>8, <2>9, <3>2
<1>8. QED
  BY <1>6, <1>7 DEF D, T

\* The limits of a generation hold.
LimitsHold(m) ==
    \A k \in 1 .. m :
        LET at(ranges) == {d \in 1 .. Len(ranges) : ranges[d][1] <= k /\ k <= ranges[d][2]}
            low  == at(distance_lower_ranges(m))
            high == at(distance_upper_ranges(m))
        IN  /\ Cardinality(low) = 1 /\ Cardinality(high) = 1
            /\ \A l \in low, h \in high :
                  /\ l - 1 <= entry_access_distance(k, m)
                  /\ entry_access_distance(k, m) <= h - 1

AtRanges(ranges, k) == {d \in 1 .. Len(ranges) : ranges[d][1] <= k /\ k <= ranges[d][2]}

LEMMA LowerHolds ==
    ASSUME NEW m \in Index \ {0}, NEW k \in 1 .. m
    PROVE  \E l : AtRanges(distance_lower_ranges(m), k) = {l} /\ l - 1 <= entry_access_distance(k, m)
<1> DEFINE R == distance_lower_ranges(m)
           T == ceil_log2(m)
           M == [a \in 0 .. T |-> lower_mark(m, a)]
           D == entry_access_distance(k, m)
<1>1. /\ T \in Nat /\ Len(R) = T + 1 /\ R[1] = <<m, m>>
      /\ \A a \in 1 .. T : R[a + 1] = <<lower_mark(m, a), lower_mark(m, a - 1) - 1>>
  BY LowerRangesAre, LowerMarksFall
<1>2. /\ lower_mark(m, 0) = m /\ lower_mark(m, T) = 1
      /\ \A a \in 0 .. T : lower_mark(m, a) \in Nat
      /\ \A a, b \in 0 .. T : a < b => lower_mark(m, b) <= lower_mark(m, a)
  BY LowerMarksFall
<1>3. D \in Nat /\ \A a \in 1 .. T : k < lower_mark(m, a - 1) => a <= D
  BY LowerLimit
<1>4. m \in Nat \ {0} /\ k \in Int
  BY IndexIsNat
<1> HIDE DEF R, T, D
<1>5. \A a \in 0 .. T : M[a] = lower_mark(m, a)
  OBVIOUS
<1> HIDE DEF M
<1>6. ASSUME NEW d \in 2 .. T + 1
      PROVE  /\ d - 1 \in 1 .. T /\ R[d][1] = M[d - 1] /\ R[d][2] = M[d - 2] - 1
             /\ M[d - 1] \in Nat /\ M[d - 2] \in Nat /\ (d - 1) - 1 = d - 2
             /\ M[d - 2] = lower_mark(m, d - 2) /\ M[d - 2] <= m
  <2> DEFINE a == d - 1
  <2>1. a \in 1 .. T /\ a \in 0 .. T /\ a - 1 \in 0 .. T /\ a + 1 = d /\ a - 1 = d - 2
    BY <1>1
  <2> HIDE DEF a
  <2>2. R[a + 1] = <<lower_mark(m, a), lower_mark(m, a - 1) - 1>>
    BY <1>1, <2>1
  <2>3. M[a] = lower_mark(m, a) /\ M[a - 1] = lower_mark(m, a - 1) /\ M[a] \in Nat /\ M[a - 1] \in Nat
    BY <1>2, <1>5, <2>1
  <2>4. R[d] = <<M[a], M[a - 1] - 1>>
    BY <2>1, <2>2, <2>3
  <2>5. lower_mark(m, a - 1) <= m
    <3>1. a - 1 = 0 \/ 0 < a - 1
      BY <2>1
    <3>2. 0 \in 0 .. T
      BY <1>1
    <3>3. QED
      BY <1>2, <1>4, <2>1, <3>1, <3>2
  <2>6. QED
    BY <2>1, <2>3, <2>4, <2>5 DEF a
<1>7. \A d \in AtRanges(R, k) : d \in 1 .. T + 1 /\ R[d][1] <= k /\ k <= R[d][2]
  BY <1>1 DEF AtRanges
<1>8. CASE k = m
  <2>1. 1 \in AtRanges(R, k)
    BY <1>1, <1>4, <1>8 DEF AtRanges
  <2>2. ASSUME NEW d \in AtRanges(R, k) PROVE d = 1
    <3> SUFFICES ASSUME d # 1 PROVE FALSE
      OBVIOUS
    <3>1. d \in 2 .. T + 1
      BY <1>1, <1>7
    <3>2. k <= M[d - 2] - 1 /\ M[d - 2] \in Nat /\ M[d - 2] <= m
      BY <1>6, <1>7, <3>1
    <3>3. QED
      BY <1>4, <1>8, <3>2
  <2>3. AtRanges(R, k) = {1} /\ 1 - 1 <= D
    BY <1>3, <2>1, <2>2
  <2>4. QED
    BY <2>3 DEF R, D
<1>9. CASE k # m
  <2>1. M[T] <= k /\ k < M[0]
    <3>1. 0 \in 0 .. T /\ T \in 0 .. T
      BY <1>1
    <3>2. QED
      BY <1>2, <1>4, <1>5, <1>9, <3>1
  <2>2. (\A a \in 0 .. T : M[a] \in Int) /\ \A a, b \in 0 .. T : a < b => M[b] <= M[a]
    BY <1>2, <1>5
  <2>3. PICK d \in 1 .. T : \A c \in 1 .. T : (M[c] <= k /\ k < M[c - 1]) <=> c = d
    BY <1>1, <1>4, <2>1, <2>2, OneInterval
  <2> DEFINE l == d + 1
  <2>4. l \in 2 .. T + 1 /\ l - 1 = d /\ l - 2 = d - 1 /\ l \in 1 .. Len(R)
    BY <1>1
  <2>5. M[d] <= k /\ k < M[d - 1]
    BY <2>3
  <2> HIDE DEF l
  <2>6. l \in AtRanges(R, k)
    <3>1. R[l][1] = M[d] /\ R[l][2] = M[d - 1] - 1 /\ M[d - 1] \in Nat
      BY <1>6, <2>4
    <3>2. k <= M[d - 1] - 1
      BY <1>4, <2>5, <3>1
    <3>3. QED
      BY <2>4, <2>5, <3>1, <3>2 DEF AtRanges
  <2>7. ASSUME NEW c \in AtRanges(R, k) PROVE c = l
    <3>1. c # 1
      <4>1. c = 1 => R[c][1] = m
        BY <1>1
      <4>2. ~(m <= k)
        BY <1>4, <1>9
      <4>3. QED
        BY <1>7, <4>1, <4>2
    <3>2. c \in 2 .. T + 1
      BY <1>1, <1>7, <3>1
    <3>3. c - 1 \in 1 .. T /\ M[c - 1] <= k /\ k <= M[c - 2] - 1 /\ M[c - 2] \in Nat /\ (c - 1) - 1 = c - 2
      BY <1>6, <1>7, <3>2
    <3>4. k < M[(c - 1) - 1]
      BY <1>4, <3>3
    <3>5. c - 1 = d
      BY <2>3, <3>3, <3>4
    <3>6. QED
      BY <2>4, <3>2, <3>5
  <2>8. d <= D
    <3>1. M[d - 1] = lower_mark(m, d - 1)
      BY <1>6, <2>4
    <3>2. QED
      BY <1>3, <2>5, <3>1
  <2>9. AtRanges(R, k) = {l} /\ l - 1 <= D
    BY <2>4, <2>6, <2>7, <2>8
  <2>10. QED
    BY <2>9 DEF R, D
<1>10. QED
  BY <1>8, <1>9

LEMMA UpperHolds ==
    ASSUME NEW m \in Index \ {0}, NEW k \in 1 .. m
    PROVE  \E h : AtRanges(distance_upper_ranges(m), k) = {h} /\ entry_access_distance(k, m) <= h - 1
<1> DEFINE R == distance_upper_ranges(m)
           T == ceil_log2(m)
           M == [a \in 0 .. T |-> mark_of(m, a)]
           D == entry_access_distance(k, m)
<1>1. /\ T \in Nat /\ Len(R) = T + 1 /\ R[T + 1] = <<1, 1>>
      /\ \A d \in 1 .. T : R[d] = <<mark_of(m, d) + 1, mark_of(m, d - 1)>>
  BY UpperRangesAre, LowerMarksFall
<1>2. /\ mark_of(m, 0) = m /\ mark_of(m, T) = 1
      /\ \A a \in 0 .. T : mark_of(m, a) \in Int
      /\ \A a, b \in 0 .. T : a < b => mark_of(m, b) <= mark_of(m, a)
  BY UpperMarksFall
<1>3. (k = 1 => D <= T) /\ \A d \in 1 .. T : mark_of(m, d) < k => D <= d - 1
  BY UpperLimit
<1>4. m \in Nat \ {0} /\ k \in Nat \ {0} /\ k <= m
  BY IndexIsNat
<1> HIDE DEF R, T, D
<1>5. \A a \in 0 .. T : M[a] = mark_of(m, a) /\ M[a] \in Int
  BY <1>2
<1> HIDE DEF M
<1>6. ASSUME NEW d \in 1 .. T
      PROVE  /\ R[d][1] = M[d] + 1 /\ R[d][2] = M[d - 1] /\ M[d] = mark_of(m, d)
             /\ M[d] \in Int /\ M[d - 1] \in Int /\ M[d] >= 1
  <2>1. d \in 0 .. T /\ d - 1 \in 0 .. T /\ T \in 0 .. T /\ (d = T \/ d < T)
    BY <1>1
  <2>2. M[d] = mark_of(m, d) /\ M[d - 1] = mark_of(m, d - 1) /\ M[d] \in Int /\ M[d - 1] \in Int
    BY <1>5, <2>1
  <2>3. R[d] = <<M[d] + 1, M[d - 1]>>
    BY <1>1, <2>2
  <2>4. mark_of(m, d) >= 1
    BY <1>2, <2>1
  <2>5. QED
    BY <2>2, <2>3, <2>4
<1>7. \A d \in AtRanges(R, k) : d \in 1 .. T + 1 /\ R[d][1] <= k /\ k <= R[d][2]
  BY <1>1 DEF AtRanges
<1>8. CASE k = 1
  <2>1. T + 1 \in AtRanges(R, k)
    BY <1>1, <1>8 DEF AtRanges
  <2>2. ASSUME NEW d \in AtRanges(R, k) PROVE d = T + 1
    <3> SUFFICES ASSUME d # T + 1 PROVE FALSE
      OBVIOUS
    <3>1. d \in 1 .. T
      BY <1>1, <1>7
    <3>2. M[d] + 1 <= 1 /\ M[d] \in Int /\ M[d] >= 1
      BY <1>6, <1>7, <1>8, <3>1
    <3>3. QED
      BY <3>2
  <2>3. AtRanges(R, k) = {T + 1} /\ D <= (T + 1) - 1
    BY <1>1, <1>3, <1>8, <2>1, <2>2
  <2>4. QED
    BY <2>3 DEF R, D
<1>9. CASE k # 1
  <2> DEFINE g == k - 1
  <2>1. g \in Nat \ {0} /\ g < m /\ k = g + 1
    BY <1>4, <1>9
  <2> HIDE DEF g
  <2>2. M[T] <= g /\ g < M[0] /\ g \in Int
    <3>1. 0 \in 0 .. T /\ T \in 0 .. T
      BY <1>1
    <3>2. QED
      BY <1>2, <1>5, <2>1, <3>1
  <2>3. (\A a \in 0 .. T : M[a] \in Int) /\ \A a, b \in 0 .. T : a < b => M[b] <= M[a]
    BY <1>2, <1>5
  <2>4. PICK d \in 1 .. T : \A c \in 1 .. T : (M[c] <= g /\ g < M[c - 1]) <=> c = d
    BY <1>1, <2>2, <2>3, OneInterval
  <2>5. \A c \in 1 .. T : (R[c][1] <= k /\ k <= R[c][2]) <=> c = d
    <3> SUFFICES ASSUME NEW c \in 1 .. T PROVE (R[c][1] <= k /\ k <= R[c][2]) <=> c = d
      OBVIOUS
    <3>1. R[c][1] = M[c] + 1 /\ R[c][2] = M[c - 1] /\ M[c] \in Int /\ M[c - 1] \in Int
      BY <1>6
    <3>2. (R[c][1] <= k /\ k <= R[c][2]) <=> (M[c] <= g /\ g < M[c - 1])
      BY <2>1, <3>1
    <3>3. QED
      BY <2>4, <3>2
  <2>6. d \in AtRanges(R, k)
    <3>1. d \in 1 .. Len(R)
      BY <1>1
    <3>2. QED
      BY <2>5, <3>1 DEF AtRanges
  <2>7. ASSUME NEW c \in AtRanges(R, k) PROVE c = d
    <3>1. c # T + 1
      <4>1. c = T + 1 => R[c][2] = 1
        BY <1>1
      <4>2. ~(k <= 1)
        BY <1>4, <1>9
      <4>3. QED
        BY <1>7, <4>1, <4>2
    <3>2. c \in 1 .. T
      BY <1>1, <1>7, <3>1
    <3>3. QED
      BY <1>7, <2>5, <3>2
  <2>8. D <= d - 1
    <3>1. M[d] <= g /\ M[d] = mark_of(m, d) /\ M[d] \in Int
      BY <1>6, <2>4
    <3>2. mark_of(m, d) < k
      BY <2>1, <3>1
    <3>3. QED
      BY <1>3, <3>2
  <2>9. QED
    BY <2>6, <2>7, <2>8 DEF R, D
<1>10. QED
  BY <1>8, <1>9

LEMMA LimitsAreRight ==
    ASSUME NEW m \in Index \ {0}
    PROVE  LimitsHold(m)
<1> SUFFICES ASSUME NEW k \in 1 .. m
             PROVE  LET low  == AtRanges(distance_lower_ranges(m), k)
                        high == AtRanges(distance_upper_ranges(m), k)
                    IN  /\ Cardinality(low) = 1 /\ Cardinality(high) = 1
                        /\ \A l \in low, h \in high :
                              /\ l - 1 <= entry_access_distance(k, m)
                              /\ entry_access_distance(k, m) <= h - 1
  BY DEF LimitsHold, AtRanges
<1>1. PICK l : AtRanges(distance_lower_ranges(m), k) = {l} /\ l - 1 <= entry_access_distance(k, m)
  BY LowerHolds
<1>2. PICK h : AtRanges(distance_upper_ranges(m), k) = {h} /\ entry_access_distance(k, m) <= h - 1
  BY UpperHolds
<1>3. Cardinality({l}) = 1 /\ Cardinality({h}) = 1
  BY FS_Singleton
<1>4. QED
  BY <1>1, <1>2, <1>3

LEMMA WrittenLimits == Written => LimitsBoundDistance
<1> SUFFICES ASSUME Written, n > 0 PROVE LimitsHold(n)
  BY DEF LimitsBoundDistance, LimitsHold
<1>1. n \in Index \ {0}
  BY TopIs
<1>2. QED
  BY <1>1, LimitsAreRight

-----------------------------------------------------------------------------
(* The distances count the turns on the way down.                          *)

\* The leaves of a perfect subtree that ends with the generation.
LEMMA PerfectDistance ==
    ASSUME NEW m \in Index \ {0}, NEW j \in Nat, m % 2^j = 0,
           NEW k \in Int, m - 2^j < k, k <= m
    PROVE  entry_access_distance(k, m) = count_ones(m - k)
<1> DEFINE s == pbst_roots(m)
           h == s[Len(s)].j
<1>1. m \in Nat \ {0} /\ 2^j \in Nat
  BY IndexIsNat, PowerCounts
<1>2. Ordered(s) /\ s[Len(s)].i = m
  BY RootsAreOrdered
<1>3. Len(s) \in 1 .. Len(s) /\ h \in Nat
  <2> HIDE DEF s
  <2>1. Len(s) \in Nat \ {0} /\ \A q \in 1 .. Len(s) : s[q].j \in 0 .. INDEX_SIZE - 1
    BY <1>2 DEF Ordered
  <2>2. Len(s) \in 1 .. Len(s)
    BY <2>1
  <2>3. QED
    BY <2>1, <2>2
<1>4. one_at(m, h)
  <2>1. s[Len(s)] \in ToSet(s)
    <3> HIDE DEF s
    <3>1. DOMAIN s = 1 .. Len(s)
      BY <1>2 DEF Ordered
    <3>2. QED
      BY <1>3, <3>1 DEF ToSet
  <2>2. is_root(m, s[Len(s)].i, h)
    BY <2>1, RootsAre
  <2>3. QED
    BY <2>2 DEF is_root
<1>5. j <= h
  BY <1>1, <1>3, <1>4, OnesStandAbove
<1>6. 2^j <= 2^h /\ 2^h \in Nat
  BY <1>3, <1>5, PowerOrder, PowerCounts
<1>7. Holds(s[Len(s)], k)
  BY <1>1, <1>2, <1>6 DEF Holds
<1>8. entry_access_distance(k, m) = count_ones(s[Len(s)].i - k) + 0 /\ s[Len(s)].i - k \in Nat
  BY <1>3, <1>7, DistanceIs
<1>9. QED
  BY <1>2, <1>8, OnesAreCounted

\* One more entry has to be read for a leaf on the left of an inode.
LEMMA LeftDistance ==
    ASSUME NEW m \in Index \ {0}, NEW a \in 1 .. Len(inodes(m)), NEW k \in Over(inodes(m)[a].left)
    PROVE  entry_access_distance(k, m) = entry_access_distance(k, inodes(m)[a].left.i) + 1
<1> DEFINE w == inodes(m)[a]
           j == w.node.j
           e == w.left.j
           l == w.left.i
           f == range_start(m, j)
           p == 2^e
<1>1. /\ e = j - 1 /\ j \in Nat \ {0} /\ w.left = Addr(l, e) /\ l \in 1 .. m - 1 /\ l \in Index \ {0}
      /\ f \in 1 .. l /\ l = (f + p) - 1 /\ (m - f) + 1 <= 2 * p
      /\ range_start(l, e) = f /\ e < INDEX_SIZE /\ l % p = 0
  <2>1. /\ w.left = Addr(l, j - 1) /\ j \in Nat \ {0} /\ l \in 1 .. m - 1 /\ l \in Index \ {0}
        /\ f \in 1 .. l /\ l = (f + 2^(j - 1)) - 1 /\ (m - f) + 1 <= 2 * 2^(j - 1)
        /\ range_start(l, j - 1) = f /\ j - 1 < INDEX_SIZE /\ l % 2^(j - 1) = 0
    BY InodeStands
  <2>2. e = j - 1
    BY <2>1 DEF Addr
  <2>3. QED
    BY <2>1, <2>2
<1>2. m \in Nat \ {0} /\ l \in Nat \ {0} /\ e \in Nat /\ p \in Nat \ {0} /\ INDEX_SIZE \in Nat
  <2>1. m \in Nat \ {0} /\ INDEX_SIZE \in Nat
    BY IndexIsNat
  <2>2. e \in Nat /\ l \in Nat \ {0}
    <3> HIDE DEF e, l, j, f, p
    <3>1. QED
      BY <1>1, <2>1
  <2>3. p \in Nat \ {0}
    BY <2>2, PowerCounts
  <2>4. QED
    BY <2>1, <2>2, <2>3
<1>3. k \in Nat /\ f <= k /\ k <= l
  BY <1>1 DEF Over, contains
<1>4. PICK h \in 0 .. Len(inodes(m)) :
         /\ \A b \in 1 .. Len(inodes(m)) : b <= h <=> is_pbst(m, inodes(m)[b].node.j)
         /\ \A b \in h + 1 .. Len(inodes(m)) : is_root(m, inodes(m)[b].left.i, inodes(m)[b].left.j)
  BY InodesSplit
<1>5. is_pbst(m, j) \/ is_root(m, l, e)
  <2>1. a <= h \/ a \in h + 1 .. Len(inodes(m))
    OBVIOUS
  <2>2. QED
    BY <1>4, <2>1
<1> HIDE DEF w, j, e, l, f, p
<1>6. entry_access_distance(k, l) = count_ones(l - k) /\ l - k \in Nat /\ l - k < p
  <2>1. l - p < k
    BY <1>1, <1>2, <1>3
  <2>2. l - k \in Nat /\ l - k < p
    BY <1>2, <1>3, <2>1
  <2>3. entry_access_distance(k, l) = count_ones(l - k)
    BY <1>1, <1>2, <1>3, <2>1, PerfectDistance DEF p
  <2>4. QED
    BY <2>2, <2>3
<1>7. CASE is_root(m, l, e)
  <2> DEFINE s == pbst_roots(m)
  <2>1. Addr(l, e) \in ToSet(s)
    BY <1>2, <1>7, RootsAre
  <2>2. Ordered(s) /\ s[Len(s)].i = m
    BY RootsAreOrdered
  <2>3. PICK q \in 1 .. Len(s) : s[q] = Addr(l, e)
    <3> HIDE DEF s
    <3>1. DOMAIN s = 1 .. Len(s)
      BY <2>2 DEF Ordered
    <3>2. QED
      BY <2>1, <3>1 DEF ToSet
  <2>4. s[q].i = l /\ s[q].j = e
    BY <2>3 DEF Addr
  <2>5. q # Len(s)
    BY <1>1, <1>2, <2>2, <2>4
  <2>6. Holds(s[q], k)
    BY <1>1, <1>2, <1>3, <2>4 DEF Holds, p
  <2>7. entry_access_distance(k, m) = count_ones(s[q].i - k) + 1
    <3>1. k \in Int
      BY <1>3
    <3>2. entry_access_distance(k, m) = count_ones(s[q].i - k) + IF q = Len(s) THEN 0 ELSE 1
      BY <2>6, <3>1, DistanceIs
    <3>3. QED
      BY <2>5, <3>2
  <2>8. QED
    BY <1>6, <2>4, <2>7 DEF w, l
<1>8. CASE is_pbst(m, j)
  <2> DEFINE d == 2^j
  <2>1. m % d = 0
    BY <1>1, <1>8, PbstDivides
  <2>2. d \in Nat \ {0} /\ d = 2 * p
    <3>1. 2^(e + 1) = 2 * 2^e /\ j = e + 1
      BY <1>1, <1>2, PowerDoubles
    <3>2. QED
      BY <1>1, <3>1, PowerCounts DEF p
  <2>3. d <= m
    <3> HIDE DEF d
    <3>1. QED
      BY <1>2, <2>1, <2>2
  <2>4. j < INDEX_SIZE
    <3>1. 2^INDEX_SIZE \in Nat /\ m < 2^INDEX_SIZE
      BY <1>2, PowerCounts DEF Index
    <3>2. ~(2^INDEX_SIZE <= 2^j)
      <4> DEFINE u == 2^INDEX_SIZE
      <4>1. u \in Nat /\ m < u /\ ~(u <= d)
        BY <1>2, <2>2, <2>3, <3>1
      <4>2. QED
        BY <4>1
    <3>3. QED
      BY <1>1, <1>2, <3>2, PowerOrder
  <2>5. f = (m - d) + 1
    BY <1>1, <1>2, <1>8, <2>4, PerfectRange DEF f
  <2> HIDE DEF d
  <2>6. m - k = p + (l - k) /\ m - d < k /\ k <= m
    BY <1>1, <1>2, <1>3, <2>2, <2>5
  <2>7. entry_access_distance(k, m) = count_ones(m - k)
    BY <1>1, <1>2, <1>3, <2>1, <2>6, PerfectDistance DEF d
  <2>8. count_ones(p + (l - k)) = count_ones(l - k) + 1
    BY <1>1, <1>2, <1>6, OneOnTop DEF p
  <2>9. QED
    BY <1>6, <2>6, <2>7, <2>8 DEF w, l
<1>9. QED
  BY <1>5, <1>7, <1>8

\* No entry has to be read for the leaf of an entry itself, and none is at hand
\* for an index that the generation does not have.
LEMMA OwnDistance ==
    ASSUME NEW m \in Index \ {0}
    PROVE  entry_access_distance(m, m) = 0
<1>1. m \in Nat /\ 2^0 = 1
  BY IndexIsNat, PowerZero
<1>2. m % 2^0 = 0 /\ m - 2^0 < m
  BY <1>1
<1>3. entry_access_distance(m, m) = count_ones(m - m)
  <2>1. m \in Int /\ m <= m /\ 0 \in Nat
    BY <1>1
  <2>2. QED
    BY <1>2, <2>1, PerfectDistance
<1>4. m - m = 0
  BY <1>1
<1>5. QED
  BY <1>3, <1>4, CountOnesZero

LEMMA NoDistance ==
    ASSUME NEW m \in Index
    PROVE  entry_access_distance(m + 1, m) = NoIndex
<1>1. m \in Nat
  BY IndexIsNat
<1>2. \A r \in ToSet(pbst_roots(m)) : r.i \in 1 .. m
  BY RootsAre
<1>3. \A r \in ToSet(pbst_roots(m)) : ~contains(r.i, r.j, m + 1)
  BY <1>1, <1>2 DEF contains
<1>4. QED
  BY <1>3 DEF entry_access_distance

-----------------------------------------------------------------------------
(* The ways down the written tree.                                         *)

LEMMA CountIsNat ==
    ASSUME NEW goal, NEW m \in Index \ {0}, NEW j \in Nat, HasNode(m, j)
    PROVE  count_of(goal)[Addr(m, j)] \in Nat
<1> DEFINE g == count_of(goal)
           S == {x \in Addrs : g[x] \in Nat}
<1>1. \A i \in Index \ {0} : Addr(i, 0) \in S
  <2> SUFFICES ASSUME NEW i \in Index \ {0} PROVE Addr(i, 0) \in S
    OBVIOUS
  <2>1. Addr(i, 0) \in Addrs
    BY IndexSizeAssumption DEF Addr, Addrs, Height
  <2>2. g[Addr(i, 0)] = 0
    BY CountStep
  <2> HIDE DEF g
  <2>3. QED
    BY <2>1, <2>2
<1>2. ASSUME NEW i \in Index \ {0}, NEW k \in 1 .. Len(inodes(i)),
             inodes(i)[k].left \in S, inodes(i)[k].right \in S
      PROVE  inodes(i)[k].node \in S
  <2> DEFINE w == inodes(i)[k]
  <2>1. w.node \in Addrs
    BY InodeChildren
  <2>2. g[w.node] = 1 + IF contains(w.left.i, w.left.j, goal) THEN g[w.left] ELSE g[w.right]
    BY CountStep
  <2>3. g[w.left] \in Nat /\ g[w.right] \in Nat
    BY <1>2
  <2> HIDE DEF w, g
  <2>4. g[w.node] \in Nat
    BY <2>2, <2>3
  <2>5. QED
    BY <2>1, <2>4 DEF w
<1> HIDE DEF S
<1>3. Addr(m, j) \in S
  BY <1>1, <1>2, NodeInduction
<1>4. QED
  BY <1>3 DEF S

\* The recursion of Routes, from a node down.
route_step(f, x) ==
    IF x.j = 0 THEN {Route(x.i, 0, 0)}
    ELSE UNION {{Route(r.leaf, r.branches + 1, r.lefts + 1) : r \in f[w.left]}
                \cup {Route(r.leaf, r.branches + 1, r.lefts) : r \in f[w.right]} :
                   w \in InodesAt(x.i, x.j)}
routes_of(i, j) == CHOOSE f : f = [x \in [i : 1 .. i, j : 0 .. j] |-> route_step(f, x)]

LEMMA RoutesUnfold == Routes = IF n = 0 THEN {} ELSE routes_of(n, Top.j)[Top]
BY DEF Routes, routes_of, route_step

\* The ways from a node to the leaves below it, as the formulas count them.
RoutesTo(x) == {Route(k, count_of(k)[x], entry_access_distance(k, x.i)) : k \in Over(x)}

LEMMA LeafRoutes ==
    ASSUME NEW m \in Index \ {0}
    PROVE  RoutesTo(Addr(m, 0)) = {Route(m, 0, 0)}
<1>1. Over(Addr(m, 0)) = {m} /\ Addr(m, 0).i = m
  BY OverLeaf DEF Addr
<1>2. count_of(m)[Addr(m, 0)] = 0
  BY CountStep
<1>3. entry_access_distance(m, m) = 0
  BY OwnDistance
<1>4. QED
  BY <1>1, <1>2, <1>3 DEF RoutesTo

LEMMA InodeRoutes ==
    ASSUME NEW m \in Index \ {0}, NEW a \in 1 .. Len(inodes(m))
    PROVE  LET w == inodes(m)[a]
           IN  RoutesTo(w.node) =
                 {Route(r.leaf, r.branches + 1, r.lefts + 1) : r \in RoutesTo(w.left)}
                 \cup {Route(r.leaf, r.branches + 1, r.lefts) : r \in RoutesTo(w.right)}
<1> DEFINE w == inodes(m)[a]
           l == w.left
           r == w.right
           toLeft(k) == Route(k, count_of(k)[l], entry_access_distance(k, l.i))
           toRight(k) == Route(k, count_of(k)[r], entry_access_distance(k, r.i))
           toNode(k) == Route(k, count_of(k)[w.node], entry_access_distance(k, w.node.i))
           oneLeft(q) == Route(q.leaf, q.branches + 1, q.lefts + 1)
           oneRight(q) == Route(q.leaf, q.branches + 1, q.lefts)
<1>1. /\ w.node.i = m /\ r.i = m /\ l = Addr(l.i, l.j) /\ r = Addr(m, r.j)
      /\ l.i \in Index \ {0} /\ l.j \in Nat /\ r.j \in Nat
      /\ HasNode(l.i, l.j) /\ HasNode(m, r.j)
  <2>1. /\ w.node = Addr(m, w.node.j) /\ l = Addr(l.i, l.j) /\ r = Addr(m, r.j)
        /\ l.i \in Index \ {0} /\ l.j \in 0 .. w.node.j - 1 /\ r.j \in 0 .. w.node.j - 1
        /\ HasNode(l.i, l.j) /\ HasNode(m, r.j)
    BY InodeChildren
  <2>2. w.node.i = m /\ r.i = m
    BY <2>1 DEF Addr
  <2>3. l.j \in Nat /\ r.j \in Nat
    BY <2>1
  <2>4. QED
    BY <2>1, <2>2, <2>3
<1>2. Over(w.node) = Over(l) \cup Over(r) /\ Over(l) \cap Over(r) = {}
  BY OverInode
<1>3. ASSUME NEW k \in Over(l) PROVE oneLeft(toLeft(k)) = toNode(k)
  <2>1. count_of(k)[w.node] = 1 + count_of(k)[l]
    <3>1. contains(l.i, l.j, k)
      BY <1>3 DEF Over
    <3>2. count_of(k)[w.node] = 1 + IF contains(l.i, l.j, k) THEN count_of(k)[l] ELSE count_of(k)[r]
      BY CountStep
    <3>3. QED
      BY <3>1, <3>2
  <2>2. count_of(k)[l] \in Nat
    BY <1>1, CountIsNat
  <2>3. entry_access_distance(k, m) = entry_access_distance(k, l.i) + 1
    BY <1>3, LeftDistance
  <2>4. count_of(k)[w.node] = count_of(k)[l] + 1
    BY <2>1, <2>2
  <2>5. QED
    BY <1>1, <2>3, <2>4 DEF Route
<1>4. ASSUME NEW k \in Over(r) PROVE oneRight(toRight(k)) = toNode(k)
  <2>1. count_of(k)[w.node] = 1 + count_of(k)[r]
    <3>1. k \in Nat /\ ~contains(l.i, l.j, k)
      BY <1>2, <1>4 DEF Over
    <3>2. count_of(k)[w.node] = 1 + IF contains(l.i, l.j, k) THEN count_of(k)[l] ELSE count_of(k)[r]
      BY CountStep
    <3>3. QED
      BY <3>1, <3>2
  <2>2. count_of(k)[r] \in Nat
    BY <1>1, CountIsNat
  <2>3. count_of(k)[w.node] = count_of(k)[r] + 1
    BY <2>1, <2>2
  <2>4. QED
    BY <1>1, <2>3 DEF Route
<1>5. /\ RoutesTo(w.node) = {toNode(k) : k \in Over(w.node)}
      /\ RoutesTo(l) = {toLeft(k) : k \in Over(l)}
      /\ RoutesTo(r) = {toRight(k) : k \in Over(r)}
  BY DEF RoutesTo
<1>6. {oneLeft(q) : q \in RoutesTo(l)} = {toNode(k) : k \in Over(l)}
  <2> HIDE DEF oneLeft, toLeft, toNode, l, r, w
  <2>1. {oneLeft(q) : q \in RoutesTo(l)} = {oneLeft(toLeft(k)) : k \in Over(l)}
    BY <1>5
  <2>2. QED
    BY <1>3, <2>1
<1>7. {oneRight(q) : q \in RoutesTo(r)} = {toNode(k) : k \in Over(r)}
  <2> HIDE DEF oneRight, toRight, toNode, l, r, w
  <2>1. {oneRight(q) : q \in RoutesTo(r)} = {oneRight(toRight(k)) : k \in Over(r)}
    BY <1>5
  <2>2. QED
    BY <1>4, <2>1
<1>8. RoutesTo(w.node) = {oneLeft(q) : q \in RoutesTo(l)} \cup {oneRight(q) : q \in RoutesTo(r)}
  <2> HIDE DEF oneLeft, oneRight, toNode, l, r, w
  <2>1. QED
    BY <1>2, <1>5, <1>6, <1>7
<1>9. QED
  BY <1>8

\* A function that gives every node of an entry the ways to its leaves solves
\* the recursion of Routes there.
LEMMA RouteStep ==
    ASSUME Written, NEW f, NEW m \in 1 .. n, NEW j \in Nat, HasNode(m, j),
           NEW i \in Nat, m <= i,
           \A y \in [i : 1 .. i, j : 0 .. j] :
               y.j < j /\ y.i \in 1 .. m /\ HasNode(y.i, y.j) => f[y] = RoutesTo(y)
    PROVE  route_step(f, Addr(m, j)) = RoutesTo(Addr(m, j))
<1>0. m \in Index \ {0} /\ m \in Nat \ {0} /\ i \in Nat \ {0}
  BY InodesHere, IndexIsNat
<1>1. Addr(m, j).i = m /\ Addr(m, j).j = j
  BY DEF Addr
<1>2. CASE j = 0
  BY <1>0, <1>1, <1>2, LeafRoutes DEF route_step
<1>3. CASE j # 0
  <2>1. PICK k \in 1 .. Len(inodes(m)) : inodes(m)[k].node.j = j
    BY <1>3 DEF HasNode
  <2> DEFINE w == inodes(m)[k]
             oneLeft(q) == Route(q.leaf, q.branches + 1, q.lefts + 1)
             oneRight(q) == Route(q.leaf, q.branches + 1, q.lefts)
  <2>2. InodesAt(m, j) = {w}
    BY <2>1, InodesHere
  <2>3. /\ w.left \in [i : 1 .. i, j : 0 .. j] /\ w.right \in [i : 1 .. i, j : 0 .. j]
        /\ w.left.i \in Index \ {0} /\ w.left.i <= m /\ w.right.i = m
        /\ w.left.j \in 0 .. j - 1 /\ w.right.j \in 0 .. j - 1
        /\ HasNode(w.left.i, w.left.j) /\ HasNode(m, w.right.j)
    BY <1>0, <2>1, ChildrenBelow, SMTT(30)
  <2>4. RoutesTo(w.node) = {oneLeft(q) : q \in RoutesTo(w.left)}
                           \cup {oneRight(q) : q \in RoutesTo(w.right)}
    BY <1>0, InodeRoutes
  <2>5. w.node = Addr(m, j)
    BY <1>0, <2>1, InodeChildren
  <2> HIDE DEF w
  <2>6. f[w.left] = RoutesTo(w.left)
    <3>1. w.left.i \in 1 .. m /\ w.left.j < j
      BY <1>0, <2>3, IndexIsNat
    <3>2. QED
      BY <2>3, <3>1
  <2>7. f[w.right] = RoutesTo(w.right)
    BY <1>0, <2>3
  <2>8. route_step(f, Addr(m, j)) = {oneLeft(q) : q \in f[w.left]} \cup {oneRight(q) : q \in f[w.right]}
    BY <1>1, <1>3, <2>2 DEF route_step
  <2>9. QED
    BY <2>4, <2>5, <2>6, <2>7, <2>8
<1>4. QED
  BY <1>2, <1>3

\* The ways that are read off the written inodes are those that the formulas
\* count.
LEMMA RoutesAre ==
    ASSUME Written, NEW i \in 1 .. n, NEW j \in Nat, HasNode(i, j)
    PROVE  routes_of(i, j)[Addr(i, j)] = RoutesTo(Addr(i, j))
<1> DEFINE D == [i : 1 .. i, j : 0 .. j]
           g == [x \in D |-> IF HasNode(x.i, x.j) THEN RoutesTo(x) ELSE {}]
           f == routes_of(i, j)
<1>0. n \in Nat /\ i \in Nat \ {0} /\ \A x \in D : x.i \in 1 .. n /\ x.i <= i /\ x.j \in Nat /\ x = Addr(x.i, x.j)
  <2>1. n \in Nat
    BY GenerationAssumption, IndexIsNat DEF Written
  <2>2. QED
    BY <2>1 DEF Addr
<1>1. g = [x \in D |-> route_step(g, x)]
  <2> SUFFICES ASSUME NEW x \in D PROVE g[x] = route_step(g, x)
    OBVIOUS
  <2>1. x.i \in 1 .. n /\ x.i <= i /\ x.j \in Nat /\ x = Addr(x.i, x.j)
    BY <1>0
  <2>2. CASE HasNode(x.i, x.j)
    <3>1. \A y \in D : HasNode(y.i, y.j) => g[y] = RoutesTo(y)
      OBVIOUS
    <3>2. g[x] = RoutesTo(x)
      BY <2>2
    <3> HIDE DEF g
    <3>3. \A y \in [i : 1 .. i, j : 0 .. x.j] :
               y.j < x.j /\ y.i \in 1 .. x.i /\ HasNode(y.i, y.j) => g[y] = RoutesTo(y)
      BY <3>1
    <3>4. route_step(g, Addr(x.i, x.j)) = RoutesTo(Addr(x.i, x.j))
      BY <1>0, <2>1, <2>2, <3>3, RouteStep
    <3>5. QED
      BY <2>1, <3>2, <3>4
  <2>3. CASE ~HasNode(x.i, x.j)
    <3>1. x.j # 0
      BY <2>3 DEF HasNode
    <3>2. InodesAt(x.i, x.j) = {}
      BY <2>1, <2>3, InodesHere DEF HasNode
    <3>3. g[x] = {}
      BY <2>3
    <3> HIDE DEF g
    <3>4. route_step(g, x) = {}
      BY <3>1, <3>2 DEF route_step
    <3>5. QED
      BY <3>3, <3>4
  <2>4. QED
    BY <2>2, <2>3
<1>2. f = [x \in D |-> route_step(f, x)]
  <2> HIDE DEF g
  <2>1. QED
    BY <1>1 DEF routes_of
<1> HIDE DEF f, g
<1> DEFINE T == {h \in Nat : \A x \in D : x.j <= h /\ HasNode(x.i, x.j) => f[x] = RoutesTo(x)}
<1>3. ASSUME NEW x \in D, HasNode(x.i, x.j),
             \A y \in D : y.j < x.j /\ HasNode(y.i, y.j) => f[y] = RoutesTo(y)
      PROVE  f[x] = RoutesTo(x)
  <2>1. x.i \in 1 .. n /\ x.i <= i /\ x.j \in 0 .. j /\ x.j \in Nat /\ x = Addr(x.i, x.j)
    BY <1>0
  <2>2. [i : 1 .. i, j : 0 .. x.j] \subseteq D
    BY <2>1
  <2>3. \A y \in [i : 1 .. i, j : 0 .. x.j] :
             y.j < x.j /\ y.i \in 1 .. x.i /\ HasNode(y.i, y.j) => f[y] = RoutesTo(y)
    BY <1>3, <2>2
  <2>4. route_step(f, Addr(x.i, x.j)) = RoutesTo(Addr(x.i, x.j))
    BY <1>0, <1>3, <2>1, <2>3, RouteStep
  <2>5. f[x] = route_step(f, x)
    BY <1>2
  <2>6. QED
    BY <2>1, <2>4, <2>5
<1>4. 0 \in T
  BY <1>3
<1>5. ASSUME NEW h \in Nat, h \in T PROVE h + 1 \in T
  <2> SUFFICES ASSUME NEW x \in D, x.j <= h + 1, HasNode(x.i, x.j)
               PROVE  f[x] = RoutesTo(x)
    OBVIOUS
  <2>1. \A y \in D : y.j < x.j => y.j <= h
    BY <1>0
  <2>2. QED
    BY <1>3, <1>5, <2>1
<1>6. T = Nat
  <2> T \in SUBSET Nat
    OBVIOUS
  <2> HIDE DEF T
  <2>1. QED
    BY <1>4, <1>5, Induct
<1>7. Addr(i, j) \in D /\ Addr(i, j).i = i /\ Addr(i, j).j = j
  BY <1>0 DEF Addr
<1>8. f[Addr(i, j)] = RoutesTo(Addr(i, j))
  <2>1. j \in T
    BY <1>6
  <2> HIDE DEF D
  <2>2. \A x \in D : x.j <= j /\ HasNode(x.i, x.j) => f[x] = RoutesTo(x)
    BY <2>1
  <2>3. QED
    BY <1>7, <2>2
<1>9. QED
  BY <1>8 DEF f

\* What the two formulas say of the ways down from the root.
LEMMA WrittenDistances == Written => DistanceIsHops /\ SampleSizeIsDepth
<1> SUFFICES ASSUME Written PROVE DistanceIsHops /\ SampleSizeIsDepth
  OBVIOUS
<1>1. n \in Nat /\ n \in Index
  BY GenerationAssumption, IndexIsNat DEF Written
<1>2. entry_access_distance(n + 1, n) = NoIndex
  BY <1>1, NoDistance
<1>3. CASE n = 0
  <2>1. Routes = {}
    BY <1>3, RoutesUnfold
  <2>2. QED
    BY <1>2, <2>1 DEF DistanceIsHops, SampleSizeIsDepth
<1>4. CASE n # 0
  <2>1. /\ n \in 1 .. n /\ Top = Addr(n, Top.j) /\ Top.j \in Nat /\ HasNode(n, Top.j)
        /\ Top = root_of(n)
    BY <1>1, <1>4, TopIs
  <2>2. Top.i = n
    BY <2>1 DEF Addr
  <2>3. Routes = RoutesTo(Top)
    <3>1. routes_of(n, Top.j)[Addr(n, Top.j)] = RoutesTo(Addr(n, Top.j))
      BY <2>1, RoutesAre
    <3>2. QED
      BY <1>4, <2>1, <3>1, RoutesUnfold
  <2>4. ASSUME NEW r \in Routes
        PROVE  entry_access_distance(r.leaf, n) = r.lefts /\ stratum_sample_size(n, r.leaf) = r.branches
    <3>1. PICK k \in Over(Top) : r = Route(k, count_of(k)[Top], entry_access_distance(k, n))
      BY <2>2, <2>3, <2>4 DEF RoutesTo
    <3>2. r.leaf = k /\ r.branches = count_of(k)[Top] /\ r.lefts = entry_access_distance(k, n)
      BY <3>1 DEF Route
    <3>3. contains(Top.i, Top.j, k)
      BY DEF Over
    <3>4. stratum_sample_size(n, k) = IF contains(Top.i, Top.j, k) THEN count_of(k)[Top] ELSE 0
      <4>1. stratum_sample_size(n, k) = IF contains(root_of(n).i, root_of(n).j, k) THEN count_of(k)[root_of(n)] ELSE 0
        BY DEF stratum_sample_size, count_of, count_step
      <4>2. QED
        BY <2>1, <4>1
    <3>5. QED
      BY <3>2, <3>3, <3>4
  <2>5. QED
    BY <1>2, <2>4 DEF DistanceIsHops, SampleSizeIsDepth
<1>5. QED
  BY <1>3, <1>4

\* formula.rs:257-359: the distance of an entry, the size of its sample and the
\* limits of the distances are those of the ways down the written tree, for
\* every width of Index and every number of generations.
THEOREM DistancesAreTrue == Spec => []DistancesAreHops
<1>1. Written => DistancesAreHops
  BY WrittenDistances, WrittenLimits DEF DistancesAreHops
<1>2. Spec => []Written
  BY WrittenInvariant
<1>3. QED
  BY <1>1, <1>2, PTL
=============================================================================
