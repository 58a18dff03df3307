--------------------------- MODULE FormulaProofs ---------------------------
(***************************************************************************)
(* Theorems about the arithmetic of src/formula.rs, for every index and    *)
(* every width of Index: what the perfect subtrees of a generation are,    *)
(* which nodes the entry of a generation adds and which leaves they span.  *)
(* The facts about natural numbers they rest on come first.                *)
(***************************************************************************)
EXTENDS Formula, FiniteSetTheorems, SequenceTheorems, WellFoundedInduction, TLAPS

-----------------------------------------------------------------------------
(* Natural numbers.  What fails somewhere fails at a least place: that     *)
(* stands in for induction.                                                *)

LEMMA LeastElement ==
    ASSUME NEW T \in SUBSET Nat, T # {}
    PROVE  \E x \in T : \A y \in T : x <= y
<1>1. IsWellFoundedOn({ss \in Nat \X Nat : ss[1] < ss[2]}, Nat)
  BY NatLessThanWellFounded DEF OpToRel
<1>2. PICK x \in T : \A y \in T : ~(<<y, x>> \in {ss \in Nat \X Nat : ss[1] < ss[2]})
  BY <1>1, WFMin
<1>3. \A y \in T : ~(y < x)
  BY <1>2
<1>4. \A y \in T : x <= y
  BY <1>3
<1>5. QED
  BY <1>4

LEMMA GreatestElement ==
    ASSUME NEW S \in SUBSET Nat, S # {}, NEW b \in Nat, \A x \in S : x < b
    PROVE  \E m \in S : \A x \in S : x <= m
<1> DEFINE T == {b - x : x \in S}
<1>1. T \in SUBSET Nat /\ T # {}
  <2>1. \A x \in S : b - x \in Nat
    OBVIOUS
  <2>2. T \subseteq Nat
    BY <2>1
  <2>3. T # {}
    OBVIOUS
  <2>4. QED
    BY <2>2, <2>3
<1>2. PICK t \in T : \A y \in T : t <= y
  BY <1>1, LeastElement
<1>3. PICK m \in S : t = b - m
  BY <1>2
<1>4. \A x \in S : b - m <= b - x
  BY <1>2, <1>3
<1>5. QED
  BY <1>3, <1>4

\* How many numbers 1 .. n are.
LEMMA InitialSegment ==
    ASSUME NEW n \in Nat
    PROVE  Cardinality(1 .. n) = n
BY FS_Interval

-----------------------------------------------------------------------------
(* Induction, for a set of numbers instead of a predicate.                 *)

LEMMA Induct ==
    ASSUME NEW T \in SUBSET Nat, 0 \in T, \A n \in Nat : n \in T => n + 1 \in T
    PROVE  T = Nat
<1> SUFFICES ASSUME Nat \ T # {} PROVE FALSE
  OBVIOUS
<1>1. PICK m \in Nat \ T : \A y \in Nat \ T : m <= y
  BY LeastElement
<1>2. m # 0 /\ m - 1 \in Nat
  BY <1>1
<1>3. m - 1 \in T
  BY <1>1, <1>2
<1>4. (m - 1) + 1 \in T
  BY <1>2, <1>3
<1>5. QED
  BY <1>1, <1>4

-----------------------------------------------------------------------------
(* Powers of two: 2^n counts the subsets of 1 .. n.                        *)

LEMMA PowerCounts ==
    ASSUME NEW n \in Nat
    PROVE  /\ IsFiniteSet(SUBSET (1 .. n)) /\ Cardinality(SUBSET (1 .. n)) = 2^n
           /\ 2^n \in Nat \ {0}
<1>1. IsFiniteSet(1 .. n) /\ Cardinality(1 .. n) = n
  BY FS_Interval
<1>2. IsFiniteSet(SUBSET (1 .. n)) /\ Cardinality(SUBSET (1 .. n)) = 2^n
  BY <1>1, FS_SUBSET
<1>3. SUBSET (1 .. n) # {}
  OBVIOUS
<1>4. QED
  BY <1>2, <1>3, FS_CardinalityType, FS_EmptySet

LEMMA PowerZero == 2^0 = 1
OBVIOUS

LEMMA PowerDoubles ==
    ASSUME NEW n \in Nat
    PROVE  2^(n + 1) = 2 * 2^n
<1> DEFINE A == SUBSET (1 .. n)
           B == {X \cup {n + 1} : X \in A}
           f == [X \in A |-> X \cup {n + 1}]
<1>1. \A X \in A : n + 1 \notin X
  OBVIOUS
<1>2. A \cap B = {}
  BY <1>1
<1>3. A \cup B = SUBSET (1 .. n + 1)
  <2>1. ASSUME NEW X \in SUBSET (1 .. n + 1) PROVE X \in A \cup B
    <3>1. CASE n + 1 \in X
      <4>1. X \ {n + 1} \in A /\ X = (X \ {n + 1}) \cup {n + 1}
        BY <3>1
      <4>2. QED
        BY <4>1
    <3>2. CASE n + 1 \notin X
      BY <3>2
    <3>3. QED
      BY <3>1, <3>2
  <2>2. \A X \in A : X \subseteq 1 .. n + 1 /\ X \cup {n + 1} \subseteq 1 .. n + 1
    OBVIOUS
  <2>3. \A X \in A \cup B : X \in SUBSET (1 .. n + 1)
    BY <2>2
  <2> HIDE DEF A, B
  <2>4. QED
    BY <2>1, <2>3
<1>4. \A X, Y \in A : X \cup {n + 1} = Y \cup {n + 1} => X = Y
  BY <1>1
<1>5. IsFiniteSet(A) /\ Cardinality(A) = 2^n /\ 2^n \in Nat
  BY PowerCounts
<1>6. Cardinality(SUBSET (1 .. n + 1)) = 2^(n + 1)
  BY PowerCounts
<1>7. /\ \A X \in A : X \cup {n + 1} \in B
      /\ \A Y \in B : \E X \in A : X \cup {n + 1} = Y
  OBVIOUS
<1> HIDE DEF A, B
<1> f \in [A -> B] /\ (\A X, Y \in A : f[X] = f[Y] => X = Y) /\ \A Y \in B : \E X \in A : f[X] = Y
  BY <1>4, <1>7
<1> HIDE DEF f
<1>8. ExistsBijection(A, B)
  BY DEF ExistsBijection, Bijection, Injection, Surjection, IsInjective
<1>9. IsFiniteSet(B) /\ Cardinality(B) = 2^n
  BY <1>5, <1>8, FS_Bijection
<1>10. Cardinality(A \cup B) = Cardinality(A) + Cardinality(B) - Cardinality(A \cap B)
  BY <1>5, <1>9, FS_Union
<1>11. Cardinality(A \cup B) = 2^n + 2^n - 0
  BY <1>2, <1>5, <1>9, <1>10, FS_EmptySet
<1>12. Cardinality(A \cup B) = 2^(n + 1)
  BY <1>3, <1>6
<1>13. QED
  BY <1>5, <1>11, <1>12

LEMMA PowerGrows ==
    ASSUME NEW a \in Nat, NEW b \in Nat, a < b
    PROVE  2^a < 2^b
<1> DEFINE T == {d \in Nat : 2^a < 2^(a + d + 1)}
<1>1. 0 \in T
  <2>1. 2^(a + 1) = 2 * 2^a /\ 2^a \in Nat \ {0}
    BY PowerDoubles, PowerCounts
  <2>2. QED
    BY <2>1
<1>2. ASSUME NEW d \in Nat, d \in T PROVE d + 1 \in T
  <2>1. a + d + 1 \in Nat /\ (a + d + 1) + 1 = a + (d + 1) + 1
    OBVIOUS
  <2>2. 2^(a + (d + 1) + 1) = 2 * 2^(a + d + 1)
    BY <2>1, PowerDoubles
  <2>3. 2^(a + d + 1) \in Nat /\ 2^a \in Nat
    BY <2>1, PowerCounts
  <2>4. QED
    BY <1>2, <2>2, <2>3
<1>3. T = Nat
  <2>1. T \in SUBSET Nat
    OBVIOUS
  <2> HIDE DEF T
  <2>2. QED
    BY <1>1, <1>2, <2>1, Induct
<1> HIDE DEF T
<1>4. b - a - 1 \in T
  BY <1>3
<1>5. 2^a < 2^(a + (b - a - 1) + 1)
  BY <1>4 DEF T
<1>6. a + (b - a - 1) + 1 = b
  OBVIOUS
<1>7. QED
  BY <1>5, <1>6

LEMMA PowerOrder ==
    ASSUME NEW a \in Nat, NEW b \in Nat
    PROVE  2^a <= 2^b <=> a <= b
<1>1. 2^a \in Nat /\ 2^b \in Nat
  BY PowerCounts
<1>2. a < b => 2^a < 2^b
  BY PowerGrows
<1>3. b < a => 2^b < 2^a
  BY PowerGrows
<1>4. QED
  BY <1>1, <1>2, <1>3

LEMMA PowerSum ==
    ASSUME NEW a \in Nat, NEW b \in Nat
    PROVE  2^(a + b) = 2^a * 2^b
<1> DEFINE T == {d \in Nat : 2^(a + d) = 2^a * 2^d}
<1>1. 0 \in T
  BY PowerCounts, PowerZero
<1>2. ASSUME NEW d \in Nat, d \in T PROVE d + 1 \in T
  <2>1. a + d \in Nat /\ (a + d) + 1 = a + (d + 1)
    OBVIOUS
  <2>2. 2^(a + (d + 1)) = 2 * 2^(a + d) /\ 2^(d + 1) = 2 * 2^d
    BY <2>1, PowerDoubles
  <2>3. 2^a \in Nat /\ 2^d \in Nat
    BY PowerCounts
  <2>4. 2 * (2^a * 2^d) = 2^a * (2 * 2^d)
    BY <2>3
  <2>5. QED
    BY <1>2, <2>2, <2>4
<1>3. T = Nat
  <2>1. T \in SUBSET Nat
    OBVIOUS
  <2> HIDE DEF T
  <2>2. QED
    BY <1>1, <1>2, <2>1, Induct
<1>4. QED
  BY <1>3

-----------------------------------------------------------------------------
(* Quotients and remainders.                                               *)

LEMMA Division ==
    ASSUME NEW a \in Nat, NEW d \in Nat \ {0}
    PROVE  a \div d \in Nat /\ a % d \in 0 .. d - 1 /\ a = (a \div d) * d + (a % d)
OBVIOUS

LEMMA Quotient ==
    ASSUME NEW q \in Nat, NEW d \in Nat \ {0}, NEW m \in 0 .. d - 1, NEW a \in Nat, a = q * d + m
    PROVE  a \div d = q /\ a % d = m
<1> DEFINE p == a \div d
           r == a % d
<1>1. p \in Nat /\ r \in 0 .. d - 1 /\ a = p * d + r
  BY Division
<1> HIDE DEF p, r
<1>2. ASSUME p < q PROVE FALSE
  <2>1. (p + 1) * d <= q * d
    BY <1>1, <1>2
  <2>2. (p + 1) * d = p * d + d /\ p * d \in Nat /\ q * d \in Nat
    BY <1>1
  <2>3. QED
    BY <1>1, <2>1, <2>2
<1>3. ASSUME q < p PROVE FALSE
  <2>1. (q + 1) * d <= p * d
    BY <1>1, <1>3
  <2>2. (q + 1) * d = q * d + d /\ p * d \in Nat /\ q * d \in Nat
    BY <1>1
  <2>3. QED
    BY <1>1, <2>1, <2>2
<1>4. p = q
  BY <1>1, <1>2, <1>3
<1>5. QED
  BY <1>1, <1>4 DEF p, r

LEMMA Multiple ==
    ASSUME NEW q \in Nat, NEW d \in Nat \ {0}
    PROVE  (q * d) \div d = q /\ (q * d) % d = 0
<1> DEFINE m == 0
           a == q * d
<1>1. m \in 0 .. d - 1 /\ a \in Nat /\ a = q * d + m
  OBVIOUS
<1> HIDE DEF m, a
<1>2. a \div d = q /\ a % d = m
  BY <1>1, Quotient
<1>3. QED
  BY <1>2 DEF m, a

LEMMA PowerAbove ==
    ASSUME NEW n \in Nat
    PROVE  n < 2^n
<1> DEFINE T == {k \in Nat : k < 2^k}
<1>1. 0 \in T
  BY PowerZero
<1>2. ASSUME NEW k \in Nat, k \in T PROVE k + 1 \in T
  <2>1. 2^(k + 1) = 2 * 2^k /\ 2^k \in Nat \ {0}
    BY PowerDoubles, PowerCounts
  <2>2. k < 2^k
    BY <1>2
  <2>3. k + 1 < 2^(k + 1)
    BY <2>1, <2>2
  <2>4. QED
    BY <2>3
<1>3. T = Nat
  <2> T \in SUBSET Nat
    OBVIOUS
  <2> HIDE DEF T
  <2>1. QED
    BY <1>1, <1>2, Induct
<1>4. QED
  BY <1>3

-----------------------------------------------------------------------------
(* Logarithms.                                                             *)

\* floor_log2 is the exponent of the highest power of two that is not above
\* its argument; that is the power of the width for what does not fit in it.
LEMMA FloorLog ==
    ASSUME NEW x \in Nat \ {0}
    PROVE  /\ floor_log2(x) \in 0 .. INDEX_SIZE - 1
           /\ 2^floor_log2(x) <= x
           /\ x \in Index => x < 2^(floor_log2(x) + 1)
<1> DEFINE B == {b \in 0 .. (INDEX_SIZE - 1) : 2^b <= x}
<1>1. INDEX_SIZE \in Nat \ {0}
  BY IndexSizeAssumption
<1>2. B \in SUBSET Nat /\ 0 \in B /\ \A b \in B : b < INDEX_SIZE
  BY <1>1, PowerZero
<1>3. PICK j \in B : \A b \in B : b <= j
  BY <1>1, <1>2, GreatestElement
<1>4. j \in Nat /\ j < INDEX_SIZE /\ 2^j <= x
  BY <1>1, <1>3
<1>5. B = 0 .. j
  <2> B \subseteq Nat /\ \A b : b \in B <=> b \in 0 .. INDEX_SIZE - 1 /\ 2^b <= x
    BY <1>2
  <2> HIDE DEF B
  <2>1. ASSUME NEW b \in 0 .. j PROVE b \in B
    <3> b \in Nat /\ j \in Nat /\ b <= j
      BY <1>4
    <3>1. 2^b <= 2^j /\ 2^b \in Nat /\ 2^j \in Nat
      BY PowerOrder, PowerCounts
    <3>2. QED
      BY <1>1, <1>4, <3>1
  <2>2. \A b \in B : b \in 0 .. j
    BY <1>1, <1>3
  <2>3. QED
    BY <2>1, <2>2
<1>6. Cardinality(B) = j + 1
  <2>1. Cardinality(0 .. j) = j - 0 + 1
    BY <1>4, FS_Interval
  <2> HIDE DEF B
  <2>2. QED
    BY <1>4, <1>5, <2>1
<1>7. floor_log2(x) = j
  BY <1>4, <1>6 DEF floor_log2, bit_length
<1>8. ASSUME x \in Index PROVE x < 2^(j + 1)
  <2>1. 2^(j + 1) \in Nat /\ 2^INDEX_SIZE \in Nat
    <3>1. j + 1 \in Nat /\ INDEX_SIZE \in Nat
      BY <1>1, <1>4
    <3>2. QED
      BY <3>1, PowerCounts
  <2>2. CASE j + 1 = INDEX_SIZE
    BY <1>8, <2>1, <2>2 DEF Index
  <2>3. CASE j + 1 # INDEX_SIZE
    <3>1. j + 1 \in 0 .. INDEX_SIZE - 1 /\ j + 1 \notin B
      BY <1>1, <1>4, <1>5, <2>3
    <3>2. QED
      BY <2>1, <3>1
  <2>4. QED
    BY <2>2, <2>3
<1>9. QED
  BY <1>1, <1>4, <1>7, <1>8

-----------------------------------------------------------------------------
(* The perfect subtrees of a generation.                                   *)

\* The recursion of pbst_roots, from what remains of the leaves.
next_root(n, r) == Addr(n - r + 2^floor_log2(r), floor_log2(r))
roots_step(n, f, r) ==
    IF r = 0 THEN <<>> ELSE <<next_root(n, r)>> \o f[r - 2^floor_log2(r)]
roots_of(n) == CHOOSE f : f = [r \in 0 .. n |-> roots_step(n, f, r)]

LEMMA RootsUnfold ==
    ASSUME NEW n \in Nat
    PROVE  pbst_roots(n) = roots_of(n)[n]
BY DEF pbst_roots, roots_of, roots_step, next_root, pow2e

LEMMA RemainsLess ==
    ASSUME NEW r \in Nat \ {0}
    PROVE  r - 2^floor_log2(r) \in 0 .. r - 1
<1>1. floor_log2(r) \in Nat
  BY FloorLog, IndexSizeAssumption
<1>2. 2^floor_log2(r) \in Nat \ {0} /\ 2^floor_log2(r) <= r
  BY <1>1, FloorLog, PowerCounts
<1>3. QED
  BY <1>2

LEMMA RootsEquation ==
    ASSUME NEW n \in Nat
    PROVE  roots_of(n) = [r \in 0 .. n |-> roots_step(n, roots_of(n), r)]
<1> DEFINE Solves(f, m) == f = [r \in 0 .. m |-> roots_step(n, f, r)]
           T == {m \in Nat : \E f : Solves(f, m)}
<1>1. 0 \in T
  <2> DEFINE f == [r \in 0 .. 0 |-> <<>>]
  <2>1. f = [r \in 0 .. 0 |-> roots_step(n, f, r)]
    BY DEF roots_step
  <2>2. QED
    BY <2>1
<1>2. ASSUME NEW m \in Nat, m \in T PROVE m + 1 \in T
  <2>1. PICK f : Solves(f, m)
    BY <1>2
  <2> DEFINE g == [r \in 0 .. m + 1 |-> IF r = m + 1 THEN roots_step(n, f, m + 1) ELSE f[r]]
  <2>2. \A r \in 0 .. m : f[r] = roots_step(n, f, r)
    BY <2>1
  <2>3. ASSUME NEW r \in 0 .. m + 1 PROVE roots_step(n, g, r) = roots_step(n, f, r)
    <3>1. CASE r = 0
      BY <3>1 DEF roots_step
    <3>2. CASE r # 0
      <4>1. r - 2^floor_log2(r) \in 0 .. m
        BY <3>2, RemainsLess
      <4>2. g[r - 2^floor_log2(r)] = f[r - 2^floor_log2(r)]
        BY <4>1
      <4> HIDE DEF g
      <4>3. QED
        BY <4>2 DEF roots_step
    <3>3. QED
      BY <3>1, <3>2
  <2>4. \A r \in 0 .. m + 1 : g[r] = roots_step(n, g, r)
    BY <2>2, <2>3
  <2>5. Solves(g, m + 1)
    BY <2>4
  <2> HIDE DEF Solves, g
  <2>6. QED
    BY <2>5
<1>3. T = Nat
  <2>1. T \in SUBSET Nat
    OBVIOUS
  <2> HIDE DEF T
  <2>2. QED
    BY <1>1, <1>2, <2>1, Induct
<1>4. \E f : Solves(f, n)
  BY <1>3
<1>5. QED
  BY <1>4 DEF roots_of

-----------------------------------------------------------------------------
(* Binary digits.                                                          *)

one_at(x, b) == (x \div 2^b) % 2 = 1

LEMMA NoDigit ==
    ASSUME NEW x, NEW b, x \div 2^b = 0
    PROVE  ~one_at(x, b)
<1> DEFINE q == x \div 2^b
<1> q = 0 /\ (one_at(x, b) <=> q % 2 = 1)
  BY DEF one_at
<1> HIDE DEF q
<1> QED
  OBVIOUS

\* The digits of a number and of what is left without the highest one.
LEMMA HighestDigit ==
    ASSUME NEW J \in Nat, NEW r \in Nat, NEW s \in Nat, s < 2^J, r = 2^J + s, NEW b \in Nat
    PROVE  /\ one_at(r, b) <=> b = J \/ one_at(s, b)
           /\ ~one_at(s, J)
           /\ b = J => r % 2^b = s
           /\ b < J => r % 2^b = s % 2^b
           /\ b > J => ~one_at(r, b)
<1>1. 2^J \in Nat \ {0} /\ 2^b \in Nat \ {0}
  BY PowerCounts
<1>2. s \div 2^J = 0
  <2>1. s \in 0 .. 2^J - 1 /\ s = 0 * 2^J + s /\ 0 \in Nat
    BY <1>1
  <2>2. QED
    BY <1>1, <2>1, Quotient
<1>3. CASE b = J
  <2>1. s \in 0 .. 2^J - 1 /\ r = 1 * 2^J + s /\ 1 \in Nat
    BY <1>1
  <2>2. r \div 2^J = 1 /\ r % 2^J = s
    BY <1>1, <2>1, Quotient
  <2>3. QED
    BY <1>2, <1>3, <2>2 DEF one_at
<1>4. CASE b > J
  <2>1. J + 1 \in Nat /\ J + 1 <= b
    BY <1>4
  <2>2. 2^(J + 1) = 2 * 2^J /\ 2^(J + 1) <= 2^b
    BY <2>1, PowerDoubles, PowerOrder
  <2>3. /\ r \in 0 .. 2^b - 1 /\ s \in 0 .. 2^b - 1 /\ 0 \in Nat
        /\ r = 0 * 2^b + r /\ s = 0 * 2^b + s
    BY <1>1, <2>2
  <2>4. r \div 2^b = 0 /\ s \div 2^b = 0
    BY <1>1, <2>3, Quotient
  <2>5. ~one_at(r, b) /\ ~one_at(s, b) /\ ~one_at(s, J)
    BY <1>2, <2>4, NoDigit
  <2>6. QED
    BY <1>4, <2>5
<1>5. CASE b < J
  <2> DEFINE p == 2^(J - b - 1)
             q == s \div 2^b
             m == s % 2^b
  <2>1. J - b - 1 \in Nat /\ J - b \in Nat /\ (J - b - 1) + 1 = J - b /\ (J - b) + b = J
    BY <1>5
  <2>2. p \in Nat /\ 2^(J - b) = 2 * p /\ 2^J = 2^(J - b) * 2^b
    <3>1. 2^((J - b - 1) + 1) = 2 * 2^(J - b - 1) /\ 2^((J - b) + b) = 2^(J - b) * 2^b
      BY <2>1, PowerDoubles, PowerSum
    <3>2. QED
      BY <2>1, <3>1, PowerCounts
  <2>3. q \in Nat /\ m \in 0 .. 2^b - 1 /\ s = q * 2^b + m
    BY <1>1, Division
  <2> HIDE DEF p, q, m
  <2>4. 2 * p + q \in Nat /\ r = (2 * p + q) * 2^b + m
    BY <1>1, <2>2, <2>3
  <2> DEFINE k == 2 * p + q
  <2>5. r \div 2^b = k /\ r % 2^b = m
    <3> k \in Nat /\ r = k * 2^b + m /\ m \in 0 .. 2^b - 1 /\ 2^b \in Nat \ {0}
      BY <1>1, <2>3, <2>4
    <3> HIDE DEF k
    <3>1. QED
      BY Quotient
  <2>6. (2 * p + q) % 2 = q % 2
    BY <2>2, <2>3
  <2>7. one_at(r, b) <=> one_at(s, b)
    BY <2>5, <2>6 DEF one_at, q
  <2>8. QED
    BY <1>2, <1>5, <2>5, <2>7 DEF one_at, m
<1>6. QED
  BY <1>3, <1>4, <1>5

-----------------------------------------------------------------------------
(* What pbst_roots computes, by descent on what remains.                   *)

NodeAddr == [i : Nat, j : Nat]

\* What holds of the roots of the last r leaves of generation n.
RootsGood(n, r) ==
    LET s == roots_of(n)[r]
    IN  /\ s \in Seq(NodeAddr) /\ Len(s) = count_ones(r) /\ (r > 0 => Len(s) > 0)
        /\ r > 0 => s[1].j = floor_log2(r) /\ s[Len(s)].i = n
        /\ \A i, j \in Nat : Addr(i, j) \in ToSet(s) <=> one_at(r, j) /\ i = n - (r % 2^j)
        /\ \A k \in 1 .. Len(s) : s[k].i - 2^s[k].j = IF k = 1 THEN n - r ELSE s[k - 1].i
        /\ \A k \in 2 .. Len(s) : s[k].j < s[k - 1].j

LEMMA CountOnesStep ==
    ASSUME NEW r \in Nat \ {0}, NEW s \in Nat, r \in Index,
           NEW J \in 0 .. INDEX_SIZE - 1, s < 2^J, r = 2^J + s
    PROVE  count_ones(s) \in Nat /\ count_ones(r) = count_ones(s) + 1
<1> DEFINE ones(x) == {b \in 0 .. (INDEX_SIZE - 1) : one_at(x, b)}
<1>1. INDEX_SIZE \in Nat \ {0} /\ J \in Nat /\ 0 .. (INDEX_SIZE - 1) \subseteq Nat
  BY IndexSizeAssumption
<1>2. \A b \in 0 .. (INDEX_SIZE - 1) : one_at(r, b) <=> b = J \/ one_at(s, b)
  BY <1>1, HighestDigit
<1>3. ~one_at(s, J)
  BY <1>1, HighestDigit
<1>4. ones(r) = ones(s) \cup {J} /\ J \notin ones(s)
  BY <1>2, <1>3
<1>5. IsFiniteSet(ones(s)) /\ Cardinality(ones(s)) \in Nat
  <2>1. IsFiniteSet(0 .. (INDEX_SIZE - 1)) /\ ones(s) \in SUBSET (0 .. (INDEX_SIZE - 1))
    BY <1>1, FS_Interval
  <2> HIDE DEF ones
  <2>2. IsFiniteSet(ones(s))
    BY <2>1, FS_Subset
  <2>3. QED
    BY <2>2, FS_CardinalityType
<1>6. count_ones(r) = Cardinality(ones(r)) /\ count_ones(s) = Cardinality(ones(s))
  BY DEF count_ones, one_at
<1> HIDE DEF ones
<1>7. Cardinality(ones(s) \cup {J}) = Cardinality(ones(s)) + 1
  BY <1>4, <1>5, FS_AddElement
<1>8. QED
  BY <1>4, <1>5, <1>6, <1>7

LEMMA CountOnesZero == count_ones(0) = 0 /\ \A b \in Nat : ~one_at(0, b) /\ 0 % 2^b = 0
<1>1. ASSUME NEW b \in Nat PROVE 0 \div 2^b = 0 /\ 0 % 2^b = 0
  <2>1. 2^b \in Nat \ {0}
    BY PowerCounts
  <2>2. 0 = 0 * 2^b + 0 /\ 0 \in 0 .. 2^b - 1 /\ 0 \in Nat
    BY <2>1
  <2>3. QED
    BY <2>1, <2>2, Quotient
<1>2. \A b \in Nat : ~one_at(0, b)
  BY <1>1, NoDigit
<1>3. {b \in 0 .. (INDEX_SIZE - 1) : one_at(0, b)} = {}
  BY <1>2, IndexSizeAssumption
<1>4. count_ones(0) = 0
  BY <1>3, FS_EmptySet DEF count_ones, one_at
<1>5. QED
  BY <1>1, <1>2, <1>4

\* Adding the root of the largest subtree in front.
LEMMA RootsGoodStep ==
    ASSUME NEW n \in Nat, n \in Index, NEW r \in 1 .. n,
           RootsGood(n, r - 2^floor_log2(r))
    PROVE  RootsGood(n, r)
<1> DEFINE J == floor_log2(r)
           q == r - 2^J
           a == Addr(n - q, J)
           t == roots_of(n)[q]
           s == roots_of(n)[r]
<1>1. INDEX_SIZE \in Nat \ {0} /\ r \in Nat \ {0} /\ r \in Index
  BY IndexSizeAssumption DEF Index
<1>2. J \in 0 .. INDEX_SIZE - 1 /\ J \in Nat /\ 2^J <= r /\ r < 2^(J + 1)
  BY <1>1, FloorLog
<1>3. 2^J \in Nat \ {0} /\ 2^(J + 1) = 2 * 2^J
  BY <1>2, PowerCounts, PowerDoubles
<1>4. q \in Nat /\ q < 2^J /\ r = 2^J + q /\ q < r
  BY <1>1, <1>2, <1>3
<1>5. s = <<a>> \o t
  <2>1. roots_of(n)[r] = roots_step(n, roots_of(n), r)
    BY RootsEquation
  <2>2. next_root(n, r) = a
    BY <1>1, <1>3 DEF next_root
  <2>3. QED
    BY <1>1, <2>1, <2>2 DEF roots_step
<1> HIDE DEF J
<1>6. a \in NodeAddr /\ a.j = J /\ a.i = n - q /\ n - q \in Nat
  BY <1>2, <1>4 DEF NodeAddr, Addr
<1>7. /\ t \in Seq(NodeAddr) /\ Len(t) = count_ones(q) /\ (q > 0 => Len(t) > 0)
      /\ q > 0 => t[1].j = floor_log2(q) /\ t[Len(t)].i = n
      /\ \A i, j \in Nat : Addr(i, j) \in ToSet(t) <=> one_at(q, j) /\ i = n - (q % 2^j)
      /\ \A k \in 1 .. Len(t) : t[k].i - 2^t[k].j = IF k = 1 THEN n - q ELSE t[k - 1].i
      /\ \A k \in 2 .. Len(t) : t[k].j < t[k - 1].j
  BY DEF RootsGood, J
<1> HIDE DEF a, s, t
<1>8. /\ s \in Seq(NodeAddr) /\ Len(s) = Len(t) + 1 /\ s[1] = a /\ Len(t) \in Nat
      /\ \A k \in 2 .. Len(s) : s[k] = t[k - 1]
  <2>1. <<a>> \in Seq(NodeAddr) /\ Len(<<a>>) = 1 /\ <<a>>[1] = a
    BY <1>6
  <2>2. /\ <<a>> \o t \in Seq(NodeAddr) /\ Len(<<a>> \o t) = 1 + Len(t)
        /\ \A k \in 1 .. 1 + Len(t) : (<<a>> \o t)[k] = IF k <= 1 THEN <<a>>[k] ELSE t[k - 1]
    BY <1>7, <2>1, ConcatProperties
  <2>3. Len(t) \in Nat
    BY <1>7, LenProperties
  <2>4. QED
    BY <1>5, <2>1, <2>2, <2>3
<1>9. ToSet(s) = {a} \cup ToSet(t)
  <2>1. DOMAIN s = 1 .. Len(s) /\ DOMAIN t = 1 .. Len(t)
    BY <1>7, <1>8, LenProperties
  <2>2. \A k \in 1 .. Len(t) : k + 1 \in 1 .. Len(s) /\ t[k] = s[k + 1]
    BY <1>8
  <2>3. \A k \in 1 .. Len(s) : s[k] = a \/ (k - 1 \in 1 .. Len(t) /\ s[k] = t[k - 1])
    BY <1>8
  <2>4. a \in ToSet(s)
    BY <1>8, <2>1 DEF ToSet
  <2>5. ToSet(t) \subseteq ToSet(s)
    BY <2>1, <2>2 DEF ToSet
  <2>6. ToSet(s) \subseteq {a} \cup ToSet(t)
    BY <2>1, <2>3 DEF ToSet
  <2>7. QED
    BY <2>4, <2>5, <2>6
<1>10. Len(s) = count_ones(r) /\ Len(s) > 0
  BY <1>1, <1>2, <1>4, <1>7, <1>8, CountOnesStep
<1>11. s[1].j = J /\ s[Len(s)].i = n
  <2>1. CASE q = 0
    <3>1. Len(t) = 0
      BY <1>7, <2>1, CountOnesZero
    <3>2. QED
      BY <1>6, <1>8, <2>1, <3>1
  <2>2. CASE q > 0
    <3>1. Len(s) \in 2 .. Len(s) /\ s[Len(s)] = t[Len(t)]
      BY <1>7, <1>8, <2>2
    <3>2. QED
      BY <1>6, <1>7, <1>8, <2>2, <3>1
  <2>3. QED
    BY <1>4, <2>1, <2>2
<1>12. ASSUME NEW i \in Nat, NEW j \in Nat
       PROVE  Addr(i, j) \in ToSet(s) <=> one_at(r, j) /\ i = n - (r % 2^j)
  <2>1. Addr(i, j) = a <=> j = J /\ i = n - q
    BY <1>6 DEF Addr, a
  <2>2. /\ one_at(r, j) <=> j = J \/ one_at(q, j)
        /\ ~one_at(q, J)
        /\ j = J => r % 2^j = q
        /\ j < J => r % 2^j = q % 2^j
        /\ j > J => ~one_at(r, j)
    BY <1>1, <1>2, <1>4, HighestDigit
  <2>3. Addr(i, j) \in ToSet(t) <=> one_at(q, j) /\ i = n - (q % 2^j)
    BY <1>7
  <2>4. Addr(i, j) \in ToSet(s) <=> Addr(i, j) = a \/ Addr(i, j) \in ToSet(t)
    BY <1>9
  <2>5. CASE j = J
    BY <2>1, <2>2, <2>3, <2>4, <2>5
  <2>6. CASE j < J
    BY <2>1, <2>2, <2>3, <2>4, <2>6
  <2>7. CASE j > J
    BY <2>1, <2>2, <2>3, <2>4, <2>7
  <2>8. QED
    BY <1>2, <2>5, <2>6, <2>7
<1>13. \A k \in 1 .. Len(t) : t[k] \in NodeAddr
  BY <1>7, ElementOfSeq
<1>14. ASSUME NEW k \in 1 .. Len(s)
       PROVE  s[k].i - 2^s[k].j = IF k = 1 THEN n - r ELSE s[k - 1].i
  <2>1. CASE k = 1
    BY <1>3, <1>4, <1>6, <1>8, <2>1
  <2>2. CASE k = 2
    <3>1. s[k] = t[1] /\ s[k - 1] = a /\ 1 \in 1 .. Len(t)
      BY <1>8, <2>2
    <3>2. QED
      BY <1>6, <1>7, <2>2, <3>1
  <2>3. CASE k > 2
    <3>1. k - 1 \in 1 .. Len(t) /\ k - 1 # 1 /\ s[k] = t[k - 1] /\ s[k - 1] = t[(k - 1) - 1]
      BY <1>8, <2>3
    <3>2. QED
      BY <1>7, <2>3, <3>1
  <2>4. QED
    BY <1>8, <2>1, <2>2, <2>3
<1>15. ASSUME NEW k \in 2 .. Len(s) PROVE s[k].j < s[k - 1].j
  <2>1. CASE k = 2
    <3>1. s[k] = t[1] /\ s[k - 1] = a /\ 1 \in 1 .. Len(t)
      BY <1>8, <2>1
    <3>2. q # 0
      BY <1>7, <3>1, CountOnesZero
    <3>3. t[1].j = floor_log2(q) /\ floor_log2(q) \in Nat /\ 2^floor_log2(q) <= q
      <4> HIDE DEF q
      <4>1. q \in Nat \ {0} /\ q > 0
        BY <1>4, <3>2
      <4>2. QED
        BY <1>1, <1>7, <4>1, FloorLog
    <3>4. ~(2^J <= 2^floor_log2(q))
      BY <1>3, <1>4, <3>3, PowerCounts
    <3>5. ~(J <= floor_log2(q))
      BY <1>2, <3>3, <3>4, PowerOrder
    <3>6. QED
      BY <1>2, <1>6, <3>1, <3>3, <3>5
  <2>2. CASE k > 2
    <3>1. k \in 2 .. Len(s) /\ k - 1 \in 2 .. Len(t) /\ k - 1 \in 2 .. Len(s)
      BY <1>8, <2>2
    <3>2. s[k] = t[k - 1] /\ s[k - 1] = t[(k - 1) - 1]
      BY <1>8, <3>1
    <3>3. QED
      BY <1>7, <3>1, <3>2
  <2>3. QED
    BY <1>8, <2>1, <2>2
<1>16. QED
  BY <1>8, <1>10, <1>11, <1>12, <1>14, <1>15 DEF RootsGood, s, J

LEMMA RootsAreGood ==
    ASSUME NEW n \in Nat, n \in Index, NEW r \in 0 .. n
    PROVE  RootsGood(n, r)
<1> DEFINE T == {q \in Nat : q <= n /\ ~RootsGood(n, q)}
<1> SUFFICES ASSUME T # {} PROVE FALSE
  OBVIOUS
<1>1. PICK q \in T : \A y \in T : q <= y
  <2>1. T \in SUBSET Nat
    OBVIOUS
  <2> HIDE DEF T
  <2>2. QED
    BY <2>1, LeastElement
<1>2. CASE q = 0
  <2>1. roots_of(n)[0] = <<>>
    <3>1. roots_of(n)[0] = roots_step(n, roots_of(n), 0)
      BY RootsEquation
    <3>2. QED
      BY <3>1 DEF roots_step
  <2>2. <<>> \in Seq(NodeAddr) /\ Len(<<>>) = 0 /\ ToSet(<<>>) = {}
    BY DEF ToSet
  <2>3. RootsGood(n, 0)
    BY <2>1, <2>2, CountOnesZero DEF RootsGood
  <2>4. QED
    BY <1>1, <1>2, <2>3
<1>3. CASE q # 0
  <2>1. q \in 1 .. n /\ q \in Nat \ {0}
    BY <1>1, <1>3
  <2>2. q - 2^floor_log2(q) \in 0 .. q - 1
    BY <2>1, RemainsLess
  <2>3. RootsGood(n, q - 2^floor_log2(q))
    <3> DEFINE x == q - 2^floor_log2(q)
    <3>1. x \in Nat /\ x <= n /\ ~(q <= x)
      BY <2>1, <2>2
    <3> HIDE DEF x
    <3>2. RootsGood(n, x)
      BY <1>1, <3>1
    <3>3. QED
      BY <3>2 DEF x
  <2>4. RootsGood(n, q)
    BY <2>1, <2>3, RootsGoodStep
  <2>5. QED
    BY <1>1, <2>4
<1>4. QED
  BY <1>2, <1>3

\* The node b_{i,j} is the root of a perfect subtree of generation n exactly when
\* n has a one at bit j and i is n without the bits below it.
is_root(n, i, j) == one_at(n, j) /\ i = n - (n % 2^j)

LEMMA DigitOfIndex ==
    ASSUME NEW n \in Nat, NEW j \in Nat, one_at(n, j)
    PROVE  /\ n # 0 /\ 2^j <= n /\ n % 2^j \in 0 .. 2^j - 1
           /\ n - (n % 2^j) = (n \div 2^j) * 2^j /\ n - (n % 2^j) \in 1 .. n
           /\ n \in Index => j < INDEX_SIZE
<1> DEFINE d == 2^j
           q == n \div d
           m == n % d
<1>1. d \in Nat \ {0}
  BY PowerCounts
<1>2. q \in Nat /\ m \in 0 .. d - 1 /\ n = q * d + m
  BY <1>1, Division
<1>3. q # 0
  BY NoDigit DEF one_at
<1>4. q * d >= d /\ q * d \in Nat
  BY <1>1, <1>2, <1>3
<1>5. n # 0 /\ d <= n /\ n - m = q * d /\ n - m \in 1 .. n
  BY <1>1, <1>2, <1>4
<1>6. ASSUME n \in Index PROVE j < INDEX_SIZE
  <2>1. INDEX_SIZE \in Nat /\ 2^INDEX_SIZE \in Nat
    BY IndexSizeAssumption, PowerCounts
  <2>2. ~(2^INDEX_SIZE <= 2^j)
    BY <1>1, <1>5, <1>6, <2>1 DEF Index
  <2>3. QED
    BY <2>1, <2>2, PowerOrder
<1>7. QED
  BY <1>2, <1>5, <1>6

\* The perfect subtrees of a generation (formula.rs:151-173): they tile its
\* leaves from left to right in decreasing height, one for each of its ones.
THEOREM RootsTile ==
    ASSUME NEW n \in Index
    PROVE  LET s == pbst_roots(n)
           IN  /\ s \in Seq(NodeAddr) /\ Len(s) = count_pbsts(n)
               /\ n > 0 => Len(s) > 0 /\ s[Len(s)].i = n /\ s[1].j = floor_log2(n)
               /\ \A i, j \in Nat : Addr(i, j) \in ToSet(s) <=> is_root(n, i, j)
               /\ \A k \in 1 .. Len(s) :
                     /\ s[k].i \in 1 .. n /\ s[k].j < INDEX_SIZE
                     /\ is_pbst(s[k].i, s[k].j)
                     /\ range_start(s[k].i, s[k].j) = (IF k = 1 THEN 0 ELSE s[k - 1].i) + 1
                     /\ k > 1 => s[k].j < s[k - 1].j
<1> DEFINE s == pbst_roots(n)
<1>1. n \in Nat /\ INDEX_SIZE \in Nat
  <2>1. 2^INDEX_SIZE \in Nat
    BY IndexSizeAssumption, PowerCounts
  <2>2. QED
    BY <2>1, IndexSizeAssumption DEF Index
<1>2. RootsGood(n, n) /\ roots_of(n)[n] = s
  BY <1>1, RootsAreGood, RootsUnfold
<1> HIDE DEF s
<1>3. /\ s \in Seq(NodeAddr) /\ Len(s) = count_ones(n) /\ (n > 0 => Len(s) > 0)
      /\ n > 0 => s[1].j = floor_log2(n) /\ s[Len(s)].i = n
      /\ \A i, j \in Nat : Addr(i, j) \in ToSet(s) <=> is_root(n, i, j)
      /\ \A k \in 1 .. Len(s) : s[k].i - 2^s[k].j = IF k = 1 THEN n - n ELSE s[k - 1].i
      /\ \A k \in 2 .. Len(s) : s[k].j < s[k - 1].j
  BY <1>2 DEF RootsGood, is_root
<1>4. ASSUME NEW k \in 1 .. Len(s)
      PROVE  /\ s[k].i \in 1 .. n /\ s[k].j < INDEX_SIZE
             /\ is_pbst(s[k].i, s[k].j)
             /\ range_start(s[k].i, s[k].j) = (IF k = 1 THEN 0 ELSE s[k - 1].i) + 1
             /\ k > 1 => s[k].j < s[k - 1].j
  <2> DEFINE i == s[k].i
             j == s[k].j
             d == 2^j
             q == n \div d
  <2>1. s[k] \in NodeAddr /\ DOMAIN s = 1 .. Len(s)
    BY <1>3, ElementOfSeq, LenProperties
  <2>2. i \in Nat /\ j \in Nat /\ s[k] = Addr(i, j)
    BY <2>1 DEF NodeAddr, Addr
  <2>3. is_root(n, i, j)
    <3>1. Addr(i, j) \in ToSet(s)
      BY <2>1, <2>2 DEF ToSet
    <3>2. QED
      BY <1>3, <2>2, <3>1
  <2>4. i \in 1 .. n /\ i = q * d /\ j < INDEX_SIZE
    BY <1>1, <2>2, <2>3, DigitOfIndex DEF is_root
  <2>5. d \in Nat \ {0} /\ q \in Nat
    BY <1>1, <2>2, PowerCounts, Division
  <2>6. i - d = IF k = 1 THEN 0 ELSE s[k - 1].i
    BY <1>1, <1>3
  <2>7. k > 1 => s[k].j < s[k - 1].j
    BY <1>3
  <2> HIDE DEF i, j, d, q
  <2>8. i % d = 0
    BY <2>4, <2>5, Multiple
  <2>9. (i - 1) % d = d - 1
    <3>1. q # 0 /\ q - 1 \in Nat /\ i - 1 \in Nat
      BY <2>4, <2>5
    <3>2. i - 1 = (q - 1) * d + (d - 1) /\ d - 1 \in 0 .. d - 1
      BY <2>4, <2>5
    <3> DEFINE p == q - 1
               m == d - 1
               a == i - 1
    <3>3. p \in Nat /\ m \in 0 .. d - 1 /\ a \in Nat /\ a = p * d + m
      BY <3>1, <3>2
    <3> HIDE DEF p, m, a
    <3>4. a % d = m
      BY <2>5, <3>3, Quotient
    <3>5. QED
      BY <3>4 DEF m, a
  <2>10. is_pbst(i, j)
    BY <2>4, <2>8, <1>1, <2>2 DEF is_pbst, i_mod_2e, d
  <2>11. range_start(i, j) = (i - d) + 1
    <3>1. i_mod_2e(i - 1, j) = d - 1
      BY <2>4, <2>9, <1>1, <2>2 DEF i_mod_2e, d
    <3>2. QED
      BY <2>2, <2>5, <3>1 DEF range_start
  <2>12. QED
    BY <2>4, <2>6, <2>7, <2>10, <2>11 DEF i, j
<1>5. QED
  BY <1>3, <1>4 DEF s, count_pbsts

-----------------------------------------------------------------------------
(* The nodes that the entry of a generation adds.                          *)

LEMMA IndexIsNat == Index \subseteq Nat /\ INDEX_SIZE \in Nat /\ \A n \in Index : 0 .. n \subseteq Index
<1>1. 2^INDEX_SIZE \in Nat
  BY IndexSizeAssumption, PowerCounts
<1>2. QED
  BY <1>1, IndexSizeAssumption DEF Index

\* A root that ends before n was one before n came.
LEMMA OldRoot ==
    ASSUME NEW n \in Nat \ {0}, NEW i \in Nat, NEW j \in Nat, is_root(n, i, j), i < n
    PROVE  is_root(n - 1, i, j)
<1> DEFINE d == 2^j
           q == n \div d
           m == (n % d) - 1
           a == n - 1
<1>1. d \in Nat \ {0}
  BY PowerCounts
<1>2. q \in Nat /\ n % d \in 0 .. d - 1 /\ n = q * d + (n % d)
  BY <1>1, Division
<1>3. i = n - (n % d) /\ q % 2 = 1
  BY DEF is_root, one_at
<1>4. m \in 0 .. d - 1 /\ a \in Nat /\ a = q * d + m /\ i = a - m /\ q \in Nat
  BY <1>1, <1>2, <1>3
<1> HIDE DEF m, a, q, d
<1>5. a \div d = q /\ a % d = m
  BY <1>1, <1>4, Quotient, SMTT(30)
<1>6. QED
  BY <1>3, <1>4, <1>5 DEF is_root, one_at, a, d

\* No two roots of a generation end at the same leaf.
LEMMA RootEndsOnce ==
    ASSUME NEW n \in Nat, NEW i, NEW h \in Nat, NEW g \in Nat, is_root(n, i, h), is_root(n, i, g)
    PROVE  ~(g < h)
<1> SUFFICES ASSUME g < h PROVE FALSE
  OBVIOUS
<1> DEFINE d == 2^g
           p == 2^(h - g - 1)
           q == n \div 2^h
           c == q * (2 * p)
           m == n % d
<1>1. n = q * 2^h + m /\ q \in Nat /\ m \in 0 .. d - 1
  <2> DEFINE b == 2^h
             a == n % b
  <2>1. b \in Nat \ {0} /\ d \in Nat \ {0} /\ q = n \div b
    BY PowerCounts
  <2>2. i = n - a /\ i = n - m
    BY DEF is_root
  <2> HIDE DEF b, d, q
  <2>3. n = q * b + a /\ q \in Nat /\ a \in 0 .. b - 1
    BY <2>1, Division
  <2>4. m \in 0 .. d - 1
    BY <2>1, Division
  <2> HIDE DEF a, m
  <2>5. a = m
    BY <2>1, <2>2, <2>3, <2>4
  <2>6. n = q * b + m
    BY <2>3, <2>5
  <2>7. QED
    BY <2>3, <2>4, <2>6 DEF b
<1>2. d \in Nat \ {0} /\ p \in Nat /\ 2^h = (2 * p) * d
  <2>1. h - g - 1 \in Nat /\ h - g \in Nat /\ (h - g - 1) + 1 = h - g /\ (h - g) + g = h
    OBVIOUS
  <2>2. 2^((h - g - 1) + 1) = 2 * 2^(h - g - 1) /\ 2^((h - g) + g) = 2^(h - g) * 2^g
    BY <2>1, PowerDoubles, PowerSum
  <2>3. QED
    BY <2>1, <2>2, PowerCounts
<1> HIDE DEF p, q, d, m
<1>3. n = c * d + m /\ c \in Nat
  BY <1>1, <1>2
<1>4. c = 2 * (q * p) /\ q * p \in Nat
  BY <1>1, <1>2
<1>5. c % 2 = 0
  BY <1>4
<1> HIDE DEF c
<1>6. n \div d = c
  BY <1>1, <1>2, <1>3, Quotient
<1>7. (n \div d) % 2 = 1
  BY DEF is_root, one_at, d
<1>8. QED
  BY <1>5, <1>6, <1>7

\* The left child of a node over the leaf of n is a root of the generation before.
LEMMA SpineRoot ==
    ASSUME NEW n \in Nat, NEW h \in Nat, is_root(n, n, h), NEW j \in 1 .. h
    PROVE  /\ spine_left(n, j) = Addr(n - 2^(j - 1), j - 1)
           /\ n - 2^(j - 1) \in 1 .. n - 1
           /\ is_root(n - 1, n - 2^(j - 1), j - 1)
<1> DEFINE d == 2^(j - 1)
           p == 2^(h - j)
           q == n \div 2^h
           c == q * (2 * p)
<1>1. n = q * 2^h /\ q \in Nat /\ q # 0
  <2>1. 2^h \in Nat \ {0} /\ n = n - (n % 2^h)
    BY PowerCounts DEF is_root
  <2>2. n # 0 /\ n - (n % 2^h) = q * 2^h
    BY DigitOfIndex DEF is_root
  <2>3. QED
    BY <2>1, <2>2, Division
<1>2. d \in Nat \ {0} /\ p \in Nat \ {0} /\ 2^h = (2 * p) * d /\ 2^j = 2 * d
  <2>1. /\ h - j \in Nat /\ h - j + 1 \in Nat /\ j - 1 \in Nat
        /\ (j - 1) + 1 = j /\ (h - j + 1) + (j - 1) = h
    OBVIOUS
  <2>2. /\ 2^((h - j) + 1) = 2 * 2^(h - j) /\ 2^((h - j + 1) + (j - 1)) = 2^(h - j + 1) * 2^(j - 1)
        /\ 2^((j - 1) + 1) = 2 * 2^(j - 1)
    BY <2>1, PowerDoubles, PowerSum
  <2>3. QED
    BY <2>1, <2>2, PowerCounts
<1>3. spine_left(n, j) = Addr(n - d, j - 1)
  <2>1. n - 2^j + 2^(j - 1) = n - d
    BY <1>2
  <2>2. QED
    BY <2>1 DEF spine_left
<1> HIDE DEF p, q, d
<1>4. n = c * d /\ c \in Nat /\ c >= 2
  <2>1. q * p >= 1
    BY <1>1, <1>2
  <2>2. QED
    BY <1>1, <1>2, <2>1
<1>5. c = 2 * (q * p) /\ q * p \in Nat
  BY <1>1, <1>2
<1>6. (c - 1) % 2 = 1
  BY <1>5
<1> HIDE DEF c
<1> DEFINE b == c - 1
           m == d - 1
           a == n - 1
<1>7. b \in Nat /\ m \in 0 .. d - 1 /\ a = b * d + m /\ n - d \in 1 .. n - 1 /\ a \in Nat
  <2>1. c * d >= 2 * d /\ b * d = c * d - d
    BY <1>2, <1>4
  <2>2. QED
    BY <1>2, <1>4, <2>1
<1> HIDE DEF a, b, m
<1>8. a \div d = b /\ a % d = m
  BY <1>2, <1>7, Quotient
<1>9. n - d = a - m
  BY <1>2, <1>4 DEF a, m
<1>10. is_root(a, a - m, j - 1)
  BY <1>6, <1>8 DEF is_root, one_at, d, b
<1>11. QED
  BY <1>3, <1>7, <1>9, <1>10 DEF a, d

INodes == [node : NodeAddr, left : NodeAddr, right : NodeAddr]

\* How the inodes of an entry stand over one another, from the top down.
Descends(n, s) ==
    /\ s \in Seq(INodes)
    /\ \A k \in 1 .. Len(s) :
          /\ s[k].node.i = n /\ s[k].node.j = s[k].left.j + 1
          /\ s[k].left.j >= s[k].right.j
          /\ s[k].left.i < n /\ is_root(n - 1, s[k].left.i, s[k].left.j)
          /\ k < Len(s) => s[k].right = s[k + 1].node

LEMMA SpineShape ==
    ASSUME NEW n \in Index \ {0}
    PROVE  LET p == pbst_roots(n)
               h == p[Len(p)].j
               s == pbst_spine(n)
           IN  /\ h \in Nat /\ is_root(n, n, h) /\ p[Len(p)] = Addr(n, h)
               /\ s = [k \in 1 .. h |-> INodeAddr(Addr(n, h - k + 1), spine_left(n, h - k + 1),
                                                  Addr(n, h - k))]
               /\ Descends(n, s) /\ Len(s) = h
               /\ h > 0 => s[1].node = Addr(n, h) /\ s[h].right = Addr(n, 0)
<1> DEFINE p == pbst_roots(n)
           h == p[Len(p)].j
           s == pbst_spine(n)
           t == [k \in 1 .. h |-> INodeAddr(Addr(n, h - k + 1), spine_left(n, h - k + 1),
                                            Addr(n, h - k))]
           own == {k \in ToSet(p) : k.i = n}
<1>1. n \in Nat \ {0}
  BY IndexIsNat
<1>2. /\ p \in Seq(NodeAddr) /\ Len(p) > 0 /\ p[Len(p)].i = n
      /\ \A i, j \in Nat : Addr(i, j) \in ToSet(p) <=> is_root(n, i, j)
  BY <1>1, RootsTile
<1>3. Len(p) \in 1 .. Len(p) /\ DOMAIN p = 1 .. Len(p) /\ \A k \in 1 .. Len(p) : p[k] \in NodeAddr
  BY <1>2, LenProperties, ElementOfSeq
<1>4. h \in Nat /\ p[Len(p)] = Addr(n, h)
  BY <1>2, <1>3 DEF NodeAddr, Addr
<1>5. p[Len(p)] \in ToSet(p)
  BY <1>3 DEF ToSet
<1>6. is_root(n, n, h)
  BY <1>1, <1>2, <1>4, <1>5
<1>7. \A k \in own : k.j = h
  <2> SUFFICES ASSUME NEW k \in own PROVE k.j = h
    OBVIOUS
  <2>1. k \in NodeAddr /\ k.i = n
    BY <1>3 DEF ToSet
  <2>2. k.j \in Nat /\ k = Addr(n, k.j)
    BY <2>1 DEF NodeAddr, Addr
  <2>3. is_root(n, n, k.j)
    BY <1>1, <1>2, <2>2
  <2>4. ~(k.j < h) /\ ~(h < k.j)
    BY <1>1, <1>4, <1>6, <2>2, <2>3, RootEndsOnce
  <2>5. QED
    BY <1>4, <2>2, <2>4
<1>8. p[Len(p)] \in own
  BY <1>2, <1>5
<1>9. (IF own = {} THEN 0 ELSE (CHOOSE k \in own : TRUE).j) = h
  BY <1>7, <1>8
<1>10. s = t
  <2> DEFINE g == IF own = {} THEN 0 ELSE (CHOOSE k \in own : TRUE).j
  <2>1. s = [k \in 1 .. g |-> LET j == g - k + 1
                             IN  INodeAddr(Addr(n, j), spine_left(n, j), Addr(n, j - 1))]
    BY DEF pbst_spine
  <2>2. g = h
    BY <1>9
  <2> HIDE DEF g, h
  <2>3. \A k \in 1 .. h : (h - k + 1) - 1 = h - k
    BY <1>4
  <2>4. QED
    BY <2>1, <2>2, <2>3
<1> HIDE DEF h, s, p
<1>11. ASSUME NEW k \in 1 .. h
       PROVE  /\ t[k] \in INodes /\ t[k].node = Addr(n, h - k + 1) /\ t[k].right = Addr(n, h - k)
              /\ t[k].left.j = h - k /\ t[k].left.i < n
              /\ is_root(n - 1, t[k].left.i, t[k].left.j)
  <2> DEFINE j == h - k + 1
  <2>1. j \in 1 .. h /\ j - 1 = h - k /\ h - k \in Nat /\ j \in Nat
    BY <1>4
  <2>2. /\ spine_left(n, j) = Addr(n - 2^(j - 1), j - 1)
        /\ n - 2^(j - 1) \in 1 .. n - 1
        /\ is_root(n - 1, n - 2^(j - 1), j - 1)
    BY <1>1, <1>4, <1>6, <2>1, SpineRoot
  <2>3. t[k] = INodeAddr(Addr(n, j), spine_left(n, j), Addr(n, h - k))
    OBVIOUS
  <2> HIDE DEF t, j
  <2>4. t[k].node = Addr(n, j) /\ t[k].left = Addr(n - 2^(j - 1), h - k) /\ t[k].right = Addr(n, h - k)
    BY <2>1, <2>2, <2>3 DEF INodeAddr
  <2>5. t[k] \in INodes
    BY <1>1, <2>1, <2>2, <2>3 DEF INodes, INodeAddr, Addr, NodeAddr
  <2>6. QED
    BY <1>1, <2>1, <2>2, <2>4, <2>5 DEF Addr, j
<1>12. t \in Seq(INodes) /\ Len(t) = h
  BY <1>4, <1>11
<1>13. Descends(n, t)
  <2>1. ASSUME NEW k \in 1 .. Len(t)
        PROVE  /\ t[k].node.i = n /\ t[k].node.j = t[k].left.j + 1
               /\ t[k].left.j >= t[k].right.j
               /\ t[k].left.i < n /\ is_root(n - 1, t[k].left.i, t[k].left.j)
    <3> HIDE DEF t
    <3>1. k \in 1 .. h
      BY <1>12
    <3>2. /\ t[k].node = Addr(n, h - k + 1) /\ t[k].right = Addr(n, h - k)
          /\ t[k].left.j = h - k /\ t[k].left.i < n /\ is_root(n - 1, t[k].left.i, t[k].left.j)
      BY <1>11, <3>1
    <3>3. t[k].node.i = n /\ t[k].node.j = h - k + 1 /\ t[k].right.j = h - k
      BY <3>2 DEF Addr
    <3>4. QED
      BY <1>4, <3>2, <3>3
  <2>2. ASSUME NEW k \in 1 .. Len(t), k < Len(t) PROVE t[k].right = t[k + 1].node
    <3>1. k \in 1 .. h /\ k + 1 \in 1 .. h /\ h - (k + 1) + 1 = h - k
      BY <1>4, <1>12, <2>2
    <3> HIDE DEF t
    <3>2. QED
      BY <1>11, <3>1
  <2>3. QED
    BY <1>12, <2>1, <2>2 DEF Descends
<1>14. h > 0 => t[1].node = Addr(n, h) /\ t[h].right = Addr(n, 0)
  <2> SUFFICES ASSUME h > 0 PROVE t[1].node = Addr(n, h) /\ t[h].right = Addr(n, 0)
    OBVIOUS
  <2> HIDE DEF t
  <2>1. 1 \in 1 .. h /\ h \in 1 .. h /\ h - 1 + 1 = h /\ h - h = 0
    BY <1>4
  <2>2. QED
    BY <1>11, <2>1
<1>15. QED
  BY <1>4, <1>6, <1>10, <1>12, <1>13, <1>14 DEF h, s, p

LEMMA EphemeralShape ==
    ASSUME NEW n \in Index \ {0}
    PROVE  LET p == pbst_roots(n)
               s == ephemeral_nodes(n)
           IN  /\ Descends(n, s) /\ Len(s) = Len(p) - 1
               /\ \A k \in 1 .. Len(s) : s[k].left = p[k]
               /\ Len(s) > 0 => s[Len(s)].right = p[Len(p)]
<1> DEFINE p == pbst_roots(n)
           s == ephemeral_nodes(n)
           last == Len(p) - 1
<1>1. n \in Nat \ {0}
  BY IndexIsNat
<1>2. /\ p \in Seq(NodeAddr) /\ Len(p) > 0
      /\ \A i, j \in Nat : Addr(i, j) \in ToSet(p) <=> is_root(n, i, j)
      /\ \A k \in 1 .. Len(p) : p[k].i \in 1 .. n /\ (k > 1 => p[k].j < p[k - 1].j)
  BY <1>1, RootsTile
<1>3. Len(p) \in Nat /\ DOMAIN p = 1 .. Len(p) /\ \A k \in 1 .. Len(p) : p[k] \in NodeAddr
  BY <1>2, LenProperties, ElementOfSeq
<1>4. last \in Nat /\ Len(p) = last + 1 /\ (last > 0 => last \in 1 .. last)
  BY <1>2, <1>3
<1>a. s = [k \in 1 .. last |-> INodeAddr(Addr(n, p[k].j + 1), p[k],
                                         IF k = last THEN p[k + 1] ELSE Addr(n, p[k + 1].j + 1))]
  BY DEF ephemeral_nodes
<1>5. \A k \in 1 .. last : p[k].i < p[k + 1].i
  <2> SUFFICES ASSUME NEW k \in 1 .. last PROVE p[k].i < p[k + 1].i
    OBVIOUS
  <2>1. k + 1 \in 1 .. Len(p) /\ k + 1 # 1 /\ (k + 1) - 1 = k /\ k \in 1 .. Len(p)
    BY <1>3, <1>4
  <2>2. p[k + 1].i - 2^p[k + 1].j = p[k].i
    <3>1. RootsGood(n, n) /\ roots_of(n)[n] = p
      BY <1>1, RootsAreGood, RootsUnfold
    <3> HIDE DEF p
    <3>2. QED
      BY <2>1, <3>1 DEF RootsGood
  <2>3. 2^p[k + 1].j \in Nat \ {0}
    BY <1>3, <2>1, PowerCounts DEF NodeAddr
  <2>4. QED
    BY <1>3, <2>1, <2>2, <2>3 DEF NodeAddr
<1> HIDE DEF p, s, last
<1>6. ASSUME NEW k \in 1 .. last
      PROVE  /\ p[k] \in NodeAddr /\ p[k].i < n /\ p[k].i \in Nat /\ p[k].j \in Nat
             /\ is_root(n - 1, p[k].i, p[k].j)
             /\ p[k + 1] \in NodeAddr /\ p[k + 1].j < p[k].j /\ p[k + 1].j \in Nat
  <2>1. k \in 1 .. Len(p) /\ k + 1 \in 1 .. Len(p) /\ (k + 1) - 1 = k /\ k + 1 > 1
    BY <1>3, <1>4
  <2>2. p[k] \in NodeAddr /\ p[k + 1] \in NodeAddr /\ p[k + 1].j < p[k].j
    BY <1>2, <1>3, <2>1
  <2>3. p[k].i \in Nat /\ p[k].j \in Nat /\ p[k + 1].j \in Nat /\ p[k] = Addr(p[k].i, p[k].j)
    BY <2>2 DEF NodeAddr, Addr
  <2>4. p[k].i < n
    BY <1>1, <1>2, <1>5, <2>1, <2>3
  <2>5. is_root(n, p[k].i, p[k].j)
    BY <1>2, <1>3, <2>1, <2>3 DEF ToSet
  <2>6. QED
    BY <1>1, <2>2, <2>3, <2>4, <2>5, OldRoot
<1>7. ASSUME NEW k \in 1 .. last
      PROVE  /\ s[k] \in INodes /\ s[k].node = Addr(n, p[k].j + 1) /\ s[k].left = p[k]
             /\ s[k].right = IF k = last THEN p[k + 1] ELSE Addr(n, p[k + 1].j + 1)
  <2> DEFINE r == IF k = last THEN p[k + 1] ELSE Addr(n, p[k + 1].j + 1)
  <2>1. s[k] = INodeAddr(Addr(n, p[k].j + 1), p[k], r)
    BY <1>a
  <2>2. r \in NodeAddr /\ Addr(n, p[k].j + 1) \in NodeAddr
    BY <1>1, <1>6 DEF NodeAddr, Addr
  <2> HIDE DEF r
  <2>3. s[k] \in INodes /\ s[k].node = Addr(n, p[k].j + 1) /\ s[k].left = p[k] /\ s[k].right = r
    BY <1>6, <2>1, <2>2 DEF INodes, INodeAddr
  <2>4. QED
    BY <2>3 DEF r
<1>8. s \in Seq(INodes) /\ Len(s) = last
  <2>1. \A k \in 1 .. last : s[k] \in INodes
    BY <1>7
  <2>2. s \in [1 .. last -> INodes]
    BY <1>a, <2>1
  <2>3. QED
    BY <1>4, <2>2
<1>9. ASSUME NEW k \in 1 .. last
      PROVE  /\ s[k].node.i = n /\ s[k].node.j = s[k].left.j + 1
             /\ s[k].left.j >= s[k].right.j
             /\ s[k].left.i < n /\ is_root(n - 1, s[k].left.i, s[k].left.j)
             /\ k < last => s[k].right = s[k + 1].node
  <2>1. s[k].node.i = n /\ s[k].node.j = s[k].left.j + 1
    <3>1. s[k].node = Addr(n, p[k].j + 1) /\ s[k].left = p[k]
      BY <1>7
    <3>2. QED
      BY <3>1 DEF Addr
  <2>2. s[k].left.j >= s[k].right.j
    <3>1. s[k].left = p[k] /\ (s[k].right = p[k + 1] \/ s[k].right = Addr(n, p[k + 1].j + 1))
      BY <1>7
    <3>2. s[k].right.j \in {p[k + 1].j, p[k + 1].j + 1}
      BY <3>1 DEF Addr
    <3>3. QED
      BY <1>6, <3>1, <3>2
  <2>3. s[k].left.i < n /\ is_root(n - 1, s[k].left.i, s[k].left.j)
    BY <1>6, <1>7
  <2>4. ASSUME k < last PROVE s[k].right = s[k + 1].node
    <3>1. k + 1 \in 1 .. last /\ k # last
      BY <1>4, <2>4
    <3>2. QED
      BY <1>7, <3>1
  <2>5. QED
    BY <2>1, <2>2, <2>3, <2>4
<1>10. Descends(n, s)
  BY <1>8, <1>9 DEF Descends
<1>11. last > 0 => s[last].right = p[Len(p)]
  BY <1>3, <1>4, <1>7
<1>12. QED
  BY <1>7, <1>8, <1>10, <1>11 DEF p, s, last

LEMMA DownwardsShape ==
    ASSUME NEW n \in Index \ {0}
    PROVE  LET s == ephemeral_nodes(n) \o pbst_spine(n)
           IN  /\ Descends(n, s)
               /\ Len(s) > 0 => s[Len(s)].right = Addr(n, 0)
               /\ Len(s) = Len(ephemeral_nodes(n)) + Len(pbst_spine(n))
               /\ \A k \in 1 .. Len(s) :
                     s[k] = IF k <= Len(ephemeral_nodes(n)) THEN ephemeral_nodes(n)[k]
                            ELSE pbst_spine(n)[k - Len(ephemeral_nodes(n))]
<1> DEFINE e == ephemeral_nodes(n)
           b == pbst_spine(n)
           s == e \o b
           h == Len(b)
           g == Len(e)
<1>1. /\ Descends(n, b) /\ h \in Nat
      /\ h > 0 => b[1].node = Addr(n, h) /\ b[h].right = Addr(n, 0)
      /\ pbst_roots(n)[Len(pbst_roots(n))] = Addr(n, h)
  BY SpineShape
<1>2. /\ Descends(n, e)
      /\ Len(e) > 0 => e[Len(e)].right = pbst_roots(n)[Len(pbst_roots(n))]
  BY EphemeralShape
<1> HIDE DEF e, b
<1>3. e \in Seq(INodes) /\ b \in Seq(INodes) /\ g \in Nat
  BY <1>1, <1>2, LenProperties DEF Descends
<1>4. /\ s \in Seq(INodes) /\ Len(s) = g + h
      /\ \A k \in 1 .. g + h : s[k] = IF k <= g THEN e[k] ELSE b[k - g]
  BY <1>3, ConcatProperties
<1> HIDE DEF s
<1>5. ASSUME NEW k \in 1 .. Len(s)
      PROVE  /\ s[k].node.i = n /\ s[k].node.j = s[k].left.j + 1
             /\ s[k].left.j >= s[k].right.j
             /\ s[k].left.i < n /\ is_root(n - 1, s[k].left.i, s[k].left.j)
             /\ k < Len(s) => s[k].right = s[k + 1].node
  <2>1. CASE k < g
    <3>1. k \in 1 .. g /\ k + 1 \in 1 .. g /\ s[k] = e[k] /\ s[k + 1] = e[k + 1]
      BY <1>1, <1>3, <1>4, <2>1
    <3>2. QED
      BY <1>2, <2>1, <3>1 DEF Descends
  <2>2. CASE k = g
    <3>1. k \in 1 .. g /\ s[k] = e[k] /\ e[g].right = Addr(n, h)
      BY <1>1, <1>2, <1>3, <1>4, <2>2
    <3>2. k < Len(s) => s[k + 1] = b[1] /\ h > 0
      <4> SUFFICES ASSUME k < Len(s) PROVE s[k + 1] = b[1] /\ h > 0
        OBVIOUS
      <4>1. g + 1 \in 1 .. g + h /\ ~(g + 1 <= g) /\ (g + 1) - g = 1 /\ h > 0
        BY <1>1, <1>3, <1>4, <2>2
      <4>2. s[g + 1] = b[(g + 1) - g]
        BY <1>4, <4>1
      <4>3. QED
        BY <2>2, <4>1, <4>2
    <3>3. QED
      BY <1>1, <1>2, <2>2, <3>1, <3>2 DEF Descends
  <2>3. CASE k > g
    <3>1. /\ k - g \in 1 .. h /\ s[k] = b[k - g]
          /\ k < Len(s) => s[k + 1] = b[(k - g) + 1] /\ k - g < h
      <4>1. k - g \in 1 .. h /\ s[k] = b[k - g]
        BY <1>1, <1>3, <1>4, <2>3
      <4>2. ASSUME k < Len(s) PROVE s[k + 1] = b[(k - g) + 1] /\ k - g < h
        <5>1. k + 1 \in 1 .. g + h /\ ~(k + 1 <= g) /\ (k + 1) - g = (k - g) + 1 /\ k - g < h
          BY <1>1, <1>3, <1>4, <2>3, <4>2
        <5>2. s[k + 1] = b[(k + 1) - g]
          BY <1>4, <5>1
        <5>3. QED
          BY <5>1, <5>2
      <4>3. QED
        BY <4>1, <4>2
    <3>2. QED
      BY <1>1, <3>1 DEF Descends
  <2>4. QED
    BY <1>3, <1>4, <2>1, <2>2, <2>3
<1>6. Len(s) > 0 => s[Len(s)].right = Addr(n, 0)
  <2>1. CASE h > 0
    <3>1. g + h \in 1 .. g + h /\ ~(g + h <= g) /\ (g + h) - g = h
      BY <1>1, <1>3, <2>1
    <3>2. s[g + h] = b[(g + h) - g]
      BY <1>4, <3>1
    <3>3. QED
      BY <1>1, <1>4, <2>1, <3>1, <3>2
  <2>2. CASE h = 0
    BY <1>1, <1>2, <1>3, <1>4, <2>2
  <2>3. QED
    BY <1>1, <2>1, <2>2
<1>7. Descends(n, s)
  BY <1>4, <1>5 DEF Descends
<1>8. QED
  BY <1>4, <1>6, <1>7 DEF s, e, b

\* The inodes of an entry, from its leaf up (formula.rs:88-104): each stands over
\* the one before it, and its left child, at least as high as the right one, is
\* the root of a perfect subtree of the generation before.
THEOREM InodesClimb ==
    ASSUME NEW n \in Index \ {0}
    PROVE  LET s == inodes(n)
           IN  /\ s \in Seq(INodes)
               /\ \A k \in 1 .. Len(s) :
                     /\ s[k].node.i = n /\ s[k].node.j = s[k].left.j + 1
                     /\ s[k].left.j >= s[k].right.j
                     /\ s[k].left.i < n /\ is_root(n - 1, s[k].left.i, s[k].left.j)
                     /\ s[k].right = IF k = 1 THEN Addr(n, 0) ELSE s[k - 1].node
<1> DEFINE d == ephemeral_nodes(n) \o pbst_spine(n)
           s == inodes(n)
           g == Len(d)
<1>1. Descends(n, d) /\ (g > 0 => d[g].right = Addr(n, 0))
  BY DownwardsShape
<1>2. d \in Seq(INodes) /\ g \in Nat /\ \A k \in 1 .. g : d[k] \in INodes
  BY <1>1, LenProperties, ElementOfSeq DEF Descends
<1>3. s = [k \in 1 .. g |-> d[(g - k) + 1]]
  BY DEF inodes, Reverse
<1> HIDE DEF d, s
<1>4. \A k \in 1 .. g : (g - k) + 1 \in 1 .. g /\ s[k] = d[(g - k) + 1]
  BY <1>2, <1>3
<1>5. s \in Seq(INodes) /\ Len(s) = g
  <2>1. s \in [1 .. g -> INodes]
    BY <1>2, <1>3, <1>4
  <2>2. QED
    BY <1>2, <2>1
<1>6. ASSUME NEW k \in 1 .. g
      PROVE  /\ s[k].node.i = n /\ s[k].node.j = s[k].left.j + 1
             /\ s[k].left.j >= s[k].right.j
             /\ s[k].left.i < n /\ is_root(n - 1, s[k].left.i, s[k].left.j)
             /\ s[k].right = IF k = 1 THEN Addr(n, 0) ELSE s[k - 1].node
  <2> DEFINE m == (g - k) + 1
  <2>1. m \in 1 .. g /\ s[k] = d[m]
    BY <1>4
  <2>2. CASE k = 1
    <3>1. m = g
      BY <1>2, <2>2
    <3>2. QED
      BY <1>1, <1>2, <2>1, <2>2, <3>1 DEF Descends
  <2>3. CASE k # 1
    <3>1. k - 1 \in 1 .. g /\ (g - (k - 1)) + 1 = m + 1 /\ m < g
      BY <1>2, <2>3
    <3>2. s[k - 1] = d[m + 1]
      BY <1>4, <3>1
    <3>3. QED
      BY <1>1, <2>1, <2>3, <3>1, <3>2 DEF Descends
  <2>4. QED
    BY <2>2, <2>3
<1>7. QED
  BY <1>5, <1>6 DEF s

\* The inodes of an entry have different heights, higher ones after lower ones.
LEMMA InodeHeights ==
    ASSUME NEW n \in Index \ {0}
    PROVE  LET s == inodes(n)
           IN  /\ s \in Seq(INodes) /\ Len(s) \in Nat /\ DOMAIN s = 1 .. Len(s)
               /\ \A k \in 1 .. Len(s) : s[k].node = Addr(n, s[k].node.j) /\ s[k].node.j \in Nat \ {0}
               /\ \A k, m \in 1 .. Len(s) : s[k].node.j = s[m].node.j => k = m
               /\ \A k, m \in 1 .. Len(s) : k < m => s[k].node.j < s[m].node.j
<1> DEFINE s == inodes(n)
           T == {d \in Nat : \A k \in 1 .. Len(s) : k + d + 1 <= Len(s) =>
                                s[k].node.j < s[k + d + 1].node.j}
<1>1. /\ s \in Seq(INodes)
      /\ \A k \in 1 .. Len(s) :
            /\ s[k].node.i = n /\ s[k].node.j = s[k].left.j + 1
            /\ s[k].left.j >= s[k].right.j
            /\ s[k].right = IF k = 1 THEN Addr(n, 0) ELSE s[k - 1].node
  BY InodesClimb
<1> HIDE DEF s
<1>2. Len(s) \in Nat /\ DOMAIN s = 1 .. Len(s) /\ \A k \in 1 .. Len(s) : s[k] \in INodes
  BY <1>1, LenProperties, ElementOfSeq
<1>3. \A k \in 1 .. Len(s) : /\ s[k].node.j \in Nat \ {0} /\ s[k].left.j \in Nat
                             /\ s[k].right.j \in Nat /\ s[k].node = Addr(n, s[k].node.j)
  <2> SUFFICES ASSUME NEW k \in 1 .. Len(s)
               PROVE  /\ s[k].node.j \in Nat \ {0} /\ s[k].left.j \in Nat
                      /\ s[k].right.j \in Nat /\ s[k].node = Addr(n, s[k].node.j)
    OBVIOUS
  <2>1. s[k].node \in NodeAddr /\ s[k].left \in NodeAddr /\ s[k].right \in NodeAddr
    BY <1>2 DEF INodes
  <2>2. s[k].node.i = n /\ s[k].node.j = s[k].left.j + 1
    BY <1>1
  <2>3. s[k].left.j \in Nat /\ s[k].right.j \in Nat
    BY <2>1 DEF NodeAddr
  <2>4. s[k].node = Addr(n, s[k].node.j)
    BY <2>1, <2>2 DEF NodeAddr, Addr
  <2>5. QED
    BY <2>2, <2>3, <2>4
<1>4. ASSUME NEW k \in 1 .. Len(s), k + 1 <= Len(s)
      PROVE  s[k].node.j < s[k + 1].node.j
  <2>1. k + 1 \in 1 .. Len(s) /\ k + 1 # 1 /\ (k + 1) - 1 = k
    BY <1>2, <1>4
  <2> DEFINE m == k + 1
  <2>2. m \in 1 .. Len(s) /\ m # 1 /\ m - 1 = k
    BY <2>1
  <2> HIDE DEF m
  <2>3. s[m].right = s[k].node /\ s[m].node.j = s[m].left.j + 1 /\ s[m].left.j >= s[m].right.j
    BY <1>1, <2>2
  <2>4. s[m].right.j = s[k].node.j
    BY <2>3
  <2>5. s[m].left.j \in Nat /\ s[m].right.j \in Nat /\ s[k].node.j \in Nat
    BY <1>3, <2>2
  <2>6. s[k].node.j < s[m].node.j
    BY <2>3, <2>4, <2>5
  <2>7. QED
    BY <2>6 DEF m
<1>5. 0 \in T
  BY <1>2, <1>4
<1>6. ASSUME NEW d \in Nat, d \in T PROVE d + 1 \in T
  <2>1. ASSUME NEW k \in 1 .. Len(s), k + (d + 1) + 1 <= Len(s)
        PROVE  s[k].node.j < s[k + (d + 1) + 1].node.j
    <3> DEFINE m == k + d + 1
    <3>1. m \in 1 .. Len(s) /\ m + 1 \in 1 .. Len(s) /\ k + (d + 1) + 1 = m + 1
      BY <1>2, <2>1
    <3>2. s[k].node.j < s[m].node.j
      BY <1>6, <3>1
    <3> HIDE DEF m
    <3>3. s[m].node.j < s[m + 1].node.j
      BY <1>4, <3>1
    <3>4. QED
      BY <1>3, <3>1, <3>2, <3>3, SMTT(30)
  <2>2. QED
    BY <2>1
<1>7. T = Nat
  <2> T \in SUBSET Nat
    OBVIOUS
  <2> HIDE DEF T
  <2>1. QED
    BY <1>5, <1>6, Induct
<1>8. ASSUME NEW k \in 1 .. Len(s), NEW m \in 1 .. Len(s), k < m
      PROVE  s[k].node.j < s[m].node.j
  <2> DEFINE d == (m - k) - 1
  <2>1. d \in Nat /\ k + d + 1 = m
    BY <1>2, <1>8
  <2> HIDE DEF d
  <2>2. \A l \in 1 .. Len(s) : l + d + 1 <= Len(s) => s[l].node.j < s[l + d + 1].node.j
    BY <1>7, <2>1
  <2>3. k + d + 1 <= Len(s)
    BY <1>2, <2>1
  <2>4. QED
    BY <2>1, <2>2, <2>3
<1>9. \A k, m \in 1 .. Len(s) : s[k].node.j = s[m].node.j => k = m
  BY <1>2, <1>3, <1>8
<1>10. QED
  BY <1>1, <1>2, <1>3, <1>8, <1>9 DEF s

\* The roots of a generation are those that is_root describes.
LEMMA RootsAre ==
    ASSUME NEW n \in Index
    PROVE  /\ \A r \in ToSet(pbst_roots(n)) :
                 r.i \in 1 .. n /\ r.j \in Nat /\ r = Addr(r.i, r.j) /\ is_root(n, r.i, r.j)
           /\ \A i, j \in Nat : is_root(n, i, j) => Addr(i, j) \in ToSet(pbst_roots(n))
           /\ \A q, r \in ToSet(pbst_roots(n)) : q.i = r.i => q = r
<1> DEFINE s == pbst_roots(n)
<1>1. /\ s \in Seq(NodeAddr)
      /\ \A i, j \in Nat : Addr(i, j) \in ToSet(s) <=> is_root(n, i, j)
      /\ \A k \in 1 .. Len(s) : s[k].i \in 1 .. n
  BY RootsTile
<1>2. n \in Nat
  BY IndexIsNat
<1> HIDE DEF s
<1>3. ASSUME NEW r \in ToSet(s)
      PROVE  r.i \in 1 .. n /\ r.j \in Nat /\ r = Addr(r.i, r.j) /\ is_root(n, r.i, r.j)
  <2>1. PICK k \in 1 .. Len(s) : s[k] = r
    BY <1>1, LenProperties DEF ToSet
  <2>2. r \in NodeAddr
    BY <1>1, <2>1, ElementOfSeq
  <2>3. r.i \in Nat /\ r.j \in Nat /\ r = Addr(r.i, r.j)
    BY <2>2 DEF NodeAddr, Addr
  <2>4. QED
    BY <1>1, <2>1, <2>3
<1>4. ASSUME NEW q \in ToSet(s), NEW r \in ToSet(s), q.i = r.i
      PROVE  q = r
  <2>1. q = Addr(q.i, q.j) /\ r = Addr(q.i, r.j) /\ q.j \in Nat /\ r.j \in Nat
    BY <1>3, <1>4
  <2>2. is_root(n, q.i, q.j) /\ is_root(n, q.i, r.j)
    BY <1>3, <1>4
  <2>3. ~(q.j < r.j) /\ ~(r.j < q.j)
    BY <1>2, <2>1, <2>2, RootEndsOnce
  <2>4. q.j = r.j
    BY <2>1, <2>3
  <2>5. QED
    BY <2>1, <2>4
<1>5. QED
  BY <1>1, <1>3, <1>4 DEF s

\* A multiple of a power of two is one of the lower ones.
LEMMA LowerPowerDivides ==
    ASSUME NEW n \in Nat, NEW h \in Nat, n % 2^h = 0, NEW j \in 0 .. h
    PROVE  n % 2^j = 0
<1> DEFINE q == n \div 2^h
           p == 2^(h - j)
           d == 2^j
<1>1. n = q * 2^h /\ q \in Nat
  <2> DEFINE b == 2^h
             m == n % b
  <2>1. b \in Nat \ {0} /\ q = n \div b /\ m = 0
    BY PowerCounts
  <2> HIDE DEF b, q
  <2>2. n = q * b + m /\ q \in Nat
    BY <2>1, Division
  <2> HIDE DEF m
  <2>3. n = q * b
    BY <2>1, <2>2
  <2>4. QED
    BY <2>2, <2>3 DEF b
<1>2. 2^h = p * d /\ p \in Nat /\ d \in Nat \ {0}
  <2>1. h - j \in Nat /\ (h - j) + j = h /\ j \in Nat
    OBVIOUS
  <2>2. 2^((h - j) + j) = 2^(h - j) * 2^j
    BY <2>1, PowerSum
  <2>3. QED
    BY <2>1, <2>2, PowerCounts
<1> HIDE DEF q, p, d
<1>3. n = (q * p) * d /\ q * p \in Nat
  BY <1>1, <1>2
<1>4. n % d = 0
  BY <1>2, <1>3, Multiple
<1>5. QED
  BY <1>4 DEF d

\* The inodes of an entry, from its leaf up: first those over its own leaf only,
\* then the ephemeral ones, over the other roots of its generation.
LEMMA InodesParts ==
    ASSUME NEW n \in Index \ {0}
    PROVE  LET s == inodes(n)
               p == pbst_roots(n)
           IN  \E g, h \in Nat :
                 /\ Len(s) = g + h /\ Len(p) = g + 1
                 /\ is_root(n, n, h) /\ p[g + 1] = Addr(n, h)
                 /\ \A k \in 1 .. h : s[k].node = Addr(n, k) /\ s[k].left = spine_left(n, k)
                 /\ \A k \in h + 1 .. g + h :
                       /\ (g + h) - k + 1 \in 1 .. g /\ s[k].left = p[(g + h) - k + 1]
                       /\ s[k].left.i < n /\ s[k].node.j = s[k].left.j + 1
<1> DEFINE e == ephemeral_nodes(n)
           b == pbst_spine(n)
           d == e \o b
           s == inodes(n)
           g == Len(e)
           p == pbst_roots(n)
           h == Len(b)
<1>1. n \in Nat \ {0} /\ n \in Index /\ INDEX_SIZE \in Nat
  BY IndexIsNat
<1>2. /\ Descends(n, d) /\ Len(d) = g + h
      /\ \A k \in 1 .. Len(d) : d[k] = IF k <= g THEN e[k] ELSE b[k - g]
  BY DownwardsShape
<1>3. Descends(n, e) /\ g = Len(p) - 1 /\ \A k \in 1 .. g : e[k].left = p[k]
  BY EphemeralShape
<1>4. /\ h \in Nat /\ is_root(n, n, h) /\ p[Len(p)] = Addr(n, h)
      /\ b = [k \in 1 .. h |-> INodeAddr(Addr(n, h - k + 1), spine_left(n, h - k + 1), Addr(n, h - k))]
  BY SpineShape
<1>5. /\ p \in Seq(NodeAddr) /\ Len(p) > 0
      /\ \A i, j \in Nat : Addr(i, j) \in ToSet(p) <=> is_root(n, i, j)
  BY <1>1, RootsTile
<1>6. s = [k \in 1 .. Len(d) |-> d[(Len(d) - k) + 1]]
  BY DEF inodes, Reverse
<1> HIDE DEF e, b, d, s, p
<1>7. /\ Len(p) \in Nat /\ DOMAIN p = 1 .. Len(p) /\ \A k \in 1 .. Len(p) : p[k] \in NodeAddr
  BY <1>5, LenProperties, ElementOfSeq
<1>8. g \in Nat /\ Len(p) = g + 1
  BY <1>3, <1>5, <1>7
<1> HIDE DEF g, h
<1>9. Len(s) = g + h /\ \A k \in 1 .. g + h : s[k] = d[((g + h) - k) + 1]
  BY <1>2, <1>4, <1>6, <1>8
<1>10. ASSUME NEW k \in 1 .. h PROVE s[k].node = Addr(n, k) /\ s[k].left = spine_left(n, k)
  <2> DEFINE m == (h - k) + 1
  <2>1. /\ k \in 1 .. g + h /\ g + m \in 1 .. g + h /\ ((g + h) - k) + 1 = g + m
        /\ ~(g + m <= g) /\ (g + m) - g = m /\ m \in 1 .. h /\ h - m + 1 = k
    BY <1>4, <1>8
  <2> HIDE DEF m
  <2>2. s[k] = b[m]
    BY <1>2, <1>9, <2>1
  <2>3. b[m] = INodeAddr(Addr(n, k), spine_left(n, k), Addr(n, h - m))
    BY <1>4, <2>1
  <2>4. QED
    BY <2>1, <2>2, <2>3 DEF INodeAddr
<1>11. ASSUME NEW k \in h + 1 .. g + h
       PROVE  /\ (g + h) - k + 1 \in 1 .. g
              /\ s[k].left = p[(g + h) - k + 1] /\ s[k].left.i < n
              /\ s[k].node.j = s[k].left.j + 1
  <2> DEFINE m == ((g + h) - k) + 1
  <2>1. m \in 1 .. g /\ m \in 1 .. g + h /\ m <= g /\ k \in 1 .. g + h
    BY <1>4, <1>8
  <2> HIDE DEF m
  <2>2. s[k] = e[m]
    BY <1>2, <1>9, <2>1 DEF m
  <2>3. e[m].left.i < n /\ e[m].node.j = e[m].left.j + 1 /\ e[m].left = p[m]
    BY <1>3, <2>1 DEF Descends, g
  <2>4. QED
    BY <2>1, <2>2, <2>3 DEF m
<1>12. Len(p) = g + 1 /\ p[g + 1] = Addr(n, h)
  BY <1>4, <1>8
<1> HIDE DEF s
<1>13. QED
  BY <1>4, <1>8, <1>9, <1>10, <1>11, <1>12 DEF s, p

\* The inodes of an entry, from its leaf up, are those of its perfect subtree and
\* then ephemeral ones, whose left children are the other roots of its generation.
LEMMA InodesSplit ==
    ASSUME NEW n \in Index \ {0}
    PROVE  LET s == inodes(n)
           IN  \E h \in 0 .. Len(s) :
                 /\ is_root(n, n, h)
                 /\ \A k \in 1 .. Len(s) : k <= h <=> is_pbst(n, s[k].node.j)
                 /\ h > 0 => s[h].node = Addr(n, h)
                 /\ \A k \in h + 1 .. Len(s) : is_root(n, s[k].left.i, s[k].left.j)
                 /\ \A i, j \in Nat : is_root(n, i, j) =>
                       \/ i = n /\ j = h
                       \/ i < n /\ \E k \in h + 1 .. Len(s) : s[k].left = Addr(i, j)
<1> DEFINE s == inodes(n)
           p == pbst_roots(n)
<1>1. n \in Nat \ {0} /\ n \in Index /\ INDEX_SIZE \in Nat
  BY IndexIsNat
<1>2. PICK g, h \in Nat :
         /\ Len(s) = g + h /\ Len(p) = g + 1
         /\ is_root(n, n, h) /\ p[g + 1] = Addr(n, h)
         /\ \A k \in 1 .. h : s[k].node = Addr(n, k) /\ s[k].left = spine_left(n, k)
         /\ \A k \in h + 1 .. g + h :
               /\ (g + h) - k + 1 \in 1 .. g /\ s[k].left = p[(g + h) - k + 1]
               /\ s[k].left.i < n /\ s[k].node.j = s[k].left.j + 1
  BY InodesParts
<1>4. h \in Nat /\ is_root(n, n, h) /\ p[Len(p)] = Addr(n, h)
  BY <1>2
<1>5. /\ p \in Seq(NodeAddr) /\ Len(p) > 0
      /\ \A i, j \in Nat : Addr(i, j) \in ToSet(p) <=> is_root(n, i, j)
  BY <1>1, RootsTile
<1> HIDE DEF s, p
<1>7. /\ Len(p) \in Nat /\ DOMAIN p = 1 .. Len(p) /\ \A k \in 1 .. Len(p) : p[k] \in NodeAddr
  BY <1>5, LenProperties, ElementOfSeq
<1>8. g \in Nat /\ Len(p) = g + 1
  BY <1>2
<1>9. Len(s) = g + h
  BY <1>2
<1>10. ASSUME NEW k \in 1 .. h PROVE s[k].node = Addr(n, k) /\ k \in 1 .. g + h
  BY <1>2
<1>11. ASSUME NEW k \in h + 1 .. g + h
       PROVE  /\ (g + h) - k + 1 \in 1 .. g
              /\ s[k].left = p[(g + h) - k + 1] /\ s[k].left.i < n
              /\ s[k].node.j = s[k].left.j + 1
  BY <1>2
<1>12. ASSUME NEW m \in 1 .. Len(p)
       PROVE  /\ p[m].i \in Nat /\ p[m].j \in Nat /\ p[m] = Addr(p[m].i, p[m].j)
              /\ is_root(n, p[m].i, p[m].j)
  <2>1. p[m] \in NodeAddr /\ p[m] \in ToSet(p)
    BY <1>7 DEF ToSet
  <2>2. p[m].i \in Nat /\ p[m].j \in Nat /\ p[m] = Addr(p[m].i, p[m].j)
    BY <2>1 DEF NodeAddr, Addr
  <2>3. QED
    BY <1>5, <2>1, <2>2
<1>13. ASSUME NEW k \in h + 1 .. g + h
       PROVE  /\ is_root(n, s[k].left.i, s[k].left.j)
              /\ ~is_pbst(n, s[k].node.j)
  <2> DEFINE i == s[k].left.i
             j == s[k].left.j
  <2>1. is_root(n, i, j) /\ j \in Nat /\ i \in Nat /\ i < n /\ s[k].node.j = j + 1
    <3>1. (g + h) - k + 1 \in 1 .. Len(p)
      BY <1>8, <1>11
    <3>2. QED
      BY <1>11, <1>12, <3>1
  <2>2. n % 2^j # 0
    BY <1>1, <2>1 DEF is_root
  <2>3. n % 2^(j + 1) # 0
    <3>1. j + 1 \in Nat /\ j \in 0 .. j + 1
      BY <2>1
    <3>2. QED
      BY <1>1, <2>2, <3>1, LowerPowerDivides
  <2>4. ~is_pbst(n, j + 1)
    BY <1>1, <2>3 DEF is_pbst, i_mod_2e
  <2>5. QED
    BY <2>1, <2>4
<1>14. ASSUME NEW k \in 1 .. h PROVE is_pbst(n, s[k].node.j)
  <2> s[k].node = Addr(n, k)
    BY <1>10
  <2>1. s[k].node.j = k
    BY DEF Addr
  <2>2. n % 2^h = 0 /\ h < INDEX_SIZE /\ k \in 0 .. h
    <3>1. one_at(n, h) /\ n = n - (n % 2^h)
      BY <1>4 DEF is_root
    <3>2. h < INDEX_SIZE /\ n % 2^h \in 0 .. 2^h - 1 /\ 2^h \in Nat
      BY <1>1, <1>4, <3>1, DigitOfIndex, PowerCounts
    <3>3. QED
      BY <1>1, <1>4, <3>1, <3>2
  <2>3. n % 2^k = 0
    BY <1>1, <1>4, <2>2, LowerPowerDivides
  <2>4. QED
    BY <1>1, <1>4, <2>1, <2>2, <2>3 DEF is_pbst, i_mod_2e
<1>15. \A k \in 1 .. g + h : k <= h <=> is_pbst(n, s[k].node.j)
  BY <1>4, <1>8, <1>13, <1>14
<1>16. h > 0 => s[h].node = Addr(n, h)
  BY <1>4, <1>10
<1>17. ASSUME NEW i \in Nat, NEW j \in Nat, is_root(n, i, j)
       PROVE  \/ i = n /\ j = h
              \/ i < n /\ \E k \in h + 1 .. g + h : s[k].left = Addr(i, j)
  <2>1. Addr(i, j) \in ToSet(p)
    BY <1>5, <1>17
  <2>2. DOMAIN p = 1 .. Len(p)
    BY <1>7
  <2>3. PICK m \in 1 .. Len(p) : p[m] = Addr(i, j)
    BY <2>1, <2>2 DEF ToSet
  <2>4. CASE m = Len(p)
    BY <1>4, <2>3, <2>4 DEF Addr
  <2>5. CASE m # Len(p)
    <3> DEFINE k == ((g + h) - m) + 1
    <3>1. k \in h + 1 .. g + h /\ (g + h) - k + 1 = m
      BY <1>4, <1>8, <2>5
    <3>2. s[k].left = Addr(i, j) /\ s[k].left.i < n
      BY <1>11, <2>3, <3>1
    <3>3. i < n
      BY <3>2 DEF Addr
    <3>4. QED
      BY <3>1, <3>2, <3>3
  <2>6. QED
    BY <2>4, <2>5
<1>18. h \in 0 .. g + h
  BY <1>4, <1>8
<1>19. \A k \in h + 1 .. Len(s) : is_root(n, s[k].left.i, s[k].left.j)
  BY <1>9, <1>13
<1>20. \A i, j \in Nat : is_root(n, i, j) =>
          \/ i = n /\ j = h
          \/ i < n /\ \E k \in h + 1 .. Len(s) : s[k].left = Addr(i, j)
  BY <1>9, <1>17
<1>21. h \in 0 .. Len(s) /\ \A k \in 1 .. Len(s) : k <= h <=> is_pbst(n, s[k].node.j)
  BY <1>9, <1>15, <1>18
<1> HIDE DEF s
<1>22. QED
  BY <1>4, <1>16, <1>19, <1>20, <1>21 DEF s

\* A perfect subtree of height j has 2^j leaves.
LEMMA PerfectRange ==
    ASSUME NEW i \in Nat \ {0}, NEW j \in Nat, j < INDEX_SIZE, is_pbst(i, j)
    PROVE  range_start(i, j) = (i - 2^j) + 1
<1> DEFINE d == 2^j
           q == i \div d
           b == q - 1
           m == d - 1
           a == i - 1
<1>0. INDEX_SIZE \in Nat /\ a \in Nat
  BY IndexSizeAssumption
<1>1. d \in Nat \ {0} /\ INDEX_SIZE \in Nat /\ a \in Nat
  <2> HIDE DEF a
  <2> QED
    BY <1>0, PowerCounts
<1>2. i % d = 0
  BY <1>1 DEF is_pbst, i_mod_2e
<1>3. q \in Nat /\ i = q * d + (i % d)
  BY <1>1, Division
<1> HIDE DEF d, q
<1>4. i = q * d /\ q # 0
  BY <1>1, <1>2, <1>3
<1>5. b \in Nat /\ m \in 0 .. d - 1 /\ a = b * d + m
  BY <1>1, <1>3, <1>4
<1> HIDE DEF b, m, a
<1>6. a % d = m
  BY <1>1, <1>5, Quotient
<1>7. i_mod_2e(i - 1, j) = m
  BY <1>1, <1>6 DEF i_mod_2e, a, d
<1>8. QED
  BY <1>1, <1>7 DEF range_start, m, d

\* The first leaf under the k-th inode of an entry.
first_leaf(s, k) == (s[k].left.i - 2^s[k].left.j) + 1

\* The subtree to the right of each inode begins where the left one ends; a
\* perfect one has all the leaves of its height, the last one all there are.
LEMMA InodesTile ==
    ASSUME NEW n \in Index \ {0}
    PROVE  LET s == inodes(n)
           IN  /\ \A k \in 1 .. Len(s) :
                     /\ s[k].left.i + 1 = IF k = 1 THEN n ELSE first_leaf(s, k - 1)
                     /\ is_pbst(n, s[k].node.j) => first_leaf(s, k) = (n - 2^s[k].node.j) + 1
               /\ IF Len(s) = 0 THEN n = 1 ELSE first_leaf(s, Len(s)) = 1
<1> DEFINE s == inodes(n)
           p == pbst_roots(n)
           first(r) == (r.i - 2^r.j) + 1
<1>1. n \in Nat \ {0} /\ n \in Index /\ INDEX_SIZE \in Nat
  BY IndexIsNat
<1>2. PICK g, h \in Nat :
         /\ Len(s) = g + h /\ Len(p) = g + 1
         /\ is_root(n, n, h) /\ p[g + 1] = Addr(n, h)
         /\ \A k \in 1 .. h : s[k].node = Addr(n, k) /\ s[k].left = spine_left(n, k)
         /\ \A k \in h + 1 .. g + h :
               /\ (g + h) - k + 1 \in 1 .. g /\ s[k].left = p[(g + h) - k + 1]
               /\ s[k].left.i < n /\ s[k].node.j = s[k].left.j + 1
  BY InodesParts
<1>3. PICK hh \in 0 .. Len(s) : /\ is_root(n, n, hh)
                                /\ \A k \in 1 .. Len(s) : k <= hh <=> is_pbst(n, s[k].node.j)
  BY InodesSplit
<1>4. hh = h
  <2>1. hh \in Nat
    BY <1>2
  <2>2. ~(hh < h) /\ ~(h < hh)
    BY <1>1, <1>2, <1>3, <2>1, RootEndsOnce
  <2>3. QED
    BY <1>2, <2>1, <2>2
<1>5. ASSUME NEW m \in 1 .. Len(p)
      PROVE  /\ p[m].i \in Nat /\ p[m].j \in Nat
             /\ first(p[m]) = (IF m = 1 THEN 0 ELSE p[m - 1].i) + 1
  <2>1. /\ p \in Seq(NodeAddr) /\ p[m].i \in 1 .. n /\ p[m].j < INDEX_SIZE /\ is_pbst(p[m].i, p[m].j)
        /\ range_start(p[m].i, p[m].j) = (IF m = 1 THEN 0 ELSE p[m - 1].i) + 1
    BY <1>1, RootsTile
  <2>2. p[m] \in NodeAddr
    BY <2>1, ElementOfSeq
  <2>3. p[m].i \in Nat \ {0} /\ p[m].j \in Nat
    BY <2>1, <2>2 DEF NodeAddr
  <2>4. range_start(p[m].i, p[m].j) = first(p[m])
    BY <2>1, <2>3, PerfectRange
  <2>5. QED
    BY <2>1, <2>3, <2>4
<1> HIDE DEF s, p
<1>6. ASSUME NEW k \in 1 .. h
      PROVE  /\ s[k].node.j = k /\ s[k].left.i = n - 2^(k - 1)
             /\ first_leaf(s, k) = (n - 2^k) + 1 /\ 2^(k - 1) \in Nat
  <2>1. s[k].node = Addr(n, k) /\ s[k].left = Addr(n - 2^(k - 1), k - 1)
    BY <1>1, <1>2, SpineRoot
  <2>2. s[k].node.j = k /\ s[k].left.i = n - 2^(k - 1) /\ s[k].left.j = k - 1
    BY <2>1 DEF Addr
  <2>3. k - 1 \in Nat /\ (k - 1) + 1 = k
    OBVIOUS
  <2>4. 2^k = 2 * 2^(k - 1) /\ 2^(k - 1) \in Nat
    BY <2>3, PowerDoubles, PowerCounts
  <2>5. QED
    BY <1>1, <2>2, <2>4 DEF first_leaf
<1>7. ASSUME NEW k \in h + 1 .. g + h, NEW m, m = (g + h) - k + 1
      PROVE  /\ m \in 1 .. g /\ s[k].left = p[m]
             /\ first_leaf(s, k) = (IF m = 1 THEN 0 ELSE p[m - 1].i) + 1
             /\ s[k].left.i + 1 = first(p[m + 1])
  <2>1. m \in 1 .. g /\ s[k].left = p[m]
    BY <1>2, <1>7
  <2>2. m \in 1 .. Len(p) /\ m + 1 \in 1 .. Len(p) /\ m + 1 # 1 /\ (m + 1) - 1 = m
    BY <1>2, <2>1
  <2>3. first_leaf(s, k) = first(p[m])
    BY <2>1 DEF first_leaf
  <2>4. first(p[m]) = (IF m = 1 THEN 0 ELSE p[m - 1].i) + 1
    BY <1>5, <2>2
  <2>5. first(p[m + 1]) = p[m].i + 1
    <3> DEFINE o == m + 1
    <3>1. o \in 1 .. Len(p) /\ o # 1 /\ o - 1 = m
      BY <2>2
    <3> HIDE DEF o
    <3>2. first(p[o]) = p[m].i + 1
      BY <1>5, <3>1
    <3>3. QED
      BY <3>2 DEF o
  <2>6. QED
    BY <2>1, <2>3, <2>4, <2>5
<1>8. p[g + 1].i = n /\ p[g + 1].j = h /\ g + 1 \in 1 .. Len(p)
  BY <1>2 DEF Addr
<1>9. ASSUME NEW k \in 1 .. Len(s)
      PROVE  s[k].left.i + 1 = IF k = 1 THEN n ELSE first_leaf(s, k - 1)
  <2>1. CASE k <= h /\ k = 1
    <3> DEFINE o == k - 1
    <3>1. k \in 1 .. h /\ o = 0
      BY <2>1
    <3>2. s[k].left.i = n - 2^o
      BY <1>6, <3>1
    <3> HIDE DEF o
    <3>3. 2^o = 1
      BY <3>1, PowerZero
    <3>4. QED
      BY <1>1, <2>1, <3>2, <3>3
  <2>2. CASE k <= h /\ k # 1
    <3> DEFINE l == k - 1
    <3>1. k \in 1 .. h /\ l \in 1 .. h
      BY <2>2
    <3>2. s[k].left.i = n - 2^l /\ first_leaf(s, l) = (n - 2^l) + 1 /\ 2^l \in Nat
      <4>1. s[k].left.i = n - 2^(k - 1) /\ 2^(k - 1) \in Nat
        BY <1>6, <3>1
      <4> HIDE DEF l
      <4>2. first_leaf(s, l) = (n - 2^l) + 1
        BY <1>6, <3>1
      <4>3. QED
        BY <4>1, <4>2 DEF l
    <3>3. QED
      BY <1>1, <2>2, <3>2
  <2>3. CASE k > h
    <3> DEFINE m == (g + h) - k + 1
               l == k - 1
    <3>1. k \in h + 1 .. g + h /\ m \in 1 .. g
      BY <1>2, <2>3
    <3>2. s[k].left.i + 1 = first(p[m + 1])
      BY <1>7, <3>1
    <3>3. CASE l > h
      <4>1. l \in h + 1 .. g + h /\ m + 1 = (g + h) - l + 1 /\ k # 1 /\ m + 1 # 1
        BY <1>2, <2>3, <3>1, <3>3
      <4> HIDE DEF l, m
      <4> DEFINE o == m + 1
      <4>2. o \in 1 .. g /\ first_leaf(s, l) = (IF o = 1 THEN 0 ELSE p[o - 1].i) + 1
        BY <1>7, <4>1
      <4>5. o \in 1 .. Len(p)
        BY <1>2, <4>2
      <4> HIDE DEF first
      <4>3. first(p[o]) = (IF o = 1 THEN 0 ELSE p[o - 1].i) + 1
        BY <1>5, <4>5
      <4>4. QED
        BY <3>2, <4>1, <4>2, <4>3 DEF l
    <3>4. CASE l = h /\ h > 0
      <4>4. k = h + 1 /\ g \in Nat /\ h \in Nat
        BY <1>2, <2>3, <3>4
      <4>1. m + 1 = g + 1 /\ l \in 1 .. h /\ k # 1
        BY <3>4, <4>4
      <4>2. first(p[g + 1]) = (n - 2^h) + 1
        BY <1>8
      <4>3. first_leaf(s, h) = (n - 2^h) + 1
        BY <1>6, <3>4, <4>1
      <4>5. QED
        BY <3>2, <3>4, <4>1, <4>2, <4>3
    <3>5. CASE l = h /\ h = 0
      <4>1. m + 1 = g + 1 /\ k = 1
        BY <1>2, <3>1, <3>5
      <4>2. first(p[g + 1]) = (n - 1) + 1
        BY <1>8, <3>5, PowerZero
      <4>3. QED
        BY <1>1, <3>2, <4>1, <4>2
    <3>6. QED
      BY <1>2, <2>3, <3>3, <3>4, <3>5
  <2>4. QED
    BY <1>2, <2>1, <2>2, <2>3
<1>10. ASSUME NEW k \in 1 .. Len(s), is_pbst(n, s[k].node.j)
       PROVE  first_leaf(s, k) = (n - 2^s[k].node.j) + 1
  <2>1. k \in 1 .. h
    BY <1>2, <1>3, <1>4, <1>10 DEF s
  <2>2. QED
    BY <1>6, <2>1
<1>11. first(p[1]) = 1 /\ 1 \in 1 .. Len(p)
  <2>1. 1 \in 1 .. Len(p)
    BY <1>2
  <2>2. QED
    BY <1>5, <2>1
<1>12. CASE g = 0
  <2>1. p[1].i = n /\ p[1].j = h
    BY <1>8, <1>12
  <2>2. (n - 2^h) + 1 = 1
    BY <1>11, <2>1
  <2>3. CASE h = 0
    <3>1. Len(s) = 0 /\ n - 1 = 0
      BY <1>1, <1>2, <1>12, <2>2, <2>3, PowerZero
    <3>2. QED
      BY <1>1, <1>9, <1>10, <3>1 DEF s
  <2>4. CASE h > 0
    <3>1. Len(s) = h /\ h \in 1 .. h /\ Len(s) # 0
      BY <1>2, <1>12, <2>4
    <3>2. first_leaf(s, Len(s)) = 1
      BY <1>6, <2>2, <3>1
    <3>3. QED
      BY <1>9, <1>10, <3>1, <3>2 DEF s
  <2>5. QED
    BY <1>2, <2>3, <2>4
<1>13. CASE g # 0
  <2> DEFINE k == g + h
  <2>1. k \in h + 1 .. g + h /\ (g + h) - k + 1 = 1 /\ Len(s) = k /\ Len(s) # 0
    BY <1>2, <1>13
  <2> HIDE DEF k
  <2>2. first_leaf(s, k) = (IF 1 = 1 THEN 0 ELSE p[0].i) + 1
    BY <1>7, <2>1
  <2>3. first_leaf(s, Len(s)) = 1
    BY <2>1, <2>2
  <2>4. QED
    BY <1>9, <1>10, <2>1, <2>3 DEF s
<1>14. QED
  BY <1>12, <1>13

\* A root of a generation is the root of a perfect subtree, which begins at 1 or
\* later.
LEMMA RootIsPerfect ==
    ASSUME NEW n \in Index, NEW i \in Nat, NEW j \in Nat, is_root(n, i, j)
    PROVE  /\ is_pbst(i, j) /\ j < INDEX_SIZE /\ i \in 1 .. n
           /\ 2^j \in Nat \ {0} /\ 2^j <= i
<1> DEFINE d == 2^j
           q == n \div d
<1>1. n \in Nat /\ d \in Nat \ {0} /\ INDEX_SIZE \in Nat
  BY IndexIsNat, PowerCounts
<1>2. i = q * d /\ i \in 1 .. n /\ j < INDEX_SIZE
  BY <1>1, DigitOfIndex DEF is_root
<1>3. q \in Nat
  BY <1>1, Division
<1> HIDE DEF q, d
<1>4. q # 0 /\ i % d = 0
  <2>1. (q * d) % d = 0
    BY <1>1, <1>3, Multiple
  <2>2. q # 0
    BY <1>1, <1>2
  <2>3. QED
    BY <1>2, <2>1, <2>2
<1>5. d <= i
  BY <1>1, <1>2, <1>3, <1>4
<1>6. is_pbst(i, j)
  BY <1>1, <1>2, <1>4 DEF is_pbst, i_mod_2e, d
<1>7. QED
  BY <1>1, <1>2, <1>5, <1>6 DEF d

\* An inode of height j has 2^(j-1) leaves to its left and no more than that to
\* its right.
LEMMA InodeSizes ==
    ASSUME NEW n \in Index \ {0}
    PROVE  LET s == inodes(n)
           IN  \A k \in 1 .. Len(s) :
                 LET half == 2^s[k].left.j
                     f    == first_leaf(s, k)
                 IN  /\ s[k].left.j \in Nat /\ s[k].left.i \in 1 .. n - 1
                     /\ s[k].node.j = s[k].left.j + 1
                     /\ half \in Nat /\ f \in 1 .. n - 1 /\ s[k].left.i = (f + half) - 1
                     /\ half < (n - f) + 1 /\ (n - f) + 1 <= 2 * half
                     /\ is_pbst(s[k].left.i, s[k].left.j)
<1> DEFINE s == inodes(n)
           half(k) == 2^s[k].left.j
           size(k) == (n - first_leaf(s, k)) + 1
<1>1. n \in Nat \ {0} /\ n - 1 \in Index /\ INDEX_SIZE \in Nat
  BY IndexIsNat
<1>2. /\ s \in Seq(INodes)
      /\ \A k \in 1 .. Len(s) :
            /\ s[k].node.j = s[k].left.j + 1 /\ s[k].left.j >= s[k].right.j
            /\ s[k].left.i < n /\ is_root(n - 1, s[k].left.i, s[k].left.j)
            /\ s[k].right = IF k = 1 THEN Addr(n, 0) ELSE s[k - 1].node
  BY InodesClimb
<1>3. \A k \in 1 .. Len(s) : s[k].left.i + 1 = IF k = 1 THEN n ELSE first_leaf(s, k - 1)
  BY InodesTile
<1>4. Len(s) \in Nat
  BY <1>2
<1> HIDE DEF s
<1>5. ASSUME NEW k \in 1 .. Len(s)
      PROVE  /\ s[k].left.j \in Nat /\ s[k].left.i \in 1 .. n - 1
             /\ half(k) \in Nat \ {0} /\ half(k) <= s[k].left.i
             /\ is_pbst(s[k].left.i, s[k].left.j)
             /\ first_leaf(s, k) = (s[k].left.i - half(k)) + 1
  <2>1. s[k] \in INodes
    BY <1>2, ElementOfSeq
  <2>2. s[k].left.j \in Nat /\ s[k].left.i \in Nat
    BY <2>1 DEF INodes, NodeAddr
  <2>3. is_root(n - 1, s[k].left.i, s[k].left.j)
    BY <1>2
  <2>4. QED
    BY <1>1, <2>2, <2>3, RootIsPerfect DEF first_leaf
<1>6. ASSUME NEW k \in 1 .. Len(s)
      PROVE  /\ first_leaf(s, k) \in 1 .. n - 1
             /\ s[k].left.i = (first_leaf(s, k) + half(k)) - 1
             /\ half(k) < size(k) /\ size(k) = (n - s[k].left.i) + half(k)
  <2> DEFINE d == half(k)
             i == s[k].left.i
             f == first_leaf(s, k)
  <2>1. i \in 1 .. n - 1 /\ d \in Nat \ {0} /\ d <= i /\ f = (i - d) + 1
    BY <1>5
  <2> HIDE DEF d, i, f
  <2>2. f \in 1 .. n - 1 /\ i = (f + d) - 1 /\ d < (n - f) + 1 /\ (n - f) + 1 = (n - i) + d
    BY <1>1, <2>1
  <2>3. QED
    BY <2>2 DEF d, i, f
<1>7. ASSUME NEW k \in 1 .. Len(s), k > 1 => size(k - 1) <= 2 * half(k - 1)
      PROVE  size(k) <= 2 * half(k)
  <2>1. n - s[k].left.i <= half(k)
    <3>1. CASE k = 1
      <4>1. s[k].left.i + 1 = n /\ half(k) \in Nat \ {0} /\ s[k].left.i \in Nat
        BY <1>3, <1>5, <3>1
      <4>2. QED
        BY <1>1, <4>1, SMTT(30)
    <3>2. CASE k # 1
      <4> DEFINE l == k - 1
                 b == s[l].left.j
                 c == s[k].left.j
      <4>1. l \in 1 .. Len(s) /\ k > 1
        BY <1>4, <3>2
      <4>2. s[k].left.i + 1 = first_leaf(s, l) /\ s[k].right = s[l].node
        BY <1>2, <1>3, <3>2
      <4>3. size(l) <= 2 * half(l)
        BY <1>7, <4>1
      <4> HIDE DEF l
      <4>4. b \in Nat /\ c \in Nat /\ c >= b + 1
        <5>1. s[l].left.j \in Nat /\ s[k].left.j \in Nat
          BY <1>5, <4>1
        <5>2. s[l].node.j = s[l].left.j + 1 /\ s[k].left.j >= s[k].right.j
          BY <1>2, <4>1
        <5>3. s[k].right.j = s[l].left.j + 1
          BY <4>2, <5>2
        <5>4. QED
          BY <5>1, <5>2, <5>3
      <4>5. s[k].left.i \in Nat /\ (n - s[k].left.i) = size(l)
        <5>1. s[k].left.i \in Nat
          BY <1>1, <1>5
        <5>2. first_leaf(s, l) = s[k].left.i + 1
          BY <4>2
        <5>3. (n - s[k].left.i) = (n - (s[k].left.i + 1)) + 1
          BY <1>1, <5>1
        <5>4. QED
          BY <5>1, <5>2, <5>3
      <4> HIDE DEF b, c
      <4>6. b + 1 \in Nat
        BY <4>4
      <4>7. 2^(b + 1) = 2 * 2^b /\ 2^(b + 1) <= 2^c /\ 2^c \in Nat /\ 2^b \in Nat
        BY <4>4, <4>6, PowerDoubles, PowerOrder, PowerCounts
      <4>8. half(l) = 2^b /\ half(k) = 2^c
        BY DEF b, c
      <4>9. size(l) <= 2^c
        <5>1. size(l) \in Nat
          BY <1>6, <4>1, <1>1
        <5> HIDE DEF size, half
        <5>2. QED
          BY <4>3, <4>7, <4>8, <5>1
      <4>10. QED
        BY <4>5, <4>8, <4>9
    <3>3. QED
      BY <3>1, <3>2
  <2> HIDE DEF size, half
  <2>2. size(k) = (n - s[k].left.i) + half(k) /\ s[k].left.i \in Nat /\ half(k) \in Nat
    BY <1>1, <1>5, <1>6
  <2>3. QED
    BY <1>1, <2>1, <2>2
<1>8. ASSUME NEW k \in 1 .. Len(s) PROVE size(k) <= 2 * half(k)
  <2> DEFINE T == {m \in Nat : m + 1 \in 1 .. Len(s) => size(m + 1) <= 2 * half(m + 1)}
  <2> HIDE DEF size, half
  <2>1. 0 \in T
    <3>1. 1 \in 1 .. Len(s) => size(1) <= 2 * half(1)
      BY <1>7
    <3>2. QED
      BY <3>1
  <2>2. ASSUME NEW m \in Nat, m \in T PROVE m + 1 \in T
    <3> DEFINE l == m + 2
    <3>1. l - 1 = m + 1 /\ (l \in 1 .. Len(s) => m + 1 \in 1 .. Len(s)) /\ l = (m + 1) + 1
      OBVIOUS
    <3>2. l \in 1 .. Len(s) => size(l - 1) <= 2 * half(l - 1)
      BY <2>2, <3>1
    <3> HIDE DEF l
    <3>3. l \in 1 .. Len(s) => size(l) <= 2 * half(l)
      BY <1>7, <3>2
    <3>4. QED
      BY <3>1, <3>3
  <2>3. T = Nat
    <3> T \in SUBSET Nat
      OBVIOUS
    <3> HIDE DEF T
    <3>1. QED
      BY <2>1, <2>2, Induct
  <2>4. k - 1 \in Nat /\ (k - 1) + 1 = k
    BY <1>4
  <2> DEFINE o == k - 1
  <2>5. o \in T /\ o + 1 = k
    BY <2>3, <2>4
  <2> HIDE DEF o
  <2>6. QED
    BY <2>5
<1>9. QED
  BY <1>2, <1>5, <1>6, <1>8 DEF s

\* ceil_log2 is the height of a tree of so many leaves.
LEMMA CeilLog ==
    /\ ceil_log2(1) = 0
    /\ \A n \in Index : \A h \in Nat : 2^h < n /\ n <= 2 * 2^h => ceil_log2(n) = h + 1
<1>1. ceil_log2(1) = 0
  <2>1. {b \in 0 .. (INDEX_SIZE - 1) : 2^b <= 1 - 1} = {}
    <3>1. ASSUME NEW b \in 0 .. (INDEX_SIZE - 1) PROVE ~(2^b <= 1 - 1)
      <4>1. b \in Nat
        BY IndexSizeAssumption
      <4>2. 2^b \in Nat \ {0}
        BY <4>1, PowerCounts
      <4>3. QED
        BY <4>2
    <3>2. QED
      BY <3>1
  <2>2. QED
    BY <2>1, FS_EmptySet DEF ceil_log2, bit_length
<1>2. ASSUME NEW n \in Index, NEW h \in Nat, 2^h < n, n <= 2 * 2^h
      PROVE  ceil_log2(n) = h + 1
  <2> DEFINE m == n - 1
             g == floor_log2(m)
  <2>1. n \in Nat /\ 2^h \in Nat \ {0} /\ 0 .. n \subseteq Index /\ INDEX_SIZE \in Nat
    BY IndexIsNat, PowerCounts
  <2>2. m \in Nat \ {0} /\ m \in Index /\ 2^h <= m /\ m < 2 * 2^h
    BY <1>2, <2>1
  <2>3. ceil_log2(n) = bit_length(m) /\ g = bit_length(m) - 1
    BY DEF ceil_log2, floor_log2
  <2> HIDE DEF m
  <2>4. g \in 0 .. INDEX_SIZE - 1 /\ 2^g <= m /\ m < 2^(g + 1)
    BY <2>2, FloorLog
  <2>5. bit_length(m) \in Int
    <3>1. IsFiniteSet(0 .. (INDEX_SIZE - 1))
      BY <2>1, FS_Interval
    <3>2. IsFiniteSet({b \in 0 .. (INDEX_SIZE - 1) : 2^b <= m})
      BY <3>1, FS_Subset
    <3>3. QED
      BY <3>2, FS_CardinalityType DEF bit_length
  <2> HIDE DEF g
  <2>6. g \in Nat /\ h + 1 \in Nat /\ g + 1 \in Nat
    BY <2>1, <2>4
  <2>7. /\ 2^(h + 1) = 2 * 2^h /\ 2^g \in Nat /\ 2^(g + 1) \in Nat
        /\ 2^(h + 1) \in Nat
    BY <2>6, PowerDoubles, PowerCounts
  <2>8. ~(h + 1 <= g) /\ ~(g + 1 <= h)
    BY <2>1, <2>2, <2>4, <2>6, <2>7, PowerOrder
  <2>9. QED
    BY <2>3, <2>5, <2>6, <2>8
<1>3. QED
  BY <1>1, <1>2

\* The formulas for the subnodes, the first leaf and the root (formula.rs:183-212)
\* give those of the inodes that an entry has, in trees of every width.
THEOREM FormulasFitInodes ==
    ASSUME NEW n \in Index \ {0}
    PROVE  LET s == inodes(n)
           IN  /\ \A k \in 1 .. Len(s) :
                     /\ left_of(n, s[k].node.j) = s[k].left
                     /\ right_of(n, s[k].node.j) = s[k].right
                     /\ range_start(n, s[k].node.j) = first_leaf(s, k)
               /\ root_of(n) = IF Len(s) = 0 THEN Addr(n, 0) ELSE s[Len(s)].node
<1> DEFINE s == inodes(n)
           size(k) == (n - first_leaf(s, k)) + 1
<1>1. /\ n \in Nat \ {0} /\ n - 1 \in Nat /\ n - 1 \in Index /\ INDEX_SIZE \in Nat \ {0}
      /\ n - 1 < 2^INDEX_SIZE /\ 0 .. n \subseteq Index
  BY IndexIsNat, IndexSizeAssumption, PowerCounts DEF Index
<1>2. /\ Len(s) \in Nat
      /\ \A k \in 1 .. Len(s) : s[k].node = Addr(n, s[k].node.j)
  BY InodeHeights
<1>3. /\ s \in Seq(INodes)
      /\ \A k \in 1 .. Len(s) :
            /\ s[k].node.j = s[k].left.j + 1
            /\ is_root(n - 1, s[k].left.i, s[k].left.j)
            /\ s[k].right = IF k = 1 THEN Addr(n, 0) ELSE s[k - 1].node
  BY InodesClimb
<1>4. \A k \in 1 .. Len(s) :
         LET half == 2^s[k].left.j
             f    == first_leaf(s, k)
         IN  /\ s[k].left.j \in Nat /\ s[k].left.i \in 1 .. n - 1
             /\ half \in Nat /\ f \in 1 .. n - 1 /\ s[k].left.i = (f + half) - 1
             /\ half < size(k) /\ size(k) <= 2 * half
  BY InodeSizes
<1>5. /\ \A k \in 1 .. Len(s) : s[k].left.i + 1 = IF k = 1 THEN n ELSE first_leaf(s, k - 1)
      /\ IF Len(s) = 0 THEN n = 1 ELSE first_leaf(s, Len(s)) = 1
  BY InodesTile
<1> HIDE DEF s
<1>6. ASSUME NEW k \in 1 .. Len(s)
      PROVE  ceil_log2(size(k)) = s[k].node.j /\ size(k) \in Nat
  <2> DEFINE h == s[k].left.j
             z == size(k)
  <2>1. h \in Nat /\ s[k].node.j = h + 1 /\ first_leaf(s, k) \in 1 .. n - 1 /\ 2^h < z /\ z <= 2 * 2^h
    BY <1>3, <1>4
  <2>2. z \in 0 .. n
    BY <1>1, <2>1, SMTT(30)
  <2> HIDE DEF z, h
  <2>3. z \in Index /\ z \in Nat
    BY <1>1, <2>2
  <2>4. ceil_log2(z) = h + 1
    BY <2>1, <2>3, CeilLog
  <2>5. QED
    BY <2>1, <2>3, <2>4 DEF z
<1>7. ASSUME NEW k \in 1 .. Len(s)
      PROVE  /\ left_of(n, s[k].node.j) = s[k].left
             /\ range_start(n, s[k].node.j) = first_leaf(s, k)
  <2> DEFINE j == s[k].node.j
             g == s[k].left.j
             half == 2^g
             d == 2^j
             a == n - 1
             q == a \div half
             m == a % half
             r == q \div 2
             rest == half + m
             f == first_leaf(s, k)
             i == s[k].left.i
  <2>1. /\ g \in Nat /\ j = g + 1 /\ i \in Nat /\ i = (f + half) - 1 /\ f \in Nat
        /\ is_root(a, i, g)
    BY <1>3, <1>4
  <2>2. s[k].left = Addr(i, g)
    <3>1. s[k] \in INodes
      BY <1>3, ElementOfSeq
    <3>2. QED
      BY <3>1 DEF INodes, NodeAddr, Addr
  <2>3. q % 2 = 1 /\ i = a - m
    BY <2>1 DEF is_root, one_at
  <2> HIDE DEF f, i, j, g
  <2>4. half \in Nat \ {0} /\ d = 2 * half /\ a \in Nat
    BY <1>1, <2>1, PowerDoubles, PowerCounts
  <2> HIDE DEF a, half, d
  <2>5. q \in Nat /\ m \in 0 .. half - 1 /\ a = q * half + m
    BY <2>4, Division
  <2> HIDE DEF m
  <2>6. i = q * half
    BY <2>3, <2>4, <2>5
  <2> HIDE DEF q
  <2>7. r \in Nat /\ q = r * 2 + 1
    BY <2>3, <2>5
  <2> HIDE DEF r
  <2>8. q * half = r * d + half /\ r * d \in Nat
    <3>1. q * half = (r * 2 + 1) * half
      BY <2>7
    <3>2. (r * 2 + 1) * half = r * (2 * half) + half
      BY <2>4, <2>7
    <3>3. QED
      BY <2>4, <2>7, <3>1, <3>2
  <2>9. a = r * d + rest /\ rest \in 0 .. d - 1 /\ d \in Nat \ {0} /\ rest \in Nat
    BY <2>4, <2>5, <2>8
  <2> HIDE DEF rest
  <2>10. a \div d = r /\ a % d = rest
    BY <2>4, <2>7, <2>9, Quotient
  <2>11. f = r * d + 1 /\ n = a + 1 /\ i = r * d + half
    BY <1>1, <2>1, <2>4, <2>6, <2>8, SMTT(30) DEF a
  <2>12. j < INDEX_SIZE \/ (j >= INDEX_SIZE /\ r = 0)
    <3> SUFFICES ASSUME ~(j < INDEX_SIZE) PROVE j >= INDEX_SIZE /\ r = 0
      OBVIOUS
    <3>1. j \in Nat /\ INDEX_SIZE <= j /\ INDEX_SIZE \in Nat
      BY <1>1, <2>1
    <3>2. 2^INDEX_SIZE <= d
      BY <3>1, PowerOrder DEF d
    <3>3. 2^INDEX_SIZE \in Nat
      BY <3>1, PowerCounts
    <3>4. a < d
      BY <1>1, <2>4, <2>9, <3>2, <3>3 DEF a
    <3>5. r = 0
      <4> SUFFICES ASSUME r # 0 PROVE FALSE
        OBVIOUS
      <4>1. r * d >= d
        BY <2>7, <2>9
      <4>2. QED
        BY <2>4, <2>8, <2>9, <3>4, <4>1
    <3>6. QED
      BY <3>1, <3>5
  <2>13. j - 1 = g
    BY <2>1
  <2>14. left_of(n, j) = Addr(i, g)
    <3>1. (IF j < INDEX_SIZE THEN ((n - 1) \div 2^j) * 2^j ELSE 0) = r * d
      <4>1. CASE j < INDEX_SIZE
        BY <2>10, <4>1 DEF a, d
      <4>2. CASE ~(j < INDEX_SIZE)
        BY <2>9, <2>12, <4>2
      <4>3. QED
        BY <4>1, <4>2
    <3>2. pow2e(j - 1) = half
      BY <2>13 DEF pow2e, half
    <3>3. QED
      BY <2>11, <2>13, <3>1, <3>2 DEF left_of
  <2>15. range_start(n, j) = f
    <3>1. i_mod_2e(n - 1, j) = IF j >= INDEX_SIZE THEN a ELSE rest
      BY <2>10 DEF i_mod_2e, a, d
    <3>2. i_mod_2e(n - 1, j) = rest
      <4>1. CASE j < INDEX_SIZE
        BY <1>1, <2>1, <3>1, <4>1
      <4>2. CASE j >= INDEX_SIZE /\ r = 0
        BY <2>9, <3>1, <4>2
      <4>3. QED
        BY <2>12, <4>1, <4>2
    <3>3. range_start(n, j) = n - rest
      BY <3>2 DEF range_start
    <3>4. PICK z \in Nat : z = r * d
      BY <2>8
    <3>5. QED
      BY <2>4, <2>9, <2>11, <3>3, <3>4, SMTT(30)
  <2>16. QED
    BY <2>2, <2>14, <2>15 DEF f, j
<1>8. ASSUME NEW k \in 1 .. Len(s) PROVE right_of(n, s[k].node.j) = s[k].right
  <2>1. right_of(n, s[k].node.j) = Addr(n, ceil_log2(n - s[k].left.i))
    BY <1>7 DEF right_of
  <2>2. CASE k = 1
    <3>1. n - s[k].left.i = 1
      <4>1. s[k].left.i + 1 = n /\ s[k].left.i \in 1 .. n - 1
        BY <1>4, <1>5, <2>2
      <4>2. QED
        BY <1>1, <4>1
    <3>2. s[k].right = Addr(n, 0)
      BY <1>3, <2>2
    <3>3. QED
      BY <2>1, <3>1, <3>2, CeilLog
  <2>3. CASE k # 1
    <3> DEFINE l == k - 1
    <3>1. l \in 1 .. Len(s)
      BY <1>2, <2>3
    <3>2. s[k].right = s[l].node /\ s[k].left.i + 1 = first_leaf(s, l) /\ s[k].left.i \in 1 .. n - 1
      BY <1>3, <1>4, <1>5, <2>3
    <3> HIDE DEF l
    <3>3. n - s[k].left.i = size(l)
      BY <1>1, <3>2
    <3>4. s[l].node = Addr(n, s[l].node.j) /\ ceil_log2(size(l)) = s[l].node.j
      BY <1>2, <1>6, <3>1
    <3> HIDE DEF size
    <3>5. QED
      BY <2>1, <3>2, <3>3, <3>4
  <2>4. QED
    BY <2>2, <2>3
<1>9. root_of(n) = IF Len(s) = 0 THEN Addr(n, 0) ELSE s[Len(s)].node
  <2>1. CASE Len(s) = 0
    BY <1>5, <2>1, CeilLog DEF root_of
  <2>2. CASE Len(s) # 0
    <3> DEFINE l == Len(s)
    <3>1. l \in 1 .. Len(s) /\ first_leaf(s, l) = 1
      BY <1>2, <1>5, <2>2
    <3> HIDE DEF l
    <3>2. size(l) = n
      BY <1>1, <3>1
    <3>3. s[l].node = Addr(n, s[l].node.j) /\ ceil_log2(size(l)) = s[l].node.j
      BY <1>2, <1>6, <3>1
    <3> HIDE DEF size
    <3>4. QED
      BY <2>2, <3>2, <3>3 DEF root_of, l
  <2>3. QED
    BY <2>1, <2>2
<1>10. QED
  BY <1>7, <1>8, <1>9 DEF s

-----------------------------------------------------------------------------
(* What the nodes of an entry are and which subtrees they span.            *)

\* Entry m has a node of height j: its leaf or one of its inodes.
HasNode(m, j) == j = 0 \/ \E k \in 1 .. Len(inodes(m)) : inodes(m)[k].node.j = j

LEMMA RangeOfLeaf ==
    ASSUME NEW m \in Index \ {0}
    PROVE  range_start(m, 0) = m
<1>1. m \in Nat \ {0} /\ INDEX_SIZE \in Nat \ {0}
  BY IndexIsNat, IndexSizeAssumption
<1>2. 2^0 = 1 /\ (m - 1) % 1 = 0
  BY <1>1, PowerZero
<1>3. QED
  BY <1>1, <1>2 DEF range_start, i_mod_2e

\* Where an inode stands: its left child is a perfect subtree that begins where
\* the inode does, its right one covers what follows and is at most as high.
LEMMA InodeStands ==
    ASSUME NEW m \in Index \ {0}, NEW k \in 1 .. Len(inodes(m))
    PROVE  LET w == inodes(m)[k]
               l == w.left.i
               j == w.node.j
               r == w.right.j
               f == range_start(m, j)
           IN  /\ w \in INodes /\ w.node = Addr(m, j) /\ w.left = Addr(l, j - 1) /\ w.right = Addr(m, r)
               /\ j \in Nat \ {0} /\ r \in 0 .. j - 1 /\ l \in 1 .. m - 1 /\ l \in Index \ {0}
               /\ f \in 1 .. l /\ l = (f + 2^(j - 1)) - 1 /\ (m - f) + 1 <= 2 * 2^(j - 1)
               /\ range_start(l, j - 1) = f /\ range_start(m, r) = l + 1
               /\ j - 1 < INDEX_SIZE /\ is_pbst(l, j - 1) /\ l % 2^(j - 1) = 0
               /\ HasNode(m, j) /\ HasNode(m, r)
               /\ \A q \in Nat : HasNode(m, q) => q <= r \/ q = j \/ j < q
<1> DEFINE s == inodes(m)
           w == s[k]
           l == w.left.i
           j == w.node.j
           r == w.right.j
           f == range_start(m, j)
<1>1. /\ s \in Seq(INodes) /\ Len(s) \in Nat /\ DOMAIN s = 1 .. Len(s)
      /\ \A a \in 1 .. Len(s) : s[a].node = Addr(m, s[a].node.j) /\ s[a].node.j \in Nat \ {0}
      /\ \A a, b \in 1 .. Len(s) : a < b => s[a].node.j < s[b].node.j
  BY InodeHeights
<1>2. /\ w.left.j >= w.right.j /\ w.left.i < m
      /\ is_root(m - 1, w.left.i, w.left.j)
      /\ w.right = IF k = 1 THEN Addr(m, 0) ELSE s[k - 1].node
  BY InodesClimb
<1>3. /\ w.left.j \in Nat /\ w.left.i \in 1 .. m - 1 /\ w.node.j = w.left.j + 1
      /\ first_leaf(s, k) \in 1 .. m - 1 /\ 2^w.left.j \in Nat
      /\ w.left.i = (first_leaf(s, k) + 2^w.left.j) - 1
      /\ 2^w.left.j < (m - first_leaf(s, k)) + 1
      /\ (m - first_leaf(s, k)) + 1 <= 2 * 2^w.left.j
      /\ is_pbst(w.left.i, w.left.j)
  BY InodeSizes
<1>4. w.left.i + 1 = IF k = 1 THEN m ELSE first_leaf(s, k - 1)
  BY InodesTile
<1>5. \A a \in 1 .. Len(s) : range_start(m, s[a].node.j) = first_leaf(s, a)
  BY FormulasFitInodes
<1>0. k \in 1 .. Len(s)
  OBVIOUS
<1>6. m \in Nat \ {0} /\ INDEX_SIZE \in Nat \ {0} /\ \A i \in Index : 0 .. i \subseteq Index
  BY IndexIsNat, IndexSizeAssumption
<1> HIDE DEF s
<1> USE <1>0
<1>7. w \in INodes
  BY <1>1, ElementOfSeq
<1>8. w.node \in NodeAddr /\ w.left \in NodeAddr /\ w.right \in NodeAddr
  BY <1>7 DEF INodes
<1>9. w.left = Addr(l, w.left.j) /\ w.right = Addr(w.right.i, r) /\ r \in Nat /\ w.right.i = m
  <2>1. w.right.i = m
    <3>1. CASE k = 1
      BY <1>2, <3>1 DEF Addr
    <3>2. CASE k # 1
      <4>1. k - 1 \in 1 .. Len(s)
        BY <1>1, <3>2
      <4>2. s[k - 1].node = Addr(m, s[k - 1].node.j) /\ w.right = s[k - 1].node
        BY <1>1, <1>2, <3>2, <4>1
      <4>3. QED
        BY <4>2 DEF Addr
    <3>3. QED
      BY <3>1, <3>2
  <2>2. QED
    BY <1>8, <2>1 DEF NodeAddr, Addr
<1>10. w.left.j = j - 1 /\ j \in Nat \ {0} /\ r \in 0 .. j - 1
  <2>1. w.left.j \in Nat /\ w.node.j = w.left.j + 1 /\ w.left.j >= w.right.j /\ w.right.j \in Nat
    BY <1>2, <1>3, <1>9
  <2> HIDE DEF w
  <2>2. QED
    BY <2>1
<1>11. l \in 1 .. m - 1 /\ l \in Index \ {0}
  <2>1. w.left.i \in 1 .. m - 1 /\ 0 .. m \subseteq Index
    BY <1>3, <1>6
  <2> HIDE DEF w
  <2>2. QED
    BY <1>6, <2>1
<1>12. f = first_leaf(s, k)
  BY <1>5
<1>13. f \in 1 .. l /\ l = (f + 2^(j - 1)) - 1 /\ (m - f) + 1 <= 2 * 2^(j - 1)
  <2> DEFINE p == 2^(j - 1)
  <2>1. p \in Nat \ {0} /\ f \in 1 .. m - 1 /\ l = (f + p) - 1 /\ (m - f) + 1 <= 2 * p
    BY <1>3, <1>10, <1>12, PowerCounts
  <2> HIDE DEF p, f, l
  <2>2. f \in 1 .. l
    BY <1>6, <1>11, <2>1
  <2>3. QED
    BY <2>1, <2>2 DEF p
<1>14. j - 1 < INDEX_SIZE
  <2>1. m - 1 \in Index /\ l \in Nat /\ j - 1 \in Nat
    <3>1. 0 .. m \subseteq Index /\ m - 1 \in 0 .. m
      BY <1>6
    <3> HIDE DEF j, l
    <3>2. QED
      BY <1>10, <1>11, <3>1
  <2>2. QED
    BY <1>2, <1>10, <2>1, RootIsPerfect
<1>15. is_pbst(l, j - 1) /\ l % 2^(j - 1) = 0
  <2>1. is_pbst(l, w.left.j) /\ w.left.j = j - 1
    BY <1>3, <1>10
  <2> HIDE DEF l, j, w
  <2>2. is_pbst(l, j - 1) /\ ~(j - 1 >= INDEX_SIZE)
    BY <1>6, <1>10, <1>14, <2>1
  <2>3. QED
    BY <2>2 DEF is_pbst, i_mod_2e
<1>16. range_start(l, j - 1) = f
  <2>1. range_start(l, j - 1) = (l - 2^(j - 1)) + 1
    <3>1. l \in Nat \ {0} /\ j - 1 \in Nat
      BY <1>10, <1>11
    <3> HIDE DEF l, j
    <3>2. QED
      BY <3>1, <1>14, <1>15, PerfectRange
  <2>2. 2^(j - 1) \in Nat
    <3> HIDE DEF j
    <3>1. j - 1 \in Nat
      BY <1>10
    <3>2. QED
      BY <3>1, PowerCounts
  <2> HIDE DEF f, l
  <2>3. QED
    BY <1>6, <1>13, <2>1, <2>2
<1>17. range_start(m, r) = l + 1
  <2>1. CASE k = 1
    BY <1>2, <1>4, <2>1, RangeOfLeaf DEF Addr
  <2>2. CASE k # 1
    <3>1. k - 1 \in 1 .. Len(s)
      BY <1>1, <2>2
    <3>2. w.right = s[k - 1].node /\ l + 1 = first_leaf(s, k - 1)
      BY <1>2, <1>4, <2>2
    <3>3. QED
      BY <1>5, <3>1, <3>2
  <2>3. QED
    BY <2>1, <2>2
<1>18. HasNode(m, j)
  BY DEF HasNode, s
<1>19. HasNode(m, r)
  <2>1. CASE k = 1
    BY <1>2, <2>1 DEF Addr, HasNode
  <2>2. CASE k # 1
    <3>1. k - 1 \in 1 .. Len(s) /\ w.right = s[k - 1].node
      BY <1>1, <1>2, <2>2
    <3>2. QED
      BY <3>1 DEF HasNode, s
  <2>3. QED
    BY <2>1, <2>2
<1>20. ASSUME NEW q \in Nat, HasNode(m, q) PROVE q <= r \/ q = j \/ j < q
  <2>1. CASE q = 0
    BY <1>9, <2>1
  <2>2. ASSUME NEW a \in 1 .. Len(s), s[a].node.j = q PROVE q <= r \/ q = j \/ j < q
    <3>1. CASE a >= k
      BY <1>1, <2>2, <3>1
    <3>2. CASE a = k - 1
      BY <1>2, <1>9, <2>2, <3>2
    <3>3. CASE a < k - 1
      <4>1. k # 1 /\ k - 1 \in 1 .. Len(s) /\ w.right = s[k - 1].node
        BY <1>1, <1>2, <3>3
      <4>2. q < s[k - 1].node.j
        BY <1>1, <2>2, <3>3, <4>1
      <4>3. QED
        BY <1>9, <4>1, <4>2
    <3>4. QED
      BY <1>1, <3>1, <3>2, <3>3
  <2>3. QED
    BY <1>20, <2>1, <2>2 DEF HasNode, s
<1>21. QED
  BY <1>1, <1>7, <1>9, <1>10, <1>11, <1>13, <1>14, <1>15, <1>16, <1>17, <1>18, <1>19, <1>20 DEF s

\* No one of a number is below a power of two that divides it.
LEMMA OnesStandAbove ==
    ASSUME NEW m \in Nat, NEW j \in Nat, NEW h \in Nat, m % 2^j = 0, one_at(m, h)
    PROVE  j <= h
<1> SUFFICES ASSUME h < j PROVE FALSE
  OBVIOUS
<1> DEFINE d == 2^h
<1>1. h + 1 \in 0 .. j /\ 2^(h + 1) = 2 * d /\ d \in Nat \ {0}
  <2>1. h + 1 \in 0 .. j
    OBVIOUS
  <2>2. 2^(h + 1) = 2 * d
    BY PowerDoubles
  <2>3. QED
    BY <2>1, <2>2, PowerCounts
<1>2. m % (2 * d) = 0
  <2>1. m % 2^(h + 1) = 0
    BY <1>1, LowerPowerDivides
  <2>2. QED
    BY <1>1, <2>1
<1>3. (m \div d) % 2 = 1
  BY DEF one_at
<1> HIDE DEF d
<1> DEFINE c == m \div (2 * d)
<1>4. 2 * d \in Nat \ {0}
  BY <1>1
<1>5. c \in Nat /\ m = c * (2 * d)
  <2> DEFINE D == 2 * d
  <2> HIDE DEF D
  <2>1. D \in Nat \ {0} /\ m % D = 0 /\ c = m \div D
    BY <1>2, <1>4 DEF D
  <2>2. c \in Nat /\ m = c * D + (m % D)
    BY <2>1, Division
  <2> HIDE DEF c
  <2>3. c * D \in Nat
    <3>1. c \in Nat /\ D \in Nat
      BY <2>1, <2>2
    <3>2. QED
      BY <3>1
  <2>4. QED
    BY <2>1, <2>2, <2>3 DEF D
<1> HIDE DEF c
<1>6. m = (2 * c) * d /\ 2 * c \in Nat
  BY <1>1, <1>5
<1>7. m \div d = 2 * c
  BY <1>1, <1>6, Multiple
<1>8. QED
  BY <1>3, <1>5, <1>7

\* The heights of the nodes of an entry: those of the perfect subtrees that it
\* completes, and one more than each other root of its generation.
LEMMA EntryHeights ==
    ASSUME NEW m \in Index \ {0}, NEW j \in Nat
    PROVE  /\ m % 2^j = 0 => HasNode(m, j)
           /\ j > 0 => (HasNode(m, j) <=> \/ m % 2^j = 0
                                          \/ one_at(m, j - 1) /\ m % 2^(j - 1) # 0)
<1> DEFINE s == inodes(m)
<1>0. m \in Nat \ {0} /\ INDEX_SIZE \in Nat
  BY IndexIsNat
<1>1. ASSUME m % 2^j = 0 PROVE HasNode(m, j)
  <2>1. PICK g, h \in Nat :
           /\ Len(s) = g + h /\ is_root(m, m, h)
           /\ \A k \in 1 .. h : s[k].node = Addr(m, k)
    BY InodesParts
  <2>2. j <= h
    BY <1>0, <1>1, <2>1, OnesStandAbove DEF is_root
  <2>3. CASE j = 0
    BY <2>3 DEF HasNode
  <2>4. CASE j # 0
    <3>1. j \in 1 .. h /\ j \in 1 .. Len(s)
      BY <2>1, <2>2, <2>4
    <3>2. s[j].node = Addr(m, j)
      BY <2>1, <3>1
    <3>3. QED
      BY <3>1, <3>2 DEF HasNode, Addr
  <2>5. QED
    BY <2>3, <2>4
<1>2. ASSUME j > 0, HasNode(m, j)
      PROVE  m % 2^j = 0 \/ (one_at(m, j - 1) /\ m % 2^(j - 1) # 0)
  <2>1. PICK k \in 1 .. Len(s) : s[k].node.j = j
    BY <1>2 DEF HasNode
  <2>2. PICK h \in 0 .. Len(s) :
           /\ \A a \in 1 .. Len(s) : a <= h <=> is_pbst(m, s[a].node.j)
           /\ \A a \in h + 1 .. Len(s) : is_root(m, s[a].left.i, s[a].left.j)
    BY InodesSplit
  <2>3. CASE k <= h
    <3>1. is_pbst(m, j)
      BY <2>1, <2>2, <2>3
    <3>2. QED
      BY <1>0, <3>1 DEF is_pbst, i_mod_2e
  <2>4. CASE k > h
    <3>1. is_root(m, s[k].left.i, s[k].left.j)
      BY <2>1, <2>2, <2>4
    <3>2. s[k].left.j = j - 1 /\ s[k].left.i < m
      <4>1. s[k].node.j = s[k].left.j + 1 /\ s[k].left.j \in Nat /\ s[k].left.i \in 1 .. m - 1
        BY InodeSizes
      <4> HIDE DEF s
      <4>2. QED
        BY <1>0, <2>1, <4>1
    <3>3. QED
      BY <1>0, <3>1, <3>2 DEF is_root
  <2>5. QED
    BY <2>1, <2>2, <2>3, <2>4
<1>3. ASSUME j > 0, one_at(m, j - 1), m % 2^(j - 1) # 0 PROVE HasNode(m, j)
  <2> DEFINE i == m - (m % 2^(j - 1))
  <2>1. j - 1 \in Nat /\ is_root(m, i, j - 1)
    BY <1>3 DEF is_root
  <2>2. i \in 1 .. m /\ i # m
    BY <1>0, <1>3, <2>1, DigitOfIndex
  <2> HIDE DEF i
  <2>3. \E k \in 1 .. Len(s) : s[k].left = Addr(i, j - 1)
    <3>1. PICK h \in 0 .. Len(s) :
             \A a, b \in Nat : is_root(m, a, b) =>
                       \/ a = m /\ b = h
                       \/ a < m /\ \E k \in h + 1 .. Len(s) : s[k].left = Addr(a, b)
      BY InodesSplit
    <3>2. \E k \in h + 1 .. Len(s) : s[k].left = Addr(i, j - 1)
      BY <2>1, <2>2, <3>1
    <3>3. QED
      BY <3>2
  <2>4. PICK k \in 1 .. Len(s) : s[k].left = Addr(i, j - 1)
    BY <2>3
  <2>5. s[k].node.j = s[k].left.j + 1
    BY InodeSizes
  <2>6. s[k].node.j = j
    BY <2>4, <2>5 DEF Addr
  <2>7. QED
    BY <2>6 DEF HasNode
<1>4. QED
  BY <1>1, <1>2, <1>3

\* What the formulas say of an inode and of its children.
LEMMA InodeChildren ==
    ASSUME NEW m \in Index \ {0}, NEW k \in 1 .. Len(inodes(m))
    PROVE  LET w == inodes(m)[k]
               j == w.node.j
               l == w.left.i
               f == range_start(m, j)
           IN  /\ w.node \in Addrs /\ w.left \in Addrs /\ w.right \in Addrs
               /\ w.node = Addr(m, j) /\ w.left = Addr(l, w.left.j) /\ w.right = Addr(m, w.right.j)
               /\ j # 0 /\ j \in Nat /\ left_of(m, j) = w.left /\ right_of(m, j) = w.right
               /\ HasNode(m, j) /\ HasNode(l, w.left.j) /\ HasNode(m, w.right.j)
               /\ l \in Index \ {0} /\ l \in 1 .. m - 1 /\ f \in 1 .. l
               /\ w.left.j \in 0 .. j - 1 /\ w.right.j \in 0 .. j - 1
               /\ range_start(l, w.left.j) = f /\ range_start(m, w.right.j) = l + 1
<1> DEFINE w == inodes(m)[k]
           j == w.node.j
           l == w.left.i
           f == range_start(m, j)
<1>1. /\ w \in INodes /\ w.node = Addr(m, j) /\ w.left = Addr(l, j - 1) /\ w.right = Addr(m, w.right.j)
      /\ j \in Nat \ {0} /\ w.right.j \in 0 .. j - 1 /\ l \in 1 .. m - 1 /\ l \in Index \ {0}
      /\ f \in 1 .. l /\ range_start(l, j - 1) = f /\ range_start(m, w.right.j) = l + 1
      /\ j - 1 < INDEX_SIZE /\ l % 2^(j - 1) = 0 /\ HasNode(m, j) /\ HasNode(m, w.right.j)
  BY InodeStands
<1>2. left_of(m, j) = w.left /\ right_of(m, j) = w.right
  BY FormulasFitInodes
<1> HIDE DEF w
<1>3. w.left.j = j - 1
  BY <1>1 DEF Addr
<1>4. HasNode(l, j - 1)
  BY <1>1, EntryHeights
<1>5. j \in Height /\ j - 1 \in Height /\ w.right.j \in Height
  <2>1. j \in Nat \ {0} /\ w.right.j \in 0 .. j - 1 /\ j - 1 < INDEX_SIZE
    BY <1>1
  <2>2. INDEX_SIZE \in Nat
    BY IndexSizeAssumption
  <2> HIDE DEF j
  <2>3. QED
    BY <2>1, <2>2 DEF Height
<1>6. w.node \in Addrs /\ w.left \in Addrs /\ w.right \in Addrs
  BY <1>1, <1>5 DEF Addrs, Addr
<1>7. QED
  BY <1>1, <1>2, <1>3, <1>4, <1>6 DEF w

\* Induction over the nodes of all entries, from the leaves upwards.
LEMMA NodeInduction ==
    ASSUME NEW S,
           \A m \in Index \ {0} : Addr(m, 0) \in S,
           \A m \in Index \ {0} : \A k \in 1 .. Len(inodes(m)) :
               inodes(m)[k].left \in S /\ inodes(m)[k].right \in S => inodes(m)[k].node \in S
    PROVE  \A m \in Index \ {0} : \A j \in Nat : HasNode(m, j) => Addr(m, j) \in S
<1> DEFINE T == {h \in Nat : \A m \in Index \ {0} : \A j \in 0 .. h : HasNode(m, j) => Addr(m, j) \in S}
<1>1. 0 \in T
  OBVIOUS
<1>2. ASSUME NEW h \in Nat, h \in T PROVE h + 1 \in T
  <2> SUFFICES ASSUME NEW m \in Index \ {0}, NEW j \in 0 .. h + 1, HasNode(m, j)
               PROVE  Addr(m, j) \in S
    OBVIOUS
  <2>1. CASE j = 0
    BY <2>1
  <2>2. CASE j # 0
    <3>1. PICK k \in 1 .. Len(inodes(m)) : inodes(m)[k].node.j = j
      BY <2>2 DEF HasNode
    <3> DEFINE w == inodes(m)[k]
    <3>2. /\ w.node = Addr(m, j) /\ w.left = Addr(w.left.i, w.left.j) /\ w.right = Addr(m, w.right.j)
          /\ w.left.i \in Index \ {0} /\ HasNode(w.left.i, w.left.j) /\ HasNode(m, w.right.j)
          /\ w.left.j \in 0 .. j - 1 /\ w.right.j \in 0 .. j - 1
      BY <3>1, InodeChildren
    <3>3. w.left.j \in 0 .. h /\ w.right.j \in 0 .. h
      BY <3>2
    <3>4. w.left \in S /\ w.right \in S
      <4> HIDE DEF w
      <4>1. Addr(w.left.i, w.left.j) \in S /\ Addr(m, w.right.j) \in S
        BY <1>2, <3>2, <3>3
      <4>2. QED
        BY <3>2, <4>1
    <3>5. QED
      BY <3>2, <3>4
  <2>3. QED
    BY <2>1, <2>2
<1> HIDE DEF T
<1>3. T = Nat
  <2>1. T \in SUBSET Nat
    BY DEF T
  <2>2. QED
    BY <1>1, <1>2, <2>1, Induct
<1>4. ASSUME NEW m \in Index \ {0}, NEW j \in Nat, HasNode(m, j) PROVE Addr(m, j) \in S
  <2>1. j \in T /\ j \in 0 .. j
    BY <1>3
  <2>2. QED
    BY <1>4, <2>1 DEF T
<1>5. QED
  BY <1>4

-----------------------------------------------------------------------------
(* The two nodes below a node are lower.                                   *)

\* A number has no more digits than the power above it.
LEMMA BitLengthBound ==
    ASSUME NEW x \in Int, NEW h \in Nat, x < 2^h
    PROVE  bit_length(x) \in 0 .. h
<1> DEFINE B == {b \in 0 .. INDEX_SIZE - 1 : 2^b <= x}
<1>0. INDEX_SIZE \in Nat \ {0}
  BY IndexSizeAssumption
<1>1. B \subseteq 0 .. h - 1
  <2> SUFFICES ASSUME NEW b \in B PROVE b \in 0 .. h - 1
    OBVIOUS
  <2>1. b \in Nat /\ 2^b <= x
    BY <1>0
  <2>2. 2^b \in Nat /\ 2^h \in Nat
    BY <2>1, PowerCounts
  <2>3. ~(2^h <= 2^b)
    BY <2>1, <2>2
  <2>4. ~(h <= b)
    BY <2>1, <2>3, PowerOrder
  <2>5. QED
    BY <2>1, <2>4
<1>2. IsFiniteSet(0 .. h - 1) /\ Cardinality(0 .. h - 1) = h
  BY FS_Interval
<1>3. IsFiniteSet(B) /\ Cardinality(B) \in Nat /\ Cardinality(B) <= h
  BY <1>1, <1>2, FS_Subset, FS_CardinalityType
<1>4. QED
  BY <1>3 DEF bit_length

\* What an address is.
LEMMA AddrHeights == \A a \in Addrs : a.j \in Nat /\ a.j <= INDEX_SIZE /\ a.i \in Nat /\ a = Addr(a.i, a.j)
BY IndexSizeAssumption DEF Addrs, Height, Index, Addr

\* Both children are addresses that are lower.
LEMMA ChildrenAreLower ==
    ASSUME NEW x \in Addrs, x.j # 0
    PROVE  LET l == left_of(x.i, x.j)
               r == right_of(x.i, x.j)
           IN  l \in Addrs /\ r \in Addrs /\ l.j = x.j - 1 /\ r.j < x.j /\ r.i = x.i
<1> DEFINE i == x.i
           j == x.j
           d == 2^(j - 1)
           w == 2^INDEX_SIZE
           u == IF j < INDEX_SIZE THEN ((i - 1) \div 2^j) * 2^j ELSE 0
           l == left_of(i, j)
           r == right_of(i, j)
<1>1. INDEX_SIZE \in Nat \ {0} /\ w \in Nat /\ i \in 1 .. w - 1 /\ j \in 1 .. INDEX_SIZE /\ j - 1 \in Nat
      /\ d \in Nat \ {0} /\ 2^j \in Nat \ {0} /\ 2^j = 2 * d
  <2>1. INDEX_SIZE \in Nat \ {0} /\ i \in Index \ {0} /\ j \in 1 .. INDEX_SIZE
    BY IndexSizeAssumption DEF Addrs, Height
  <2>2. j - 1 \in Nat /\ j = (j - 1) + 1
    BY <2>1
  <2> HIDE DEF i, j
  <2>3. 2^j = 2 * 2^(j - 1)
    BY <2>2, PowerDoubles
  <2>5. 2^(j - 1) \in Nat \ {0} /\ 2^j \in Nat \ {0} /\ 2^INDEX_SIZE \in Nat \ {0}
    <3>1. j \in Nat /\ INDEX_SIZE \in Nat
      BY <2>1
    <3>2. QED
      BY <2>2, <3>1, PowerCounts
  <2>4. QED
    BY <2>1, <2>2, <2>3, <2>5 DEF Index
<1> HIDE DEF i, j
<1>2. /\ u \in Nat /\ u + d \in 1 .. w - 1 /\ i - 1 < (u + d) + d
  <2>1. CASE j < INDEX_SIZE
    <3> DEFINE q == (i - 1) \div 2^j
               p == 2^(INDEX_SIZE - j)
    <3>1. q \in Nat /\ (i - 1) % 2^j \in 0 .. 2^j - 1 /\ i - 1 = q * 2^j + ((i - 1) % 2^j)
      <4>1. i - 1 \in Nat
        BY <1>1
      <4>2. QED
        BY <1>1, <4>1, Division
    <3>2. p \in Nat /\ w = p * 2^j
      <4>1. INDEX_SIZE - j \in Nat /\ j \in Nat /\ (INDEX_SIZE - j) + j = INDEX_SIZE
        BY <1>1, <2>1
      <4>2. QED
        BY <4>1, PowerSum, PowerCounts
    <3> DEFINE e == 2^j
               m == (i - 1) % 2^j
    <3>3. e \in Nat \ {0} /\ m \in 0 .. e - 1 /\ i - 1 = q * e + m /\ w = p * e /\ e = 2 * d
      BY <1>1, <3>1, <3>2
    <3> HIDE DEF q, p, e, m, d, w
    <3>4. q * e \in Nat /\ q * e < p * e
      BY <1>1, <3>1, <3>3
    <3>5. q < p
      <4>1. CASE p <= q
        <5>1. p * e <= q * e
          BY <4>1, <3>1, <3>2, <3>3
        <5>2. QED
          BY <3>4, <5>1, <3>1, <3>2, <3>3
      <4>2. QED
        BY <4>1, <3>1, <3>2
    <3>6. q * e + e <= p * e
      <4>1. (q + 1) * e <= p * e
        BY <3>1, <3>2, <3>3, <3>5
      <4>2. (q + 1) * e = q * e + e
        BY <3>1, <3>3
      <4>3. QED
        BY <4>1, <4>2
    <3>7. u = q * e
      BY <2>1 DEF q, e
    <3> HIDE DEF u
    <3>8. QED
      BY <1>1, <3>3, <3>4, <3>6, <3>7
  <2>2. CASE j = INDEX_SIZE
    <3>1. u = 0 /\ w = 2 * d
      BY <1>1, <2>2
    <3> HIDE DEF u, w, d
    <3>2. QED
      BY <1>1, <3>1
  <2>3. QED
    BY <1>1, <2>1, <2>2
<1> HIDE DEF u, w
<1>3. l = Addr(u + d, j - 1)
  BY <1>1 DEF left_of, u, pow2e
<1>4. r = Addr(i, ceil_log2(i - l.i))
  BY DEF right_of
<1>5. l.i = u + d /\ l.j = j - 1
  BY <1>3 DEF Addr
<1>6. ceil_log2(i - l.i) \in 0 .. j - 1
  <2>1. (i - l.i) - 1 \in Int /\ (i - l.i) - 1 < d /\ j - 1 \in Nat
    BY <1>1, <1>2, <1>5
  <2>2. bit_length((i - l.i) - 1) \in 0 .. j - 1
    BY <2>1, BitLengthBound
  <2>3. QED
    BY <2>2 DEF ceil_log2
<1>7. u + d \in Index \ {0} /\ j - 1 \in Height /\ i \in Index \ {0} /\ ceil_log2(i - l.i) \in Height
  BY <1>1, <1>2, <1>6 DEF Index, Height, w
<1>8. l \in Addrs /\ r \in Addrs /\ r.i = i /\ r.j = ceil_log2(i - l.i)
  BY <1>3, <1>4, <1>7 DEF Addr, Addrs
<1>9. QED
  BY <1>1, <1>5, <1>6, <1>8 DEF i, j

-----------------------------------------------------------------------------
(* The leaves below a node, and the number of branches down to one.        *)

\* The recursion of stratum_sample_size.
count_step(i, f, a) ==
    IF a.j = 0 THEN 0
    ELSE LET l == left_of(a.i, a.j)
         IN  1 + IF contains(l.i, l.j, i) THEN f[l] ELSE f[right_of(a.i, a.j)]
count_of(i) == CHOOSE f : f = [a \in Addrs |-> count_step(i, f, a)]

LEMMA CountRecursion ==
    ASSUME NEW i
    PROVE  count_of(i) = [a \in Addrs |-> count_step(i, count_of(i), a)]
<1> DEFINE Good(f, h) == f = [a \in {b \in Addrs : b.j <= h} |-> count_step(i, f, a)]
           T == {h \in Nat : \E f : Good(f, h)}
<1>1. 0 \in T
  <2> DEFINE f == [a \in {b \in Addrs : b.j <= 0} |-> count_step(i, <<>>, a)]
  <2>1. ASSUME NEW a \in Addrs, a.j <= 0 PROVE count_step(i, f, a) = count_step(i, <<>>, a)
    <3>1. a.j = 0
      BY <2>1, AddrHeights
    <3>2. QED
      BY <3>1 DEF count_step
  <2>2. Good(f, 0)
    BY <2>1
  <2>3. QED
    BY <2>2
<1>2. ASSUME NEW h \in Nat, h \in T PROVE h + 1 \in T
  <2>1. PICK f : Good(f, h)
    BY <1>2
  <2> DEFINE g == [a \in {b \in Addrs : b.j <= h + 1} |-> IF a.j <= h THEN f[a] ELSE count_step(i, f, a)]
  <2>2. \A a \in Addrs : a.j <= h => g[a] = f[a] /\ f[a] = count_step(i, f, a)
    <3>1. \A a \in Addrs : a.j \in Nat
      BY AddrHeights
    <3>2. QED
      BY <2>1, <3>1
  <2> HIDE DEF g
  <2>3. ASSUME NEW a \in Addrs, a.j <= h + 1 PROVE count_step(i, g, a) = count_step(i, f, a)
    <3>1. a.j \in Nat
      BY AddrHeights
    <3>2. CASE a.j = 0
      BY <3>2 DEF count_step
    <3>3. CASE a.j # 0
      <4> DEFINE l == left_of(a.i, a.j)
                 r == right_of(a.i, a.j)
      <4>1. l \in Addrs /\ r \in Addrs /\ l.j = a.j - 1 /\ r.j < a.j
        BY <3>3, ChildrenAreLower
      <4>2. l.j \in Nat /\ r.j \in Nat
        BY <4>1, AddrHeights
      <4> HIDE DEF l, r
      <4>3. l.j <= h /\ r.j <= h
        BY <2>3, <3>1, <4>1, <4>2
      <4>4. g[l] = f[l] /\ g[r] = f[r]
        BY <2>2, <4>1, <4>3
      <4>5. QED
        BY <4>4 DEF count_step, l, r
    <3>4. QED
      BY <3>2, <3>3
  <2>4. \A a \in Addrs : a.j <= h + 1 => g[a] = count_step(i, g, a)
    BY <2>2, <2>3 DEF g
  <2>5. Good(g, h + 1)
    <3>1. g = [a \in {b \in Addrs : b.j <= h + 1} |-> g[a]]
      BY DEF g
    <3> DEFINE A == {b \in Addrs : b.j <= h + 1}
    <3>2. \A a \in A : g[a] = count_step(i, g, a)
      BY <2>4
    <3> HIDE DEF A
    <3>3. [a \in A |-> g[a]] = [a \in A |-> count_step(i, g, a)]
      BY <3>2
    <3>4. QED
      BY <3>1, <3>3 DEF A
  <2> HIDE DEF Good
  <2>6. \E k : Good(k, h + 1)
    BY <2>5
  <2>7. QED
    BY <2>6
<1> HIDE DEF T
<1>3. T \in SUBSET Nat
  BY DEF T
<1>4. T = Nat
  BY <1>1, <1>2, <1>3, Induct
<1>5. INDEX_SIZE \in T
  BY <1>4, IndexSizeAssumption
<1>6. Addrs = {b \in Addrs : b.j <= INDEX_SIZE}
  BY AddrHeights
<1>7. \E f : f = [a \in Addrs |-> count_step(i, f, a)]
  <2>1. PICK f : Good(f, INDEX_SIZE)
    BY <1>5 DEF T
  <2>2. f = [a \in Addrs |-> count_step(i, f, a)]
    BY <1>6, <2>1
  <2>3. QED
    BY <2>2
<1>8. QED
  BY <1>7 DEF count_of

\* The leaves of an address.
LEMMA ContainsIs ==
    ASSUME NEW m \in Index \ {0}, NEW k \in 1 .. Len(inodes(m)), NEW i \in Int
    PROVE  LET w == inodes(m)[k]
           IN  /\ contains(m, w.node.j, i) <=> contains(w.left.i, w.left.j, i) \/ contains(w.right.i, w.right.j, i)
               /\ ~(contains(w.left.i, w.left.j, i) /\ contains(w.right.i, w.right.j, i))
<1> DEFINE w == inodes(m)[k]
           l == w.left.i
           f == range_start(m, w.node.j)
<1>1. /\ l \in 1 .. m - 1 /\ f \in 1 .. l /\ w.right = Addr(m, w.right.j)
      /\ range_start(l, w.left.j) = f /\ range_start(m, w.right.j) = l + 1
  BY InodeChildren
<1>2. w.right.i = m /\ m \in Nat
  BY <1>1, IndexIsNat DEF Addr
<1>3. /\ contains(m, w.node.j, i) <=> f <= i /\ i <= m
      /\ contains(l, w.left.j, i) <=> f <= i /\ i <= l
      /\ contains(w.right.i, w.right.j, i) <=> l + 1 <= i /\ i <= m
  BY <1>1, <1>2 DEF contains
<1> HIDE DEF w, f
<1>4. QED
  BY <1>1, <1>2, <1>3 DEF w

\* The leaves below a node.
Over(x) == {i \in Nat : contains(x.i, x.j, i)}

LEMMA OverLeaf ==
    ASSUME NEW m \in Index \ {0}
    PROVE  Over(Addr(m, 0)) = {m}
<1>1. range_start(m, 0) = m /\ m \in Nat
  BY RangeOfLeaf, IndexIsNat
<1>2. \A i \in Nat : contains(m, 0, i) <=> i = m
  BY <1>1 DEF contains
<1>3. QED
  BY <1>1, <1>2 DEF Over, Addr

LEMMA OverInode ==
    ASSUME NEW m \in Index \ {0}, NEW k \in 1 .. Len(inodes(m))
    PROVE  LET w == inodes(m)[k]
           IN  /\ Over(w.node) = Over(w.left) \cup Over(w.right)
               /\ Over(w.left) \cap Over(w.right) = {}
<1> DEFINE w == inodes(m)[k]
<1>1. w.node.i = m
  <2>1. w.node = Addr(m, w.node.j)
    BY InodeChildren
  <2>2. QED
    BY <2>1 DEF Addr
<1>2. \A i \in Nat : /\ contains(w.node.i, w.node.j, i) <=> contains(w.left.i, w.left.j, i) \/ contains(w.right.i, w.right.j, i)
                     /\ ~(contains(w.left.i, w.left.j, i) /\ contains(w.right.i, w.right.j, i))
  BY <1>1, ContainsIs
<1> HIDE DEF w
<1>3. QED
  BY <1>2 DEF Over, w

\* A node of an entry is over its own index, and over none behind it.
LEMMA OverOwn ==
    ASSUME NEW m \in Index \ {0}, NEW j \in Nat, HasNode(m, j)
    PROVE  Over(Addr(m, j)) = range_start(m, j) .. m /\ range_start(m, j) \in 1 .. m
<1>1. range_start(m, j) \in 1 .. m /\ m \in Nat
  <2>1. CASE j = 0
    BY <2>1, RangeOfLeaf, IndexIsNat
  <2>2. CASE j # 0
    <3>1. PICK k \in 1 .. Len(inodes(m)) : inodes(m)[k].node.j = j
      BY <2>2 DEF HasNode
    <3>2. range_start(m, j) \in 1 .. inodes(m)[k].left.i /\ inodes(m)[k].left.i \in 1 .. m - 1
      BY <3>1, InodeChildren
    <3>3. m \in Nat
      BY IndexIsNat
    <3> HIDE DEF HasNode
    <3>4. QED
      BY <3>2, <3>3
  <2>3. QED
    BY <2>1, <2>2
<1>2. Addr(m, j).i = m /\ Addr(m, j).j = j
  BY DEF Addr
<1>3. QED
  BY <1>1, <1>2 DEF Over, contains

\* The step of stratum_sample_size at an inode.
LEMMA CountStep ==
    ASSUME NEW m \in Index \ {0}, NEW goal
    PROVE  /\ count_of(goal)[Addr(m, 0)] = 0
           /\ \A k \in 1 .. Len(inodes(m)) :
                LET w == inodes(m)[k]
                IN  count_of(goal)[w.node] =
                      1 + IF contains(w.left.i, w.left.j, goal) THEN count_of(goal)[w.left]
                          ELSE count_of(goal)[w.right]
<1> DEFINE g == count_of(goal)
<1>1. \A x \in Addrs : g[x] = count_step(goal, g, x)
  <2>1. g = [a \in Addrs |-> count_step(goal, g, a)]
    BY CountRecursion
  <2> HIDE DEF g
  <2>2. QED
    BY <2>1
<1>2. Addr(m, 0) \in Addrs /\ Addr(m, 0).j = 0
  BY IndexSizeAssumption DEF Addr, Addrs, Height
<1> HIDE DEF g
<1>3. g[Addr(m, 0)] = 0
  BY <1>1, <1>2 DEF count_step
<1>4. ASSUME NEW k \in 1 .. Len(inodes(m))
      PROVE  LET w == inodes(m)[k]
             IN  g[w.node] = 1 + IF contains(w.left.i, w.left.j, goal) THEN g[w.left] ELSE g[w.right]
  <2> DEFINE w == inodes(m)[k]
  <2>1. /\ w.node \in Addrs /\ w.node = Addr(m, w.node.j) /\ w.node.j # 0
        /\ left_of(m, w.node.j) = w.left /\ right_of(m, w.node.j) = w.right
    BY InodeChildren
  <2>2. w.node.i = m
    BY <2>1 DEF Addr
  <2> HIDE DEF w
  <2>3. QED
    BY <1>1, <2>1, <2>2 DEF count_step, w
<1>5. QED
  BY <1>3, <1>4 DEF g
=============================================================================
