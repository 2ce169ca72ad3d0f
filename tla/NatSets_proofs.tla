--------------------------- MODULE NatSets_proofs ---------------------------
(***************************************************************************)
(* Finite sets of naturals by rank: what the first-fit scans of the kernel   *)
(* (of frames in paging.c, of inodes and blocks in ext2.c) rely on.          *)
(***************************************************************************)
EXTENDS Integers, FiniteSets, FiniteSetTheorems, WellFoundedInduction, TLAPS

\* How many members of S are below x: the scan meets x as number Below(S, x).
Below(S, x) == Cardinality({y \in S : y < x})

\* A non-empty set of naturals has a least element.
LEMMA LeastExists ==
  ASSUME NEW S \in SUBSET Nat, S # {}
  PROVE  \E x \in S : \A y \in S : x <= y
<1>1. PICK x \in S : \A y \in S : ~ (<<y, x>> \in OpToRel(<, Nat))
  BY NatLessThanWellFounded, WFMin
<1>2. ASSUME NEW y \in S
      PROVE  x <= y
  <2>1. ~ (y < x)
    BY <1>1, <1>2 DEF OpToRel
  <2>. QED
    BY <2>1
<1>. QED
  BY <1>1, <1>2

LEMMA BelowType ==
  ASSUME NEW S \in SUBSET Nat, IsFiniteSet(S), NEW x
  PROVE  Below(S, x) \in Nat
BY FS_Subset, FS_CardinalityType DEF Below

\* Two members never have the same rank.
LEMMA BelowGrows ==
  ASSUME NEW S \in SUBSET Nat, IsFiniteSet(S), NEW x \in S, NEW y \in S, x < y
  PROVE  Below(S, x) < Below(S, y)
<1>. DEFINE X == {z \in S : z < x}
            Y == {z \in S : z < y}
<1>0. \A z \in S : z \in Nat
  OBVIOUS
<1>1. X \subseteq Y /\ x \in Y /\ x \notin X
  <2>1. ASSUME NEW z \in S, z < x
        PROVE  z < y
    BY <1>0, <2>1
  <2>2. ~ (x < x)
    BY <1>0
  <2>. QED
    BY <2>1, <2>2
<1>2. IsFiniteSet(Y)
  BY FS_Subset
<1>. HIDE DEF X, Y
<1>3. Cardinality(X) < Cardinality(Y)
  <2>1. IsFiniteSet(X) /\ Cardinality(X) \in Nat /\ Cardinality(Y) \in Nat
        /\ Cardinality(X) <= Cardinality(Y)
    BY <1>1, <1>2, FS_Subset, FS_CardinalityType
  <2>2. Cardinality(X) = Cardinality(Y) => X = Y
    BY <1>1, <1>2, FS_Subset
  <2>. QED
    BY <1>1, <2>1, <2>2
<1>. QED
  BY <1>3 DEF Below, X, Y

LEMMA BelowInjective ==
  ASSUME NEW S \in SUBSET Nat, IsFiniteSet(S), NEW x \in S, NEW y \in S,
         Below(S, x) = Below(S, y)
  PROVE  x = y
<1>1. Below(S, x) \in Nat
  BY BelowType
<1>2. ~ (x < y) /\ ~ (y < x)
  BY <1>1, BelowGrows
<1>. QED
  BY <1>2

\* Every rank below the size of the set is somebody's.
LEMMA RankExists ==
  ASSUME NEW S \in SUBSET Nat, IsFiniteSet(S), NEW k \in Nat, k < Cardinality(S)
  PROVE  \E x \in S : Below(S, x) = k
<1>. DEFINE Bad == {j \in Nat : j < Cardinality(S) /\ ~ \E x \in S : Below(S, x) = j}
<1>. SUFFICES ASSUME Bad # {}
              PROVE  FALSE
  OBVIOUS
<1>0. Cardinality(S) \in Nat /\ \A z \in S : z \in Nat
  BY FS_CardinalityType
<1>1. PICK j \in Bad : \A l \in Bad : j <= l
  BY LeastExists
<1>2. CASE j = 0
  <2>1. S # {}
    BY <1>0, <1>1, <1>2, FS_EmptySet
  <2>2. PICK x \in S : \A y \in S : x <= y
    BY <2>1, LeastExists
  <2>3. {y \in S : y < x} = {}
    <3>1. \A y \in S : ~ (y < x)
      BY <1>0, <2>2
    <3>. QED
      BY <3>1
  <2>4. Below(S, x) = 0
    BY <2>3, FS_EmptySet DEF Below
  <2>. QED
    BY <1>1, <1>2, <2>4
<1>3. CASE j # 0
  <2>1. j - 1 \in Nat /\ j - 1 < Cardinality(S) /\ j - 1 \notin Bad
    BY <1>0, <1>1, <1>3
  <2>2. PICK x \in S : Below(S, x) = j - 1
    BY <2>1
  <2>. DEFINE L == {y \in S : y < x}
              U == L \cup {x}
  <2>3. IsFiniteSet(L) /\ x \notin L /\ Cardinality(L) = j - 1
    BY <1>0, <2>2, FS_Subset DEF Below
  <2>4. IsFiniteSet(U) /\ Cardinality(U) = j
    <3>. HIDE DEF L
    <3>1. j \in Nat /\ IsFiniteSet(U) /\ Cardinality(U) = Cardinality(L) + 1
      BY <1>1, <2>3, FS_AddElement
    <3>. QED
      BY <2>3, <3>1
  <2>5. S \ U # {}
    <3>1. U \subseteq S
      OBVIOUS
    <3>2. Cardinality(U) # Cardinality(S)
      BY <1>0, <1>1, <2>4
    <3>. QED
      BY <3>1, <3>2, Zenon
  <2>6. PICK z \in S \ U : \A y \in S \ U : z <= y
    BY <2>5, LeastExists
  <2>7. {y \in S : y < z} = U
    <3>1. ASSUME NEW y \in S, y < z
          PROVE  y \in U
      BY <1>0, <2>6, <3>1
    <3>2. ASSUME NEW y \in U
          PROVE  y \in S /\ y < z
      BY <1>0, <2>6, <3>2
    <3>. QED
      BY <3>1, <3>2
  <2>8. Below(S, z) = j
    BY <2>4, <2>7 DEF Below
  <2>. QED
    BY <1>1, <2>6, <2>8
<1>. QED
  BY <1>2, <1>3

\* Induction up to n, over the set of the numbers that have the property.
LEMMA InductionUpTo ==
  ASSUME NEW n \in Nat, NEW S, 0 \in S, \A k \in 0 .. n - 1 : k \in S => k + 1 \in S
  PROVE  \A k \in 0 .. n : k \in S
<1>. DEFINE Bad == (0 .. n) \ S
<1>. SUFFICES ASSUME Bad # {}
              PROVE  FALSE
  OBVIOUS
<1>1. Bad \in SUBSET Nat
  OBVIOUS
<1>2. PICK m \in Bad : \A k \in Bad : m <= k
  BY <1>1, LeastExists
<1>3. m # 0 /\ m \in 0 .. n
  BY <1>2
<1>4. m - 1 \in 0 .. n - 1 /\ m - 1 \notin Bad /\ m - 1 \in 0 .. n
  BY <1>2, <1>3
<1>5. (m - 1) + 1 \in S
  BY <1>4
<1>. QED
  BY <1>2, <1>3, <1>5

\* A function that is given by its value at 0 and by the step to the next number.
Follows(f, n, base, G) == f[0] = base /\ \A k \in 1 .. n : f[k] = G[k][f[k - 1]]

LEMMA RecursionExists ==
  ASSUME NEW n \in Nat, NEW D, NEW base \in D, NEW G \in [1 .. n -> [D -> D]]
  PROVE  \E f \in [0 .. n -> D] : Follows(f, n, base, G)
<1>. DEFINE Fits(f, m) == f[0] = base /\ \A k \in 1 .. m : f[k] = G[k][f[k - 1]]
            S == {m \in 0 .. n : \E f \in [0 .. m -> D] : Fits(f, m)}
<1>1. 0 \in S
  <2>. DEFINE f == [j \in 0 .. 0 |-> base]
  <2>1. f \in [0 .. 0 -> D] /\ Fits(f, 0)
    OBVIOUS
  <2>. HIDE DEF f, Fits
  <2>. QED
    BY <2>1
<1>2. ASSUME NEW m \in 0 .. n - 1, m \in S
      PROVE  m + 1 \in S
  <2>1. PICK g \in [0 .. m -> D] : Fits(g, m)
    BY <1>2
  <2>. DEFINE f == [j \in 0 .. m + 1 |-> IF j = m + 1 THEN G[m + 1][g[m]] ELSE g[j]]
  <2>2. m + 1 \in 0 .. n /\ m + 1 \in 1 .. n
    OBVIOUS
  <2>3. f \in [0 .. m + 1 -> D]
    <3>1. G[m + 1][g[m]] \in D
      BY <2>2
    <3>2. \A j \in 0 .. m + 1 : j # m + 1 => j \in 0 .. m
      OBVIOUS
    <3>. QED
      BY <3>1, <3>2
  <2>4. ASSUME NEW k \in 1 .. m + 1
        PROVE  f[k] = G[k][f[k - 1]]
    <3>1. CASE k = m + 1
      <4>1. k - 1 = m /\ m \in 0 .. m + 1 /\ m # m + 1 /\ k \in 0 .. m + 1
        BY <3>1
      <4>. QED
        BY <3>1, <4>1
    <3>2. CASE k # m + 1
      <4>1. k \in 1 .. m /\ k \in 0 .. m + 1 /\ k - 1 \in 0 .. m + 1 /\ k - 1 # m + 1
        BY <3>2
      <4>2. f[k] = g[k] /\ f[k - 1] = g[k - 1]
        BY <3>2, <4>1
      <4>. QED
        BY <2>1, <4>1, <4>2
    <3>. QED
      BY <3>1, <3>2
  <2>5. f[0] = base
    <3>1. 0 \in 0 .. m + 1 /\ 0 # m + 1
      OBVIOUS
    <3>. QED
      BY <2>1, <3>1
  <2>6. Fits(f, m + 1)
    BY <2>4, <2>5
  <2>. HIDE DEF f, Fits
  <2>. QED
    BY <2>2, <2>3, <2>6
<1>3. n \in S
  <2>. HIDE DEF S
  <2>1. \A k \in 0 .. n - 1 : k \in S => k + 1 \in S
    BY <1>2
  <2>2. \A k \in 0 .. n : k \in S
    BY <1>1, <2>1, InductionUpTo
  <2>. QED
    BY <2>2
<1>. QED
  BY <1>3 DEF Follows
=============================================================================
