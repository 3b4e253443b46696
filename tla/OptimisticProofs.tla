-------------------------- MODULE OptimisticProofs --------------------------
(* Facts about primary keys, their order, and places in a history that the *)
(* proofs about the optimistic builds share.                               *)
EXTENDS Optimistic, FiniteSetTheorems, WellFoundedInduction, TLAPS

\* A set of naturals has a least member ...
LEMMA NatLeast ==
    ASSUME NEW S \in SUBSET Nat, S # {}
    PROVE  \E x \in S : \A y \in S : x <= y
<1> DEFINE R == OpToRel(<, Nat)
<1>1. IsWellFoundedOn(R, Nat)
  BY NatLessThanWellFounded
<1>2. \A a, b \in Nat : a < b => <<a, b>> \in R
  BY DEF OpToRel
<1> HIDE DEF R
<1>3. PICK x \in S : \A y \in S : ~ (<<y, x>> \in R)
  BY <1>1, WFMin
<1>4. ASSUME NEW y \in S PROVE x <= y
  <2>1. x \in Nat /\ y \in Nat
    OBVIOUS
  <2>2. ~ (y < x)
    BY <2>1, <1>2, <1>3, Zenon
  <2> QED  BY <2>1, <2>2
<1> QED  BY <1>4

\* Induction on a set of naturals.
LEMMA NatSetInduction ==
    ASSUME NEW S \in SUBSET Nat, 0 \in S, \A n \in S : n + 1 \in S
    PROVE  S = Nat
<1> SUFFICES ASSUME Nat \ S # {} PROVE FALSE
  OBVIOUS
<1>1. PICK x \in Nat \ S : \A y \in Nat \ S : x <= y
  <2> DEFINE T == Nat \ S
  <2>1. T \in SUBSET Nat /\ T # {}
    OBVIOUS
  <2> HIDE DEF T
  <2>2. \E x \in T : \A y \in T : x <= y
    BY <2>1, NatLeast
  <2> QED  BY <2>2 DEF T
<1>2. x - 1 \in Nat /\ ~ (x <= x - 1)
  BY <1>1
<1>3. x - 1 \in S
  BY <1>1, <1>2
<1>4. x \in S
  BY <1>2, <1>3
<1> QED  BY <1>1, <1>4

\* ... and, if it is bounded, a greatest one.
LEMMA NatGreatest ==
    ASSUME NEW S \in SUBSET Nat, S # {}, NEW n \in Nat, \A x \in S : x <= n
    PROVE  \E x \in S : \A y \in S : y <= x
<1> DEFINE T == {n - x : x \in S}
<1>1. T \in SUBSET Nat /\ T # {}
  <2>1. \A x \in S : x \in Nat /\ n - x \in Nat
    OBVIOUS
  <2> QED  BY <2>1
<1>2. PICK m \in T : \A y \in T : m <= y
  <2> HIDE DEF T
  <2> QED  BY <1>1, NatLeast
<1>3. PICK x \in S : m = n - x
  BY <1>2
<1>4. ASSUME NEW y \in S PROVE y <= x
  <2>1. n - x <= n - y
    BY <1>2, <1>3
  <2> QED  BY <2>1
<1> QED  BY <1>4

\* Of finitely many rows, one has the greatest number.
LEMMA GreatestAmongRows ==
    ASSUME NEW g \in [Rows -> Nat], NEW W \in SUBSET Rows, W # {}
    PROVE  \E w \in W : \A x \in W : g[x] <= g[w]
<1>1. PICK n \in Nat : ExistsBijection(1..n, Rows)
  BY FiniteRowsAssumption, FS_NatBijection
<1>2. PICK f \in [1..n -> Rows] : \A r \in Rows : \E i \in 1..n : f[i] = r
  BY <1>1 DEF ExistsBijection, Bijection, Surjection
<1> DEFINE B == {k \in Nat : \E m \in Nat : \A i \in 1..n : i <= k => g[f[i]] <= m}
<1>3. 0 \in B
  <2>1. \A i \in 1..n : i <= 0 => g[f[i]] <= 0
    OBVIOUS
  <2> QED  BY <2>1
<1>4. ASSUME NEW k \in B PROVE k + 1 \in B
  <2>1. PICK m \in Nat : \A i \in 1..n : i <= k => g[f[i]] <= m
    OBVIOUS
  <2>2. CASE k + 1 \notin 1..n
    <3>1. \A i \in 1..n : i <= k + 1 => g[f[i]] <= m
      BY <2>1, <2>2
    <3> QED  BY <3>1
  <2>3. CASE k + 1 \in 1..n
    <3>1. g[f[k + 1]] \in Nat /\ m + g[f[k + 1]] \in Nat
      BY <2>3
    <3>2. \A i \in 1..n : g[f[i]] \in Nat
      OBVIOUS
    <3>3. \A i \in 1..n : i <= k + 1 => g[f[i]] <= m + g[f[k + 1]]
      BY <2>1, <3>1, <3>2
    <3>4. \E m1 \in Nat : \A i \in 1..n : i <= k + 1 => g[f[i]] <= m1
      BY <3>1, <3>3
    <3> QED  BY <3>4
  <2> QED  BY <2>2, <2>3
<1>5. n \in B
  <2>1. B \in SUBSET Nat
    OBVIOUS
  <2> HIDE DEF B
  <2> QED  BY <1>3, <1>4, <2>1, NatSetInduction
<1>6. PICK m \in Nat : \A r \in Rows : g[r] <= m
  <2>1. PICK m \in Nat : \A i \in 1..n : i <= n => g[f[i]] <= m
    BY <1>5
  <2>2. ASSUME NEW r \in Rows PROVE g[r] <= m
    <3>1. PICK i \in 1..n : f[i] = r
      BY <1>2
    <3>2. i <= n
      OBVIOUS
    <3> QED  BY <2>1, <3>1, <3>2
  <2> QED  BY <2>2
<1> DEFINE G == {g[x] : x \in W}
<1>7. G \in SUBSET Nat /\ G # {} /\ \A y \in G : y <= m
  BY <1>6
<1>8. \E y \in G : \A z \in G : z <= y
  <2> HIDE DEF G
  <2> QED  BY <1>7, NatGreatest
<1> QED  BY <1>8

LEMMA HighestRow ==
    ASSUME NEW W \in SUBSET Rows, W # {}
    PROVE  \E w \in W : \A x \in W : x <= w
<1>1. [r \in Rows |-> r] \in [Rows -> Nat]
  BY RowsAssumption
<1>2. PICK w \in W : \A x \in W : [r \in Rows |-> r][x] <= [r \in Rows |-> r][w]
  BY <1>1, GreatestAmongRows
<1> QED  BY <1>2

\* The row that is locked next.
LEMMA LowestIsLeast ==
    ASSUME NEW S \in SUBSET Nat, S # {}
    PROVE  Lowest(S) \in S /\ \A s \in S : Lowest(S) <= s
BY NatLeast DEF Lowest

Image1(f, n) == {f[i] : i \in 1..n}
IsInjective1(f, n) == \A i, j \in 1..n : f[i] = f[j] => i = j
Ascending(f, n) == \A i, j \in 1..n : i < j => f[i] < f[j]

\* Keys that are all different can be put in order: take out the least, sort the
\* others and put it in front of them.
LEMMA SortStep ==
    ASSUME NEW n \in Nat,
           \A f \in [1..n -> Nat] : IsInjective1(f, n) =>
               \E s \in [1..n -> Image1(f, n)] : Ascending(s, n),
           NEW f \in [1..(n + 1) -> Nat], IsInjective1(f, n + 1)
    PROVE  \E s \in [1..(n + 1) -> Image1(f, n + 1)] : Ascending(s, n + 1)
<1>1. Image1(f, n + 1) \in SUBSET Nat /\ Image1(f, n + 1) # {}
  <2>1. \A i \in 1..(n + 1) : f[i] \in Nat
    OBVIOUS
  <2>2. f[1] \in Image1(f, n + 1)
    BY DEF Image1
  <2> QED  BY <2>1, <2>2 DEF Image1
<1>2. PICK m \in Image1(f, n + 1) : \A y \in Image1(f, n + 1) : m <= y
  BY <1>1, NatLeast
<1>3. PICK k \in 1..(n + 1) : m = f[k]
  BY <1>2 DEF Image1
<1> DEFINE At(i) == IF i < k THEN i ELSE i + 1
           g == [i \in 1..n |-> f[At(i)]]
<1>4. \A i \in 1..n : At(i) \in 1..(n + 1) /\ At(i) # k
  OBVIOUS
<1>5. \A i, j \in 1..n : At(i) = At(j) => i = j
  OBVIOUS
<1> HIDE DEF At
<1>6. g \in [1..n -> Nat] /\ \A i \in 1..n : g[i] = f[At(i)]
  BY <1>4
<1>7. \A i \in 1..n : g[i] \in Image1(f, n + 1) /\ m < g[i]
  <2> SUFFICES ASSUME NEW i \in 1..n PROVE g[i] \in Image1(f, n + 1) /\ m < g[i]
    OBVIOUS
  <2>1. g[i] \in Image1(f, n + 1)
    BY <1>4, <1>6 DEF Image1
  <2>2. g[i] # m
    BY <1>3, <1>4, <1>6 DEF IsInjective1
  <2>3. m \in Nat /\ g[i] \in Nat /\ m <= g[i]
    BY <2>1, <1>1, <1>2
  <2> QED  BY <2>1, <2>2, <2>3
<1>8. IsInjective1(g, n)
  BY <1>4, <1>5, <1>6 DEF IsInjective1
<1> HIDE DEF g
<1>9. PICK s \in [1..n -> Image1(g, n)] : Ascending(s, n)
  BY <1>6, <1>8
<1>10. \A i \in 1..n : s[i] \in Image1(f, n + 1) /\ m < s[i] /\ s[i] \in Nat
  <2> SUFFICES ASSUME NEW i \in 1..n
               PROVE  s[i] \in Image1(f, n + 1) /\ m < s[i] /\ s[i] \in Nat
    OBVIOUS
  <2>1. PICK j \in 1..n : s[i] = g[j]
    BY DEF Image1
  <2> QED  BY <2>1, <1>6, <1>7
<1> DEFINE h == [i \in 1..(n + 1) |-> IF i = 1 THEN m ELSE s[i - 1]]
<1>11. h \in [1..(n + 1) -> Image1(f, n + 1)]
  <2> SUFFICES ASSUME NEW i \in 1..(n + 1), i # 1 PROVE s[i - 1] \in Image1(f, n + 1)
    BY <1>2
  <2>1. i - 1 \in 1..n
    OBVIOUS
  <2> QED  BY <2>1, <1>10
<1>12. Ascending(h, n + 1)
  <2> SUFFICES ASSUME NEW i \in 1..(n + 1), NEW j \in 1..(n + 1), i < j
               PROVE  h[i] < h[j]
    BY DEF Ascending
  <2>1. j - 1 \in 1..n /\ h[j] = s[j - 1]
    OBVIOUS
  <2>2. CASE i = 1
    BY <2>1, <2>2, <1>10
  <2>3. CASE i # 1
    <3>1. i - 1 \in 1..n /\ i - 1 < j - 1 /\ h[i] = s[i - 1]
      BY <2>3
    <3> QED  BY <3>1, <2>1, <1>9 DEF Ascending
  <2> QED  BY <2>2, <2>3
<1> QED  BY <1>11, <1>12

LEMMA SortExists ==
    ASSUME NEW n \in Nat, NEW f \in [1..n -> Nat], IsInjective1(f, n)
    PROVE  \E s \in [1..n -> Image1(f, n)] : Ascending(s, n)
<1> DEFINE Sortable(k) == \A g \in [1..k -> Nat] : IsInjective1(g, k) =>
                             \E s \in [1..k -> Image1(g, k)] : Ascending(s, k)
           S == {k \in Nat : Sortable(k)}
<1>1. 0 \in S
  <2> SUFFICES ASSUME NEW g \in [1..0 -> Nat]
               PROVE  \E s \in [1..0 -> Image1(g, 0)] : Ascending(s, 0)
    OBVIOUS
  <2> DEFINE h == [i \in 1..0 |-> g[i]]
  <2>1. h \in [1..0 -> Image1(g, 0)]
    OBVIOUS
  <2>2. Ascending(h, 0)
    BY DEF Ascending
  <2> HIDE DEF h
  <2> QED  BY <2>1, <2>2
<1>2. ASSUME NEW k \in S PROVE k + 1 \in S
  <2>1. k \in Nat /\ Sortable(k)
    OBVIOUS
  <2>2. Sortable(k + 1)
    BY <2>1, SortStep
  <2> HIDE DEF Sortable
  <2> QED  BY <2>1, <2>2
<1>3. S = Nat
  <2>1. S \in SUBSET Nat
    OBVIOUS
  <2> HIDE DEF S
  <2> QED  BY <2>1, <1>1, <1>2, NatSetInduction
<1>4. Sortable(n)
  <2> HIDE DEF Sortable
  <2> QED  BY <1>3
<1> QED  BY <1>4

\* However the keys are put in order, none is left out.
LEMMA SortedIsOnto ==
    ASSUME NEW n \in Nat, NEW f \in [1..n -> Nat], IsInjective1(f, n),
           NEW s \in [1..n -> Image1(f, n)], Ascending(s, n)
    PROVE  \A i \in 1..n : \E j \in 1..n : s[j] = f[i]
<1> DEFINE K == Image1(f, n)
<1>1. \A i \in 1..n : s[i] \in K /\ s[i] \in Nat
  BY DEF Image1
<1>2. s \in Injection(1..n, K)
  <2>1. \A i, j \in 1..n : s[i] = s[j] => i = j
    <3> SUFFICES ASSUME NEW i \in 1..n, NEW j \in 1..n, s[i] = s[j], i # j PROVE FALSE
      OBVIOUS
    <3>1. i < j \/ j < i
      OBVIOUS
    <3> QED  BY <3>1, <1>1 DEF Ascending
  <2> QED  BY <2>1 DEF Injection, IsInjective
<1>3. f \in Bijection(1..n, K)
  BY DEF Bijection, Injection, Surjection, IsInjective, IsInjective1, Image1
<1>4. IsFiniteSet(1..n) /\ IsFiniteSet(K) /\ Cardinality(1..n) = Cardinality(K)
  <2>1. IsFiniteSet(1..n)
    BY FS_Interval
  <2>2. f \in Surjection(1..n, K) /\ f \in Injection(1..n, K)
    BY <1>3 DEF Bijection
  <2> HIDE DEF K
  <2>3. IsFiniteSet(K)
    BY <2>1, <2>2, FS_Surjection
  <2>4. Cardinality(1..n) = Cardinality(K)
    BY <2>1, <2>2, <2>3, FS_Surjection
  <2> QED  BY <2>1, <2>3, <2>4
<1>5. s \in Surjection(1..n, K)
  <2> HIDE DEF K
  <2> QED  BY <1>2, <1>4, FS_Injection
<1> QED  BY <1>5 DEF Surjection, Image1
=============================================================================
