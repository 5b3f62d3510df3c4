---------------------------- MODULE AnalysisProofs ----------------------------
(* The properties of Detection and of Attribution, for every history and all  *)
(* values of the constants: the two halves of an analysis, with the           *)
(* statistics both rest on.                                                   *)
EXTENDS Attribution, Detection, FlowLemmas, FiniteSetTheorems, TLAPS

----------------------------------------------------------------------------
(* Statistics: the largest and the smallest of some numbers, medians, sums.   *)

LEMMA HasMaxIn ==
    ASSUME NEW n \in Nat, NEW D, D \subseteq 0..n, D # {}
    PROVE  /\ Max(D) \in D /\ \A x \in D : x <= Max(D)
           /\ Min(D) \in D /\ \A x \in D : Min(D) <= x
<1> DEFINE B == {m \in Nat : \A x \in D : x <= m}
<1>1. B \subseteq Nat /\ n \in B
  OBVIOUS
<1>2. PICK m \in B : \A y \in B : ~(y < m)
  <2> HIDE DEF B
  <2> QED
    BY <1>1, LeastElement
<1>3. m \in D
  <2> SUFFICES ASSUME m \notin D PROVE FALSE
    OBVIOUS
  <2>1. \A x \in D : x \in Nat /\ x <= m /\ x # m
    BY <1>2
  <2>2. m \in Nat /\ m >= 1
    <3>1. PICK x \in D : TRUE
      OBVIOUS
    <3>2. x \in Nat /\ x <= m
      BY <2>1, <3>1
    <3>3. m \in Nat
      BY <1>2
    <3> HIDE DEF B
    <3> QED
      BY <3>2, <3>3
  <2>3. \A x \in D : x <= m - 1
    BY <2>1, <2>2
  <2>4. m - 1 \in B /\ m - 1 < m
    BY <2>2, <2>3
  <2> QED
    BY <1>2, <2>4
<1>4. \A x \in D : m >= x
  BY <1>2
<1>5. PICK l \in D : \A y \in D : ~(y < l)
  <2>1. D \subseteq Nat
    OBVIOUS
  <2> QED
    BY <2>1, LeastElement
<1>6. \A y \in D : l <= y
  BY <1>5
<1> QED
  BY <1>3, <1>4, <1>6 DEF Max, Min

LEMMA HasMax ==
    ASSUME NEW n \in Nat, NEW D, D \subseteq 1..n, D # {}
    PROVE  /\ Max(D) \in D /\ \A x \in D : x <= Max(D)
           /\ Min(D) \in D /\ \A x \in D : Min(D) <= x
<1>1. D \subseteq 0..n
  OBVIOUS
<1> QED
  BY <1>1, HasMaxIn

LEMMA Numbers ==
    ASSUME NEW n \in Nat, NEW D, D \subseteq 1..n
    PROVE  /\ IsFiniteSet(D) /\ Cardinality(D) \in Nat
           /\ D # {} => Cardinality(D) > 0
<1>1. IsFiniteSet(1..n)
  BY FS_Interval
<1>2. IsFiniteSet(D)
  BY <1>1, FS_Subset
<1> QED
  BY <1>2, FS_CardinalityType, FS_EmptySet

(* Finitely many values have a bound. *)
LEMMA HasBound ==
    ASSUME NEW n \in Nat, NEW D, D \subseteq 1..n, NEW v \in [D -> Nat]
    PROVE  \E m \in Nat : \A i \in D : v[i] <= m
<1> DEFINE K == {k \in Nat : \E m \in Nat : \A i \in D : i <= k => v[i] <= m}
<1>1. 0 \in K
  <2>1. \A i \in D : i <= 0 => v[i] <= 0
    OBVIOUS
  <2> QED
    BY <2>1
<1>2. ASSUME NEW k \in Nat, k \in K PROVE k + 1 \in K
  <2>1. PICK m \in Nat : \A i \in D : i <= k => v[i] <= m
    BY <1>2
  <2>2. PICK w \in Nat : k + 1 \in D => v[k + 1] = w
    <3>1. k + 1 \in D => v[k + 1] \in Nat
      OBVIOUS
    <3> QED
      BY <3>1
  <2>3. \A i \in D : i <= k + 1 => i <= k \/ i = k + 1
    OBVIOUS
  <2>4. \A i \in D : i <= k + 1 => v[i] <= m + w
    BY <2>1, <2>2, <2>3
  <2> QED
    BY <2>4
<1> HIDE DEF K
<1>3. n \in K
  BY <1>1, <1>2, SetInduction
<1>4. PICK m \in Nat : \A i \in D : i <= n => v[i] <= m
  BY <1>3 DEF K
<1> QED
  BY <1>4

LEMMA FiniteBound ==
    ASSUME NEW D, IsFiniteSet(D), NEW v \in [D -> Nat]
    PROVE  \E m \in Nat : \A i \in D : v[i] <= m
<1>1. PICK n \in Nat : ExistsSurjection(1..n, D)
  BY FS_NatSurjection
<1>2. PICK f \in [1..n -> D] : \A i \in D : \E k \in 1..n : f[k] = i
  BY <1>1 DEF ExistsSurjection, Surjection
<1> DEFINE u == [k \in 1..n |-> v[f[k]]]
<1>3. u \in [1..n -> Nat]
  BY <1>2
<1>4. PICK m \in Nat : \A k \in 1..n : u[k] <= m
  <2> HIDE DEF u
  <2>1. 1..n \subseteq 1..n
    OBVIOUS
  <2> QED
    BY <1>3, <2>1, HasBound
<1>5. \A k \in 1..n : v[f[k]] <= m
  BY <1>4
<1> QED
  BY <1>2, <1>5

LEMMA SmallestIsOne ==
    ASSUME NEW D, IsFiniteSet(D), NEW v \in [D -> Nat],
           NEW k \in 1..Cardinality(D)
    PROVE  /\ Smallest(v, k) \in Range(v)
           /\ Cardinality({i \in D : v[i] < Smallest(v, k)}) < k
           /\ Cardinality({i \in D : v[i] <= Smallest(v, k)}) >= k
<1> DEFINE UpTo(m) == {i \in D : v[i] <= m}
           K == {m \in Nat : Cardinality(UpTo(m)) >= k}
<1>1. \A E : E \subseteq D => IsFiniteSet(E) /\ Cardinality(E) \in Nat
  <2> TAKE E
  <2> HAVE E \subseteq D
  <2>1. IsFiniteSet(E)
    BY FS_Subset
  <2> QED
    BY <2>1, FS_CardinalityType
<1>2. K \subseteq Nat /\ K # {}
  <2>1. PICK m \in Nat : \A i \in D : v[i] <= m
    BY FiniteBound
  <2>2. UpTo(m) = D
    BY <2>1
  <2>3. Cardinality(UpTo(m)) >= k
    BY <2>2, <1>1
  <2> QED
    BY <2>3
<1>3. PICK m \in K : \A y \in K : ~(y < m)
  <2> HIDE DEF K
  <2> QED
    BY <1>2, LeastElement
<1>4. m \in Nat /\ k \in Nat /\ k >= 1
  BY <1>1
<1>5. ASSUME NEW E, E \subseteq D, \A i \in E : v[i] < m, \A i \in D : v[i] < m => i \in E
      PROVE  Cardinality(E) < k
  <2>1. CASE m = 0
    <3>1. E = {}
      BY <1>5, <2>1
    <3> QED
      BY <1>4, <3>1, FS_EmptySet
  <2>2. CASE m # 0
    <3>1. m - 1 \in Nat /\ m - 1 < m
      BY <1>4, <2>2
    <3>2. E = UpTo(m - 1)
      <4>1. \A i \in D : v[i] \in Nat /\ (v[i] < m <=> v[i] <= m - 1)
        BY <1>4
      <4> QED
        BY <1>5, <4>1
    <3>3. m - 1 \notin K
      BY <1>3, <3>1
    <3> QED
      BY <1>1, <1>4, <1>5, <3>1, <3>2, <3>3
  <2> QED
    BY <2>1, <2>2
<1>6. m \in Range(v)
  <2> SUFFICES ASSUME m \notin Range(v) PROVE FALSE
    OBVIOUS
  <2>1. \A i \in D : v[i] # m
    BY DEF Range
  <2>2. \A i \in UpTo(m) : v[i] < m
    BY <1>4, <2>1
  <2>3. Cardinality(UpTo(m)) < k
    <3>1. UpTo(m) \subseteq D /\ \A i \in D : v[i] < m => i \in UpTo(m)
      BY <1>4
    <3> HIDE DEF UpTo
    <3> QED
      BY <1>5, <2>2, <3>1
  <2>4. Cardinality(UpTo(m)) >= k
    BY <1>3
  <2> QED
    BY <1>1, <1>4, <2>3, <2>4
<1>7. Cardinality({i \in DOMAIN v : v[i] < m}) < k
  BY <1>5
<1>8. Cardinality({i \in DOMAIN v : v[i] <= m}) >= k
  BY <1>3
<1> HIDE DEF K
<1> QED
  BY <1>6, <1>7, <1>8 DEF Smallest

(* A median is between two of the values. *)
LEMMA MedianIsBetween ==
    ASSUME NEW D, IsFiniteSet(D), NEW v \in [D -> Nat], D # {}
    PROVE  /\ Median2(v) \in Nat
           /\ \E i, j \in D : Median2(v) = v[i] + v[j]
<1> DEFINE c == Cardinality(D)
<1>1. c \in Nat /\ c > 0 /\ DOMAIN v = D
  BY FS_CardinalityType, FS_EmptySet
<1> HIDE DEF c
<1>2. (c + 1) \div 2 \in 1..c /\ c \div 2 + 1 \in 1..c
  BY <1>1
<1> DEFINE x == Smallest(v, (c + 1) \div 2)
           y == Smallest(v, c \div 2 + 1)
<1>3. x \in Range(v) /\ y \in Range(v)
  <2> USE <1>2 DEF c
  <2> QED
    BY SmallestIsOne
<1>4. Median2(v) = x + y
  BY <1>1 DEF Median2, Number, c
<1> HIDE DEF x, y
<1>5. PICK i \in D, j \in D : x = v[i] /\ y = v[j]
  BY <1>1, <1>3 DEF Range
<1> QED
  BY <1>4, <1>5

(* A median is a number, 0 when there are no values. *)
LEMMA MedianIsNat ==
    ASSUME NEW D, IsFiniteSet(D), NEW v \in [D -> Nat]
    PROVE  Median2(v) \in Nat
<1>1. CASE D = {}
  <2>1. DOMAIN v = {}
    BY <1>1
  <2> QED
    BY <2>1, FS_EmptySet DEF Median2, Number
<1>2. CASE D # {}
  BY <1>2, MedianIsBetween
<1> QED
  BY <1>1, <1>2

LEMMA MADIsNat ==
    ASSUME NEW D, IsFiniteSet(D), NEW v \in [D -> Nat]
    PROVE  MAD4(v) \in Nat
<1> DEFINE m == Median2(v)
           u == [i \in D |-> IF 2 * v[i] < m THEN m - 2 * v[i] ELSE 2 * v[i] - m]
<1>1. m \in Nat
  BY MedianIsNat
<1>2. u \in [D -> Nat]
  <2> HIDE DEF m
  <2> SUFFICES ASSUME NEW i \in D
               PROVE  (IF 2 * v[i] < m THEN m - 2 * v[i] ELSE 2 * v[i] - m) \in Nat
    OBVIOUS
  <2>1. v[i] \in Nat
    OBVIOUS
  <2> QED
    BY <1>1, <2>1
<1>3. MAD4(v) = Median2(u)
  BY DEF MAD4
<1> HIDE DEF u
<1> QED
  BY <1>2, <1>3, MedianIsNat

(* Where values grow, so do the k-th smallest and the median. *)
LEMMA SmallestGrows ==
    ASSUME NEW D, IsFiniteSet(D), NEW v \in [D -> Nat], NEW u \in [D -> Nat],
           \A i \in D : v[i] <= u[i], NEW k \in 1..Cardinality(D)
    PROVE  /\ Smallest(v, k) \in Nat /\ Smallest(u, k) \in Nat
           /\ Smallest(v, k) <= Smallest(u, k)
<1> DEFINE x == Smallest(v, k)
           y == Smallest(u, k)
<1>1. x \in Range(v) /\ Cardinality({i \in D : v[i] < x}) < k
  BY SmallestIsOne
<1>2. y \in Range(u) /\ Cardinality({i \in D : u[i] <= y}) >= k
  BY SmallestIsOne
<1> HIDE DEF x, y
<1>3. x \in Nat /\ y \in Nat
  BY <1>1, <1>2 DEF Range
<1>4. k \in Nat
  BY FS_CardinalityType
<1> SUFFICES ASSUME y < x PROVE FALSE
  BY <1>3 DEF x, y
<1>5. {i \in D : u[i] <= y} \subseteq {i \in D : v[i] < x}
  <2> SUFFICES ASSUME NEW i \in D, u[i] <= y PROVE v[i] < x
    OBVIOUS
  <2>1. v[i] \in Nat /\ u[i] \in Nat /\ v[i] <= u[i]
    OBVIOUS
  <2> QED
    BY <1>3, <2>1
<1>6. IsFiniteSet({i \in D : v[i] < x})
  BY FS_Subset
<1>7. Cardinality({i \in D : u[i] <= y}) <= Cardinality({i \in D : v[i] < x})
  BY <1>5, <1>6, FS_Subset
<1>8. Cardinality({i \in D : u[i] <= y}) \in Nat /\ Cardinality({i \in D : v[i] < x}) \in Nat
  BY <1>5, <1>6, FS_Subset, FS_CardinalityType
<1> QED
  BY <1>1, <1>2, <1>4, <1>7, <1>8

(* The places a median is taken at. *)
LEMMA Middle ==
    ASSUME NEW c \in Nat, c > 0
    PROVE  (c + 1) \div 2 \in 1..c /\ c \div 2 + 1 \in 1..c
OBVIOUS

LEMMA MedianGrows ==
    ASSUME NEW D, IsFiniteSet(D), NEW v \in [D -> Nat], NEW u \in [D -> Nat],
           \A i \in D : v[i] <= u[i]
    PROVE  Median2(v) <= Median2(u)
<1> DEFINE c == Cardinality(D)
<1>1. c \in Nat /\ DOMAIN v = D /\ DOMAIN u = D
  BY FS_CardinalityType
<1>2. CASE c = 0
  <2>1. Median2(v) = 0 /\ Median2(u) = 0
    BY <1>1, <1>2 DEF Median2, Number
  <2> QED
    BY <2>1
<1>3. CASE c # 0
  <2>1. (c + 1) \div 2 \in 1..c /\ c \div 2 + 1 \in 1..c
    <3> HIDE DEF c
    <3> QED
      BY <1>1, <1>3, Middle
  <2>2. /\ Median2(v) = Smallest(v, (c + 1) \div 2) + Smallest(v, c \div 2 + 1)
        /\ Median2(u) = Smallest(u, (c + 1) \div 2) + Smallest(u, c \div 2 + 1)
    BY <1>1, <1>3 DEF Median2, Number
  <2>3. /\ Smallest(v, (c + 1) \div 2) \in Nat /\ Smallest(u, (c + 1) \div 2) \in Nat
        /\ Smallest(v, (c + 1) \div 2) <= Smallest(u, (c + 1) \div 2)
    BY <2>1, SmallestGrows
  <2>4. /\ Smallest(v, c \div 2 + 1) \in Nat /\ Smallest(u, c \div 2 + 1) \in Nat
        /\ Smallest(v, c \div 2 + 1) <= Smallest(u, c \div 2 + 1)
    BY <2>1, SmallestGrows
  <2> HIDE DEF c
  <2> QED
    BY <2>2, <2>3, <2>4
<1> QED
  BY <1>2, <1>3

(* A median above 0 means that half of the values are. *)
LEMMA SmallestAboveZero ==
    ASSUME NEW D, IsFiniteSet(D), NEW v \in [D -> Nat], NEW k \in 1..Cardinality(D),
           Smallest(v, k) > 0
    PROVE  Cardinality({i \in D : v[i] > 0}) > Cardinality(D) - k
<1> DEFINE x == Smallest(v, k)
           zero == {i \in D : v[i] = 0}
           above == {i \in D : v[i] > 0}
<1>1. x \in Range(v) /\ Cardinality({i \in D : v[i] < x}) < k
  BY SmallestIsOne
<1>2. x > 0
  OBVIOUS
<1> HIDE DEF x
<1>3. x \in Nat
  BY <1>1 DEF Range
<1>4. zero \subseteq {i \in D : v[i] < x}
  BY <1>2, <1>3
<1>5. IsFiniteSet({i \in D : v[i] < x}) /\ IsFiniteSet(zero) /\ IsFiniteSet(above)
  BY FS_Subset
<1>6. Cardinality(zero) <= Cardinality({i \in D : v[i] < x})
  <2> HIDE DEF zero
  <2> QED
    BY <1>4, <1>5, FS_Subset
<1>7. above = D \ zero /\ D \cap zero = zero
  OBVIOUS
<1>8. Cardinality(above) = Cardinality(D) - Cardinality(zero)
  <2> HIDE DEF above, zero
  <2> QED
    BY <1>7, FS_Difference
<1>9. /\ Cardinality(zero) \in Nat /\ Cardinality({i \in D : v[i] < x}) \in Nat
      /\ Cardinality(D) \in Nat
  BY <1>5, FS_CardinalityType
<1> HIDE DEF zero, above
<1>10. Cardinality(above) > Cardinality(D) - k
  BY <1>1, <1>6, <1>8, <1>9
<1> QED
  BY <1>10 DEF above

LEMMA HalfAboveZero ==
    ASSUME NEW D, IsFiniteSet(D), NEW v \in [D -> Nat], Median2(v) > 0
    PROVE  2 * Cardinality({i \in D : v[i] > 0}) >= Cardinality(D)
<1> DEFINE c == Cardinality(D)
           a == Cardinality({i \in D : v[i] > 0})
<1>1. c \in Nat /\ DOMAIN v = D
  BY FS_CardinalityType
<1>2. a \in Nat
  <2>1. IsFiniteSet({i \in D : v[i] > 0})
    BY FS_Subset
  <2> QED
    BY <2>1, FS_CardinalityType
<1>3. c # 0
  BY <1>1 DEF Median2, Number
<1>4. (c + 1) \div 2 \in 1..c /\ c \div 2 + 1 \in 1..c
  <2> HIDE DEF c
  <2> QED
    BY <1>1, <1>3, Middle
<1>5. Median2(v) = Smallest(v, (c + 1) \div 2) + Smallest(v, c \div 2 + 1)
  BY <1>1, <1>3 DEF Median2, Number
<1>6. Smallest(v, (c + 1) \div 2) \in Nat /\ Smallest(v, c \div 2 + 1) \in Nat
  BY <1>4, SmallestGrows
<1>7. Smallest(v, (c + 1) \div 2) > 0 \/ Smallest(v, c \div 2 + 1) > 0
  <2> HIDE DEF c
  <2> QED
    BY <1>5, <1>6
<1>8. a > c - (c + 1) \div 2 \/ a > c - (c \div 2 + 1)
  BY <1>4, <1>7, SmallestAboveZero
<1>9. 2 * a >= c
  <2> HIDE DEF a, c
  <2> QED
    BY <1>1, <1>2, <1>8
<1> QED
  BY <1>9
(* Those of F that come before i. *)
Below(F, R, i) == {j \in F : <<j, i>> \in R}

(* In a strict order of a finite set, each place is somebody's. *)
LEMMA EveryPlaceIsTaken ==
    ASSUME NEW F, IsFiniteSet(F), NEW R,
           \A i \in F : <<i, i>> \notin R,
           \A i, j, k \in F : <<i, j>> \in R /\ <<j, k>> \in R => <<i, k>> \in R,
           \A i, j \in F : i # j => <<i, j>> \in R \/ <<j, i>> \in R
    PROVE  /\ \A k \in 1..Cardinality(F) :
                  \E i \in F : Cardinality(Below(F, R, i)) = k - 1
           /\ \A i, j \in F : <<i, j>> \in R =>
                  Cardinality(Below(F, R, i)) < Cardinality(Below(F, R, j))
<1> DEFINE n == Cardinality(F)
           place == [i \in F |-> Cardinality(Below(F, R, i)) + 1]
<1>1. n \in Nat
  BY FS_CardinalityType
<1>2. ASSUME NEW i \in F
      PROVE  IsFiniteSet(Below(F, R, i)) /\ Cardinality(Below(F, R, i)) \in Nat /\ Cardinality(Below(F, R, i)) < n
  <2>1. IsFiniteSet(Below(F, R, i)) /\ Cardinality(Below(F, R, i)) <= n /\ (n = Cardinality(Below(F, R, i)) => F = Below(F, R, i))
    <3>1. Below(F, R, i) \in SUBSET F
      BY DEF Below
    <3> HIDE DEF n
    <3> QED
      BY <3>1, FS_Subset DEF n
  <2>2. i \notin Below(F, R, i)
    BY DEF Below
  <2>3. Cardinality(Below(F, R, i)) \in Nat
    BY <2>1, FS_CardinalityType
  <2> QED
    BY <1>1, <2>1, <2>2, <2>3
<1>3. ASSUME NEW i \in F, NEW j \in F, <<i, j>> \in R
      PROVE  Cardinality(Below(F, R, i)) < Cardinality(Below(F, R, j))
  <2>1. Below(F, R, i) \subseteq Below(F, R, j) /\ i \in Below(F, R, j) /\ i \notin Below(F, R, i)
    BY <1>3 DEF Below
  <2>2. /\ Cardinality(Below(F, R, i)) <= Cardinality(Below(F, R, j))
        /\ Cardinality(Below(F, R, j)) = Cardinality(Below(F, R, i)) => Below(F, R, j) = Below(F, R, i)
    BY <1>2, <2>1, FS_Subset
  <2> QED
    BY <1>2, <2>1, <2>2
<1> HIDE DEF n
<1>4. place \in [F -> 1..n]
  BY <1>1, <1>2
<1>5. \A i, j \in F : place[i] = place[j] => i = j
  <2> SUFFICES ASSUME NEW i \in F, NEW j \in F, i # j PROVE place[i] # place[j]
    OBVIOUS
  <2>1. <<i, j>> \in R \/ <<j, i>> \in R
    OBVIOUS
  <2>2. Cardinality(Below(F, R, i)) # Cardinality(Below(F, R, j))
    BY <1>2, <1>3, <2>1
  <2> QED
    BY <1>2, <2>2
<1>6. \A i \in F : place[i] = Cardinality(Below(F, R, i)) + 1
  OBVIOUS
<1> HIDE DEF place
<1>7. place \in Injection(F, 1..n)
  BY <1>4, <1>5 DEF Injection, IsInjective
<1>8. IsFiniteSet(1..n) /\ Cardinality(1..n) = n
  <2>1. IsFiniteSet(1..n) /\ Cardinality(1..n) = IF 1 > n THEN 0 ELSE n - 1 + 1
    BY <1>1, FS_Interval
  <2> QED
    BY <1>1, <2>1
<1>9. place \in Surjection(F, 1..n)
  <2>1. Cardinality(F) = Cardinality(1..n) <=> place \in Surjection(F, 1..n)
    BY <1>7, <1>8, FS_Injection
  <2> QED
    BY <1>8, <2>1 DEF n
<1>10. ASSUME NEW k \in 1..n PROVE \E i \in F : Cardinality(Below(F, R, i)) = k - 1
  <2>1. PICK i \in F : place[i] = k
    BY <1>9 DEF Surjection
  <2>2. Cardinality(Below(F, R, i)) = k - 1
    BY <1>2, <1>6, <2>1
  <2> QED
    BY <2>2
<1> QED
  BY <1>3, <1>10 DEF n

(* The recursion of Sum has a solution. *)
Adds(g, m, v) ==
    g = [n \in 0..m |-> IF n = 0 THEN 0
                        ELSE g[n - 1] + IF n \in DOMAIN v THEN v[n] ELSE 0]

LEMMA Addable == \A v : \A m \in Nat : \E g : Adds(g, m, v)
<1> TAKE v
<1> DEFINE K == {m \in Nat : \E g : Adds(g, m, v)}
           More(n) == IF n \in DOMAIN v THEN v[n] ELSE 0
<1>1. 0 \in K
  <2> DEFINE g == [n \in 0..0 |-> 0]
  <2>1. Adds(g, 0, v)
    BY DEF Adds
  <2> QED
    BY <2>1
<1>2. ASSUME NEW k \in Nat, k \in K PROVE k + 1 \in K
  <2>1. PICK g : Adds(g, k, v)
    BY <1>2
  <2> DEFINE last == g[k] + More(k + 1)
             h == [n \in 0..(k + 1) |-> IF n <= k THEN g[n] ELSE last]
  <2>2. ASSUME NEW n \in 0..(k + 1)
        PROVE  h[n] = IF n = 0 THEN 0 ELSE h[n - 1] + More(n)
    <3> HIDE DEF More
    <3>1. CASE n = 0
      BY <2>1, <3>1 DEF Adds
    <3>2. CASE n # 0 /\ n <= k
      <4>1. n - 1 \in 0..(k + 1) /\ n - 1 <= k /\ n \in 0..k
        BY <3>2
      <4>2. h[n] = g[n] /\ h[n - 1] = g[n - 1]
        BY <3>2, <4>1
      <4>3. g[n] = g[n - 1] + More(n)
        BY <2>1, <3>2, <4>1 DEF Adds, More
      <4> QED
        BY <3>2, <4>2, <4>3
    <3>3. CASE n = k + 1
      <4>1. n - 1 = k /\ n # 0 /\ ~(n <= k) /\ k \in 0..(k + 1) /\ k <= k
        BY <3>3
      <4>2. h[n] = last /\ h[n - 1] = g[k]
        BY <4>1
      <4> QED
        BY <3>3, <4>1, <4>2
    <3> QED
      BY <3>1, <3>2, <3>3
  <2>3. Adds(h, k + 1, v)
    <3> HIDE DEF last
    <3>1. h = [n \in 0..(k + 1) |-> h[n]]
      OBVIOUS
    <3> HIDE DEF h
    <3> QED
      BY <2>2, <3>1 DEF Adds
  <2> QED
    BY <2>3
<1> HIDE DEF K
<1>3. \A k \in Nat : k \in K
  BY <1>1, <1>2, SetInduction
<1> QED
  BY <1>3 DEF K

LEMMA SumIsNat ==
    ASSUME NEW n \in Nat, NEW D, D \subseteq 1..n, NEW v \in [D -> Nat]
    PROVE  Sum(v) \in Nat
<1> DEFINE last == Max({0} \cup DOMAIN v)
           g == CHOOSE f : Adds(f, last, v)
<1>1. last \in Nat
  <2>1. CASE D = {}
    <3>1. {0} \cup DOMAIN v = {0}
      BY <2>1
    <3>2. Max({0}) = 0
      BY DEF Max
    <3> QED
      BY <3>1, <3>2
  <2>2. CASE D # {}
    <3>1. PICK m \in D : \A x \in D : x <= m
      BY <2>2, HasMax
    <3>2. \A x \in {0} \cup DOMAIN v : x \in Nat /\ m >= x
      <4>1. \A x \in D : x \in Nat /\ x >= 1
        OBVIOUS
      <4> QED
        BY <3>1, <4>1
    <3>3. last \in {0} \cup DOMAIN v
      BY <3>1, <3>2 DEF Max
    <3> QED
      BY <3>2, <3>3
  <2> QED
    BY <2>1, <2>2
<1>2. Sum(v) = g[last]
  BY DEF Sum, Adds
<1> HIDE DEF last
<1>3. Adds(g, last, v)
  BY <1>1, Addable
<1> HIDE DEF g
<1> DEFINE K == {k \in Nat : k <= last => g[k] \in Nat}
<1>4. 0 \in K
  <2>1. g[0] = 0
    BY <1>1, <1>3 DEF Adds
  <2> QED
    BY <2>1
<1>5. ASSUME NEW k \in Nat, k \in K PROVE k + 1 \in K
  <2> SUFFICES ASSUME k + 1 <= last PROVE g[k + 1] \in Nat
    OBVIOUS
  <2>1. k + 1 \in 0..last /\ k + 1 # 0 /\ (k + 1) - 1 = k /\ k <= last
    BY <1>1
  <2>2. g[k + 1] = g[k] + IF k + 1 \in DOMAIN v THEN v[k + 1] ELSE 0
    BY <1>3, <2>1 DEF Adds
  <2>3. (IF k + 1 \in DOMAIN v THEN v[k + 1] ELSE 0) \in Nat
    OBVIOUS
  <2>4. g[k] \in Nat
    BY <1>5, <2>1
  <2> QED
    BY <2>2, <2>3, <2>4
<1> HIDE DEF K
<1>6. last \in K
  BY <1>1, <1>4, <1>5, SetInduction
<1>7. g[last] \in Nat
  BY <1>1, <1>6 DEF K
<1> QED
  BY <1>2, <1>7

----------------------------------------------------------------------------
(* Blocks. *)

LEMMA Multiples ==
    ASSUME NEW a \in Nat, NEW b \in Nat, a <= b
    PROVE  /\ a * BlockSize \in Nat /\ b * BlockSize \in Nat /\ a * BlockSize <= b * BlockSize
           /\ (b + 1) * BlockSize = b * BlockSize + BlockSize
<1>1. BlockSize \in Nat
  BY DetectionAssumption
<1> QED
  BY <1>1

(* As many blocks as there are whole ones. *)
LEMMA WholeBlocks ==
    ASSUME NEW c \in Nat, BlockSize > 0
    PROVE  /\ c \div BlockSize \in Nat
           /\ (c \div BlockSize) * BlockSize <= c
<1>1. BlockSize \in Nat \ {0}
  BY DetectionAssumption
<1> QED
  BY <1>1

(* Places count up along the positions, from 1, and leave none out. *)
LEMMA PlacesCountUp ==
    ASSUME NEW n \in Nat, NEW S, S \subseteq 1..n
    PROVE  /\ IsFiniteSet(S) /\ Cardinality(S) \in Nat /\ Cardinality(S) <= n
           /\ \A i \in S : Place(S, i) \in 1..Cardinality(S)
           /\ \A i, j \in S : i < j => Place(S, i) < Place(S, j)
           /\ \A k \in 1..Cardinality(S) : \E i \in S : Place(S, i) = k
<1> DEFINE R == {p \in S \X S : p[1] < p[2]}
           c == Cardinality(S)
<1>1. IsFiniteSet(S) /\ c \in Nat /\ c <= n
  <2>1. IsFiniteSet(1..n) /\ Cardinality(1..n) = IF 1 > n THEN 0 ELSE n - 1 + 1
    BY FS_Interval
  <2>2. IsFiniteSet(S) /\ c <= Cardinality(1..n)
    BY <2>1, FS_Subset
  <2> QED
    BY <2>1, <2>2, FS_CardinalityType
<1>2. \A i, j : <<i, j>> \in R <=> i \in S /\ j \in S /\ i < j
  OBVIOUS
<1>3. \A i \in S : i \in Nat
  OBVIOUS
<1> HIDE DEF R
<1>4. /\ \A i \in S : <<i, i>> \notin R
      /\ \A i, j, k \in S : <<i, j>> \in R /\ <<j, k>> \in R => <<i, k>> \in R
      /\ \A i, j \in S : i # j => <<i, j>> \in R \/ <<j, i>> \in R
  BY <1>2, <1>3
<1>5. /\ \A k \in 1..c : \E i \in S : Cardinality(Below(S, R, i)) = k - 1
      /\ \A i, j \in S : <<i, j>> \in R =>
             Cardinality(Below(S, R, i)) < Cardinality(Below(S, R, j))
  BY <1>1, <1>4, EveryPlaceIsTaken
<1>6. ASSUME NEW i \in S
      PROVE  /\ Cardinality(Below(S, R, i)) \in Nat
             /\ Place(S, i) = Cardinality(Below(S, R, i)) + 1
             /\ Place(S, i) <= c
  <2> DEFINE B == Below(S, R, i)
             P == {j \in S : j <= i}
  <2>1. B \subseteq S /\ P \subseteq S /\ i \notin B /\ P = B \cup {i}
    <3>1. \A j : j \in B <=> j \in S /\ j < i
      BY <1>2 DEF Below
    <3>2. \A j \in S : j \in P <=> j < i \/ j = i
      <4> SUFFICES ASSUME NEW j \in S PROVE j <= i <=> j < i \/ j = i
        OBVIOUS
      <4>1. i \in Nat /\ j \in Nat
        BY <1>3
      <4> QED
        BY <4>1
    <3>3. P \subseteq S
      OBVIOUS
    <3> HIDE DEF B, P
    <3>4. i \in Nat /\ i \in S /\ B \subseteq S
      BY <1>3, <3>1
    <3>5. i \notin B
      BY <3>1, <3>4
    <3>6. P \subseteq B \cup {i} /\ B \subseteq P
      BY <3>1, <3>2, <3>3
    <3>7. i \in P
      BY <3>2, <3>4
    <3> QED
      BY <3>3, <3>4, <3>5, <3>6, <3>7
  <2> HIDE DEF B
  <2>2. IsFiniteSet(B)
    BY <1>1, <2>1, FS_Subset
  <2>3. Cardinality(B \cup {i}) = Cardinality(B) + 1 /\ Cardinality(B) \in Nat
    BY <2>1, <2>2, FS_AddElement, FS_CardinalityType
  <2>4. Cardinality(P) <= c
    <3> HIDE DEF P
    <3> QED
      BY <1>1, <2>1, FS_Subset
  <2> QED
    BY <2>1, <2>3, <2>4 DEF Place, B
<1>7. \A i \in S : Place(S, i) \in 1..c
  BY <1>1, <1>6
<1>8. ASSUME NEW i \in S, NEW j \in S, i < j PROVE Place(S, i) < Place(S, j)
  <2>1. Cardinality(Below(S, R, i)) < Cardinality(Below(S, R, j))
    BY <1>2, <1>5, <1>8
  <2> QED
    BY <1>6, <2>1
<1>9. ASSUME NEW k \in 1..c PROVE \E i \in S : Place(S, i) = k
  <2>1. PICK i \in S : Cardinality(Below(S, R, i)) = k - 1
    BY <1>5
  <2>2. Place(S, i) = k
    BY <1>1, <1>6, <2>1
  <2> QED
    BY <2>2
<1> QED
  BY <1>1, <1>7, <1>8, <1>9

(* A block of S is a part of S, in order, no larger than BlockSize, and ends  *)
(* at some position of it.                                                    *)
LEMMA BlockIsPart ==
    ASSUME NEW n \in Nat, NEW S, S \subseteq 1..n, BlockSize > 0, NEW b \in Blocks(S)
    PROVE  /\ b \in Nat \ {0} /\ b * BlockSize <= Cardinality(S)
           /\ Block(S, b) \subseteq S /\ Block(S, b) # {}
           /\ IsFiniteSet(Block(S, b)) /\ Cardinality(Block(S, b)) <= BlockSize
<1> DEFINE c == Cardinality(S)
           B == Block(S, b)
           lo == (b - 1) * BlockSize
           hi == b * BlockSize
<1>0. /\ \A i \in S : Place(S, i) \in 1..Cardinality(S)
      /\ \A i, j \in S : i < j => Place(S, i) < Place(S, j)
      /\ \A k \in 1..Cardinality(S) : \E i \in S : Place(S, i) = k
      /\ Cardinality(S) \in Nat
  BY PlacesCountUp
<1>1. c \in Nat /\ BlockSize \in Nat
  BY <1>0, DetectionAssumption
<1>2. c \div BlockSize \in Nat /\ (c \div BlockSize) * BlockSize <= c
  <2> HIDE DEF c
  <2> QED
    BY <1>1, WholeBlocks
<1>3. b \in Nat \ {0} /\ b <= c \div BlockSize
  BY <1>2 DEF Blocks
<1>4. hi \in Nat /\ hi <= c /\ lo \in Nat /\ hi = lo + BlockSize
  <2> HIDE DEF c
  <2>1. b * BlockSize \in Nat /\ b * BlockSize <= (c \div BlockSize) * BlockSize /\ (c \div BlockSize) * BlockSize \in Nat
    BY <1>2, <1>3, Multiples
  <2>2. b - 1 \in Nat /\ b - 1 <= b - 1 /\ (b - 1) + 1 = b
    BY <1>3
  <2>3. (b - 1) * BlockSize \in Nat /\ ((b - 1) + 1) * BlockSize = (b - 1) * BlockSize + BlockSize
    BY <2>2, Multiples
  <2> QED
    BY <1>1, <1>2, <2>1, <2>2, <2>3
<1>5. \A i : i \in B <=> i \in S /\ lo < Place(S, i) /\ Place(S, i) <= hi
  BY DEF Block
<1> HIDE DEF lo, hi, c, B
<1>6. B # {}
  <2>1. hi \in 1..c /\ lo < hi
    BY <1>1, <1>4
  <2>2. PICK i \in S : Place(S, i) = hi
    BY <1>0, <2>1 DEF c
  <2> QED
    BY <1>1, <1>4, <1>5, <2>1, <2>2
<1>7. B \subseteq S
  BY <1>5
<1>8. IsFiniteSet(B) /\ Cardinality(B) <= BlockSize
  <2> DEFINE f == [i \in B |-> Place(S, i) - lo]
  <2>1. \A i \in B : i \in Nat /\ Place(S, i) \in Nat /\ Place(S, i) - lo \in 1..BlockSize
    <3> SUFFICES ASSUME NEW i \in B
                 PROVE  i \in Nat /\ Place(S, i) \in Nat /\ Place(S, i) - lo \in 1..BlockSize
      OBVIOUS
    <3>1. i \in S /\ lo < Place(S, i) /\ Place(S, i) <= hi
      BY <1>5
    <3>2. i \in Nat /\ Place(S, i) \in Nat
      BY <1>0, <3>1
    <3> QED
      BY <1>1, <1>4, <3>1, <3>2
  <2>2. \A i, j \in B : f[i] = f[j] => i = j
    <3> SUFFICES ASSUME NEW i \in B, NEW j \in B, i # j PROVE f[i] # f[j]
      OBVIOUS
    <3>1. i < j \/ j < i
      BY <2>1
    <3>2. Place(S, i) # Place(S, j)
      <4>1. i \in S /\ j \in S /\ Place(S, i) \in Nat /\ Place(S, j) \in Nat
        BY <1>7, <2>1
      <4> QED
        BY <1>0, <3>1, <4>1
    <3> QED
      BY <1>4, <2>1, <3>2
  <2>3. f \in [B -> 1..BlockSize]
    BY <2>1
  <2> HIDE DEF f
  <2>4. f \in Injection(B, 1..BlockSize)
    BY <2>2, <2>3 DEF Injection, IsInjective
  <2>5. IsFiniteSet(1..BlockSize) /\ Cardinality(1..BlockSize) = BlockSize
    <3>1. IsFiniteSet(1..BlockSize) /\ Cardinality(1..BlockSize) = IF 1 > BlockSize THEN 0 ELSE BlockSize - 1 + 1
      BY <1>1, FS_Interval
    <3> QED
      BY <1>1, <3>1
  <2> QED
    BY <2>4, <2>5, FS_Injection
<1>9. hi <= Cardinality(S)
  BY <1>4 DEF c
<1> QED
  BY <1>3, <1>6, <1>7, <1>8, <1>9 DEF B, hi

(* A later block holds later positions. *)
LEMMA BlocksInOrder ==
    ASSUME NEW n \in Nat, NEW S, S \subseteq 1..n, BlockSize > 0,
           NEW a \in Blocks(S), NEW b \in Blocks(S), a < b,
           NEW i \in Block(S, a), NEW j \in Block(S, b)
    PROVE  i < j
<1>0. /\ \A k \in S : k \in Nat /\ Place(S, k) \in Nat
      /\ \A k, l \in S : k < l => Place(S, k) < Place(S, l)
  <2>1. /\ \A k \in S : Place(S, k) \in 1..Cardinality(S)
        /\ \A k, l \in S : k < l => Place(S, k) < Place(S, l)
        /\ Cardinality(S) \in Nat
    BY PlacesCountUp
  <2>2. \A k \in S : k \in Nat
    OBVIOUS
  <2> QED
    BY <2>1, <2>2
<1>1. a \in Nat /\ b \in Nat /\ a <= b - 1 /\ b - 1 \in Nat
  <2>1. a \in Nat \ {0}
    BY BlockIsPart
  <2>2. b \in Nat \ {0}
    BY BlockIsPart
  <2> QED
    BY <2>1, <2>2
<1>2. a * BlockSize \in Nat /\ (b - 1) * BlockSize \in Nat /\ a * BlockSize <= (b - 1) * BlockSize
  BY <1>1, Multiples
<1>3. i \in S /\ j \in S /\ Place(S, i) <= a * BlockSize /\ (b - 1) * BlockSize < Place(S, j)
  BY DEF Block
<1>4. i \in Nat /\ j \in Nat /\ Place(S, i) \in Nat /\ Place(S, j) \in Nat
  BY <1>0, <1>3
<1>5. Place(S, i) < Place(S, j)
  BY <1>2, <1>3, <1>4
<1> SUFFICES ASSUME j <= i PROVE FALSE
  BY <1>4
<1>6. CASE j = i
  BY <1>4, <1>5, <1>6
<1>7. CASE j < i
  <2>1. Place(S, j) < Place(S, i)
    BY <1>0, <1>3, <1>7
  <2> QED
    BY <1>4, <1>5, <2>1
<1> QED
  BY <1>4, <1>6, <1>7

(* A block the span takes in: where a position between two blocks is. *)
LEMMA BetweenBlocks ==
    ASSUME NEW n \in Nat, NEW S, S \subseteq 1..n, BlockSize > 0,
           NEW a \in Blocks(S), NEW b \in Blocks(S),
           NEW i \in S, Min(Block(S, a)) <= i, i <= Max(Block(S, b))
    PROVE  \E c \in a..b : i \in Block(S, c)
<1>1. /\ \A k \in S : k \in Nat /\ Place(S, k) \in Nat
      /\ \A k, l \in S : k < l => Place(S, k) < Place(S, l)
  <2>1. /\ \A k \in S : Place(S, k) \in 1..Cardinality(S)
        /\ \A k, l \in S : k < l => Place(S, k) < Place(S, l)
        /\ Cardinality(S) \in Nat
    BY PlacesCountUp
  <2>2. \A k \in S : k \in Nat
    OBVIOUS
  <2> QED
    BY <2>1, <2>2
<1> DEFINE first == Min(Block(S, a))
           last == Max(Block(S, b))
           p == Place(S, i)
           q == Place(S, first)
           t == Place(S, last)
<1>2. /\ a \in Nat /\ a >= 1 /\ first \in S /\ (a - 1) * BlockSize < q
  <2>1. a \in Nat \ {0} /\ Block(S, a) \subseteq S /\ Block(S, a) # {}
    BY BlockIsPart
  <2>2. first \in Block(S, a)
    BY <2>1, HasMax
  <2> QED
    BY <2>1, <2>2 DEF Block
<1>3. /\ b \in Nat /\ b >= 1 /\ last \in S /\ t <= b * BlockSize
  <2>1. b \in Nat \ {0} /\ Block(S, b) \subseteq S /\ Block(S, b) # {}
    BY BlockIsPart
  <2>2. last \in Block(S, b)
    BY <2>1, HasMax
  <2> QED
    BY <2>1, <2>2 DEF Block
<1>4. q <= p /\ p <= t /\ p \in Nat /\ q \in Nat /\ t \in Nat
  <2>1. first \in Nat /\ last \in Nat /\ i \in Nat /\ first <= i /\ i <= last
    BY <1>1, <1>2, <1>3
  <2>2. p \in Nat /\ q \in Nat /\ t \in Nat
    BY <1>1, <1>2, <1>3
  <2> HIDE DEF first, last
  <2>3. first = i \/ first < i
    BY <2>1
  <2>4. i = last \/ i < last
    BY <2>1
  <2>5. q = p \/ q < p
    BY <1>1, <1>2, <2>3
  <2>6. p = t \/ p < t
    BY <1>1, <1>3, <2>4
  <2> QED
    BY <2>2, <2>5, <2>6
<1> HIDE DEF first, last, p, q, t
<1> DEFINE K == {k \in Nat : p <= k * BlockSize}
<1>5. BlockSize \in Nat
  BY DetectionAssumption
<1>6. b \in K
  <2>1. b * BlockSize \in Nat
    BY <1>3, Multiples
  <2> QED
    BY <1>3, <1>4, <2>1
<1>7. PICK c \in K : \A k \in K : ~(k < c)
  <2>1. K \subseteq Nat /\ K # {}
    BY <1>6
  <2> HIDE DEF K
  <2> QED
    BY <2>1, LeastElement
<1>8. c \in Nat /\ p <= c * BlockSize
  BY <1>7
<1>9. c <= b
  BY <1>3, <1>6, <1>7, <1>8
<1>10. a <= c
  <2> SUFFICES ASSUME c <= a - 1 PROVE FALSE
    BY <1>2, <1>8
  <2>1. a - 1 \in Nat
    BY <1>2
  <2>2. c * BlockSize \in Nat /\ (a - 1) * BlockSize \in Nat /\ c * BlockSize <= (a - 1) * BlockSize
    BY <1>8, <2>1, Multiples
  <2> QED
    BY <1>2, <1>4, <1>8, <2>2
<1>11. (c - 1) * BlockSize < p
  <2>1. c - 1 \in Nat /\ c - 1 < c
    BY <1>2, <1>8, <1>10
  <2>2. c - 1 \notin K
    BY <1>7, <2>1
  <2>3. (c - 1) * BlockSize \in Nat
    BY <2>1, Multiples
  <2> QED
    BY <1>4, <2>1, <2>2, <2>3
<1>12. i \in Block(S, c)
  BY <1>8, <1>11 DEF Block, p
<1> QED
  BY <1>2, <1>3, <1>8, <1>9, <1>10, <1>12

----------------------------------------------------------------------------
(* Groups, lags and medians. *)

IsGroup(g) == DOMAIN g.dur \subseteq Rank /\ DOMAIN g.dur # {} /\ g.dur \in [DOMAIN g.dur -> Nat]

(* What has happened: groups at the instants 1, 2, and so on. *)
IsHistory(gs) ==
    /\ Len(gs) \in Nat /\ DOMAIN gs = 1..Len(gs)
    /\ \A i \in DOMAIN gs : gs[i].ts = i /\ IsGroup(gs[i])

(* The lags of each rank, by the positions of its collectives. *)
IsLags(lags) ==
    \E n \in Nat : \A r \in Rank :
        DOMAIN lags[r] \subseteq 1..n /\ lags[r] \in [DOMAIN lags[r] -> Nat]

LEMMA LagsAreFinite ==
    ASSUME NEW lags, IsLags(lags), NEW r \in Rank
    PROVE  IsFiniteSet(DOMAIN lags[r]) /\ lags[r] \in [DOMAIN lags[r] -> Nat]
BY Numbers DEF IsLags

(* Finitely many numbers have a largest. *)
LEMMA LargestValue ==
    ASSUME NEW D, IsFiniteSet(D), D # {}, NEW v \in [D -> Nat]
    PROVE  Max(Range(v)) \in Range(v) /\ \A i \in D : v[i] <= Max(Range(v))
<1>1. PICK m \in Nat : \A i \in D : v[i] <= m
  BY FiniteBound
<1>2. Range(v) \subseteq 0..m /\ Range(v) # {}
  BY <1>1 DEF Range
<1>3. Max(Range(v)) \in Range(v) /\ \A x \in Range(v) : x <= Max(Range(v))
  BY <1>2, HasMaxIn
<1> QED
  BY <1>3 DEF Range

LEMMA LongestIs ==
    ASSUME NEW g, IsGroup(g)
    PROVE  /\ IsFiniteSet(DOMAIN g.dur)
           /\ Max(Range(g.dur)) \in Nat
           /\ \E o \in DOMAIN g.dur : g.dur[o] = Max(Range(g.dur))
           /\ \A o \in DOMAIN g.dur : g.dur[o] \in Nat /\ g.dur[o] <= Max(Range(g.dur))
           /\ \A r \in DOMAIN g.dur : Lag(g, r) \in Nat
<1>1. IsFiniteSet(DOMAIN g.dur)
  BY DetectionAssumption, FS_Subset DEF IsGroup
<1> DEFINE d == g.dur
           x == Max(Range(d))
<1>2. d \in [DOMAIN d -> Nat] /\ DOMAIN d # {} /\ IsFiniteSet(DOMAIN d)
  BY <1>1 DEF IsGroup
<1>3. x \in Range(d) /\ \A o \in DOMAIN d : d[o] <= x
  <2> HIDE DEF d
  <2> QED
    BY <1>2, LargestValue
<1>4. PICK o \in DOMAIN d : d[o] = x
  BY <1>3 DEF Range
<1>5. \A p \in DOMAIN d : d[p] \in Nat
  BY <1>2
<1> HIDE DEF x
<1>6. x \in Nat
  BY <1>4, <1>5
<1>7. \A r \in DOMAIN d : x - d[r] \in Nat
  BY <1>3, <1>5, <1>6
<1> QED
  BY <1>1, <1>3, <1>4, <1>5, <1>6, <1>7 DEF x, Lag

LEMMA LagsOfBlock ==
    ASSUME NEW gs, IsHistory(gs), NEW B, B \subseteq DOMAIN gs
    PROVE  /\ IsLags(PerRank(gs, B))
           /\ \A r \in Rank :
                  /\ DOMAIN PerRank(gs, B)[r] = {i \in B : r \in DOMAIN gs[i].dur}
                  /\ \A i \in DOMAIN PerRank(gs, B)[r] : PerRank(gs, B)[r][i] = Lag(gs[i], r)
<1>1. ASSUME NEW r \in Rank
      PROVE  /\ PerRank(gs, B)[r] = [i \in {i \in B : r \in DOMAIN gs[i].dur} |-> Lag(gs[i], r)]
             /\ PerRank(gs, B)[r] \in [{i \in B : r \in DOMAIN gs[i].dur} -> Nat]
             /\ {i \in B : r \in DOMAIN gs[i].dur} \subseteq 1..Len(gs)
  <2> DEFINE D == {i \in B : r \in DOMAIN gs[i].dur}
  <2>1. D \subseteq 1..Len(gs) /\ Len(gs) \in Nat
    BY DEF IsHistory
  <2>3. \A i \in D : Lag(gs[i], r) \in Nat
    BY LongestIs DEF IsHistory
  <2>4. PerRank(gs, B)[r] = [i \in D |-> Lag(gs[i], r)]
    BY DEF PerRank
  <2> QED
    BY <2>1, <2>3, <2>4
<1>2. Len(gs) \in Nat
  BY DEF IsHistory
<1> QED
  BY <1>1, <1>2 DEF IsLags

LEMMA MediansAre ==
    ASSUME NEW lags, IsLags(lags)
    PROVE  /\ DOMAIN Medians(lags) \subseteq Rank /\ IsFiniteSet(DOMAIN Medians(lags))
           /\ Medians(lags) \in [DOMAIN Medians(lags) -> Nat]
           /\ \A r \in DOMAIN Medians(lags) : Medians(lags)[r] = Median2(lags[r])
<1>1. DOMAIN Medians(lags) \subseteq Rank
  BY DEF Medians
<1>2. IsFiniteSet(DOMAIN Medians(lags))
  BY <1>1, DetectionAssumption, FS_Subset
<1>3. \A r \in Rank : Median2(lags[r]) \in Nat
  BY MedianIsNat, LagsAreFinite
<1>4. Medians(lags) = [r \in DOMAIN Medians(lags) |-> Median2(lags[r])]
  BY DEF Medians, Typical
<1> QED
  BY <1>1, <1>2, <1>3, <1>4

(* The peers' median of medians, and their lags. *)
LEMMA PeersAre ==
    ASSUME NEW lags, IsLags(lags), NEW r \in DOMAIN Medians(lags)
    PROVE  /\ Median2(Restrict(Medians(lags), DOMAIN Medians(lags) \ {r})) \in Nat
           /\ MAD4(Pooled(lags, NoisyOf(Medians(lags), r))) \in Nat
<1> DEFINE med == Medians(lags)
           S == DOMAIN med \ {r}
           E == UNION {{p} \X DOMAIN lags[p] : p \in S}
<1>1. /\ DOMAIN med \subseteq Rank /\ IsFiniteSet(DOMAIN med)
      /\ med \in [DOMAIN med -> Nat]
  BY MediansAre
<1>2. S \subseteq Rank /\ IsFiniteSet(S)
  BY <1>1, FS_RemoveElement
<1>3. Restrict(med, S) \in [S -> Nat]
  BY <1>1 DEF Restrict
<1>4. Median2(Restrict(med, S)) \in Nat
  <2> HIDE DEF S, med
  <2> QED
    BY <1>2, <1>3, MedianIsNat
<1>5. Pooled(lags, S) \in [E -> Nat]
  <2> SUFFICES ASSUME NEW e \in E PROVE lags[e[1]][e[2]] \in Nat
    BY DEF Pooled
  <2>1. PICK p \in S : e \in {p} \X DOMAIN lags[p]
    OBVIOUS
  <2>2. e[1] = p /\ e[2] \in DOMAIN lags[p]
    BY <2>1
  <2> QED
    BY <1>2, <2>2, LagsAreFinite
<1>6. IsFiniteSet(E)
  <2>1. PICK n \in Nat : \A p \in Rank : DOMAIN lags[p] \subseteq 1..n
    BY DEF IsLags
  <2>2. E \subseteq S \X (1..n)
    BY <1>2, <2>1
  <2>3. IsFiniteSet(1..n)
    BY FS_Interval
  <2> HIDE DEF S, E
  <2>4. IsFiniteSet(S \X (1..n))
    BY <1>2, <2>3, FS_Product
  <2> QED
    BY <2>2, <2>4, FS_Subset
<1> HIDE DEF E
<1>7. MAD4(Pooled(lags, S)) \in Nat
  BY <1>5, <1>6, MADIsNat
<1> QED
  BY <1>4, <1>7 DEF NoisyOf

(* A rank flagged for a block lags in half of its collectives there. *)
LEMMA FlaggedLags ==
    ASSUME NEW lags, IsLags(lags), NEW floor, NEW r \in Flagged(lags, floor)
    PROVE  2 * Cardinality({i \in DOMAIN lags[r] : lags[r][i] > 0}) >= Cardinality(DOMAIN lags[r])
<1> DEFINE med == Medians(lags)
           others == Median2(Restrict(med, DOMAIN med \ {r}))
<1>1. r \in DOMAIN med /\ 2 * med[r] - others > 0
  BY DEF Flagged, Exceeds, Excess4
<1>2. others \in Nat
  BY <1>1, PeersAre
<1>3. r \in Rank /\ med[r] \in Nat /\ med[r] = Median2(lags[r])
  BY <1>1, MediansAre
<1>4. Median2(lags[r]) > 0
  <2> HIDE DEF med, others
  <2> QED
    BY <1>1, <1>2, <1>3
<1>5. IsFiniteSet(DOMAIN lags[r]) /\ lags[r] \in [DOMAIN lags[r] -> Nat]
  BY <1>3, LagsAreFinite
<1> QED
  BY <1>4, <1>5, HalfAboveZero

----------------------------------------------------------------------------
(* What an anomaly says. *)

LEMMA SeenIs ==
    ASSUME NEW gs, IsHistory(gs), NEW w \in Nat
    PROVE  /\ Len(gs) \in Nat /\ Seen(gs, w) \subseteq 1..Len(gs)
           /\ \A i \in DOMAIN gs :
                  i \in Seen(gs, w) <=> /\ Cardinality(DOMAIN gs[i].dur) >= MinRanks
                                       /\ i >= Len(gs) - w
<1>1. Len(gs) \in Nat /\ DOMAIN gs = 1..Len(gs)
  BY DEF IsHistory
<1>2. ASSUME NEW i \in DOMAIN gs
      PROVE  gs[i].ts = i /\ gs[Len(gs)].ts = Len(gs)
  <2>1. Len(gs) \in DOMAIN gs
    BY <1>1
  <2> QED
    BY <2>1 DEF IsHistory
<1> QED
  BY <1>1, <1>2 DEF Seen, Enough

LEMMA FlagsAre ==
    ASSUME NEW gs, NEW w, NEW r \in Rank
    PROVE  /\ Flags(gs, w)[r] \subseteq Blocks(Seen(gs, w))
           /\ \A b \in Blocks(Seen(gs, w)) :
                  b \in Flags(gs, w)[r] <=>
                      r \in Flagged(PerRank(gs, Block(Seen(gs, w), b)), Floor400(gs))
BY DEF Flags

LEMMA AnomalyIs ==
    ASSUME NEW gs, IsHistory(gs), NEW w \in Nat, NEW a \in DetectAnomalies(gs, w)
    PROVE  /\ a.rank \in Rank /\ BlockSize > 0
           /\ a = Anomaly(gs, Seen(gs, w), a.rank, Flags(gs, w)[a.rank])
           /\ Persistent(Flags(gs, w)[a.rank])
<1>1. ~(BlockSize < 2)
  BY DEF DetectAnomalies
<1>2. PICK r \in Rank : /\ Persistent(Flags(gs, w)[r])
                        /\ a = Anomaly(gs, Seen(gs, w), r, Flags(gs, w)[r])
  BY <1>1 DEF DetectAnomalies
<1>3. a.rank = r
  BY <1>2 DEF Anomaly
<1> QED
  BY <1>1, <1>2, <1>3, DetectionAssumption

(* The first and the last flagged block, and no fewer between them. *)
LEMMA SpanIs ==
    ASSUME NEW n \in Nat, NEW H, H \subseteq 1..n, H # {}
    PROVE  /\ Min(H) \in H /\ Max(H) \in H /\ \A b \in H : Min(H) <= b /\ b <= Max(H)
           /\ Span(H) \in Nat /\ Span(H) <= Max(H) /\ Span(H) = Max(H) - Min(H) + 1
           /\ Cardinality(H) \in Nat /\ Cardinality(H) <= Span(H)
<1>1. /\ Min(H) \in H /\ Max(H) \in H
      /\ \A b \in H : Min(H) <= b /\ b <= Max(H)
  BY HasMax
<1> DEFINE x == Min(H)
           y == Max(H)
<1>2. x \in Nat /\ y \in Nat /\ x >= 1 /\ x <= y
  <2>1. x \in 1..n /\ y \in 1..n
    BY <1>1
  <2>2. x <= y
    BY <1>1
  <2> HIDE DEF x, y
  <2> QED
    BY <2>1, <2>2
<1>3. H \subseteq x..y
  <2> SUFFICES ASSUME NEW b \in H PROVE b \in x..y
    OBVIOUS
  <2>1. b \in Nat /\ x <= b /\ b <= y
    BY <1>1
  <2> HIDE DEF x, y
  <2> QED
    BY <1>2, <2>1
<1> HIDE DEF x, y
<1>4. IsFiniteSet(x..y) /\ Cardinality(x..y) = IF x > y THEN 0 ELSE y - x + 1
  BY <1>2, FS_Interval
<1>5. Cardinality(H) <= Cardinality(x..y) /\ IsFiniteSet(H)
  BY <1>3, <1>4, FS_Subset
<1>6. Cardinality(H) \in Nat
  BY <1>5, FS_CardinalityType
<1>7. Span(H) = y - x + 1
  BY DEF Span, x, y
<1> QED
  BY <1>1, <1>2, <1>4, <1>5, <1>6, <1>7 DEF x, y

LEMMA AnomalyFits ==
    ASSUME NEW gs, IsHistory(gs), NEW w \in Nat, NEW a \in DetectAnomalies(gs, w)
    PROVE  /\ \A o \in DetectAnomalies(gs, w) : o.rank = a.rank => o = a
           /\ a.startNs \in 1..a.endNs /\ a.endNs \in Nat /\ a.endNs <= Len(gs)
           /\ MinHits * BlockSize <= a.hits /\ a.hits <= a.groups
           /\ a.groups <= Len(gs)
<1> DEFINE S == Seen(gs, w)
           H == Flags(gs, w)[a.rank]
           n == Len(gs)
<1>1. n \in Nat /\ S \subseteq 1..n /\ DOMAIN gs = 1..n
  BY SeenIs DEF IsHistory
<1>2. a.rank \in Rank /\ BlockSize > 0 /\ a = Anomaly(gs, S, a.rank, H) /\ Persistent(H)
  BY AnomalyIs
<1>3. \A o \in DetectAnomalies(gs, w) : o.rank = a.rank => o = a
  BY <1>2, AnomalyIs
<1>4. H \subseteq Blocks(S)
  BY <1>2, FlagsAre
<1>5. BlockSize \in Nat /\ MinHits \in Nat
  BY DetectionAssumption
<1> HIDE DEF S, H, n
<1>6. H # {} /\ Cardinality(H) >= MinHits
  BY <1>2 DEF Persistent
<1>7. Cardinality(S) \in Nat /\ Cardinality(S) <= n
  BY <1>1, PlacesCountUp
<1>8. Cardinality(S) \div BlockSize \in Nat
  BY <1>2, <1>7, WholeBlocks
<1>9. /\ Min(H) \in H /\ Max(H) \in H /\ Min(H) <= Max(H)
      /\ Span(H) \in Nat /\ Span(H) <= Max(H)
      /\ Cardinality(H) \in Nat /\ Cardinality(H) <= Span(H)
  <2>1. H \subseteq 1..(Cardinality(S) \div BlockSize)
    BY <1>4 DEF Blocks
  <2> QED
    BY <1>6, <1>8, <2>1, SpanIs
<1> DEFINE first == Min(H)
           last == Max(H)
           i == Min(Block(S, first))
           j == Max(Block(S, last))
<1>10. /\ first \in Blocks(S) /\ last \in Blocks(S)
       /\ first \in Nat /\ last \in Nat /\ last * BlockSize <= Cardinality(S)
       /\ Block(S, first) \subseteq S /\ Block(S, first) # {}
       /\ Block(S, last) \subseteq S /\ Block(S, last) # {}
  <2>1. first \in Blocks(S) /\ last \in Blocks(S)
    BY <1>4, <1>9
  <2> HIDE DEF first, last
  <2>2. first \in Nat \ {0} /\ Block(S, first) \subseteq S /\ Block(S, first) # {}
    BY <1>1, <1>2, <2>1, BlockIsPart
  <2>3. /\ last \in Nat \ {0} /\ last * BlockSize <= Cardinality(S)
        /\ Block(S, last) \subseteq S /\ Block(S, last) # {}
    BY <1>1, <1>2, <2>1, BlockIsPart
  <2> QED
    BY <2>1, <2>2, <2>3
<1>11. /\ i \in Block(S, first) /\ \A k \in Block(S, first) : i <= k
       /\ j \in Block(S, last) /\ \A k \in Block(S, last) : k <= j
  <2> HIDE DEF first, last
  <2>1. Block(S, first) \subseteq 1..n /\ Block(S, last) \subseteq 1..n
    BY <1>1, <1>10
  <2> QED
    BY <1>1, <1>10, <2>1, HasMax
<1>12. i \in 1..n /\ j \in 1..n
  BY <1>1, <1>10, <1>11
<1>13. i <= j
  <2>1. first \in Nat /\ last \in Nat /\ first <= last
    BY <1>9, <1>10
  <2>2. CASE first = last
    BY <1>11, <2>2
  <2>3. CASE first < last
    <3> HIDE DEF first, last, i, j
    <3>1. i < j
      BY <1>1, <1>2, <1>10, <1>11, <2>3, BlocksInOrder
    <3> QED
      BY <1>12, <3>1
  <2> HIDE DEF first, last
  <2> QED
    BY <2>1, <2>2, <2>3
<1>14. a.startNs = gs[i].ts /\ a.endNs = gs[j].ts
  BY <1>2 DEF Anomaly
<1>15. a.hits = Cardinality(H) * BlockSize /\ a.groups = Span(H) * BlockSize
  BY <1>2 DEF Anomaly
<1>16. gs[i].ts = i /\ gs[j].ts = j
  <2> HIDE DEF i, j
  <2> QED
    BY <1>1, <1>12 DEF IsHistory
<1>17. MinHits * BlockSize <= a.hits
  BY <1>5, <1>6, <1>9, <1>15, Multiples
<1>18. a.hits <= a.groups
  BY <1>9, <1>15, Multiples
<1>19. a.groups <= n
  <2>1. /\ Span(H) * BlockSize <= last * BlockSize
        /\ Span(H) * BlockSize \in Nat /\ last * BlockSize \in Nat
    BY <1>9, <1>10, Multiples
  <2> QED
    BY <1>1, <1>7, <1>10, <1>15, <2>1
<1>20. a.startNs \in 1..a.endNs /\ a.endNs \in Nat /\ a.endNs <= n
  <2> HIDE DEF i, j
  <2> QED
    BY <1>1, <1>12, <1>13, <1>14, <1>16
<1> QED
  BY <1>3, <1>17, <1>18, <1>19, <1>20 DEF n

----------------------------------------------------------------------------
(* Who is reported lags in at least half of its collectives. *)

(* All that a family of sets has from index a to index b. *)
Over(D, a, b) == UNION {D[k] : k \in a..b}

LEMMA OverMore ==
    ASSUME NEW D, NEW a \in Nat, NEW k \in Nat
    PROVE  /\ Over(D, a, a + k - 1) \cup D[a + k] = Over(D, a, a + k)
           /\ Over(D, a, a - 1) = {}
           /\ \A i : i \in Over(D, a, a + k) <=> \E c \in a..(a + k) : i \in D[c]
<1>1. a..(a + k) = (a..(a + k - 1)) \cup {a + k} /\ a..(a - 1) = {}
  OBVIOUS
<1> QED
  BY <1>1 DEF Over

LEMMA DisjointUnion ==
    ASSUME NEW A, NEW B, IsFiniteSet(A), IsFiniteSet(B), A \cap B = {}
    PROVE  Cardinality(A \cup B) = Cardinality(A) + Cardinality(B)
<1>1. Cardinality(A \cup B) = Cardinality(A) + Cardinality(B) - Cardinality(A \cap B)
  BY FS_Union
<1>2. Cardinality(A \cap B) = 0
  BY FS_EmptySet
<1>3. Cardinality(A) \in Nat /\ Cardinality(B) \in Nat
  BY FS_CardinalityType
<1> QED
  BY <1>1, <1>2, <1>3

(* Block by block: D holds a rank's collectives, T those it lagged in, and H  *)
(* the blocks it lagged in half of the time.                                  *)
LEMMA HalfOfAll ==
    ASSUME NEW n \in Nat, NEW D, NEW T, NEW H, NEW a \in Nat, NEW m \in Nat,
           H \subseteq a..(a + m), 
           \A k \in a..(a + m) : /\ D[k] \subseteq 1..n /\ T[k] \subseteq D[k]
                                /\ Cardinality(D[k]) <= BlockSize,
           \A k, l \in a..(a + m) : k < l => D[k] \cap D[l] = {},
           \A k \in H : 2 * Cardinality(T[k]) >= Cardinality(D[k])
    PROVE  2 * Cardinality(Over(T, a, a + m)) + (m + 1) * BlockSize
               >= Cardinality(Over(D, a, a + m)) + Cardinality(H) * BlockSize
<1> DEFINE h(k) == Cardinality({b \in H : b <= a + k - 1})
           du(k) == Cardinality(Over(D, a, a + k - 1))
           tu(k) == Cardinality(Over(T, a, a + k - 1))
           Holds(k) == 2 * tu(k) + k * BlockSize >= du(k) + h(k) * BlockSize
           K == {k \in Nat : k <= m + 1 => Holds(k)}
<1>0. BlockSize \in Nat
  BY DetectionAssumption
<1>1. ASSUME NEW E, E \subseteq 1..n
      PROVE  IsFiniteSet(E) /\ Cardinality(E) \in Nat
  BY <1>1, Numbers
<1>2. ASSUME NEW k \in Nat, k <= m + 1
      PROVE  /\ Over(D, a, a + k - 1) \subseteq 1..n /\ Over(T, a, a + k - 1) \subseteq 1..n
             /\ Over(T, a, a + k - 1) \subseteq Over(D, a, a + k - 1)
             /\ IsFiniteSet({b \in H : b <= a + k - 1})
             /\ h(k) \in Nat /\ du(k) \in Nat /\ tu(k) \in Nat
  <2>1. a..(a + k - 1) \subseteq a..(a + m)
    BY <1>2
  <2>2. /\ Over(D, a, a + k - 1) \subseteq 1..n /\ Over(T, a, a + k - 1) \subseteq 1..n
        /\ Over(T, a, a + k - 1) \subseteq Over(D, a, a + k - 1)
    <3> DEFINE I == a..(a + k - 1)
    <3>1. \A c \in I : D[c] \subseteq 1..n /\ T[c] \subseteq D[c]
      BY <2>1
    <3>2. /\ Over(D, a, a + k - 1) = UNION {D[c] : c \in I}
          /\ Over(T, a, a + k - 1) = UNION {T[c] : c \in I}
      BY DEF Over
    <3> HIDE DEF I
    <3> QED
      BY <3>1, <3>2
  <2>3. IsFiniteSet({b \in H : b <= a + k - 1})
    <3>1. {b \in H : b <= a + k - 1} \subseteq a..(a + m)
      OBVIOUS
    <3>2. IsFiniteSet(a..(a + m))
      <4>1. a \in Int /\ a + m \in Int
        OBVIOUS
      <4> QED
        BY <4>1, FS_Interval
    <3> QED
      BY <3>1, <3>2, FS_Subset
  <2> QED
    BY <1>1, <2>2, <2>3, FS_CardinalityType
<1>3. 0 \in K
  <2>1. Over(D, a, a + 0 - 1) = {} /\ Over(T, a, a + 0 - 1) = {}
    <3>1. a + 0 - 1 = a - 1
      OBVIOUS
    <3> QED
      BY <3>1, OverMore
  <2>2. {b \in H : b <= a + 0 - 1} = {}
    <3>1. \A b \in H : b \in Int /\ b >= a
      OBVIOUS
    <3>2. \A b \in H : ~(b <= a + 0 - 1)
      BY <3>1
    <3> QED
      BY <3>2
  <2>3. tu(0) = 0 /\ du(0) = 0 /\ h(0) = 0
    BY <2>1, <2>2, FS_EmptySet
  <2> HIDE DEF tu, du, h
  <2> QED
    BY <1>0, <2>3
<1>4. ASSUME NEW k \in Nat, k \in K PROVE k + 1 \in K
  <2> DEFINE b == a + k
  <2> SUFFICES ASSUME k + 1 <= m + 1 PROVE Holds(k + 1)
    <3> HIDE DEF Holds
    <3> QED
      OBVIOUS
  <2>1. b \in a..(a + m) /\ a + (k + 1) - 1 = b /\ k <= m + 1
    OBVIOUS
  <2>2. 2 * tu(k) + k * BlockSize >= du(k) + h(k) * BlockSize
    <3>1. Holds(k)
      <4> HIDE DEF Holds
      <4> QED
        BY <1>4, <2>1
    <3> QED
      BY <3>1
  <2>3. Over(D, a, b) = Over(D, a, a + k - 1) \cup D[b] /\ Over(T, a, b) = Over(T, a, a + k - 1) \cup T[b]
    BY OverMore
  <2>4. D[b] \subseteq 1..n /\ T[b] \subseteq D[b] /\ Cardinality(D[b]) <= BlockSize
    BY <2>1
  <2>5. Over(D, a, a + k - 1) \cap D[b] = {}
    <3> SUFFICES ASSUME NEW i \in Over(D, a, a + k - 1), i \in D[b] PROVE FALSE
      OBVIOUS
    <3>1. PICK c \in a..(a + k - 1) : i \in D[c]
      BY DEF Over
    <3>2. c \in a..(a + m) /\ c < b
      BY <2>1, <3>1
    <3> HIDE DEF b
    <3> QED
      BY <2>1, <3>1, <3>2
  <2>6. Over(T, a, a + k - 1) \cap T[b] = {}
    BY <1>2, <2>1, <2>4, <2>5
  <2>7. du(k + 1) = du(k) + Cardinality(D[b])
    <3>0. Over(D, a, a + k - 1) \subseteq 1..n
      BY <1>2, <2>1
    <3> HIDE DEF b
    <3>1. Cardinality(Over(D, a, a + k - 1) \cup D[b]) = Cardinality(Over(D, a, a + k - 1)) + Cardinality(D[b])
      BY <1>1, <2>4, <2>5, <3>0, DisjointUnion
    <3> QED
      BY <2>1, <2>3, <3>1
  <2>8. tu(k + 1) = tu(k) + Cardinality(T[b])
    <3>1. T[b] \subseteq 1..n
      BY <2>4
    <3>0. Over(T, a, a + k - 1) \subseteq 1..n
      BY <1>2, <2>1
    <3> HIDE DEF b
    <3>2. Cardinality(Over(T, a, a + k - 1) \cup T[b]) = Cardinality(Over(T, a, a + k - 1)) + Cardinality(T[b])
      BY <1>1, <2>6, <3>0, <3>1, DisjointUnion
    <3> QED
      BY <2>1, <2>3, <3>2
  <2>9. h(k + 1) = IF b \in H THEN h(k) + 1 ELSE h(k)
    <3> DEFINE Hk == {c \in H : c <= a + k - 1}
    <3>1. b \notin Hk
      OBVIOUS
    <3>2. {c \in H : c <= a + (k + 1) - 1} = IF b \in H THEN Hk \cup {b} ELSE Hk
      <4>1. \A c \in H : c \in Int
        OBVIOUS
      <4>2. \A c \in H : c <= a + (k + 1) - 1 <=> c <= a + k - 1 \/ c = b
        BY <4>1
      <4>3. CASE b \in H
        <5>1. \A c : c \in {x \in H : x <= a + (k + 1) - 1} <=> c \in {x \in H : x <= a + k - 1} \/ c = b
          <6> HIDE DEF b
          <6> QED
            BY <4>2, <4>3
        <5> HIDE DEF b
        <5> QED
          BY <4>3, <5>1
      <4>4. CASE b \notin H
        <5>1. \A c \in H : c <= a + (k + 1) - 1 <=> c <= a + k - 1
          BY <4>2, <4>4
        <5> QED
          BY <4>4, <5>1
      <4> QED
        BY <4>3, <4>4
    <3>3. IsFiniteSet(Hk)
      BY <1>2, <2>1
    <3> HIDE DEF Hk
    <3>4. Cardinality(Hk \cup {b}) = Cardinality(Hk) + 1
      BY <3>1, <3>3, FS_AddElement
    <3> QED
      BY <3>2, <3>4 DEF Hk
  <2>10. /\ tu(k) \in Nat /\ du(k) \in Nat /\ h(k) \in Nat
    BY <1>2, <2>1
  <2>11. Cardinality(D[b]) \in Nat /\ Cardinality(T[b]) \in Nat
    <3>1. T[b] \subseteq 1..n
      BY <2>4
    <3> QED
      BY <1>1, <2>4, <3>1
  <2>12. /\ (k + 1) * BlockSize = k * BlockSize + BlockSize /\ k * BlockSize \in Nat
         /\ (h(k) + 1) * BlockSize = h(k) * BlockSize + BlockSize /\ h(k) * BlockSize \in Nat
    <3> HIDE DEF h
    <3>1. (k + 1) * BlockSize = k * BlockSize + BlockSize /\ k * BlockSize \in Nat
      BY Multiples
    <3>2. (h(k) + 1) * BlockSize = h(k) * BlockSize + BlockSize /\ h(k) * BlockSize \in Nat
      BY <2>10, Multiples
    <3> QED
      BY <3>1, <3>2
  <2>13. b \in H => 2 * Cardinality(T[b]) >= Cardinality(D[b])
    OBVIOUS
  <2> DEFINE hk == h(k)
             tk == tu(k)
             dk == du(k)
             x == Cardinality(D[b])
             y == Cardinality(T[b])
  <2> HIDE DEF h, tu, du, b
  <2>14. CASE b \in H
    <3>1. 2 * y >= x /\ h(k + 1) * BlockSize = hk * BlockSize + BlockSize
      BY <2>9, <2>12, <2>13, <2>14
    <3>2. tu(k + 1) = tk + y /\ du(k + 1) = dk + x
      BY <2>7, <2>8
    <3>3. (k + 1) * BlockSize = k * BlockSize + BlockSize
      BY <2>12
    <3> HIDE DEF hk, tk, dk, x, y
    <3>4. /\ tk \in Nat /\ dk \in Nat /\ x \in Nat /\ y \in Nat
          /\ hk * BlockSize \in Nat /\ k * BlockSize \in Nat
          /\ 2 * tk + k * BlockSize >= dk + hk * BlockSize
      BY <2>2, <2>10, <2>11, <2>12 DEF hk, tk, dk, x, y
    <3> QED
      BY <1>0, <3>1, <3>2, <3>3, <3>4
  <2>15. CASE b \notin H
    <3>1. x <= BlockSize /\ h(k + 1) * BlockSize = hk * BlockSize
      BY <2>4, <2>9, <2>15
    <3>2. tu(k + 1) = tk + y /\ du(k + 1) = dk + x
      BY <2>7, <2>8
    <3>3. (k + 1) * BlockSize = k * BlockSize + BlockSize
      BY <2>12
    <3> HIDE DEF hk, tk, dk, x, y
    <3>4. /\ tk \in Nat /\ dk \in Nat /\ x \in Nat /\ y \in Nat
          /\ hk * BlockSize \in Nat /\ k * BlockSize \in Nat
          /\ 2 * tk + k * BlockSize >= dk + hk * BlockSize
      BY <2>2, <2>10, <2>11, <2>12 DEF hk, tk, dk, x, y
    <3> QED
      BY <1>0, <3>1, <3>2, <3>3, <3>4
  <2> QED
    BY <2>14, <2>15
<1> HIDE DEF K
<1>5. m + 1 \in K
  BY <1>3, <1>4, SetInduction
<1>6. 2 * tu(m + 1) + (m + 1) * BlockSize >= du(m + 1) + h(m + 1) * BlockSize
  <2>1. Holds(m + 1)
    <3> HIDE DEF Holds
    <3> QED
      BY <1>5 DEF K
  <2> QED
    BY <2>1
<1>7. a + (m + 1) - 1 = a + m
  OBVIOUS
<1>8. {b \in H : b <= a + m} = H
  <2>1. \A b \in H : b <= a + m
    OBVIOUS
  <2> QED
    BY <2>1
<1>9. /\ tu(m + 1) = Cardinality(Over(T, a, a + m)) /\ du(m + 1) = Cardinality(Over(D, a, a + m))
      /\ h(m + 1) = Cardinality(H)
  BY <1>7, <1>8
<1> HIDE DEF tu, du, h
<1> QED
  BY <1>6, <1>9

(* The collectives of rank r in block b of S, and those it lagged in. *)
MineIn(gs, S, r, b) == {i \in Block(S, b) : r \in DOMAIN gs[i].dur}
LateIn(gs, S, r, b) == {i \in MineIn(gs, S, r, b) : Lag(gs[i], r) > 0}

LEMMA ReportedLags ==
    ASSUME NEW gs, IsHistory(gs), NEW w \in Nat, NEW a \in DetectAnomalies(gs, w)
    PROVE  LET mine == {i \in a.startNs..a.endNs :
                            /\ a.rank \in DOMAIN gs[i].dur
                            /\ Cardinality(DOMAIN gs[i].dur) >= MinRanks}
               late == {i \in mine : Lag(gs[i], a.rank) > 0}
           IN  /\ a.startNs >= Len(gs) - w
               /\ 2 * Cardinality(late) >= Cardinality(mine) - (a.groups - a.hits)
<1> DEFINE S == Seen(gs, w)
           r == a.rank
           H == Flags(gs, w)[r]
           n == Len(gs)
           first == Min(H)
           last == Max(H)
           i1 == Min(Block(S, first))
           i2 == Max(Block(S, last))
           mine == {i \in a.startNs..a.endNs : /\ r \in DOMAIN gs[i].dur
                                              /\ Cardinality(DOMAIN gs[i].dur) >= MinRanks}
           late == {i \in mine : Lag(gs[i], r) > 0}
<1>1. n \in Nat /\ S \subseteq 1..n /\ DOMAIN gs = 1..n
  BY SeenIs DEF IsHistory
<1>2. r \in Rank /\ BlockSize > 0 /\ a = Anomaly(gs, S, r, H) /\ Persistent(H)
  BY AnomalyIs
<1>3. /\ H \subseteq Blocks(S)
      /\ \A b \in H : r \in Flagged(PerRank(gs, Block(S, b)), Floor400(gs))
  BY <1>2, FlagsAre
<1>4. BlockSize \in Nat
  BY DetectionAssumption
<1>5. \A i \in 1..n : i \in S <=> Cardinality(DOMAIN gs[i].dur) >= MinRanks /\ i >= n - w
  BY <1>1, SeenIs
<1>6. a.startNs \in 1..a.endNs /\ a.endNs \in Nat /\ a.endNs <= n
  BY AnomalyFits
<1> HIDE DEF S, H, n, r
<1>7. H # {}
  BY <1>2 DEF Persistent
<1>8. Cardinality(S) \in Nat /\ Cardinality(S) \div BlockSize \in Nat
  BY <1>1, <1>2, PlacesCountUp, WholeBlocks
<1>9. /\ first \in H /\ last \in H /\ \A b \in H : first <= b /\ b <= last
      /\ Span(H) = last - first + 1 /\ Cardinality(H) \in Nat
  <2>1. H \subseteq 1..(Cardinality(S) \div BlockSize)
    BY <1>3 DEF Blocks
  <2> QED
    BY <1>7, <1>8, <2>1, SpanIs
<1> HIDE DEF first, last
<1>10. /\ first \in Blocks(S) /\ last \in Blocks(S)
       /\ first \in Nat /\ last \in Nat /\ first >= 1 /\ first <= last
       /\ first..last \subseteq Blocks(S)
  <2>1. first \in 1..(Cardinality(S) \div BlockSize) /\ last \in 1..(Cardinality(S) \div BlockSize)
    BY <1>3, <1>9 DEF Blocks
  <2>2. first <= last
    BY <1>9
  <2> QED
    BY <1>8, <2>1, <2>2 DEF Blocks
<1>11. \A b \in Blocks(S) :
           /\ b \in Nat /\ Block(S, b) \subseteq S /\ Block(S, b) # {}
           /\ IsFiniteSet(Block(S, b)) /\ Cardinality(Block(S, b)) <= BlockSize
  BY <1>1, <1>2, BlockIsPart
<1>12. /\ i1 \in Block(S, first) /\ \A k \in Block(S, first) : i1 <= k
       /\ i2 \in Block(S, last) /\ \A k \in Block(S, last) : k <= i2
  <2>1. Block(S, first) \subseteq 1..n /\ Block(S, last) \subseteq 1..n
    BY <1>1, <1>10, <1>11
  <2> QED
    BY <1>1, <1>10, <1>11, <2>1, HasMax
<1>13. i1 \in S /\ i2 \in S
  BY <1>10, <1>11, <1>12
<1>14. a.startNs = i1 /\ a.endNs = i2
  <2>1. a.startNs = gs[i1].ts /\ a.endNs = gs[i2].ts
    BY <1>2 DEF Anomaly, first, last
  <2> HIDE DEF i1, i2
  <2>2. gs[i1].ts = i1 /\ gs[i2].ts = i2
    BY <1>1, <1>13 DEF IsHistory
  <2> QED
    BY <2>1, <2>2
<1>15. a.groups = Span(H) * BlockSize /\ a.hits = Cardinality(H) * BlockSize
  BY <1>2 DEF Anomaly
<1>16. a.startNs >= n - w
  <2> HIDE DEF i1
  <2> QED
    BY <1>1, <1>5, <1>13, <1>14
<1> DEFINE D == [b \in first..last |-> MineIn(gs, S, r, b)]
           T == [b \in first..last |-> LateIn(gs, S, r, b)]
           m == last - first
<1>17. m \in Nat /\ first + m = last
  BY <1>10
<1>18. ASSUME NEW b \in first..last
       PROVE  /\ D[b] \subseteq 1..n /\ T[b] \subseteq D[b] /\ Cardinality(D[b]) <= BlockSize
              /\ b \in H => 2 * Cardinality(T[b]) >= Cardinality(D[b])
  <2>1. b \in Blocks(S)
    BY <1>10
  <2>2. D[b] = {i \in Block(S, b) : r \in DOMAIN gs[i].dur} /\ D[b] \subseteq Block(S, b)
    BY DEF MineIn
  <2>3. T[b] = {i \in D[b] : Lag(gs[i], r) > 0}
    BY DEF LateIn
  <2> HIDE DEF D, T
  <2>4. D[b] \subseteq 1..n /\ T[b] \subseteq D[b]
    BY <1>1, <1>11, <2>1, <2>2, <2>3
  <2>5. Cardinality(D[b]) <= BlockSize
    <3>1. Cardinality(D[b]) <= Cardinality(Block(S, b)) /\ IsFiniteSet(D[b])
      BY <1>11, <2>1, <2>2, FS_Subset
    <3>2. Cardinality(D[b]) \in Nat /\ Cardinality(Block(S, b)) \in Nat
      BY <1>11, <2>1, <3>1, FS_CardinalityType
    <3> QED
      BY <1>4, <1>11, <2>1, <3>1, <3>2
  <2>6. ASSUME b \in H PROVE 2 * Cardinality(T[b]) >= Cardinality(D[b])
    <3> DEFINE lags == PerRank(gs, Block(S, b))
    <3>1. r \in Flagged(lags, Floor400(gs))
      BY <1>3, <2>6
    <3>2. Block(S, b) \subseteq DOMAIN gs
      BY <1>1, <1>11, <2>1
    <3>3. /\ IsLags(lags) /\ DOMAIN lags[r] = D[b]
          /\ \A i \in D[b] : lags[r][i] = Lag(gs[i], r)
      BY <1>2, <2>2, <3>2, LagsOfBlock
    <3> HIDE DEF lags
    <3>4. 2 * Cardinality({i \in DOMAIN lags[r] : lags[r][i] > 0}) >= Cardinality(DOMAIN lags[r])
      BY <3>1, <3>3, FlaggedLags
    <3>5. {i \in DOMAIN lags[r] : lags[r][i] > 0} = T[b]
      BY <2>3, <3>3
    <3> QED
      BY <3>3, <3>4, <3>5
  <2> QED
    BY <2>4, <2>5, <2>6
<1>19. ASSUME NEW k \in first..last, NEW l \in first..last, k < l PROVE D[k] \cap D[l] = {}
  <2> SUFFICES ASSUME NEW i \in D[k], i \in D[l] PROVE FALSE
    OBVIOUS
  <2>1. i \in Block(S, k) /\ i \in Block(S, l)
    BY DEF MineIn
  <2>2. k \in Blocks(S) /\ l \in Blocks(S)
    BY <1>10
  <2>3. i < i
    BY <1>1, <1>2, <1>19, <2>1, <2>2, BlocksInOrder
  <2>4. i \in Nat
    <3>1. i \in S
      BY <1>11, <2>1, <2>2
    <3> QED
      BY <1>1, <3>1
  <2> QED
    BY <2>3, <2>4
<1>20. H \subseteq first..last
  <2> SUFFICES ASSUME NEW b \in H PROVE b \in first..last
    OBVIOUS
  <2>1. b \in Nat /\ first <= b /\ b <= last
    BY <1>3, <1>9, <1>11
  <2> QED
    BY <1>10, <2>1
<1> HIDE DEF D, T
<1>21. 2 * Cardinality(Over(T, first, last)) + (m + 1) * BlockSize
           >= Cardinality(Over(D, first, last)) + Cardinality(H) * BlockSize
  <2> HIDE DEF m
  <2>1. H \subseteq first..(first + m)
    BY <1>17, <1>20
  <2>2. \A k \in first..(first + m) : /\ D[k] \subseteq 1..n /\ T[k] \subseteq D[k]
                                      /\ Cardinality(D[k]) <= BlockSize
    BY <1>17, <1>18
  <2>3. \A k, l \in first..(first + m) : k < l => D[k] \cap D[l] = {}
    BY <1>17, <1>19
  <2>4. \A k \in H : 2 * Cardinality(T[k]) >= Cardinality(D[k])
    BY <1>18, <1>20
  <2>5. 2 * Cardinality(Over(T, first, first + m)) + (m + 1) * BlockSize
           >= Cardinality(Over(D, first, first + m)) + Cardinality(H) * BlockSize
    BY <1>1, <1>10, <1>17, <2>1, <2>2, <2>3, <2>4, HalfOfAll
  <2> QED
    BY <1>17, <2>5
<1>22. /\ mine \subseteq Over(D, first, last) /\ Over(D, first, last) \subseteq 1..n
  <2>1. ASSUME NEW i \in mine PROVE i \in Over(D, first, last)
    <3>1. i \in 1..n /\ i >= n - w /\ i1 <= i /\ i <= i2
      <4> HIDE DEF i1, i2
      <4>1. a.startNs \in Nat /\ a.startNs >= 1 /\ a.endNs \in Nat /\ a.endNs <= n
        BY <1>6
      <4>2. i \in Nat /\ a.startNs <= i /\ i <= a.endNs
        BY <2>1, <4>1
      <4> QED
        BY <1>1, <1>14, <1>16, <4>1, <4>2
    <3>2. i \in S /\ r \in DOMAIN gs[i].dur
      BY <1>5, <2>1, <3>1
    <3>3. PICK c \in first..last : i \in Block(S, c)
      BY <1>1, <1>2, <1>10, <3>1, <3>2, BetweenBlocks
    <3>4. i \in D[c]
      BY <3>2, <3>3 DEF D, MineIn
    <3> QED
      BY <3>4 DEF Over
  <2>2. Over(D, first, last) \subseteq 1..n
    BY <1>18 DEF Over
  <2> HIDE DEF mine
  <2> QED
    BY <2>1, <2>2
<1>23. Over(T, first, last) \subseteq late
  <2> SUFFICES ASSUME NEW i \in Over(T, first, last) PROVE i \in late
    OBVIOUS
  <2>1. PICK c \in first..last : i \in T[c]
    BY DEF Over
  <2>2. i \in Block(S, c) /\ r \in DOMAIN gs[i].dur /\ Lag(gs[i], r) > 0
    BY <2>1 DEF T, LateIn, MineIn
  <2>3. c \in Blocks(S) /\ i \in S
    BY <1>10, <1>11, <2>2
  <2>4. i \in 1..n /\ Cardinality(DOMAIN gs[i].dur) >= MinRanks
    BY <1>1, <1>5, <2>3
  <2>5. i1 \in Nat /\ i2 \in Nat
    <3> HIDE DEF i1, i2
    <3> QED
      BY <1>1, <1>13
  <2>6. i1 <= i
    <3>1. CASE c = first
      BY <1>12, <2>2, <3>1
    <3>2. CASE first < c
      <4> HIDE DEF i1
      <4>1. i1 < i
        BY <1>1, <1>2, <1>10, <1>12, <2>2, <2>3, <3>2, BlocksInOrder
      <4> QED
        BY <2>4, <2>5, <4>1
    <3> QED
      BY <1>10, <3>1, <3>2
  <2>7. i <= i2
    <3>1. CASE c = last
      BY <1>12, <2>2, <3>1
    <3>2. CASE c < last
      <4> HIDE DEF i2
      <4>1. i < i2
        BY <1>1, <1>2, <1>10, <1>12, <2>2, <2>3, <3>2, BlocksInOrder
      <4> QED
        BY <2>4, <2>5, <4>1
    <3> QED
      BY <1>10, <3>1, <3>2
  <2> HIDE DEF i1, i2
  <2>8. i \in a.startNs..a.endNs
    BY <1>14, <2>4, <2>5, <2>6, <2>7
  <2> QED
    BY <2>2, <2>4, <2>8
<1>24. /\ Cardinality(mine) <= Cardinality(Over(D, first, last))
       /\ Cardinality(Over(T, first, last)) <= Cardinality(late)
       /\ Cardinality(mine) \in Nat /\ Cardinality(Over(D, first, last)) \in Nat
       /\ Cardinality(late) \in Nat /\ Cardinality(Over(T, first, last)) \in Nat
  <2>1. late \subseteq mine
    OBVIOUS
  <2> HIDE DEF mine, late
  <2>2. IsFiniteSet(Over(D, first, last))
    BY <1>1, <1>22, Numbers
  <2>3. IsFiniteSet(mine) /\ Cardinality(mine) <= Cardinality(Over(D, first, last))
    BY <1>22, <2>2, FS_Subset
  <2>4. IsFiniteSet(late)
    BY <2>1, <2>3, FS_Subset
  <2>5. IsFiniteSet(Over(T, first, last)) /\ Cardinality(Over(T, first, last)) <= Cardinality(late)
    BY <1>23, <2>4, FS_Subset
  <2> QED
    BY <2>2, <2>3, <2>4, <2>5, FS_CardinalityType
<1>25. 2 * Cardinality(late) >= Cardinality(mine) - (a.groups - a.hits)
  <2>1. a.groups = (m + 1) * BlockSize /\ a.groups \in Nat /\ a.hits \in Nat
    <3>1. Span(H) = m + 1 /\ m + 1 \in Nat
      BY <1>9, <1>10, <1>17
    <3>2. (m + 1) * BlockSize \in Nat /\ Cardinality(H) * BlockSize \in Nat
      BY <1>9, <3>1, Multiples
    <3> QED
      BY <1>15, <3>1, <3>2
  <2>2. /\ Cardinality(mine) <= Cardinality(Over(D, first, last))
        /\ Cardinality(Over(T, first, last)) <= Cardinality(late)
    BY <1>24
  <2>3. 2 * Cardinality(Over(T, first, last)) + a.groups >= Cardinality(Over(D, first, last)) + a.hits
    BY <1>15, <1>21, <2>1
  <2> HIDE DEF mine, late, m
  <2> QED
    BY <1>24, <2>1, <2>3
<1> QED
  BY <1>16, <1>25 DEF n, r

----------------------------------------------------------------------------
(* What makes a rank later cannot unflag it. *)

(* In hs rank r waited no longer than in gs: it arrived no earlier. The rest  *)
(* is the same, and so is how long the last to arrive kept the others.        *)
LaterIn(gs, hs, r) ==
    /\ DOMAIN hs = DOMAIN gs /\ Len(hs) = Len(gs)
    /\ \A i \in DOMAIN gs :
           /\ hs[i].ts = gs[i].ts /\ DOMAIN hs[i].dur = DOMAIN gs[i].dur
           /\ Max(Range(hs[i].dur)) = Max(Range(gs[i].dur))
           /\ \A p \in DOMAIN gs[i].dur :
                  /\ hs[i].dur[p] <= gs[i].dur[p]
                  /\ p # r => hs[i].dur[p] = gs[i].dur[p]

LEMMA Products ==
    ASSUME NEW a \in Nat, NEW b \in Nat, NEW c \in Nat, NEW d \in Nat, a <= b, c <= d
    PROVE  a * c \in Nat /\ b * d \in Nat /\ a * c <= b * d
<1>1. a * c <= b * c
  OBVIOUS
<1>2. b * c <= b * d
  OBVIOUS
<1> QED
  BY <1>1, <1>2

(* More excess over less noise exceeds the threshold all the more. *)
LEMMA ExceedsMore ==
    ASSUME NEW x \in Int, NEW y \in Int, NEW n \in Nat, NEW s \in Nat, NEW t \in Nat,
           x <= y, t <= s, Exceeds(x, n, s)
    PROVE  Exceeds(y, n, t)
<1> DEFINE T == ThresholdSigma
<1>1. T \in Nat
  BY DetectionAssumption
<1>2. x > 0 /\ 6400 * x * x * n > (T * s) * (T * s)
  BY DEF Exceeds
<1> HIDE DEF T
<1>3. x \in Nat /\ y \in Nat /\ y > 0
  BY <1>2
<1>4. 6400 * x \in Nat /\ 6400 * y \in Nat /\ 6400 * x <= 6400 * y
  BY <1>3
<1>5. 6400 * x * x \in Nat /\ 6400 * y * y \in Nat /\ 6400 * x * x <= 6400 * y * y
  <2> DEFINE a == 6400 * x
             b == 6400 * y
  <2> HIDE DEF a, b
  <2>1. a \in Nat /\ b \in Nat /\ a <= b
    BY <1>4 DEF a, b
  <2>2. a * x \in Nat /\ b * y \in Nat /\ a * x <= b * y
    BY <1>3, <2>1, Products
  <2> QED
    BY <2>2 DEF a, b
<1>6. 6400 * x * x * n \in Nat /\ 6400 * y * y * n \in Nat /\ 6400 * x * x * n <= 6400 * y * y * n
  <2> DEFINE a == 6400 * x * x
             b == 6400 * y * y
  <2> HIDE DEF a, b
  <2>1. a \in Nat /\ b \in Nat /\ a <= b /\ n <= n
    BY <1>5 DEF a, b
  <2>2. a * n \in Nat /\ b * n \in Nat /\ a * n <= b * n
    BY <2>1, Products
  <2> QED
    BY <2>2 DEF a, b
<1>7. T * t \in Nat /\ T * s \in Nat /\ T * t <= T * s
  <2>1. T <= T
    BY <1>1
  <2> QED
    BY <1>1, <2>1, Products
<1>8. (T * t) * (T * t) \in Nat /\ (T * s) * (T * s) \in Nat /\ (T * t) * (T * t) <= (T * s) * (T * s)
  BY <1>7, Products
<1>9. 6400 * y * y * n > (T * t) * (T * t)
  <2> DEFINE a == 6400 * x * x * n
             b == 6400 * y * y * n
             c == (T * t) * (T * t)
             d == (T * s) * (T * s)
  <2>1. a \in Nat /\ b \in Nat /\ c \in Nat /\ d \in Nat /\ a <= b /\ c <= d /\ a > d
    BY <1>2, <1>6, <1>8
  <2> HIDE DEF a, b, c, d
  <2>2. b > c
    BY <2>1
  <2> QED
    BY <2>2 DEF b, c
<1> QED
  BY <1>3, <1>9 DEF Exceeds, T

LEMMA LargerOfTwo ==
    ASSUME NEW a \in Nat, NEW b \in Nat
    PROVE  Max({a, b}) = IF a >= b THEN a ELSE b
<1>1. CASE a >= b
  BY <1>1 DEF Max
<1>2. CASE ~(a >= b)
  BY <1>2 DEF Max
<1> QED
  BY <1>1, <1>2

(* A block in which r alone lags more, with no higher a floor. *)
LEMMA StaysFlagged ==
    ASSUME NEW lags, NEW more, IsLags(lags), IsLags(more), NEW r \in Rank,
           \A p \in Rank : DOMAIN more[p] = DOMAIN lags[p] /\ (p # r => more[p] = lags[p]),
           \A i \in DOMAIN lags[r] : lags[r][i] <= more[r][i],
           NEW f \in Nat, NEW g \in Nat, g <= f, r \in Flagged(lags, f)
    PROVE  r \in Flagged(more, g)
<1> DEFINE m1 == Medians(lags)
           m2 == Medians(more)
           D == DOMAIN m1
           S == D \ {r}
           o1 == Median2(Restrict(m1, S))
           o2 == Median2(Restrict(m2, S))
           s1 == MAD4(Pooled(lags, S))
           s2 == MAD4(Pooled(more, S))
           n == Number(lags[r])
<1>1. /\ r \in D /\ D # {r}
      /\ Exceeds(2 * m1[r] - o1, n, Max({148 * s1, f}))
  BY DEF Flagged, Excess4, NoisyOf
<1>2. DOMAIN m2 = D
  <2>1. \A p \in Rank : Number(more[p]) = Number(lags[p])
    BY DEF Number
  <2>2. /\ DOMAIN m1 = {p \in Rank : Number(lags[p]) > 0 /\ Number(lags[p]) >= BlockSize \div 2}
        /\ DOMAIN m2 = {p \in Rank : Number(more[p]) > 0 /\ Number(more[p]) >= BlockSize \div 2}
    BY DEF Medians
  <2> QED
    BY <2>1, <2>2
<1>3. /\ D \subseteq Rank /\ S \subseteq Rank
      /\ \A p \in D : m1[p] = Median2(lags[p]) /\ m2[p] = Median2(more[p])
      /\ \A p \in D : m1[p] \in Nat /\ m2[p] \in Nat
  <2>1. /\ D \subseteq Rank /\ m1 \in [D -> Nat]
        /\ \A p \in D : m1[p] = Median2(lags[p])
    BY MediansAre
  <2>2. /\ m2 \in [DOMAIN m2 -> Nat]
        /\ \A p \in DOMAIN m2 : m2[p] = Median2(more[p])
    BY MediansAre
  <2> HIDE DEF m1, m2
  <2> QED
    BY <1>2, <2>1, <2>2
<1>4. o1 \in Nat /\ s1 \in Nat
  BY <1>1, PeersAre DEF NoisyOf
<1>5. o2 = o1
  <2>1. \A p \in S : m2[p] = m1[p]
    BY <1>3
  <2> HIDE DEF m1, m2, S
  <2>2. Restrict(m2, S) = Restrict(m1, S)
    BY <2>1 DEF Restrict
  <2> QED
    BY <2>2
<1>6. s2 = s1
  <2>1. \A p \in S : more[p] = lags[p]
    BY <1>3
  <2> DEFINE E == UNION {{p} \X DOMAIN lags[p] : p \in S}
             E2 == UNION {{p} \X DOMAIN more[p] : p \in S}
  <2>2. E2 = E
    <3> HIDE DEF S
    <3> QED
      BY <2>1
  <2>3. \A e \in E : more[e[1]][e[2]] = lags[e[1]][e[2]]
    <3> SUFFICES ASSUME NEW e \in E PROVE more[e[1]] = lags[e[1]]
      OBVIOUS
    <3>1. PICK p \in S : e \in {p} \X DOMAIN lags[p]
      OBVIOUS
    <3>2. e[1] = p
      BY <3>1
    <3> QED
      BY <2>1, <3>2
  <2>4. Pooled(lags, S) = [e \in E |-> lags[e[1]][e[2]]] /\ Pooled(more, S) = [e \in E2 |-> more[e[1]][e[2]]]
    BY DEF Pooled
  <2> HIDE DEF E, E2
  <2>5. Pooled(more, S) = Pooled(lags, S)
    BY <2>2, <2>3, <2>4
  <2> QED
    BY <2>5
<1>7. m1[r] <= m2[r]
  <2>1. IsFiniteSet(DOMAIN lags[r]) /\ lags[r] \in [DOMAIN lags[r] -> Nat] /\ more[r] \in [DOMAIN lags[r] -> Nat]
    BY LagsAreFinite
  <2>2. Median2(lags[r]) <= Median2(more[r])
    BY <2>1, MedianGrows
  <2> QED
    BY <1>1, <1>3, <2>2
<1>8. Number(more[r]) = n /\ n \in Nat
  <2>1. IsFiniteSet(DOMAIN lags[r])
    BY LagsAreFinite
  <2> QED
    BY <2>1, FS_CardinalityType DEF Number
<1>9. m1[r] \in Nat /\ m2[r] \in Nat
  BY <1>1, <1>3
<1>10. Exceeds(2 * m2[r] - o2, n, Max({148 * s2, g}))
  <2> HIDE DEF m1, m2, o1, o2, s1, s2, n
  <2>1. /\ 2 * m1[r] - o1 \in Int /\ 2 * m2[r] - o2 \in Int
        /\ 2 * m1[r] - o1 <= 2 * m2[r] - o2
    BY <1>4, <1>5, <1>7, <1>9
  <2>2. /\ Max({148 * s1, f}) \in Nat /\ Max({148 * s2, g}) \in Nat
        /\ Max({148 * s2, g}) <= Max({148 * s1, f})
    <3>1. 148 * s1 \in Nat /\ 148 * s2 = 148 * s1
      BY <1>4, <1>6
    <3> DEFINE u == 148 * s1
    <3> HIDE DEF u
    <3>2. Max({u, f}) = (IF u >= f THEN u ELSE f) /\ Max({u, g}) = IF u >= g THEN u ELSE g
      BY <3>1, LargerOfTwo DEF u
    <3>3. u \in Nat
      BY <3>1 DEF u
    <3>4. Max({u, f}) \in Nat /\ Max({u, g}) \in Nat /\ Max({u, g}) <= Max({u, f})
      BY <3>2, <3>3
    <3> QED
      BY <3>1, <3>4 DEF u
  <2> QED
    BY <1>1, <1>8, <2>1, <2>2, ExceedsMore
<1> QED
  BY <1>1, <1>2, <1>8, <1>10 DEF Flagged, Excess4, NoisyOf

(* The floor of the noise: it needs no more than the reported durations. *)
LEMMA FloorIs ==
    ASSUME NEW gs, IsHistory(gs)
    PROVE  LET reports == {e \in Rank \X Enough(gs) : e[1] \in DOMAIN gs[e[2]].dur}
               v == [e \in reports |-> gs[e[2]].dur[e[1]]]
           IN  /\ IsFiniteSet(reports) /\ v \in [reports -> Nat]
               /\ Floor400(gs) = 10 * Median2(v) /\ Floor400(gs) \in Nat
<1> DEFINE reports == {e \in Rank \X Enough(gs) : e[1] \in DOMAIN gs[e[2]].dur}
           v == [e \in reports |-> gs[e[2]].dur[e[1]]]
<1>1. Enough(gs) \subseteq 1..Len(gs) /\ Len(gs) \in Nat
  BY DEF Enough, IsHistory
<1>2. IsFiniteSet(reports)
  <2>1. IsFiniteSet(Enough(gs))
    BY <1>1, Numbers
  <2>2. IsFiniteSet(Rank \X Enough(gs))
    BY <2>1, DetectionAssumption, FS_Product
  <2>3. reports \subseteq Rank \X Enough(gs)
    OBVIOUS
  <2> HIDE DEF reports
  <2> QED
    BY <2>2, <2>3, FS_Subset
<1>3. v \in [reports -> Nat]
  <2> SUFFICES ASSUME NEW e \in reports PROVE gs[e[2]].dur[e[1]] \in Nat
    OBVIOUS
  <2>1. e[2] \in DOMAIN gs /\ e[1] \in DOMAIN gs[e[2]].dur
    BY DEF Enough
  <2>2. IsGroup(gs[e[2]])
    BY <2>1 DEF IsHistory
  <2> QED
    BY <2>1, <2>2 DEF IsGroup
<1>4. Floor400(gs) = 10 * Median2(v)
  BY DEF Floor400
<1>5. Median2(v) \in Nat
  <2> HIDE DEF reports, v
  <2> QED
    BY <1>2, <1>3, MedianIsNat
<1> HIDE DEF reports, v
<1>6. Floor400(gs) \in Nat
  BY <1>4, <1>5
<1> QED
  BY <1>2, <1>3, <1>4, <1>6 DEF reports, v

LEMMA FloorIsLower ==
    ASSUME NEW gs, IsHistory(gs), NEW hs, IsHistory(hs), NEW r, LaterIn(gs, hs, r)
    PROVE  /\ Enough(hs) = Enough(gs) /\ Floor400(hs) <= Floor400(gs)
           /\ Floor400(hs) \in Nat /\ Floor400(gs) \in Nat
<1> DEFINE R(xs) == {e \in Rank \X Enough(xs) : e[1] \in DOMAIN xs[e[2]].dur}
           V(xs) == [e \in R(xs) |-> xs[e[2]].dur[e[1]]]
<1>1. Enough(hs) = Enough(gs)
  BY DEF Enough, LaterIn
<1>2. \A i \in Enough(gs) : i \in DOMAIN gs
  BY DEF Enough
<1>3. R(hs) = R(gs)
  BY <1>1, <1>2 DEF LaterIn
<1>4. IsFiniteSet(R(gs)) /\ V(gs) \in [R(gs) -> Nat] /\ Floor400(gs) = 10 * Median2(V(gs)) /\ Floor400(gs) \in Nat
  BY FloorIs
<1>5. IsFiniteSet(R(hs)) /\ V(hs) \in [R(hs) -> Nat] /\ Floor400(hs) = 10 * Median2(V(hs)) /\ Floor400(hs) \in Nat
  BY FloorIs
<1>6. ASSUME NEW e \in R(gs) PROVE V(hs)[e] <= V(gs)[e]
  <2>1. e[2] \in DOMAIN gs /\ e[1] \in DOMAIN gs[e[2]].dur
    BY <1>2
  <2>2. hs[e[2]].dur[e[1]] <= gs[e[2]].dur[e[1]]
    BY <2>1 DEF LaterIn
  <2>3. e \in R(hs)
    BY <1>3
  <2> QED
    BY <2>2, <2>3
<1> HIDE DEF R, V
<1>7. Median2(V(hs)) <= Median2(V(gs))
  BY <1>3, <1>4, <1>5, <1>6, MedianGrows
<1>8. Median2(V(hs)) \in Nat /\ Median2(V(gs)) \in Nat
  BY <1>4, <1>5, MedianIsNat
<1> QED
  BY <1>1, <1>4, <1>5, <1>7, <1>8

LEMMA LaterStaysFlagged ==
    ASSUME NEW gs, IsHistory(gs), NEW hs, IsHistory(hs), NEW r \in Rank, LaterIn(gs, hs, r),
           NEW w \in Nat, NEW b \in Flags(gs, w)[r]
    PROVE  b \in Flags(hs, w)[r]
<1>1. Seen(hs, w) = Seen(gs, w)
  <2>1. Enough(hs) = Enough(gs)
    BY FloorIsLower
  <2>2. \A i \in Enough(gs) : i \in DOMAIN gs /\ Len(gs) \in DOMAIN gs
    <3> SUFFICES ASSUME NEW i \in Enough(gs) PROVE i \in DOMAIN gs /\ Len(gs) \in DOMAIN gs
      OBVIOUS
    <3>1. i \in DOMAIN gs /\ Len(gs) \in Nat /\ DOMAIN gs = 1..Len(gs)
      BY DEF Enough, IsHistory
    <3> QED
      BY <3>1
  <2> QED
    BY <2>1, <2>2 DEF Seen, LaterIn
<1> DEFINE S == Seen(gs, w)
           B == Block(S, b)
<1>2. b \in Blocks(S) /\ r \in Flagged(PerRank(gs, B), Floor400(gs))
  BY FlagsAre
<1>3. B \subseteq DOMAIN gs
  <2>1. S \subseteq DOMAIN gs
    BY DEF Seen, Enough
  <2> QED
    BY <2>1 DEF Block
<1>4. DOMAIN hs = DOMAIN gs
  BY DEF LaterIn
<1> DEFINE lags == PerRank(gs, B)
           more == PerRank(hs, B)
<1> HIDE DEF S, B
<1>5. /\ IsLags(lags)
      /\ \A p \in Rank : /\ DOMAIN lags[p] = {i \in B : p \in DOMAIN gs[i].dur}
                         /\ \A i \in DOMAIN lags[p] : lags[p][i] = Lag(gs[i], p)
  BY <1>3, LagsOfBlock
<1>6. /\ IsLags(more)
      /\ \A p \in Rank : /\ DOMAIN more[p] = {i \in B : p \in DOMAIN hs[i].dur}
                         /\ \A i \in DOMAIN more[p] : more[p][i] = Lag(hs[i], p)
  BY <1>3, <1>4, LagsOfBlock
<1> HIDE DEF lags, more
<1>7. \A p \in Rank : DOMAIN more[p] = DOMAIN lags[p]
  <2>1. \A i \in B : DOMAIN hs[i].dur = DOMAIN gs[i].dur
    BY <1>3 DEF LaterIn
  <2> QED
    BY <1>5, <1>6, <2>1
<1>8. ASSUME NEW p \in Rank, NEW i \in DOMAIN lags[p]
      PROVE  /\ lags[p][i] <= more[p][i]
             /\ p # r => more[p][i] = lags[p][i]
  <2>1. i \in DOMAIN gs /\ p \in DOMAIN gs[i].dur
    BY <1>3, <1>5
  <2>2. lags[p][i] = Max(Range(gs[i].dur)) - gs[i].dur[p]
    BY <1>5 DEF Lag
  <2>3. more[p][i] = Max(Range(hs[i].dur)) - hs[i].dur[p]
    BY <1>6, <1>7 DEF Lag
  <2>4. /\ Max(Range(hs[i].dur)) = Max(Range(gs[i].dur))
        /\ hs[i].dur[p] <= gs[i].dur[p] /\ (p # r => hs[i].dur[p] = gs[i].dur[p])
    BY <2>1 DEF LaterIn
  <2>5. IsGroup(gs[i]) /\ IsGroup(hs[i]) /\ DOMAIN hs[i].dur = DOMAIN gs[i].dur
    BY <1>4, <2>1 DEF IsHistory, LaterIn
  <2>6. Max(Range(gs[i].dur)) \in Nat /\ gs[i].dur[p] \in Nat /\ hs[i].dur[p] \in Nat
    BY <2>1, <2>5, LongestIs
  <2> QED
    BY <2>2, <2>3, <2>4, <2>6
<1>9. \A p \in Rank : p # r => more[p] = lags[p]
  <2> SUFFICES ASSUME NEW p \in Rank, p # r PROVE more[p] = lags[p]
    OBVIOUS
  <2>1. lags[p] \in [DOMAIN lags[p] -> Nat] /\ more[p] \in [DOMAIN more[p] -> Nat]
    BY <1>5, <1>6, LagsAreFinite
  <2> QED
    BY <1>7, <1>8, <2>1
<1>10. /\ Floor400(hs) <= Floor400(gs) /\ Floor400(hs) \in Nat /\ Floor400(gs) \in Nat
  BY FloorIsLower
<1>11. r \in Flagged(more, Floor400(hs))
  BY <1>2, <1>5, <1>6, <1>7, <1>8, <1>9, <1>10, StaysFlagged DEF lags
<1> QED
  BY <1>1, <1>2, <1>11, FlagsAre DEF more, B, S

LEMMA ShorterWait ==
    ASSUME NEW g, IsGroup(g), NEW r \in DOMAIN g.dur, Lag(g, r) > 0, g.dur[r] > 3,
           NEW h, h = [g.dur EXCEPT ![r] = @ - 3]
    PROVE  /\ DOMAIN h = DOMAIN g.dur /\ h \in [DOMAIN h -> Nat]
           /\ Max(Range(h)) = Max(Range(g.dur))
           /\ \A p \in DOMAIN h : h[p] <= g.dur[p] /\ (p # r => h[p] = g.dur[p])
<1> DEFINE d == g.dur
           x == Max(Range(d))
           y == Max(Range(h))
<1>1. /\ IsFiniteSet(DOMAIN d) /\ x \in Nat
      /\ \A o \in DOMAIN d : d[o] \in Nat /\ d[o] <= x
  BY LongestIs
<1>2. PICK o \in DOMAIN d : d[o] = x
  BY LongestIs
<1>3. x - d[r] > 0
  BY DEF Lag
<1>4. DOMAIN h = DOMAIN d
  OBVIOUS
<1>5. d \in [DOMAIN d -> Nat] /\ h = [d EXCEPT ![r] = d[r] - 3]
  BY DEF IsGroup
<1> HIDE DEF d, x, y
<1>6. \A p \in DOMAIN d : h[p] = IF p = r THEN d[r] - 3 ELSE d[p]
  BY <1>5
<1>7. r \in DOMAIN d /\ d[r] \in Nat /\ d[r] > 3
  BY <1>1 DEF d
<1>8. \A p \in DOMAIN d : h[p] \in Nat /\ h[p] <= d[p] /\ (p # r => h[p] = d[p])
  BY <1>1, <1>6, <1>7
<1>9. h \in [DOMAIN d -> Nat]
  BY <1>5, <1>8
<1>10. y \in Range(h) /\ \A p \in DOMAIN d : h[p] <= y
  BY <1>1, <1>2, <1>9, LargestValue DEF y
<1>11. o # r
  BY <1>1, <1>2, <1>3, <1>7
<1>12. h[o] = x
  BY <1>2, <1>8, <1>11
<1>13. PICK q \in DOMAIN d : h[q] = y
  BY <1>4, <1>10 DEF Range
<1>14. y \in Nat /\ x <= y /\ y <= x
  BY <1>1, <1>2, <1>8, <1>10, <1>12, <1>13
<1>15. x = y
  BY <1>1, <1>14
<1> QED
  BY <1>4, <1>8, <1>9, <1>15 DEF d, x, y

LEMMA Elements ==
    ASSUME NEW X, NEW s \in Seq(X)
    PROVE  /\ Len(s) \in Nat /\ DOMAIN s = 1..Len(s)
           /\ \A i \in 1..Len(s) : s[i] \in X
OBVIOUS

(* The collectives of a history as they are kept. *)
LEMMA LaterIsLater ==
    ASSUME NEW gs \in Seq([ts : Nat, dur : Durations]), IsHistory(gs), NEW r \in Rank
    PROVE  IsHistory(Later(gs, r)) /\ LaterIn(gs, Later(gs, r), r)
<1> DEFINE hs == Later(gs, r)
           Moves(i) == r \in DOMAIN gs[i].dur /\ Lag(gs[i], r) > 0 /\ gs[i].dur[r] > 3
           n == Len(gs)
<1>1. n \in Nat /\ DOMAIN gs = 1..n /\ \A i \in 1..n : gs[i] \in [ts : Nat, dur : Durations]
  BY Elements
<1>2. hs = [i \in 1..n |-> IF Moves(i) THEN [gs[i] EXCEPT !.dur[r] = @ - 3] ELSE gs[i]]
  BY <1>1 DEF Later
<1>3. DOMAIN hs = 1..n /\ Len(hs) = n
  <2> HIDE DEF hs, Moves, n
  <2> QED
    BY <1>1, <1>2
<1>4. ASSUME NEW i \in 1..n
      PROVE  /\ hs[i].ts = i /\ IsGroup(hs[i]) /\ hs[i].ts = gs[i].ts
             /\ DOMAIN hs[i].dur = DOMAIN gs[i].dur
             /\ Max(Range(hs[i].dur)) = Max(Range(gs[i].dur))
             /\ \A p \in DOMAIN gs[i].dur :
                    /\ hs[i].dur[p] <= gs[i].dur[p]
                    /\ p # r => hs[i].dur[p] = gs[i].dur[p]
  <2>1. gs[i].ts = i /\ IsGroup(gs[i]) /\ gs[i] \in [ts : Nat, dur : Durations]
    BY <1>1 DEF IsHistory
  <2>2. CASE Moves(i)
    <3> DEFINE d == gs[i].dur
               h == [d EXCEPT ![r] = @ - 3]
    <3>1. hs[i] = [gs[i] EXCEPT !.dur[r] = @ - 3]
      BY <1>2, <2>2
    <3>2. hs[i].ts = gs[i].ts /\ hs[i].dur = h
      BY <2>1, <3>1
    <3>3. /\ DOMAIN h = DOMAIN d /\ h \in [DOMAIN h -> Nat]
          /\ Max(Range(h)) = Max(Range(d))
          /\ \A p \in DOMAIN h : h[p] <= d[p] /\ (p # r => h[p] = d[p])
      BY <2>1, <2>2, ShorterWait
    <3>4. DOMAIN d \subseteq Rank /\ DOMAIN d # {}
      BY <2>1 DEF IsGroup
    <3> HIDE DEF hs, h, d
    <3>5. IsGroup(hs[i])
      BY <3>2, <3>3, <3>4 DEF IsGroup
    <3> QED
      BY <2>1, <3>2, <3>3, <3>5 DEF d
  <2>3. CASE ~Moves(i)
    <3>1. hs[i] = gs[i]
      BY <1>2, <2>3
    <3>2. \A p \in DOMAIN gs[i].dur : gs[i].dur[p] \in Nat
      BY <2>1 DEF IsGroup
    <3> HIDE DEF hs
    <3> QED
      BY <2>1, <3>1, <3>2
  <2> HIDE DEF hs, Moves
  <2> QED
    BY <2>2, <2>3
<1> HIDE DEF hs
<1>5. IsHistory(hs)
  BY <1>1, <1>3, <1>4 DEF IsHistory
<1>6. LaterIn(gs, hs, r)
  BY <1>1, <1>3, <1>4 DEF LaterIn
<1> QED
  BY <1>5, <1>6 DEF hs

----------------------------------------------------------------------------
(* The invariant. *)

(* The collectives have happened one after the other, and what was found is   *)
(* what DetectAnomalies returns for them.                                     *)
DetectionInv ==
    /\ groups \in Seq([ts : Nat, dur : Durations])
    /\ \A i \in DOMAIN groups : groups[i].ts = i
    /\ found = [w \in Windows |-> DetectAnomalies(groups, w)]

LEMMA HistoryIs ==
    ASSUME DetectionInv
    PROVE  IsHistory(groups)
<1>1. /\ Len(groups) \in Nat /\ DOMAIN groups = 1..Len(groups)
      /\ \A i \in 1..Len(groups) : groups[i] \in [ts : Nat, dur : Durations]
  BY Elements DEF DetectionInv
<1>2. ASSUME NEW i \in DOMAIN groups PROVE groups[i].ts = i /\ IsGroup(groups[i])
  <2>1. groups[i] \in [ts : Nat, dur : Durations] /\ groups[i].ts = i
    BY <1>1 DEF DetectionInv
  <2> DEFINE d == groups[i].dur
  <2>2. d \in Durations
    BY <2>1
  <2> HIDE DEF d
  <2>3. DOMAIN d \subseteq Rank /\ DOMAIN d # {} /\ d \in [DOMAIN d -> Nat]
    BY <2>2, DetectionAssumption
  <2> QED
    BY <2>1, <2>3 DEF IsGroup, d
<1> QED
  BY <1>1, <1>2 DEF IsHistory

LEMMA NothingDetected ==
    ASSUME NEW w \in Nat
    PROVE  DetectAnomalies(<<>>, w) = {}
<1>1. CASE BlockSize < 2
  BY <1>1 DEF DetectAnomalies
<1>2. CASE ~(BlockSize < 2)
  <2>1. Seen(<<>>, w) = {}
    BY DEF Seen, Enough
  <2>2. Cardinality(Seen(<<>>, w)) = 0
    BY <2>1, FS_EmptySet
  <2>3. 0 \div BlockSize = 0
    <3>1. BlockSize \in Nat \ {0}
      BY <1>2, DetectionAssumption
    <3> QED
      BY <3>1
  <2>4. Blocks(Seen(<<>>, w)) = {}
    BY <2>2, <2>3 DEF Blocks
  <2>5. \A r \in Rank : ~Persistent(Flags(<<>>, w)[r])
    BY <2>4, FlagsAre DEF Persistent
  <2> QED
    BY <2>5 DEF DetectAnomalies
<1> QED
  BY <1>1, <1>2

LEMMA DetectionStarts ==
    ASSUME NoCollectives
    PROVE  DetectionInv
<1>1. \A w \in Windows : DetectAnomalies(<<>>, w) = {}
  BY NothingDetected, DetectionAssumption
<1>2. groups = <<>> /\ found = [w \in Windows |-> {}]
  BY DEF NoCollectives
<1>3. <<>> \in Seq([ts : Nat, dur : Durations]) /\ DOMAIN groups = {}
  BY <1>2
<1> QED
  BY <1>1, <1>2, <1>3 DEF DetectionInv

LEMMA DetectionStep ==
    ASSUME DetectionInv, [Collectives]_detectionVars
    PROVE  DetectionInv'
<1>1. CASE Collectives
  <2>1. PICK d \in Durations : Collective(d)
    BY <1>1 DEF Collectives
  <2> DEFINE g == [ts |-> Len(groups) + 1, dur |-> d]
  <2>2. groups' = Append(groups, g) /\ found' = [w \in Windows |-> DetectAnomalies(groups', w)]
    BY <2>1 DEF Collective
  <2>3. groups \in Seq([ts : Nat, dur : Durations]) /\ \A i \in DOMAIN groups : groups[i].ts = i
    BY DEF DetectionInv
  <2>4. g \in [ts : Nat, dur : Durations] /\ g.ts = Len(groups) + 1
    BY <2>3
  <2> HIDE DEF g
  <2>5. groups' \in Seq([ts : Nat, dur : Durations])
    BY <2>2, <2>3, <2>4
  <2>6. ASSUME NEW i \in DOMAIN groups' PROVE groups'[i].ts = i
    <3>1. i \in 1..(Len(groups) + 1)
      BY <2>2, <2>3, <2>4
    <3>2. CASE i \in 1..Len(groups)
      <4>1. groups'[i] = groups[i] /\ i \in DOMAIN groups
        BY <2>2, <2>3, <2>4, <3>2
      <4> QED
        BY <2>3, <4>1
    <3>3. CASE i = Len(groups) + 1
      <4>1. groups'[i] = g
        BY <2>2, <2>3, <2>4, <3>3
      <4> QED
        BY <2>4, <3>3, <4>1
    <3> QED
      BY <3>1, <3>2, <3>3
  <2> QED
    BY <2>2, <2>5, <2>6 DEF DetectionInv
<1>2. CASE UNCHANGED detectionVars
  BY <1>2 DEF detectionVars, DetectionInv
<1> QED
  BY <1>1, <1>2

(* The invariant the theorems on detection rest on. It only ties groups and   *)
(* found to the definitions; what these yield is the lemmas above             *)
(* (correlator.go:143-155).                                                   *)
LEMMA DetectionInvariant == DetectionSpec => []DetectionInv
<1>1. NoCollectives => DetectionInv
  BY DetectionStarts
<1>2. DetectionInv /\ [Collectives]_detectionVars => DetectionInv'
  BY DetectionStep
<1> QED
  BY <1>1, <1>2, PTL DEF DetectionSpec

LEMMA FoundIs ==
    ASSUME DetectionInv, NEW w \in Windows
    PROVE  IsHistory(groups) /\ w \in Nat /\ found[w] = DetectAnomalies(groups, w)
BY HistoryIs, DetectionAssumption DEF DetectionInv

LEMMA AnomaliesFit ==
    ASSUME DetectionInv
    PROVE  DetectionTypeOK
<1>1. ASSUME NEW i \in DOMAIN groups PROVE groups[i].ts = i /\ groups[i].dur \in Durations
  <2>1. groups[i] \in [ts : Nat, dur : Durations] /\ groups[i].ts = i
    BY Elements DEF DetectionInv
  <2> QED
    BY <2>1
<1>2. ASSUME NEW w \in Windows, NEW a \in found[w]
      PROVE  /\ a.rank \in Rank /\ \A o \in found[w] : o.rank = a.rank => o = a
             /\ a.startNs \in 1..a.endNs /\ a.endNs <= Len(groups)
             /\ MinHits * BlockSize <= a.hits /\ a.hits <= a.groups
             /\ a.groups <= Len(groups)
  <2>1. IsHistory(groups) /\ w \in Nat /\ found[w] = DetectAnomalies(groups, w)
    BY FoundIs
  <2> QED
    BY <2>1, AnomalyIs, AnomalyFits
<1> QED
  BY <1>1, <1>2 DEF DetectionTypeOK

(* A rank is reported once, with a start no later than its end, both instants *)
(* of collectives that happened; it spans whole blocks of them, and no more   *)
(* flagged collectives than it spans (correlator.go:244-268).                 *)
THEOREM DetectionTypeCorrect == DetectionSpec => []DetectionTypeOK
<1>1. DetectionInv => DetectionTypeOK
  BY AnomaliesFit
<1> QED
  BY <1>1, DetectionInvariant, PTL

LEMMA ReportedByLags ==
    ASSUME DetectionInv
    PROVE  ReportedRanksReallyLag
<1> SUFFICES ASSUME NEW w \in Windows, NEW a \in found[w]
             PROVE  LET mine == {i \in a.startNs..a.endNs :
                                     /\ a.rank \in DOMAIN groups[i].dur
                                     /\ Cardinality(DOMAIN groups[i].dur) >= MinRanks}
                        late == {i \in mine : Lag(groups[i], a.rank) > 0}
                    IN  /\ a.startNs >= Len(groups) - w
                        /\ 2 * Cardinality(late) >= Cardinality(mine) - (a.groups - a.hits)
  BY DEF ReportedRanksReallyLag
<1>1. IsHistory(groups) /\ w \in Nat /\ a \in DetectAnomalies(groups, w)
  BY FoundIs
<1> QED
  BY <1>1, ReportedLags

(* Whatever the block size, the threshold and the noise: who is reported for  *)
(* a window lagged in it, and in at least half of its collectives of the      *)
(* blocks it was flagged for (correlator.go:143-153).                         *)
THEOREM ReportedRanksLag == DetectionSpec => []ReportedRanksReallyLag
<1>1. DetectionInv => ReportedRanksReallyLag
  BY ReportedByLags
<1> QED
  BY <1>1, DetectionInvariant, PTL

LEMMA LaterKeepsFlags ==
    ASSUME DetectionInv
    PROVE  LaterIsNoExcuse
<1> SUFFICES ASSUME NEW w \in Windows, NEW r \in Rank, NEW b \in Flags(groups, w)[r]
             PROVE  b \in Flags(Later(groups, r), w)[r]
  BY DEF LaterIsNoExcuse
<1>1. IsHistory(groups) /\ w \in Nat
  BY FoundIs
<1>2. IsHistory(Later(groups, r)) /\ LaterIn(groups, Later(groups, r), r)
  BY <1>1, LaterIsLater DEF DetectionInv
<1> QED
  BY <1>1, <1>2, LaterStaysFlagged

(* Whatever happened: a rank that had arrived later still where it lagged     *)
(* would be flagged for the same blocks. Its own lags enter its excess and    *)
(* never the noise it is judged by (correlator.go:147-149, 222-243).          *)
THEOREM LaterNeverUnflags == DetectionSpec => []LaterIsNoExcuse
<1>1. DetectionInv => LaterIsNoExcuse
  BY LaterKeepsFlags
<1> QED
  BY <1>1, DetectionInvariant, PTL

----------------------------------------------------------------------------
(* Attribution. What holds of a report holds of Attribute for all events; so  *)
(* the proofs are about the rules, one lemma each, and about the order in     *)
(* which what fired is listed.                                                *)

Event == [ts : 0..MaxTime, is : Samples]

(* Some of a rank's events, by their indices. *)
IsPart(d) == \E n \in Nat : DOMAIN d \subseteq 1..n /\ d \in [DOMAIN d -> Event]

(* A part of a part. *)
LEMMA PartOfPart ==
    ASSUME NEW d, IsPart(d), NEW J, J \subseteq DOMAIN d
    PROVE  /\ IsPart(Restrict(d, J)) /\ DOMAIN Restrict(d, J) = J
           /\ \A i \in J : Restrict(d, J)[i] = d[i]
<1>1. PICK n \in Nat : DOMAIN d \subseteq 1..n /\ d \in [DOMAIN d -> Event]
  BY DEF IsPart
<1>2. DOMAIN Restrict(d, J) = J /\ \A i \in J : Restrict(d, J)[i] = d[i]
  BY DEF Restrict
<1>3. Restrict(d, J) \in [J -> Event]
  BY <1>1 DEF Restrict
<1> QED
  BY <1>1, <1>2, <1>3 DEF IsPart

LEMMA Kinds ==
    ASSUME NEW d, IsPart(d), NEW ks
    PROVE  /\ IsPart(OfKinds(d, ks)) /\ DOMAIN OfKinds(d, ks) \subseteq DOMAIN d
           /\ \A i \in DOMAIN OfKinds(d, ks) : OfKinds(d, ks)[i] = d[i] /\ d[i].is.kind \in ks
<1> DEFINE J == {i \in DOMAIN d : d[i].is.kind \in ks}
<1>1. J \subseteq DOMAIN d /\ \A i \in J : d[i].is.kind \in ks
  OBVIOUS
<1>2. OfKinds(d, ks) = Restrict(d, J)
  BY DEF OfKinds
<1> HIDE DEF J
<1> QED
  BY <1>1, <1>2, PartOfPart

LEMMA Knowns ==
    ASSUME NEW d, IsPart(d), NEW f
    PROVE  /\ IsPart(Known(d, f)) /\ DOMAIN Known(d, f) \subseteq DOMAIN d
           /\ \A i \in DOMAIN Known(d, f) :
                  Known(d, f)[i] = d[i] /\ d[i].is.kind = "gpu" /\ d[i].is[f] > 0
<1> DEFINE g == OfKind(d, "gpu")
           J == {i \in DOMAIN g : g[i].is[f] > 0}
<1>1. /\ IsPart(g) /\ DOMAIN g \subseteq DOMAIN d
      /\ \A i \in DOMAIN g : g[i] = d[i] /\ d[i].is.kind = "gpu"
  BY Kinds DEF OfKind
<1>2. J \subseteq DOMAIN g /\ \A i \in J : g[i].is[f] > 0
  OBVIOUS
<1>3. Known(d, f) = Restrict(g, J)
  BY DEF Known
<1> HIDE DEF J, g
<1> QED
  BY <1>1, <1>2, <1>3, PartOfPart

(* The latest and the earliest are among them; there are some, in number. *)
LEMMA LatestIsOne ==
    ASSUME NEW d, IsPart(d), ~Absent(d)
    PROVE  /\ Max(DOMAIN d) \in DOMAIN d /\ Latest(d) \in Range(d)
           /\ Min(DOMAIN d) \in DOMAIN d /\ Earliest(d) \in Range(d)
<1>1. PICK n \in Nat : DOMAIN d \subseteq 1..n
  BY DEF IsPart
<1>2. Max(DOMAIN d) \in DOMAIN d /\ Min(DOMAIN d) \in DOMAIN d
  BY <1>1, HasMax DEF Absent
<1> QED
  BY <1>2 DEF Latest, Earliest, Range

----------------------------------------------------------------------------
(* Confidences: fractions above 0, no higher than 95 in 100. *)

Conf == {c \in (Nat \ {0}) \X (Nat \ {0}) : 100 * c[1] <= 95 * c[2]}

LEMMA AtMostIsConf ==
    ASSUME NEW p \in Nat \ {0}, NEW q \in Nat \ {0}
    PROVE  /\ AtMost(<<p, q>>, <<95, 100>>) \in Conf
           /\ AtMost(<<p, q>>, <<8, 10>>) \in Conf
           /\ AtMost(<<p, q>>, <<7, 10>>) \in Conf
           /\ ~Lt(<<7, 10>>, AtMost(<<p, q>>, <<7, 10>>))
<1>1. AtMost(<<p, q>>, <<95, 100>>) \in Conf
  BY DEF AtMost, Lt, Conf
<1>2. AtMost(<<p, q>>, <<8, 10>>) \in Conf
  BY DEF AtMost, Lt, Conf
<1>3. AtMost(<<p, q>>, <<7, 10>>) \in Conf
  BY DEF AtMost, Lt, Conf
<1>4. ~Lt(<<7, 10>>, AtMost(<<p, q>>, <<7, 10>>))
  BY DEF AtMost, Lt
<1> QED
  BY <1>1, <1>2, <1>3, <1>4

----------------------------------------------------------------------------
(* What each rule returns: a verdict; and one that is backed, and real where  *)
(* it is a change.                                                            *)

(* Nothing, or a finding that points at one of the events d. *)
IsVerdict(v, d) ==
    \/ v \in {NoData, Against}
    \/ \E e \in Range(d), c \in Conf : v = Fired(e, c)

Backed(c, v, d, b) ==
    v.is # "nodata" => /\ Read(c, d) \/ (c = "ecc_errors" /\ Read(c, b))
                       /\ c \in Comparing => Read(c, b)

Real(c, v, d, b) ==
    /\ v.is = "fired" /\ c \in Comparing =>
           \E x \in Range(d), y \in Range(b) : Reading(c, x) /\ Reading(c, y) /\ Worse(c, x, y)
    /\ v.is = "fired" /\ c = "ecc_errors" => RoseWithin(d, b)

Good(c, v, d, b) == IsVerdict(v, d) /\ Backed(c, v, d, b) /\ Real(c, v, d, b)

LEMMA SampleTypes ==
    ASSUME NEW e \in Event
    PROVE  /\ e.is.kind = "gpu" => /\ e.is \in GPU /\ e.is["mem"] \in Nat /\ e.is["util"] \in Nat
                                   /\ e.is["clock"] \in Nat /\ e.is["procs"] \in Nat
                                   /\ e.is["sbe"] \in Nat /\ e.is["dbe"] \in Nat
           /\ e.is.kind \in {"pcie", "nvlink"} => e.is \in Link /\ e.is["bw"] \in Nat
<1>1. e.is \in GPU \cup Link \cup Thermal
  BY AttributionAssumption DEF Event
<1> QED
  BY <1>1 DEF GPU, Link, Thermal

(* The part of some events has theirs. *)
LEMMA PartRange ==
    ASSUME NEW d, NEW g, DOMAIN g \subseteq DOMAIN d, \A i \in DOMAIN g : g[i] = d[i]
    PROVE  Range(g) \subseteq Range(d)
  BY DEF Range

LEMMA PartEvents ==
    ASSUME NEW d, IsPart(d)
    PROVE  Range(d) \subseteq Event /\ \A i \in DOMAIN d : d[i] \in Event /\ d[i] \in Range(d)
  BY DEF IsPart, Range

(* Latest and Earliest of the events of some kinds. *)
LEMMA LatestOfKinds ==
    ASSUME NEW d, IsPart(d), NEW ks, ~Absent(OfKinds(d, ks))
    PROVE  /\ Latest(OfKinds(d, ks)) \in Range(d) /\ Latest(OfKinds(d, ks)).is.kind \in ks
           /\ Earliest(OfKinds(d, ks)) \in Range(d) /\ Earliest(OfKinds(d, ks)).is.kind \in ks
<1> DEFINE g == OfKinds(d, ks)
<1>1. /\ IsPart(g) /\ DOMAIN g \subseteq DOMAIN d
      /\ \A i \in DOMAIN g : g[i] = d[i] /\ d[i].is.kind \in ks
  BY Kinds
<1>2. Max(DOMAIN g) \in DOMAIN g /\ Min(DOMAIN g) \in DOMAIN g
  <2> HIDE DEF g
  <2>1. ~Absent(g)
    BY DEF g
  <2> QED
    BY <1>1, <2>1, LatestIsOne
<1> HIDE DEF g
<1>3. /\ Latest(g) \in Range(g) /\ Latest(g).is.kind \in ks
      /\ Earliest(g) \in Range(g) /\ Earliest(g).is.kind \in ks
  BY <1>1, <1>2 DEF Latest, Earliest, Range
<1>4. Range(g) \subseteq Range(d)
  BY <1>1, PartRange
<1> QED
  BY <1>3, <1>4 DEF g

(* The share of some samples. *)
LEMMA ShareIsVerdict ==
    ASSUME NEW d, IsPart(d), NEW hits, hits \subseteq DOMAIN d
    PROVE  /\ IsVerdict(Share(d, hits), d)
           /\ Share(d, hits).is # "nodata" => ~Absent(d)
<1>1. PICK n \in Nat : DOMAIN d \subseteq 1..n
  BY DEF IsPart
<1>2. CASE Absent(d)
  BY <1>2 DEF Share, IsVerdict, NoData
<1>3. CASE ~Absent(d) /\ hits = {}
  BY <1>3 DEF Share, IsVerdict
<1>4. CASE ~Absent(d) /\ hits # {}
  <2> DEFINE c == Frac(Cardinality(hits), Number(d))
  <2>1. Cardinality(hits) \in Nat \ {0} /\ Number(d) \in Nat \ {0}
    <3>1. hits \subseteq 1..n /\ DOMAIN d # {}
      BY <1>1, <1>4 DEF Absent
    <3> QED
      BY <1>1, <1>4, <3>1, Numbers DEF Number
  <2>2. c \in Conf
    BY <2>1, AtMostIsConf DEF Frac
  <2>3. Max(hits) \in DOMAIN d
    <3>1. hits \subseteq 1..n
      BY <1>1
    <3> QED
      BY <1>4, <3>1, HasMax
  <2>4. d[Max(hits)] \in Range(d)
    BY <2>3 DEF Range
  <2> HIDE DEF c
  <2>5. Share(d, hits) = Fired(d[Max(hits)], c)
    BY <1>4 DEF Share, c
  <2> QED
    BY <1>4, <2>2, <2>4, <2>5 DEF IsVerdict
<1> QED
  BY <1>2, <1>3, <1>4

(* A verdict on some of the events is one on all of them. *)
LEMMA VerdictOfPart ==
    ASSUME NEW g, NEW d, Range(g) \subseteq Range(d), NEW v, IsVerdict(v, g)
    PROVE  IsVerdict(v, d)
  BY DEF IsVerdict

LEMMA ThermalIsGood ==
    ASSUME NEW d, IsPart(d), NEW b
    PROVE  Good("thermal_throttle", RuleThermal(d), d, b)
<1> DEFINE t == OfKinds(d, {"gpu", "thermal"})
           hits == {i \in DOMAIN t : Hot(t[i])}
<1>1. /\ IsPart(t) /\ DOMAIN t \subseteq DOMAIN d
      /\ \A i \in DOMAIN t : t[i] = d[i] /\ d[i].is.kind \in {"gpu", "thermal"}
  BY Kinds
<1>2. RuleThermal(d) = Share(t, hits) /\ hits \subseteq DOMAIN t
  BY DEF RuleThermal
<1> HIDE DEF t, hits
<1>3. /\ IsVerdict(RuleThermal(d), t)
      /\ RuleThermal(d).is # "nodata" => ~Absent(t)
  BY <1>1, <1>2, ShareIsVerdict
<1>4. IsVerdict(RuleThermal(d), d)
  BY <1>1, <1>3, PartRange, VerdictOfPart
<1>5. RuleThermal(d).is # "nodata" => Read("thermal_throttle", d)
  BY <1>1, <1>3 DEF Absent, Read, Reading, Range
<1> QED
  BY <1>4, <1>5 DEF Good, Backed, Real, Comparing

LEMMA PowerIsGood ==
    ASSUME NEW d, IsPart(d), NEW b
    PROVE  Good("power_throttle", RulePower(d), d, b)
<1> DEFINE g == OfKind(d, "gpu")
           hits == {i \in DOMAIN g : Capped(g[i])}
<1>1. /\ IsPart(g) /\ DOMAIN g \subseteq DOMAIN d
      /\ \A i \in DOMAIN g : g[i] = d[i] /\ d[i].is.kind = "gpu"
  BY Kinds DEF OfKind
<1>2. RulePower(d) = Share(g, hits) /\ hits \subseteq DOMAIN g
  BY DEF RulePower
<1> HIDE DEF g, hits
<1>3. /\ IsVerdict(RulePower(d), g)
      /\ RulePower(d).is # "nodata" => ~Absent(g)
  BY <1>1, <1>2, ShareIsVerdict
<1>4. IsVerdict(RulePower(d), d)
  BY <1>1, <1>3, PartRange, VerdictOfPart
<1>5. RulePower(d).is # "nodata" => Read("power_throttle", d)
  BY <1>1, <1>3 DEF Absent, Read, Reading, Range
<1> QED
  BY <1>4, <1>5 DEF Good, Backed, Real, Comparing

(* The median of a reading is between two of the samples. *)
LEMMA MedianOfSamples ==
    ASSUME NEW g, IsPart(g), ~Absent(g), NEW f, \A i \in DOMAIN g : g[i].is[f] \in Nat
    PROVE  /\ Median2(Values(g, f)) \in Nat
           /\ \E x, y \in Range(g) : Median2(Values(g, f)) = x.is[f] + y.is[f]
<1> DEFINE v == Values(g, f)
           D == DOMAIN g
<1>1. IsFiniteSet(D)
  BY Numbers DEF IsPart
<1>2. v \in [D -> Nat] /\ \A i \in D : v[i] = g[i].is[f]
  BY DEF Values
<1>3. D # {} /\ \A i \in D : g[i] \in Range(g)
  BY DEF Absent, Range
<1> HIDE DEF v, D
<1>4. PICK i \in D, j \in D : Median2(v) = v[i] + v[j]
  BY <1>1, <1>2, <1>3, MedianIsBetween
<1>5. Median2(v) \in Nat
  BY <1>1, <1>2, <1>3, MedianIsBetween
<1>6. Median2(v) = g[i].is[f] + g[j].is[f]
  BY <1>2, <1>4
<1> QED
  BY <1>3, <1>5, <1>6 DEF v

LEMMA ClockIsGood ==
    ASSUME NEW d, IsPart(d), NEW b, IsPart(b)
    PROVE  /\ Good("clock_reduced", RuleClock(d, b), d, b)
           /\ RuleClock(d, b).is = "fired" => ~Lt(<<7, 10>>, RuleClock(d, b).conf)
<1> DEFINE dc == Known(d, "clock")
           bc == Known(b, "clock")
           dm == Median2(Values(dc, "clock"))
           bm == Median2(Values(bc, "clock"))
           IsClock(e) == e.is.kind = "gpu" /\ e.is["clock"] \in Nat /\ e.is["clock"] > 0
<1>1. /\ IsPart(dc) /\ Range(dc) \subseteq Range(d) /\ \A i \in DOMAIN dc : IsClock(dc[i])
      /\ IsPart(bc) /\ Range(bc) \subseteq Range(b) /\ \A i \in DOMAIN bc : IsClock(bc[i])
  BY Knowns, PartRange, PartEvents, SampleTypes
<1>2. RuleClock(d, b) = IF Absent(dc) \/ Absent(bc) THEN NoData
                        ELSE IF ~Slower(dm, bm) THEN Against
                        ELSE Fired(Latest(dc), ClockConf(dm, bm))
  BY DEF RuleClock
<1> DEFINE dx == Values(dc, "clock")
           bx == Values(bc, "clock")
<1> HIDE DEF dc, bc
<1>3. /\ \A e \in Range(dc) : IsClock(e) /\ e \in Range(d)
      /\ \A e \in Range(bc) : IsClock(e) /\ e \in Range(b)
  BY <1>1 DEF Range
<1>4. \A e : IsClock(e) => Reading("clock_reduced", e)
  BY DEF Reading
<1>5. CASE Absent(dc) \/ Absent(bc)
  BY <1>2, <1>5 DEF Good, IsVerdict, Backed, Real, NoData
<1>6. CASE ~Absent(dc) /\ ~Absent(bc)
  <2>1. /\ dm \in Nat /\ \E x, y \in Range(dc) : dm = x.is["clock"] + y.is["clock"]
        /\ bm \in Nat /\ \E x, y \in Range(bc) : bm = x.is["clock"] + y.is["clock"]
    <3>1. /\ \A i \in DOMAIN dc : dc[i].is["clock"] \in Nat
          /\ \A i \in DOMAIN bc : bc[i].is["clock"] \in Nat
      BY <1>1
    <3> HIDE DEF IsClock
    <3> QED
      BY <1>1, <1>6, <3>1, MedianOfSamples
  <2>2. Latest(dc) \in Range(dc) /\ Latest(bc) \in Range(bc)
    BY <1>1, <1>6, LatestIsOne
  <2> HIDE DEF IsClock, dm, bm
  <2>3. Read("clock_reduced", d) /\ Read("clock_reduced", b)
    BY <1>3, <1>4, <2>2 DEF Read
  <2>4. CASE ~Slower(dm, bm)
    BY <1>2, <1>6, <2>3, <2>4 DEF Good, IsVerdict, Backed, Real, Against
  <2>5. CASE Slower(dm, bm)
    <3>1. RuleClock(d, b) = Fired(Latest(dc), ClockConf(dm, bm))
      BY <1>2, <1>6, <2>5
    <3>2. 9 * bm - 5 * dm \in Nat \ {0} /\ 10 * bm \in Nat \ {0}
      BY <2>1, <2>5 DEF Slower
    <3>3. ClockConf(dm, bm) \in Conf /\ ~Lt(<<7, 10>>, ClockConf(dm, bm))
      BY <3>2, AtMostIsConf DEF ClockConf
    <3>4. PICK x \in Range(dc), y \in Range(bc) : 4 * x.is["clock"] < 3 * y.is["clock"]
      <4>1. PICK x1 \in Range(dc), x2 \in Range(dc) : dm = x1.is["clock"] + x2.is["clock"]
        BY <2>1
      <4>2. PICK y1 \in Range(bc), y2 \in Range(bc) : bm = y1.is["clock"] + y2.is["clock"]
        BY <2>1
      <4>3. /\ x1.is["clock"] \in Nat /\ x2.is["clock"] \in Nat
            /\ y1.is["clock"] \in Nat /\ y2.is["clock"] \in Nat
        BY <1>3 DEF IsClock
      <4>4. 4 * (x1.is["clock"] + x2.is["clock"]) < 3 * (y1.is["clock"] + y2.is["clock"])
        BY <2>5, <4>1, <4>2 DEF Slower
      <4>5. 4 * x1.is["clock"] < 3 * y1.is["clock"] \/ 4 * x2.is["clock"] < 3 * y2.is["clock"]
        BY <4>3, <4>4
      <4> QED
        BY <4>5
    <3>5. Worse("clock_reduced", x, y)
      BY <3>4 DEF Worse
    <3>6. Real("clock_reduced", RuleClock(d, b), d, b)
      BY <1>3, <1>4, <3>5 DEF Real
    <3>7. IsVerdict(RuleClock(d, b), d)
      BY <1>3, <2>2, <3>1, <3>3 DEF IsVerdict
    <3>8. RuleClock(d, b).conf = ClockConf(dm, bm)
      BY <3>1 DEF Fired
    <3> QED
      BY <2>3, <3>3, <3>6, <3>7, <3>8 DEF Good, Backed
  <2> QED
    BY <2>4, <2>5
<1> QED
  BY <1>5, <1>6

LEMMA ContentionIsGood ==
    ASSUME NEW d, IsPart(d), NEW b, IsPart(b)
    PROVE  Good("gpu_contention", RuleContention(d, b), d, b)
<1> DEFINE dp == Known(d, "procs")
           bp == Known(b, "procs")
           dm == Median2(Values(dp, "procs"))
           bm == Median2(Values(bp, "procs"))
           IsCount(e) == e.is.kind = "gpu" /\ e.is["procs"] \in Nat /\ e.is["procs"] > 0
<1>1. /\ IsPart(dp) /\ Range(dp) \subseteq Range(d) /\ \A i \in DOMAIN dp : IsCount(dp[i])
      /\ IsPart(bp) /\ Range(bp) \subseteq Range(b) /\ \A i \in DOMAIN bp : IsCount(bp[i])
  BY Knowns, PartRange, PartEvents, SampleTypes
<1>2. RuleContention(d, b) = IF Absent(dp) \/ Absent(bp) THEN NoData
                             ELSE IF dm <= bm THEN Against ELSE Fired(Latest(dp), <<7, 10>>)
  BY DEF RuleContention
<1> HIDE DEF dp, bp
<1>3. /\ \A e \in Range(dp) : IsCount(e) /\ e \in Range(d)
      /\ \A e \in Range(bp) : IsCount(e) /\ e \in Range(b)
  BY <1>1 DEF Range
<1>4. \A e : IsCount(e) => Reading("gpu_contention", e)
  BY DEF Reading
<1>5. CASE Absent(dp) \/ Absent(bp)
  BY <1>2, <1>5 DEF Good, IsVerdict, Backed, Real, NoData
<1>6. CASE ~Absent(dp) /\ ~Absent(bp)
  <2>1. /\ dm \in Nat /\ \E x, y \in Range(dp) : dm = x.is["procs"] + y.is["procs"]
        /\ bm \in Nat /\ \E x, y \in Range(bp) : bm = x.is["procs"] + y.is["procs"]
    <3>1. /\ \A i \in DOMAIN dp : dp[i].is["procs"] \in Nat
          /\ \A i \in DOMAIN bp : bp[i].is["procs"] \in Nat
      BY <1>1
    <3> HIDE DEF IsCount
    <3> QED
      BY <1>1, <1>6, <3>1, MedianOfSamples
  <2>2. Latest(dp) \in Range(dp) /\ Latest(bp) \in Range(bp)
    BY <1>1, <1>6, LatestIsOne
  <2> HIDE DEF IsCount, dm, bm
  <2>3. Read("gpu_contention", d) /\ Read("gpu_contention", b)
    BY <1>3, <1>4, <2>2 DEF Read
  <2>4. CASE dm <= bm
    BY <1>2, <1>6, <2>3, <2>4 DEF Good, IsVerdict, Backed, Real, Against
  <2>5. CASE ~(dm <= bm)
    <3>1. RuleContention(d, b) = Fired(Latest(dp), <<7, 10>>)
      BY <1>2, <1>6, <2>5
    <3>2. <<7, 10>> \in Conf
      BY DEF Conf
    <3>3. PICK x \in Range(dp), y \in Range(bp) : x.is["procs"] > y.is["procs"]
      <4>1. PICK x1 \in Range(dp), x2 \in Range(dp) : dm = x1.is["procs"] + x2.is["procs"]
        BY <2>1
      <4>2. PICK y1 \in Range(bp), y2 \in Range(bp) : bm = y1.is["procs"] + y2.is["procs"]
        BY <2>1
      <4>3. /\ x1.is["procs"] \in Nat /\ x2.is["procs"] \in Nat
            /\ y1.is["procs"] \in Nat /\ y2.is["procs"] \in Nat
        BY <1>3 DEF IsCount
      <4>4. x1.is["procs"] > y1.is["procs"] \/ x2.is["procs"] > y2.is["procs"]
        BY <2>5, <4>1, <4>2, <4>3
      <4> QED
        BY <4>4
    <3>4. Worse("gpu_contention", x, y)
      BY <3>3 DEF Worse
    <3>5. Real("gpu_contention", RuleContention(d, b), d, b)
      BY <1>3, <1>4, <3>4 DEF Real
    <3>6. IsVerdict(RuleContention(d, b), d)
      BY <1>3, <2>2, <3>1, <3>2 DEF IsVerdict
    <3> QED
      BY <2>3, <3>5, <3>6 DEF Good, Backed
  <2> QED
    BY <2>4, <2>5
<1> QED
  BY <1>5, <1>6

(* A rise from the first sample counted to the last is one in the window.     *)
LEMMA RiseIsWithin ==
    ASSUME NEW d, IsPart(d), NEW b, IsPart(b), NEW f \in {"sbe", "dbe"},
           ~Absent(OfKind(d, "gpu")),
           CountedTo(OfKind(d, "gpu"), OfKind(b, "gpu")).is[f]
               > CountedFrom(OfKind(d, "gpu"), OfKind(b, "gpu")).is[f]
    PROVE  RoseWithin(d, b)
<1> DEFINE dg == OfKind(d, "gpu")
           bg == OfKind(b, "gpu")
           i == Max(DOMAIN dg)
           k == Min(DOMAIN dg)
           Earlier == {dg[j] : j \in {j \in DOMAIN dg : j < i}}
                          \cup (IF Absent(bg) THEN {} ELSE {Latest(bg)})
<1>1. IsPart(dg) /\ ~Absent(dg)
  BY Kinds DEF OfKind
<1>2. \A j \in DOMAIN dg : dg[j] \in Event /\ dg[j].is.kind = "gpu"
  <2>1. \A j \in DOMAIN dg : dg[j] = d[j] /\ d[j].is.kind \in {"gpu"} /\ j \in DOMAIN d
    BY Kinds DEF OfKind
  <2> QED
    BY <2>1, PartEvents
<1>3. \A e \in Earlier : dg[i].is[f] > e.is[f] => RoseWithin(d, b)
  <2>1. i \in DOMAIN dg
    <3> HIDE DEF dg
    <3> QED
      BY <1>1, LatestIsOne DEF i
  <2> HIDE DEF i
  <2>2. ASSUME NEW e \in Earlier, dg[i].is[f] > e.is[f]
        PROVE  dg[i].is.sbe > e.is.sbe \/ dg[i].is.dbe > e.is.dbe
    BY <2>2
  <2> QED
    BY <2>1, <2>2 DEF RoseWithin
<1> HIDE DEF dg, bg
<1>4. i \in DOMAIN dg /\ k \in DOMAIN dg /\ \A j \in DOMAIN dg : k <= j /\ j <= i
  <2>1. PICK n \in Nat : DOMAIN dg \subseteq 1..n
    BY <1>1 DEF IsPart
  <2> QED
    BY <1>1, <2>1, HasMax DEF Absent
<1>5. CountedTo(dg, bg) = dg[i]
  BY <1>1 DEF CountedTo, Latest
<1>6. CASE Absent(bg)
  <2>1. CountedFrom(dg, bg) = dg[k] /\ dg[i].is[f] > dg[k].is[f]
    BY <1>5, <1>6 DEF CountedFrom, Earliest, dg, bg
  <2>2. dg[i].is[f] \in Nat
    BY <1>2, <1>4, SampleTypes
  <2>3. i # k
    BY <2>1, <2>2
  <2>4. k < i
    <3>1. i \in Nat /\ k \in Nat
      BY <1>1, <1>4 DEF IsPart
    <3> HIDE DEF i, k
    <3> QED
      BY <1>4, <2>3, <3>1
  <2>5. dg[k] \in Earlier
    BY <1>4, <2>4
  <2> QED
    BY <1>3, <2>1, <2>5
<1>7. CASE ~Absent(bg)
  <2>1. CountedFrom(dg, bg) = Latest(bg) /\ Latest(bg) \in Earlier
    BY <1>7 DEF CountedFrom
  <2>2. dg[i].is[f] > Latest(bg).is[f]
    BY <1>5, <2>1 DEF dg, bg
  <2> QED
    BY <1>3, <2>1, <2>2
<1> QED
  BY <1>6, <1>7

LEMMA ECCIsGood ==
    ASSUME NEW d, IsPart(d), NEW b, IsPart(b)
    PROVE  Good("ecc_errors", RuleECC(d, b), d, b)
<1> DEFINE dg == OfKind(d, "gpu")
           bg == OfKind(b, "gpu")
           from == CountedFrom(dg, bg)
           to == CountedTo(dg, bg)
           Rose(f) == to.is[f] > from.is[f]
           c == IF Rose("dbe") THEN <<9, 10>> ELSE <<6, 10>>
<1>1. RuleECC(d, b) = IF Absent(dg) /\ Absent(bg) THEN NoData
                      ELSE IF ~Rose("sbe") /\ ~Rose("dbe") THEN Against ELSE Fired(to, c)
  BY DEF RuleECC
<1>2. c \in Conf
  BY DEF Conf
<1>3. ~Absent(dg) => Latest(dg) \in Range(d) /\ Latest(dg).is.kind = "gpu"
  BY LatestOfKinds DEF OfKind
<1>4. ~Absent(bg) => Latest(bg) \in Range(b) /\ Latest(bg).is.kind = "gpu"
  BY LatestOfKinds DEF OfKind
<1>8. ~Absent(dg) /\ (Rose("sbe") \/ Rose("dbe")) => RoseWithin(d, b)
  BY RiseIsWithin
<1> HIDE DEF dg, bg, c
<1>5. CASE Absent(dg) /\ Absent(bg)
  BY <1>1, <1>5 DEF Good, IsVerdict, Backed, Real, NoData
<1>6. CASE Absent(dg) /\ ~Absent(bg)
  <2>1. to = Latest(bg) /\ from = Latest(bg)
    BY <1>6 DEF CountedTo, CountedFrom
  <2>2. Latest(bg) \in Event
    BY <1>4, <1>6, PartEvents
  <2>3. ~Rose("sbe") /\ ~Rose("dbe")
    BY <1>4, <1>6, <2>1, <2>2, SampleTypes
  <2>4. RuleECC(d, b) = Against
    BY <1>1, <1>6, <2>3
  <2>5. Read("ecc_errors", b)
    BY <1>4, <1>6 DEF Read, Reading
  <2> QED
    BY <2>4, <2>5 DEF Good, IsVerdict, Backed, Real, Against, Comparing
<1>7. CASE ~Absent(dg)
  <2>1. to = Latest(dg)
    BY <1>7 DEF CountedTo
  <2>2. to \in Range(d) /\ Read("ecc_errors", d)
    BY <1>3, <1>7, <2>1 DEF Read, Reading
  <2> HIDE DEF to, Rose
  <2>3. RuleECC(d, b) \in {Against, Fired(to, c)}
    BY <1>1, <1>7
  <2>4. IsVerdict(RuleECC(d, b), d)
    BY <1>2, <2>2, <2>3 DEF IsVerdict
  <2>5. RuleECC(d, b).is = "fired" => RoseWithin(d, b)
    BY <1>1, <1>7, <1>8 DEF Against
  <2> QED
    BY <2>2, <2>4, <2>5 DEF Good, Backed, Real, Comparing
<1> QED
  BY <1>5, <1>6, <1>7

LEMMA BandwidthIsGood ==
    ASSUME NEW d, IsPart(d), NEW b, IsPart(b), NEW k, NEW cause,
           \/ k = "pcie" /\ cause = "pcie_bandwidth_drop"
           \/ k = "nvlink" /\ cause = "nvlink_degraded"
    PROVE  Good(cause, BandwidthDrop(OfKind(d, k), OfKind(b, k)), d, b)
<1> DEFINE dk == OfKind(d, k)
           bk == OfKind(b, k)
           dm == Median2(Values(dk, "bw"))
           bm == Median2(Values(bk, "bw"))
           IsBw(e) == e.is.kind = k /\ e.is["bw"] \in Nat
           v == BandwidthDrop(dk, bk)
<1>1. /\ IsPart(dk) /\ Range(dk) \subseteq Range(d) /\ \A i \in DOMAIN dk : IsBw(dk[i])
      /\ IsPart(bk) /\ Range(bk) \subseteq Range(b) /\ \A i \in DOMAIN bk : IsBw(bk[i])
  <2>1. /\ IsPart(dk) /\ DOMAIN dk \subseteq DOMAIN d
        /\ \A i \in DOMAIN dk : dk[i] = d[i] /\ d[i].is.kind = k
    BY Kinds DEF OfKind
  <2>2. /\ IsPart(bk) /\ DOMAIN bk \subseteq DOMAIN b
        /\ \A i \in DOMAIN bk : bk[i] = b[i] /\ b[i].is.kind = k
    BY Kinds DEF OfKind
  <2> HIDE DEF dk, bk
  <2>3. \A i \in DOMAIN dk : dk[i].is["bw"] \in Nat
    BY <2>1, PartEvents, SampleTypes
  <2>4. \A i \in DOMAIN bk : bk[i].is["bw"] \in Nat
    BY <2>2, PartEvents, SampleTypes
  <2> QED
    BY <2>1, <2>2, <2>3, <2>4, PartRange
<1>2. v = IF Absent(dk) \/ Absent(bk) THEN NoData
          ELSE IF bm <= 0 \/ 2 * dm >= bm THEN Against
          ELSE Fired(Latest(dk), AtMost(<<2 * bm - dm, 2 * bm>>, <<95, 100>>))
  BY DEF BandwidthDrop
<1> SUFFICES Good(cause, v, d, b)
  OBVIOUS
<1> HIDE DEF dk, bk, v
<1>3. /\ \A e \in Range(dk) : IsBw(e) /\ e \in Range(d)
      /\ \A e \in Range(bk) : IsBw(e) /\ e \in Range(b)
  BY <1>1 DEF Range
<1>4. \A e : IsBw(e) => Reading(cause, e)
  BY DEF Reading
<1>5. CASE Absent(dk) \/ Absent(bk)
  BY <1>2, <1>5 DEF Good, IsVerdict, Backed, Real, NoData
<1>6. CASE ~Absent(dk) /\ ~Absent(bk)
  <2>1. /\ dm \in Nat /\ \E x, y \in Range(dk) : dm = x.is["bw"] + y.is["bw"]
        /\ bm \in Nat /\ \E x, y \in Range(bk) : bm = x.is["bw"] + y.is["bw"]
    <3>1. /\ \A i \in DOMAIN dk : dk[i].is["bw"] \in Nat
          /\ \A i \in DOMAIN bk : bk[i].is["bw"] \in Nat
      BY <1>1
    <3> HIDE DEF IsBw
    <3> QED
      BY <1>1, <1>6, <3>1, MedianOfSamples
  <2>2. Latest(dk) \in Range(dk) /\ Latest(bk) \in Range(bk)
    BY <1>1, <1>6, LatestIsOne
  <2> HIDE DEF IsBw, dm, bm
  <2>3. Read(cause, d) /\ Read(cause, b)
    BY <1>3, <1>4, <2>2 DEF Read
  <2>4. CASE bm <= 0 \/ 2 * dm >= bm
    BY <1>2, <1>6, <2>3, <2>4 DEF Good, IsVerdict, Backed, Real, Against
  <2>5. CASE ~(bm <= 0 \/ 2 * dm >= bm)
    <3> DEFINE c == AtMost(<<2 * bm - dm, 2 * bm>>, <<95, 100>>)
    <3>1. v = Fired(Latest(dk), c)
      BY <1>2, <1>6, <2>5
    <3>2. 2 * bm - dm \in Nat \ {0} /\ 2 * bm \in Nat \ {0}
      BY <2>1, <2>5
    <3>3. c \in Conf
      BY <3>2, AtMostIsConf
    <3> HIDE DEF c
    <3>4. PICK x \in Range(dk), y \in Range(bk) : 2 * x.is["bw"] < y.is["bw"]
      <4>1. PICK x1 \in Range(dk), x2 \in Range(dk) : dm = x1.is["bw"] + x2.is["bw"]
        BY <2>1
      <4>2. PICK y1 \in Range(bk), y2 \in Range(bk) : bm = y1.is["bw"] + y2.is["bw"]
        BY <2>1
      <4>3. /\ x1.is["bw"] \in Nat /\ x2.is["bw"] \in Nat
            /\ y1.is["bw"] \in Nat /\ y2.is["bw"] \in Nat
        BY <1>3 DEF IsBw
      <4>4. 2 * x1.is["bw"] < y1.is["bw"] \/ 2 * x2.is["bw"] < y2.is["bw"]
        BY <2>5, <4>1, <4>2, <4>3
      <4> QED
        BY <4>4
    <3>5. Worse(cause, x, y)
      BY <3>4 DEF Worse
    <3>6. Real(cause, v, d, b)
      BY <1>3, <1>4, <3>5 DEF Real
    <3>7. IsVerdict(v, d)
      BY <1>3, <2>2, <3>1, <3>3 DEF IsVerdict
    <3> QED
      BY <2>3, <3>6, <3>7 DEF Good, Backed
  <2> QED
    BY <2>4, <2>5
<1> QED
  BY <1>5, <1>6

(* Of the two rules that look at the mean. *)
LEMMA MeanIsGood ==
    ASSUME NEW d, IsPart(d), NEW b
    PROVE  /\ Good("memory_pressure", RuleMemory(d), d, b)
           /\ Good("host_stall", RuleHostStall(d), d, b)
<1> DEFINE g == OfKind(d, "gpu")
           used == Sum(Values(g, "util"))
           idle == AtMost(<<80 * Number(g) - used, 100 * Number(g)>>, <<8, 10>>)
<1>1. /\ RuleMemory(d) = IF Absent(g) THEN NoData
                         ELSE IF Sum(Values(g, "mem")) < 90 * Number(g) THEN Against
                         ELSE Fired(Latest(g), <<5, 10>>)
      /\ RuleHostStall(d) = IF Absent(g) THEN NoData
                            ELSE IF \/ \E i \in DOMAIN g : g[i].is.throttle # {}
                                    \/ used >= 40 * Number(g) THEN Against
                            ELSE Fired(Latest(g), idle)
  BY DEF RuleMemory, RuleHostStall
<1>2. /\ IsPart(g) /\ Range(g) \subseteq Range(d)
      /\ \A i \in DOMAIN g : g[i].is.kind = "gpu" /\ g[i].is["util"] \in Nat
  <2>1. /\ IsPart(g) /\ DOMAIN g \subseteq DOMAIN d
        /\ \A i \in DOMAIN g : g[i] = d[i] /\ d[i].is.kind = "gpu"
    BY Kinds DEF OfKind
  <2> HIDE DEF g
  <2> QED
    BY <2>1, PartEvents, PartRange, SampleTypes
<1> HIDE DEF g, used, idle
<1>3. CASE Absent(g)
  BY <1>1, <1>3 DEF Good, IsVerdict, Backed, Real, NoData
<1>4. CASE ~Absent(g)
  <2>1. Latest(g) \in Range(d) /\ Latest(g).is.kind = "gpu"
    BY <1>2, <1>4, LatestIsOne DEF Latest
  <2>2. Read("memory_pressure", d) /\ Read("host_stall", d)
    BY <2>1 DEF Read, Reading
  <2>3. <<5, 10>> \in Conf
    BY DEF Conf
  <2>4. IsVerdict(RuleMemory(d), d)
    BY <1>1, <1>4, <2>1, <2>3 DEF IsVerdict
  <2>5. IsVerdict(RuleHostStall(d), d)
    <3>1. CASE used >= 40 * Number(g) \/ \E i \in DOMAIN g : g[i].is.throttle # {}
      BY <1>1, <1>4, <3>1 DEF IsVerdict
    <3>2. CASE ~(used >= 40 * Number(g) \/ \E i \in DOMAIN g : g[i].is.throttle # {})
      <4>1. RuleHostStall(d) = Fired(Latest(g), idle)
        BY <1>1, <1>4, <3>2
      <4>2. PICK n \in Nat : DOMAIN g \subseteq 1..n
        BY <1>2 DEF IsPart
      <4>3. Number(g) \in Nat \ {0}
        <5>1. DOMAIN g # {}
          BY <1>4 DEF Absent
        <5>2. Cardinality(DOMAIN g) \in Nat \ {0}
          BY <4>2, <5>1, Numbers
        <5> QED
          BY <5>2 DEF Number
      <4>4. used \in Nat
        <5>1. Values(g, "util") \in [DOMAIN g -> Nat]
          BY <1>2 DEF Values
        <5> QED
          BY <4>2, <5>1, SumIsNat DEF used
      <4>5. 80 * Number(g) - used \in Nat \ {0} /\ 100 * Number(g) \in Nat \ {0}
        BY <3>2, <4>3, <4>4
      <4>6. idle \in Conf
        BY <4>5, AtMostIsConf DEF idle
      <4> QED
        BY <2>1, <4>1, <4>6 DEF IsVerdict
    <3> QED
      BY <3>1, <3>2
  <2> QED
    BY <2>2, <2>4, <2>5 DEF Good, Backed, Real, Comparing
<1> QED
  BY <1>3, <1>4

(* All nine. *)
LEMMA VerdictsAreGood ==
    ASSUME NEW d, IsPart(d), NEW b, IsPart(b)
    PROVE  /\ \A i \in 1..9 : Good(Causes[i], Verdicts(d, b)[i], d, b)
           /\ Verdicts(d, b)[3].is = "fired" => ~Lt(<<7, 10>>, Verdicts(d, b)[3].conf)
<1> DEFINE v == Verdicts(d, b)
<1>1. /\ v[1] = RuleThermal(d) /\ v[2] = RulePower(d) /\ v[3] = RuleClock(d, b)
      /\ v[4] = RuleContention(d, b) /\ v[5] = RuleECC(d, b)
      /\ v[6] = BandwidthDrop(OfKind(d, "pcie"), OfKind(b, "pcie"))
      /\ v[7] = BandwidthDrop(OfKind(d, "nvlink"), OfKind(b, "nvlink"))
      /\ v[8] = RuleMemory(d) /\ v[9] = RuleHostStall(d)
  BY DEF Verdicts
<1>2. /\ Causes[1] = "thermal_throttle" /\ Causes[2] = "power_throttle"
      /\ Causes[3] = "clock_reduced" /\ Causes[4] = "gpu_contention"
      /\ Causes[5] = "ecc_errors" /\ Causes[6] = "pcie_bandwidth_drop"
      /\ Causes[7] = "nvlink_degraded" /\ Causes[8] = "memory_pressure"
      /\ Causes[9] = "host_stall"
  BY DEF Causes
<1> HIDE DEF v
<1>3. Good(Causes[1], v[1], d, b) /\ Good(Causes[2], v[2], d, b)
  BY <1>1, <1>2, ThermalIsGood, PowerIsGood
<1>4. Good(Causes[3], v[3], d, b) /\ Good(Causes[4], v[4], d, b)
  BY <1>1, <1>2, ClockIsGood, ContentionIsGood
<1>5. Good(Causes[5], v[5], d, b)
  BY <1>1, <1>2, ECCIsGood
<1>6. Good(Causes[6], v[6], d, b)
  BY <1>1, <1>2, BandwidthIsGood
<1>7. Good(Causes[7], v[7], d, b)
  BY <1>1, <1>2, BandwidthIsGood
<1>8. Good(Causes[8], v[8], d, b) /\ Good(Causes[9], v[9], d, b)
  BY <1>1, <1>2, MeanIsGood
<1>9. v[3].is = "fired" => ~Lt(<<7, 10>>, v[3].conf)
  BY <1>1, ClockIsGood
<1>10. 1..9 = {1, 2, 3, 4, 5, 6, 7, 8, 9}
  OBVIOUS
<1> QED
  BY <1>3, <1>4, <1>5, <1>6, <1>7, <1>8, <1>9, <1>10 DEF v

----------------------------------------------------------------------------
(* The order of the chain. *)

LEMMA FractionsAreOrdered ==
    ASSUME NEW a \in Conf \cup {<<7, 10>>}, NEW b \in Conf \cup {<<7, 10>>},
           NEW c \in Conf \cup {<<7, 10>>}
    PROVE  /\ ~Lt(a, b) \/ ~Lt(b, a)
           /\ ~Lt(b, a) /\ ~Lt(c, b) => ~Lt(c, a)
<1>1. PICK p \in Nat \ {0}, q \in Nat \ {0} : a[1] = p /\ a[2] = q
  BY DEF Conf
<1>2. PICK r \in Nat \ {0}, s \in Nat \ {0} : b[1] = r /\ b[2] = s
  BY DEF Conf
<1>3. PICK t \in Nat \ {0}, u \in Nat \ {0} : c[1] = t /\ c[2] = u
  BY DEF Conf
<1>4. ~Lt(a, b) \/ ~Lt(b, a)
  BY <1>1, <1>2 DEF Lt
<1>5. ASSUME ~Lt(b, a), ~Lt(c, b) PROVE ~Lt(c, a)
  <2>1. p * s <= r * q /\ r * u <= t * s
    BY <1>1, <1>2, <1>3, <1>5 DEF Lt
  <2>2. (p * s) * u <= (r * q) * u /\ (r * u) * q <= (t * s) * q
    BY <2>1
  <2>3. (p * u) * s <= (t * q) * s
    BY <2>2
  <2>4. p * u <= t * q
    BY <2>3
  <2> QED
    BY <1>1, <1>3, <2>4 DEF Lt
<1> QED
  BY <1>4, <1>5

LEMMA RankedInOrder ==
    ASSUME NEW v, NEW F, F \subseteq 1..9, \A i \in F : v[i].conf \in Conf
    PROVE  /\ Cardinality(F) \in Nat /\ (F # {} => Cardinality(F) > 0)
           /\ Ranked(v, F) \in [1..Cardinality(F) -> F] /\ IsInjective(Ranked(v, F))
           /\ \A a, b \in 1..Cardinality(F) :
                  Surer(v, Ranked(v, F)[a], Ranked(v, F)[b]) => a < b
<1> DEFINE R == {p \in F \X F : Surer(v, p[1], p[2])}
           n == Cardinality(F)
           links == Ranked(v, F)
           Before(i) == {j \in F : Surer(v, j, i)}
<1>1. IsFiniteSet(F) /\ n \in Nat /\ (F # {} => n > 0)
  BY Numbers
<1>2. \A i, j \in F : <<i, j>> \in R <=> Surer(v, i, j)
  OBVIOUS
<1>3. \A i \in F : Below(F, R, i) = Before(i)
  BY DEF Below
<1> HIDE DEF R
<1>4. /\ \A i, j \in F : ~Lt(v[i].conf, v[j].conf) \/ ~Lt(v[j].conf, v[i].conf)
      /\ \A i, j, k \in F : ~Lt(v[j].conf, v[i].conf) /\ ~Lt(v[k].conf, v[j].conf)
                               => ~Lt(v[k].conf, v[i].conf)
  BY FractionsAreOrdered
<1>5. \A i \in F : ~Surer(v, i, i)
  <2> TAKE i \in F
  <2>1. i \in Nat /\ ~Lt(v[i].conf, v[i].conf)
    BY <1>4
  <2> QED
    BY <2>1 DEF Surer
<1>6. \A i, j \in F : i # j => Surer(v, i, j) \/ Surer(v, j, i)
  <2> TAKE i, j \in F
  <2>1. i \in Nat /\ j \in Nat
    OBVIOUS
  <2> QED
    BY <2>1 DEF Surer
<1>7. \A i, j, k \in F : Surer(v, i, j) /\ Surer(v, j, k) => Surer(v, i, k)
  <2> TAKE i, j, k \in F
  <2> DEFINE LE(x, y) == ~Lt(v[y].conf, v[x].conf)
  <2>1. i \in Nat /\ j \in Nat /\ k \in Nat
    OBVIOUS
  <2>2. /\ LE(i, j) \/ LE(j, i)
        /\ LE(j, k) \/ LE(k, j)
        /\ LE(i, k) \/ LE(k, i)
    BY <1>4
  <2>3. /\ LE(k, j) /\ LE(j, i) => LE(k, i)
        /\ LE(i, k) /\ LE(k, j) => LE(i, j)
        /\ LE(j, i) /\ LE(i, k) => LE(j, k)
    BY <1>4
  <2>4. \A x, y \in F : Surer(v, x, y) <=> ~LE(x, y) \/ (LE(y, x) /\ x < y)
    BY DEF Surer
  <2> HIDE DEF LE
  <2> QED
    BY <2>1, <2>2, <2>3, <2>4
<1>8. /\ \A k \in 1..n : \E i \in F : Cardinality(Before(i)) = k - 1
      /\ \A i, j \in F : Surer(v, i, j) => Cardinality(Before(i)) < Cardinality(Before(j))
  <2>1. /\ \A i \in F : <<i, i>> \notin R
        /\ \A i, j, k \in F : <<i, j>> \in R /\ <<j, k>> \in R => <<i, k>> \in R
        /\ \A i, j \in F : i # j => <<i, j>> \in R \/ <<j, i>> \in R
    BY <1>2, <1>5, <1>6, <1>7
  <2> HIDE DEF Before
  <2>2. /\ \A k \in 1..n : \E i \in F : Cardinality(Below(F, R, i)) = k - 1
        /\ \A i, j \in F : <<i, j>> \in R =>
               Cardinality(Below(F, R, i)) < Cardinality(Below(F, R, j))
    BY <1>1, <2>1, EveryPlaceIsTaken
  <2> QED
    BY <1>2, <1>3, <2>2
<1>9. links = [k \in 1..n |-> CHOOSE i \in F : Cardinality(Before(i)) = k - 1]
  BY DEF Ranked
<1> HIDE DEF links, Before, n
<1>10. \A k \in 1..n : links[k] \in F /\ Cardinality(Before(links[k])) = k - 1
  BY <1>8, <1>9
<1>11. links \in [1..n -> F]
  BY <1>9, <1>10
<1>12. IsInjective(links)
  BY <1>1, <1>10, <1>11 DEF IsInjective
<1>13. \A a, b \in 1..n : Surer(v, links[a], links[b]) => a < b
  <2> TAKE a, b \in 1..n
  <2> HAVE Surer(v, links[a], links[b])
  <2>1. a - 1 < b - 1
    BY <1>8, <1>10
  <2> QED
    BY <1>1, <2>1
<1> QED
  BY <1>1, <1>11, <1>12, <1>13 DEF links, n

----------------------------------------------------------------------------
(* The report. *)

FiredOf(v) == {i \in 1..9 : v[i].is = "fired"}
Links(v) == Ranked(v, FiredOf(v))

(* Its chain is the verdicts that fired, ranked, or one unknown; what it     *)
(* rules out are verdicts against.                                           *)
LEMMA ExplainedIs ==
    ASSUME NEW v
    PROVE  /\ FiredOf(v) = {} => Explained(v).chain = <<[cause |-> "unknown", conf |-> <<0, 1>>]>>
           /\ FiredOf(v) # {} =>
                  Explained(v).chain = [k \in DOMAIN Links(v) |->
                      [cause |-> Causes[Links(v)[k]], ev |-> v[Links(v)[k]].ev,
                       conf |-> v[Links(v)[k]].conf]]
           /\ \A c \in Range(Explained(v).ruledOut) :
                  \E i \in 1..9 : v[i].is = "against" /\ c = Causes[i]
<1> DEFINE A == {i \in 1..9 : v[i].is = "against"}
           q == [i \in 1..9 |-> i]
           against == Only(q, A)
<1>1. Explained(v).ruledOut = [k \in DOMAIN against |-> Causes[against[k]]]
  BY DEF Explained
<1>2. \A k \in DOMAIN against : against[k] \in (1..9) \cap A
  <2>1. q \in Seq(1..9)
    OBVIOUS
  <2> HIDE DEF q, A
  <2>2. against \in Seq((1..9) \cap A)
    BY <2>1, OnlyType
  <2> QED
    BY <2>2
<1>3. \A c \in Range(Explained(v).ruledOut) :
          \E i \in 1..9 : v[i].is = "against" /\ c = Causes[i]
  <2> HIDE DEF against
  <2> QED
    BY <1>1, <1>2 DEF Range
<1> QED
  BY <1>3 DEF Explained, FiredOf, Links

LEMMA CausesDiffer ==
    /\ \A i, j \in 1..9 : Causes[i] = Causes[j] => i = j
    /\ \A i \in 1..9 : Causes[i] # "unknown"
    /\ Range(Causes) = {Causes[i] : i \in 1..9}
    /\ Causes[1] = "thermal_throttle" /\ Causes[2] = "power_throttle" /\ Causes[3] = "clock_reduced"
<1>1. /\ Causes[1] = "thermal_throttle" /\ Causes[2] = "power_throttle"
      /\ Causes[3] = "clock_reduced" /\ Causes[4] = "gpu_contention"
      /\ Causes[5] = "ecc_errors" /\ Causes[6] = "pcie_bandwidth_drop"
      /\ Causes[7] = "nvlink_degraded" /\ Causes[8] = "memory_pressure"
      /\ Causes[9] = "host_stall"
  BY DEF Causes
<1>2. 1..9 = {1, 2, 3, 4, 5, 6, 7, 8, 9} /\ DOMAIN Causes = 1..9
  BY DEF Causes
<1>3. \A i, j \in 1..9 : Causes[i] = Causes[j] => i = j
  BY <1>1, <1>2
<1>4. \A i \in 1..9 : Causes[i] # "unknown"
  BY <1>1, <1>2
<1> QED
  BY <1>1, <1>2, <1>3, <1>4 DEF Range

(* The two parts of a rank's events that the rules look at. *)
LEMMA PartsOfEvents ==
    ASSUME NEW evs \in Seq(Event)
    PROVE  IsPart(During(evs, Lo, EndNs)) /\ IsPart(Baseline(evs, Lo))
<1>1. IsPart(evs)
  <2>1. Len(evs) \in Nat /\ DOMAIN evs = 1..Len(evs) /\ evs \in [1..Len(evs) -> Event]
    OBVIOUS
  <2> QED
    BY <2>1 DEF IsPart
<1>2. \A J : J \subseteq DOMAIN evs => IsPart(Restrict(evs, J))
  BY <1>1, PartOfPart
<1> DEFINE J == {i \in DOMAIN evs : evs[i].ts >= Lo /\ evs[i].ts <= EndNs}
           K == {i \in DOMAIN evs : evs[i].ts < Lo}
<1>3. J \subseteq DOMAIN evs /\ K \subseteq DOMAIN evs
  OBVIOUS
<1>4. During(evs, Lo, EndNs) = Restrict(evs, J) /\ Baseline(evs, Lo) = Restrict(evs, K)
  BY DEF During, Baseline
<1> HIDE DEF J, K
<1> QED
  BY <1>2, <1>3, <1>4

(* An event after the anomaly is in neither. *)
LEMMA LaterIsInNeither ==
    ASSUME NEW evs \in Seq(Event), NEW e \in Event, e.ts > EndNs
    PROVE  /\ During(Append(evs, e), Lo, EndNs) = During(evs, Lo, EndNs)
           /\ Baseline(Append(evs, e), Lo) = Baseline(evs, Lo)
<1> DEFINE more == Append(evs, e)
<1>1. /\ DOMAIN evs = 1..Len(evs) /\ DOMAIN more = 1..(Len(evs) + 1) /\ Len(evs) \in Nat
      /\ more[Len(evs) + 1] = e /\ \A i \in 1..Len(evs) : more[i] = evs[i]
  OBVIOUS
<1>2. e.ts \in Nat /\ ~(e.ts < Lo) /\ ~(e.ts <= EndNs)
  BY AttributionAssumption DEF Event
<1> HIDE DEF more
<1>3. {i \in DOMAIN more : more[i].ts >= Lo /\ more[i].ts <= EndNs}
      = {i \in DOMAIN evs : evs[i].ts >= Lo /\ evs[i].ts <= EndNs}
  BY <1>1, <1>2
<1>4. {i \in DOMAIN more : more[i].ts < Lo} = {i \in DOMAIN evs : evs[i].ts < Lo}
  BY <1>1, <1>2
<1>5. \A J : J \subseteq DOMAIN evs => Restrict(more, J) = Restrict(evs, J)
  BY <1>1 DEF Restrict
<1>6. During(more, Lo, EndNs) = During(evs, Lo, EndNs)
  BY <1>3, <1>5 DEF During
<1>7. Baseline(more, Lo) = Baseline(evs, Lo)
  BY <1>4, <1>5 DEF Baseline
<1> QED
  BY <1>6, <1>7 DEF more

(* The chain is of verdicts that fired, at the places l; the surer first. *)
Lists(chain, l, v, d) ==
    /\ \E n \in Nat \ {0} : l \in [1..n -> 1..9] /\ DOMAIN chain = 1..n
    /\ IsInjective(l)
    /\ \A k \in DOMAIN chain :
           /\ v[l[k]].is = "fired"
           /\ chain[k].cause = Causes[l[k]]
           /\ chain[k].conf = v[l[k]].conf /\ chain[k].conf \in Conf
           /\ chain[k].ev \in Range(d)
    /\ \A i, j \in DOMAIN chain : Surer(v, l[i], l[j]) => i < j

NoChain == <<[cause |-> "unknown", conf |-> <<0, 1>>]>>

LEMMA ReportLists ==
    ASSUME NEW d, IsPart(d), NEW b, IsPart(b)
    PROVE  LET v == Verdicts(d, b)
           IN  Explained(v).chain = NoChain \/ \E l : Lists(Explained(v).chain, l, v, d)
<1> DEFINE v == Verdicts(d, b)
           F == FiredOf(v)
           l == Links(v)
           chain == Explained(v).chain
           n == Cardinality(F)
<1>1. ASSUME NEW i \in F
      PROVE  v[i].is = "fired" /\ v[i].conf \in Conf /\ v[i].ev \in Range(d)
  <2>1. i \in 1..9 /\ v[i].is = "fired"
    BY DEF FiredOf
  <2>2. IsVerdict(v[i], d)
    BY <2>1, VerdictsAreGood DEF Good
  <2> HIDE DEF v
  <2>3. v[i] \notin {NoData, Against}
    BY <2>1 DEF NoData, Against
  <2>4. PICK e \in Range(d), c \in Conf : v[i] = Fired(e, c)
    BY <2>2, <2>3 DEF IsVerdict
  <2>5. Fired(e, c).conf = c /\ Fired(e, c).ev = e
    BY DEF Fired
  <2> QED
    BY <2>1, <2>4, <2>5
<1>2. F \subseteq 1..9
  BY DEF FiredOf
<1> HIDE DEF v, F
<1>3. /\ n \in Nat /\ (F # {} => n > 0)
      /\ l \in [1..n -> F] /\ IsInjective(l)
      /\ \A i, j \in 1..n : Surer(v, l[i], l[j]) => i < j
  <2>1. l = Ranked(v, F)
    BY DEF F, Links
  <2> HIDE DEF n, l
  <2> QED
    BY <1>1, <1>2, <2>1, RankedInOrder DEF n
<1>4. CASE F = {}
  BY <1>4, ExplainedIs DEF F, v, NoChain
<1>5. CASE F # {}
  <2>1. chain = [k \in DOMAIN l |-> [cause |-> Causes[l[k]], ev |-> v[l[k]].ev, conf |-> v[l[k]].conf]]
    BY <1>5, ExplainedIs DEF F
  <2> HIDE DEF n, l, chain
  <2>2. n \in Nat \ {0} /\ l \in [1..n -> 1..9] /\ DOMAIN chain = 1..n
    <3>1. DOMAIN l = 1..n /\ DOMAIN chain = DOMAIN l
      BY <1>3, <2>1
    <3>2. l \in [1..n -> 1..9]
      BY <1>2, <1>3
    <3> QED
      BY <1>3, <1>5, <3>1, <3>2
  <2>3. ASSUME NEW k \in DOMAIN chain
        PROVE  /\ v[l[k]].is = "fired" /\ chain[k].cause = Causes[l[k]]
               /\ chain[k].conf = v[l[k]].conf /\ chain[k].conf \in Conf
               /\ chain[k].ev \in Range(d)
    <3>1. k \in 1..n /\ l[k] \in F /\ k \in DOMAIN l
      BY <1>3, <2>2
    <3>2. chain[k] = [cause |-> Causes[l[k]], ev |-> v[l[k]].ev, conf |-> v[l[k]].conf]
      BY <2>1, <3>1
    <3> QED
      BY <1>1, <3>1, <3>2
  <2>4. Lists(chain, l, v, d)
    BY <1>3, <2>2, <2>3 DEF Lists
  <2> QED
    BY <2>4 DEF v, chain
<1> QED
  BY <1>4, <1>5

----------------------------------------------------------------------------
(* The theorems. *)

(* The report is what the rules say of the events so far. *)
IInv == rankEvents \in Seq(Event) /\ report = Attribute(rankEvents, Lo, EndNs)

THEOREM Invariant == Spec => []IInv
<1>1. Init => IInv
  BY DEF Init, IInv
<1>2. IInv /\ [Next]_vars => IInv'
  <2> SUFFICES ASSUME IInv, [Next]_vars PROVE IInv'
    OBVIOUS
  <2>1. ASSUME NEW s \in Samples, NEW t \in 0..MaxTime, Observe(s, t) PROVE IInv'
    <3>1. [ts |-> t, is |-> s] \in Event
      BY DEF Event
    <3>2. rankEvents' \in Seq(Event)
      BY <2>1, <3>1 DEF IInv, Observe
    <3> QED
      BY <2>1, <3>2 DEF IInv, Observe
  <2>2. CASE UNCHANGED vars
    BY <2>2 DEF IInv, vars
  <2> QED
    BY <2>1, <2>2 DEF Next
<1> QED
  BY <1>1, <1>2, PTL DEF Spec

(* TypeOK: a report names a cause, no cause twice nor both found and ruled    *)
(* out, none with certainty (engine.go:64-105, 361-362).                      *)
THEOREM TypeCorrect == Spec => []TypeOK
<1>1. IInv => TypeOK
  <2> SUFFICES ASSUME IInv PROVE TypeOK
    OBVIOUS
  <2> DEFINE d == During(rankEvents, Lo, EndNs)
             b == Baseline(rankEvents, Lo)
             v == Verdicts(d, b)
  <2>1. \A e \in Range(rankEvents) : e.ts \in 0..MaxTime /\ e.is \in Samples
    <3>1. rankEvents \in Seq(Event)
      BY DEF IInv
    <3>2. \A i \in DOMAIN rankEvents : rankEvents[i] \in Event
      BY <3>1
    <3> QED
      BY <3>2 DEF Range, Event
  <2>2. IsPart(d) /\ IsPart(b)
    BY PartsOfEvents DEF IInv
  <2>3. report = Explained(v)
    BY DEF IInv, Attribute
  <2>4. report.chain = NoChain \/ \E l : Lists(report.chain, l, v, d)
    <3> HIDE DEF d, b
    <3> QED
      BY <2>2, <2>3, ReportLists
  <2> HIDE DEF d, v
  <2>5. \A c \in Range(report.ruledOut) : \E i \in 1..9 : v[i].is = "against" /\ c = Causes[i]
    BY <2>3, ExplainedIs
  <2>6. CASE report.chain = NoChain
    <3>1. /\ DOMAIN report.chain = {1} /\ report.chain # <<>>
          /\ report.chain[1].cause = "unknown" /\ report.chain[1].conf = <<0, 1>>
      BY <2>6 DEF NoChain
    <3>2. "unknown" \notin Range(report.ruledOut)
      BY <2>5, CausesDiffer
    <3>3. ~Lt(<<95, 100>>, <<0, 1>>)
      BY DEF Lt
    <3> QED
      BY <2>1, <3>1, <3>2, <3>3 DEF TypeOK, IsInjective
  <2>7. ASSUME NEW l, Lists(report.chain, l, v, d) PROVE TypeOK
    <3>1. PICK n \in Nat \ {0} : l \in [1..n -> 1..9] /\ DOMAIN report.chain = 1..n
      BY <2>7 DEF Lists
    <3>2. \A k \in 1..n : /\ v[l[k]].is = "fired" /\ report.chain[k].cause = Causes[l[k]]
                          /\ report.chain[k].conf \in Conf /\ l[k] \in 1..9
      BY <2>7, <3>1 DEF Lists
    <3>3. report.chain # <<>>
      BY <3>1
    <3>4. IsInjective([k \in DOMAIN report.chain |-> report.chain[k].cause])
      <4>1. \A i, j \in 1..n : report.chain[i].cause = report.chain[j].cause => i = j
        <5>1. \A i, j \in 1..n : l[i] = l[j] => i = j
          BY <2>7, <3>1 DEF Lists, IsInjective
        <5>2. \A i, j \in 1..n : Causes[l[i]] = Causes[l[j]] => l[i] = l[j]
          BY <3>2, CausesDiffer
        <5> QED
          BY <3>2, <5>1, <5>2
      <4> QED
        BY <3>1, <4>1 DEF IsInjective
    <3>5. ASSUME NEW k \in 1..n PROVE report.chain[k].cause \notin Range(report.ruledOut)
      BY <2>5, <3>2, CausesDiffer
    <3>6. \A c \in Conf : Lt(<<0, 1>>, c) /\ ~Lt(<<95, 100>>, c)
      BY DEF Conf, Lt
    <3> QED
      BY <2>1, <3>1, <3>2, <3>3, <3>4, <3>5, <3>6 DEF TypeOK
  <2> QED
    BY <2>4, <2>6, <2>7
<1> QED
  BY <1>1, Invariant, PTL

(* What is judged is backed, and what is found lies in the window.           *)
THEOREM BackedByReadings == Spec => []ClaimsAreBacked
<1>1. IInv => ClaimsAreBacked
  <2> SUFFICES ASSUME IInv PROVE ClaimsAreBacked
    OBVIOUS
  <2> DEFINE d == During(rankEvents, Lo, EndNs)
             b == Baseline(rankEvents, Lo)
             v == Verdicts(d, b)
  <2>1. IsPart(d) /\ IsPart(b)
    BY PartsOfEvents DEF IInv
  <2>2. report = Explained(v)
    BY DEF IInv, Attribute
  <2>3. report.chain = NoChain \/ \E l : Lists(report.chain, l, v, d)
    <3> HIDE DEF d, b
    <3> QED
      BY <2>1, <2>2, ReportLists
  <2>4. \A i \in 1..9 : Backed(Causes[i], v[i], d, b)
    <3> HIDE DEF d, b
    <3> QED
      BY <2>1, VerdictsAreGood DEF Good
  <2> HIDE DEF d, b, v
  <2>5. \A c \in Range(report.ruledOut) : \E i \in 1..9 : v[i].is = "against" /\ c = Causes[i]
    BY <2>2, ExplainedIs
  <2>6. ASSUME NEW c \in Range(Causes), Judged(c)
        PROVE  \E i \in 1..9 : v[i].is \in {"fired", "against"} /\ c = Causes[i]
    <3>1. CASE c \in Range(report.ruledOut)
      BY <2>5, <3>1
    <3>2. CASE Fires(c)
      <4>1. PICK k \in DOMAIN report.chain : report.chain[k].cause = c
        BY <3>2 DEF Fires
      <4>2. report.chain # NoChain
        <5>1. c # "unknown"
          BY CausesDiffer
        <5> QED
          BY <4>1, <5>1 DEF NoChain
      <4>3. PICK l : Lists(report.chain, l, v, d)
        BY <2>3, <4>2
      <4>4. v[l[k]].is = "fired" /\ c = Causes[l[k]] /\ l[k] \in 1..9
        BY <4>1, <4>3 DEF Lists
      <4> QED
        BY <4>4
    <3> QED
      BY <2>6, <3>1, <3>2 DEF Judged
  <2>7. ASSUME NEW c \in Range(Causes), Judged(c)
        PROVE  /\ Read(c, d) \/ (c = "ecc_errors" /\ Read(c, b))
               /\ c \in Comparing => Read(c, b)
    <3>1. PICK i \in 1..9 : v[i].is \in {"fired", "against"} /\ c = Causes[i]
      BY <2>6, <2>7
    <3>2. Backed(c, v[i], d, b) /\ v[i].is # "nodata"
      BY <2>4, <3>1
    <3> QED
      BY <3>2 DEF Backed
  <2>8. ASSUME NEW x \in Range(report.chain), x.cause # "unknown" PROVE x.ev \in Range(d)
    <3>1. PICK k \in DOMAIN report.chain : x = report.chain[k]
      BY DEF Range
    <3>2. report.chain # NoChain
      BY <2>8, <3>1 DEF NoChain
    <3>3. PICK l : Lists(report.chain, l, v, d)
      BY <2>3, <3>2
    <3> QED
      BY <3>1, <3>3 DEF Lists
  <2> QED
    BY <2>7, <2>8 DEF ClaimsAreBacked, d, b
<1> QED
  BY <1>1, Invariant, PTL

(* A change that is reported was seen in a pair of samples: medians invent    *)
(* none, whatever the numbers of samples; and ECC counters that are reported  *)
(* to have risen rose in the window (engine.go:178-224, 226-253, 291-302).    *)
THEOREM RealChanges == Spec => []ChangesAreReal
<1>1. IInv => ChangesAreReal
  <2> SUFFICES ASSUME IInv PROVE ChangesAreReal
    OBVIOUS
  <2> DEFINE d == During(rankEvents, Lo, EndNs)
             b == Baseline(rankEvents, Lo)
             v == Verdicts(d, b)
  <2>1. IsPart(d) /\ IsPart(b)
    BY PartsOfEvents DEF IInv
  <2>2. report = Explained(v)
    BY DEF IInv, Attribute
  <2>3. report.chain = NoChain \/ \E l : Lists(report.chain, l, v, d)
    <3> HIDE DEF d, b
    <3> QED
      BY <2>1, <2>2, ReportLists
  <2>4. \A i \in 1..9 : Real(Causes[i], v[i], d, b)
    <3> HIDE DEF d, b
    <3> QED
      BY <2>1, VerdictsAreGood DEF Good
  <2> HIDE DEF d, b, v
  <2>5. ASSUME NEW c, c # "unknown", Fires(c)
        PROVE  \E i \in 1..9 : v[i].is = "fired" /\ c = Causes[i]
    <3>1. PICK k \in DOMAIN report.chain : report.chain[k].cause = c
      BY <2>5 DEF Fires
    <3>2. report.chain # NoChain
      BY <2>5, <3>1 DEF NoChain
    <3>3. PICK l : Lists(report.chain, l, v, d)
      BY <2>3, <3>2
    <3>4. v[l[k]].is = "fired" /\ c = Causes[l[k]] /\ l[k] \in 1..9
      BY <3>1, <3>3 DEF Lists
    <3> QED
      BY <3>4
  <2>6. ASSUME NEW c \in Comparing, Fires(c)
        PROVE  \E x \in Range(d), y \in Range(b) :
                   Reading(c, x) /\ Reading(c, y) /\ Worse(c, x, y)
    <3>1. c # "unknown"
      BY DEF Comparing
    <3>2. PICK i \in 1..9 : v[i].is = "fired" /\ c = Causes[i]
      BY <2>5, <2>6, <3>1
    <3>3. Real(c, v[i], d, b)
      BY <2>4, <3>2
    <3> QED
      BY <3>2, <3>3 DEF Real
  <2>7. Fires("ecc_errors") => RoseWithin(d, b)
    <3> SUFFICES ASSUME Fires("ecc_errors") PROVE RoseWithin(d, b)
      OBVIOUS
    <3>1. PICK i \in 1..9 : v[i].is = "fired" /\ "ecc_errors" = Causes[i]
      BY <2>5
    <3>2. Real("ecc_errors", v[i], d, b)
      BY <2>4, <3>1
    <3> QED
      BY <3>1, <3>2 DEF Real
  <2> QED
    BY <2>6, <2>7 DEF ChangesAreReal, d, b
<1> QED
  BY <1>1, Invariant, PTL

(* A clear throttle is named before the clock drop it causes, however deep    *)
(* the drop: confidences compare as fractions, and a tie keeps the order of   *)
(* the rules (engine.go:95-97, 195-197).                                      *)
THEOREM ThrottleFirst == Spec => []ThrottleOutranksClock
<1>1. IInv => ThrottleOutranksClock
  <2> SUFFICES ASSUME IInv, NEW j \in DOMAIN report.chain, NEW k \in DOMAIN report.chain,
                      report.chain[j].cause = "clock_reduced",
                      report.chain[k].cause \in {"thermal_throttle", "power_throttle"},
                      ~Lt(report.chain[k].conf, <<7, 10>>)
               PROVE  k < j
    BY DEF ThrottleOutranksClock
  <2> DEFINE d == During(rankEvents, Lo, EndNs)
             b == Baseline(rankEvents, Lo)
             v == Verdicts(d, b)
  <2>1. IsPart(d) /\ IsPart(b)
    BY PartsOfEvents DEF IInv
  <2>2. report = Explained(v)
    BY DEF IInv, Attribute
  <2>3. report.chain = NoChain \/ \E l : Lists(report.chain, l, v, d)
    <3> HIDE DEF d, b
    <3> QED
      BY <2>1, <2>2, ReportLists
  <2>4. v[3].is = "fired" => ~Lt(<<7, 10>>, v[3].conf)
    <3> HIDE DEF d, b
    <3> QED
      BY <2>1, VerdictsAreGood
  <2> HIDE DEF d, b, v
  <2>5. PICK l : Lists(report.chain, l, v, d)
    <3>1. report.chain # NoChain
      BY DEF NoChain
    <3> QED
      BY <2>3, <3>1
  <2>6. l[j] = 3 /\ l[k] \in {1, 2}
    <3>1. l[j] \in 1..9 /\ l[k] \in 1..9
      BY <2>5 DEF Lists
    <3>2. Causes[l[j]] = Causes[3] /\ Causes[l[k]] \in {Causes[1], Causes[2]}
      BY <2>5, CausesDiffer DEF Lists
    <3> QED
      BY <3>1, <3>2, CausesDiffer
  <2>7. /\ v[l[j]].is = "fired"
        /\ v[l[j]].conf \in Conf /\ v[l[k]].conf \in Conf
        /\ report.chain[k].conf = v[l[k]].conf
    BY <2>5 DEF Lists
  <2>8. ~Lt(<<7, 10>>, v[l[j]].conf) /\ ~Lt(v[l[k]].conf, <<7, 10>>)
    BY <2>4, <2>6, <2>7
  <2>9. ~Lt(v[l[k]].conf, v[l[j]].conf)
    BY <2>7, <2>8, FractionsAreOrdered
  <2>10. Surer(v, l[k], l[j])
    BY <2>6, <2>9 DEF Surer
  <2> QED
    BY <2>5, <2>10 DEF Lists
<1> QED
  BY <1>1, Invariant, PTL

(* What happens after the anomaly changes nothing in its report.             *)
THEOREM LaterEventsAreIgnored == Spec => LaterEventsChangeNothing
<1>1. IInv /\ [Next]_vars => [Last(rankEvents').ts > EndNs => report' = report]_vars
  <2> SUFFICES ASSUME IInv, NEW s \in Samples, NEW t \in 0..MaxTime, Observe(s, t),
                      Last(rankEvents').ts > EndNs
               PROVE  report' = report
    BY DEF Next
  <2> DEFINE e == [ts |-> t, is |-> s]
  <2>1. e \in Event /\ rankEvents \in Seq(Event)
    BY DEF Event, IInv
  <2>2. rankEvents' = Append(rankEvents, e) /\ report' = Attribute(rankEvents', Lo, EndNs)
    BY DEF Observe
  <2> HIDE DEF e
  <2>3. e.ts > EndNs
    BY <2>1, <2>2, AppendedTo
  <2>4. Attribute(Append(rankEvents, e), Lo, EndNs) = Attribute(rankEvents, Lo, EndNs)
    BY <2>1, <2>3, LaterIsInNeither DEF Attribute
  <2> QED
    BY <2>2, <2>4 DEF IInv
<1> QED
  BY <1>1, Invariant, PTL DEF Spec, LaterEventsChangeNothing
===============================================================================
