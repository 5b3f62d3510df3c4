--------------------------- MODULE CorrelatorProofs ---------------------------
(* Whatever arrives, in whatever order and however often, for any number of   *)
(* ranks and collectives and every lookback: the store keeps each rank's      *)
(* window in time order, and each rank's latest report of a collective.       *)
EXTENDS Correlator, FlowLemmas, FiniteSetTheorems, TLAPS

Sorted(q) == \A i, j \in DOMAIN q : i < j => q[i].ts <= q[j].ts

LEMMA InputsAre ==
    \A e \in Inputs : e.ts \in Nat /\ e.rank \in Rank /\ e.key \in Key \cup {NoKey}
  BY CorrelatorAssumption

(* In a history in time order, a search finds where the later ones begin.     *)
LEMMA SearchFinds ==
    ASSUME NEW q \in Seq(Inputs), Sorted(q), NEW t \in Int
    PROVE  /\ UpThrough(q, t) \in 0..Len(q)
           /\ \A i \in 1..UpThrough(q, t) : q[i].ts <= t
           /\ \A i \in (UpThrough(q, t) + 1)..Len(q) : q[i].ts > t
<1>1. \A i \in 1..Len(q) : q[i] \in Inputs /\ q[i].ts \in Nat
  BY InputsAre
<1> DEFINE T == {n \in 0..Len(q) : \A i \in 1..Len(q) : i > n => q[i].ts > t}
<1>2. Len(q) \in T /\ T \subseteq Nat
  OBVIOUS
<1>3. PICK n \in T : \A m \in T : ~(m < n)
  <2> HIDE DEF T
  <2> QED
    BY <1>2, LeastElement
<1>4. \A i \in 1..n : q[i].ts <= t
  <2> SUFFICES ASSUME n > 0 PROVE \A i \in 1..n : q[i].ts <= t
    BY <1>3
  <2>1. n - 1 \notin T /\ n - 1 \in 0..Len(q)
    BY <1>3
  <2>2. q[n].ts <= t
    BY <1>1, <1>3, <2>1
  <2>3. \A i \in 1..n : q[i].ts <= q[n].ts
    BY <1>1, <1>3 DEF Sorted
  <2> QED
    BY <1>1, <1>3, <2>2, <2>3
<1>5. {i \in DOMAIN q : q[i].ts <= t} = 1..n
  BY <1>1, <1>3, <1>4
<1>6. UpThrough(q, t) = n
  <2>1. n \in Nat
    BY <1>3
  <2>2. Cardinality(1..n) = n
    BY <2>1, FS_Interval
  <2> QED
    BY <1>5, <2>2 DEF UpThrough
<1> QED
  BY <1>1, <1>3, <1>4, <1>6

LEMMA SearchBefore ==
    ASSUME NEW q \in Seq(Inputs), Sorted(q), NEW t \in Int
    PROVE  /\ Before(q, t) \in 0..Len(q)
           /\ \A i \in 1..Before(q, t) : q[i].ts < t
           /\ \A i \in (Before(q, t) + 1)..Len(q) : q[i].ts >= t
<1>1. \A i \in 1..Len(q) : q[i].ts \in Nat
  BY InputsAre
<1>2. {i \in DOMAIN q : q[i].ts < t} = {i \in DOMAIN q : q[i].ts <= t - 1}
  BY <1>1
<1>3. Before(q, t) = UpThrough(q, t - 1) /\ t - 1 \in Int
  <2>1. Before(q, t) = Cardinality({i \in DOMAIN q : q[i].ts < t})
    BY DEF Before
  <2>2. UpThrough(q, t - 1) = Cardinality({i \in DOMAIN q : q[i].ts <= t - 1})
    BY DEF UpThrough
  <2> DEFINE A == {i \in DOMAIN q : q[i].ts < t}
             B == {i \in DOMAIN q : q[i].ts <= t - 1}
  <2>3. A = B /\ Before(q, t) = Cardinality(A) /\ UpThrough(q, t - 1) = Cardinality(B)
    BY <1>2, <2>1, <2>2
  <2> HIDE DEF A, B
  <2> QED
    BY <2>3
<1>4. /\ UpThrough(q, t - 1) \in 0..Len(q)
      /\ \A i \in 1..UpThrough(q, t - 1) : q[i].ts <= t - 1
      /\ \A i \in (UpThrough(q, t - 1) + 1)..Len(q) : q[i].ts > t - 1
  BY <1>3, SearchFinds
<1> QED
  BY <1>1, <1>3, <1>4

(* The two pieces of a history, by their places. *)
LEMMA Pieces ==
    ASSUME NEW S, NEW q \in Seq(S), NEW n \in 0..Len(q)
    PROVE  /\ Len(SubSeq(q, 1, n)) = n /\ Len(SubSeq(q, n + 1, Len(q))) = Len(q) - n
           /\ \A i \in 1..n : SubSeq(q, 1, n)[i] = q[i]
           /\ \A i \in 1..(Len(q) - n) : SubSeq(q, n + 1, Len(q))[i] = q[n + i]
  OBVIOUS

(* A search and an insertion keep the order, and the order of arrival at one  *)
(* instant.                                                                  *)
LEMMA InsertKeepsOrder ==
    ASSUME NEW S \in SUBSET Inputs, NEW q \in Seq(S), Sorted(q), NEW e \in S
    PROVE  /\ Insert(q, e) \in Seq(S) /\ Sorted(Insert(q, e))
           /\ \A t : Only(Insert(q, e), At(t)) =
                         IF e.ts = t THEN Append(Only(q, At(t)), e) ELSE Only(q, At(t))
<1> DEFINE n == UpThrough(q, e.ts)
           a == SubSeq(q, 1, n)
           b == SubSeq(q, n + 1, Len(q))
           w == <<e>>
           r == a \o w \o b
<1>1. q \in Seq(Inputs) /\ e \in Inputs /\ e.ts \in Int
  BY InputsAre
<1>2. /\ n \in 0..Len(q) /\ \A i \in 1..n : q[i].ts <= e.ts
      /\ \A i \in (n + 1)..Len(q) : q[i].ts > e.ts
  BY <1>1, SearchFinds
<1>3. \A i \in 1..Len(q) : q[i].ts \in Nat /\ q[i] \in Inputs
  BY <1>1, InputsAre
<1> HIDE DEF n
<1>4. a \in Seq(S) /\ b \in Seq(S) /\ q = a \o b
  BY <1>2, CutInTwo
<1>5. /\ Len(a) = n /\ Len(b) = Len(q) - n
      /\ \A i \in 1..n : a[i] = q[i]
      /\ \A i \in 1..(Len(q) - n) : b[i] = q[n + i]
  BY <1>2, Pieces
<1>6. Insert(q, e) = r
  <2>1. (n + 1) - 1 = n
    BY <1>2
  <2>2. Insert(q, e) = InsertAt(q, n + 1, e)
    BY DEF Insert, n
  <2>3. InsertAt(q, n + 1, e) = SubSeq(q, 1, (n + 1) - 1) \o <<e>> \o SubSeq(q, n + 1, Len(q))
    BY DEF InsertAt
  <2> QED
    BY <2>1, <2>2, <2>3
<1>7. w \in Seq(S) /\ Len(w) = 1 /\ w[1] = e
  OBVIOUS
<1> HIDE DEF a, b, w
<1>8. /\ a \o w \in Seq(S) /\ r \in Seq(S) /\ Len(r) = Len(q) + 1
      /\ \A i \in 1..(Len(q) + 1) :
             r[i] = IF i <= n THEN q[i] ELSE IF i = n + 1 THEN e ELSE q[i - 1]
  <2>1. a \o w \in Seq(S) /\ Len(a \o w) = n + 1
    <3>1. a \o w \in Seq(S) /\ Len(a \o w) = Len(a) + Len(w)
      BY <1>4, <1>7, ConcatProperties
    <3> QED
      BY <1>2, <1>5, <1>7, <3>1
  <2>2. \A i \in 1..(n + 1) : (a \o w)[i] = IF i <= n THEN q[i] ELSE e
    BY <1>2, <1>4, <1>5, <1>7, ConcatProperties
  <2> DEFINE c == a \o w
  <2>3. c \in Seq(S) /\ Len(c) = n + 1 /\ \A i \in 1..(n + 1) : c[i] = IF i <= n THEN q[i] ELSE e
    BY <2>1, <2>2
  <2> HIDE DEF c
  <2>4. c \o b \in Seq(S) /\ Len(c \o b) = Len(q) + 1
    BY <1>2, <1>4, <1>5, <2>3, ConcatProperties
  <2>5. \A i \in 1..(Len(q) + 1) : (c \o b)[i] = IF i <= n + 1 THEN c[i] ELSE b[i - (n + 1)]
    BY <1>2, <1>4, <1>5, <2>3, ConcatProperties
  <2>6. \A i \in 1..(Len(q) + 1) : i > n + 1 => b[i - (n + 1)] = q[i - 1]
    BY <1>2, <1>5
  <2>7. \A i \in 1..(Len(q) + 1) :
             (c \o b)[i] = IF i <= n THEN q[i] ELSE IF i = n + 1 THEN e ELSE q[i - 1]
    <3> TAKE i \in 1..(Len(q) + 1)
    <3> DEFINE x == (c \o b)[i]
    <3>1. x = IF i <= n + 1 THEN c[i] ELSE b[i - (n + 1)]
      BY <2>5
    <3>2. i <= n + 1 => c[i] = IF i <= n THEN q[i] ELSE e
      BY <1>2, <2>3
    <3>3. i > n + 1 => b[i - (n + 1)] = q[i - 1]
      BY <2>6
    <3> HIDE DEF x
    <3>4. x = IF i <= n THEN q[i] ELSE IF i = n + 1 THEN e ELSE q[i - 1]
      BY <1>2, <3>1, <3>2, <3>3
    <3> QED
      BY <3>4 DEF x
  <2> QED
    BY <2>1, <2>4, <2>7 DEF c
<1> HIDE DEF r
<1>9. Sorted(r)
  <2>0. DOMAIN r = 1..(Len(q) + 1)
    BY <1>8
  <2> SUFFICES ASSUME NEW i \in 1..(Len(q) + 1), NEW j \in 1..(Len(q) + 1), i < j
               PROVE  r[i].ts <= r[j].ts
    BY <2>0 DEF Sorted
  <2>a. /\ r[i] = IF i <= n THEN q[i] ELSE IF i = n + 1 THEN e ELSE q[i - 1]
        /\ r[j] = IF j <= n THEN q[j] ELSE IF j = n + 1 THEN e ELSE q[j - 1]
        /\ n \in Nat /\ n <= Len(q) /\ Len(q) \in Nat
    BY <1>2, <1>8
  <2>1. CASE i <= n /\ j <= n
    BY <2>a, <2>1 DEF Sorted
  <2>2. CASE i <= n /\ j = n + 1
    <3>1. r[i] = q[i] /\ r[j] = e /\ i \in 1..n
      BY <2>a, <2>2
    <3> QED
      BY <1>2, <3>1
  <2>3. CASE i <= n /\ j > n + 1
    <3>1. r[i] = q[i] /\ r[j] = q[j - 1] /\ i \in 1..Len(q) /\ j - 1 \in 1..Len(q) /\ i < j - 1
      BY <2>a, <2>3
    <3> QED
      BY <3>1 DEF Sorted
  <2>4. CASE i = n + 1 /\ j > n + 1
    <3>1. r[i] = e /\ r[j] = q[j - 1] /\ j - 1 \in (n + 1)..Len(q) /\ j - 1 \in 1..Len(q)
      BY <2>a, <2>4
    <3>2. q[j - 1].ts > e.ts /\ q[j - 1].ts \in Nat
      BY <1>2, <1>3, <3>1
    <3> QED
      BY <1>1, <3>1, <3>2
  <2>5. CASE i > n + 1 /\ j > n + 1
    <3>1. /\ r[i] = q[i - 1] /\ r[j] = q[j - 1] /\ i - 1 \in 1..Len(q) /\ j - 1 \in 1..Len(q)
          /\ i - 1 < j - 1
      BY <2>a, <2>5
    <3> QED
      BY <3>1 DEF Sorted
  <2> QED
    BY <2>a, <2>1, <2>2, <2>3, <2>4, <2>5
<1>10. ASSUME NEW t
       PROVE  Only(r, At(t)) = IF e.ts = t THEN Append(Only(q, At(t)), e) ELSE Only(q, At(t))
  <2> DEFINE T == At(t)
             oa == Only(a, T)
             ob == Only(b, T)
  <2>1. Only(r, T) = Only(a \o w, T) \o ob
    <3> DEFINE c == a \o w
    <3>1. c \in Seq(S)
      BY <1>8
    <3> HIDE DEF c
    <3>2. Only(c \o b, T) = Only(c, T) \o Only(b, T)
      BY <1>4, <3>1, OnlyConcat
    <3> QED
      BY <3>2 DEF c, r
  <2>2. Only(a \o w, T) = IF e \in T THEN Append(oa, e) ELSE oa
    <3>1. a \o w = Append(a, e)
      BY <1>4, AppendIsConcat DEF w
    <3> QED
      BY <1>4, <3>1, OnlyAppend
  <2>3. Only(q, T) = oa \o ob
    <3>1. Only(a \o b, T) = Only(a, T) \o Only(b, T)
      BY <1>4, OnlyConcat
    <3> QED
      BY <1>4, <3>1
  <2>4. e \in T <=> e.ts = t
    BY <1>1 DEF At
  <2>5. CASE e.ts = t
    <3>1. \A i \in DOMAIN b : b[i] \notin T
      <4> SUFFICES ASSUME NEW i \in 1..(Len(q) - n) PROVE b[i].ts # t
        BY <1>4, <1>5 DEF At
      <4>1. n + i \in (n + 1)..Len(q) /\ n + i \in 1..Len(q) /\ b[i] = q[n + i]
        BY <1>2, <1>5
      <4> QED
        BY <1>1, <1>2, <1>3, <2>5, <4>1
    <3> HIDE DEF T
    <3>2. ob = <<>>
      BY <1>4, <3>1, OnlyNone
    <3>3. oa \in Seq(S \cap T) /\ e \in S \cap T
      BY <1>4, <2>4, <2>5, OnlyType
    <3> HIDE DEF oa, ob
    <3>4. Append(oa, e) \in Seq(S \cap T)
      BY <3>3
    <3>5. Append(oa, e) \o <<>> = Append(oa, e) /\ oa \o <<>> = oa
      BY <3>3, <3>4, ConcatEmptySeq
    <3> QED
      BY <2>1, <2>2, <2>3, <2>4, <2>5, <3>2, <3>5 DEF T
  <2>6. CASE e.ts # t
    BY <2>1, <2>2, <2>3, <2>4, <2>6
  <2> QED
    BY <2>5, <2>6
<1> QED
  BY <1>6, <1>8, <1>9, <1>10

(* A search and a trim drop what is older, and nothing else.                  *)
LEMMA TrimKeepsOrder ==
    ASSUME NEW S \in SUBSET Inputs, NEW q \in Seq(S), Sorted(q), NEW u \in Int
    PROVE  LET r == SubSeq(q, Before(q, u) + 1, Len(q))
           IN  /\ r \in Seq(S) /\ Sorted(r)
               /\ \A t \in Int : Only(r, At(t)) = IF t >= u THEN Only(q, At(t)) ELSE <<>>
<1> DEFINE n == Before(q, u)
           a == SubSeq(q, 1, n)
           b == SubSeq(q, n + 1, Len(q))
<1>1. q \in Seq(Inputs)
  OBVIOUS
<1>2. /\ n \in 0..Len(q) /\ \A i \in 1..n : q[i].ts < u
      /\ \A i \in (n + 1)..Len(q) : q[i].ts >= u
  BY <1>1, SearchBefore
<1>3. \A i \in 1..Len(q) : q[i].ts \in Nat /\ q[i] \in Inputs
  BY <1>1, InputsAre
<1> HIDE DEF n
<1>4. a \in Seq(S) /\ b \in Seq(S) /\ q = a \o b
  BY <1>2, CutInTwo
<1>5. /\ Len(a) = n /\ Len(b) = Len(q) - n
      /\ \A i \in 1..n : a[i] = q[i]
      /\ \A i \in 1..(Len(q) - n) : b[i] = q[n + i]
  BY <1>2, Pieces
<1> HIDE DEF a, b
<1>6. Sorted(b)
  <2> SUFFICES ASSUME NEW i \in 1..(Len(q) - n), NEW j \in 1..(Len(q) - n), i < j
               PROVE  b[i].ts <= b[j].ts
    BY <1>4, <1>5 DEF Sorted
  <2>1. n + i \in 1..Len(q) /\ n + j \in 1..Len(q) /\ n + i < n + j
    BY <1>2
  <2> QED
    BY <1>5, <2>1 DEF Sorted
<1>7. ASSUME NEW t \in Int
      PROVE  Only(b, At(t)) = IF t >= u THEN Only(q, At(t)) ELSE <<>>
  <2> DEFINE T == At(t)
  <2>1. CASE t >= u
    <3>1. \A i \in DOMAIN a : a[i] \notin T
      BY <1>2, <1>3, <1>4, <1>5, <2>1 DEF At
    <3> HIDE DEF T
    <3>2. Only(a, T) = <<>>
      BY <1>4, <3>1, OnlyNone
    <3>3. Only(a \o b, T) = Only(a, T) \o Only(b, T)
      BY <1>4, OnlyConcat
    <3>4. Only(b, T) \in Seq(S \cap T)
      BY <1>4, OnlyType
    <3> DEFINE ob == Only(b, T)
    <3> HIDE DEF ob
    <3>5. <<>> \o ob = ob
      BY <3>4, ConcatEmptySeq DEF ob
    <3> QED
      BY <1>4, <2>1, <3>2, <3>3, <3>5 DEF ob, T
  <2>2. CASE ~(t >= u)
    <3>1. \A i \in DOMAIN b : b[i] \notin T
      <4> SUFFICES ASSUME NEW i \in 1..(Len(q) - n) PROVE b[i].ts # t
        BY <1>4, <1>5 DEF At
      <4>1. n + i \in (n + 1)..Len(q) /\ n + i \in 1..Len(q) /\ b[i] = q[n + i]
        BY <1>2, <1>5
      <4> QED
        BY <1>2, <1>3, <2>2, <4>1
    <3> HIDE DEF T
    <3>2. Only(b, T) = <<>>
      BY <1>4, <3>1, OnlyNone
    <3> QED
      BY <2>2, <3>2 DEF T
  <2> QED
    BY <2>1, <2>2
<1> QED
  BY <1>4, <1>6, <1>7 DEF b, n

----------------------------------------------------------------------------
(* The groups: Go maps of maps. *)

Has(gs, k, r) == k \in DOMAIN gs /\ r \in DOMAIN gs[k]

(* A report joins its group in its rank's place, and nothing else changes.    *)
LEMMA JoinPuts ==
    ASSUME NEW gs, NEW e, e.key # NoKey
    PROVE  /\ DOMAIN Join(gs, e) = DOMAIN gs \cup {e.key}
           /\ \A k, r : Has(Join(gs, e), k, r) <=> Has(gs, k, r) \/ (k = e.key /\ r = e.rank)
           /\ \A k, r : Has(Join(gs, e), k, r) =>
                  Join(gs, e)[k][r] = IF k = e.key /\ r = e.rank THEN e ELSE gs[k][r]
<1> DEFINE g == GroupOf(gs, e.key)
           h == Put(g, e.rank, e)
           js == Put(gs, e.key, h)
<1>1. Join(gs, e) = js
  BY DEF Join
<1>2. /\ e.key \in DOMAIN gs => g = gs[e.key]
      /\ e.key \notin DOMAIN gs => DOMAIN g = {}
  BY DEF GroupOf
<1> HIDE DEF g
<1>3. /\ DOMAIN h = DOMAIN g \cup {e.rank}
      /\ \A r \in DOMAIN h : h[r] = IF r = e.rank THEN e ELSE g[r]
  BY DEF Put
<1> HIDE DEF h
<1>4. /\ DOMAIN js = DOMAIN gs \cup {e.key}
      /\ \A k \in DOMAIN js : js[k] = IF k = e.key THEN h ELSE gs[k]
  BY DEF Put
<1> HIDE DEF js
<1>5. \A k, r : Has(js, k, r) <=> Has(gs, k, r) \/ (k = e.key /\ r = e.rank)
  BY <1>2, <1>3, <1>4 DEF Has
<1>6. ASSUME NEW k, NEW r, Has(js, k, r)
      PROVE  js[k][r] = IF k = e.key /\ r = e.rank THEN e ELSE gs[k][r]
  BY <1>2, <1>3, <1>4, <1>6 DEF Has
<1> QED
  BY <1>1, <1>4, <1>5, <1>6

(* The newest member of a group. *)
LEMMA NewestIsThere ==
    ASSUME NEW g, NEW n \in Nat, \A r \in DOMAIN g : g[r].ts \in 0..n
    PROVE  /\ NewestOf(g) \in Nat /\ \A r \in DOMAIN g : g[r].ts <= NewestOf(g)
           /\ NewestOf(g) = 0 \/ \E r \in DOMAIN g : NewestOf(g) = g[r].ts
<1> DEFINE S == {0} \cup {g[r].ts : r \in DOMAIN g}
           D == {n - x : x \in S}
<1>1. S \subseteq 0..n /\ 0 \in S
  OBVIOUS
<1>2. D \subseteq Nat /\ D # {}
  BY <1>1
<1>3. PICK d \in D : \A c \in D : ~(c < d)
  <2> HIDE DEF D
  <2> QED
    BY <1>2, LeastElement
<1>4. PICK m \in S : d = n - m
  BY <1>3
<1>5. \A x \in S : m >= x
  <2> TAKE x \in S
  <2>1. n - x \in D
    OBVIOUS
  <2>2. ~(n - x < n - m)
    BY <1>3, <1>4, <2>1
  <2> QED
    BY <1>1, <2>2
<1> HIDE DEF S
<1>6. Max(S) \in S /\ \A x \in S : Max(S) >= x
  BY <1>5 DEF Max
<1>7. NewestOf(g) = Max(S)
  BY DEF NewestOf, S
<1>8. NewestOf(g) \in Nat
  <2>1. Max(S) \in 0..n
    BY <1>1, <1>6
  <2> QED
    BY <1>7, <2>1
<1>9. \A r \in DOMAIN g : g[r].ts <= NewestOf(g)
  <2> TAKE r \in DOMAIN g
  <2>1. g[r].ts \in S
    BY DEF S
  <2> QED
    BY <1>1, <1>6, <1>7, <2>1
<1> QED
  BY <1>6, <1>7, <1>8, <1>9 DEF S

----------------------------------------------------------------------------

Shapes ==
    /\ lookback \in Lookbacks /\ newestNs \in Nat /\ arrived \in Seq(Inputs)
    /\ DOMAIN groups \subseteq Key
    /\ \A k \in DOMAIN groups :
           /\ DOMAIN groups[k] \subseteq Rank /\ DOMAIN groups[k] # {}
           /\ \A r \in DOMAIN groups[k] :
                  groups[k][r] \in {e \in Inputs : e.key = k /\ e.rank = r /\ e.ts <= newestNs}

(* A rank's history, instant by instant. *)
HistoryInv ==
    \A r \in Rank :
        /\ rankEvents[r] \in Seq(From(r)) /\ Sorted(rankEvents[r])
        /\ \A t \in Int : Only(rankEvents[r], At(t)) =
                            IF InWindow(t) THEN Only(arrived, At(t) \cap From(r)) ELSE <<>>

IInv == Shapes /\ HistoryInv /\ GroupsHoldTheLatest

LEMMA InitHolds == Init => IInv
<1> SUFFICES ASSUME Init PROVE IInv
  OBVIOUS
<1>1. /\ lookback \in Lookbacks /\ rankEvents = [r \in Rank |-> <<>>] /\ newestNs = 0
      /\ arrived = <<>> /\ DOMAIN groups = {}
  BY DEF Init
<1>2. Shapes
  BY <1>1 DEF Shapes
<1>3. HistoryInv
  BY <1>1, OnlyEmpty DEF HistoryInv, Sorted
<1>4. GroupsHoldTheLatest
  BY <1>1, OnlyEmpty DEF GroupsHoldTheLatest, Reported
<1> QED
  BY <1>2, <1>3, <1>4 DEF IInv

(* Is t in the window when n is the newest timestamp? *)
Within(t, n) == lookback <= 0 \/ t >= n - lookback

(* The window only moves on. *)
LEMMA WindowMoves ==
    ASSUME IInv, NEW e \in Inputs, IngestEvent(e)
    PROVE  /\ lookback' = lookback /\ lookback \in Int /\ newestNs' \in Nat
           /\ newestNs <= newestNs' /\ e.ts <= newestNs' /\ newestNs \in Nat
           /\ \A t \in Int : InWindow(t)' <=> lookback <= 0 \/ t >= newestNs' - lookback
           /\ \A t \in Int : InWindow(t)' => InWindow(t)
<1>1. e.ts \in Nat /\ newestNs \in Nat /\ lookback \in Int
  BY InputsAre, CorrelatorAssumption DEF IInv, Shapes
<1>2. lookback' = lookback /\ newestNs' = IF e.ts > newestNs THEN e.ts ELSE newestNs
  BY DEF IngestEvent
<1>3. newestNs' \in Nat /\ newestNs <= newestNs' /\ e.ts <= newestNs'
  BY <1>1, <1>2
<1>4. \A t \in Int : InWindow(t)' <=> lookback <= 0 \/ t >= newestNs' - lookback
  BY <1>2 DEF InWindow, Cutoff
<1>5. \A t \in Int : InWindow(t) <=> lookback <= 0 \/ t >= newestNs - lookback
  BY DEF InWindow, Cutoff
<1> QED
  BY <1>1, <1>2, <1>3, <1>4, <1>5

LEMMA HistoryKept ==
    ASSUME IInv, NEW e \in Inputs, IngestEvent(e)
    PROVE  HistoryInv'
<1> SUFFICES ASSUME NEW r \in Rank
             PROVE  /\ rankEvents'[r] \in Seq(From(r)) /\ Sorted(rankEvents'[r])
                    /\ \A t \in Int : Only(rankEvents'[r], At(t)) =
                            IF InWindow(t)' THEN Only(arrived', At(t) \cap From(r)) ELSE <<>>
  BY DEF HistoryInv, At, From, Sorted
<1> DEFINE p == rankEvents[r]
           q == IF r = e.rank THEN Insert(p, e) ELSE p
           c == newestNs' - lookback
           z == SubSeq(q, Before(q, c) + 1, Len(q))
<1>1. /\ p \in Seq(From(r)) /\ Sorted(p)
      /\ \A t \in Int : Only(p, At(t)) = IF InWindow(t) THEN Only(arrived, At(t) \cap From(r)) ELSE <<>>
  BY DEF IInv, HistoryInv
<1>2. From(r) \in SUBSET Inputs
  BY DEF From
<1>3. rankEvents'[r] = IF lookback <= 0 THEN q ELSE z
  BY DEF IngestEvent, TrimEvents, Cutoff
<1>4. /\ lookback \in Int /\ newestNs' \in Nat
      /\ \A t \in Int : InWindow(t)' <=> lookback <= 0 \/ t >= newestNs' - lookback
      /\ \A t \in Int : InWindow(t)' => InWindow(t)
  BY WindowMoves
<1> HIDE DEF p
<1>5. /\ q \in Seq(From(r)) /\ Sorted(q)
      /\ \A t \in Int : Only(q, At(t)) = IF r = e.rank /\ e.ts = t THEN Append(Only(p, At(t)), e)
                                                              ELSE Only(p, At(t))
  <2>1. CASE r = e.rank
    <3>1. e \in From(r)
      BY <2>1 DEF From
    <3>2. /\ Insert(p, e) \in Seq(From(r)) /\ Sorted(Insert(p, e))
          /\ \A t : Only(Insert(p, e), At(t)) =
                         IF e.ts = t THEN Append(Only(p, At(t)), e) ELSE Only(p, At(t))
      BY <1>1, <1>2, <3>1, InsertKeepsOrder
    <3> QED
      BY <2>1, <3>2
  <2>2. CASE r # e.rank
    BY <1>1, <2>2
  <2> QED
    BY <2>1, <2>2
<1> HIDE DEF q
<1>6. /\ z \in Seq(From(r)) /\ Sorted(z)
      /\ \A t \in Int : Only(z, At(t)) = IF t >= c THEN Only(q, At(t)) ELSE <<>>
  <2>1. c \in Int
    BY <1>4
  <2> HIDE DEF c
  <2> QED
    BY <1>2, <1>5, <2>1, TrimKeepsOrder
<1> HIDE DEF z
<1>7. ASSUME NEW t \in Int
      PROVE  Only(rankEvents'[r], At(t)) =
                 IF InWindow(t)' THEN Only(arrived', At(t) \cap From(r)) ELSE <<>>
  <2> DEFINE T == At(t) \cap From(r)
  <2>1. arrived' = Append(arrived, e) /\ arrived \in Seq(Inputs)
    BY DEF IngestEvent, IInv, Shapes
  <2>2. e \in T <=> r = e.rank /\ e.ts = t
    BY DEF At, From
  <2> HIDE DEF T
  <2>3. Only(arrived', T) = IF e \in T THEN Append(Only(arrived, T), e) ELSE Only(arrived, T)
    BY <2>1, OnlyAppend
  <2>4. CASE InWindow(t)'
    <3>1. Only(p, At(t)) = Only(arrived, T)
      BY <1>1, <1>4, <2>4 DEF T
    <3>2. Only(rankEvents'[r], At(t)) = Only(q, At(t))
      BY <1>3, <1>4, <1>6, <2>4
    <3> QED
      BY <1>5, <2>2, <2>3, <2>4, <3>1, <3>2 DEF T
  <2>5. CASE ~InWindow(t)'
    BY <1>3, <1>4, <1>6, <2>5
  <2> QED
    BY <2>4, <2>5
<1> QED
  BY <1>3, <1>5, <1>6, <1>7

(* What the groups are after a report joined and the old ones were dropped.   *)
LEMMA GroupsMove ==
    ASSUME IInv, NEW e \in Inputs, IngestEvent(e)
    PROVE  LET j == Join(groups, e)
           IN  /\ DOMAIN groups' \subseteq DOMAIN j /\ DOMAIN j \subseteq Key
               /\ \A k \in DOMAIN groups' : groups'[k] = j[k]
               /\ \A k \in DOMAIN j : \A r \in DOMAIN j[k] :
                      j[k][r] \in {x \in Inputs : x.key = k /\ x.rank = r /\ x.ts <= newestNs'}
               /\ \A k \in DOMAIN j : DOMAIN j[k] \subseteq Rank /\ DOMAIN j[k] # {}
               /\ \A k \in DOMAIN j :
                      k \in DOMAIN groups' <=> \E r \in DOMAIN j[k] : Within(j[k][r].ts, newestNs')
               /\ \A k, r : Has(j, k, r) <=> Has(groups, k, r) \/ (e.key # NoKey /\ k = e.key /\ r = e.rank)
               /\ \A k, r : Has(j, k, r) =>
                      j[k][r] = IF k = e.key /\ r = e.rank THEN e ELSE groups[k][r]
<1> DEFINE j == Join(groups, e)
<1>1. e.ts \in Nat /\ e.rank \in Rank /\ e.key \in Key \cup {NoKey} /\ NoKey \notin Key
  BY InputsAre, CorrelatorAssumption
<1>2. /\ lookback \in Int /\ newestNs' \in Nat /\ newestNs \in Nat
      /\ newestNs <= newestNs' /\ e.ts <= newestNs'
      /\ \A t \in Int : Within(t, newestNs') <=> lookback <= 0 \/ t >= newestNs' - lookback
  BY WindowMoves DEF Within
<1>3. Shapes
  BY DEF IInv
<1>4. /\ DOMAIN j = DOMAIN groups \cup (IF e.key = NoKey THEN {} ELSE {e.key})
      /\ \A k, r : Has(j, k, r) <=> Has(groups, k, r) \/ (e.key # NoKey /\ k = e.key /\ r = e.rank)
      /\ \A k, r : Has(j, k, r) => j[k][r] = IF k = e.key /\ r = e.rank THEN e ELSE groups[k][r]
  <2>1. CASE e.key = NoKey
    <3>1. j = groups
      BY <2>1 DEF Join
    <3>2. \A k, r : Has(groups, k, r) => k # e.key
      BY <1>1, <1>3, <2>1 DEF Shapes, Has
    <3> QED
      BY <2>1, <3>1, <3>2
  <2>2. CASE e.key # NoKey
    BY <2>2, JoinPuts
  <2> QED
    BY <2>1, <2>2
<1>5. groups' = IF lookback <= 0 THEN j
                ELSE [k \in {x \in DOMAIN j : NewestOf(j[x]) >= newestNs' - lookback} |-> j[k]]
  BY DEF IngestEvent, TrimGroups, Restrict, LiveKeys, Cutoff
<1> HIDE DEF j
<1>6. DOMAIN groups' \subseteq DOMAIN j /\ \A k \in DOMAIN groups' : groups'[k] = j[k]
  BY <1>5
<1>7. DOMAIN j \subseteq Key
  BY <1>1, <1>3, <1>4 DEF Shapes
<1>8. \A k \in DOMAIN j : \A r \in DOMAIN j[k] :
          j[k][r] \in {x \in Inputs : x.key = k /\ x.rank = r /\ x.ts <= newestNs'}
  <2> TAKE k \in DOMAIN j
  <2> TAKE r \in DOMAIN j[k]
  <2>1. Has(j, k, r)
    BY DEF Has
  <2>2. CASE k = e.key /\ r = e.rank
    BY <1>2, <1>4, <2>1, <2>2
  <2>3. CASE ~(k = e.key /\ r = e.rank)
    <3>1. Has(groups, k, r) /\ j[k][r] = groups[k][r]
      BY <1>4, <2>1, <2>3
    <3>2. groups[k][r] \in Inputs /\ groups[k][r].key = k /\ groups[k][r].rank = r /\ groups[k][r].ts <= newestNs
      BY <1>3, <3>1 DEF Shapes, Has
    <3>3. groups[k][r].ts \in Nat
      BY <3>2, InputsAre
    <3> QED
      BY <1>2, <3>1, <3>2, <3>3
  <2> QED
    BY <2>2, <2>3
<1>9. \A k \in DOMAIN j : DOMAIN j[k] \subseteq Rank /\ DOMAIN j[k] # {}
  <2> TAKE k \in DOMAIN j
  <2>1. \A r : r \in DOMAIN j[k] <=> Has(groups, k, r) \/ (e.key # NoKey /\ k = e.key /\ r = e.rank)
    BY <1>4 DEF Has
  <2>2. k \in DOMAIN groups \/ (e.key # NoKey /\ k = e.key)
    BY <1>4
  <2>3. \A r : Has(groups, k, r) => r \in Rank
    BY <1>3 DEF Shapes, Has
  <2>4. k \in DOMAIN groups => \E r : Has(groups, k, r)
    BY <1>3 DEF Shapes, Has
  <2> QED
    BY <1>1, <2>1, <2>2, <2>3, <2>4
<1>10. ASSUME NEW k \in DOMAIN j
       PROVE  k \in DOMAIN groups' <=> \E r \in DOMAIN j[k] : Within(j[k][r].ts, newestNs')
  <2> DEFINE g == j[k]
  <2>1. \A r \in DOMAIN g : g[r].ts \in Nat /\ g[r].ts \in 0..newestNs'
    BY <1>2, <1>8, InputsAre
  <2>2. DOMAIN g # {}
    BY <1>9
  <2> HIDE DEF g
  <2>3. /\ NewestOf(g) \in Nat /\ \A r \in DOMAIN g : g[r].ts <= NewestOf(g)
        /\ NewestOf(g) = 0 \/ \E r \in DOMAIN g : NewestOf(g) = g[r].ts
    BY <1>2, <2>1, NewestIsThere
  <2>4. CASE lookback <= 0
    BY <1>2, <1>5, <2>1, <2>2, <2>4 DEF g
  <2>5. CASE ~(lookback <= 0)
    <3>1. k \in DOMAIN groups' <=> NewestOf(g) >= newestNs' - lookback
      BY <1>5, <2>5 DEF g
    <3>2. NewestOf(g) >= newestNs' - lookback <=>
              \E r \in DOMAIN g : g[r].ts >= newestNs' - lookback
      BY <1>2, <2>1, <2>2, <2>3
    <3>3. \A r \in DOMAIN g : Within(g[r].ts, newestNs') <=> g[r].ts >= newestNs' - lookback
      BY <1>2, <2>1, <2>5
    <3> QED
      BY <3>1, <3>2, <3>3 DEF g
  <2> QED
    BY <2>4, <2>5
<1> QED
  BY <1>4, <1>6, <1>7, <1>8, <1>9, <1>10 DEF j

LEMMA GroupsKept ==
    ASSUME IInv, NEW e \in Inputs, IngestEvent(e)
    PROVE  Shapes' /\ GroupsHoldTheLatest'
<1> DEFINE j == Join(groups, e)
<1>1. /\ DOMAIN groups' \subseteq DOMAIN j /\ DOMAIN j \subseteq Key
      /\ \A k \in DOMAIN groups' : groups'[k] = j[k]
      /\ \A k \in DOMAIN j : \A r \in DOMAIN j[k] :
             j[k][r] \in {x \in Inputs : x.key = k /\ x.rank = r /\ x.ts <= newestNs'}
      /\ \A k \in DOMAIN j : DOMAIN j[k] \subseteq Rank /\ DOMAIN j[k] # {}
      /\ \A k \in DOMAIN j :
             k \in DOMAIN groups' <=> \E r \in DOMAIN j[k] : Within(j[k][r].ts, newestNs')
      /\ \A k, r : Has(j, k, r) <=> Has(groups, k, r) \/ (e.key # NoKey /\ k = e.key /\ r = e.rank)
      /\ \A k, r : Has(j, k, r) => j[k][r] = IF k = e.key /\ r = e.rank THEN e ELSE groups[k][r]
  BY GroupsMove
<1> HIDE DEF j
<1>2. /\ lookback' = lookback /\ newestNs' \in Nat
      /\ \A t \in Int : Within(t, newestNs') => InWindow(t)
  BY WindowMoves DEF Within
<1>3. arrived' = Append(arrived, e) /\ arrived \in Seq(Inputs) /\ lookback \in Lookbacks
  BY DEF IngestEvent, IInv, Shapes
<1>4. Shapes'
  <2>1. arrived' \in Seq(Inputs)
    BY <1>3
  <2> QED
    BY <1>1, <1>2, <1>3, <2>1 DEF Shapes
<1>5. ASSUME NEW k \in DOMAIN groups'
      PROVE  \E r \in DOMAIN groups'[k] : InWindow(groups[k][r].ts)'
  <2>1. PICK r \in DOMAIN groups'[k] : Within(groups'[k][r].ts, newestNs')
    BY <1>1
  <2>2. lookback' = lookback
    BY <1>2
  <2> QED
    BY <2>1, <2>2 DEF Within, InWindow, Cutoff
<1>6. ASSUME NEW k \in Key, NEW r \in Rank
      PROVE  LET there == k \in DOMAIN groups' /\ r \in DOMAIN groups'[k]
             IN  /\ there => Reported(k, r)' # <<>> /\ groups'[k][r] = Last(Reported(k, r)')
                 /\ Reported(k, r)' # <<>> /\ InWindow(Last(Reported(k, r)).ts)' => there
  <2> DEFINE T == {x \in From(r) : x.key = k}
             mine == e.key = k /\ e.rank = r
             old == Only(arrived, T)
             new == Only(arrived', T)
  <2>1. Reported(k, r)' = new /\ Reported(k, r) = old
    BY DEF Reported, From
  <2>2. e \in T <=> mine
    BY DEF From
  <2>3. T \subseteq Inputs
    BY DEF From
  <2> HIDE DEF T
  <2>4. new = IF e \in T THEN Append(old, e) ELSE old
    BY <1>3, OnlyAppend
  <2>5. old \in Seq(Inputs \cap T)
    BY <1>3, OnlyType
  <2> HIDE DEF old, new
  <2>6. /\ Has(groups, k, r) => old # <<>> /\ groups[k][r] = Last(old)
        /\ old # <<>> /\ InWindow(Last(old).ts) => Has(groups, k, r)
    BY <2>1 DEF IInv, GroupsHoldTheLatest, Has
  <2>7. /\ Has(j, k, r) => new # <<>> /\ j[k][r] = Last(new)
        /\ new # <<>> /\ Within(Last(new).ts, newestNs') => Has(j, k, r)
    <3>1. CASE mine
      <4>1. new = Append(old, e) /\ e \in Inputs \cap T
        BY <2>2, <2>4, <3>1
      <4>2. new # <<>> /\ Last(new) = e
        BY <2>5, <4>1, AppendedTo
      <4>3. e.key # NoKey
        BY <3>1, CorrelatorAssumption
      <4> QED
        BY <1>1, <3>1, <4>2, <4>3
    <3>2. CASE ~mine
      <4>1. new = old /\ (Has(j, k, r) <=> Has(groups, k, r)) /\ (Has(j, k, r) => j[k][r] = groups[k][r])
        BY <1>1, <2>2, <2>4, <3>2
      <4>2. old # <<>> => Last(old).ts \in Int
        <5>1. old # <<>> => Last(old) \in Inputs
          BY <2>5 DEF Last
        <5> QED
          BY <5>1, InputsAre
      <4> QED
        BY <1>2, <2>6, <4>1, <4>2
    <3> QED
      BY <3>1, <3>2
  <2>8. k \in DOMAIN groups' /\ r \in DOMAIN groups'[k] => Has(j, k, r) /\ groups'[k][r] = j[k][r]
    BY <1>1 DEF Has
  <2>9. Has(j, k, r) /\ Within(j[k][r].ts, newestNs') => k \in DOMAIN groups' /\ r \in DOMAIN groups'[k]
    BY <1>1 DEF Has
  <2>10. InWindow(Last(Reported(k, r)).ts)' <=> Within(Last(new).ts, newestNs')
    BY <1>2, <2>1 DEF InWindow, Cutoff, Within
  <2> QED
    BY <2>1, <2>7, <2>8, <2>9, <2>10
<1>7. GroupsHoldTheLatest'
  BY <1>5, <1>6 DEF GroupsHoldTheLatest
<1> QED
  BY <1>4, <1>7

LEMMA StepKeeps == ASSUME IInv, [Next]_vars PROVE IInv'
<1>1. CASE Next
  <2>1. PICK e \in Inputs : IngestEvent(e)
    BY <1>1 DEF Next
  <2> QED
    BY <2>1, HistoryKept, GroupsKept DEF IInv
<1>2. CASE UNCHANGED vars
  <2>1. UNCHANGED <<lookback, rankEvents, groups, newestNs, arrived>>
    BY <1>2 DEF vars
  <2>2. \A t : InWindow(t)' <=> InWindow(t)
    BY <2>1 DEF InWindow, Cutoff
  <2>3. Shapes'
    BY <2>1 DEF IInv, Shapes
  <2>4. HistoryInv'
    BY <2>1, <2>2 DEF IInv, HistoryInv, At, From, Sorted
  <2>5. GroupsHoldTheLatest'
    <3>1. \A k, r : Reported(k, r)' = Reported(k, r)
      BY <2>1 DEF Reported, From
    <3> QED
      BY <2>1, <2>2, <3>1 DEF IInv, GroupsHoldTheLatest
  <2> QED
    BY <2>3, <2>4, <2>5 DEF IInv
<1> QED
  BY <1>1, <1>2

----------------------------------------------------------------------------

(* Every history is in time order and is the window of what arrived, and the  *)
(* groups hold the latest reports (correlator.go:82-134).                     *)
THEOREM Invariant == Spec => []IInv
  BY InitHolds, StepKeeps, PTL DEF Spec

(* What is stored under a rank and a collective belongs to them.              *)
THEOREM TypeCorrect == Spec => []TypeOK
<1>1. ASSUME IInv PROVE TypeOK
  <2>1. \A r \in Rank : \A e \in Range(rankEvents[r]) : e \in Inputs /\ e.rank = r
    <3> TAKE r \in Rank
    <3> DEFINE q == rankEvents[r]
    <3>1. q \in Seq(From(r))
      BY <1>1 DEF IInv, HistoryInv
    <3> HIDE DEF q
    <3>2. Range(q) \in SUBSET From(r)
      BY <3>1, RangeOfSeq
    <3> QED
      BY <3>2 DEF From, q
  <2>2. \A k \in DOMAIN groups : groups[k] # <<>>
    <3>1. \A g : DOMAIN g # {} => g # <<>>
      OBVIOUS
    <3> QED
      BY <1>1, <3>1 DEF IInv, Shapes
  <2> QED
    BY <1>1, <2>1, <2>2 DEF IInv, Shapes, TypeOK
<1> QED
  BY <1>1, Invariant, PTL

(* A rank's history is exactly what arrived from it and is in the window, in  *)
(* time order and, at one instant, in order of arrival, from whatever moment  *)
(* it is asked for (correlator.go:80-95, 112-122, 280-287).                   *)
THEOREM HistoryIsTheWindow == Spec => []HistoryExact
<1>1. ASSUME IInv PROVE HistoryExact
  <2> SUFFICES ASSUME NEW r \in Rank, NEW since \in 0..(newestNs + 1)
               PROVE  LET evs == EventsForRank(r, since)
                      IN  /\ \A i, j \in DOMAIN evs : i < j => evs[i].ts <= evs[j].ts
                          /\ \A t \in {e.ts : e \in Inputs} :
                                 Only(evs, At(t)) = IF t >= since /\ InWindow(t)
                                                    THEN Only(arrived, At(t) \cap From(r)) ELSE <<>>
    BY DEF HistoryExact
  <2> DEFINE q == rankEvents[r]
             z == SubSeq(q, Before(q, since) + 1, Len(q))
  <2>1. /\ q \in Seq(From(r)) /\ Sorted(q)
        /\ \A t \in Int : Only(q, At(t)) = IF InWindow(t) THEN Only(arrived, At(t) \cap From(r)) ELSE <<>>
    BY <1>1 DEF IInv, HistoryInv
  <2>2. since \in Int /\ From(r) \in SUBSET Inputs
    BY <1>1 DEF From
  <2>3. EventsForRank(r, since) = z
    BY DEF EventsForRank
  <2> HIDE DEF q
  <2>4. /\ Sorted(z)
        /\ \A t \in Int : Only(z, At(t)) = IF t >= since THEN Only(q, At(t)) ELSE <<>>
    BY <2>1, <2>2, TrimKeepsOrder
  <2> HIDE DEF z
  <2>5. \A t \in {e.ts : e \in Inputs} : t \in Int
    BY InputsAre
  <2>6. \A t \in {e.ts : e \in Inputs} :
            Only(z, At(t)) = IF t >= since /\ InWindow(t) THEN Only(arrived, At(t) \cap From(r)) ELSE <<>>
    BY <2>1, <2>4, <2>5
  <2> QED
    BY <2>3, <2>4, <2>6 DEF Sorted
<1> QED
  BY <1>1, Invariant, PTL

(* A rank stands in a group with its latest report, no report in the window   *)
(* is missing, and no group outlives the window (correlator.go:80-81, 97-105, *)
(* 123-133).                                                                 *)
THEOREM LatestIsHeld == Spec => []GroupsHoldTheLatest
<1>1. IInv => GroupsHoldTheLatest
  BY DEF IInv
<1> QED
  BY <1>1, Invariant, PTL
=============================================================================
