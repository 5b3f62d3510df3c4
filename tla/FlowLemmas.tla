------------------------------ MODULE FlowLemmas ------------------------------
(* What the other proofs need to know of Only and Between: how they grow and  *)
(* what they return.    Induction is over sets of natural numbers here, by    *)
(* their least element: a theorem that takes no operator as a parameter.      *)
EXTENDS Flows, SequencesExt, SequenceTheorems, WellFoundedInduction, TLAPS

(* Every set of natural numbers that is not empty has a least element. *)
LEMMA LeastElement ==
    ASSUME NEW T, T \subseteq Nat, T # {}
    PROVE  \E x \in T : \A y \in T : ~(y < x)
<1> DEFINE R == OpToRel(<, Nat)
<1>1. IsWellFoundedOn(R, Nat)
  BY NatLessThanWellFounded
<1>2. \A x, y \in Nat : y < x => <<y, x>> \in R
  BY DEF OpToRel
<1> HIDE DEF R
<1>3. \E x \in T : \A y \in T : ~ (<<y, x>> \in R)
  BY <1>1, WFMin
<1> QED
  BY <1>2, <1>3

(* A set that holds 0, and n + 1 with n, holds every natural number. *)
LEMMA SetInduction ==
    ASSUME NEW K, 0 \in K, \A n \in Nat : n \in K => n + 1 \in K
    PROVE  \A n \in Nat : n \in K
<1> SUFFICES ASSUME NEW m \in Nat, m \notin K PROVE FALSE
  OBVIOUS
<1> DEFINE Out == Nat \ K
<1>1. Out \subseteq Nat /\ Out # {}
  OBVIOUS
<1> HIDE DEF Out
<1>2. PICK x \in Out : \A y \in Out : ~(y < x)
  BY <1>1, LeastElement
<1>3. x \in Nat /\ x \notin K
  BY <1>2 DEF Out
<1>4. x # 0 /\ x - 1 \in Nat /\ x - 1 < x
  BY <1>3
<1>5. x - 1 \in K
  BY <1>2, <1>4 DEF Out
<1>6. (x - 1) + 1 \in K
  BY <1>4, <1>5
<1> QED
  BY <1>3, <1>6

----------------------------------------------------------------------------
(* The recursion has a solution, and Picked is one. *)

Solves(g, k, q, T) ==
    g = [n \in 0..k |-> IF n = 0 THEN <<>>
                        ELSE IF q[n] \in T THEN Append(g[n - 1], q[n]) ELSE g[n - 1]]

LEMMA Solvable ==
    ASSUME NEW q, NEW T
    PROVE  \A k \in Nat : \E g : Solves(g, k, q, T)
<1> DEFINE K == {k \in Nat : \E g : Solves(g, k, q, T)}
<1>1. 0 \in K
  <2> DEFINE g == [n \in 0..0 |-> <<>>]
  <2>1. Solves(g, 0, q, T)
    BY DEF Solves
  <2> QED
    BY <2>1
<1>2. ASSUME NEW k \in Nat, k \in K PROVE k + 1 \in K
  <2>1. PICK g : Solves(g, k, q, T)
    BY <1>2
  <2> DEFINE last == IF q[k + 1] \in T THEN Append(g[k], q[k + 1]) ELSE g[k]
             h == [n \in 0..(k + 1) |-> IF n <= k THEN g[n] ELSE last]
  <2>2. ASSUME NEW n \in 0..(k + 1)
        PROVE  h[n] = IF n = 0 THEN <<>>
                      ELSE IF q[n] \in T THEN Append(h[n - 1], q[n]) ELSE h[n - 1]
    <3>1. CASE n = 0
      BY <2>1, <3>1 DEF Solves
    <3>2. CASE n # 0 /\ n <= k
      <4>1. n - 1 \in 0..(k + 1) /\ n - 1 <= k /\ n \in 0..k
        BY <3>2
      <4>2. h[n] = g[n] /\ h[n - 1] = g[n - 1]
        BY <3>2, <4>1
      <4>3. g[n] = IF q[n] \in T THEN Append(g[n - 1], q[n]) ELSE g[n - 1]
        BY <2>1, <3>2, <4>1 DEF Solves
      <4> QED
        BY <3>2, <4>2, <4>3
    <3>3. CASE n = k + 1
      <4>1. n - 1 = k /\ n # 0 /\ ~(n <= k) /\ k \in 0..(k + 1) /\ k <= k
        BY <3>3
      <4>2. h[n] = last /\ h[n - 1] = g[k]
        BY <4>1
      <4> QED
        BY <3>3, <4>1, <4>2
    <3> QED
      BY <3>1, <3>2, <3>3
  <2>3. Solves(h, k + 1, q, T)
    <3> HIDE DEF last
    <3>1. h = [n \in 0..(k + 1) |-> h[n]]
      OBVIOUS
    <3> HIDE DEF h
    <3> QED
      BY <2>2, <3>1 DEF Solves
  <2> QED
    BY <2>3
<1> HIDE DEF K
<1>3. \A k \in Nat : k \in K
  BY <1>1, <1>2, SetInduction
<1> QED
  BY <1>3 DEF K

LEMMA PickedSolves ==
    ASSUME NEW S, NEW q \in Seq(S), NEW T
    PROVE  Solves(Picked(q, T), Len(q), q, T)
<1>1. \E g : Solves(g, Len(q), q, T)
  <2>1. Len(q) \in Nat
    OBVIOUS
  <2> QED
    BY <2>1, Solvable
<1> QED
  BY <1>1 DEF Picked, Solves

(* Step by step. *)
LEMMA PickedSteps ==
    ASSUME NEW S, NEW q \in Seq(S), NEW T
    PROVE  /\ Picked(q, T)[0] = <<>>
           /\ \A n \in 1..Len(q) :
                  Picked(q, T)[n] = IF q[n] \in T THEN Append(Picked(q, T)[n - 1], q[n])
                                    ELSE Picked(q, T)[n - 1]
<1> DEFINE g == Picked(q, T)
<1>1. Solves(g, Len(q), q, T) /\ Len(q) \in Nat
  BY PickedSolves
<1> HIDE DEF g
<1>2. g[0] = <<>>
  BY <1>1 DEF Solves
<1>3. ASSUME NEW n \in 1..Len(q)
      PROVE  g[n] = IF q[n] \in T THEN Append(g[n - 1], q[n]) ELSE g[n - 1]
  <2>1. n \in 0..Len(q) /\ n # 0
    BY <1>1
  <2> QED
    BY <1>1, <2>1 DEF Solves
<1> QED
  BY <1>2, <1>3 DEF g

----------------------------------------------------------------------------
(* The facts to cite. *)

LEMMA OnlyEmpty == \A T : Only(<<>>, T) = <<>>
<1> TAKE T
<1>1. <<>> \in Seq({}) /\ Len(<<>>) = 0
  OBVIOUS
<1>2. Picked(<<>>, T)[0] = <<>>
  BY <1>1, PickedSteps
<1> QED
  BY <1>1, <1>2 DEF Only

LEMMA OnlyAppend ==
    ASSUME NEW S, NEW q \in Seq(S), NEW e \in S, NEW T
    PROVE  Only(Append(q, e), T) = IF e \in T THEN Append(Only(q, T), e) ELSE Only(q, T)
<1> DEFINE p == Append(q, e)
           f == Picked(q, T)
           g == Picked(p, T)
           K == {k \in Nat : k <= Len(q) => f[k] = g[k]}
<1>1. /\ p \in Seq(S) /\ Len(p) = Len(q) + 1 /\ Len(q) \in Nat
      /\ p[Len(q) + 1] = e /\ \A n \in 1..Len(q) : p[n] = q[n]
  OBVIOUS
<1>2. f[0] = <<>> /\ \A n \in 1..Len(q) : f[n] = IF q[n] \in T THEN Append(f[n - 1], q[n]) ELSE f[n - 1]
  BY PickedSteps
<1> HIDE DEF p
<1>3. g[0] = <<>> /\ \A n \in 1..Len(p) : g[n] = IF p[n] \in T THEN Append(g[n - 1], p[n]) ELSE g[n - 1]
  BY <1>1, PickedSteps
<1> HIDE DEF f, g
<1>4. 0 \in K
  BY <1>2, <1>3
<1>5. ASSUME NEW k \in Nat, k \in K PROVE k + 1 \in K
  <2> SUFFICES ASSUME k + 1 <= Len(q) PROVE f[k + 1] = g[k + 1]
    OBVIOUS
  <2>1. /\ k + 1 \in 1..Len(q) /\ k + 1 \in 1..Len(p) /\ (k + 1) - 1 = k /\ f[k] = g[k]
        /\ p[k + 1] = q[k + 1]
    BY <1>1, <1>5
  <2>2. f[k + 1] = IF q[k + 1] \in T THEN Append(f[k], q[k + 1]) ELSE f[k]
    BY <1>2, <2>1
  <2>3. g[k + 1] = IF p[k + 1] \in T THEN Append(g[k], p[k + 1]) ELSE g[k]
    BY <1>3, <2>1
  <2> QED
    BY <2>1, <2>2, <2>3
<1> HIDE DEF K
<1>6. \A k \in Nat : k \in K
  BY <1>4, <1>5, SetInduction
<1>7. f[Len(q)] = g[Len(q)]
  BY <1>1, <1>6 DEF K
<1>8. Len(p) \in 1..Len(p) /\ Len(p) - 1 = Len(q)
  BY <1>1
<1>9. g[Len(p)] = IF e \in T THEN Append(g[Len(q)], e) ELSE g[Len(q)]
  BY <1>1, <1>3, <1>8
<1> QED
  BY <1>7, <1>9 DEF Only, f, g, p

LEMMA OnlyType ==
    ASSUME NEW S, NEW q \in Seq(S), NEW T
    PROVE  Only(q, T) \in Seq(S \cap T)
<1> DEFINE f == Picked(q, T)
           R == Seq(S \cap T)
           K == {k \in Nat : k <= Len(q) => f[k] \in R}
<1>1. Len(q) \in Nat /\ \A n \in 1..Len(q) : q[n] \in S
  OBVIOUS
<1>2. f[0] = <<>> /\ \A n \in 1..Len(q) : f[n] = IF q[n] \in T THEN Append(f[n - 1], q[n]) ELSE f[n - 1]
  BY PickedSteps
<1> HIDE DEF f
<1>3. <<>> \in R /\ \A s \in R : \A e \in S \cap T : Append(s, e) \in R
  OBVIOUS
<1> HIDE DEF R
<1>4. 0 \in K
  BY <1>2, <1>3
<1>5. ASSUME NEW k \in Nat, k \in K PROVE k + 1 \in K
  <2> SUFFICES ASSUME k + 1 <= Len(q) PROVE f[k + 1] \in R
    OBVIOUS
  <2>1. k + 1 \in 1..Len(q) /\ (k + 1) - 1 = k /\ f[k] \in R
    BY <1>1, <1>5
  <2>2. f[k + 1] = IF q[k + 1] \in T THEN Append(f[k], q[k + 1]) ELSE f[k]
    BY <1>2, <2>1
  <2> QED
    BY <1>1, <1>3, <2>1, <2>2
<1> HIDE DEF K
<1>6. \A k \in Nat : k \in K
  BY <1>4, <1>5, SetInduction
<1>7. f[Len(q)] \in R
  BY <1>1, <1>6 DEF K
<1> QED
  BY <1>7 DEF Only, f, R

LEMMA BetweenType ==
    ASSUME NEW s, NEW a \in Nat, NEW b \in Nat, a <= b
    PROVE  /\ Between(s, a, b) \in Seq({s} \X ((a + 1)..b))
           /\ Len(Between(s, a, b)) = b - a
           /\ \A i \in 1..(b - a) : Between(s, a, b)[i] = <<s, a + i>>
<1> DEFINE n == b - a
           p == [i \in 1..n |-> <<s, a + i>>]
<1>1. n \in Nat /\ \A i \in 1..n : a + i \in (a + 1)..b
  OBVIOUS
<1> HIDE DEF n
<1>2. p \in [1..n -> {s} \X ((a + 1)..b)]
  BY <1>1
<1>3. p \in Seq({s} \X ((a + 1)..b)) /\ Len(p) = n
  BY <1>1, <1>2
<1> QED
  BY <1>3 DEF Between, n

LEMMA BetweenEmpty == ASSUME NEW s, NEW a \in Nat PROVE Between(s, a, a) = <<>>
<1>1. a <= a /\ a - a = 0
  OBVIOUS
<1> HIDE DEF Between
<1>2. Len(Between(s, a, a)) = a - a /\ Between(s, a, a) \in Seq({s} \X ((a + 1)..a))
  BY <1>1, BetweenType
<1>3. Len(Between(s, a, a)) = 0
  BY <1>1, <1>2
<1> QED
  BY <1>2, <1>3, EmptySeq

(* The source gives one event more. *)
LEMMA BetweenGrows ==
    ASSUME NEW s, NEW a \in Nat, NEW b \in Nat, a <= b
    PROVE  Between(s, a, b + 1) = Append(Between(s, a, b), <<s, b + 1>>)
<1> DEFINE p == Between(s, a, b)
           q == Between(s, a, b + 1)
           M == {s} \X ((a + 1)..(b + 1))
           e == <<s, b + 1>>
<1>0. b - a \in Nat /\ b + 1 \in Nat /\ a <= b + 1 /\ (b + 1) - a = (b - a) + 1
  OBVIOUS
<1>1. p \in Seq({s} \X ((a + 1)..b)) /\ Len(p) = b - a /\ \A i \in 1..(b - a) : p[i] = <<s, a + i>>
  BY BetweenType
<1>2. q \in Seq(M) /\ Len(q) = (b - a) + 1 /\ \A i \in 1..((b - a) + 1) : q[i] = <<s, a + i>>
  <2>1. /\ q \in Seq(M) /\ Len(q) = (b + 1) - a
        /\ \A i \in 1..((b + 1) - a) : q[i] = <<s, a + i>>
    BY <1>0, BetweenType
  <2> QED
    BY <1>0, <2>1
<1>3. {s} \X ((a + 1)..b) \subseteq M /\ e \in M
  OBVIOUS
<1> HIDE DEF p, q, M
<1>4. p \in Seq(M)
  BY <1>1, <1>3, SeqMonotonic
<1>5. /\ Append(p, e) \in Seq(M) /\ Len(Append(p, e)) = (b - a) + 1
      /\ \A i \in 1..(b - a) : Append(p, e)[i] = p[i]
      /\ Append(p, e)[(b - a) + 1] = e
  BY <1>1, <1>3, <1>4
<1>6. ASSUME NEW i \in 1..((b - a) + 1) PROVE Append(p, e)[i] = q[i]
  <2>1. CASE i \in 1..(b - a)
    BY <1>1, <1>2, <1>5, <2>1
  <2>2. CASE i = (b - a) + 1
    <3>1. a + i = b + 1
      BY <2>2
    <3> QED
      BY <1>2, <1>5, <2>2, <3>1
  <2>3. i \in 1..(b - a) \/ i = (b - a) + 1
    BY <1>0
  <2> QED
    BY <2>1, <2>2, <2>3
<1>7. Append(p, e) = q
  BY <1>2, <1>5, <1>6, SeqEqual
<1> QED
  BY <1>7 DEF p, q

(* The first of its events is taken. *)
LEMMA BetweenShrinks ==
    ASSUME NEW s, NEW a \in Nat, NEW b \in Nat, a < b
    PROVE  /\ Between(s, a, b) # <<>> /\ Head(Between(s, a, b)) = <<s, a + 1>>
           /\ Tail(Between(s, a, b)) = Between(s, a + 1, b)
<1> DEFINE p == Between(s, a, b)
           q == Between(s, a + 1, b)
           M == {s} \X ((a + 1)..b)
<1>0. a <= b /\ a + 1 \in Nat /\ a + 1 <= b
  OBVIOUS
<1>1. p \in Seq(M) /\ Len(p) = b - a /\ \A i \in 1..(b - a) : p[i] = <<s, a + i>>
  BY <1>0, BetweenType
<1>2. /\ q \in Seq({s} \X (((a + 1) + 1)..b)) /\ Len(q) = b - (a + 1)
      /\ \A i \in 1..(b - (a + 1)) : q[i] = <<s, (a + 1) + i>>
  BY <1>0, BetweenType
<1>3. {s} \X (((a + 1) + 1)..b) \subseteq M
  OBVIOUS
<1> HIDE DEF p, q, M
<1>4. q \in Seq(M)
  BY <1>2, <1>3, SeqMonotonic
<1>5. p # <<>> /\ Head(p) = p[1] /\ 1 \in 1..(b - a)
  BY <1>1
<1>6. /\ Tail(p) \in Seq(M) /\ Len(Tail(p)) = (b - a) - 1
      /\ \A i \in 1..Len(Tail(p)) : Tail(p)[i] = p[i + 1]
  BY <1>1, <1>5, HeadTailProperties
<1>7. ASSUME NEW i \in 1..Len(Tail(p)) PROVE Tail(p)[i] = q[i]
  <2>1. i + 1 \in 1..(b - a) /\ i \in 1..(b - (a + 1)) /\ a + (i + 1) = (a + 1) + i
    BY <1>6
  <2> QED
    BY <1>1, <1>2, <1>6, <2>1
<1>8. Len(Tail(p)) = Len(q)
  BY <1>2, <1>6
<1>9. Tail(p) = q
  BY <1>4, <1>6, <1>7, <1>8, SeqEqual
<1> QED
  BY <1>1, <1>5, <1>9 DEF p, q

(* A prefix of what a source gives is what it gives first. *)
LEMMA BetweenFront ==
    ASSUME NEW S, NEW p \in Seq(S), NEW r \in Seq(S), NEW s, NEW n \in Nat, p \o r = Between(s, 0, n)
    PROVE  Len(p) \in 0..n /\ p = Between(s, 0, Len(p))
<1> DEFINE m == Len(p)
           M == S \cup ({s} \X Nat)
           q == Between(s, 0, n)
           u == Between(s, 0, m)
<1>1. m \in Nat /\ 0 <= n /\ 0 \in Nat /\ 0 <= m /\ n - 0 = n /\ m - 0 = m
  OBVIOUS
<1>2. Len(q) = n - 0 /\ \A i \in 1..(n - 0) : q[i] = <<s, 0 + i>>
  BY <1>1, BetweenType
<1>3. /\ u \in Seq({s} \X ((0 + 1)..m)) /\ Len(u) = m - 0
      /\ \A i \in 1..(m - 0) : u[i] = <<s, 0 + i>>
  BY <1>1, BetweenType
<1>4. /\ Len(p \o r) = m + Len(r) /\ Len(r) \in Nat /\ \A i \in 1..m : (p \o r)[i] = p[i]
  OBVIOUS
<1>5. p \in Seq(M)
  BY SeqMonotonic
<1>6. {s} \X ((0 + 1)..m) \subseteq M
  OBVIOUS
<1> HIDE DEF m, M, q, u
<1>7. u \in Seq(M)
  BY <1>3, <1>6, SeqMonotonic
<1>8. m <= n
  BY <1>1, <1>2, <1>4 DEF q
<1>9. ASSUME NEW i \in 1..m PROVE p[i] = u[i]
  <2>1. i \in 1..(n - 0) /\ i \in 1..(m - 0)
    BY <1>1, <1>8
  <2> QED
    BY <1>2, <1>3, <1>4, <2>1 DEF q
<1>10. Len(u) = m
  BY <1>1, <1>3
<1>11. p = u
  BY <1>5, <1>7, <1>9, <1>10, SeqEqual DEF m
<1> QED
  BY <1>1, <1>8, <1>11 DEF m, u

----------------------------------------------------------------------------
(* Sequences that hand elements to their neighbour, as channels do. *)

(* A sequence is its first element and the rest. *)
LEMMA FirstAndRest ==
    ASSUME NEW S, NEW q \in Seq(S), q # <<>>
    PROVE  Head(q) \in S /\ Tail(q) \in Seq(S) /\ q = <<Head(q)>> \o Tail(q)
<1> DEFINE h == Head(q)
           t == Tail(q)
<1>1. /\ h \in S /\ t \in Seq(S) /\ Len(t) = Len(q) - 1 /\ \A i \in 1..Len(t) : t[i] = q[i + 1]
      /\ h = q[1] /\ Len(q) \in Nat /\ Len(q) >= 1
  BY HeadTailProperties
<1> HIDE DEF h, t
<1> DEFINE u == <<h>> \o t
<1>2. <<h>> \in Seq(S) /\ Len(<<h>>) = 1 /\ <<h>>[1] = h
  BY <1>1
<1>3. u \in Seq(S) /\ Len(u) = Len(q)
  BY <1>1, <1>2, ConcatProperties
<1>4. ASSUME NEW i \in 1..Len(q) PROVE u[i] = q[i]
  <2>1. u[i] = IF i <= 1 THEN <<h>>[i] ELSE t[i - 1]
    BY <1>1, <1>2, ConcatProperties
  <2>2. CASE i = 1
    BY <1>1, <1>2, <2>1, <2>2
  <2>3. CASE i # 1
    <3>1. i - 1 \in 1..Len(t) /\ ~(i <= 1) /\ (i - 1) + 1 = i
      BY <1>1, <2>3
    <3> QED
      BY <1>1, <2>1, <3>1
  <2> QED
    BY <2>2, <2>3
<1> HIDE DEF u
<1>5. u = q
  BY <1>3, <1>4, SeqEqual
<1> QED
  BY <1>1, <1>5 DEF u, h, t

(* All of it goes on. *)
LEMMA AllGoOn ==
    ASSUME NEW S, NEW p \in Seq(S), NEW q \in Seq(S), NEW r \in Seq(S)
    PROVE  p \o q \o r = p \o (q \o r) \o <<>>
<1>1. q \o r \in Seq(S) /\ p \o (q \o r) \in Seq(S)
  BY ConcatProperties
<1> QED
  BY <1>1, ConcatAssociative, ConcatEmptySeq

(* The first goes on. *)
LEMMA FirstGoesOn ==
    ASSUME NEW S, NEW p \in Seq(S), NEW q \in Seq(S), q # <<>>
    PROVE  p \o q = p \o <<Head(q)>> \o Tail(q) /\ p \o q = Append(p, Head(q)) \o Tail(q)
<1>1. Head(q) \in S /\ Tail(q) \in Seq(S) /\ q = <<Head(q)>> \o Tail(q)
  BY FirstAndRest
<1>2. <<Head(q)>> \in Seq(S)
  BY <1>1
<1>3. p \o (<<Head(q)>> \o Tail(q)) = p \o <<Head(q)>> \o Tail(q)
  BY <1>1, <1>2, ConcatAssociative
<1>4. Append(p, Head(q)) = p \o <<Head(q)>>
  BY <1>1, AppendIsConcat
<1> QED
  BY <1>1, <1>3, <1>4

(* One more comes in. *)
LEMMA OneComesIn ==
    ASSUME NEW S, NEW p \in Seq(S), NEW q \in Seq(S), NEW e \in S
    PROVE  p \o Append(q, e) = Append(p \o q, e) /\ p \o (q \o <<e>>) = Append(p \o q, e)
<1>1. <<e>> \in Seq(S) /\ p \o q \in Seq(S)
  BY ConcatProperties
<1>2. Append(q, e) = q \o <<e>> /\ Append(p \o q, e) = (p \o q) \o <<e>>
  BY <1>1, AppendIsConcat
<1>3. p \o (q \o <<e>>) = (p \o q) \o <<e>>
  BY <1>1, ConcatAssociative
<1> QED
  BY <1>2, <1>3

(* The last is dropped, or the first. *)
LEMMA DropLast ==
    ASSUME NEW S, NEW q \in Seq(S), NEW e \in S
    PROVE  /\ Len(Append(q, e)) \in DOMAIN Append(q, e)
           /\ RemoveAt(Append(q, e), Len(Append(q, e))) = q
<1> DEFINE p == Append(q, e)
           n == Len(p)
<1>1. /\ p \in Seq(S) /\ n = Len(q) + 1 /\ Len(q) \in Nat /\ DOMAIN p = 1..n
      /\ \A i \in 1..Len(q) : p[i] = q[i]
  OBVIOUS
<1> HIDE DEF p
<1>2. SubSeq(p, 1, n - 1) = q
  <2> DEFINE u == SubSeq(p, 1, n - 1)
  <2>1. u \in Seq(S) /\ Len(u) = n - 1 /\ \A i \in 1..(n - 1) : u[i] = p[i]
    BY <1>1
  <2> HIDE DEF u, n
  <2>2. Len(u) = Len(q) /\ \A i \in 1..Len(u) : u[i] = q[i]
    BY <1>1, <2>1
  <2>3. u = q
    BY <2>1, <2>2, SeqEqual
  <2> QED
    BY <2>3 DEF u
<1>3. SubSeq(p, n + 1, n) = <<>>
  BY <1>1
<1>4. q \o <<>> = q
  BY ConcatEmptySeq
<1> QED
  BY <1>1, <1>2, <1>3, <1>4 DEF RemoveAt, p

LEMMA DropFirst ==
    ASSUME NEW S, NEW q \in Seq(S), q # <<>>
    PROVE  1 \in DOMAIN q /\ RemoveAt(q, 1) = Tail(q)
<1>1. SubSeq(q, 1, 1 - 1) = <<>>
  OBVIOUS
<1>2. SubSeq(q, 1 + 1, Len(q)) = Tail(q)
  OBVIOUS
<1>3. Tail(q) \in Seq(S) /\ 1 \in DOMAIN q
  OBVIOUS
<1>4. <<>> \o Tail(q) = Tail(q)
  BY <1>3, ConcatEmptySeq
<1> QED
  BY <1>1, <1>2, <1>3, <1>4 DEF RemoveAt

(* What a source gave first is a prefix of all it gave. *)
LEMMA BetweenPrefix ==
    ASSUME NEW s, NEW m \in Nat, NEW n \in Nat, m <= n
    PROVE  IsPrefix(Between(s, 0, m), Between(s, 0, n))
<1> DEFINE p == Between(s, 0, m)
           q == Between(s, 0, n)
           M == {s} \X (1..n)
<1>1. 0 \in Nat /\ 0 <= m /\ 0 <= n
  OBVIOUS
<1>2. /\ p \in Seq({s} \X ((0 + 1)..m)) /\ Len(p) = m - 0
      /\ \A i \in 1..(m - 0) : p[i] = <<s, 0 + i>>
  BY <1>1, BetweenType
<1>3. /\ q \in Seq({s} \X ((0 + 1)..n)) /\ Len(q) = n - 0
      /\ \A i \in 1..(n - 0) : q[i] = <<s, 0 + i>>
  BY <1>1, BetweenType
<1>4. {s} \X ((0 + 1)..m) \subseteq M
  OBVIOUS
<1> HIDE DEF p, q, M
<1>5. p \in Seq(M)
  BY <1>2, <1>4, SeqMonotonic
<1>6. q \in Seq(M)
  BY <1>3 DEF M
<1> DEFINE u == SubSeq(q, 1, m)
           v == SubSeq(p, 1, m)
<1>7. u \in Seq(M) /\ Len(u) = m /\ \A i \in 1..m : u[i] = q[i]
  BY <1>3, <1>6
<1>8. v \in Seq(M) /\ Len(v) = m /\ \A i \in 1..m : v[i] = p[i]
  BY <1>2, <1>5
<1> HIDE DEF u, v
<1>9. \A i \in 1..m : u[i] = v[i]
  <2> SUFFICES ASSUME NEW i \in 1..m PROVE u[i] = v[i]
    OBVIOUS
  <2>1. i \in 1..(m - 0) /\ i \in 1..(n - 0)
    OBVIOUS
  <2>2. p[i] = <<s, 0 + i>> /\ q[i] = <<s, 0 + i>>
    BY <1>2, <1>3, <2>1
  <2> QED
    BY <1>7, <1>8, <2>2
<1>10. u = v
  BY <1>7, <1>8, <1>9, SeqEqual
<1> QED
  BY <1>2, <1>3, <1>10 DEF IsPrefix, u, v, p, q

----------------------------------------------------------------------------
(* Counting in sequences. *)

(* A set of sequences that holds the empty one, and each with one more        *)
(* element, holds all of them.                                               *)
LEMMA AppendInduction ==
    ASSUME NEW S, NEW K, <<>> \in K, \A q \in Seq(S) : \A e \in S : q \in K => Append(q, e) \in K
    PROVE  \A q \in Seq(S) : q \in K
<1> DEFINE N == {n \in Nat : \A q \in Seq(S) : Len(q) = n => q \in K}
<1>1. 0 \in N
  <2>1. \A q \in Seq(S) : Len(q) = 0 => q = <<>>
    BY EmptySeq
  <2> QED
    BY <2>1
<1>2. ASSUME NEW n \in Nat, n \in N PROVE n + 1 \in N
  <2> SUFFICES ASSUME NEW q \in Seq(S), Len(q) = n + 1 PROVE q \in K
    OBVIOUS
  <2>1. q # <<>>
    BY <1>2
  <2>2. PICK p \in Seq(S), e \in S : q = Append(p, e)
    BY <2>1, SequenceEmptyOrAppend
  <2>3. Len(q) = Len(p) + 1
    BY <2>2, AppendProperties
  <2>4. p \in K
    BY <1>2, <2>3
  <2> QED
    BY <2>2, <2>4
<1>3. \A n \in Nat : n \in N
  <2> HIDE DEF N
  <2> QED
    BY <1>1, <1>2, SetInduction
<1> QED
  BY <1>3, LenProperties

LEMMA OnlyConcat ==
    ASSUME NEW S, NEW p \in Seq(S), NEW q \in Seq(S), NEW T
    PROVE  Only(p \o q, T) = Only(p, T) \o Only(q, T)
<1> DEFINE K == {r \in Seq(S) : Only(p \o r, T) = Only(p, T) \o Only(r, T)}
           a == Only(p, T)
           M == S \cap T
<1>1. a \in Seq(M)
  BY OnlyType
<1>2. <<>> \in K
  <2>1. p \o <<>> = p
    BY ConcatEmptySeq
  <2>2. a \o <<>> = a
    BY <1>1, ConcatEmptySeq
  <2>3. Only(<<>>, T) = <<>>
    BY OnlyEmpty
  <2>4. Only(p \o <<>>, T) = a
    BY <2>1
  <2>5. a \o Only(<<>>, T) = a
    <3> HIDE DEF a
    <3> QED
      BY <2>2, <2>3
  <2>6. <<>> \in Seq(S)
    OBVIOUS
  <2> QED
    BY <2>4, <2>5, <2>6
<1>3. ASSUME NEW r \in Seq(S), NEW e \in S, r \in K PROVE Append(r, e) \in K
  <2> DEFINE b == Only(r, T)
  <2>1. p \o r \in Seq(S) /\ p \o Append(r, e) = Append(p \o r, e)
    BY ConcatProperties, OneComesIn
  <2>2. Only(Append(p \o r, e), T) = IF e \in T THEN Append(Only(p \o r, T), e) ELSE Only(p \o r, T)
    BY <2>1, OnlyAppend
  <2>3. Only(Append(r, e), T) = IF e \in T THEN Append(b, e) ELSE b
    BY OnlyAppend
  <2>4. b \in Seq(M)
    BY OnlyType
  <2>5. Only(p \o r, T) = a \o b
    BY <1>3
  <2>6. Append(r, e) \in Seq(S)
    OBVIOUS
  <2> HIDE DEF a, b
  <2>7. e \in T => a \o Append(b, e) = Append(a \o b, e)
    BY <1>1, <2>4, OneComesIn
  <2>8. Only(p \o Append(r, e), T) = a \o Only(Append(r, e), T)
    BY <2>1, <2>2, <2>3, <2>5, <2>7
  <2> QED
    BY <2>6, <2>8 DEF a
<1>4. q \in K
  <2> HIDE DEF K
  <2> QED
    BY <1>2, <1>3, AppendInduction
<1> QED
  BY <1>4

(* How often e occurs in q. *)
Times(q, e) == Len(Only(q, {e}))

LEMMA TimesEmpty == \A e : Times(<<>>, e) = 0
  BY OnlyEmpty DEF Times

LEMMA TimesConcat ==
    ASSUME NEW S, NEW p \in Seq(S), NEW q \in Seq(S), NEW e
    PROVE  Times(p \o q, e) = Times(p, e) + Times(q, e) /\ Times(q, e) \in Nat
<1> DEFINE a == Only(p, {e})
           b == Only(q, {e})
           M == S \cap {e}
<1>1. a \in Seq(M) /\ b \in Seq(M)
  BY OnlyType
<1>2. Only(p \o q, {e}) = a \o b
  BY OnlyConcat
<1> HIDE DEF a, b
<1>3. Len(a \o b) = Len(a) + Len(b) /\ Len(b) \in Nat
  BY <1>1
<1> QED
  BY <1>2, <1>3 DEF Times, a, b

LEMMA TimesAppend ==
    ASSUME NEW S, NEW q \in Seq(S), NEW d \in S, NEW e
    PROVE  Times(Append(q, d), e) = IF d = e THEN Times(q, e) + 1 ELSE Times(q, e)
<1> DEFINE a == Only(q, {e})
           M == S \cap {e}
<1>1. a \in Seq(M)
  BY OnlyType
<1>2. Only(Append(q, d), {e}) = IF d \in {e} THEN Append(a, d) ELSE a
  BY OnlyAppend
<1> HIDE DEF a
<1>3. d \in {e} => Len(Append(a, d)) = Len(a) + 1
  BY <1>1
<1> QED
  BY <1>2, <1>3 DEF Times, a

(* It occurs if it is an element. *)
LEMMA TimesRange ==
    ASSUME NEW S, NEW q \in Seq(S), NEW e
    PROVE  Times(q, e) \in Nat /\ (Times(q, e) = 0 <=> e \notin Range(q))
<1> DEFINE K == {r \in Seq(S) : Times(r, e) \in Nat /\ (Times(r, e) = 0 <=> e \notin Range(r))}
<1>1. <<>> \in K
  BY TimesEmpty DEF Range
<1>2. ASSUME NEW r \in Seq(S), NEW d \in S, r \in K PROVE Append(r, d) \in K
  <2>1. Append(r, d) \in Seq(S)
    OBVIOUS
  <2>2. Range(Append(r, d)) = Range(r) \cup {d}
    <3>1. Append(r, d) = r \o <<d>> /\ <<d>> \in Seq(S)
      BY AppendIsConcat
    <3>2. Range(<<d>>) = {d}
      BY DEF Range
    <3> DEFINE t == <<d>>
    <3>3. t \in Seq(S)
      BY <3>1
    <3> HIDE DEF t
    <3>4. Range(r \o t) = Range(r) \cup Range(t)
      BY <3>3, RangeConcatenation
    <3> QED
      BY <3>1, <3>2, <3>4 DEF t
  <2>3. Times(Append(r, d), e) = IF d = e THEN Times(r, e) + 1 ELSE Times(r, e)
    BY TimesAppend
  <2> QED
    BY <1>2, <2>1, <2>2, <2>3
<1>3. q \in K
  <2> HIDE DEF K
  <2> QED
    BY <1>1, <1>2, AppendInduction
<1> QED
  BY <1>3

(* A sequence is cut in two. *)
LEMMA CutInTwo ==
    ASSUME NEW S, NEW q \in Seq(S), NEW n \in 0..Len(q)
    PROVE  /\ SubSeq(q, 1, n) \in Seq(S) /\ SubSeq(q, n + 1, Len(q)) \in Seq(S)
           /\ q = SubSeq(q, 1, n) \o SubSeq(q, n + 1, Len(q))
<1>1. SubSeq(q, 1, n) \in Seq(S) /\ SubSeq(q, n + 1, Len(q)) \in Seq(S)
  OBVIOUS
<1>2. /\ 1 \in 1..(Len(q) + 1) /\ n \in (1 - 1)..Len(q) /\ Len(q) \in n..Len(q)
  OBVIOUS
<1>3. SubSeq(q, 1, n) \o SubSeq(q, n + 1, Len(q)) = SubSeq(q, 1, Len(q))
  BY <1>2, ConcatAdjacentSubSeq
<1>4. SubSeq(q, 1, Len(q)) = q
  BY SubSeqFull
<1> QED
  BY <1>1, <1>3, <1>4

(* Nothing of it is in T. *)
LEMMA OnlyNone ==
    ASSUME NEW S, NEW q \in Seq(S), NEW T, \A i \in DOMAIN q : q[i] \notin T
    PROVE  Only(q, T) = <<>>
<1> DEFINE R == {e \in S : e \notin T}
<1>1. q \in Seq(R)
  BY DEF R
<1> HIDE DEF R
<1>2. Only(q, T) \in Seq(R \cap T)
  BY <1>1, OnlyType
<1>3. R \cap T = {}
  BY DEF R
<1> DEFINE o == Only(q, T)
<1>4. o \in Seq({})
  BY <1>2, <1>3
<1> HIDE DEF o
<1>5. o = <<>>
  BY <1>4
<1> QED
  BY <1>5 DEF o

(* An element is found by its place. *)
LEMMA AppendedTo ==
    ASSUME NEW S, NEW q \in Seq(S), NEW e \in S
    PROVE  Append(q, e) # <<>> /\ Last(Append(q, e)) = e
  BY DEF Last

(* What is picked keeps its order. *)
LEMMA OnlyKeepsOrder ==
    ASSUME NEW S, NEW q \in Seq(S), NEW T
    PROVE  \A i, j \in 1..Len(Only(q, T)) :
               i < j => \E a, b \in 1..Len(q) : a < b /\ q[a] = Only(q, T)[i] /\ q[b] = Only(q, T)[j]
<1> DEFINE Comes(r, i, a) == a \in 1..Len(r) /\ r[a] = Only(r, T)[i]
           K == {r \in Seq(S) : /\ \A i \in 1..Len(Only(r, T)) : \E a \in 1..Len(r) : Comes(r, i, a)
                               /\ \A i, j \in 1..Len(Only(r, T)) :
                                      i < j => \E a, b \in 1..Len(r) : a < b /\ Comes(r, i, a) /\ Comes(r, j, b)}
<1>1. <<>> \in K
  <2>1. Only(<<>>, T) = <<>> /\ <<>> \in Seq(S)
    BY OnlyEmpty
  <2> QED
    BY <2>1
<1>2. ASSUME NEW r \in Seq(S), NEW e \in S, r \in K PROVE Append(r, e) \in K
  <2> DEFINE t == Append(r, e)
             u == Only(r, T)
             v == Only(t, T)
  <2>1. /\ t \in Seq(S) /\ Len(t) = Len(r) + 1 /\ Len(r) \in Nat /\ t[Len(r) + 1] = e
        /\ \A a \in 1..Len(r) : t[a] = r[a]
    OBVIOUS
  <2>2. v = IF e \in T THEN Append(u, e) ELSE u
    BY OnlyAppend
  <2>3. u \in Seq(S \cap T)
    BY OnlyType
  <2>4. /\ \A i \in 1..Len(u) : \E a \in 1..Len(r) : r[a] = u[i]
        /\ \A i, j \in 1..Len(u) : i < j => \E a, b \in 1..Len(r) : a < b /\ r[a] = u[i] /\ r[b] = u[j]
    BY <1>2
  <2> HIDE DEF t, u, v
  <2>5. \A i \in 1..Len(v) : (i \in 1..Len(u) /\ v[i] = u[i]) \/ (i = Len(u) + 1 /\ v[i] = e)
    <3>1. CASE e \in T
      <4>1. v = Append(u, e) /\ e \in S \cap T
        BY <2>2, <3>1
      <4> QED
        BY <2>3, <4>1
    <3>2. CASE e \notin T
      BY <2>2, <3>2
    <3> QED
      BY <3>1, <3>2
  <2>6. ASSUME NEW i \in 1..Len(v) PROVE \E a \in 1..Len(t) : t[a] = v[i]
    <3>1. CASE i \in 1..Len(u) /\ v[i] = u[i]
      <4>1. PICK a \in 1..Len(r) : r[a] = u[i]
        BY <2>4, <3>1
      <4>2. a \in 1..Len(t) /\ t[a] = r[a]
        BY <2>1, <4>1
      <4> QED
        BY <3>1, <4>1, <4>2
    <3>2. CASE v[i] = e
      <4>1. Len(r) + 1 \in 1..Len(t)
        BY <2>1
      <4> QED
        BY <2>1, <3>2, <4>1
    <3> QED
      BY <2>5, <3>1, <3>2
  <2>7. ASSUME NEW i \in 1..Len(v), NEW j \in 1..Len(v), i < j
        PROVE  \E a, b \in 1..Len(t) : a < b /\ t[a] = v[i] /\ t[b] = v[j]
    <3>1. Len(u) \in Nat
      BY <2>3
    <3>2. i \in 1..Len(u) /\ v[i] = u[i]
      <4>1. j \in 1..Len(u) \/ j = Len(u) + 1
        BY <2>5
      <4>2. ~(i = Len(u) + 1)
        BY <2>7, <3>1, <4>1
      <4> QED
        BY <2>5, <4>2
    <3>3. CASE j \in 1..Len(u) /\ v[j] = u[j]
      <4>1. PICK a \in 1..Len(r), b \in 1..Len(r) : a < b /\ r[a] = u[i] /\ r[b] = u[j]
        BY <2>4, <2>7, <3>2, <3>3
      <4>2. a \in 1..Len(t) /\ b \in 1..Len(t) /\ t[a] = r[a] /\ t[b] = r[b]
        BY <2>1, <4>1
      <4> QED
        BY <3>2, <3>3, <4>1, <4>2
    <3>4. CASE v[j] = e
      <4>1. PICK a \in 1..Len(r) : r[a] = u[i]
        BY <2>4, <3>2
      <4>2. a \in 1..Len(t) /\ t[a] = r[a] /\ Len(r) + 1 \in 1..Len(t) /\ a < Len(r) + 1
        BY <2>1, <4>1
      <4> QED
        BY <2>1, <3>2, <3>4, <4>1, <4>2
    <3> QED
      BY <2>5, <3>3, <3>4
  <2>8. /\ \A i \in 1..Len(Only(t, T)) : \E a \in 1..Len(t) : Comes(t, i, a)
        /\ \A i, j \in 1..Len(Only(t, T)) :
               i < j => \E a, b \in 1..Len(t) : a < b /\ Comes(t, i, a) /\ Comes(t, j, b)
    BY <2>6, <2>7 DEF v
  <2> HIDE DEF Comes
  <2>9. t \in K
    BY <2>1, <2>8
  <2> QED
    BY <2>9 DEF t
<1> HIDE DEF K
<1>3. q \in K
  <2>1. \A r \in Seq(S) : r \in K
    BY <1>1, <1>2, AppendInduction
  <2> QED
    BY <2>1
<1> QED
  BY <1>3 DEF K

(* The same elements of q are in T and in U. *)
LEMMA OnlySame ==
    ASSUME NEW S, NEW q \in Seq(S), NEW T, NEW U, \A i \in DOMAIN q : q[i] \in T <=> q[i] \in U
    PROVE  Only(q, T) = Only(q, U)
<1> DEFINE Same(r) == \A i \in DOMAIN r : r[i] \in T <=> r[i] \in U
           K == {r \in Seq(S) : Same(r) => Only(r, T) = Only(r, U)}
<1>1. <<>> \in K
  BY OnlyEmpty
<1>2. ASSUME NEW r \in Seq(S), NEW e \in S, r \in K PROVE Append(r, e) \in K
  <2> DEFINE t == Append(r, e)
  <2>1. /\ t \in Seq(S) /\ Len(t) = Len(r) + 1 /\ Len(r) \in Nat /\ DOMAIN t = 1..(Len(r) + 1)
        /\ DOMAIN r = 1..Len(r) /\ t[Len(r) + 1] = e /\ \A i \in 1..Len(r) : t[i] = r[i]
    OBVIOUS
  <2>2. /\ Only(t, T) = IF e \in T THEN Append(Only(r, T), e) ELSE Only(r, T)
        /\ Only(t, U) = IF e \in U THEN Append(Only(r, U), e) ELSE Only(r, U)
    BY OnlyAppend
  <2> HIDE DEF t
  <2>3. Same(t) => Same(r) /\ (e \in T <=> e \in U)
    <3> SUFFICES ASSUME Same(t) PROVE Same(r) /\ (e \in T <=> e \in U)
      OBVIOUS
    <3>1. Len(r) + 1 \in DOMAIN t
      BY <2>1
    <3>2. e \in T <=> e \in U
      BY <2>1, <3>1
    <3>3. \A i \in DOMAIN r : i \in DOMAIN t /\ t[i] = r[i]
      BY <2>1
    <3> QED
      BY <3>2, <3>3
  <2>4. Same(t) => Only(t, T) = Only(t, U)
    BY <1>2, <2>2, <2>3
  <2>5. t \in K
    BY <2>1, <2>4
  <2> QED
    BY <2>5 DEF t
<1> HIDE DEF K
<1>3. q \in K
  <2>1. \A r \in Seq(S) : r \in K
    BY <1>1, <1>2, AppendInduction
  <2> QED
    BY <2>1
<1> QED
  BY <1>3 DEF K
=============================================================================
