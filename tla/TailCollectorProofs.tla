------------------------- MODULE TailCollectorProofs -------------------------
(* Whatever is written, truncated and removed under it, for any files, any    *)
(* number of rotations and any capacity of the channel: the collector never   *)
(* emits a line twice nor lines out of order, and what it consumed of the     *)
(* file that is there was emitted or is in hand.                              *)
EXTENDS TailCollector, FlowLemmas, TLAPS

Piece == (Nat \ {0}) \X {"head", "tail"}

(* The place of a piece in the order of writing. *)
W(x) == 2 * x[1] + (IF x[2] = "tail" THEN 1 ELSE 0)
Weights(b) == {W(b[i]) : i \in DOMAIN b}
Rises(b) == \A i, j \in DOMAIN b : i < j => W(b[i]) < W(b[j])
Below(A, B) == \A a \in A : \A b \in B : a < b

(* What reads from the offset on may still find in b: all of it, when it is   *)
(* shorter than the offset.                                                   *)
Ahead(b, off) == {W(b[i]) : i \in {j \in DOMAIN b : j > off \/ Len(b) < off}}

(* The order of one path's pieces: the content c of the file at the path, the *)
(* content h of the file about to be read, the pieces b in hand, the ends ms  *)
(* of the lines emitted, the number of pieces written top.                    *)
Ordered(c, h, b, ms, off, top, apart) ==
    /\ Rises(c) /\ Rises(h) /\ Rises(b)
    /\ \A w \in Weights(c) \cup Weights(h) \cup Weights(b) \cup ms : w <= top
    /\ Below(ms, Weights(b))
    /\ Below(ms \cup Weights(b), Ahead(c, off) \cup Ahead(h, off))
    /\ IF apart THEN Below(Weights(h), Weights(c)) ELSE h = c

LEMMA WeightType ==
    /\ \A x \in Piece : W(x) \in Nat
    /\ \A b \in Seq(Piece) : Weights(b) \subseteq Nat
    /\ \A b \in Seq(Piece) : \A off : Ahead(b, off) \subseteq Weights(b)
<1>1. \A x \in Piece : W(x) \in Nat
  BY DEF Piece, W
<1>2. \A b \in Seq(Piece) : Weights(b) \subseteq Nat
  BY <1>1 DEF Weights
<1>3. \A b \in Seq(Piece) : \A off : Ahead(b, off) \subseteq Weights(b)
  BY DEF Weights, Ahead
<1> QED
  BY <1>1, <1>2, <1>3

LEMMA EmptyWeights ==
    Rises(<<>>) /\ Weights(<<>>) = {} /\ \A off : Ahead(<<>>, off) = {}
  BY DEF Rises, Weights, Ahead

LEMMA AppendWeights ==
    ASSUME NEW c \in Seq(Piece), NEW x \in Piece
    PROVE  /\ Weights(Append(c, x)) = Weights(c) \cup {W(x)}
           /\ \A off \in Nat : Ahead(Append(c, x), off) \subseteq Ahead(c, off) \cup {W(x)}
           /\ Rises(c) /\ Below(Weights(c), {W(x)}) => Rises(Append(c, x))
<1> DEFINE d == Append(c, x)
<1>1. /\ Len(d) = Len(c) + 1 /\ Len(c) \in Nat /\ DOMAIN d = 1..(Len(c) + 1) /\ DOMAIN c = 1..Len(c)
      /\ d[Len(c) + 1] = x /\ \A i \in 1..Len(c) : d[i] = c[i]
  OBVIOUS
<1> HIDE DEF d
<1>2. Weights(d) = Weights(c) \cup {W(x)}
  <2>1. ASSUME NEW w \in Weights(d) PROVE w \in Weights(c) \cup {W(x)}
    <3>1. PICK i \in DOMAIN d : w = W(d[i])
      BY DEF Weights
    <3> QED
      BY <1>1, <3>1 DEF Weights
  <2>2. ASSUME NEW w \in Weights(c) PROVE w \in Weights(d)
    <3>1. PICK i \in DOMAIN c : w = W(c[i])
      BY DEF Weights
    <3>2. i \in DOMAIN d /\ d[i] = c[i]
      BY <1>1, <3>1
    <3> QED
      BY <3>1, <3>2 DEF Weights
  <2>3. W(x) \in Weights(d)
    <3>1. Len(c) + 1 \in DOMAIN d
      BY <1>1
    <3> QED
      BY <1>1, <3>1 DEF Weights
  <2> QED
    BY <2>1, <2>2, <2>3
<1>3. ASSUME NEW off \in Nat, NEW w \in Ahead(d, off) PROVE w \in Ahead(c, off) \cup {W(x)}
  <2>1. PICK i \in DOMAIN d : w = W(d[i]) /\ (i > off \/ Len(d) < off)
    BY DEF Ahead
  <2>2. CASE i = Len(c) + 1
    BY <1>1, <2>1, <2>2
  <2>3. CASE i # Len(c) + 1
    <3>1. i \in DOMAIN c /\ d[i] = c[i] /\ (i > off \/ Len(c) < off)
      BY <1>1, <2>1, <2>3
    <3> QED
      BY <2>1, <3>1 DEF Ahead
  <2> QED
    BY <2>2, <2>3
<1>4. ASSUME Rises(c), Below(Weights(c), {W(x)}) PROVE Rises(d)
  <2> SUFFICES ASSUME NEW i \in DOMAIN d, NEW j \in DOMAIN d, i < j PROVE W(d[i]) < W(d[j])
    BY DEF Rises
  <2>1. i \in DOMAIN c /\ d[i] = c[i] /\ W(c[i]) \in Weights(c)
    BY <1>1 DEF Weights
  <2>2. CASE j = Len(c) + 1
    BY <1>1, <1>4, <2>1, <2>2 DEF Below
  <2>3. CASE j # Len(c) + 1
    <3>1. j \in DOMAIN c /\ d[j] = c[j]
      BY <1>1, <2>3
    <3> QED
      BY <1>4, <2>1, <3>1 DEF Rises
  <2> QED
    BY <2>2, <2>3
<1> QED
  BY <1>2, <1>3, <1>4 DEF d

----------------------------------------------------------------------------
(* What can happen to one path. *)

(* Less is in hand. *)
LEMMA HandShrinks ==
    ASSUME NEW c, NEW h, NEW b, NEW ms, NEW off, NEW top, NEW apart, NEW b2,
           Ordered(c, h, b, ms, off, top, apart), Rises(b2), Weights(b2) \subseteq Weights(b)
    PROVE  Ordered(c, h, b2, ms, off, top, apart)
<1>1. \A w \in Weights(c) \cup Weights(h) \cup Weights(b2) \cup ms : w <= top
  BY DEF Ordered
<1>2. Below(ms, Weights(b2)) /\ Below(ms \cup Weights(b2), Ahead(c, off) \cup Ahead(h, off))
  BY DEF Ordered, Below
<1> QED
  BY <1>1, <1>2 DEF Ordered

(* A line that ends with m is emitted. *)
LEMMA LineGoes ==
    ASSUME NEW c, NEW h, NEW b, NEW ms, NEW off, NEW top, NEW apart, NEW b2, NEW m,
           Ordered(c, h, b, ms, off, top, apart), Rises(b2), Weights(b2) \subseteq Weights(b),
           m \in Weights(b), Below({m}, Weights(b2))
    PROVE  Ordered(c, h, b2, ms \cup {m}, off, top, apart)
<1>1. \A w \in Weights(c) \cup Weights(h) \cup Weights(b2) \cup (ms \cup {m}) : w <= top
  BY DEF Ordered
<1>2. Below(ms \cup {m}, Weights(b2))
  BY DEF Ordered, Below
<1>3. Below(ms \cup {m} \cup Weights(b2), Ahead(c, off) \cup Ahead(h, off))
  BY DEF Ordered, Below
<1> QED
  BY <1>1, <1>2, <1>3 DEF Ordered

(* A piece is written: to the file at the path, to the one being read, or to  *)
(* neither.                                                                   *)
LEMMA PieceComes ==
    ASSUME NEW c \in Seq(Piece), NEW h \in Seq(Piece), NEW b \in Seq(Piece), NEW ms \in SUBSET Nat,
           NEW off \in Nat, NEW top \in Nat, NEW apart, NEW x \in Piece,
           NEW c2, NEW h2, NEW apart2, apart2 \in BOOLEAN,
           Ordered(c, h, b, ms, off, top, apart), top < W(x),
           c2 \in {c, Append(c, x)}, h2 \in {h, Append(h, x)},
           apart2 => h2 = <<>> \/ c2 = <<>> \/ (apart /\ h2 = h),
           ~apart2 => h2 = c2
    PROVE  Ordered(c2, h2, b, ms, off, W(x), apart2)
<1>1. /\ Weights(c) \subseteq Nat /\ Weights(h) \subseteq Nat /\ Weights(b) \subseteq Nat /\ W(x) \in Nat
      /\ Ahead(c, off) \subseteq Weights(c) /\ Ahead(h, off) \subseteq Weights(h)
  BY WeightType
<1>2. \A w \in Weights(c) \cup Weights(h) \cup Weights(b) \cup ms : w <= top /\ w < W(x) /\ w <= W(x)
  <2> TAKE w \in Weights(c) \cup Weights(h) \cup Weights(b) \cup ms
  <2>1. w <= top
    BY DEF Ordered
  <2>2. w \in Nat
    BY <1>1
  <2> QED
    BY <1>1, <2>1, <2>2
<1>3. Below(Weights(c), {W(x)}) /\ Below(Weights(h), {W(x)})
  BY <1>2 DEF Below
<1>4. Rises(c2) /\ Weights(c2) \subseteq Weights(c) \cup {W(x)} /\ Ahead(c2, off) \subseteq Ahead(c, off) \cup {W(x)}
  BY <1>3, AppendWeights DEF Ordered
<1>5. Rises(h2) /\ Weights(h2) \subseteq Weights(h) \cup {W(x)} /\ Ahead(h2, off) \subseteq Ahead(h, off) \cup {W(x)}
  BY <1>3, AppendWeights DEF Ordered
<1>6. \A w \in Weights(c2) \cup Weights(h2) \cup Weights(b) \cup ms : w <= W(x)
  BY <1>1, <1>2, <1>4, <1>5
<1>7. Below(ms \cup Weights(b), Ahead(c2, off) \cup Ahead(h2, off))
  <2> SUFFICES ASSUME NEW a \in ms \cup Weights(b), NEW d \in Ahead(c, off) \cup Ahead(h, off) \cup {W(x)}
               PROVE  a < d
    BY <1>4, <1>5 DEF Below
  <2> QED
    BY <1>2 DEF Ordered, Below
<1>8. IF apart2 THEN Below(Weights(h2), Weights(c2)) ELSE h2 = c2
  <2>1. CASE h2 = <<>> \/ c2 = <<>>
    BY <2>1, EmptyWeights DEF Below
  <2>2. CASE apart /\ h2 = h
    <3>1. Below(Weights(h), Weights(c)) /\ Below(Weights(h), {W(x)})
      BY <1>3, <2>2 DEF Ordered
    <3>2. Below(Weights(h2), Weights(c2))
      BY <1>4, <2>2, <3>1 DEF Below
    <3> QED
      BY <3>2
  <2> QED
    BY <2>1, <2>2
<1> QED
  BY <1>4, <1>5, <1>6, <1>7, <1>8 DEF Ordered

(* The path's file is emptied, or another takes its place. *)
LEMMA ContentGoes ==
    ASSUME NEW c, NEW h, NEW b, NEW ms, NEW off, NEW top, NEW apart,
           NEW h2, NEW apart2, Ordered(c, h, b, ms, off, top, apart),
           h2 \in {h, <<>>}, apart2 \/ h2 = <<>>
    PROVE  Ordered(<<>>, h2, b, ms, off, top, apart2)
<1>1. /\ Rises(<<>>) /\ Weights(<<>>) = {} /\ Ahead(<<>>, off) = {}
      /\ Rises(h2) /\ Weights(h2) \subseteq Weights(h) /\ Ahead(h2, off) \subseteq Ahead(h, off)
  BY EmptyWeights DEF Ordered
<1>2. \A w \in Weights(<<>>) \cup Weights(h2) \cup Weights(b) \cup ms : w <= top
  BY <1>1 DEF Ordered
<1>3. Below(ms \cup Weights(b), Ahead(<<>>, off) \cup Ahead(h2, off))
  BY <1>1 DEF Ordered, Below
<1>4. Below(Weights(h2), Weights(<<>>))
  BY <1>1 DEF Below
<1> QED
  BY <1>1, <1>2, <1>3, <1>4 DEF Ordered

(* The path's file is closed. *)
LEMMA FileCloses ==
    ASSUME NEW c, NEW h, NEW b, NEW ms, NEW off, NEW top, NEW apart,
           NEW apart2, Ordered(c, h, b, ms, off, top, apart), apart2 \/ c = <<>>
    PROVE  Ordered(c, <<>>, b, ms, off, top, apart2)
<1>1. Rises(<<>>) /\ Weights(<<>>) = {} /\ Ahead(<<>>, off) = {}
  BY EmptyWeights
<1>2. \A w \in Weights(c) \cup Weights(<<>>) \cup Weights(b) \cup ms : w <= top
  BY <1>1 DEF Ordered
<1>3. Below(ms \cup Weights(b), Ahead(c, off) \cup Ahead(<<>>, off))
  BY <1>1 DEF Ordered, Below
<1>4. IF apart2 THEN Below(Weights(<<>>), Weights(c)) ELSE <<>> = c
  BY <1>1 DEF Below
<1> QED
  BY <1>1, <1>2, <1>3, <1>4 DEF Ordered

(* The path's file is opened; one shorter than the offset is read anew. *)
LEMMA FileOpens ==
    ASSUME NEW c \in Seq(Piece), NEW h, NEW b, NEW ms, NEW off, NEW top, NEW apart,
           NEW b2, NEW off2, Ordered(c, h, b, ms, off, top, apart),
           (b2 = b /\ off2 = off) \/ (b2 = <<>> /\ off2 = 0 /\ Len(c) < off)
    PROVE  Ordered(c, c, b2, ms, off2, top, FALSE)
<1>1. Weights(b2) \subseteq Weights(b) /\ Rises(b2)
  BY EmptyWeights DEF Ordered
<1>2. Ahead(c, off2) \subseteq Ahead(c, off)
  <2>1. CASE off2 = off
    BY <2>1
  <2>2. CASE Len(c) < off
    BY <2>2 DEF Ahead
  <2> QED
    BY <2>1, <2>2
<1>3. \A w \in Weights(c) \cup Weights(c) \cup Weights(b2) \cup ms : w <= top
  BY <1>1 DEF Ordered
<1>4. Below(ms, Weights(b2)) /\ Below(ms \cup Weights(b2), Ahead(c, off2) \cup Ahead(c, off2))
  BY <1>1, <1>2 DEF Ordered, Below
<1> QED
  BY <1>1, <1>3, <1>4 DEF Ordered

LEMMA RestIsAhead ==
    ASSUME NEW h \in Seq(Piece), NEW off \in Nat, off <= Len(h)
    PROVE  /\ SubSeq(h, off + 1, Len(h)) \in Seq(Piece) /\ Len(SubSeq(h, off + 1, Len(h))) = Len(h) - off
           /\ Weights(SubSeq(h, off + 1, Len(h))) \subseteq Ahead(h, off)
           /\ off < Len(h) => Ahead(h, off) # {}
           /\ Ahead(h, Len(h)) = {}
           /\ Rises(h) => Rises(SubSeq(h, off + 1, Len(h)))
           /\ Rises(h) /\ off > 0 => Below({W(h[off])}, Weights(SubSeq(h, off + 1, Len(h))))
<1> DEFINE d == SubSeq(h, off + 1, Len(h))
<1>1. /\ d \in Seq(Piece) /\ Len(d) = Len(h) - off /\ DOMAIN d = 1..(Len(h) - off) /\ DOMAIN h = 1..Len(h)
      /\ \A i \in 1..(Len(h) - off) : d[i] = h[off + i]
  OBVIOUS
<1>2. Len(h) \in Nat
  OBVIOUS
<1> HIDE DEF d
<1>3. ASSUME NEW w \in Weights(d) PROVE w \in Ahead(h, off)
  <2>1. PICK i \in DOMAIN d : w = W(d[i])
    BY DEF Weights
  <2>2. off + i \in DOMAIN h /\ off + i > off /\ w = W(h[off + i])
    BY <1>1, <1>2, <2>1
  <2> QED
    BY <2>2 DEF Ahead
<1>4. off < Len(h) => Ahead(h, off) # {}
  <2> SUFFICES ASSUME off < Len(h) PROVE Ahead(h, off) # {}
    OBVIOUS
  <2>1. Len(h) \in DOMAIN h /\ Len(h) > off
    BY <1>1, <1>2
  <2> QED
    BY <2>1 DEF Ahead
<1>5. Ahead(h, Len(h)) = {}
  BY <1>1, <1>2 DEF Ahead
<1>6. ASSUME Rises(h) PROVE Rises(d)
  <2> SUFFICES ASSUME NEW i \in DOMAIN d, NEW j \in DOMAIN d, i < j PROVE W(d[i]) < W(d[j])
    BY DEF Rises
  <2>1. off + i \in DOMAIN h /\ off + j \in DOMAIN h /\ off + i < off + j /\ d[i] = h[off + i] /\ d[j] = h[off + j]
    BY <1>1, <1>2
  <2> QED
    BY <1>6, <2>1 DEF Rises
<1>7. ASSUME Rises(h), off > 0 PROVE Below({W(h[off])}, Weights(d))
  <2> SUFFICES ASSUME NEW i \in DOMAIN d PROVE W(h[off]) < W(d[i])
    BY DEF Below, Weights
  <2>1. off \in DOMAIN h /\ off + i \in DOMAIN h /\ off < off + i /\ d[i] = h[off + i]
    BY <1>1, <1>2, <1>7
  <2> QED
    BY <1>7, <2>1 DEF Rises
<1> QED
  BY <1>1, <1>3, <1>4, <1>5, <1>6, <1>7 DEF d

LEMMA JoinRises ==
    ASSUME NEW b \in Seq(Piece), NEW d \in Seq(Piece)
    PROVE  /\ Weights(b \o d) = Weights(b) \cup Weights(d)
           /\ Rises(b) /\ Rises(d) /\ Below(Weights(b), Weights(d)) => Rises(b \o d)
<1> DEFINE q == b \o d
<1>1. /\ DOMAIN q = 1..(Len(b) + Len(d)) /\ DOMAIN b = 1..Len(b) /\ DOMAIN d = 1..Len(d)
      /\ Len(b) \in Nat /\ Len(d) \in Nat
      /\ \A i \in 1..(Len(b) + Len(d)) : q[i] = IF i <= Len(b) THEN b[i] ELSE d[i - Len(b)]
  OBVIOUS
<1> HIDE DEF q
<1>2. Weights(q) \subseteq Weights(b) \cup Weights(d)
  <2> SUFFICES ASSUME NEW i \in DOMAIN q PROVE W(q[i]) \in Weights(b) \cup Weights(d)
    BY DEF Weights
  <2>1. CASE i <= Len(b)
    <3>1. i \in DOMAIN b /\ q[i] = b[i]
      BY <1>1, <2>1
    <3> QED
      BY <3>1 DEF Weights
  <2>2. CASE ~(i <= Len(b))
    <3>1. i - Len(b) \in DOMAIN d /\ q[i] = d[i - Len(b)]
      BY <1>1, <2>2
    <3> QED
      BY <3>1 DEF Weights
  <2> QED
    BY <2>1, <2>2
<1>3. Weights(b) \subseteq Weights(q)
  <2> SUFFICES ASSUME NEW i \in DOMAIN b PROVE W(b[i]) \in Weights(q)
    BY DEF Weights
  <2>1. i \in DOMAIN q /\ q[i] = b[i]
    BY <1>1
  <2> QED
    BY <2>1 DEF Weights
<1>4. Weights(d) \subseteq Weights(q)
  <2> SUFFICES ASSUME NEW i \in DOMAIN d PROVE W(d[i]) \in Weights(q)
    BY DEF Weights
  <2>1. Len(b) + i \in DOMAIN q /\ q[Len(b) + i] = d[i]
    BY <1>1
  <2> QED
    BY <2>1 DEF Weights
<1>5. ASSUME Rises(b), Rises(d), Below(Weights(b), Weights(d)) PROVE Rises(q)
  <2> SUFFICES ASSUME NEW i \in DOMAIN q, NEW j \in DOMAIN q, i < j PROVE W(q[i]) < W(q[j])
    BY DEF Rises
  <2>1. CASE j <= Len(b)
    <3>1. i \in DOMAIN b /\ j \in DOMAIN b /\ q[i] = b[i] /\ q[j] = b[j]
      BY <1>1, <2>1
    <3> QED
      BY <1>5, <3>1 DEF Rises
  <2>2. CASE ~(i <= Len(b))
    <3>1. /\ i - Len(b) \in DOMAIN d /\ j - Len(b) \in DOMAIN d /\ i - Len(b) < j - Len(b)
          /\ q[i] = d[i - Len(b)] /\ q[j] = d[j - Len(b)]
      BY <1>1, <2>2
    <3> QED
      BY <1>5, <3>1 DEF Rises
  <2>3. CASE i <= Len(b) /\ ~(j <= Len(b))
    <3>1. i \in DOMAIN b /\ j - Len(b) \in DOMAIN d /\ q[i] = b[i] /\ q[j] = d[j - Len(b)]
      BY <1>1, <2>3
    <3>2. W(b[i]) \in Weights(b) /\ W(d[j - Len(b)]) \in Weights(d)
      BY <3>1 DEF Weights
    <3> QED
      BY <1>5, <3>1, <3>2 DEF Below
  <2> QED
    BY <1>1, <2>1, <2>2, <2>3
<1> QED
  BY <1>2, <1>3, <1>4, <1>5 DEF q

(* The file that is open is read. *)
LEMMA FileIsRead ==
    ASSUME NEW c \in Seq(Piece), NEW h \in Seq(Piece), NEW b \in Seq(Piece), NEW ms \in SUBSET Nat,
           NEW off \in Nat, NEW top \in Nat, NEW apart, NEW apart2, apart2 \in BOOLEAN,
           Ordered(c, h, b, ms, off, top, apart), off < Len(h), ~apart2 => c = <<>>
    PROVE  Ordered(c, <<>>, b \o SubSeq(h, off + 1, Len(h)), ms, Len(h), top, apart2)
<1> DEFINE d == SubSeq(h, off + 1, Len(h))
<1>1. /\ d \in Seq(Piece) /\ Weights(d) \subseteq Ahead(h, off) /\ Ahead(h, off) # {}
      /\ Ahead(h, Len(h)) = {} /\ Rises(d)
  <2>1. off <= Len(h) /\ Rises(h)
    BY DEF Ordered
  <2> QED
    BY <2>1, RestIsAhead
<1> HIDE DEF d
<1>2. /\ Weights(c) \subseteq Nat /\ Weights(h) \subseteq Nat /\ Weights(b) \subseteq Nat
      /\ Ahead(h, off) \subseteq Weights(h) /\ Ahead(c, Len(h)) \subseteq Weights(c)
  BY WeightType
<1>3. Below(Weights(b), Weights(d)) /\ Below(ms, Weights(d))
  BY <1>1 DEF Ordered, Below
<1>4. Rises(b \o d) /\ Weights(b \o d) = Weights(b) \cup Weights(d)
  BY <1>1, <1>3, JoinRises DEF Ordered
<1>5. \A w \in Weights(c) \cup {} \cup Weights(b \o d) \cup ms : w <= top
  BY <1>1, <1>2, <1>4 DEF Ordered
<1>6. Below(ms, Weights(b \o d))
  BY <1>3, <1>4 DEF Ordered, Below
<1>7. Below(ms \cup Weights(b \o d), Ahead(c, Len(h)))
  <2>1. CASE apart
    <3>1. Below(Weights(h), Weights(c))
      BY <2>1 DEF Ordered
    <3>2. PICK w \in Ahead(h, off) : w \in Weights(h)
      BY <1>1, <1>2
    <3>3. ASSUME NEW m \in ms \cup Weights(b), NEW y \in Weights(c) PROVE m < y
      <4>1. m < w /\ w < y
        BY <3>1, <3>2 DEF Ordered, Below
      <4>2. m \in Nat /\ w \in Nat /\ y \in Nat
        BY <1>2, <3>2
      <4> QED
        BY <4>1, <4>2
    <3>4. ASSUME NEW m \in Weights(d), NEW y \in Weights(c) PROVE m < y
      BY <1>1, <1>2, <3>1 DEF Below
    <3> QED
      BY <1>2, <1>4, <3>3, <3>4 DEF Below
  <2>2. CASE ~apart
    <3>1. Ahead(c, Len(h)) = {}
      BY <1>1, <2>2 DEF Ordered
    <3> QED
      BY <3>1 DEF Below
  <2> QED
    BY <2>1, <2>2
<1>8. Rises(<<>>) /\ Weights(<<>>) = {} /\ Ahead(<<>>, Len(h)) = {}
  BY EmptyWeights
<1>9. IF apart2 THEN Below(Weights(<<>>), Weights(c)) ELSE <<>> = c
  BY <1>8 DEF Below
<1> QED
  BY <1>4, <1>5, <1>6, <1>7, <1>8, <1>9 DEF Ordered, d

----------------------------------------------------------------------------
(* A line in hand: it ends with the first newline. *)

LEMMA NewlineIs ==
    ASSUME NEW b \in Seq(Piece), Newlines(b) # {}
    PROVE  /\ Newline(b) \in 1..Len(b) /\ b[Newline(b)][2] = "tail"
           /\ \A j \in 1..Len(b) : j < Newline(b) => b[j][2] = "head"
<1>1. Newlines(b) \subseteq Nat /\ Newlines(b) \subseteq 1..Len(b)
  BY DEF Newlines
<1>2. \E i \in Newlines(b) : \A j \in Newlines(b) : i <= j
  <2>1. PICK i \in Newlines(b) : \A j \in Newlines(b) : ~(j < i)
    BY <1>1, LeastElement
  <2> QED
    BY <1>1, <2>1
<1>3. Newline(b) \in Newlines(b) /\ \A j \in Newlines(b) : Newline(b) <= j
  BY <1>2 DEF Newline
<1>4. ASSUME NEW j \in 1..Len(b), j < Newline(b) PROVE b[j][2] = "head"
  <2>1. j \notin Newlines(b)
    BY <1>1, <1>3, <1>4
  <2>2. b[j] \in Piece
    OBVIOUS
  <2> QED
    BY <2>1, <2>2 DEF Newlines, Piece
<1> QED
  BY <1>1, <1>3, <1>4 DEF Newlines

LEMMA LineLeaves ==
    ASSUME NEW b \in Seq(Piece), Newlines(b) # {}
    PROVE  /\ Line(b) \in Seq(Piece) /\ Len(Line(b)) = Newline(b)
           /\ \A i \in 1..Newline(b) : Line(b)[i] = b[i]
           /\ After(b) \in Seq(Piece) /\ Len(After(b)) = Len(b) - Newline(b)
           /\ Weights(After(b)) \subseteq Weights(b) /\ W(b[Newline(b)]) \in Weights(b)
           /\ Rises(b) => Rises(After(b)) /\ Below({W(b[Newline(b)])}, Weights(After(b)))
<1>1. Newline(b) \in 1..Len(b)
  BY NewlineIs
<1> DEFINE n == Newline(b)
<1> HIDE DEF n
<1>2. n \in Nat /\ n <= Len(b) /\ n > 0 /\ n \in DOMAIN b
  BY <1>1 DEF n
<1>3. /\ SubSeq(b, 1, n) \in Seq(Piece) /\ Len(SubSeq(b, 1, n)) = n
      /\ \A i \in 1..n : SubSeq(b, 1, n)[i] = b[i]
  BY <1>2
<1>4. /\ SubSeq(b, n + 1, Len(b)) \in Seq(Piece) /\ Len(SubSeq(b, n + 1, Len(b))) = Len(b) - n
      /\ Weights(SubSeq(b, n + 1, Len(b))) \subseteq Ahead(b, n)
      /\ Rises(b) => Rises(SubSeq(b, n + 1, Len(b)))
      /\ Rises(b) => Below({W(b[n])}, Weights(SubSeq(b, n + 1, Len(b))))
  BY <1>2, RestIsAhead
<1>5. Ahead(b, n) \subseteq Weights(b)
  BY WeightType
<1>6. W(b[n]) \in Weights(b)
  BY <1>2 DEF Weights
<1> QED
  BY <1>3, <1>4, <1>5, <1>6 DEF n, Line, After

----------------------------------------------------------------------------
(* Types. *)

File == [gen : 0..MaxRotations, data : Seq(Piece)]
Shapes ==
    /\ disk \in Seq(File)
    /\ name \in [Path -> 0..Len(disk)]
    /\ wr \in [Path -> [n : Nat, file : 0..Len(disk)]]
    /\ \A p \in Path : wr[p].n <= Len(Lines[p]) /\ (wr[p].file # 0 => wr[p].n # 0)
    /\ rot \in 0..MaxRotations
    /\ st \in [Path -> [off : Nat, partial : Seq(Piece), gen : Nat, misread : BOOLEAN]]
    /\ tl \in [at : {"glob", "open", "read", "emit", "exited"}, todo : Seq(Path),
                file : 0..Len(disk), buf : Seq(Piece)]
    /\ tl.at \in {"read", "emit"} => tl.todo # <<>>
    /\ tl.at = "read" => tl.file # 0
    /\ chan \in 0..ChanCap
    /\ emitted \in Seq(Path \X Nat \X Nat)
    /\ ctl \in [done : BOOLEAN, stop : {"idle", "waiting", "returned"}]

States == [off : Nat, partial : Seq(Piece), gen : Nat, misread : BOOLEAN]
Loops == [at : {"glob", "open", "read", "emit", "exited"}, todo : Seq(Path),
          file : 0..Len(disk), buf : Seq(Piece)]

LEMMA PathsAre == Path \in SUBSET (Nat \ {0}) /\ \A p \in Path : Lines[p] \in Seq({"good", "bad"}) /\ Len(Lines[p]) \in Nat
  BY TailAssumption DEF Path

LEMMA CurIs == ASSUME Shapes, tl.todo # <<>> PROVE Cur \in Path /\ Tail(tl.todo) \in Seq(Path)
<1>1. tl.todo \in Seq(Path)
  BY DEF Shapes
<1> QED
  BY <1>1, FirstAndRest DEF Cur

Appended(d, f, x) == [d EXCEPT ![f].data = Append(@, x)]
Emptied(d, f, g) == [d EXCEPT ![f] = [gen |-> g, data |-> <<>>]]

LEMMA FileAppended ==
    ASSUME NEW d \in Seq(File), NEW f \in 1..Len(d), NEW x \in Piece
    PROVE  /\ Appended(d, f, x) \in Seq(File) /\ Len(Appended(d, f, x)) = Len(d)
           /\ Appended(d, f, x)[f].data = Append(d[f].data, x) /\ Appended(d, f, x)[f].gen = d[f].gen
           /\ \A g \in 1..Len(d) : g # f => Appended(d, f, x)[g] = d[g]
<1> DEFINE e == Appended(d, f, x)
<1>0. d[f] \in File
  OBVIOUS
<1>1. d[f].data \in Seq(Piece)
  BY <1>0 DEF File
<1> DEFINE q == Append(d[f].data, x)
<1>2. q \in Seq(Piece)
  BY <1>1
<1>3. e = [d EXCEPT ![f] = [@ EXCEPT !.data = q]]
  BY DEF Appended
<1> HIDE DEF q, e
<1>4. [d[f] EXCEPT !.data = q] \in File /\ [d[f] EXCEPT !.data = q].data = q /\ [d[f] EXCEPT !.data = q].gen = d[f].gen
  BY <1>0, <1>2 DEF File
<1> DEFINE r == [d[f] EXCEPT !.data = q]
<1>5. e = [d EXCEPT ![f] = r] /\ r \in File /\ r.data = q /\ r.gen = d[f].gen
  BY <1>3, <1>4
<1> HIDE DEF r
<1>6. e \in Seq(File) /\ Len(e) = Len(d) /\ e[f] = r /\ \A g \in 1..Len(d) : g # f => e[g] = d[g]
  <2> DEFINE u == [d EXCEPT ![f] = r]
  <2>1. u \in Seq(File) /\ Len(u) = Len(d) /\ \A g \in 1..Len(d) : u[g] = IF g = f THEN r ELSE d[g]
    <3>1. r \in File
      BY <1>5
    <3> QED
      BY <3>1, ExceptSeq
  <2>2. e = u
    BY <1>5
  <2> HIDE DEF u
  <2> QED
    BY <2>1, <2>2
<1> QED
  BY <1>5, <1>6 DEF q, e

LEMMA FileEmptied ==
    ASSUME NEW d \in Seq(File), NEW f \in 1..Len(d), NEW r \in 0..MaxRotations
    PROVE  /\ Emptied(d, f, r) \in Seq(File) /\ Len(Emptied(d, f, r)) = Len(d)
           /\ Emptied(d, f, r)[f].data = <<>> /\ Emptied(d, f, r)[f].gen = r
           /\ \A g \in 1..Len(d) : g # f => Emptied(d, f, r)[g] = d[g]
<1> DEFINE new == [gen |-> r, data |-> <<>>]
<1>1. new \in File /\ new.data = <<>> /\ new.gen = r
  BY DEF File
<1>2. Emptied(d, f, r) = [d EXCEPT ![f] = new]
  BY DEF Emptied
<1> HIDE DEF new
<1>3. /\ [d EXCEPT ![f] = new] \in Seq(File) /\ Len([d EXCEPT ![f] = new]) = Len(d)
      /\ \A g \in 1..Len(d) : [d EXCEPT ![f] = new][g] = IF g = f THEN new ELSE d[g]
  BY <1>1, ExceptSeq
<1> QED
  BY <1>1, <1>2, <1>3

LEMMA FirstLinesAre ==
    ASSUME NEW k \in Nat
    PROVE  /\ FirstLines(k) \in Seq(Piece) /\ Len(FirstLines(k)) = 2 * k
           /\ \A i \in 1..(2 * k) : W(FirstLines(k)[i]) = i + 1
<1>1. 2 * k \in Nat
  OBVIOUS
<1>2. ASSUME NEW i \in 1..(2 * k)
      PROVE  /\ <<(i + 1) \div 2, IF i % 2 = 1 THEN "head" ELSE "tail">> \in Piece
             /\ W(<<(i + 1) \div 2, IF i % 2 = 1 THEN "head" ELSE "tail">>) = i + 1
  BY DEF Piece, W
<1> DEFINE n == 2 * k
           q == FirstLines(k)
<1>3. /\ q = [i \in 1..n |-> q[i]]
      /\ \A i \in 1..n : q[i] = <<(i + 1) \div 2, IF i % 2 = 1 THEN "head" ELSE "tail">>
  BY DEF FirstLines
<1>4. \A i \in 1..n : q[i] \in Piece /\ W(q[i]) = i + 1
  BY <1>2, <1>3
<1> HIDE DEF q, n
<1>5. n \in Nat
  BY <1>1 DEF n
<1>6. q \in Seq(Piece) /\ Len(q) = n
  BY <1>3, <1>4, <1>5
<1> QED
  BY <1>4, <1>6 DEF q, n

LEMMA InitShapes == Init => Shapes
<1> SUFFICES ASSUME Init PROVE Shapes
  OBVIOUS
<1>1. Lines \in Seq(Seq({"good", "bad"})) /\ Path = 1..Len(Lines) /\ Len(Lines) \in Nat
  BY TailAssumption DEF Path
<1>2. \A p \in Path : Existing[p] \in 0..Len(Lines[p]) /\ Existing[p] \in Nat
  BY TailAssumption, PathsAre DEF Path
<1>3. \A p \in Path : [gen |-> 0, data |-> FirstLines(Existing[p])] \in File
  <2> TAKE p \in Path
  <2>1. FirstLines(Existing[p]) \in Seq(Piece)
    BY <1>2, FirstLinesAre
  <2> QED
    BY <2>1, TailAssumption DEF File
<1>4. disk \in Seq(File) /\ Len(disk) = Len(Lines)
  BY <1>1, <1>3 DEF Init
<1>5. name \in [Path -> 0..Len(disk)]
  BY <1>1, <1>4 DEF Init
<1>6. wr \in [Path -> [n : Nat, file : 0..Len(disk)]] /\ \A p \in Path : wr[p].n <= Len(Lines[p]) /\ wr[p].file = 0
  BY <1>1, <1>2, <1>4 DEF Init
<1>7. st \in [Path -> [off : Nat, partial : Seq(Piece), gen : Nat, misread : BOOLEAN]]
  BY DEF Init
<1>8. /\ tl \in [at : {"glob", "open", "read", "emit", "exited"}, todo : Seq(Path),
                  file : 0..Len(disk), buf : Seq(Piece)]
      /\ tl.at = "glob"
  BY <1>4 DEF Init
<1>9. rot \in 0..MaxRotations /\ chan \in 0..ChanCap /\ emitted \in Seq(Path \X Nat \X Nat)
  BY TailAssumption DEF Init
<1>10. ctl \in [done : BOOLEAN, stop : {"idle", "waiting", "returned"}]
  BY DEF Init
<1> QED
  BY <1>4, <1>5, <1>6, <1>7, <1>8, <1>9, <1>10 DEF Shapes

(* The writer and its operator. *)
LEMMA WritersShapes ==
    ASSUME Shapes, NEW p \in Path, WriteHead(p) \/ WriteTail(p) \/ Truncate(p) \/ Unlink(p)
    PROVE  Shapes'
<1>1. /\ disk \in Seq(File) /\ name \in [Path -> 0..Len(disk)]
      /\ wr \in [Path -> [n : Nat, file : 0..Len(disk)]] /\ rot \in 0..MaxRotations
      /\ \A q \in Path : wr[q].n <= Len(Lines[q]) /\ (wr[q].file # 0 => wr[q].n # 0)
  BY DEF Shapes
<1>2. /\ wr[p].n \in Nat /\ wr[p].file \in 0..Len(disk) /\ name[p] \in 0..Len(disk) /\ Len(disk) \in Nat
      /\ MaxRotations \in Nat /\ rot \in Nat
  BY <1>1, TailAssumption
<1>3. UNCHANGED <<st, tl, chan, emitted, ctl>>
  BY DEF WriteHead, WriteTail, Truncate, Unlink
<1>4. ASSUME disk' \in Seq(File), Len(disk) <= Len(disk'), name' \in [Path -> 0..Len(disk')],
             wr' \in [Path -> [n : Nat, file : 0..Len(disk')]], rot' \in 0..MaxRotations,
             \A q \in Path : wr'[q].n <= Len(Lines[q]) /\ (wr'[q].file # 0 => wr'[q].n # 0)
      PROVE  Shapes'
  <2>1. Len(disk') \in Nat
    BY <1>4
  <2>2. tl \in [at : {"glob", "open", "read", "emit", "exited"}, todo : Seq(Path),
                file : 0..Len(disk'), buf : Seq(Piece)]
    <3> DEFINE m == Len(disk)
               n == Len(disk')
    <3>1. 0..m \subseteq 0..n
      BY <1>2, <1>4, <2>1
    <3> HIDE DEF n
    <3>2. tl \in [at : {"glob", "open", "read", "emit", "exited"}, todo : Seq(Path),
                  file : 0..m, buf : Seq(Piece)]
      BY DEF Shapes
    <3> HIDE DEF m
    <3>3. tl \in [at : {"glob", "open", "read", "emit", "exited"}, todo : Seq(Path),
                  file : 0..n, buf : Seq(Piece)]
      BY <3>1, <3>2
    <3> QED
      BY <3>3 DEF n
  <2> QED
    BY <1>3, <1>4, <2>2 DEF Shapes
<1>5. CASE WriteHead(p)
  <2> DEFINE new == [gen |-> rot, data |-> <<>>]
             d == IF name[p] = 0 THEN Append(disk, new) ELSE disk
             f == IF name[p] = 0 THEN Len(d) ELSE name[p]
             x == <<wr[p].n + 1, "head">>
  <2>1. new \in File /\ x \in Piece
    BY <1>1, <1>2 DEF File, Piece
  <2>2. /\ disk' = Appended(d, f, x) /\ name' = [name EXCEPT ![p] = f]
        /\ wr' = [wr EXCEPT ![p] = [n |-> wr[p].n + 1, file |-> f]]
        /\ rot' = rot /\ wr[p].n < Len(Lines[p])
    BY <1>1, <1>5 DEF WriteHead, Appended
  <2> HIDE DEF new, x
  <2>3. d \in Seq(File) /\ f \in 1..Len(d) /\ Len(disk) <= Len(d) /\ Len(d) \in Nat
    BY <1>1, <1>2, <2>1
  <2> HIDE DEF d, f
  <2>4. disk' \in Seq(File) /\ Len(disk') = Len(d)
    <3>1. Appended(d, f, x) \in Seq(File) /\ Len(Appended(d, f, x)) = Len(d)
      BY <2>1, <2>3, FileAppended
    <3> QED
      BY <2>2, <3>1
  <2>5. name' \in [Path -> 0..Len(disk')]
    BY <1>1, <1>2, <2>2, <2>3, <2>4
  <2>6. /\ wr' \in [Path -> [n : Nat, file : 0..Len(disk')]]
        /\ \A q \in Path : wr'[q].n <= Len(Lines[q]) /\ (wr'[q].file # 0 => wr'[q].n # 0)
    BY <1>1, <1>2, <2>2, <2>3, <2>4, PathsAre
  <2> QED
    BY <1>1, <1>4, <2>2, <2>3, <2>4, <2>5, <2>6
<1>6. CASE WriteTail(p)
  <2> DEFINE f == wr[p].file
             x == <<wr[p].n, "tail">>
  <2>1. /\ disk' = Appended(disk, f, x) /\ name' = name /\ rot' = rot
        /\ wr' = [wr EXCEPT ![p].file = 0] /\ f # 0
    BY <1>6 DEF WriteTail, Appended
  <2>2. x \in Piece /\ f \in 1..Len(disk)
    BY <1>1, <1>2, <2>1 DEF Piece
  <2> HIDE DEF x, f
  <2>3. disk' \in Seq(File) /\ Len(disk') = Len(disk)
    <3>1. Appended(disk, f, x) \in Seq(File) /\ Len(Appended(disk, f, x)) = Len(disk)
      BY <1>1, <2>2, FileAppended
    <3> QED
      BY <2>1, <3>1
  <2>4. /\ wr' \in [Path -> [n : Nat, file : 0..Len(disk')]]
        /\ \A q \in Path : wr'[q].n <= Len(Lines[q]) /\ (wr'[q].file # 0 => wr'[q].n # 0)
    BY <1>1, <1>2, <2>1, <2>3, PathsAre
  <2> QED
    BY <1>1, <1>2, <1>4, <2>1, <2>3, <2>4
<1>7. CASE Truncate(p)
  <2> DEFINE f == name[p]
             r == rot + 1
  <2>1. /\ disk' = Emptied(disk, f, r) /\ name' = name /\ wr' = wr /\ rot' = r
        /\ f # 0 /\ rot < MaxRotations
    BY <1>7 DEF Truncate, Emptied
  <2>2. f \in 1..Len(disk) /\ r \in 0..MaxRotations
    BY <1>2, <2>1
  <2> HIDE DEF f, r
  <2>3. disk' \in Seq(File) /\ Len(disk') = Len(disk)
    <3>1. Emptied(disk, f, r) \in Seq(File) /\ Len(Emptied(disk, f, r)) = Len(disk)
      BY <1>1, <2>2, FileEmptied
    <3> QED
      BY <2>1, <3>1
  <2> QED
    BY <1>1, <1>2, <1>4, <2>1, <2>2, <2>3
<1>8. CASE Unlink(p)
  <2>1. disk' = disk /\ name' = [name EXCEPT ![p] = 0] /\ wr' = wr /\ rot' = rot + 1 /\ rot < MaxRotations
    BY <1>8 DEF Unlink
  <2>2. name' \in [Path -> 0..Len(disk')] /\ rot' \in 0..MaxRotations
    BY <1>1, <1>2, <2>1
  <2> QED
    BY <1>1, <1>2, <1>4, <2>1, <2>2
<1> QED
  BY <1>5, <1>6, <1>7, <1>8

LEMMA ShapesAt ==
    ASSUME Shapes, NEW p \in Path
    PROVE  /\ disk \in Seq(File) /\ name[p] \in 0..Len(disk) /\ wr[p].file \in 0..Len(disk) /\ wr[p].n \in Nat
           /\ st[p] \in States /\ tl \in Loops /\ emitted \in Seq(Path \X Nat \X Nat) /\ Len(disk) \in Nat
           /\ wr[p].file # 0 => wr[p].n # 0
           /\ tl.at = "read" => tl.todo # <<>>
<1>1. /\ disk \in Seq(File) /\ name \in [Path -> 0..Len(disk)]
      /\ wr \in [Path -> [n : Nat, file : 0..Len(disk)]]
      /\ st \in [Path -> States] /\ tl \in Loops /\ emitted \in Seq(Path \X Nat \X Nat)
      /\ wr[p].file # 0 => wr[p].n # 0
      /\ tl.at = "read" => tl.todo # <<>>
  BY DEF Shapes, States, Loops
<1>2. wr[p] \in [n : Nat, file : 0..Len(disk)]
  BY <1>1
<1> QED
  BY <1>1, <1>2

LEMMA FreshIs ==
    ASSUME NEW s \in States
    PROVE  Fresh(s) \in States /\ Fresh(s).off = 0 /\ Fresh(s).partial = <<>> /\ Fresh(s).gen = s.gen
<1> DEFINE e == <<>>
<1>1. Fresh(s) = [s EXCEPT !.off = 0, !.partial = e]
  BY DEF Fresh
<1>2. e \in Seq(Piece)
  OBVIOUS
<1> HIDE DEF e
<1> DEFINE r == Fresh(s)
<1>3. r = [off |-> 0, partial |-> e, gen |-> s.gen, misread |-> s.misread]
  BY <1>1 DEF States
<1> HIDE DEF r
<1>4. r \in States /\ r.off = 0 /\ r.partial = e /\ r.gen = s.gen
  BY <1>2, <1>3 DEF States
<1> QED
  BY <1>4 DEF e, r

LEMMA NextFileIs ==
    ASSUME Shapes, tl.todo # <<>>
    PROVE  /\ NextFile(tl) \in Loops /\ NextFile(tl).at = "open" /\ NextFile(tl).file = 0
           /\ NextFile(tl).todo = Tail(tl.todo) /\ NextFile(tl).buf = <<>>
<1>1. tl \in Loops
  BY DEF Shapes, Loops
<1>2. Tail(tl.todo) \in Seq(Path) /\ Len(disk) \in Nat
  BY CurIs DEF Shapes
<1> QED
  <2> DEFINE r == Tail(tl.todo)
             e == <<>>
  <2>1. NextFile(tl) = [tl EXCEPT !.at = "open", !.todo = r, !.file = 0, !.buf = e]
    BY DEF NextFile
  <2>2. r \in Seq(Path) /\ e \in Seq(Piece) /\ 0 \in 0..Len(disk)
    BY <1>2
  <2> HIDE DEF r, e
  <2>3. /\ NextFile(tl) \in Loops /\ NextFile(tl).at = "open" /\ NextFile(tl).file = 0
        /\ NextFile(tl).todo = r /\ NextFile(tl).buf = e
    BY <1>1, <2>1, <2>2 DEF Loops
  <2> QED
    BY <2>3 DEF r, e

LEMMA PathsInOrder ==
    /\ [p \in Path |-> p] \in Seq(Path)
    /\ \A T : Only([p \in Path |-> p], T) \in Seq(Path)
<1>1. Path = 1..Len(Lines) /\ Len(Lines) \in Nat
  BY TailAssumption DEF Path
<1> DEFINE q == [p \in Path |-> p]
<1>2. q \in Seq(Path)
  BY <1>1
<1> HIDE DEF q
<1>3. \A T : Only(q, T) \in Seq(Path)
  <2> TAKE T
  <2>1. Only(q, T) \in Seq(Path \cap T)
    BY <1>2, OnlyType
  <2>2. Path \cap T \subseteq Path
    OBVIOUS
  <2> QED
    BY <2>1, <2>2, SeqMonotonic
<1> QED
  BY <1>2, <1>3 DEF q

(* The goroutine, the agent, and Stop. *)
LEMMA CollectorShapes ==
    ASSUME Shapes, TailStep \/ Take \/ Cancel \/ Stop \/ StopReturn \/ UNCHANGED vars
    PROVE  Shapes'
<1>1. /\ tl \in Loops /\ st \in [Path -> States] /\ emitted \in Seq(Path \X Nat \X Nat)
      /\ disk \in Seq(File) /\ name \in [Path -> 0..Len(disk)] /\ chan \in 0..ChanCap
      /\ ctl \in [done : BOOLEAN, stop : {"idle", "waiting", "returned"}]
      /\ tl.at \in {"read", "emit"} => tl.todo # <<>>
      /\ tl.at = "read" => tl.file # 0
  BY DEF Shapes, Loops, States
<1>2. UNCHANGED files
  BY DEF TailStep, Glob, Open, OpenAs, Read, Skip, Emit, Put, EmitCancel, Hold, Tick, Exit, Take,
         Cancel, Stop, StopReturn, vars, files
<1>3. ASSUME tl' \in Loops, st' \in [Path -> States], emitted' \in Seq(Path \X Nat \X Nat), chan' \in 0..ChanCap,
             ctl' \in [done : BOOLEAN, stop : {"idle", "waiting", "returned"}],
             tl'.at \in {"read", "emit"} => tl'.todo # <<>>, tl'.at = "read" => tl'.file # 0
      PROVE  Shapes'
  BY <1>2, <1>3 DEF Shapes, Loops, States, files
<1>4. CASE Glob
  <2> DEFINE q == Only([p \in Path |-> p], {p \in Path : name[p] # 0})
  <2>1. tl' = [tl EXCEPT !.at = "open", !.todo = q] /\ UNCHANGED <<st, chan, emitted, ctl>>
    BY <1>4 DEF Glob
  <2>2. q \in Seq(Path)
    BY PathsInOrder
  <2> HIDE DEF q
  <2>3. tl' \in Loops /\ tl'.at = "open"
    BY <1>1, <2>1, <2>2 DEF Loops
  <2> QED
    BY <1>1, <1>3, <2>1, <2>3
<1>5. CASE Open
  <2>1. tl.todo # <<>> /\ Cur \in Path /\ UNCHANGED <<chan, emitted, ctl>>
    BY <1>5, CurIs DEF Open, OpenAs
  <2>2. CASE name[Cur] = 0
    <3>1. tl' = NextFile(tl) /\ st' = st
      BY <1>5, <2>2 DEF Open, OpenAs
    <3> QED
      BY <1>1, <1>3, <2>1, <3>1, NextFileIs
  <2>3. CASE name[Cur] # 0
    <3>1. tl' = [tl EXCEPT !.at = "read", !.file = name[Cur]]
      BY <1>5, <2>3 DEF Open, OpenAs
    <3>2. \/ st' = [st EXCEPT ![Cur] = Fresh(@)]
          \/ st' = st
      BY <1>1, <1>5, <2>1, <2>3 DEF Open, OpenAs
    <3>3. Fresh(st[Cur]) \in States
      <4>1. st[Cur] \in States
        BY <1>1, <2>1
      <4> QED
        BY <4>1, FreshIs
    <3>4. st' \in [Path -> States]
      BY <1>1, <2>1, <3>2, <3>3
    <3>5. name[Cur] \in 0..Len(disk)
      BY <1>1, <2>1
    <3>6. tl' \in Loops /\ tl'.todo = tl.todo /\ tl'.file # 0
      BY <1>1, <2>3, <3>1, <3>5 DEF Loops
    <3> QED
      BY <1>1, <1>3, <2>1, <3>4, <3>6
  <2> QED
    BY <2>2, <2>3
<1>6. CASE Read
  <2> DEFINE s == st[Cur]
             d == disk[tl.file]
             data == SubSeq(d.data, s.off + 1, Len(d.data))
             g == IF s.off = 0 THEN d.gen ELSE s.gen
             n == s.off + Len(data)
             t == [s EXCEPT !.off = n, !.gen = g, !.misread = g # d.gen /\ s.off <= Len(d.data)]
  <2>1. /\ tl.at = "read" /\ st' = [st EXCEPT ![Cur] = t] /\ UNCHANGED <<chan, emitted, ctl>>
        /\ tl' = IF data = <<>> THEN NextFile(tl) ELSE [tl EXCEPT !.at = "emit", !.buf = s.partial \o data]
    BY <1>1, <1>6 DEF Read
  <2>2. Cur \in Path /\ tl.todo # <<>> /\ tl.file \in 1..Len(disk)
    BY <1>1, <2>1, CurIs DEF Loops
  <2>3. s \in States /\ d \in File
    BY <1>1, <2>2
  <2>4. s.off \in Nat /\ s.partial \in Seq(Piece) /\ s.gen \in Nat /\ d.data \in Seq(Piece) /\ d.gen \in Nat
    BY <2>3, TailAssumption DEF States, File
  <2>5. data \in Seq(Piece) /\ n \in Nat /\ g \in Nat /\ s.partial \o data \in Seq(Piece)
    <3>1. data \in Seq(Piece)
      BY <2>4
    <3> HIDE DEF data, s, d
    <3> QED
      BY <2>4, <3>1
  <2> HIDE DEF n, g, data, d
  <2>6. t \in States
    BY <2>3, <2>5 DEF States
  <2> HIDE DEF s, t
  <2>7. st' \in [Path -> States]
    BY <1>1, <2>1, <2>2, <2>6
  <2>8. tl' \in Loops /\ tl'.at \in {"open", "emit"} /\ (tl'.at = "emit" => tl'.todo = tl.todo)
    BY <1>1, <2>1, <2>2, <2>5, NextFileIs DEF Loops
  <2> QED
    BY <1>1, <1>3, <2>1, <2>2, <2>7, <2>8
<1>7. ASSUME tl.at = "emit", Newlines(tl.buf) # {}, tl' = [tl EXCEPT !.buf = After(@)]
      PROVE  tl' \in Loops /\ tl'.at = tl.at /\ tl'.todo = tl.todo
  <2>1. tl.buf \in Seq(Piece)
    BY <1>1 DEF Loops
  <2>2. After(tl.buf) \in Seq(Piece)
    BY <1>7, <2>1, LineLeaves
  <2> QED
    BY <1>1, <1>7, <2>2 DEF Loops
<1>8. CASE Skip
  <2>1. UNCHANGED <<st, chan, emitted, ctl>> /\ tl' \in Loops /\ tl'.at = tl.at /\ tl'.todo = tl.todo /\ tl.at = "emit"
    BY <1>7, <1>8 DEF Skip
  <2> QED
    BY <1>1, <1>3, <2>1
<1>9. CASE Emit
  <2>1. /\ UNCHANGED <<st, ctl>> /\ tl' \in Loops /\ tl'.at = tl.at /\ tl'.todo = tl.todo /\ tl.at = "emit"
        /\ emitted' = Append(emitted, Event(Line(tl.buf))) /\ chan' = chan + 1 /\ chan < ChanCap
    BY <1>7, <1>9 DEF Emit, CanEmit, Put
  <2>2. Event(Line(tl.buf)) \in Path \X Nat \X Nat
    <3>1. tl.buf \in Seq(Piece) /\ Newlines(tl.buf) # {} /\ Cur \in Path
      BY <1>1, <1>9, <2>1, CurIs DEF Loops, Emit, CanEmit
    <3> DEFINE l == Line(tl.buf)
    <3>2. l \in Seq(Piece)
      BY <3>1, LineLeaves
    <3>3. Len(l) = 2
      BY <1>9 DEF Emit, CanEmit, Decodes, Whole, Spliced
    <3> HIDE DEF l
    <3>4. l[1] \in Piece /\ l[2] \in Piece
      BY <3>2, <3>3
    <3>5. Event(l) \in Path \X Nat \X Nat
      BY <3>1, <3>4 DEF Event, Piece
    <3> QED
      BY <3>5 DEF l
  <2>3. emitted' \in Seq(Path \X Nat \X Nat)
    BY <1>1, <2>1, <2>2
  <2>4. chan' \in 0..ChanCap
    BY <1>1, <2>1, TailAssumption
  <2> QED
    BY <1>1, <1>3, <2>1, <2>3, <2>4
<1>10. CASE Hold
  <2>1. tl.at = "emit" /\ st' = [st EXCEPT ![Cur].partial = tl.buf] /\ tl' = NextFile(tl) /\ UNCHANGED <<chan, emitted, ctl>>
    BY <1>10 DEF Hold
  <2>2. Cur \in Path /\ tl.todo # <<>> /\ tl.buf \in Seq(Piece)
    BY <1>1, <2>1, CurIs DEF Loops
  <2>3. st' \in [Path -> States]
    BY <1>1, <2>1, <2>2 DEF States
  <2> QED
    BY <1>1, <1>3, <2>1, <2>2, <2>3, NextFileIs
<1>11. CASE EmitCancel \/ Exit \/ Tick
  <2>1. (\E a \in {"exited", "glob"} : tl' = [tl EXCEPT !.at = a]) /\ UNCHANGED <<st, chan, emitted, ctl>>
    BY <1>11 DEF EmitCancel, Exit, Tick
  <2>2. tl' \in Loops /\ tl'.at \in {"exited", "glob"}
    BY <1>1, <2>1 DEF Loops
  <2> QED
    BY <1>1, <1>3, <2>1, <2>2
<1>12. CASE Take
  <2>1. chan > 0 /\ chan' = chan - 1 /\ UNCHANGED <<st, tl, emitted, ctl>>
    BY <1>12 DEF Take
  <2>2. chan' \in 0..ChanCap
    BY <1>1, <2>1, TailAssumption
  <2>3. tl' \in Loops
    BY <1>1, <1>2, <2>1 DEF Loops, files
  <2> QED
    BY <1>1, <1>3, <2>1, <2>2, <2>3
<1>13. CASE Cancel \/ Stop \/ StopReturn
  <2>1. UNCHANGED <<st, tl, emitted, chan>>
    BY <1>13 DEF Cancel, Stop, StopReturn
  <2>2. ctl' \in [done : BOOLEAN, stop : {"idle", "waiting", "returned"}]
    <3>1. CASE Cancel
      BY <1>1, <3>1 DEF Cancel
    <3>2. CASE Stop
      BY <3>2 DEF Stop
    <3>3. CASE StopReturn
      BY <1>1, <3>3 DEF StopReturn
    <3> QED
      BY <1>13, <3>1, <3>2, <3>3
  <2> QED
    BY <1>1, <1>3, <2>1, <2>2
<1>14. CASE UNCHANGED vars
  BY <1>1, <1>3, <1>14 DEF vars
<1> QED
  BY <1>4, <1>5, <1>6, <1>8, <1>9, <1>10, <1>11, <1>12, <1>13, <1>14 DEF TailStep

----------------------------------------------------------------------------
(* What belongs to a path. *)

(* The file about to be read for it, and what is in that. *)
Held(p) == IF tl.at = "read" /\ Cur = p THEN tl.file ELSE 0
HeldData(p) == IF Held(p) = 0 THEN <<>> ELSE disk[Held(p)].data

Hand(p) == IF tl.at = "exited" THEN <<>> ELSE Pending(p)
Ends(p) == {2 * emitted[i][3] + 1 : i \in {j \in DOMAIN emitted : emitted[j][1] = p}}
Top(p) == 2 * wr[p].n + (IF wr[p].file = 0 THEN 1 ELSE 0)

(* No file is two paths'; a line is finished in the file it was begun in.    *)
Refs(p) == {name[p], wr[p].file, Held(p)} \ {0}
Tidy ==
    /\ \A p, q \in Path : p # q => Refs(p) \cap Refs(q) = {}
    /\ \A p \in Path : wr[p].file # 0 /\ name[p] # 0 => wr[p].file = name[p]

(* Pieces are found in the order they were written in, each once: what is    *)
(* still to be read after what is in hand, and that after what was emitted.  *)
OrderedAt(p) ==
    Ordered(Content(p), HeldData(p), Hand(p), Ends(p), st[p].off, Top(p), Held(p) # name[p])

LEMMA TheirTypes ==
    ASSUME Shapes, NEW p \in Path
    PROVE  /\ Content(p) \in Seq(Piece) /\ HeldData(p) \in Seq(Piece) /\ Hand(p) \in Seq(Piece)
           /\ Pending(p) \in Seq(Piece) /\ Ends(p) \in SUBSET Nat /\ st[p].off \in Nat /\ Top(p) \in Nat
           /\ Held(p) \in 0..Len(disk) /\ name[p] \in 0..Len(disk) /\ wr[p].file \in 0..Len(disk)
           /\ Len(disk) \in Nat /\ wr[p].n \in Nat
           /\ Held(p) # 0 => tl.at = "read" /\ Cur = p /\ Held(p) = tl.file /\ tl.todo # <<>>
<1>1. /\ disk \in Seq(File) /\ name[p] \in 0..Len(disk) /\ wr[p].file \in 0..Len(disk) /\ wr[p].n \in Nat
      /\ st[p] \in States /\ tl \in Loops /\ emitted \in Seq(Path \X Nat \X Nat) /\ Len(disk) \in Nat
      /\ tl.at = "read" => tl.todo # <<>>
  BY ShapesAt
<1>2. /\ tl.file \in 0..Len(disk) /\ tl.buf \in Seq(Piece) /\ st[p].partial \in Seq(Piece) /\ st[p].off \in Nat
  BY <1>1 DEF States, Loops
<1>3. \A f \in 1..Len(disk) : disk[f] \in File
  BY <1>1
<1>4. \A f \in 1..Len(disk) : disk[f].data \in Seq(Piece)
  BY <1>3 DEF File
<1>5. /\ Held(p) \in 0..Len(disk)
      /\ Held(p) # 0 => tl.at = "read" /\ Cur = p /\ Held(p) = tl.file /\ tl.todo # <<>>
  BY <1>1, <1>2 DEF Held
<1>6. Content(p) \in Seq(Piece)
  BY <1>1, <1>4 DEF Content
<1>7. HeldData(p) \in Seq(Piece)
  BY <1>1, <1>4, <1>5 DEF HeldData
<1>8. Hand(p) \in Seq(Piece) /\ Pending(p) \in Seq(Piece)
  BY <1>2 DEF Hand, Pending
<1>9. Ends(p) \in SUBSET Nat
  <2>1. \A i \in DOMAIN emitted : emitted[i][3] \in Nat
    BY <1>1
  <2> QED
    BY <2>1 DEF Ends
<1>10. Top(p) \in Nat
  BY <1>1 DEF Top
<1> QED
  BY <1>1, <1>2, <1>5, <1>6, <1>7, <1>8, <1>9, <1>10

LEMMA SameStays ==
    ASSUME NEW p \in Path, OrderedAt(p), Content(p)' = Content(p), HeldData(p)' = HeldData(p),
           Hand(p)' = Hand(p), Ends(p)' = Ends(p), st'[p].off = st[p].off, Top(p)' = Top(p),
           Held(p)' = Held(p), name'[p] = name[p]
    PROVE  OrderedAt(p)'
  BY DEF OrderedAt

(* A write: piece x goes to file f, for path p. *)
Wrote(p, f, x) ==
    /\ Len(disk') >= Len(disk) /\ f \in 1..Len(disk') /\ \A g \in 1..Len(disk') : g = f \/ g \in 1..Len(disk)
    /\ \A g \in 1..Len(disk) : g # f => disk'[g] = disk[g]
    /\ IF f \in 1..Len(disk)
       THEN disk'[f].data = Append(disk[f].data, x) /\ disk'[f].gen = disk[f].gen
       ELSE disk'[f].data = Append(<<>>, x) /\ disk'[f].gen = rot
    /\ IF wr[p].file = 0 THEN x[2] = "head" /\ wr'[p].file = f
       ELSE x[2] = "tail" /\ wr[p].file = f /\ x[1] = wr[p].n /\ wr'[p].file = 0
    /\ wr'[p].n = x[1] /\ Top(p) < W(x) /\ Top(p)' = W(x)
    /\ \/ name'[p] = name[p] /\ f \in Refs(p) /\ (name[p] = 0 \/ name[p] = f)
       \/ name[p] = 0 /\ name'[p] = f /\ f = Len(disk) + 1
    /\ \A q \in Path \ {p} : name'[q] = name[q] /\ wr'[q] = wr[q]
    /\ UNCHANGED <<rot, st, tl, emitted>>

LEMMA WriteWrites ==
    ASSUME Shapes, Tidy, NEW p \in Path, WriteHead(p) \/ WriteTail(p)
    PROVE  \E f \in Nat : \E x \in Piece : Wrote(p, f, x)
<1>1. /\ disk \in Seq(File) /\ name \in [Path -> 0..Len(disk)]
      /\ wr \in [Path -> [n : Nat, file : 0..Len(disk)]] /\ rot \in 0..MaxRotations
      /\ wr[p].file # 0 => wr[p].n # 0
      /\ wr[p].n \in Nat /\ wr[p].file \in 0..Len(disk) /\ name[p] \in 0..Len(disk) /\ Len(disk) \in Nat
  BY ShapesAt DEF Shapes
<1>2. CASE WriteHead(p)
  <2> DEFINE new == [gen |-> rot, data |-> <<>>]
             d == IF name[p] = 0 THEN Append(disk, new) ELSE disk
             f == IF name[p] = 0 THEN Len(d) ELSE name[p]
             x == <<wr[p].n + 1, "head">>
  <2>1. new \in File /\ x \in Piece /\ x[1] = wr[p].n + 1 /\ x[2] = "head" /\ W(x) = 2 * (wr[p].n + 1)
    BY <1>1 DEF File, Piece, W
  <2>2. /\ disk' = Appended(d, f, x) /\ name' = [name EXCEPT ![p] = f]
        /\ wr' = [wr EXCEPT ![p] = [n |-> wr[p].n + 1, file |-> f]]
        /\ rot' = rot /\ wr[p].n < Len(Lines[p]) /\ wr[p].file = 0
        /\ UNCHANGED <<rot, st, tl, emitted>>
    BY <1>1, <1>2 DEF WriteHead, Appended
  <2>3. new.gen = rot /\ new.data = <<>>
    OBVIOUS
  <2> HIDE DEF new, x
  <2>4. /\ d \in Seq(File) /\ f \in 1..Len(d) /\ Len(disk) <= Len(d) /\ Len(d) \in Nat
        /\ \A g \in 1..Len(disk) : d[g] = disk[g]
        /\ \/ name[p] # 0 /\ f = name[p]
           \/ name[p] = 0 /\ f = Len(disk) + 1 /\ d[f] = new
        /\ \A g \in 1..Len(d) : g = f \/ g \in 1..Len(disk)
    BY <1>1, <2>1
  <2> HIDE DEF d, f
  <2>5. /\ disk' \in Seq(File) /\ Len(disk') = Len(d)
        /\ disk'[f].data = Append(d[f].data, x) /\ disk'[f].gen = d[f].gen
        /\ \A g \in 1..Len(d) : g # f => disk'[g] = d[g]
    <3>1. /\ Appended(d, f, x) \in Seq(File) /\ Len(Appended(d, f, x)) = Len(d)
          /\ Appended(d, f, x)[f].data = Append(d[f].data, x) /\ Appended(d, f, x)[f].gen = d[f].gen
          /\ \A g \in 1..Len(d) : g # f => Appended(d, f, x)[g] = d[g]
      BY <2>1, <2>4, FileAppended
    <3> QED
      BY <2>2, <3>1
  <2>6. \A g \in 1..Len(disk) : g # f => disk'[g] = disk[g]
    BY <1>1, <2>4, <2>5
  <2>7. IF f \in 1..Len(disk)
        THEN disk'[f].data = Append(disk[f].data, x) /\ disk'[f].gen = disk[f].gen
        ELSE disk'[f].data = Append(<<>>, x) /\ disk'[f].gen = rot
    <3>1. CASE name[p] # 0 /\ f = name[p]
      <4>1. f \in 1..Len(disk) /\ d[f] = disk[f]
        BY <1>1, <2>4, <3>1
      <4> QED
        BY <2>5, <4>1
    <3>2. CASE name[p] = 0 /\ f = Len(disk) + 1 /\ d[f] = new
      <4>1. f \notin 1..Len(disk)
        BY <1>1, <3>2
      <4> QED
        BY <2>3, <2>5, <3>2, <4>1
    <3> QED
      BY <2>4, <3>1, <3>2
  <2>8. /\ wr'[p].n = wr[p].n + 1 /\ wr'[p].file = f /\ name'[p] = f /\ f # 0
        /\ \A q \in Path \ {p} : name'[q] = name[q] /\ wr'[q] = wr[q]
    BY <1>1, <2>2, <2>4
  <2>9. Top(p) < W(x) /\ Top(p)' = W(x)
    BY <1>1, <2>1, <2>2, <2>8 DEF Top
  <2>10. \/ name'[p] = name[p] /\ f \in Refs(p) /\ (name[p] = 0 \/ name[p] = f)
         \/ name[p] = 0 /\ name'[p] = f /\ f = Len(disk) + 1
    BY <2>4, <2>8 DEF Refs
  <2>11. Wrote(p, f, x)
    BY <2>1, <2>2, <2>4, <2>5, <2>6, <2>7, <2>8, <2>9, <2>10 DEF Wrote
  <2> QED
    <3>1. f \in Nat
      BY <2>4
    <3>2. x \in Piece
      BY <2>1
    <3> QED
      BY <2>11, <3>1, <3>2
<1>3. CASE WriteTail(p)
  <2> DEFINE f == wr[p].file
             x == <<wr[p].n, "tail">>
  <2>1. /\ disk' = Appended(disk, f, x) /\ name' = name /\ rot' = rot
        /\ wr' = [wr EXCEPT ![p].file = 0] /\ f # 0
        /\ UNCHANGED <<rot, st, tl, emitted>>
    BY <1>3 DEF WriteTail, Appended
  <2>2. x \in Piece /\ f \in 1..Len(disk) /\ x[1] = wr[p].n /\ x[2] = "tail" /\ W(x) = 2 * wr[p].n + 1
    BY <1>1, <2>1 DEF Piece, W
  <2>3. f \in Refs(p) /\ (name[p] = 0 \/ name[p] = f)
    BY <2>1 DEF Refs, Tidy
  <2>4. wr'[p].n = wr[p].n /\ wr'[p].file = 0 /\ \A q \in Path \ {p} : wr'[q] = wr[q]
    BY <1>1, <2>1
  <2>5. Top(p) < W(x) /\ Top(p)' = W(x)
    BY <1>1, <2>1, <2>2, <2>4 DEF Top
  <2>6. f = wr[p].file
    OBVIOUS
  <2> HIDE DEF x, f
  <2>7. /\ disk' \in Seq(File) /\ Len(disk') = Len(disk)
        /\ disk'[f].data = Append(disk[f].data, x) /\ disk'[f].gen = disk[f].gen
        /\ \A g \in 1..Len(disk) : g # f => disk'[g] = disk[g]
    <3>1. /\ Appended(disk, f, x) \in Seq(File) /\ Len(Appended(disk, f, x)) = Len(disk)
          /\ Appended(disk, f, x)[f].data = Append(disk[f].data, x) /\ Appended(disk, f, x)[f].gen = disk[f].gen
          /\ \A g \in 1..Len(disk) : g # f => Appended(disk, f, x)[g] = disk[g]
      BY <1>1, <2>2, FileAppended
    <3> QED
      BY <2>1, <3>1
  <2>8. Wrote(p, f, x)
    BY <1>1, <2>1, <2>2, <2>3, <2>4, <2>5, <2>6, <2>7 DEF Wrote
  <2> QED
    <3>1. f \in Nat
      BY <1>1, <2>2
    <3> QED
      BY <2>2, <2>8, <3>1
<1> QED
  BY <1>2, <1>3

(* What the collector has is not the writer's to change. *)
LEMMA CollectorKeeps ==
    ASSUME UNCHANGED <<st, tl, emitted>>, NEW q \in Path
    PROVE  Held(q)' = Held(q) /\ Hand(q)' = Hand(q) /\ Pending(q)' = Pending(q) /\ Ends(q)' = Ends(q) /\ st'[q] = st[q]
  BY DEF Held, Hand, Pending, Cur, Ends

(* A path whose files are what they were. *)
LEMMA FilesKept ==
    ASSUME Shapes, NEW q \in Path, Held(q)' = Held(q), name'[q] = name[q], wr'[q] = wr[q],
           \A g \in Refs(q) : disk'[g] = disk[g]
    PROVE  Content(q)' = Content(q) /\ HeldData(q)' = HeldData(q) /\ Top(q)' = Top(q) /\ Refs(q)' = Refs(q)
<1>1. Content(q)' = Content(q)
  BY DEF Content, Refs
<1>2. HeldData(q)' = HeldData(q)
  BY DEF HeldData, Refs
<1>3. Top(q)' = Top(q) /\ Refs(q)' = Refs(q)
  BY DEF Top, Refs
<1> QED
  BY <1>1, <1>2, <1>3

LEMMA RefsAre ==
    ASSUME Shapes, NEW q \in Path
    PROVE  Refs(q) \subseteq 1..Len(disk)
<1>1. Held(q) \in 0..Len(disk) /\ name[q] \in 0..Len(disk) /\ wr[q].file \in 0..Len(disk) /\ Len(disk) \in Nat
  BY TheirTypes
<1> QED
  BY <1>1 DEF Refs

LEMMA WriteElsewhere ==
    ASSUME Shapes, Tidy, NEW p \in Path, NEW f \in Nat, NEW x \in Piece, Wrote(p, f, x),
           NEW q \in Path, q # p
    PROVE  /\ Content(q)' = Content(q) /\ HeldData(q)' = HeldData(q) /\ Top(q)' = Top(q)
           /\ name'[q] = name[q] /\ Refs(q)' = Refs(q) /\ wr'[q] = wr[q]
           /\ name[q] # 0 => disk'[name[q]] = disk[name[q]]
           /\ Held(q) # 0 => disk'[Held(q)] = disk[Held(q)]
<1>1. name'[q] = name[q] /\ wr'[q] = wr[q] /\ Held(q)' = Held(q)
  BY CollectorKeeps DEF Wrote
<1>2. \A g \in Refs(q) : disk'[g] = disk[g]
  <2> TAKE g \in Refs(q)
  <2>1. g \in 1..Len(disk)
    BY RefsAre
  <2>2. g # f
    <3>1. Refs(q) \cap Refs(p) = {}
      BY DEF Tidy
    <3>2. f \in Refs(p) \/ f = Len(disk) + 1
      BY DEF Wrote
    <3>3. Len(disk) \in Nat
      BY TheirTypes
    <3> QED
      BY <2>1, <3>1, <3>2, <3>3
  <2> QED
    BY <2>1, <2>2 DEF Wrote
<1>3. Content(q)' = Content(q) /\ HeldData(q)' = HeldData(q) /\ Top(q)' = Top(q) /\ Refs(q)' = Refs(q)
  BY <1>1, <1>2, FilesKept
<1>4. /\ name[q] # 0 => disk'[name[q]] = disk[name[q]]
      /\ Held(q) # 0 => disk'[Held(q)] = disk[Held(q)]
  BY <1>2 DEF Refs
<1> QED
  BY <1>1, <1>3, <1>4

LEMMA WriteHere ==
    ASSUME Shapes, Tidy, NEW p \in Path, NEW f \in Nat, NEW x \in Piece, Wrote(p, f, x)
    PROVE  /\ Content(p)' = IF name'[p] = f THEN Append(Content(p), x) ELSE Content(p)
           /\ HeldData(p)' = IF Held(p) = f THEN Append(HeldData(p), x) ELSE HeldData(p)
           /\ name'[p] # f => Content(p) = <<>>
           /\ Held(p) = f => name'[p] = f \/ Content(p) = <<>>
           /\ f # 0
<1>1. /\ Held(p)' = Held(p) /\ Held(p) \in 0..Len(disk) /\ name[p] \in 0..Len(disk) /\ Len(disk) \in Nat
  BY CollectorKeeps, TheirTypes DEF Wrote
<1>2. /\ f \in 1..Len(disk')
      /\ \A g \in 1..Len(disk) : g # f => disk'[g] = disk[g]
      /\ IF f \in 1..Len(disk) THEN disk'[f].data = Append(disk[f].data, x)
         ELSE disk'[f].data = Append(<<>>, x)
      /\ \/ name'[p] = name[p] /\ f \in Refs(p) /\ (name[p] = 0 \/ name[p] = f)
         \/ name[p] = 0 /\ name'[p] = f /\ f = Len(disk) + 1
  BY DEF Wrote
<1>3. f # 0
  BY <1>2
<1>4. HeldData(p)' = IF Held(p) = f THEN Append(HeldData(p), x) ELSE HeldData(p)
  <2>1. CASE Held(p) = f
    <3>1. f \in 1..Len(disk)
      BY <1>1, <1>3, <2>1
    <3> QED
      BY <1>1, <1>2, <1>3, <2>1, <3>1 DEF HeldData
  <2>2. CASE Held(p) # f
    BY <1>1, <1>2, <2>2 DEF HeldData
  <2> QED
    BY <2>1, <2>2
<1>5. name'[p] # f => Content(p) = <<>>
  BY <1>2 DEF Content
<1>6. Content(p)' = IF name'[p] = f THEN Append(Content(p), x) ELSE Content(p)
  <2>1. CASE name[p] = 0 /\ name'[p] = f /\ f = Len(disk) + 1
    <3>1. f \notin 1..Len(disk)
      BY <1>1, <2>1
    <3>2. disk'[f].data = Append(<<>>, x)
      BY <1>2, <3>1
    <3> QED
      BY <1>3, <2>1, <3>2 DEF Content
  <2>2. CASE name'[p] = name[p] /\ name[p] = f
    <3>1. f \in 1..Len(disk)
      BY <1>1, <1>3, <2>2
    <3>2. disk'[f].data = Append(disk[f].data, x)
      BY <1>2, <3>1
    <3> QED
      BY <1>3, <2>2, <3>2 DEF Content
  <2>3. CASE name'[p] = name[p] /\ name[p] = 0
    BY <1>3, <2>3 DEF Content
  <2> QED
    BY <1>2, <2>1, <2>2, <2>3
<1>7. Held(p) = f => name'[p] = f \/ Content(p) = <<>>
  BY <1>5
<1> QED
  BY <1>3, <1>4, <1>5, <1>6, <1>7

LEMMA WriteOrdered ==
    ASSUME Shapes, Tidy, NEW p \in Path, NEW f \in Nat, NEW x \in Piece, Wrote(p, f, x),
           NEW q \in Path, OrderedAt(q)
    PROVE  OrderedAt(q)'
<1>1. Held(q)' = Held(q) /\ Hand(q)' = Hand(q) /\ Ends(q)' = Ends(q) /\ st'[q].off = st[q].off
  BY CollectorKeeps DEF Wrote
<1>2. CASE q # p
  BY <1>1, <1>2, WriteElsewhere, SameStays
<1>3. CASE q = p
  <2> DEFINE c == Content(p)
             h == HeldData(p)
             b == Hand(p)
             ms == Ends(p)
             off == st[p].off
             top == Top(p)
             apart == Held(p) # name[p]
             c2 == Content(p)'
             h2 == HeldData(p)'
             apart2 == Held(p) # name'[p]
  <2>1. /\ c \in Seq(Piece) /\ h \in Seq(Piece) /\ b \in Seq(Piece) /\ ms \in SUBSET Nat
        /\ off \in Nat /\ top \in Nat /\ Held(p) \in 0..Len(disk) /\ Len(disk) \in Nat
    BY TheirTypes
  <2>2. Ordered(c, h, b, ms, off, top, apart) /\ apart2 \in BOOLEAN
    BY <1>3 DEF OrderedAt
  <2>3. top < W(x) /\ Top(p)' = W(x)
    BY DEF Wrote
  <2>4. /\ c2 = IF name'[p] = f THEN Append(c, x) ELSE c
        /\ h2 = IF Held(p) = f THEN Append(h, x) ELSE h
        /\ name'[p] # f => c = <<>>
        /\ f # 0
    BY WriteHere
  <2>5. apart2 => h2 = <<>> \/ c2 = <<>> \/ (apart /\ h2 = h)
    <3>1. CASE name'[p] # f
      BY <2>4, <3>1
    <3>2. CASE name'[p] = f /\ Held(p) = 0
      BY <2>4, <3>2 DEF HeldData
    <3>3. CASE name'[p] = f /\ Held(p) # 0 /\ Held(p) # f
      <4>1. name[p] = f \/ name[p] = 0
        BY <2>4, <3>3 DEF Wrote
      <4> QED
        BY <2>4, <3>3, <4>1
    <3> QED
      BY <3>1, <3>2, <3>3
  <2>6. ~apart2 => h2 = c2
    <3> SUFFICES ASSUME Held(p) = name'[p] PROVE h2 = c2
      OBVIOUS
    <3>1. CASE name'[p] = f
      <4>1. name[p] = f
        BY <2>1, <2>4, <3>1 DEF Wrote
      <4>2. ~apart
        BY <3>1, <4>1
      <4>3. h = c
        BY <2>2, <4>2 DEF Ordered
      <4> QED
        BY <2>4, <3>1, <4>3
    <3>2. CASE name'[p] # f
      <4>1. name'[p] = 0
        BY <2>4, <3>2 DEF Wrote
      <4>2. h = <<>>
        BY <4>1 DEF HeldData
      <4> QED
        BY <2>4, <3>2, <4>2
    <3> QED
      BY <3>1, <3>2
  <2>7. c2 \in {c, Append(c, x)} /\ h2 \in {h, Append(h, x)}
    BY <2>4
  <2> HIDE DEF c, h, b, ms, off, top, apart, c2, h2, apart2
  <2>8. Ordered(c2, h2, b, ms, off, W(x), apart2)
    BY <2>1, <2>2, <2>3, <2>5, <2>6, <2>7, PieceComes
  <2> QED
    BY <1>1, <1>3, <2>3, <2>8 DEF OrderedAt, b, ms, off, c2, h2, apart2
<1> QED
  BY <1>2, <1>3

LEMMA WriteTidy ==
    ASSUME Shapes, Tidy, NEW p \in Path, NEW f \in Nat, NEW x \in Piece, Wrote(p, f, x)
    PROVE  Tidy'
<1>1. \A q \in Path : q # p => Refs(q)' = Refs(q) /\ wr'[q] = wr[q] /\ name'[q] = name[q]
  BY WriteElsewhere
<1>2. Refs(p)' \subseteq Refs(p) \cup {f}
  <2>1. Held(p)' = Held(p)
    BY CollectorKeeps DEF Wrote
  <2>2. name'[p] \in {name[p], f} /\ wr'[p].file \in {0, f}
    BY DEF Wrote
  <2> QED
    BY <2>1, <2>2 DEF Refs
<1>3. f \in Refs(p) \/ \A q \in Path : f \notin Refs(q)
  <2>1. \A q \in Path : Refs(q) \subseteq 1..Len(disk)
    BY RefsAre
  <2>2. Len(disk) \in Nat
    BY TheirTypes
  <2>3. f \in Refs(p) \/ f = Len(disk) + 1
    BY DEF Wrote
  <2> QED
    BY <2>1, <2>2, <2>3
<1>4. \A q \in Path : q # p => Refs(p)' \cap Refs(q) = {}
  BY <1>2, <1>3 DEF Tidy
<1>5. \A q, r \in Path : q # r => Refs(q)' \cap Refs(r)' = {}
  BY <1>1, <1>4 DEF Tidy
<1>6. \A q \in Path : wr'[q].file # 0 /\ name'[q] # 0 => wr'[q].file = name'[q]
  <2> TAKE q \in Path
  <2>1. CASE q # p
    BY <1>1, <2>1 DEF Tidy
  <2>2. CASE q = p
    BY <2>2 DEF Wrote
  <2> QED
    BY <2>1, <2>2
<1> QED
  BY <1>5, <1>6 DEF Tidy

(* The file of path p is emptied, or taken away. *)
Cut(p) ==
    /\ name[p] # 0 /\ rot' = rot + 1 /\ UNCHANGED <<wr, st, tl, emitted>>
    /\ Len(disk') = Len(disk) /\ \A q \in Path \ {p} : name'[q] = name[q]
    /\ \/ /\ name'[p] = name[p] /\ disk'[name[p]].data = <<>> /\ disk'[name[p]].gen = rot + 1
          /\ \A g \in 1..Len(disk) : g # name[p] => disk'[g] = disk[g]
       \/ name'[p] = 0 /\ disk' = disk

LEMMA CutCuts ==
    ASSUME Shapes, NEW p \in Path, Truncate(p) \/ Unlink(p)
    PROVE  Cut(p)
<1>1. /\ disk \in Seq(File) /\ name \in [Path -> 0..Len(disk)] /\ rot \in 0..MaxRotations
      /\ name[p] \in 0..Len(disk) /\ Len(disk) \in Nat /\ MaxRotations \in Nat
  BY ShapesAt, TailAssumption DEF Shapes
<1>2. CASE Truncate(p)
  <2> DEFINE f == name[p]
             r == rot + 1
  <2>1. /\ disk' = Emptied(disk, f, r) /\ name' = name /\ rot' = r /\ f # 0 /\ rot < MaxRotations
        /\ UNCHANGED <<wr, st, tl, emitted>>
    BY <1>2 DEF Truncate, Emptied
  <2>2. f \in 1..Len(disk) /\ r \in 0..MaxRotations
    BY <1>1, <2>1
  <2> HIDE DEF f, r
  <2>3. /\ Emptied(disk, f, r) \in Seq(File) /\ Len(Emptied(disk, f, r)) = Len(disk)
        /\ Emptied(disk, f, r)[f].data = <<>> /\ Emptied(disk, f, r)[f].gen = r
        /\ \A g \in 1..Len(disk) : g # f => Emptied(disk, f, r)[g] = disk[g]
    BY <1>1, <2>2, FileEmptied
  <2> QED
    BY <2>1, <2>2, <2>3 DEF Cut, f, r
<1>3. CASE Unlink(p)
  <2>1. /\ disk' = disk /\ name' = [name EXCEPT ![p] = 0] /\ rot' = rot + 1 /\ name[p] # 0
        /\ UNCHANGED <<wr, st, tl, emitted>>
    BY <1>3 DEF Unlink
  <2>2. name'[p] = 0 /\ \A q \in Path \ {p} : name'[q] = name[q]
    BY <1>1, <2>1
  <2> QED
    BY <2>1, <2>2 DEF Cut
<1> QED
  BY <1>2, <1>3

LEMMA CutElsewhere ==
    ASSUME Shapes, Tidy, NEW p \in Path, Cut(p), NEW q \in Path, q # p
    PROVE  /\ Content(q)' = Content(q) /\ HeldData(q)' = HeldData(q) /\ Top(q)' = Top(q)
           /\ name'[q] = name[q] /\ Refs(q)' = Refs(q) /\ wr'[q] = wr[q]
           /\ name[q] # 0 => disk'[name[q]] = disk[name[q]]
           /\ Held(q) # 0 => disk'[Held(q)] = disk[Held(q)]
<1>1. name'[q] = name[q] /\ wr'[q] = wr[q] /\ Held(q)' = Held(q)
  BY CollectorKeeps DEF Cut
<1>2. \A g \in Refs(q) : disk'[g] = disk[g]
  <2> TAKE g \in Refs(q)
  <2>1. g \in 1..Len(disk)
    BY RefsAre
  <2>2. Refs(q) \cap Refs(p) = {}
    BY DEF Tidy
  <2>3. name[p] \in Refs(p)
    BY DEF Cut, Refs
  <2> QED
    BY <2>1, <2>2, <2>3 DEF Cut
<1>3. Content(q)' = Content(q) /\ HeldData(q)' = HeldData(q) /\ Top(q)' = Top(q) /\ Refs(q)' = Refs(q)
  BY <1>1, <1>2, FilesKept
<1>4. /\ name[q] # 0 => disk'[name[q]] = disk[name[q]]
      /\ Held(q) # 0 => disk'[Held(q)] = disk[Held(q)]
  BY <1>2 DEF Refs
<1> QED
  BY <1>1, <1>3, <1>4

LEMMA CutHere ==
    ASSUME Shapes, NEW p \in Path, Cut(p)
    PROVE  /\ Content(p)' = <<>> /\ HeldData(p)' \in {HeldData(p), <<>>} /\ Top(p)' = Top(p)
           /\ Held(p) # name'[p] \/ HeldData(p)' = <<>>
           /\ Refs(p)' \subseteq Refs(p)
<1>1. Held(p)' = Held(p) /\ Held(p) \in 0..Len(disk) /\ Len(disk) \in Nat /\ wr' = wr /\ name'[p] \in {name[p], 0}
  BY CollectorKeeps, TheirTypes DEF Cut
<1>2. Content(p)' = <<>>
  BY DEF Cut, Content
<1>3. Top(p)' = Top(p) /\ Refs(p)' \subseteq Refs(p)
  BY <1>1 DEF Top, Refs
<1>4. HeldData(p)' \in {HeldData(p), <<>>} /\ (Held(p) # name'[p] \/ HeldData(p)' = <<>>)
  <2>1. CASE Held(p) = 0
    BY <1>1, <2>1 DEF HeldData
  <2>2. CASE Held(p) # 0 /\ name'[p] = 0 /\ disk' = disk
    BY <1>1, <2>2 DEF HeldData
  <2>3. CASE Held(p) # 0 /\ name'[p] = name[p] /\ Held(p) = name[p]
    <3>1. disk'[name[p]].data = <<>>
      BY <2>3 DEF Cut
    <3> QED
      BY <1>1, <2>3, <3>1 DEF HeldData
  <2>4. CASE Held(p) # 0 /\ name'[p] = name[p] /\ Held(p) # name[p]
    <3>1. disk'[Held(p)] = disk[Held(p)]
      BY <1>1, <2>4 DEF Cut
    <3> QED
      BY <1>1, <2>4, <3>1 DEF HeldData
  <2> QED
    BY <2>1, <2>2, <2>3, <2>4 DEF Cut
<1> QED
  BY <1>2, <1>3, <1>4

LEMMA CutOrdered ==
    ASSUME Shapes, Tidy, NEW p \in Path, Cut(p), NEW q \in Path, OrderedAt(q)
    PROVE  OrderedAt(q)'
<1>1. Held(q)' = Held(q) /\ Hand(q)' = Hand(q) /\ Ends(q)' = Ends(q) /\ st'[q].off = st[q].off
  BY CollectorKeeps DEF Cut
<1>2. CASE q # p
  BY <1>1, <1>2, CutElsewhere, SameStays
<1>3. CASE q = p
  <2>1. /\ Content(q)' = <<>> /\ HeldData(q)' \in {HeldData(q), <<>>} /\ Top(q)' = Top(q)
        /\ Held(q) # name'[q] \/ HeldData(q)' = <<>>
    BY <1>3, CutHere
  <2> DEFINE apart == Held(q) # name[q]
             apart2 == Held(q) # name'[q]
             c == Content(q)
             h == HeldData(q)
             h2 == HeldData(q)'
  <2>2. Ordered(c, h, Hand(q), Ends(q), st[q].off, Top(q), apart)
    BY DEF OrderedAt
  <2>3. h2 \in {h, <<>>} /\ (apart2 \/ h2 = <<>>)
    BY <2>1
  <2> HIDE DEF apart, apart2, c, h, h2
  <2>4. Ordered(<<>>, h2, Hand(q), Ends(q), st[q].off, Top(q), apart2)
    BY <2>2, <2>3, ContentGoes
  <2> QED
    BY <1>1, <2>1, <2>4 DEF OrderedAt, h2, apart2
<1> QED
  BY <1>2, <1>3

LEMMA RefsFewer ==
    ASSUME Tidy, \A q \in Path : Refs(q)' \subseteq Refs(q),
           \A q \in Path : wr'[q] = wr[q] /\ name'[q] \in {name[q], 0}
    PROVE  Tidy'
<1>1. \A q, r \in Path : q # r => Refs(q)' \cap Refs(r)' = {}
  BY DEF Tidy
<1>2. \A q \in Path : wr'[q].file # 0 /\ name'[q] # 0 => wr'[q].file = name'[q]
  BY DEF Tidy
<1> QED
  BY <1>1, <1>2 DEF Tidy

LEMMA CutTidy == ASSUME Shapes, Tidy, NEW p \in Path, Cut(p) PROVE Tidy'
<1>1. \A q \in Path : Refs(q)' \subseteq Refs(q) /\ name'[q] \in {name[q], 0}
  <2> TAKE q \in Path
  <2>1. CASE q = p
    BY <2>1, CutHere DEF Cut
  <2>2. CASE q # p
    BY <2>2, CutElsewhere
  <2> QED
    BY <2>1, <2>2
<1>2. \A q \in Path : wr'[q] = wr[q]
  BY DEF Cut
<1> QED
  BY <1>1, <1>2, RefsFewer

----------------------------------------------------------------------------
(* The goroutine's steps. *)

(* Nothing of the other paths changes. *)
LEMMA NotTheirTurn ==
    ASSUME Shapes, UNCHANGED files, NEW q \in Path, q # Cur, st'[q] = st[q], Ends(q)' = Ends(q),
           tl.at # "exited", tl'.at # "exited", tl'.at \in {"read", "emit"} => Cur' = Cur
    PROVE  /\ Held(q)' = Held(q) /\ Hand(q)' = Hand(q) /\ Pending(q)' = Pending(q)
           /\ Content(q)' = Content(q) /\ HeldData(q)' = HeldData(q) /\ Top(q)' = Top(q)
           /\ OrderedAt(q) => OrderedAt(q)'
<1>1. Held(q)' = Held(q) /\ Held(q) = 0
  BY DEF Held
<1>2. Hand(q)' = Hand(q) /\ Pending(q)' = Pending(q)
  BY DEF Hand, Pending
<1>3. Content(q)' = Content(q) /\ HeldData(q)' = HeldData(q) /\ Top(q)' = Top(q) /\ name'[q] = name[q]
  BY <1>1 DEF Content, HeldData, Top, files
<1>4. OrderedAt(q) => OrderedAt(q)'
  BY <1>1, <1>2, <1>3, SameStays
<1> QED
  BY <1>1, <1>2, <1>3, <1>4

(* The steps between two files, and those that end the loop. *)
LEMMA PauseOrdered ==
    ASSUME Shapes, Glob \/ EmitCancel \/ Tick \/ Exit \/ Take \/ Cancel \/ Stop \/ StopReturn \/ UNCHANGED vars,
           NEW q \in Path
    PROVE  /\ UNCHANGED <<disk, name, wr, rot, st, emitted>>
           /\ Held(q)' = Held(q) /\ Hand(q)' \in {Hand(q), <<>>}
           /\ tl'.at = "exited" \/ (Pending(q)' = Pending(q) /\ tl.at # "exited")
           /\ OrderedAt(q) => OrderedAt(q)'
<1>1. UNCHANGED <<disk, name, wr, rot, st, emitted>>
  BY DEF Glob, EmitCancel, Tick, Exit, Take, Cancel, Stop, StopReturn, vars, files
<1>2. tl \in Loops
  BY DEF Shapes, Loops
<1>3. \/ tl' = tl
      \/ tl.at \in {"glob", "open"} /\ tl'.at \in {"glob", "open"}
      \/ tl'.at = "exited" /\ tl.at # "read"
  <2>1. CASE Glob
    <3> DEFINE q1 == Only([p \in Path |-> p], {p \in Path : name[p] # 0})
    <3>1. tl.at = "glob" /\ tl' = [tl EXCEPT !.at = "open", !.todo = q1]
      BY <2>1 DEF Glob
    <3> HIDE DEF q1
    <3> QED
      BY <1>2, <3>1 DEF Loops
  <2>2. CASE EmitCancel
    BY <1>2, <2>2 DEF EmitCancel, CanEmit, Loops
  <2>3. CASE Tick
    BY <1>2, <2>3 DEF Tick, Loops
  <2>4. CASE Exit
    BY <1>2, <2>4 DEF Exit, Loops
  <2>5. CASE Take \/ Cancel \/ Stop \/ StopReturn \/ UNCHANGED vars
    BY <2>5 DEF Take, Cancel, Stop, StopReturn, vars
  <2> QED
    BY <2>1, <2>2, <2>3, <2>4, <2>5
<1>4. Held(q)' = Held(q)
  BY <1>3 DEF Held, Cur
<1>5. Pending(q)' = Pending(q) \/ tl'.at = "exited"
  BY <1>1, <1>3 DEF Pending, Cur
<1>6. Hand(q)' \in {Hand(q), <<>>}
  BY <1>1, <1>3, <1>5 DEF Hand
<1>7. Content(q)' = Content(q) /\ HeldData(q)' = HeldData(q) /\ Top(q)' = Top(q) /\ Ends(q)' = Ends(q)
  BY <1>1, <1>4 DEF Content, HeldData, Top, Ends
<1>8. ASSUME OrderedAt(q) PROVE OrderedAt(q)'
  <2> DEFINE b2 == Hand(q)'
             apart == Held(q) # name[q]
  <2>1. Rises(b2) /\ Weights(b2) \subseteq Weights(Hand(q))
    BY <1>6, <1>8, EmptyWeights DEF OrderedAt, Ordered
  <2>2. Ordered(Content(q), HeldData(q), Hand(q), Ends(q), st[q].off, Top(q), apart)
    BY <1>8 DEF OrderedAt
  <2> HIDE DEF b2, apart
  <2>3. Ordered(Content(q), HeldData(q), b2, Ends(q), st[q].off, Top(q), apart)
    BY <2>1, <2>2, HandShrinks
  <2> QED
    BY <1>1, <1>4, <1>7, <2>3 DEF OrderedAt, b2, apart
<1>9. tl'.at = "exited" \/ tl.at # "exited"
  BY <1>3
<1> QED
  BY <1>1, <1>4, <1>5, <1>6, <1>8, <1>9

(* What each of the others does to the path whose turn it is. *)
LEMMA OpenOpens ==
    ASSUME Shapes, Open
    PROVE  /\ Cur \in Path /\ UNCHANGED <<disk, name, wr, rot, emitted>> /\ Cur \in Path
           /\ tl.at = "open" /\ Held(Cur) = 0 /\ tl'.at \in {"open", "read"}
           /\ tl'.at = "read" => tl'.todo = tl.todo /\ Cur' = Cur /\ name[Cur] # 0 /\ tl'.file = name[Cur]
           /\ \A q \in Path : q # Cur => st'[q] = st[q]
           /\ \/ st' = st
              \/ /\ tl'.at = "read" /\ Len(Content(Cur)) < st[Cur].off
                 /\ st'[Cur].off = 0 /\ st'[Cur].partial = <<>>
<1>1. /\ tl.at = "open" /\ tl.todo # <<>> /\ UNCHANGED <<disk, name, wr, rot, emitted>>
  BY DEF Open, OpenAs, files
<1>2. Cur \in Path /\ tl \in Loops
  BY <1>1, CurIs DEF Shapes, Loops
<1>3. st[Cur] \in States /\ st \in [Path -> States]
  BY <1>2 DEF Shapes, States
<1>4. CASE name[Cur] = 0
  <2>1. tl' = NextFile(tl) /\ st' = st
    BY <1>4 DEF Open, OpenAs
  <2>2. tl'.at = "open"
    BY <1>1, <2>1, NextFileIs
  <2> QED
    BY <1>1, <1>2, <2>1, <2>2 DEF Held
<1>5. CASE name[Cur] # 0
  <2> DEFINE f == name[Cur]
  <2>1. tl' = [tl EXCEPT !.at = "read", !.file = f]
    BY <1>5 DEF Open, OpenAs
  <2> HIDE DEF f
  <2>2. tl'.at = "read" /\ tl'.todo = tl.todo /\ tl'.file = f
    BY <1>2, <2>1 DEF Loops
  <2>3. Cur' = Cur
    BY <2>2 DEF Cur
  <2>4. \/ st' = st
        \/ Len(disk[name[Cur]].data) < st[Cur].off /\ st' = [st EXCEPT ![Cur] = Fresh(st[Cur])]
    BY <1>3, <1>5 DEF Open, OpenAs
  <2>5. Fresh(st[Cur]).off = 0 /\ Fresh(st[Cur]).partial = <<>>
    BY <1>3, FreshIs
  <2>6. \/ st' = st
        \/ /\ Len(Content(Cur)) < st[Cur].off
           /\ st'[Cur].off = 0 /\ st'[Cur].partial = <<>> /\ \A q \in Path : q # Cur => st'[q] = st[q]
    <3> DEFINE r == Fresh(st[Cur])
    <3>1. CASE Len(disk[name[Cur]].data) < st[Cur].off /\ st' = [st EXCEPT ![Cur] = r]
      <4>1. Len(Content(Cur)) < st[Cur].off
        BY <1>5, <3>1 DEF Content
      <4> HIDE DEF r
      <4>2. st'[Cur] = r /\ \A q \in Path : q # Cur => st'[q] = st[q]
        BY <1>2, <1>3, <3>1
      <4> QED
        BY <2>5, <4>1, <4>2 DEF r
    <3> QED
      BY <2>4, <3>1
  <2> QED
    BY <1>1, <1>2, <1>5, <2>2, <2>3, <2>6 DEF Held, f
<1> QED
  BY <1>4, <1>5

LEMMA OpenOrdered ==
    ASSUME Shapes, Shapes', Open, NEW q \in Path, OrderedAt(q)
    PROVE  OrderedAt(q)'
<1>1. /\ Cur \in Path /\ UNCHANGED <<disk, name, wr, rot, emitted>>
      /\ tl.at = "open" /\ Held(Cur) = 0 /\ tl'.at \in {"open", "read"}
      /\ tl'.at = "read" => tl'.todo = tl.todo /\ Cur' = Cur /\ name[Cur] # 0 /\ tl'.file = name[Cur]
      /\ \A r \in Path : r # Cur => st'[r] = st[r]
      /\ \/ st' = st
         \/ /\ tl'.at = "read" /\ Len(Content(Cur)) < st[Cur].off
            /\ st'[Cur].off = 0 /\ st'[Cur].partial = <<>>
  BY OpenOpens
<1>2. Ends(q)' = Ends(q) /\ Content(q)' = Content(q) /\ Top(q)' = Top(q)
  BY <1>1 DEF Ends, Content, Top
<1>3. CASE q # Cur
  BY <1>1, <1>2, <1>3, NotTheirTurn DEF files
<1>4. CASE q = Cur /\ tl'.at = "open"
  <2>1. Held(q)' = 0 /\ Held(q) = 0 /\ HeldData(q) = <<>> /\ HeldData(q)' = <<>>
    BY <1>1, <1>4 DEF Held, HeldData
  <2>2. Hand(q)' = Hand(q) /\ st'[q].off = st[q].off
    BY <1>1, <1>4 DEF Hand, Pending
  <2> QED
    BY <1>1, <1>2, <2>1, <2>2, SameStays
<1>5. CASE q = Cur /\ tl'.at = "read"
  <2> DEFINE c == Content(q)
             b == Hand(q)
             off == st[q].off
             b2 == Hand(q)'
             off2 == st'[q].off
             apart == Held(q) # name[q]
  <2>1. Held(q)' = name[q] /\ name[q] # 0
    BY <1>1, <1>5 DEF Held
  <2>2. HeldData(q)' = c
    BY <1>1, <2>1 DEF HeldData, Content
  <2>3. (b2 = b /\ off2 = off) \/ (b2 = <<>> /\ off2 = 0 /\ Len(c) < off)
    BY <1>1, <1>5 DEF Hand, Pending
  <2>4. Ordered(c, HeldData(q), b, Ends(q), off, Top(q), apart) /\ c \in Seq(Piece)
    BY TheirTypes DEF OrderedAt
  <2> HIDE DEF c, b, off, b2, off2, apart
  <2>5. Ordered(c, c, b2, Ends(q), off2, Top(q), FALSE)
    BY <2>3, <2>4, FileOpens
  <2>6. (Held(q)' # name'[q]) = FALSE
    BY <1>1, <2>1
  <2> QED
    BY <1>2, <2>2, <2>5, <2>6 DEF OrderedAt, b2, off2, c
<1> QED
  BY <1>1, <1>3, <1>4, <1>5

LEMMA ReadReads ==
    ASSUME Shapes, Read
    PROVE  /\ Cur \in Path /\ UNCHANGED <<disk, name, wr, rot, emitted>>
           /\ tl.at = "read" /\ Held(Cur) = tl.file /\ tl.file \in 1..Len(disk)
           /\ Pending(Cur) = st[Cur].partial
           /\ tl'.at \in {"open", "emit"} /\ (tl'.at = "emit" => Cur' = Cur)
           /\ \A q \in Path : q # Cur => st'[q] = st[q]
           /\ st'[Cur].gen = IF st[Cur].off = 0 THEN disk[tl.file].gen ELSE st[Cur].gen
           /\ st'[Cur].partial = st[Cur].partial
           /\ \/ /\ st[Cur].off < Len(HeldData(Cur)) /\ st'[Cur].off = Len(HeldData(Cur)) /\ tl'.at = "emit"
                 /\ tl'.buf = Pending(Cur) \o SubSeq(HeldData(Cur), st[Cur].off + 1, Len(HeldData(Cur)))
              \/ /\ Len(HeldData(Cur)) <= st[Cur].off /\ st'[Cur].off = st[Cur].off /\ tl'.at = "open"
<1> DEFINE s == st[Cur]
           d == disk[tl.file]
           data == SubSeq(d.data, s.off + 1, Len(d.data))
           g == IF s.off = 0 THEN d.gen ELSE s.gen
           n == s.off + Len(data)
           mis == g # d.gen /\ s.off <= Len(d.data)
           t == [s EXCEPT !.off = n, !.gen = g, !.misread = mis]
<1>1. /\ tl.at = "read" /\ tl.todo # <<>> /\ tl.file # 0 /\ tl \in Loops /\ st \in [Path -> States]
      /\ disk \in Seq(File)
  BY DEF Read, Shapes, Loops, States
<1>2. /\ st' = [st EXCEPT ![Cur] = t] /\ UNCHANGED <<disk, name, wr, rot, emitted>>
      /\ tl' = IF data = <<>> THEN NextFile(tl) ELSE [tl EXCEPT !.at = "emit", !.buf = s.partial \o data]
  BY <1>1 DEF Read, files
<1>3. Cur \in Path /\ tl.file \in 1..Len(disk) /\ Len(disk) \in Nat
  BY <1>1, CurIs DEF Loops
<1>4. s \in States /\ d \in File
  BY <1>1, <1>3
<1>5. s.off \in Nat /\ s.partial \in Seq(Piece) /\ d.data \in Seq(Piece)
  BY <1>4 DEF States, File
<1>6. Held(Cur) = tl.file /\ HeldData(Cur) = d.data /\ Pending(Cur) = s.partial
  BY <1>1 DEF Held, HeldData, Pending
<1>7. /\ s.off < Len(d.data) => data # <<>> /\ n = Len(d.data)
      /\ Len(d.data) <= s.off => data = <<>> /\ n = s.off
      /\ s.off < Len(d.data) \/ Len(d.data) <= s.off
  <2> DEFINE e == d.data
             k == s.off
  <2>1. e \in Seq(Piece) /\ k \in Nat /\ Len(e) \in Nat
    BY <1>5
  <2> HIDE DEF e, k
  <2>2. /\ k < Len(e) => Len(SubSeq(e, k + 1, Len(e))) = Len(e) - k
        /\ Len(e) <= k => Len(SubSeq(e, k + 1, Len(e))) = 0 /\ SubSeq(e, k + 1, Len(e)) = <<>>
    BY <2>1
  <2>3. k < Len(e) => SubSeq(e, k + 1, Len(e)) # <<>> /\ k + Len(SubSeq(e, k + 1, Len(e))) = Len(e)
    <3> DEFINE u == SubSeq(e, k + 1, Len(e))
    <3>1. k < Len(e) => Len(u) = Len(e) - k
      BY <2>2
    <3>2. Len(<<>>) = 0
      OBVIOUS
    <3> HIDE DEF u
    <3>3. k < Len(e) => u # <<>> /\ k + Len(u) = Len(e)
      BY <2>1, <3>1, <3>2
    <3> QED
      BY <3>3 DEF u
  <2>4. Len(e) <= k => SubSeq(e, k + 1, Len(e)) = <<>> /\ k + Len(SubSeq(e, k + 1, Len(e))) = k
    BY <2>1, <2>2
  <2> QED
    BY <2>1, <2>3, <2>4 DEF e, k
<1> HIDE DEF n, g, data, mis, d
<1>8. t.off = n /\ t.gen = g /\ t.partial = s.partial
  BY <1>4 DEF States
<1> HIDE DEF t
<1>9. st'[Cur] = t /\ \A q \in Path : q # Cur => st'[q] = st[q]
  BY <1>1, <1>2, <1>3
<1>10. data = <<>> => tl'.at = "open"
  BY <1>1, <1>2, NextFileIs
<1>11. data # <<>> => tl'.at = "emit" /\ tl'.buf = s.partial \o data /\ tl'.todo = tl.todo
  BY <1>1, <1>2 DEF Loops
<1>12. tl'.at = "emit" => Cur' = Cur
  BY <1>10, <1>11 DEF Cur
<1> QED
  BY <1>1, <1>2, <1>3, <1>6, <1>7, <1>8, <1>9, <1>10, <1>11, <1>12 DEF g, d, data

LEMMA ReadOrdered ==
    ASSUME Shapes, Read, NEW q \in Path, OrderedAt(q)
    PROVE  OrderedAt(q)'
<1>1. /\ Cur \in Path /\ UNCHANGED <<disk, name, wr, rot, emitted>>
      /\ tl.at = "read" /\ Pending(Cur) = st[Cur].partial
      /\ tl'.at \in {"open", "emit"} /\ (tl'.at = "emit" => Cur' = Cur)
      /\ \A r \in Path : r # Cur => st'[r] = st[r]
      /\ st'[Cur].partial = st[Cur].partial
      /\ \/ /\ st[Cur].off < Len(HeldData(Cur)) /\ st'[Cur].off = Len(HeldData(Cur)) /\ tl'.at = "emit"
            /\ tl'.buf = Pending(Cur) \o SubSeq(HeldData(Cur), st[Cur].off + 1, Len(HeldData(Cur)))
         \/ /\ Len(HeldData(Cur)) <= st[Cur].off /\ st'[Cur].off = st[Cur].off /\ tl'.at = "open"
  BY ReadReads
<1>2. Ends(q)' = Ends(q) /\ Content(q)' = Content(q) /\ Top(q)' = Top(q)
  BY <1>1 DEF Ends, Content, Top
<1>3. CASE q # Cur
  BY <1>1, <1>2, <1>3, NotTheirTurn DEF files
<1>4. CASE q = Cur
  <2> DEFINE c == Content(q)
             h == HeldData(q)
             b == Hand(q)
             off == st[q].off
             b2 == Hand(q)'
             off2 == st'[q].off
             apart == Held(q) # name[q]
             apart2 == Held(q)' # name'[q]
  <2>1. Held(q)' = 0 /\ HeldData(q)' = <<>>
    BY <1>1 DEF Held, HeldData
  <2>2. /\ c \in Seq(Piece) /\ h \in Seq(Piece) /\ b \in Seq(Piece) /\ Ends(q) \in SUBSET Nat
        /\ off \in Nat /\ Top(q) \in Nat
    BY TheirTypes
  <2>3. apart2 \in BOOLEAN /\ (~apart2 => c = <<>>)
    BY <1>1, <2>1 DEF Content
  <2>4. b = Pending(Cur)
    BY <1>1, <1>4 DEF Hand
  <2>5. Ordered(c, h, b, Ends(q), off, Top(q), apart)
    BY DEF OrderedAt
  <2>6. ASSUME Ordered(c, <<>>, b2, Ends(q), off2, Top(q), apart2) PROVE OrderedAt(q)'
    BY <1>1, <1>2, <2>1, <2>6 DEF OrderedAt
  <2>7. CASE tl'.at = "open"
    <3>1. off2 = off /\ b2 = b
      BY <1>1, <1>4, <2>4, <2>7 DEF Hand, Pending
    <3> HIDE DEF c, h, b, off, b2, off2, apart, apart2
    <3>2. Ordered(c, <<>>, b, Ends(q), off, Top(q), apart2)
      BY <2>3, <2>5, FileCloses
    <3> QED
      BY <2>6, <3>1, <3>2
  <2>8. CASE tl'.at = "emit"
    <3>1. off < Len(h) /\ off2 = Len(h) /\ b2 = b \o SubSeq(h, off + 1, Len(h))
      BY <1>1, <1>4, <2>4, <2>8 DEF Hand, Pending
    <3> HIDE DEF c, h, b, off, b2, off2, apart, apart2
    <3>2. Ordered(c, <<>>, b \o SubSeq(h, off + 1, Len(h)), Ends(q), Len(h), Top(q), apart2)
      BY <2>2, <2>3, <2>5, <3>1, FileIsRead
    <3> QED
      BY <2>6, <3>1, <3>2
  <2> QED
    BY <1>1, <2>7, <2>8
<1> QED
  BY <1>3, <1>4

(* The next line in hand, decoded or not. *)
LEMMA SplitSplits ==
    ASSUME Shapes, Skip \/ Emit
    PROVE  /\ Cur \in Path /\ Cur' = Cur /\ UNCHANGED <<disk, name, wr, rot, st>>
           /\ tl.at = "emit" /\ tl'.at = "emit" /\ Newlines(Pending(Cur)) # {}
           /\ \A q \in Path : q = Cur => Pending(q)' = After(Pending(Cur))
           /\ \/ Skip /\ emitted' = emitted /\ ~Decodes(Line(Pending(Cur)))
              \/ /\ emitted' = Append(emitted, Event(Line(Pending(Cur)))) /\ Len(Line(Pending(Cur))) = 2
                 /\ Decodes(Line(Pending(Cur))) \/ Spliced(Line(Pending(Cur)))
<1>1. /\ tl.at = "emit" /\ Newlines(tl.buf) # {} /\ tl' = [tl EXCEPT !.buf = After(@)]
      /\ UNCHANGED <<disk, name, wr, rot, st>>
  BY DEF Skip, Emit, CanEmit, Put, files
<1>2. tl \in Loops /\ tl.todo # <<>> /\ tl.buf \in Seq(Piece)
  BY <1>1 DEF Shapes, Loops
<1>3. Cur \in Path
  BY <1>2, CurIs
<1>4. Pending(Cur) = tl.buf
  BY <1>1 DEF Pending
<1> DEFINE a == After(tl.buf)
<1>5. tl' = [tl EXCEPT !.buf = a]
  BY <1>1
<1> HIDE DEF a
<1>6. tl'.at = "emit" /\ tl'.todo = tl.todo /\ tl'.buf = a
  BY <1>1, <1>2, <1>5 DEF Loops
<1>7. Cur' = Cur
  BY <1>6 DEF Cur
<1>8. \A q \in Path : q = Cur => Pending(q)' = a
  BY <1>6, <1>7 DEF Pending
<1>9. \/ Skip /\ emitted' = emitted /\ ~Decodes(Line(tl.buf))
      \/ /\ emitted' = Append(emitted, Event(Line(tl.buf))) /\ Len(Line(tl.buf)) = 2
         /\ Decodes(Line(tl.buf)) \/ Spliced(Line(tl.buf))
  <2>1. CASE Skip
    BY <2>1 DEF Skip
  <2>2. CASE Emit
    <3>1. /\ emitted' = Append(emitted, Event(Line(tl.buf)))
          /\ Decodes(Line(tl.buf)) \/ Spliced(Line(tl.buf))
      BY <2>2 DEF Emit, CanEmit, Put
    <3>2. Len(Line(tl.buf)) = 2
      BY <3>1 DEF Decodes, Whole, Spliced
    <3> QED
      BY <3>1, <3>2
  <2> QED
    BY <2>1, <2>2
<1> QED
  BY <1>1, <1>3, <1>4, <1>6, <1>7, <1>8, <1>9 DEF a

LEMMA HoldHolds ==
    ASSUME Shapes, Hold
    PROVE  /\ Cur \in Path /\ UNCHANGED <<disk, name, wr, rot, emitted>>
           /\ tl.at = "emit" /\ tl'.at = "open"
           /\ \A q \in Path : q # Cur => st'[q] = st[q]
           /\ st'[Cur].off = st[Cur].off /\ st'[Cur].gen = st[Cur].gen
           /\ st'[Cur].partial = Pending(Cur)
           /\ \A q \in Path : Pending(q)' = Pending(q)
<1>1. /\ tl.at = "emit" /\ st' = [st EXCEPT ![Cur].partial = tl.buf] /\ tl' = NextFile(tl)
      /\ UNCHANGED <<disk, name, wr, rot, emitted>>
  BY DEF Hold, files
<1>2. tl \in Loops /\ tl.todo # <<>> /\ st \in [Path -> States]
  BY <1>1 DEF Shapes, Loops, States
<1>3. Cur \in Path
  BY <1>2, CurIs
<1>4. tl'.at = "open"
  BY <1>1, <1>2, NextFileIs
<1>5. /\ \A q \in Path : q # Cur => st'[q] = st[q]
      /\ st'[Cur].off = st[Cur].off /\ st'[Cur].gen = st[Cur].gen /\ st'[Cur].partial = tl.buf
  BY <1>1, <1>2, <1>3 DEF States
<1>6. Pending(Cur) = tl.buf
  BY <1>1 DEF Pending
<1>7. \A q \in Path : Pending(q)' = Pending(q)
  BY <1>1, <1>4, <1>5, <1>6 DEF Pending
<1> QED
  BY <1>1, <1>3, <1>4, <1>5, <1>6, <1>7

(* In the log of a path's events, each line begins after the one before ended. *)
LogOrdered ==
    /\ \A i \in DOMAIN emitted : emitted[i][2] <= emitted[i][3]
    /\ \A i, j \in DOMAIN emitted :
           i < j /\ emitted[i][1] = emitted[j][1] => emitted[i][3] < emitted[j][2]

LEMMA EndsGrow ==
    ASSUME Shapes, NEW e \in Path \X Nat \X Nat, emitted' = Append(emitted, e), NEW q \in Path
    PROVE  Ends(q)' = IF e[1] = q THEN Ends(q) \cup {2 * e[3] + 1} ELSE Ends(q)
<1>0. emitted \in Seq(Path \X Nat \X Nat)
  BY DEF Shapes
<1>1. /\ Len(emitted) \in Nat /\ DOMAIN emitted = 1..Len(emitted) /\ DOMAIN emitted' = 1..(Len(emitted) + 1)
      /\ emitted'[Len(emitted) + 1] = e /\ \A i \in 1..Len(emitted) : emitted'[i] = emitted[i]
  BY <1>0
<1> DEFINE End(w) == 2 * w[3] + 1
<1>2. Ends(q)' \subseteq Ends(q) \cup (IF e[1] = q THEN {End(e)} ELSE {})
  <2> SUFFICES ASSUME NEW i \in DOMAIN emitted', emitted'[i][1] = q
               PROVE  End(emitted'[i]) \in Ends(q) \cup (IF e[1] = q THEN {End(e)} ELSE {})
    BY DEF Ends
  <2>1. CASE i = Len(emitted) + 1
    BY <1>1, <2>1
  <2>2. CASE i # Len(emitted) + 1
    <3>1. i \in DOMAIN emitted /\ emitted[i][1] = q /\ emitted'[i] = emitted[i]
      BY <1>1, <2>2
    <3> QED
      BY <3>1 DEF Ends
  <2> QED
    BY <2>1, <2>2
<1>3. Ends(q) \subseteq Ends(q)'
  <2> SUFFICES ASSUME NEW i \in DOMAIN emitted, emitted[i][1] = q PROVE End(emitted[i]) \in Ends(q)'
    BY DEF Ends
  <2>1. i \in DOMAIN emitted' /\ emitted'[i] = emitted[i]
    BY <1>1
  <2> QED
    BY <2>1 DEF Ends
<1>4. ASSUME e[1] = q PROVE End(e) \in Ends(q)'
  <2>1. Len(emitted) + 1 \in DOMAIN emitted'
    BY <1>1
  <2> QED
    BY <1>1, <1>4, <2>1 DEF Ends
<1> QED
  BY <1>2, <1>3, <1>4

(* The event of a line in hand. *)
LEMMA EventIs ==
    ASSUME NEW b \in Seq(Piece), Newlines(b) # {}, Len(Line(b)) = 2, Cur \in Path, Rises(b)
    PROVE  /\ Newline(b) = 2 /\ Len(b) >= 2 /\ Event(Line(b)) = <<Cur, b[1][1], b[2][1]>>
           /\ Event(Line(b)) \in Path \X Nat \X Nat
           /\ W(b[2]) = 2 * b[2][1] + 1 /\ W(b[1]) \in Weights(b) /\ W(b[1]) <= 2 * b[1][1] + 1
           /\ b[1][1] <= b[2][1] /\ b[1] \in Piece /\ b[2] \in Piece
<1>1. /\ Len(Line(b)) = Newline(b) /\ \A i \in 1..Newline(b) : Line(b)[i] = b[i]
  BY LineLeaves
<1>2. Newline(b) \in 1..Len(b) /\ b[Newline(b)][2] = "tail"
  BY NewlineIs
<1>3. Newline(b) = 2 /\ Len(b) >= 2 /\ Len(b) \in Nat /\ 1 \in DOMAIN b /\ 2 \in DOMAIN b
  BY <1>1, <1>2
<1>4. b[1] \in Piece /\ b[2] \in Piece
  BY <1>3
<1>5. Event(Line(b)) = <<Cur, b[1][1], b[2][1]>>
  BY <1>1, <1>3 DEF Event
<1>6. W(b[2]) = 2 * b[2][1] + 1 /\ W(b[1]) <= 2 * b[1][1] + 1 /\ 2 * b[1][1] <= W(b[1]) /\ W(b[1]) \in Nat
  BY <1>2, <1>3, <1>4 DEF W, Piece
<1>7. W(b[1]) < W(b[2]) /\ W(b[1]) \in Weights(b)
  BY <1>3 DEF Rises, Weights
<1>8. b[1][1] \in Nat /\ b[2][1] \in Nat
  BY <1>4 DEF Piece
<1>9. b[1][1] <= b[2][1]
  BY <1>6, <1>7, <1>8
<1>10. Event(Line(b)) \in Path \X Nat \X Nat
  BY <1>5, <1>8
<1> QED
  BY <1>3, <1>4, <1>5, <1>6, <1>7, <1>9, <1>10

LEMMA SplitOrdered ==
    ASSUME Shapes, Skip \/ Emit, \A p \in Path : OrderedAt(p), NEW q \in Path
    PROVE  OrderedAt(q)'
<1>1. /\ Cur \in Path /\ Cur' = Cur /\ UNCHANGED <<disk, name, wr, rot, st>>
      /\ tl.at = "emit" /\ tl'.at = "emit" /\ Newlines(Pending(Cur)) # {}
      /\ \A r \in Path : r = Cur => Pending(r)' = After(Pending(Cur))
      /\ \/ Skip /\ emitted' = emitted /\ ~Decodes(Line(Pending(Cur)))
         \/ /\ emitted' = Append(emitted, Event(Line(Pending(Cur)))) /\ Len(Line(Pending(Cur))) = 2
            /\ Decodes(Line(Pending(Cur))) \/ Spliced(Line(Pending(Cur)))
  BY SplitSplits
<1> DEFINE b == Pending(Cur)
           e == Event(Line(b))
           m == W(b[Newline(b)])
<1>2. b \in Seq(Piece) /\ Newlines(b) # {} /\ Rises(b) /\ Hand(Cur) = b /\ (q = Cur => Hand(q)' = After(b))
  BY <1>1, TheirTypes DEF OrderedAt, Ordered, Hand
<1>3. /\ Weights(After(b)) \subseteq Weights(b) /\ m \in Weights(b)
      /\ Rises(After(b)) /\ Below({m}, Weights(After(b)))
  BY <1>2, LineLeaves
<1>4. \/ \A p \in Path : Ends(p)' = Ends(p)
      \/ \A p \in Path : Ends(p)' = IF p = Cur THEN Ends(p) \cup {m} ELSE Ends(p)
  <2>1. CASE emitted' = emitted
    BY <2>1 DEF Ends
  <2>2. CASE emitted' = Append(emitted, e) /\ Len(Line(b)) = 2
    <3>1. /\ Newline(b) = 2 /\ e = <<Cur, b[1][1], b[2][1]>> /\ e \in Path \X Nat \X Nat /\ W(b[2]) = 2 * b[2][1] + 1
      BY <1>1, <1>2, <2>2, EventIs
    <3>2. m = 2 * e[3] + 1 /\ e[1] = Cur
      BY <3>1
    <3> HIDE DEF e, m, b
    <3>3. \A p \in Path : Ends(p)' = IF e[1] = p THEN Ends(p) \cup {2 * e[3] + 1} ELSE Ends(p)
      BY <2>2, <3>1, EndsGrow
    <3> QED
      BY <3>2, <3>3
  <2> QED
    BY <1>1, <2>1, <2>2
<1>5. CASE q # Cur
  <2>1. Ends(q)' = Ends(q)
    BY <1>4, <1>5
  <2> QED
    BY <1>1, <1>5, <2>1, NotTheirTurn DEF files
<1>6. CASE q = Cur
  <2> DEFINE c == Content(q)
             h == HeldData(q)
             off == st[q].off
             apart == Held(q) # name[q]
             ms == Ends(q)
             a == After(b)
  <2>1. Held(q)' = Held(q) /\ Content(q)' = c /\ HeldData(q)' = h /\ Top(q)' = Top(q) /\ st'[q].off = off /\ name'[q] = name[q]
    BY <1>1 DEF Held, HeldData, Content, Top
  <2>2. Ordered(c, h, b, ms, off, Top(q), apart)
    BY <1>2, <1>6 DEF OrderedAt
  <2>3. Hand(q)' = a
    BY <1>2, <1>6
  <2>4. Ends(q)' = ms \/ Ends(q)' = ms \cup {m}
    BY <1>4, <1>6
  <2>5. Rises(a) /\ Weights(a) \subseteq Weights(b) /\ m \in Weights(b) /\ Below({m}, Weights(a))
    BY <1>3
  <2> HIDE DEF c, h, off, apart, ms, a, b, m
  <2>6. Ordered(c, h, a, ms, off, Top(q), apart)
    BY <2>2, <2>5, HandShrinks
  <2>7. Ordered(c, h, a, ms \cup {m}, off, Top(q), apart)
    BY <2>2, <2>5, LineGoes
  <2>8. CASE Ends(q)' = ms
    BY <2>1, <2>3, <2>6, <2>8 DEF OrderedAt, apart
  <2>9. CASE Ends(q)' = ms \cup {m}
    BY <2>1, <2>3, <2>7, <2>9 DEF OrderedAt, apart
  <2> QED
    BY <2>4, <2>8, <2>9
<1> QED
  BY <1>5, <1>6

LEMMA SplitLog ==
    ASSUME Shapes, Skip \/ Emit, \A p \in Path : OrderedAt(p), LogOrdered
    PROVE  LogOrdered'
<1>1. /\ Cur \in Path /\ tl.at = "emit" /\ Newlines(Pending(Cur)) # {}
      /\ \/ emitted' = emitted
         \/ emitted' = Append(emitted, Event(Line(Pending(Cur)))) /\ Len(Line(Pending(Cur))) = 2
  BY SplitSplits
<1> DEFINE b == Pending(Cur)
           e == Event(Line(b))
           n == Len(emitted)
<1>2. b \in Seq(Piece) /\ Newlines(b) # {} /\ Rises(b) /\ Below(Ends(Cur), Weights(b))
  BY <1>1, TheirTypes DEF OrderedAt, Ordered, Hand
<1>3. CASE emitted' = emitted
  BY <1>3 DEF LogOrdered
<1>4. CASE emitted' = Append(emitted, e) /\ Len(Line(b)) = 2
  <2>1. /\ e = <<Cur, b[1][1], b[2][1]>> /\ b[1][1] <= b[2][1] /\ b[1] \in Piece /\ b[2] \in Piece
        /\ W(b[1]) \in Weights(b) /\ W(b[1]) <= 2 * b[1][1] + 1
    BY <1>1, <1>2, <1>4, EventIs
  <2>2. e[1] = Cur /\ e[2] = b[1][1] /\ e[2] <= e[3] /\ e[2] \in Nat /\ W(b[1]) \in Nat
    BY <2>1, WeightType DEF Piece
  <2>3. /\ n \in Nat /\ DOMAIN emitted = 1..n /\ DOMAIN emitted' = 1..(n + 1)
        /\ emitted'[n + 1] = e /\ \A i \in 1..n : emitted'[i] = emitted[i] /\ emitted[i] \in Path \X Nat \X Nat
    <3> DEFINE M == Path \X Nat \X Nat
    <3>1. emitted \in Seq(M)
      BY DEF Shapes
    <3>2. e \in M
      BY <1>1, <1>2, <1>4, EventIs
    <3> HIDE DEF e, M
    <3>3. /\ Len(emitted) \in Nat /\ DOMAIN emitted = 1..Len(emitted) /\ DOMAIN emitted' = 1..(Len(emitted) + 1)
          /\ emitted'[Len(emitted) + 1] = e
          /\ \A i \in 1..Len(emitted) : emitted'[i] = emitted[i] /\ emitted[i] \in M
      BY <1>4, <3>1, <3>2
    <3> QED
      BY <3>3 DEF M
  <2> HIDE DEF e, n
  <2>4. ASSUME NEW i \in DOMAIN emitted' PROVE emitted'[i][2] <= emitted'[i][3]
    <3>1. i = n + 1 \/ (i \in DOMAIN emitted /\ emitted'[i] = emitted[i])
      BY <2>3
    <3>2. i = n + 1 => emitted'[i] = e
      BY <2>3
    <3> QED
      BY <2>2, <3>1, <3>2 DEF LogOrdered
  <2>5. ASSUME NEW i \in DOMAIN emitted', NEW j \in DOMAIN emitted', i < j, emitted'[i][1] = emitted'[j][1]
        PROVE  emitted'[i][3] < emitted'[j][2]
    <3>1. i \in 1..n /\ emitted'[i] = emitted[i] /\ emitted[i][3] \in Nat
      BY <2>3, <2>5
    <3>2. CASE j # n + 1
      <4>1. j \in DOMAIN emitted /\ emitted'[j] = emitted[j]
        BY <2>3, <3>2
      <4> QED
        BY <2>3, <2>5, <3>1, <4>1 DEF LogOrdered
    <3>3. CASE j = n + 1
      <4>1. emitted'[j] = e /\ emitted[i][1] = Cur
        BY <2>2, <2>3, <2>5, <3>1, <3>3
      <4>2. 2 * emitted[i][3] + 1 \in Ends(Cur)
        BY <2>3, <3>1, <4>1 DEF Ends
      <4>3. 2 * emitted[i][3] + 1 < W(b[1])
        BY <1>2, <2>1, <4>2 DEF Below
      <4> QED
        BY <2>1, <2>2, <3>1, <4>1, <4>3
    <3> QED
      BY <3>2, <3>3
  <2> QED
    BY <2>4, <2>5 DEF LogOrdered
<1> QED
  BY <1>1, <1>3, <1>4

LEMMA HoldOrdered ==
    ASSUME Shapes, Hold, NEW q \in Path, OrderedAt(q)
    PROVE  OrderedAt(q)'
<1>1. /\ Cur \in Path /\ UNCHANGED <<disk, name, wr, rot, emitted>>
      /\ tl.at = "emit" /\ tl'.at = "open"
      /\ \A r \in Path : r # Cur => st'[r] = st[r]
      /\ st'[Cur].off = st[Cur].off
      /\ \A r \in Path : Pending(r)' = Pending(r)
  BY HoldHolds
<1>2. Held(q)' = Held(q) /\ HeldData(q)' = HeldData(q)
  BY <1>1 DEF Held, HeldData
<1>3. Content(q)' = Content(q) /\ Top(q)' = Top(q) /\ Ends(q)' = Ends(q) /\ Hand(q)' = Hand(q)
  BY <1>1 DEF Content, Top, Ends, Hand
<1>4. st'[q].off = st[q].off
  BY <1>1
<1> QED
  BY <1>1, <1>2, <1>3, <1>4, SameStays

LEMMA CollectorTidy ==
    ASSUME Shapes, Tidy, TailStep \/ Take \/ Cancel \/ Stop \/ StopReturn \/ UNCHANGED vars
    PROVE  Tidy'
<1>1. UNCHANGED <<name, wr>>
  BY DEF TailStep, Glob, Open, OpenAs, Read, Skip, Emit, Put, EmitCancel, Hold, Tick, Exit, Take,
         Cancel, Stop, StopReturn, vars, files
<1>2. ASSUME NEW q \in Path PROVE Held(q)' \in {0, name[q], Held(q)}
  <2>1. CASE Glob \/ EmitCancel \/ Tick \/ Exit \/ Take \/ Cancel \/ Stop \/ StopReturn \/ UNCHANGED vars
    BY <2>1, PauseOrdered
  <2>2. CASE Open
    <3>1. tl'.at = "read" => Cur' = Cur /\ tl'.file = name[Cur]
      BY <2>2, OpenOpens
    <3> QED
      BY <3>1 DEF Held
  <2>3. CASE Read
    <3>1. tl'.at # "read"
      BY <2>3, ReadReads
    <3> QED
      BY <3>1 DEF Held
  <2>4. CASE Skip \/ Emit
    <3>1. tl'.at # "read"
      BY <2>4, SplitSplits
    <3> QED
      BY <3>1 DEF Held
  <2>5. CASE Hold
    <3>1. tl'.at # "read"
      BY <2>5, HoldHolds
    <3> QED
      BY <3>1 DEF Held
  <2> QED
    BY <2>1, <2>2, <2>3, <2>4, <2>5 DEF TailStep
<1>3. \A q \in Path : Refs(q)' \subseteq Refs(q)
  BY <1>1, <1>2 DEF Refs
<1> QED
  BY <1>1, <1>3, RefsFewer

(* No more is in hand, or kept for later, than was read. *)
Short == \A p \in Path : Len(st[p].partial) <= st[p].off /\ Len(Pending(p)) <= st[p].off

LEMMA StaysShort ==
    ASSUME Shapes, Short, [Next]_vars
    PROVE  Short'
<1> SUFFICES ASSUME NEW q \in Path
             PROVE  Len(st'[q].partial) <= st'[q].off /\ Len(Pending(q)') <= st'[q].off
  BY DEF Short
<1>1. Len(st[q].partial) <= st[q].off /\ Len(Pending(q)) <= st[q].off
  BY DEF Short
<1>2. /\ Pending(q) \in Seq(Piece) /\ HeldData(q) \in Seq(Piece) /\ st[q].off \in Nat
      /\ st[q].partial \in Seq(Piece)
  BY TheirTypes, ShapesAt DEF States
<1>3. CASE \E p \in Path : WriteHead(p) \/ WriteTail(p) \/ Truncate(p) \/ Unlink(p)
  <2>1. UNCHANGED <<st, tl, emitted>>
    BY <1>3 DEF WriteHead, WriteTail, Truncate, Unlink
  <2> QED
    BY <1>1, <2>1, CollectorKeeps
<1>4. CASE Glob \/ EmitCancel \/ Tick \/ Exit \/ Take \/ Cancel \/ Stop \/ StopReturn \/ UNCHANGED vars
  <2>1. st' = st /\ (tl'.at = "exited" \/ Pending(q)' = Pending(q))
    BY <1>4, PauseOrdered
  <2>2. tl'.at = "exited" => Pending(q)' = st'[q].partial
    BY DEF Pending
  <2> QED
    BY <1>1, <2>1, <2>2
<1>5. CASE Open
  <2>1. /\ tl.at = "open" /\ tl'.at \in {"open", "read"} /\ \A r \in Path : r # Cur => st'[r] = st[r]
        /\ st' = st \/ (st'[Cur].off = 0 /\ st'[Cur].partial = <<>>)
    BY <1>5, OpenOpens
  <2>2. Pending(q)' = st'[q].partial
    BY <2>1 DEF Pending
  <2>3. Len(<<>>) = 0
    OBVIOUS
  <2> QED
    BY <1>1, <2>1, <2>2, <2>3
<1>6. CASE Read
  <2> DEFINE h == HeldData(q)
             off == st[q].off
             b == Pending(q)
  <2>1. /\ tl.at = "read" /\ tl'.at \in {"open", "emit"} /\ (tl'.at = "emit" => Cur' = Cur)
        /\ \A r \in Path : r # Cur => st'[r] = st[r]
        /\ q = Cur => \/ /\ off < Len(h) /\ st'[q].off = Len(h) /\ tl'.at = "emit"
                         /\ tl'.buf = b \o SubSeq(h, off + 1, Len(h))
                      \/ st'[q].off = off /\ tl'.at = "open" /\ st'[q].partial = st[q].partial
    BY <1>6, ReadReads
  <2>2. CASE q # Cur
    BY <1>1, <2>1, <2>2 DEF Pending
  <2>3. CASE q = Cur /\ tl'.at = "open"
    BY <1>1, <2>1, <2>3 DEF Pending
  <2>4. CASE q = Cur /\ tl'.at = "emit"
    <3>1. off < Len(h) /\ st'[q].off = Len(h) /\ Pending(q)' = b \o SubSeq(h, off + 1, Len(h))
      BY <2>1, <2>4 DEF Pending
    <3>2. st'[q].partial = st[q].partial
      BY <1>6, <2>4, ReadReads
    <3> HIDE DEF h, off, b
    <3>3. b \in Seq(Piece) /\ h \in Seq(Piece) /\ off \in Nat /\ Len(b) <= off /\ Len(st[q].partial) <= off
      BY <1>1, <1>2 DEF h, off, b
    <3>4. SubSeq(h, off + 1, Len(h)) \in Seq(Piece) /\ Len(SubSeq(h, off + 1, Len(h))) = Len(h) - off
      BY <3>1, <3>3, RestIsAhead
    <3>5. Len(b \o SubSeq(h, off + 1, Len(h))) = Len(b) + (Len(h) - off)
      BY <3>3, <3>4, ConcatProperties
    <3>6. Len(b) \in Nat /\ Len(h) \in Nat /\ Len(st[q].partial) \in Nat
      BY <1>2, <3>3
    <3> QED
      BY <3>1, <3>2, <3>3, <3>5, <3>6
  <2> QED
    BY <2>1, <2>2, <2>3, <2>4
<1>7. CASE Skip \/ Emit
  <2>1. /\ Cur \in Path /\ Cur' = Cur /\ st' = st /\ tl.at = "emit" /\ tl'.at = "emit" /\ Newlines(Pending(Cur)) # {}
        /\ \A r \in Path : r = Cur => Pending(r)' = After(Pending(Cur))
    BY <1>7, SplitSplits
  <2>2. CASE q # Cur
    BY <1>1, <2>1, <2>2 DEF Pending
  <2>3. CASE q = Cur
    <3>1. Len(After(Pending(q))) = Len(Pending(q)) - Newline(Pending(q)) /\ Newline(Pending(q)) \in 1..Len(Pending(q))
      BY <1>2, <2>1, <2>3, LineLeaves, NewlineIs
    <3>2. Pending(q)' = After(Pending(q))
      BY <2>1, <2>3
    <3> QED
      BY <1>1, <1>2, <2>1, <3>1, <3>2
  <2> QED
    BY <2>2, <2>3
<1>8. CASE Hold
  <2>1. /\ \A r \in Path : r # Cur => st'[r] = st[r]
        /\ st'[Cur].off = st[Cur].off /\ st'[Cur].partial = Pending(Cur)
        /\ \A r \in Path : Pending(r)' = Pending(r)
    BY <1>8, HoldHolds
  <2> QED
    BY <1>1, <2>1
<1> QED
  BY <1>3, <1>4, <1>5, <1>6, <1>7, <1>8 DEF Next, TailStep

----------------------------------------------------------------------------

IInv == Shapes /\ Tidy /\ Short /\ LogOrdered /\ \A p \in Path : OrderedAt(p)

LEMMA InitHolds == Init => IInv
<1> SUFFICES ASSUME Init PROVE IInv
  OBVIOUS
<1>1. Shapes
  BY InitShapes
<1>2. ASSUME NEW p \in Path
      PROVE  /\ Held(p) = 0 /\ HeldData(p) = <<>> /\ Hand(p) = <<>> /\ Pending(p) = <<>> /\ Ends(p) = {}
             /\ st[p].off = 0 /\ st[p].partial = <<>> /\ wr[p].file = 0 /\ name[p] \in {p, 0}
             /\ Top(p) = 2 * Existing[p] + 1 /\ Existing[p] \in Nat
             /\ name[p] = p => disk[p].data = FirstLines(Existing[p])
  <2>1. Existing[p] \in Nat
    BY PathsAre, TailAssumption DEF Path
  <2>2. tl.at = "glob" /\ emitted = <<>>
    BY DEF Init
  <2>3. st[p].off = 0 /\ st[p].partial = <<>> /\ wr[p].file = 0 /\ wr[p].n = Existing[p] /\ name[p] \in {p, 0}
    BY DEF Init
  <2>4. disk[p].data = FirstLines(Existing[p])
    BY DEF Init
  <2> QED
    BY <2>1, <2>2, <2>3, <2>4 DEF Held, HeldData, Hand, Pending, Ends, Top
<1>3. Tidy
  <2>1. \A p \in Path : Refs(p) \subseteq {p}
    BY <1>2 DEF Refs
  <2>2. tl.at = "glob"
    BY DEF Init
  <2> QED
    BY <1>2, <2>1, <2>2 DEF Tidy
<1>4. Short
  <2>1. Len(<<>>) = 0
    OBVIOUS
  <2> QED
    BY <1>2, <2>1 DEF Short
<1>5. LogOrdered
  BY DEF LogOrdered, Init
<1>6. ASSUME NEW p \in Path PROVE OrderedAt(p)
  <2> DEFINE c == Content(p)
             k == Existing[p]
             apart == Held(p) # name[p]
  <2>1. c = <<>> \/ c = FirstLines(k)
    BY <1>2 DEF Content
  <2>2. ~apart => c = <<>>
    BY <1>2 DEF Content
  <2>3. Rises(c) /\ \A w \in Weights(c) : w <= 2 * k + 1
    <3>1. CASE c = <<>>
      BY <3>1, EmptyWeights
    <3>2. CASE c = FirstLines(k)
      <4>1. k \in Nat
        BY <1>2
      <4>2. /\ FirstLines(k) \in Seq(Piece) /\ Len(FirstLines(k)) = 2 * k
            /\ \A i \in 1..(2 * k) : W(FirstLines(k)[i]) = i + 1
        BY <4>1, FirstLinesAre
      <4> HIDE DEF c, k
      <4>3. DOMAIN c = 1..(2 * k) /\ \A i \in 1..(2 * k) : W(c[i]) = i + 1
        BY <3>2, <4>1, <4>2
      <4> QED
        BY <4>1, <4>3 DEF Rises, Weights
    <3> QED
      BY <2>1, <3>1, <3>2
  <2>4. Rises(<<>>) /\ Weights(<<>>) = {} /\ Ahead(<<>>, 0) = {}
    BY EmptyWeights
  <2> HIDE DEF c, apart
  <2>5. Ordered(c, <<>>, <<>>, {}, 0, 2 * k + 1, apart)
    BY <2>2, <2>3, <2>4 DEF Ordered, Below
  <2> QED
    BY <1>2, <2>5 DEF OrderedAt, c, apart
<1> QED
  BY <1>1, <1>3, <1>4, <1>5, <1>6 DEF IInv

LEMMA StepKeeps == ASSUME IInv, [Next]_vars PROVE IInv'
<1>1. Shapes /\ Tidy /\ Short /\ LogOrdered /\ \A p \in Path : OrderedAt(p)
  BY DEF IInv
<1>2. Shapes'
  BY <1>1, WritersShapes, CollectorShapes DEF Next
<1>3. Short'
  BY <1>1, StaysShort
<1>4. ASSUME NEW p \in Path, WriteHead(p) \/ WriteTail(p)
      PROVE  Tidy' /\ LogOrdered' /\ \A q \in Path : OrderedAt(q)'
  <2>1. PICK f \in Nat, x \in Piece : Wrote(p, f, x)
    BY <1>1, <1>4, WriteWrites
  <2>2. Tidy' /\ \A q \in Path : OrderedAt(q)'
    BY <1>1, <2>1, WriteTidy, WriteOrdered
  <2>3. emitted' = emitted
    BY <2>1 DEF Wrote
  <2> QED
    BY <1>1, <2>2, <2>3 DEF LogOrdered
<1>5. ASSUME NEW p \in Path, Truncate(p) \/ Unlink(p)
      PROVE  Tidy' /\ LogOrdered' /\ \A q \in Path : OrderedAt(q)'
  <2>1. Cut(p)
    BY <1>1, <1>5, CutCuts
  <2>2. Tidy' /\ \A q \in Path : OrderedAt(q)'
    BY <1>1, <2>1, CutTidy, CutOrdered
  <2>3. emitted' = emitted
    BY <2>1 DEF Cut
  <2> QED
    BY <1>1, <2>2, <2>3 DEF LogOrdered
<1>6. ASSUME TailStep \/ Take \/ Cancel \/ Stop \/ StopReturn \/ UNCHANGED vars
      PROVE  Tidy' /\ LogOrdered' /\ \A q \in Path : OrderedAt(q)'
  <2>1. Tidy'
    BY <1>1, <1>6, CollectorTidy
  <2>2. CASE Glob \/ EmitCancel \/ Tick \/ Exit \/ Take \/ Cancel \/ Stop \/ StopReturn \/ UNCHANGED vars
    <3>1. \A q \in Path : OrderedAt(q)'
      BY <1>1, <2>2, PauseOrdered
    <3>2. emitted' = emitted
      BY <2>2 DEF Glob, EmitCancel, Tick, Exit, Take, Cancel, Stop, StopReturn, vars, files
    <3> QED
      BY <1>1, <2>1, <3>1, <3>2 DEF LogOrdered
  <2>3. CASE Open
    <3>1. \A q \in Path : OrderedAt(q)'
      BY <1>1, <1>2, <2>3, OpenOrdered
    <3>2. emitted' = emitted
      BY <1>1, <2>3, OpenOpens
    <3> QED
      BY <1>1, <2>1, <3>1, <3>2 DEF LogOrdered
  <2>4. CASE Read
    <3>1. \A q \in Path : OrderedAt(q)'
      BY <1>1, <2>4, ReadOrdered
    <3>2. emitted' = emitted
      BY <1>1, <2>4, ReadReads
    <3> QED
      BY <1>1, <2>1, <3>1, <3>2 DEF LogOrdered
  <2>5. CASE Skip \/ Emit
    BY <1>1, <2>1, <2>5, SplitOrdered, SplitLog
  <2>6. CASE Hold
    <3>1. \A q \in Path : OrderedAt(q)'
      BY <1>1, <2>6, HoldOrdered
    <3>2. emitted' = emitted
      BY <1>1, <2>6, HoldHolds
    <3> QED
      BY <1>1, <2>1, <3>1, <3>2 DEF LogOrdered
  <2> QED
    BY <1>6, <2>2, <2>3, <2>4, <2>5, <2>6 DEF TailStep
<1>7. Tidy' /\ LogOrdered' /\ \A q \in Path : OrderedAt(q)'
  BY <1>4, <1>5, <1>6 DEF Next
<1> QED
  BY <1>2, <1>3, <1>7 DEF IInv

(* What the collector has in hand, what it sent and what is still to be read  *)
(* stand in the order of writing (tail.go:79-120).                            *)
THEOREM Invariant == Spec => []IInv
<1> QED
  BY InitHolds, StepKeeps, PTL DEF Spec

(* Types hold and no more is kept for later than was read, for any files, any *)
(* number of rotations and any capacity (tail.go:21-53, 79-120).              *)
THEOREM TypeCorrect == Spec => []TypeOK
<1>1. IInv => TypeOK
  <2> SUFFICES ASSUME IInv PROVE TypeOK
    OBVIOUS
  <2>1. Shapes /\ Short
    BY DEF IInv
  <2>2. /\ disk \in Seq(File) /\ name \in [Path -> 0..Len(disk)] /\ rot \in 0..MaxRotations
        /\ tl \in Loops /\ chan \in 0..ChanCap /\ ctl \in [done : BOOLEAN, stop : {"idle", "waiting", "returned"}]
    BY <2>1 DEF Shapes, Loops
  <2>3. \A f \in DOMAIN disk : disk[f].gen \in 0..MaxRotations
    <3> TAKE f \in DOMAIN disk
    <3>1. disk[f] \in File
      BY <2>2
    <3> QED
      BY <3>1 DEF File
  <2>4. ASSUME NEW p \in Path
        PROVE  /\ wr[p].n \in 0..Len(Lines[p]) /\ wr[p].file \in 0..Len(disk)
               /\ st[p].off \in Nat /\ st[p].misread \in BOOLEAN
               /\ Len(st[p].partial) <= st[p].off
    <3>1. wr[p].n \in Nat /\ wr[p].file \in 0..Len(disk) /\ st[p] \in States
      BY <2>1, ShapesAt
    <3>2. wr[p].n <= Len(Lines[p]) /\ Len(Lines[p]) \in Nat
      BY <2>1, PathsAre DEF Shapes
    <3>3. st[p].off \in Nat /\ st[p].misread \in BOOLEAN
      BY <3>1 DEF States
    <3> QED
      BY <2>1, <3>1, <3>2, <3>3 DEF Short
  <2>5. tl.at \in {"glob", "open", "read", "emit", "exited"} /\ tl.file \in 0..Len(disk)
    BY <2>2 DEF Loops
  <2> QED
    BY <2>2, <2>3, <2>4, <2>5 DEF TypeOK
<1> QED
  BY <1>1, Invariant, PTL

(* Whatever is truncated, removed or rewritten under it, and wherever a read  *)
(* ends, the collector never emits a line twice nor a path's lines out of the *)
(* order they were written in, for any files, any number of rotations and any *)
(* capacity (tail.go:79-120).                                                 *)
THEOREM NeverTwice == Spec => []InOrderOnce
<1>1. IInv => InOrderOnce
  <2> SUFFICES ASSUME IInv, NEW p \in Path,
                      NEW i \in DOMAIN EmittedFrom(p), NEW j \in DOMAIN EmittedFrom(p), i < j
               PROVE  EmittedFrom(p)[i][2] < EmittedFrom(p)[j][2]
    BY DEF InOrderOnce
  <2> DEFINE T == {<<p, n, n>> : n \in 1..Len(Lines[p])}
             S == Path \X Nat \X Nat
             es == Only(emitted, T)
  <2>1. emitted \in Seq(S) /\ LogOrdered
    BY DEF IInv, Shapes
  <2>2. es \in Seq(S \cap T) /\ EmittedFrom(p) = es
    BY <2>1, OnlyType DEF EmittedFrom
  <2>3. i \in 1..Len(es) /\ j \in 1..Len(es) /\ es[i] \in T /\ es[j] \in T
    <3> HIDE DEF S, T, es
    <3>1. DOMAIN es = 1..Len(es) /\ \A k \in 1..Len(es) : es[k] \in S \cap T
      BY <2>2
    <3>2. i \in 1..Len(es) /\ j \in 1..Len(es)
      BY <2>2, <3>1
    <3> QED
      BY <3>1, <3>2
  <2>4. PICK a \in 1..Len(emitted), b \in 1..Len(emitted) : a < b /\ emitted[a] = es[i] /\ emitted[b] = es[j]
    <3> HIDE DEF S, T
    <3> QED
      BY <2>1, <2>3, OnlyKeepsOrder
  <2>5. es[i][1] = es[j][1] /\ es[i][2] = es[i][3]
    BY <2>3
  <2>6. emitted[a][3] < emitted[b][2]
    <3> HIDE DEF es
    <3>1. DOMAIN emitted = 1..Len(emitted)
      BY <2>1
    <3>2. a \in DOMAIN emitted /\ b \in DOMAIN emitted /\ a < b /\ emitted[a][1] = emitted[b][1]
      BY <2>4, <2>5, <3>1
    <3> QED
      BY <2>1, <3>2 DEF LogOrdered
  <2> QED
    BY <2>2, <2>4, <2>5, <2>6
<1> QED
  BY <1>1, Invariant, PTL

----------------------------------------------------------------------------
(* What was consumed of a content. *)

GoodOf(p) == {LineOf(n, n) : n \in {m \in 1..Len(Lines[p]) : Lines[p][m] = "good"}}

LEMMA GoodLinesAre == \A p, b : GoodLines(p, b) = Only(Neighbours(b), GoodOf(p))
  BY DEF GoodLines, GoodOf

LEMMA NeighboursAre ==
    ASSUME NEW b \in Seq(Piece)
    PROVE  /\ Neighbours(b) \in Seq(Piece \X Piece)
           /\ Len(Neighbours(b)) = IF b = <<>> THEN 0 ELSE Len(b) - 1
           /\ \A i \in 1..(Len(b) - 1) : Neighbours(b)[i] = <<b[i], b[i + 1]>>
<1>1. CASE b = <<>>
  BY <1>1 DEF Neighbours
<1>2. CASE b # <<>>
  <2> DEFINE n == Len(b) - 1
             q == Neighbours(b)
  <2>1. n \in Nat /\ Len(b) \in Nat /\ \A i \in 1..n : b[i] \in Piece /\ b[i + 1] \in Piece
    BY <1>2
  <2>2. q = [i \in 1..n |-> <<b[i], b[i + 1]>>]
    BY <1>2 DEF Neighbours
  <2> HIDE DEF n, q
  <2>3. q \in [1..n -> Piece \X Piece] /\ \A i \in 1..n : q[i] = <<b[i], b[i + 1]>>
    BY <2>1, <2>2
  <2>4. q \in Seq(Piece \X Piece) /\ Len(q) = n
    BY <2>1, <2>3
  <2> QED
    BY <1>2, <2>3, <2>4 DEF n, q
<1> QED
  BY <1>1, <1>2

(* Where two meet, the last of one is next to the first of the other. *)
LEMMA NeighboursMeet ==
    ASSUME NEW x \in Seq(Piece), NEW y \in Seq(Piece), x # <<>>, y # <<>>
    PROVE  Neighbours(x \o y) = Append(Neighbours(x), <<x[Len(x)], y[1]>>) \o Neighbours(y)
<1> DEFINE PP == Piece \X Piece
           w == x \o y
           nx == Neighbours(x)
           ny == Neighbours(y)
           z == <<x[Len(x)], y[1]>>
           m == Len(x)
           k == Len(y)
           q == Neighbours(w)
           u == Append(nx, z)
           r == u \o ny
<1>1. m \in Nat \ {0} /\ k \in Nat \ {0} /\ z \in PP
  OBVIOUS
<1>2. w \in Seq(Piece) /\ Len(w) = m + k /\ \A i \in 1..(m + k) : w[i] = IF i <= m THEN x[i] ELSE y[i - m]
  BY ConcatProperties
<1>3. z = <<x[m], y[1]>>
  OBVIOUS
<1>4. /\ nx \in Seq(PP) /\ Len(nx) = m - 1 /\ \A i \in 1..(m - 1) : nx[i] = <<x[i], x[i + 1]>>
      /\ ny \in Seq(PP) /\ Len(ny) = k - 1 /\ \A i \in 1..(k - 1) : ny[i] = <<y[i], y[i + 1]>>
  BY NeighboursAre
<1> HIDE DEF PP, w, nx, ny, z, m, k
<1>5. w # <<>>
  BY <1>1, <1>2
<1>6. q \in Seq(PP) /\ Len(q) = m + k - 1 /\ \A i \in 1..(m + k - 1) : q[i] = <<w[i], w[i + 1]>>
  <2>1. q \in Seq(PP) /\ Len(q) = Len(w) - 1 /\ \A i \in 1..(Len(w) - 1) : q[i] = <<w[i], w[i + 1]>>
    BY <1>2, <1>5, NeighboursAre DEF PP
  <2>2. Len(w) - 1 = m + k - 1
    BY <1>1, <1>2
  <2> QED
    BY <2>1, <2>2
<1>7. u \in Seq(PP) /\ Len(u) = m /\ \A i \in 1..m : u[i] = IF i <= m - 1 THEN nx[i] ELSE z
  <2>1. u \in Seq(PP) /\ Len(u) = (m - 1) + 1 /\ u[(m - 1) + 1] = z /\ \A i \in 1..(m - 1) : u[i] = nx[i]
    BY <1>1, <1>4, AppendProperties
  <2>2. (m - 1) + 1 = m /\ \A i \in 1..m : i <= m - 1 \/ i = m
    BY <1>1
  <2> HIDE DEF u
  <2>3. \A i \in 1..m : u[i] = IF i <= m - 1 THEN nx[i] ELSE z
    BY <1>1, <2>1, <2>2
  <2> QED
    BY <2>1, <2>2, <2>3
<1> HIDE DEF q, u
<1>8. /\ r \in Seq(PP) /\ Len(r) = m + k - 1
      /\ \A i \in 1..(m + k - 1) : r[i] = IF i <= m THEN u[i] ELSE ny[i - m]
  <2>1. m + (k - 1) = m + k - 1
    BY <1>1
  <2>2. r \in Seq(PP) /\ Len(r) = Len(u) + Len(ny)
        /\ \A i \in 1..(Len(u) + Len(ny)) : r[i] = IF i <= Len(u) THEN u[i] ELSE ny[i - Len(u)]
    BY <1>4, <1>7, ConcatProperties
  <2>3. Len(u) = m /\ Len(u) + Len(ny) = m + k - 1
    BY <1>4, <1>7, <2>1
  <2> HIDE DEF r
  <2> QED
    BY <2>2, <2>3
<1> HIDE DEF r
<1>9. ASSUME NEW i \in 1..(m + k - 1) PROVE q[i] = r[i]
  <2>1. q[i] = <<w[i], w[i + 1]>> /\ i \in 1..(m + k) /\ i + 1 \in 1..(m + k)
    BY <1>1, <1>6
  <2>2. CASE i <= m - 1
    <3>1. w[i] = x[i] /\ w[i + 1] = x[i + 1] /\ r[i] = u[i] /\ u[i] = nx[i]
      BY <1>1, <1>2, <1>7, <1>8, <2>1, <2>2
    <3> QED
      BY <1>1, <1>4, <2>1, <2>2, <3>1
  <2>3. CASE i = m
    <3>1. w[i] = x[m] /\ w[i + 1] = y[1] /\ r[i] = u[i] /\ u[i] = z
      <4>1. (m + 1) - m = 1 /\ ~(m + 1 <= m) /\ ~(m <= m - 1)
        BY <1>1
      <4> QED
        BY <1>1, <1>2, <1>7, <1>8, <2>1, <2>3, <4>1
    <3> QED
      BY <1>3, <2>1, <3>1
  <2>4. CASE i > m
    <3>1. i - m \in 1..(k - 1) /\ (i + 1) - m = (i - m) + 1
      BY <1>1, <2>4
    <3>2. w[i] = y[i - m] /\ w[i + 1] = y[(i - m) + 1] /\ r[i] = ny[i - m]
      BY <1>1, <1>2, <1>8, <2>1, <2>4, <3>1
    <3> QED
      BY <1>4, <2>1, <3>1, <3>2
  <2> QED
    BY <1>1, <2>2, <2>3, <2>4
<1>10. q = r
  BY <1>6, <1>8, <1>9, SeqEqual
<1> QED
  BY <1>10 DEF q, r, u, w, z, nx, ny

(* A newline keeps lines apart. *)
LEMMA GoodJoin ==
    ASSUME NEW p, NEW x \in Seq(Piece), NEW y \in Seq(Piece), x = <<>> \/ x[Len(x)][2] = "tail"
    PROVE  GoodLines(p, x \o y) = GoodLines(p, x) \o GoodLines(p, y)
<1> DEFINE T == GoodOf(p)
           PP == Piece \X Piece
           gx == GoodLines(p, x)
           gy == GoodLines(p, y)
<1>1. \A b \in Seq(Piece) : Neighbours(b) \in Seq(PP)
  BY NeighboursAre
<1>2. gx = Only(Neighbours(x), T) /\ gy = Only(Neighbours(y), T)
  BY GoodLinesAre
<1>3. gx \in Seq(PP \cap T) /\ gy \in Seq(PP \cap T)
  <2> HIDE DEF PP, T
  <2> QED
    BY <1>1, <1>2, OnlyType
<1>4. GoodLines(p, <<>>) = <<>>
  <2>1. Neighbours(<<>>) = <<>>
    BY DEF Neighbours
  <2> QED
    BY <2>1, OnlyEmpty, GoodLinesAre
<1>5. gx \o <<>> = gx /\ <<>> \o gy = gy
  <2> HIDE DEF gx, gy, PP, T
  <2> QED
    BY <1>3, ConcatEmptySeq
<1>6. CASE x = <<>> \/ y = <<>>
  <2>1. (x = <<>> => x \o y = y) /\ (y = <<>> => x \o y = x)
    BY ConcatEmptySeq
  <2> QED
    BY <1>4, <1>5, <1>6, <2>1
<1>7. CASE x # <<>> /\ y # <<>>
  <2> DEFINE z == <<x[Len(x)], y[1]>>
             nx == Neighbours(x)
             ny == Neighbours(y)
             u == Append(nx, z)
  <2>1. Len(x) \in 1..Len(x) /\ 1 \in 1..Len(y)
    BY <1>7
  <2>2. z \in PP /\ z[1][2] = "tail"
    BY <1>7, <2>1
  <2>3. z \notin T
    BY <2>2 DEF GoodOf, LineOf
  <2>4. GoodLines(p, x \o y) = Only(u \o ny, T)
    BY <1>7, NeighboursMeet, GoodLinesAre
  <2>5. nx \in Seq(PP) /\ ny \in Seq(PP)
    BY <1>1
  <2> HIDE DEF z, PP, T, nx, ny, gx, gy
  <2>6. u \in Seq(PP) /\ Only(u, T) = Only(nx, T)
    BY <2>2, <2>3, <2>5, OnlyAppend, AppendProperties
  <2> HIDE DEF u
  <2>7. Only(u \o ny, T) = Only(u, T) \o Only(ny, T)
    <3>1. u \in Seq(PP) /\ ny \in Seq(PP)
      BY <2>5, <2>6
    <3> QED
      BY <3>1, OnlyConcat
  <2>8. gx = Only(nx, T) /\ gy = Only(ny, T)
    BY <1>2 DEF nx, ny
  <2> QED
    BY <2>4, <2>6, <2>7, <2>8 DEF gx, gy
<1> QED
  BY <1>6, <1>7

(* es, the events emitted of content c, and what is in hand make up what was  *)
(* read of it.                                                                *)
PairsOf(es) == [i \in DOMAIN es |-> LineOf(es[i][2], es[i][3])]
ConsumedIn(p, c, b, off, es) ==
    /\ off <= Len(c)
    /\ \E k \in 0..off : /\ b = SubSeq(c, k + 1, off) /\ (k > 0 => c[k][2] = "tail")
                         /\ PairsOf(es) = GoodLines(p, SubSeq(c, 1, k))

(* A head is followed by its own tail. *)
Closes(c) == \A i \in DOMAIN c : c[i][2] = "head" /\ i < Len(c) => c[i + 1] = <<c[i][1], "tail">>

LEMMA PairsGrow ==
    ASSUME NEW S, NEW es \in Seq(S), NEW e \in S
    PROVE  /\ PairsOf(<<>>) = <<>>
           /\ PairsOf(Append(es, e)) = Append(PairsOf(es), LineOf(e[2], e[3]))
<1> DEFINE L(d) == LineOf(d[2], d[3])
           U == {L(d) : d \in S}
           n == Len(es)
           q == Append(es, e)
           x == PairsOf(es)
           y == PairsOf(q)
<1>1. n \in Nat /\ DOMAIN es = 1..n /\ \A i \in 1..n : es[i] \in S
  OBVIOUS
<1>2. DOMAIN q = 1..(n + 1) /\ q[n + 1] = e /\ \A i \in 1..n : q[i] = es[i]
  OBVIOUS
<1> HIDE DEF n, q
<1>3. x = [i \in 1..n |-> L(es[i])] /\ y = [i \in 1..(n + 1) |-> L(q[i])]
  BY <1>1, <1>2 DEF PairsOf
<1> HIDE DEF L, x, y
<1>4. x \in [1..n -> U] /\ \A i \in 1..n : x[i] = L(es[i])
  BY <1>1, <1>3
<1>5. y \in [1..(n + 1) -> U] /\ y[n + 1] = L(e) /\ L(e) \in U /\ \A i \in 1..n : y[i] = x[i]
  <2>1. \A i \in 1..(n + 1) : q[i] \in S /\ y[i] = L(q[i])
    BY <1>1, <1>2, <1>3
  <2>2. n + 1 \in 1..(n + 1) /\ \A i \in 1..n : i \in 1..(n + 1)
    BY <1>1
  <2>3. y = [i \in 1..(n + 1) |-> L(q[i])] /\ \A i \in 1..(n + 1) : L(q[i]) \in U
    BY <1>3, <2>1
  <2> HIDE DEF U
  <2>4. y \in [1..(n + 1) -> U]
    BY <2>3
  <2>5. \A i \in 1..n : y[i] = x[i]
    BY <1>2, <1>4, <2>1, <2>2
  <2> QED
    BY <1>2, <2>1, <2>2, <2>4, <2>5 DEF U
<1> HIDE DEF U
<1>6. x \in Seq(U) /\ Len(x) = n /\ y \in Seq(U) /\ Len(y) = n + 1
  BY <1>1, <1>4, <1>5
<1>7. y = Append(x, L(e))
  BY <1>1, <1>5, <1>6
<1>8. PairsOf(<<>>) = <<>>
  BY DEF PairsOf
<1> QED
  BY <1>7, <1>8 DEF q, x, y, L

LEMMA ConsumedGrows ==
    ASSUME NEW p, NEW c \in Seq(Piece), NEW x \in Piece, NEW b, NEW off \in Nat, NEW es, ConsumedIn(p, c, b, off, es)
    PROVE  ConsumedIn(p, Append(c, x), b, off, es)
<1> DEFINE d == Append(c, x)
<1>1. d \in Seq(Piece) /\ Len(d) = Len(c) + 1 /\ Len(c) \in Nat /\ \A i \in 1..Len(c) : d[i] = c[i]
  OBVIOUS
<1>2. PICK k \in 0..off : /\ b = SubSeq(c, k + 1, off) /\ (k > 0 => c[k][2] = "tail")
                          /\ PairsOf(es) = GoodLines(p, SubSeq(c, 1, k))
  BY DEF ConsumedIn
<1> HIDE DEF d
<1>3. off <= Len(c) /\ off <= Len(d)
  BY <1>1 DEF ConsumedIn
<1>4. ASSUME NEW m \in Nat, NEW n \in Nat, m > 0, n <= Len(c) PROVE SubSeq(d, m, n) = SubSeq(c, m, n)
  <2>1. \A i \in m..n : c[i] \in Piece /\ d[i] = c[i]
    BY <1>1, <1>4
  <2>2. /\ SubSeq(c, m, n) \in Seq(Piece) /\ SubSeq(d, m, n) \in Seq(Piece) /\ Len(SubSeq(c, m, n)) = Len(SubSeq(d, m, n))
        /\ Len(SubSeq(c, m, n)) = IF m <= n THEN n - m + 1 ELSE 0
        /\ \A i \in 1..(n - m + 1) : SubSeq(c, m, n)[i] = c[m + i - 1] /\ SubSeq(d, m, n)[i] = d[m + i - 1]
    BY <1>4, <2>1, SubSeqProperties
  <2>3. \A i \in 1..Len(SubSeq(c, m, n)) : SubSeq(c, m, n)[i] = SubSeq(d, m, n)[i]
    BY <1>4, <2>1, <2>2
  <2> QED
    BY <2>2, <2>3, SeqEqual
<1>5. SubSeq(d, k + 1, off) = SubSeq(c, k + 1, off) /\ SubSeq(d, 1, k) = SubSeq(c, 1, k)
  <2>1. k \in Nat /\ k + 1 \in Nat /\ k + 1 > 0 /\ 1 \in Nat /\ 1 > 0 /\ k <= Len(c) /\ off <= Len(c)
    BY <1>1, <1>2, <1>3
  <2> QED
    BY <1>4, <2>1
<1>6. k > 0 => d[k] = c[k]
  BY <1>1, <1>2, <1>3
<1>7. ConsumedIn(p, d, b, off, es)
  BY <1>2, <1>3, <1>5, <1>6 DEF ConsumedIn
<1> QED
  BY <1>7 DEF d

(* The rest of the content is read. *)
LEMMA ConsumedReads ==
    ASSUME NEW p, NEW c \in Seq(Piece), NEW b, NEW off \in Nat, NEW es, ConsumedIn(p, c, b, off, es)
    PROVE  ConsumedIn(p, c, b \o SubSeq(c, off + 1, Len(c)), Len(c), es)
<1>1. PICK k \in 0..off : /\ b = SubSeq(c, k + 1, off) /\ (k > 0 => c[k][2] = "tail")
                          /\ PairsOf(es) = GoodLines(p, SubSeq(c, 1, k))
  BY DEF ConsumedIn
<1>2. off <= Len(c) /\ Len(c) \in Nat
  BY DEF ConsumedIn
<1>3. k + 1 \in 1..(Len(c) + 1) /\ off \in ((k + 1) - 1)..Len(c) /\ Len(c) \in off..Len(c) /\ k \in 0..Len(c)
  BY <1>1, <1>2
<1>4. SubSeq(c, k + 1, off) \o SubSeq(c, off + 1, Len(c)) = SubSeq(c, k + 1, Len(c))
  BY <1>3, ConcatAdjacentSubSeq
<1> DEFINE n == Len(c)
           b2 == b \o SubSeq(c, off + 1, n)
<1>5. n <= Len(c) /\ k \in 0..n /\ b2 = SubSeq(c, k + 1, n)
  <2>1. n <= Len(c) /\ k \in 0..n
    BY <1>2, <1>3
  <2>2. b2 = SubSeq(c, k + 1, n)
    BY <1>1, <1>4
  <2> QED
    BY <2>1, <2>2
<1> HIDE DEF n, b2
<1>6. ConsumedIn(p, c, b2, n, es)
  BY <1>1, <1>5 DEF ConsumedIn
<1> QED
  BY <1>6 DEF n, b2

(* A content of which nothing was emitted is read from the start. *)
LEMMA ConsumedAnew ==
    ASSUME NEW p, NEW c \in Seq(Piece)
    PROVE  ConsumedIn(p, c, SubSeq(c, 1, Len(c)), Len(c), <<>>)
<1>1. SubSeq(c, 1, 0) = <<>> /\ Len(c) \in Nat
  OBVIOUS
<1>2. GoodLines(p, <<>>) = <<>>
  <2>1. Neighbours(<<>>) = <<>>
    BY DEF Neighbours
  <2> QED
    BY <2>1, OnlyEmpty, GoodLinesAre
<1>3. PairsOf(<<>>) = <<>>
  BY DEF PairsOf
<1> DEFINE n == Len(c)
           b == SubSeq(c, 1, n)
<1>4. 0 \in 0..n /\ b = SubSeq(c, 0 + 1, n) /\ ~(0 > 0) /\ n <= Len(c)
  BY <1>1
<1>5. PairsOf(<<>>) = GoodLines(p, SubSeq(c, 1, 0))
  BY <1>1, <1>2, <1>3
<1> HIDE DEF n, b
<1>6. ConsumedIn(p, c, b, n, <<>>)
  BY <1>4, <1>5 DEF ConsumedIn
<1> QED
  BY <1>6 DEF n, b

(* What was read is what was emitted and what is in hand. *)
Accounted(p, c, b, off, es) == PairsOf(es) \o GoodLines(p, b) = GoodLines(p, SubSeq(c, 1, off))

LEMMA ConsumedAll ==
    ASSUME NEW p, NEW c \in Seq(Piece), NEW b, NEW off \in Nat, NEW es, ConsumedIn(p, c, b, off, es)
    PROVE  Accounted(p, c, b, off, es)
<1>1. PICK k \in 0..off : /\ b = SubSeq(c, k + 1, off) /\ (k > 0 => c[k][2] = "tail")
                          /\ PairsOf(es) = GoodLines(p, SubSeq(c, 1, k))
  BY DEF ConsumedIn
<1>2. off <= Len(c) /\ Len(c) \in Nat
  BY DEF ConsumedIn
<1> DEFINE x == SubSeq(c, 1, k)
           y == SubSeq(c, k + 1, off)
<1>3. x \in Seq(Piece) /\ Len(x) = k /\ y \in Seq(Piece) /\ (k > 0 => x[k] = c[k])
  BY <1>1, <1>2
<1>4. x \o y = SubSeq(c, 1, off)
  <2>1. 1 \in 1..(Len(c) + 1) /\ k \in (1 - 1)..Len(c) /\ off \in k..Len(c)
    BY <1>1, <1>2
  <2> QED
    BY <2>1, ConcatAdjacentSubSeq
<1> HIDE DEF x, y
<1>5. x = <<>> \/ x[Len(x)][2] = "tail"
  <2>1. CASE k = 0
    BY <1>3, <2>1
  <2>2. CASE k > 0
    BY <1>1, <1>3, <2>2
  <2> QED
    BY <1>1, <2>1, <2>2
<1>6. GoodLines(p, x \o y) = GoodLines(p, x) \o GoodLines(p, y)
  BY <1>3, <1>5, GoodJoin
<1> QED
  BY <1>1, <1>4, <1>6 DEF x, y, Accounted

(* l is the next line of what is in hand: one that was begun in an earlier    *)
(* file, or a whole one of the content.                                       *)
NextLine(p, c, off, es, l, rest) ==
    /\ l \in Seq(Piece)
    /\ \/ Len(l) = 1
       \/ /\ Len(l) = 2 /\ l[1][1] = l[2][1] /\ l[1][2] = "head" /\ l[2][2] = "tail"
          /\ \E i \in DOMAIN c : c[i] = l[1]
    /\ \A es2 : PairsOf(es2) = PairsOf(es) \o GoodLines(p, l) => ConsumedIn(p, c, rest, off, es2)

LEMMA LineIs ==
    ASSUME NEW p, NEW c \in Seq(Piece), NEW b \in Seq(Piece), NEW off \in Nat, NEW es,
           ConsumedIn(p, c, b, off, es), Closes(c), Newlines(b) # {}
    PROVE  NextLine(p, c, off, es, Line(b), After(b))
<1> DEFINE n == Newline(b)
           l == Line(b)
<1>1. PICK k \in 0..off : /\ b = SubSeq(c, k + 1, off) /\ (k > 0 => c[k][2] = "tail")
                          /\ PairsOf(es) = GoodLines(p, SubSeq(c, 1, k))
  BY DEF ConsumedIn
<1>2. off <= Len(c) /\ Len(c) \in Nat /\ DOMAIN c = 1..Len(c) /\ k \in Nat
  BY <1>1 DEF ConsumedIn
<1>3. /\ n \in 1..Len(b) /\ b[n][2] = "tail" /\ \A j \in 1..Len(b) : j < n => b[j][2] = "head"
  BY NewlineIs
<1>4. l \in Seq(Piece) /\ Len(l) = n /\ \A i \in 1..n : l[i] = b[i]
  BY LineLeaves
<1>5. l = SubSeq(b, 1, n) /\ After(b) = SubSeq(b, n + 1, Len(b))
  BY DEF Line, After
<1> HIDE DEF n, l
<1>6. Len(b) = off - k /\ Len(b) \in Nat /\ \A i \in 1..Len(b) : b[i] = c[k + i]
  <2> DEFINE s == SubSeq(c, k + 1, off)
  <2>1. Len(s) = off - k /\ \A i \in 1..(off - k) : s[i] = c[k + i]
    BY <1>1, <1>2
  <2> HIDE DEF s
  <2> QED
    BY <1>1, <1>2, <2>1 DEF s
<1>7. n = 1 \/ (n = 2 /\ b[2] = <<b[1][1], "tail">> /\ b[1][2] = "head")
  <2> SUFFICES ASSUME n # 1 PROVE n = 2 /\ b[2] = <<b[1][1], "tail">> /\ b[1][2] = "head"
    OBVIOUS
  <2>1. b[1][2] = "head" /\ 1 \in 1..Len(b) /\ 2 \in 1..Len(b) /\ 1 < n
    BY <1>3, <1>6
  <2>2. b[1] = c[k + 1] /\ b[2] = c[k + 2]
    BY <1>6, <2>1
  <2>3. k + 1 \in DOMAIN c /\ k + 1 < Len(c) /\ (k + 1) + 1 = k + 2
    BY <1>2, <1>6, <2>1
  <2>4. c[k + 2] = <<c[k + 1][1], "tail">>
    BY <2>1, <2>2, <2>3 DEF Closes
  <2>5. b[2] = <<b[1][1], "tail">>
    BY <2>2, <2>4
  <2>6. b[2][2] = "tail"
    BY <2>5
  <2>7. ~(2 < n)
    BY <1>3, <2>1, <2>6
  <2> QED
    BY <1>3, <2>1, <2>5, <2>7
<1>8. /\ l \in Seq(Piece)
      /\ \/ Len(l) = 1
         \/ /\ Len(l) = 2 /\ l[1][1] = l[2][1] /\ l[1][2] = "head" /\ l[2][2] = "tail"
            /\ \E i \in DOMAIN c : c[i] = l[1]
  <2>1. CASE n = 1
    BY <1>4, <2>1
  <2>2. CASE n = 2 /\ b[2] = <<b[1][1], "tail">> /\ b[1][2] = "head"
    <3>1. l[1] = b[1] /\ l[2] = b[2]
      BY <1>4, <2>2
    <3>2. b[1] = c[k + 1] /\ b[2] = c[k + 2] /\ k + 1 \in DOMAIN c /\ k + 2 \in DOMAIN c
      BY <1>2, <1>3, <1>6, <2>2
    <3> QED
      BY <1>4, <2>2, <3>1, <3>2
  <2> QED
    BY <1>7, <2>1, <2>2
<1>9. ASSUME NEW es2, PairsOf(es2) = PairsOf(es) \o GoodLines(p, l) PROVE ConsumedIn(p, c, After(b), off, es2)
  <2> DEFINE m == k + n
             x == SubSeq(c, 1, k)
  <2>1. m \in 0..off /\ m > 0 /\ c[m][2] = "tail" /\ n \in Nat
    BY <1>2, <1>3, <1>6
  <2>2. l = SubSeq(c, k + 1, m)
    <3>1. SubSeq(c, k + 1, m) \in Seq(Piece) /\ Len(SubSeq(c, k + 1, m)) = n
          /\ \A i \in 1..n : SubSeq(c, k + 1, m)[i] = c[k + i]
      BY <1>2, <2>1
    <3>2. \A i \in 1..n : l[i] = c[k + i]
      BY <1>3, <1>4, <1>6
    <3> QED
      BY <1>4, <3>1, <3>2, SeqEqual
  <2>3. After(b) = SubSeq(c, m + 1, off)
    <3> DEFINE r == SubSeq(c, m + 1, off)
               a == SubSeq(b, n + 1, Len(b))
    <3>1. r \in Seq(Piece) /\ Len(r) = off - m /\ \A i \in 1..(off - m) : r[i] = c[m + i]
      BY <1>2, <2>1
    <3>2. a \in Seq(Piece) /\ Len(a) = Len(b) - n /\ \A i \in 1..(Len(b) - n) : a[i] = b[n + i]
      BY <1>3
    <3> HIDE DEF r, a
    <3>3. Len(a) = off - m /\ \A i \in 1..(off - m) : a[i] = c[m + i]
      <4>1. Len(b) - n = off - m
        BY <1>2, <1>6, <2>1
      <4>2. ASSUME NEW i \in 1..(off - m) PROVE a[i] = c[m + i]
        <5>1. n + i \in 1..Len(b) /\ k + (n + i) = m + i
          BY <1>2, <1>6, <2>1, <4>1
        <5> QED
          BY <1>6, <3>2, <4>1, <5>1
      <4> QED
        BY <3>2, <4>1, <4>2
    <3>4. a = r
      BY <3>1, <3>2, <3>3, SeqEqual
    <3> QED
      BY <1>5, <3>4 DEF a, r
  <2>4. x \o SubSeq(c, k + 1, m) = SubSeq(c, 1, m)
    <3>1. 1 \in 1..(Len(c) + 1) /\ k \in (1 - 1)..Len(c) /\ m \in k..Len(c)
      BY <1>2, <2>1
    <3> HIDE DEF m
    <3> QED
      BY <3>1, ConcatAdjacentSubSeq
  <2>5. x \in Seq(Piece) /\ Len(x) = k /\ (k > 0 => x[k] = c[k])
    BY <1>1, <1>2
  <2> HIDE DEF m, x
  <2>6. x = <<>> \/ x[Len(x)][2] = "tail"
    <3>1. CASE k = 0
      BY <2>5, <3>1
    <3>2. CASE k > 0
      BY <1>1, <2>5, <3>2
    <3> QED
      BY <1>2, <3>1, <3>2
  <2>7. GoodLines(p, x \o l) = GoodLines(p, x) \o GoodLines(p, l)
    BY <1>4, <2>5, <2>6, GoodJoin
  <2>8. PairsOf(es2) = GoodLines(p, SubSeq(c, 1, m))
    BY <1>1, <1>9, <2>2, <2>4, <2>7 DEF x
  <2> QED
    BY <1>2, <2>1, <2>3, <2>8 DEF ConsumedIn
<1> QED
  BY <1>8, <1>9 DEF l, NextLine

(* What a line is worth. *)
LEMMA LineWorth ==
    ASSUME NEW p \in Path, NEW l \in Seq(Piece)
    PROVE  /\ Len(l) = 1 => GoodLines(p, l) = <<>>
           /\ Len(l) = 2 /\ l[1][1] = l[2][1] /\ l[1][2] = "head" /\ l[2][2] = "tail" /\ l[1][1] \in 1..Len(Lines[p])
              => GoodLines(p, l) = IF Lines[p][l[1][1]] = "good" THEN <<LineOf(l[1][1], l[1][1])>> ELSE <<>>
<1> DEFINE T == GoodOf(p)
           PP == Piece \X Piece
           q == Neighbours(l)
<1>1. q \in Seq(PP)
  BY NeighboursAre
<1>2. GoodLines(p, l) = Only(q, T)
  BY GoodLinesAre
<1> HIDE DEF q, T, PP
<1>5. l # <<>> => Len(q) = Len(l) - 1 /\ \A i \in 1..(Len(l) - 1) : q[i] = <<l[i], l[i + 1]>>
  BY NeighboursAre DEF q
<1>6. Len(l) # 0 => l # <<>>
  OBVIOUS
<1>3. ASSUME Len(l) = 1 PROVE GoodLines(p, l) = <<>>
  <2>1. Len(q) = 0
    BY <1>3, <1>5, <1>6
  <2>2. q = <<>>
    BY <1>1, <2>1
  <2> QED
    BY <1>2, <2>2, OnlyEmpty
<1>4. ASSUME Len(l) = 2, l[1][1] = l[2][1], l[1][2] = "head", l[2][2] = "tail", l[1][1] \in 1..Len(Lines[p])
      PROVE  GoodLines(p, l) = IF Lines[p][l[1][1]] = "good" THEN <<LineOf(l[1][1], l[1][1])>> ELSE <<>>
  <2>1. l[1] \in Piece /\ l[2] \in Piece
    <3>1. 1 \in 1..Len(l) /\ 2 \in 1..Len(l)
      BY <1>4
    <3> QED
      BY <3>1, ElementOfSeq
  <2> DEFINE m == l[1][1]
             z == <<l[1], l[2]>>
             s == <<>>
  <2>2. l[1] = <<m, "head">> /\ l[2] = <<m, "tail">>
    BY <1>4, <2>1 DEF Piece
  <2>3. z = LineOf(m, m) /\ z \in PP
    BY <2>1, <2>2 DEF LineOf, PP
  <2>4. z \in T <=> Lines[p][m] = "good"
    BY <1>4, <2>3 DEF GoodOf, LineOf, T
  <2>5. q = Append(s, z) /\ s \in Seq(PP) /\ Only(s, T) = s
    <3>1. Len(q) = 1 /\ q[1] = z
      BY <1>4, <1>5, <1>6
    <3> HIDE DEF z
    <3>2. q = <<z>>
      BY <1>1, <3>1
    <3> QED
      BY <3>2, OnlyEmpty
  <2> HIDE DEF z, s, m
  <2>6. Only(q, T) = IF z \in T THEN Append(s, z) ELSE s
    BY <2>3, <2>5, OnlyAppend
  <2> QED
    BY <1>2, <2>3, <2>4, <2>6 DEF s, m
<1> QED
  BY <1>3, <1>4

----------------------------------------------------------------------------
(* When the content at p came to be: contents get their generation from the   *)
(* number of rotations, so an old offset is never taken for a new one.        *)
Era(p) == IF name[p] = 0 THEN rot ELSE disk[name[p]].gen
Dated == \A f \in 1..Len(disk) : disk[f].gen <= rot
Aged(p) ==
    /\ st[p].off > 0 => st[p].gen <= Era(p) /\ (name[p] = 0 => st[p].gen < rot)
    /\ Held(p) # 0 => /\ Held(p) # name[p] => disk[Held(p)].gen < Era(p)
                      /\ st[p].off > 0 => st[p].gen <= disk[Held(p)].gen

(* In the file at the path every head is followed by its tail, but for the    *)
(* one of the line that is being written.                                     *)
PairedIn(c, w, f) == /\ Closes(c)
                     /\ c # <<>> /\ c[Len(c)][2] = "head" => w.file = f /\ w.n = c[Len(c)][1]
Paired(p) == PairedIn(Content(p), wr[p], name[p])

Consumed(p) == Here(p) => ConsumedIn(p, Content(p), Pending(p), st[p].off, SentOf(p))

CInv == Dated /\ \A p \in Path : Aged(p) /\ Paired(p) /\ Consumed(p)

LEMMA GensAre ==
    ASSUME Shapes, NEW p \in Path
    PROVE  /\ \A f \in 1..Len(disk) : disk[f].gen \in Nat
           /\ rot \in Nat /\ Era(p) \in Nat /\ st[p].gen \in Nat /\ st[p].off \in Nat
           /\ Dated => Era(p) <= rot
<1>1. /\ disk \in Seq(File) /\ name[p] \in 0..Len(disk) /\ st[p] \in States /\ Len(disk) \in Nat
  BY ShapesAt
<1>2. \A f \in 1..Len(disk) : disk[f].gen \in Nat
  <2>1. \A f \in 1..Len(disk) : disk[f] \in File
    BY <1>1
  <2> QED
    BY <2>1, TailAssumption DEF File
<1>3. rot \in Nat
  BY TailAssumption DEF Shapes
<1>4. st[p].gen \in Nat /\ st[p].off \in Nat
  BY <1>1 DEF States
<1>5. Era(p) \in Nat
  BY <1>1, <1>2, <1>3 DEF Era
<1>6. Dated => Era(p) <= rot
  BY <1>1, <1>3 DEF Era, Dated
<1> QED
  BY <1>2, <1>3, <1>4, <1>5, <1>6

(* Nothing of it changes, but that time may go by. *)
LEMMA AgedStays ==
    ASSUME Shapes, NEW p \in Path, Aged(p), Held(p)' = Held(p), name'[p] = name[p],
           st'[p].off = st[p].off, st'[p].gen = st[p].gen, rot' \in Nat, rot <= rot',
           name[p] # 0 => disk'[name[p]].gen = disk[name[p]].gen,
           Held(p) # 0 => disk'[Held(p)].gen = disk[Held(p)].gen
    PROVE  Aged(p)'
<1>1. /\ rot \in Nat /\ Era(p) \in Nat /\ st[p].gen \in Nat /\ \A f \in 1..Len(disk) : disk[f].gen \in Nat
      /\ Held(p) \in 0..Len(disk) /\ Len(disk) \in Nat
  BY GensAre, TheirTypes
<1>2. Era(p)' = IF name[p] = 0 THEN rot' ELSE Era(p)
  BY DEF Era
<1>3. Era(p) <= Era(p)' /\ Era(p)' \in Nat
  BY <1>1, <1>2 DEF Era
<1>4. ASSUME st[p].off > 0 PROVE st[p].gen <= Era(p)' /\ (name[p] = 0 => st[p].gen < rot')
  BY <1>1, <1>3, <1>4 DEF Aged
<1>5. ASSUME Held(p) # 0
      PROVE  /\ Held(p) # name[p] => disk[Held(p)].gen < Era(p)'
             /\ st[p].off > 0 => st[p].gen <= disk[Held(p)].gen
  <2>1. disk[Held(p)].gen \in Nat
    BY <1>1, <1>5
  <2> QED
    BY <1>1, <1>3, <1>5, <2>1 DEF Aged
<1> QED
  BY <1>4, <1>5 DEF Aged

LEMMA ConsumedStays ==
    ASSUME NEW p \in Path, Consumed(p), Content(p)' = Content(p), Pending(p)' = Pending(p),
           st'[p].off = st[p].off, st'[p].gen = st[p].gen, name'[p] = name[p],
           name[p] # 0 => disk'[name[p]].gen = disk[name[p]].gen,
           SentOf(p)' = SentOf(p), tl'.at # "exited" => tl.at # "exited"
    PROVE  Consumed(p)'
<1>1. Here(p)' => Here(p)
  BY DEF Here
<1> QED
  BY <1>1 DEF Consumed

LEMMA SentStays ==
    ASSUME NEW p, Content(p)' = Content(p), emitted' = emitted
    PROVE  SentOf(p)' = SentOf(p)
  BY DEF SentOf

LEMMA PairedStays ==
    ASSUME NEW p, Content(p)' = Content(p), wr'[p] = wr[p], name'[p] = name[p], Paired(p)
    PROVE  Paired(p)'
  BY DEF Paired

----------------------------------------------------------------------------
(* A write. *)

LEMMA WriteDated ==
    ASSUME Shapes, Dated, NEW p \in Path, NEW f \in Nat, NEW x \in Piece, Wrote(p, f, x), Shapes'
    PROVE  Dated'
<1>1. /\ \A g \in 1..Len(disk) : g # f => disk'[g] = disk[g]
      /\ Len(disk') >= Len(disk) /\ f \in 1..Len(disk') /\ rot' = rot
      /\ IF f \in 1..Len(disk) THEN disk'[f].gen = disk[f].gen ELSE disk'[f].gen = rot
  BY DEF Wrote
<1> SUFFICES ASSUME NEW g \in 1..Len(disk') PROVE disk'[g].gen <= rot
  BY <1>1 DEF Dated
<1>2. rot \in Nat
  BY GensAre
<1>3. CASE g = f
  BY <1>1, <1>2, <1>3 DEF Dated
<1>4. CASE g # f
  <2>1. g \in 1..Len(disk)
    BY <1>4 DEF Wrote
  <2> QED
    BY <1>1, <1>4, <2>1 DEF Dated
<1> QED
  BY <1>3, <1>4

LEMMA WriteAged ==
    ASSUME Shapes, Tidy, Dated, NEW p \in Path, NEW f \in Nat, NEW x \in Piece, Wrote(p, f, x),
           NEW q \in Path, Aged(q)
    PROVE  Aged(q)'
<1>1. Held(q)' = Held(q) /\ st'[q] = st[q] /\ rot' = rot
  BY CollectorKeeps DEF Wrote
<1>2. /\ rot \in Nat /\ Held(q) \in 0..Len(disk) /\ name[q] \in 0..Len(disk) /\ Len(disk) \in Nat
  BY GensAre, TheirTypes
<1>3. CASE q # p
  <2>1. /\ name'[q] = name[q]
        /\ name[q] # 0 => disk'[name[q]] = disk[name[q]]
        /\ Held(q) # 0 => disk'[Held(q)] = disk[Held(q)]
    BY <1>3, WriteElsewhere
  <2> QED
    BY <1>1, <1>2, <2>1, AgedStays
<1>4. \A g \in 1..Len(disk) : disk'[g].gen = disk[g].gen
  BY DEF Wrote
<1>5. CASE q = p /\ name'[p] = name[p]
  <2>1. /\ name[q] # 0 => disk'[name[q]].gen = disk[name[q]].gen
        /\ Held(q) # 0 => disk'[Held(q)].gen = disk[Held(q)].gen
    BY <1>2, <1>4
  <2> QED
    BY <1>1, <1>2, <1>5, <2>1, AgedStays
<1>6. CASE q = p /\ name[p] = 0 /\ name'[p] = f /\ f = Len(disk) + 1
  <2>1. disk'[f].gen = rot /\ f # 0 /\ Held(p) # f
    BY <1>2, <1>6 DEF Wrote
  <2>2. Era(p) = rot /\ Era(p)' = rot
    BY <1>6, <2>1 DEF Era
  <2>3. Held(p) # 0 => disk'[Held(p)].gen = disk[Held(p)].gen
    BY <1>2, <1>4, <1>6
  <2>4. Held(p) # 0 => Held(p) # name[p]
    BY <1>6
  <2>5. name'[p] # 0
    BY <1>6, <2>1
  <2> QED
    BY <1>1, <1>6, <2>2, <2>3, <2>4, <2>5 DEF Aged
<1> QED
  BY <1>3, <1>5, <1>6 DEF Wrote

LEMMA WritePaired ==
    ASSUME Shapes, Tidy, NEW p \in Path, NEW f \in Nat, NEW x \in Piece, Wrote(p, f, x),
           NEW q \in Path, Paired(q)
    PROVE  Paired(q)'
<1>1. CASE q # p
  BY <1>1, WriteElsewhere, PairedStays
<1>2. CASE q = p
  <2> DEFINE c == Content(p)
             d == Content(p)'
             w == wr[p]
             v == wr'[p]
             g == name'[p]
  <2>1. (d = IF g = f THEN Append(c, x) ELSE c) /\ (g # f => c = <<>>) /\ f # 0
    BY WriteHere
  <2>2. c \in Seq(Piece) /\ name[p] \in Nat
    BY TheirTypes
  <2>3. /\ IF w.file = 0 THEN x[2] = "head" /\ v.file = f ELSE x[2] = "tail" /\ x[1] = w.n
        /\ v.n = x[1]
    BY DEF Wrote
  <2>4. PairedIn(c, w, name[p]) /\ (c # <<>> => name[p] # 0)
    BY <1>2 DEF Paired, Content
  <2> SUFFICES PairedIn(d, v, g)
    BY <1>2 DEF Paired
  <2> HIDE DEF c, d, w, v, g
  <2>5. CASE g # f
    BY <2>1, <2>5 DEF PairedIn, Closes
  <2>6. CASE g = f
    <3>1. /\ d = Append(c, x) /\ d # <<>> /\ Len(d) = Len(c) + 1 /\ Len(c) \in Nat /\ DOMAIN d = 1..Len(d) /\ DOMAIN c = 1..Len(c)
          /\ d[Len(c) + 1] = x /\ \A i \in 1..Len(c) : d[i] = c[i]
      BY <2>1, <2>2, <2>6
    <3>2. ASSUME NEW i \in DOMAIN d, d[i][2] = "head", i < Len(d) PROVE d[i + 1] = <<d[i][1], "tail">>
      <4>1. i \in DOMAIN c /\ d[i] = c[i]
        BY <3>1, <3>2
      <4>2. CASE i < Len(c)
        <5>1. c[i + 1] = <<c[i][1], "tail">> /\ d[i + 1] = c[i + 1]
          BY <2>4, <3>1, <3>2, <4>1, <4>2 DEF PairedIn, Closes
        <5> QED
          BY <4>1, <5>1
      <4>3. CASE i = Len(c)
        <5>1. c # <<>> /\ c[Len(c)][2] = "head"
          BY <2>2, <3>1, <3>2, <4>1, <4>3
        <5>2. w.file = name[p] /\ w.n = c[Len(c)][1] /\ name[p] # 0
          BY <2>4, <5>1 DEF PairedIn
        <5>3. x[2] = "tail" /\ x[1] = c[Len(c)][1]
          BY <2>3, <5>2
        <5>4. x = <<x[1], x[2]>>
          BY DEF Piece
        <5> QED
          BY <3>1, <4>1, <4>3, <5>3, <5>4
      <4> QED
        BY <3>1, <4>1, <4>2, <4>3
    <3>3. d[Len(d)] = x
      BY <3>1
    <3>4. x[2] = "head" => v.file = g /\ v.n = x[1]
      BY <2>3, <2>6
    <3> QED
      BY <3>2, <3>3, <3>4 DEF PairedIn, Closes
  <2> QED
    BY <2>5, <2>6
<1> QED
  BY <1>1, <1>2

(* What is written now was not emitted yet. *)
LEMMA NothingSentAhead ==
    ASSUME Shapes, NEW p \in Path, OrderedAt(p), LogOrdered, NEW m \in Nat, Top(p) < 2 * m + 1,
           NEW i \in DOMAIN emitted, emitted[i][1] = p
    PROVE  emitted[i][2] # m
<1>1. emitted[i] \in Path \X Nat \X Nat
  BY DEF Shapes
<1>2. emitted[i][2] \in Nat /\ emitted[i][3] \in Nat /\ emitted[i][2] <= emitted[i][3]
  BY <1>1 DEF LogOrdered
<1>3. 2 * emitted[i][3] + 1 \in Ends(p)
  BY DEF Ends
<1>4. 2 * emitted[i][3] + 1 <= Top(p) /\ Top(p) \in Nat
  BY <1>3, TheirTypes DEF OrderedAt, Ordered
<1> QED
  BY <1>2, <1>4

LEMMA WriteConsumed ==
    ASSUME Shapes, Tidy, Dated, LogOrdered, NEW p \in Path, NEW f \in Nat, NEW x \in Piece, Wrote(p, f, x),
           NEW q \in Path, OrderedAt(q), Aged(q), Consumed(q)
    PROVE  Consumed(q)'
<1>1. Held(q)' = Held(q) /\ st'[q] = st[q] /\ rot' = rot /\ Pending(q)' = Pending(q) /\ emitted' = emitted /\ tl' = tl
  BY CollectorKeeps DEF Wrote
<1>2. CASE q # p
  <2>1. /\ name'[q] = name[q]
        /\ name[q] # 0 => disk'[name[q]] = disk[name[q]]
    BY <1>2, WriteElsewhere
  <2>2. Content(q)' = Content(q)
    BY <1>2, WriteElsewhere
  <2>3. SentOf(q)' = SentOf(q)
    BY <1>1, <2>2, SentStays
  <2> QED
    BY <1>1, <2>1, <2>2, <2>3, ConsumedStays
<1>3. CASE q = p
  <2> SUFFICES ASSUME Here(p)'
               PROVE  ConsumedIn(p, Content(p)', Pending(p), st[p].off, SentOf(p)')
    BY <1>1, <1>3 DEF Consumed
  <2>1. name'[p] # 0 /\ st[p].off > 0 /\ st[p].gen = disk'[name'[p]].gen /\ tl.at # "exited"
    BY <1>1, <1>3 DEF Here
  <2>2. name[p] = f /\ name'[p] = f
    <3>1. CASE name[p] = 0 /\ name'[p] = f /\ f = Len(disk) + 1
      <4>1. disk'[f].gen = rot
        BY <3>1, TheirTypes DEF Wrote
      <4>2. st[p].gen < rot /\ rot \in Nat
        BY <1>3, <2>1, <3>1, GensAre DEF Aged
      <4> QED
        BY <2>1, <3>1, <4>1, <4>2
    <3> QED
      BY <2>1, <3>1 DEF Wrote
  <2>3. Here(p)
    <3>1. f \in 1..Len(disk)
      BY <2>1, <2>2, TheirTypes
    <3>2. disk'[f].gen = disk[f].gen
      BY <3>1 DEF Wrote
    <3> QED
      BY <2>1, <2>2, <3>2 DEF Here
  <2> DEFINE c == Content(p)
             b == Pending(p)
             off == st[p].off
             es == SentOf(p)
             S == Path \X Nat \X Nat
             T == {p} \X {c[i][1] : i \in DOMAIN c} \X Nat
             U == {p} \X {Append(c, x)[i][1] : i \in DOMAIN Append(c, x)} \X Nat
  <2>4. Content(p)' = Append(c, x) /\ c \in Seq(Piece) /\ off \in Nat /\ emitted \in Seq(S)
    BY <2>2, WriteHere, TheirTypes DEF Shapes
  <2>5. es = Only(emitted, T) /\ SentOf(p)' = Only(emitted, U)
    BY <1>1, <2>4 DEF SentOf
  <2>6. \A i \in DOMAIN emitted : emitted[i] \in T <=> emitted[i] \in U
    <3> TAKE i \in DOMAIN emitted
    <3>1. /\ DOMAIN Append(c, x) = 1..(Len(c) + 1) /\ DOMAIN c = 1..Len(c) /\ Len(c) \in Nat
          /\ Append(c, x)[Len(c) + 1] = x /\ \A k \in 1..Len(c) : Append(c, x)[k] = c[k]
      BY <2>4
    <3> DEFINE A == {c[k][1] : k \in DOMAIN c}
               B == {Append(c, x)[k][1] : k \in DOMAIN Append(c, x)}
    <3>2. B = A \cup {x[1]}
      <4> DEFINE d == Append(c, x)
      <4>1. /\ DOMAIN d = 1..(Len(c) + 1) /\ DOMAIN c = 1..Len(c) /\ Len(c) \in Nat
            /\ d[Len(c) + 1] = x /\ \A k \in 1..Len(c) : d[k] = c[k]
        BY <3>1
      <4> HIDE DEF d
      <4>2. \A k \in DOMAIN d : d[k][1] \in A \cup {x[1]}
        <5> TAKE k \in DOMAIN d
        <5>1. k = Len(c) + 1 \/ (k \in DOMAIN c /\ d[k] = c[k])
          BY <4>1
        <5> QED
          BY <4>1, <5>1
      <4>3. \A k \in DOMAIN c : k \in DOMAIN d /\ d[k] = c[k]
        BY <4>1
      <4>4. Len(c) + 1 \in DOMAIN d
        BY <4>1
      <4>5. {d[k][1] : k \in DOMAIN d} = A \cup {x[1]}
        BY <4>1, <4>2, <4>3, <4>4
      <4> QED
        BY <4>5 DEF d
    <3>3. emitted[i][1] = p => emitted[i][2] # x[1]
      <4>3. Top(p) < W(x)
        BY DEF Wrote
      <4>4. Top(p) \in Nat
        BY TheirTypes
      <4>5. x[1] \in Nat /\ W(x) <= 2 * x[1] + 1 /\ W(x) \in Nat
        <5> HIDE DEF c, b, off, es, S, T, U, A, B
        <5> QED
          BY DEF W, Piece
      <4>1. x[1] \in Nat /\ W(x) <= 2 * x[1] + 1 /\ W(x) \in Nat /\ Top(p) < W(x) /\ Top(p) \in Nat
        BY <4>3, <4>4, <4>5
      <4>2. Top(p) < 2 * x[1] + 1
        BY <4>1
      <4> QED
        BY <1>3, <4>1, <4>2, NothingSentAhead
    <3>4. emitted[i] \in S
      BY <2>4
    <3> HIDE DEF A, B
    <3>5. emitted[i] \in {p} \X A \X Nat <=> emitted[i] \in {p} \X B \X Nat
      BY <3>2, <3>3, <3>4
    <3> QED
      BY <3>5 DEF A, B
  <2>7. ConsumedIn(p, c, b, off, es)
    BY <1>3, <2>3 DEF Consumed
  <2> HIDE DEF c, b, off, es, S, T, U
  <2>8. Only(emitted, T) = Only(emitted, U)
    BY <2>4, <2>6, OnlySame
  <2>9. ConsumedIn(p, Append(c, x), b, off, es)
    BY <2>4, <2>7, ConsumedGrows
  <2> QED
    BY <2>4, <2>5, <2>8, <2>9 DEF b, off
<1> QED
  BY <1>2, <1>3

----------------------------------------------------------------------------
(* A truncation, or a removal. *)

LEMMA CutDated == ASSUME Shapes, Dated, NEW p \in Path, Cut(p) PROVE Dated'
<1>1. /\ rot \in Nat /\ \A f \in 1..Len(disk) : disk[f].gen \in Nat
      /\ name[p] \in 0..Len(disk) /\ Len(disk) \in Nat
  BY GensAre, TheirTypes
<1> SUFFICES ASSUME NEW f \in 1..Len(disk) PROVE disk'[f].gen <= rot + 1
  BY DEF Dated, Cut
<1>2. disk'[f] = disk[f] \/ disk'[f].gen = rot + 1
  BY DEF Cut
<1>3. disk[f].gen <= rot /\ disk[f].gen \in Nat
  BY <1>1 DEF Dated
<1> QED
  BY <1>1, <1>2, <1>3

LEMMA CutAged ==
    ASSUME Shapes, Tidy, Dated, NEW p \in Path, Cut(p), NEW q \in Path, Aged(q)
    PROVE  Aged(q)'
<1>1. Held(q)' = Held(q) /\ st'[q] = st[q] /\ rot' = rot + 1
  BY CollectorKeeps DEF Cut
<1>2. /\ rot \in Nat /\ Held(q) \in 0..Len(disk) /\ name[q] \in 0..Len(disk) /\ Len(disk) \in Nat
      /\ Era(q) \in Nat /\ Era(q) <= rot /\ st[q].gen \in Nat
      /\ \A f \in 1..Len(disk) : disk[f].gen \in Nat
  BY GensAre, TheirTypes
<1>3. CASE q # p
  <2>1. /\ name'[q] = name[q]
        /\ name[q] # 0 => disk'[name[q]].gen = disk[name[q]].gen
        /\ Held(q) # 0 => disk'[Held(q)].gen = disk[Held(q)].gen
    BY <1>3, CutElsewhere
  <2>2. rot' \in Nat /\ rot <= rot'
    BY <1>1, <1>2
  <2> QED
    BY <1>1, <2>1, <2>2, AgedStays
<1>4. ASSUME Held(q) # 0 PROVE disk[Held(q)].gen \in Nat /\ disk[Held(q)].gen <= rot
  BY <1>2, <1>4 DEF Dated
<1>5. CASE q = p /\ name'[p] = name[p] /\ disk'[name[p]].gen = rot + 1 /\ \A g \in 1..Len(disk) : g # name[p] => disk'[g] = disk[g]
  <2>1. Era(q)' = rot + 1 /\ name'[q] # 0
    BY <1>5 DEF Era, Cut
  <2>2. ASSUME st[q].off > 0 PROVE st[q].gen <= rot + 1
    BY <1>2, <2>2 DEF Aged
  <2>3. ASSUME Held(q) # 0, Held(q) # name[q] PROVE disk'[Held(q)].gen < rot + 1
    BY <1>2, <1>4, <1>5, <2>3
  <2>4. ASSUME Held(q) # 0, st[q].off > 0 PROVE st[q].gen <= disk'[Held(q)].gen
    <3>1. CASE Held(q) = name[q]
      BY <1>5, <2>2, <2>4, <3>1
    <3>2. CASE Held(q) # name[q]
      <4>1. disk'[Held(q)] = disk[Held(q)]
        BY <1>2, <1>5, <2>4, <3>2
      <4> QED
        BY <2>4, <4>1 DEF Aged
    <3> QED
      BY <3>1, <3>2
  <2> QED
    BY <1>1, <1>5, <2>1, <2>2, <2>3, <2>4 DEF Aged
<1>6. CASE q = p /\ name'[p] = 0 /\ disk' = disk
  <2>1. Era(q)' = rot + 1
    BY <1>1, <1>6 DEF Era
  <2>2. ASSUME st[q].off > 0 PROVE st[q].gen <= rot + 1 /\ st[q].gen < rot + 1
    BY <1>2, <2>2 DEF Aged
  <2>3. ASSUME Held(q) # 0 PROVE disk[Held(q)].gen < rot + 1
    BY <1>2, <1>4, <2>3
  <2>4. ASSUME Held(q) # 0, st[q].off > 0 PROVE st[q].gen <= disk[Held(q)].gen
    BY <2>4 DEF Aged
  <2> QED
    BY <1>1, <1>6, <2>1, <2>2, <2>3, <2>4 DEF Aged
<1> QED
  BY <1>3, <1>5, <1>6 DEF Cut

LEMMA CutPaired ==
    ASSUME Shapes, Tidy, NEW p \in Path, Cut(p), NEW q \in Path, Paired(q)
    PROVE  Paired(q)'
<1>1. CASE q # p
  BY <1>1, CutElsewhere, PairedStays
<1>2. CASE q = p
  <2>1. Content(q)' = <<>>
    BY <1>2, CutHere
  <2>2. DOMAIN <<>> = {}
    OBVIOUS
  <2> QED
    BY <2>1, <2>2 DEF Paired, PairedIn, Closes
<1> QED
  BY <1>1, <1>2

LEMMA CutConsumed ==
    ASSUME Shapes, Tidy, Dated, NEW p \in Path, Cut(p), NEW q \in Path, Aged(q), Consumed(q)
    PROVE  Consumed(q)'
<1>1. st'[q] = st[q] /\ Pending(q)' = Pending(q) /\ emitted' = emitted /\ tl' = tl
  BY CollectorKeeps DEF Cut
<1>2. CASE q # p
  <2>1. /\ name'[q] = name[q] /\ Content(q)' = Content(q)
        /\ name[q] # 0 => disk'[name[q]].gen = disk[name[q]].gen
    BY <1>2, CutElsewhere
  <2>2. SentOf(q)' = SentOf(q)
    BY <1>1, <2>1, SentStays
  <2> QED
    BY <1>1, <2>1, <2>2, ConsumedStays
<1>3. CASE q = p
  <2>1. rot \in Nat /\ Era(q) \in Nat /\ Era(q) <= rot /\ st[q].gen \in Nat
    BY GensAre
  <2>2. ~Here(q)'
    <3> SUFFICES ASSUME st[q].off > 0, name'[p] = name[p], disk'[name[p]].gen = rot + 1
                 PROVE  st[q].gen # rot + 1
      BY <1>1, <1>3 DEF Here, Cut
    <3>1. st[q].gen <= Era(q)
      BY DEF Aged
    <3> QED
      BY <2>1, <3>1
  <2> QED
    BY <2>2 DEF Consumed
<1> QED
  BY <1>2, <1>3

----------------------------------------------------------------------------
(* The goroutine. *)

(* Its path's turn has come, or not: its files, and what was sent, do not     *)
(* change.                                                                    *)
LEMMA QuietAged ==
    ASSUME Shapes, UNCHANGED <<disk, name, rot>>, NEW q \in Path, Aged(q), Held(q)' = Held(q),
           st'[q].off = st[q].off, st'[q].gen = st[q].gen
    PROVE  Aged(q)'
<1>1. rot \in Nat
  BY GensAre
<1>2. rot' \in Nat /\ rot <= rot' /\ name'[q] = name[q]
  BY <1>1
<1> QED
  BY <1>2, AgedStays

LEMMA QuietRest ==
    ASSUME Shapes, UNCHANGED <<disk, name, wr, rot>>, NEW q \in Path
    PROVE  /\ Content(q)' = Content(q)
           /\ Paired(q) => Paired(q)'
           /\ emitted' = emitted => SentOf(q)' = SentOf(q)
<1>1. Content(q)' = Content(q)
  BY DEF Content
<1>2. Paired(q) => Paired(q)'
  BY <1>1, PairedStays
<1>3. emitted' = emitted => SentOf(q)' = SentOf(q)
  BY <1>1, SentStays
<1> QED
  BY <1>1, <1>2, <1>3

LEMMA PauseConsumed ==
    ASSUME Shapes, Glob \/ EmitCancel \/ Tick \/ Exit \/ Take \/ Cancel \/ Stop \/ StopReturn \/ UNCHANGED vars,
           NEW q \in Path, Aged(q), Consumed(q)
    PROVE  Aged(q)' /\ Consumed(q)'
<1>1. /\ UNCHANGED <<disk, name, wr, rot, st, emitted>> /\ Held(q)' = Held(q)
      /\ tl'.at = "exited" \/ (Pending(q)' = Pending(q) /\ tl.at # "exited")
  BY PauseOrdered
<1>2. Aged(q)'
  BY <1>1, QuietAged
<1>3. CASE tl'.at = "exited"
  BY <1>2, <1>3 DEF Consumed, Here
<1>4. CASE Pending(q)' = Pending(q) /\ tl.at # "exited"
  <2>1. Content(q)' = Content(q) /\ SentOf(q)' = SentOf(q)
    BY <1>1, QuietRest
  <2>2. Consumed(q)'
    BY <1>1, <1>4, <2>1, ConsumedStays
  <2> QED
    BY <1>2, <2>2
<1> QED
  BY <1>1, <1>3, <1>4

(* Nothing of the other paths changes. *)
LEMMA NotTheirTurnConsumed ==
    ASSUME Shapes, UNCHANGED <<disk, name, wr, rot>>, NEW q \in Path, q # Cur, st'[q] = st[q], SentOf(q)' = SentOf(q),
           tl.at # "exited", tl'.at # "exited", tl'.at \in {"read", "emit"} => Cur' = Cur, Aged(q), Consumed(q)
    PROVE  Aged(q)' /\ Consumed(q)'
<1>1. Held(q)' = Held(q) /\ Pending(q)' = Pending(q)
  BY DEF Held, Pending
<1>2. Aged(q)'
  BY <1>1, QuietAged
<1>3. Content(q)' = Content(q)
  BY QuietRest
<1>4. Consumed(q)'
  BY <1>1, <1>3, ConsumedStays
<1> QED
  BY <1>2, <1>4

LEMMA OpenConsumed ==
    ASSUME Shapes, Open, NEW q \in Path, Aged(q), Consumed(q)
    PROVE  Aged(q)' /\ Consumed(q)'
<1>1. /\ Cur \in Path /\ UNCHANGED <<disk, name, wr, rot, emitted>>
      /\ tl.at = "open" /\ Held(Cur) = 0 /\ tl'.at \in {"open", "read"}
      /\ tl'.at = "read" => tl'.todo = tl.todo /\ Cur' = Cur /\ name[Cur] # 0 /\ tl'.file = name[Cur]
      /\ \A r \in Path : r # Cur => st'[r] = st[r]
      /\ \/ st' = st
         \/ /\ tl'.at = "read" /\ Len(Content(Cur)) < st[Cur].off
            /\ st'[Cur].off = 0 /\ st'[Cur].partial = <<>>
  BY OpenOpens
<1>2. Content(q)' = Content(q) /\ SentOf(q)' = SentOf(q)
  BY <1>1, QuietRest
<1>3. CASE q # Cur
  BY <1>1, <1>2, <1>3, NotTheirTurnConsumed
<1>4. CASE q = Cur
  <2>1. Held(q) = 0 /\ Held(q)' \in {0, name[q]} /\ name'[q] = name[q] /\ Era(q)' = Era(q)
    BY <1>1, <1>4 DEF Held, Era
  <2>2. CASE st' = st
    <3>1. Aged(q)'
      <4>1. Held(q)' # 0 => Era(q)' = disk'[Held(q)'].gen
        BY <1>1, <2>1 DEF Era
      <4>2. ASSUME st[q].off > 0 PROVE st[q].gen <= Era(q) /\ (name[q] = 0 => st[q].gen < rot)
        BY <4>2 DEF Aged
      <4>3. Held(q)' # 0 => Held(q)' = name'[q]
        BY <2>1
      <4> QED
        BY <1>1, <2>1, <2>2, <4>1, <4>2, <4>3 DEF Aged
    <3>2. Pending(q)' = Pending(q) /\ tl'.at # "exited" /\ tl.at # "exited"
      BY <1>1, <2>2 DEF Pending
    <3>3. Consumed(q)'
      BY <1>1, <1>2, <2>2, <3>2, ConsumedStays
    <3> QED
      BY <3>1, <3>3
  <2>3. CASE st'[Cur].off = 0
    <3>1. st'[q].off = 0 /\ ~(st'[q].off > 0)
      BY <1>4, <2>3
    <3>2. Held(q)' # 0 => Held(q)' = name'[q]
      BY <2>1
    <3> QED
      BY <3>1, <3>2 DEF Aged, Consumed, Here
  <2> QED
    BY <1>1, <2>2, <2>3
<1> QED
  BY <1>3, <1>4

LEMMA HoldConsumed ==
    ASSUME Shapes, Hold, NEW q \in Path, Aged(q), Consumed(q)
    PROVE  Aged(q)' /\ Consumed(q)'
<1>1. /\ Cur \in Path /\ UNCHANGED <<disk, name, wr, rot, emitted>>
      /\ tl.at = "emit" /\ tl'.at = "open"
      /\ \A r \in Path : r # Cur => st'[r] = st[r]
      /\ st'[Cur].off = st[Cur].off /\ st'[Cur].gen = st[Cur].gen
      /\ \A r \in Path : Pending(r)' = Pending(r)
  BY HoldHolds
<1>2. st'[q].off = st[q].off /\ st'[q].gen = st[q].gen /\ Held(q)' = Held(q) /\ Pending(q)' = Pending(q)
  BY <1>1 DEF Held
<1>3. Content(q)' = Content(q) /\ SentOf(q)' = SentOf(q)
  BY <1>1, QuietRest
<1>4. Aged(q)'
  BY <1>1, <1>2, QuietAged
<1>5. Consumed(q)'
  BY <1>1, <1>2, <1>3, ConsumedStays
<1> QED
  BY <1>4, <1>5

----------------------------------------------------------------------------
(* Of a content that is read from the start nothing was emitted. *)
LEMMA NothingSentYet ==
    ASSUME Shapes, LogOrdered, NEW p \in Path, OrderedAt(p), st[p].off = 0
    PROVE  SentOf(p) = <<>>
<1> DEFINE c == Content(p)
           S == Path \X Nat \X Nat
           T == {p} \X {c[i][1] : i \in DOMAIN c} \X Nat
<1>1. c \in Seq(Piece) /\ emitted \in Seq(S) /\ SentOf(p) = Only(emitted, T)
  BY TheirTypes DEF Shapes, SentOf
<1>2. Below(Ends(p), Ahead(c, 0))
  BY DEF OrderedAt, Ordered, Below
<1>3. ASSUME NEW i \in DOMAIN emitted PROVE emitted[i] \notin T
  <2> SUFFICES ASSUME NEW k \in DOMAIN c, emitted[i][1] = p, emitted[i][2] = c[k][1] PROVE FALSE
    OBVIOUS
  <2>1. emitted[i] \in S
    BY <1>1
  <2>2. emitted[i][2] \in Nat /\ emitted[i][3] \in Nat /\ emitted[i][2] <= emitted[i][3]
    BY <2>1 DEF LogOrdered
  <2>3. 2 * emitted[i][3] + 1 \in Ends(p)
    BY DEF Ends
  <2>4. k > 0 /\ c[k] \in Piece
    BY <1>1
  <2>5. W(c[k]) \in Ahead(c, 0)
    BY <2>4 DEF Ahead
  <2>6. 2 * emitted[i][3] + 1 < W(c[k])
    BY <1>2, <2>3, <2>5 DEF Below
  <2>7. W(c[k]) <= 2 * c[k][1] + 1 /\ c[k][1] \in Nat
    BY <2>4 DEF W, Piece
  <2>8. W(c[k]) \in Nat
    BY <2>4 DEF W, Piece
  <2> QED
    BY <2>2, <2>6, <2>7, <2>8
<1> HIDE DEF c, S, T
<1>4. Only(emitted, T) = <<>>
  BY <1>1, <1>3, OnlyNone
<1> QED
  BY <1>1, <1>4

LEMMA ReadConsumed ==
    ASSUME Shapes, Short, Dated, LogOrdered, Read, NEW q \in Path, OrderedAt(q), Aged(q), Consumed(q)
    PROVE  Aged(q)' /\ Consumed(q)'
<1>1. /\ Cur \in Path /\ UNCHANGED <<disk, name, wr, rot, emitted>>
      /\ tl.at = "read" /\ Held(Cur) = tl.file /\ tl.file \in 1..Len(disk)
      /\ Pending(Cur) = st[Cur].partial
      /\ tl'.at \in {"open", "emit"} /\ (tl'.at = "emit" => Cur' = Cur)
      /\ \A r \in Path : r # Cur => st'[r] = st[r]
      /\ st'[Cur].gen = IF st[Cur].off = 0 THEN disk[tl.file].gen ELSE st[Cur].gen
      /\ st'[Cur].partial = st[Cur].partial
      /\ \/ /\ st[Cur].off < Len(HeldData(Cur)) /\ st'[Cur].off = Len(HeldData(Cur)) /\ tl'.at = "emit"
            /\ tl'.buf = Pending(Cur) \o SubSeq(HeldData(Cur), st[Cur].off + 1, Len(HeldData(Cur)))
         \/ /\ Len(HeldData(Cur)) <= st[Cur].off /\ st'[Cur].off = st[Cur].off /\ tl'.at = "open"
  BY ReadReads
<1>2. Content(q)' = Content(q) /\ SentOf(q)' = SentOf(q)
  BY <1>1, QuietRest
<1>3. CASE q # Cur
  <2>1. tl'.at # "exited" /\ tl.at # "exited" /\ (tl'.at \in {"read", "emit"} => Cur' = Cur) /\ st'[q] = st[q]
    BY <1>1, <1>3
  <2> QED
    BY <1>1, <1>2, <1>3, <2>1, NotTheirTurnConsumed
<1>4. CASE q = Cur
  <2> DEFINE f == Held(q)
             off == st[q].off
             g == st[q].gen
             off2 == st'[q].off
             g2 == st'[q].gen
             c == Content(q)
             b == Pending(q)
             es == SentOf(q)
  <2>1. /\ \A k \in 1..Len(disk) : disk[k].gen \in Nat
        /\ rot \in Nat /\ Era(q) \in Nat /\ g \in Nat /\ off \in Nat /\ Era(q) <= rot
        /\ f \in 1..Len(disk) /\ c \in Seq(Piece) /\ b \in Seq(Piece) /\ Len(c) \in Nat
    BY <1>1, <1>4, GensAre, TheirTypes
  <2>2. disk[f].gen \in Nat /\ f # 0
    BY <2>1
  <2>3. g2 = IF off = 0 THEN disk[f].gen ELSE g
    BY <1>1, <1>4
  <2>4. /\ f # name[q] => disk[f].gen < Era(q)
        /\ off > 0 => g <= disk[f].gen /\ g <= Era(q) /\ (name[q] = 0 => g < rot)
    BY <2>2 DEF Aged
  <2>5. Held(q)' = 0 /\ name'[q] = name[q]
    BY <1>1 DEF Held
  <2>6. Era(q)' = Era(q) /\ (name[q] # 0 => Era(q) = disk[name[q]].gen) /\ (name[q] = 0 => Era(q) = rot)
    BY <1>1 DEF Era
  <2>7. Aged(q)'
    <3> HIDE DEF f, off, g, g2, off2
    <3>1. g2 <= Era(q) /\ (name[q] = 0 => g2 < rot)
      <4>1. CASE off = 0
        BY <2>1, <2>2, <2>3, <2>4, <2>6, <4>1
      <4>2. CASE off > 0
        BY <2>1, <2>3, <2>4, <4>2
      <4> QED
        BY <2>1, <4>1, <4>2
    <3> QED
      BY <1>1, <2>5, <2>6, <3>1 DEF Aged, g2
  <2>8. ASSUME Here(q)' PROVE ConsumedIn(q, c, Pending(q)', off2, es)
    <3>1. name[q] # 0 /\ off2 > 0 /\ g2 = disk[name[q]].gen
      BY <1>1, <2>8 DEF Here
    <3>2. f = name[q]
      <4> HIDE DEF f, off, g, g2, off2
      <4>1. g2 <= disk[f].gen
        BY <2>1, <2>2, <2>3, <2>4
      <4>2. g2 = Era(q)
        BY <2>6, <3>1
      <4> QED
        BY <2>1, <2>2, <2>4, <4>1, <4>2
    <3>3. HeldData(q) = c
      BY <2>2, <3>1, <3>2 DEF HeldData, Content
    <3>4. off > 0 => ConsumedIn(q, c, b, off, es)
      <4> SUFFICES ASSUME off > 0 PROVE Here(q)
        BY DEF Consumed
      <4>1. g2 = g
        BY <2>3
      <4> QED
        BY <1>1, <3>1, <4>1 DEF Here
    <3>5. CASE tl'.at = "open"
      <4>1. off2 = off /\ Pending(q)' = b
        BY <1>1, <1>4, <3>5 DEF Pending
      <4> QED
        BY <3>1, <3>4, <4>1
    <3>6. CASE tl'.at = "emit"
      <4>1. off < Len(c) /\ off2 = Len(c) /\ Pending(q)' = b \o SubSeq(c, off + 1, Len(c))
        BY <1>1, <1>4, <3>3, <3>6 DEF Pending
      <4>2. CASE off = 0
        <5>1. es = <<>>
          BY <4>2, NothingSentYet
        <5>2. b = <<>>
          <6>1. Len(b) <= 0
            BY <4>2 DEF Short
          <6> HIDE DEF b
          <6> QED
            BY <2>1, <6>1
        <5>3. ConsumedIn(q, c, SubSeq(c, 1, Len(c)), Len(c), <<>>)
          <6> HIDE DEF c
          <6> QED
            BY <2>1, ConsumedAnew
        <5>4. Pending(q)' = SubSeq(c, 1, Len(c))
          <6>1. off + 1 = 1
            BY <4>2
          <6>2. SubSeq(c, 1, Len(c)) \in Seq(Piece)
            <7> HIDE DEF c
            <7> QED
              BY <2>1
          <6> HIDE DEF c, b, off
          <6>3. <<>> \o SubSeq(c, 1, Len(c)) = SubSeq(c, 1, Len(c))
            BY <6>2, ConcatEmptySeq
          <6> QED
            BY <4>1, <5>2, <6>1, <6>3
        <5> HIDE DEF c, es, off2
        <5> QED
          BY <4>1, <5>1, <5>3, <5>4
      <4>3. CASE off > 0
        <5>1. ConsumedIn(q, c, b \o SubSeq(c, off + 1, Len(c)), Len(c), es)
          <6>1. ConsumedIn(q, c, b, off, es)
            BY <3>4, <4>3
          <6> HIDE DEF c, b, off, es
          <6> QED
            BY <2>1, <6>1, ConsumedReads
        <5> HIDE DEF c, b, off, es, off2
        <5> QED
          BY <4>1, <5>1
      <4> QED
        BY <2>1, <4>2, <4>3
    <3> QED
      BY <1>1, <3>5, <3>6
  <2>9. Consumed(q)'
    BY <1>2, <2>8 DEF Consumed
  <2> QED
    BY <2>7, <2>9
<1> QED
  BY <1>3, <1>4

----------------------------------------------------------------------------
LEMMA PairsType ==
    ASSUME NEW S, NEW es \in Seq(S)
    PROVE  \E U : PairsOf(es) \in Seq(U)
<1> DEFINE L(d) == LineOf(d[2], d[3])
           U == {L(d) : d \in S}
           x == PairsOf(es)
           n == Len(es)
<1>1. n \in Nat /\ DOMAIN es = 1..n /\ \A i \in 1..n : es[i] \in S
  OBVIOUS
<1>2. x = [i \in 1..n |-> L(es[i])]
  BY <1>1 DEF PairsOf
<1> HIDE DEF L, x, n
<1>3. x \in [1..n -> U]
  BY <1>1, <1>2
<1> HIDE DEF U
<1>4. x \in Seq(U)
  BY <1>1, <1>3
<1> QED
  BY <1>4 DEF x

(* A line in hand is one of the path's lines. *)
LEMMA LineIsWritten ==
    ASSUME Shapes, NEW p \in Path, OrderedAt(p), NEW i \in DOMAIN Content(p)
    PROVE  Content(p)[i] \in Piece /\ Content(p)[i][1] \in 1..Len(Lines[p])
<1> DEFINE c == Content(p)
           m == c[i][1]
<1>1. c \in Seq(Piece) /\ Top(p) \in Nat /\ wr[p].n \in Nat
  BY TheirTypes
<1>2. \A w \in Weights(c) : w <= Top(p)
  BY DEF OrderedAt, Ordered
<1> HIDE DEF c
<1>3. i \in DOMAIN c
  BY DEF c
<1>4. c[i] \in Piece
  BY <1>1, <1>3
<1>5. W(c[i]) \in Weights(c)
  BY <1>3 DEF Weights
<1>6. m \in Nat \ {0} /\ 2 * m <= W(c[i]) /\ W(c[i]) \in Nat
  BY <1>4 DEF W, Piece
<1>7. Top(p) <= 2 * wr[p].n + 1
  BY <1>1 DEF Top
<1>8. W(c[i]) <= Top(p)
  BY <1>2, <1>5
<1>9. wr[p].n <= Len(Lines[p]) /\ Len(Lines[p]) \in Nat
  BY PathsAre DEF Shapes
<1> HIDE DEF m
<1>10. m \in 1..Len(Lines[p])
  BY <1>1, <1>6, <1>7, <1>8, <1>9
<1> QED
  BY <1>4, <1>10 DEF c, m

LEMMA SplitConsumed ==
    ASSUME Shapes, Skip \/ Emit, NEW q \in Path, OrderedAt(q), Aged(q), Paired(q), Consumed(q)
    PROVE  Aged(q)' /\ Consumed(q)'
<1> DEFINE b == Pending(Cur)
           l == Line(b)
           c == Content(q)
           es == SentOf(q)
           off == st[q].off
           S == Path \X Nat \X Nat
           T == {q} \X {c[i][1] : i \in DOMAIN c} \X Nat
<1>1. /\ Cur \in Path /\ Cur' = Cur /\ UNCHANGED <<disk, name, wr, rot, st>>
      /\ tl.at = "emit" /\ tl'.at = "emit" /\ Newlines(b) # {}
      /\ q = Cur => Pending(q)' = After(b)
      /\ \/ emitted' = emitted /\ ~Decodes(l)
         \/ /\ emitted' = Append(emitted, Event(l)) /\ Len(l) = 2
            /\ Decodes(l) \/ Spliced(l)
  BY SplitSplits
<1>2. /\ c \in Seq(Piece) /\ emitted \in Seq(S) /\ b \in Seq(Piece) /\ off \in Nat
      /\ es = Only(emitted, T) /\ SentOf(q)' = Only(emitted', T) /\ Content(q)' = c
  <2>1. emitted \in Seq(S) /\ c \in Seq(Piece) /\ b \in Seq(Piece) /\ off \in Nat
    BY <1>1, TheirTypes DEF Shapes
  <2>2. Content(q)' = c
    BY <1>1, QuietRest
  <2> QED
    BY <2>1, <2>2 DEF SentOf
<1>3. Event(l) = <<Cur, l[1][1], l[2][1]>>
  BY DEF Event
<1>4. CASE q # Cur
  <2>1. SentOf(q)' = SentOf(q)
    <3>1. CASE emitted' = emitted
      BY <1>2, <3>1
    <3>2. CASE emitted' = Append(emitted, Event(l)) /\ Len(l) = 2
      <4> DEFINE e == Event(l)
      <4>1. e \in S
        <5>1. l \in Seq(Piece)
          BY <1>1, <1>2, LineLeaves
        <5> HIDE DEF l
        <5>2. l[1] \in Piece /\ l[2] \in Piece
          <6>1. 1 \in 1..Len(l) /\ 2 \in 1..Len(l)
            BY <3>2
          <6> QED
            BY <5>1, <6>1, ElementOfSeq
        <5> QED
          BY <1>1, <1>3, <5>2 DEF Piece
      <4>2. e \notin T
        BY <1>3, <1>4
      <4> HIDE DEF e, S, T
      <4>3. Only(Append(emitted, e), T) = Only(emitted, T)
        BY <1>2, <4>1, <4>2, OnlyAppend
      <4> QED
        BY <1>2, <3>2, <4>3 DEF e
    <3> QED
      BY <1>1, <3>1, <3>2
  <2>2. tl'.at # "exited" /\ tl.at # "exited" /\ st'[q] = st[q]
    BY <1>1
  <2> QED
    BY <1>1, <1>4, <2>1, <2>2, NotTheirTurnConsumed
<1>5. CASE q = Cur
  <2>1. Held(q)' = Held(q) /\ st'[q] = st[q]
    BY <1>1 DEF Held
  <2>2. Aged(q)'
    BY <1>1, <2>1, QuietAged
  <2>3. ASSUME Here(q)' PROVE ConsumedIn(q, c, After(b), off, SentOf(q)')
    <3>1. Here(q)
      BY <1>1, <2>3 DEF Here
    <3>2. ConsumedIn(q, c, b, off, es) /\ Closes(c)
      BY <1>5, <3>1 DEF Consumed, Paired, PairedIn
    <3>3. \A i \in DOMAIN c : c[i] \in Piece /\ c[i][1] \in 1..Len(Lines[q])
      BY LineIsWritten
    <3> HIDE DEF b, c, es, off
    <3>4. NextLine(q, c, off, es, l, After(b))
      BY <1>1, <1>2, <3>2, LineIs
    <3> HIDE DEF l
    <3>8. /\ l \in Seq(Piece)
          /\ \/ Len(l) = 1
             \/ /\ Len(l) = 2 /\ l[1][1] = l[2][1] /\ l[1][2] = "head" /\ l[2][2] = "tail"
                /\ \E i \in DOMAIN c : c[i] = l[1]
          /\ \A es2 : PairsOf(es2) = PairsOf(es) \o GoodLines(q, l) => ConsumedIn(q, c, After(b), off, es2)
      BY <3>4 DEF NextLine
    <3>5. PICK U : PairsOf(es) \in Seq(U)
      <4>1. es \in Seq(S \cap T)
        <5> HIDE DEF S, T
        <5> QED
          BY <1>2, OnlyType
      <4> HIDE DEF S, T
      <4> QED
        BY <4>1, PairsType
    <3>6. CASE emitted' = emitted /\ ~Decodes(l)
      <4>1. GoodLines(q, l) = <<>>
        <5>1. CASE Len(l) = 1
          BY <3>8, <5>1, LineWorth
        <5>2. CASE Len(l) = 2 /\ l[1][1] = l[2][1] /\ l[1][2] = "head" /\ l[2][2] = "tail" /\ \E i \in DOMAIN c : c[i] = l[1]
          <6>1. l[1][1] \in 1..Len(Lines[q])
            BY <3>3, <5>2
          <6>2. Lines[q][l[1][1]] # "good"
            BY <1>5, <3>6, <5>2 DEF Decodes, Whole
          <6> QED
            BY <3>8, <5>2, <6>1, <6>2, LineWorth
        <5> QED
          BY <3>8, <5>1, <5>2
      <4>2. PairsOf(es) \o <<>> = PairsOf(es)
        BY <3>5, ConcatEmptySeq
      <4>3. SentOf(q)' = es
        BY <1>2, <3>6
      <4> QED
        BY <3>8, <4>1, <4>2, <4>3
    <3>7. CASE emitted' = Append(emitted, Event(l)) /\ Len(l) = 2 /\ (Decodes(l) \/ Spliced(l))
      <4> DEFINE m == l[1][1]
                 e == Event(l)
                 z == LineOf(m, m)
      <4>1. /\ l[1][1] = l[2][1] /\ l[1][2] = "head" /\ l[2][2] = "tail"
            /\ \E i \in DOMAIN c : c[i] = l[1]
        BY <3>8, <3>7
      <4>2. m \in 1..Len(Lines[q]) /\ Len(Lines[q]) \in Nat
        BY <3>3, <4>1, PathsAre
      <4>3. Lines[q][m] = "good"
        BY <1>5, <3>7, <4>1 DEF Decodes, Spliced
      <4>4. GoodLines(q, l) = <<z>>
        BY <3>8, <3>7, <4>1, <4>2, <4>3, LineWorth
      <4>5. e = <<q, m, m>>
        BY <1>3, <1>5, <4>1
      <4>6. e \in S /\ e \in T
        <5>1. m \in {c[i][1] : i \in DOMAIN c} /\ m \in Nat
          BY <4>1, <4>2
        <5> QED
          BY <4>5, <5>1
      <4>7. LineOf(e[2], e[3]) = z
        BY <4>5
      <4>8. es \in Seq(S)
        <5> HIDE DEF S, T
        <5>1. es \in Seq(S \cap T)
          BY <1>2, OnlyType
        <5> QED
          BY <5>1
      <4> HIDE DEF e, z, S, T
      <4>9. SentOf(q)' = Append(es, e)
        <5>1. Only(Append(emitted, e), T) = Append(Only(emitted, T), e)
          BY <1>2, <4>6, OnlyAppend
        <5> QED
          BY <1>2, <3>7, <5>1 DEF e
      <4>10. PairsOf(Append(es, e)) = Append(PairsOf(es), z)
        BY <4>6, <4>7, <4>8, PairsGrow
      <4>11. Append(PairsOf(es), z) = PairsOf(es) \o <<z>>
        <5> DEFINE x == PairsOf(es)
        <5>1. x \in Seq(U)
          BY <3>5
        <5> HIDE DEF x
        <5>2. Append(x, z) = x \o <<z>>
          BY <5>1
        <5> QED
          BY <5>2 DEF x
      <4>12. PairsOf(SentOf(q)') = PairsOf(es) \o GoodLines(q, l)
        BY <4>4, <4>9, <4>10, <4>11
      <4> QED
        BY <3>8, <4>12
    <3> QED
      BY <1>1, <3>6, <3>7
  <2>4. Consumed(q)'
    <3>1. Here(q)' => ConsumedIn(q, Content(q)', Pending(q)', st'[q].off, SentOf(q)')
      BY <1>1, <1>2, <1>5, <2>3
    <3> QED
      BY <3>1 DEF Consumed
  <2> QED
    BY <2>2, <2>4
<1> QED
  BY <1>4, <1>5

----------------------------------------------------------------------------
LEMMA FirstLinesClose ==
    ASSUME NEW k \in Nat, NEW c, c = FirstLines(k)
    PROVE  Closes(c) /\ (c # <<>> => c[Len(c)][2] = "tail")
<1>1. c \in Seq(Piece) /\ Len(c) = 2 * k /\ \A i \in 1..(2 * k) : W(c[i]) = i + 1
  BY FirstLinesAre
<1>2. ASSUME NEW i \in 1..(2 * k)
      PROVE  \/ c[i][2] = "head" /\ c[i] = <<c[i][1], "head">> /\ i + 1 = 2 * c[i][1]
             \/ c[i][2] = "tail" /\ c[i] = <<c[i][1], "tail">> /\ i = 2 * c[i][1]
  <2>1. c[i] \in Piece /\ W(c[i]) = i + 1
    BY <1>1
  <2>2. c[i][1] \in Nat /\ c[i][2] \in {"head", "tail"} /\ c[i] = <<c[i][1], c[i][2]>>
    BY <2>1 DEF Piece
  <2> QED
    BY <2>1, <2>2 DEF W
<1>3. \A i \in 1..(2 * k) : c[i][1] \in Nat
  <2> TAKE i \in 1..(2 * k)
  <2>1. c[i] \in Piece
    BY <1>1
  <2> QED
    BY <2>1 DEF Piece
<1>4. ASSUME NEW i \in DOMAIN c, c[i][2] = "head", i < Len(c) PROVE c[i + 1] = <<c[i][1], "tail">>
  <2>1. i \in 1..(2 * k) /\ i + 1 \in 1..(2 * k)
    BY <1>1, <1>4
  <2>2. i + 1 = 2 * c[i][1] /\ c[i][1] \in Nat /\ c[i + 1][1] \in Nat
    BY <1>2, <1>3, <1>4, <2>1
  <2>3. ~(i + 2 = 2 * c[i + 1][1])
    <3> DEFINE m == c[i][1]
               n == c[i + 1][1]
    <3>1. m \in Nat /\ n \in Nat /\ i + 1 = 2 * m /\ i \in Nat
      BY <2>1, <2>2
    <3> HIDE DEF m, n
    <3>2. ~(i + 2 = 2 * n)
      BY <3>1
    <3> QED
      BY <3>2 DEF n
  <2>4. (i + 1) + 1 = i + 2
    BY <2>1
  <2>5. c[i + 1] = <<c[i + 1][1], "tail">> /\ i + 1 = 2 * c[i + 1][1]
    BY <1>2, <2>1, <2>3, <2>4
  <2>6. c[i + 1][1] = c[i][1]
    BY <2>2, <2>5
  <2> QED
    BY <2>5, <2>6
<1>5. ASSUME c # <<>> PROVE c[Len(c)][2] = "tail"
  <2>1. 2 * k \in 1..(2 * k) /\ Len(c) = 2 * k
    BY <1>1, <1>5
  <2>2. ~((2 * k) + 1 = 2 * c[2 * k][1])
    <3> DEFINE m == c[2 * k][1]
    <3>1. m \in Nat
      BY <1>3, <2>1
    <3> HIDE DEF m
    <3>2. ~((2 * k) + 1 = 2 * m)
      BY <3>1
    <3> QED
      BY <3>2 DEF m
  <2> QED
    BY <1>2, <2>1, <2>2
<1> QED
  BY <1>4, <1>5 DEF Closes

LEMMA InitConsumed == Init => CInv
<1> SUFFICES ASSUME Init PROVE CInv
  OBVIOUS
<1>1. Len(Lines) \in Nat /\ Path = 1..Len(Lines)
  BY TailAssumption DEF Path
<1>2. Dated
  <2>1. disk = [p \in Path |-> [gen |-> 0, data |-> FirstLines(Existing[p])]] /\ rot = 0
    BY DEF Init
  <2>2. Len(disk) = Len(Lines)
    BY <1>1, <2>1
  <2>3. \A f \in 1..Len(disk) : disk[f].gen = 0
    BY <1>1, <2>1, <2>2
  <2> QED
    BY <2>1, <2>3 DEF Dated
<1>3. ASSUME NEW p \in Path PROVE Aged(p) /\ Paired(p) /\ Consumed(p)
  <2>1. /\ tl.at = "glob" /\ st[p].off = 0 /\ name[p] \in {p, 0} /\ disk[p].data = FirstLines(Existing[p])
        /\ Existing[p] \in Nat
    BY PathsAre, TailAssumption DEF Init, Path
  <2>2. Held(p) = 0 /\ ~(st[p].off > 0)
    BY <2>1 DEF Held
  <2>3. Aged(p) /\ Consumed(p)
    BY <2>2 DEF Aged, Consumed, Here
  <2>4. Content(p) = <<>> \/ Content(p) = FirstLines(Existing[p])
    BY <2>1 DEF Content
  <2>5. Paired(p)
    <3> DEFINE c == Content(p)
    <3>1. CASE c = <<>>
      <4>1. DOMAIN <<>> = {}
        OBVIOUS
      <4> QED
        BY <3>1, <4>1 DEF Paired, PairedIn, Closes
    <3>2. CASE c = FirstLines(Existing[p])
      <4>1. Closes(c) /\ (c # <<>> => c[Len(c)][2] = "tail")
        <5> HIDE DEF c
        <5> QED
          BY <2>1, <3>2, FirstLinesClose
      <4> QED
        BY <4>1 DEF Paired, PairedIn
    <3> QED
      BY <2>4, <3>1, <3>2
  <2> QED
    BY <2>3, <2>5
<1> QED
  BY <1>2, <1>3 DEF CInv

LEMMA StepConsumed == ASSUME IInv, IInv', CInv, [Next]_vars PROVE CInv'
<1>1. Shapes /\ Shapes' /\ Tidy /\ Short /\ LogOrdered /\ \A p \in Path : OrderedAt(p)
  BY DEF IInv
<1>2. Dated /\ \A p \in Path : Aged(p) /\ Paired(p) /\ Consumed(p)
  BY DEF CInv
<1>3. ASSUME NEW p \in Path, WriteHead(p) \/ WriteTail(p) PROVE CInv'
  <2>1. PICK f \in Nat, x \in Piece : Wrote(p, f, x)
    BY <1>1, <1>3, WriteWrites
  <2>2. Dated'
    BY <1>1, <1>2, <2>1, WriteDated
  <2>3. ASSUME NEW q \in Path PROVE Aged(q)' /\ Paired(q)' /\ Consumed(q)'
    <3>1. Aged(q)'
      BY <1>1, <1>2, <2>1, WriteAged
    <3>2. Paired(q)'
      BY <1>1, <1>2, <2>1, WritePaired
    <3>3. Consumed(q)'
      BY <1>1, <1>2, <2>1, WriteConsumed
    <3> QED
      BY <3>1, <3>2, <3>3
  <2> QED
    BY <2>2, <2>3 DEF CInv
<1>4. ASSUME NEW p \in Path, Truncate(p) \/ Unlink(p) PROVE CInv'
  <2>1. Cut(p)
    BY <1>1, <1>4, CutCuts
  <2>2. Dated'
    BY <1>1, <1>2, <2>1, CutDated
  <2>3. ASSUME NEW q \in Path PROVE Aged(q)' /\ Paired(q)' /\ Consumed(q)'
    <3>1. Aged(q)'
      BY <1>1, <1>2, <2>1, CutAged
    <3>2. Paired(q)'
      BY <1>1, <1>2, <2>1, CutPaired
    <3>3. Consumed(q)'
      BY <1>1, <1>2, <2>1, CutConsumed
    <3> QED
      BY <3>1, <3>2, <3>3
  <2> QED
    BY <2>2, <2>3 DEF CInv
<1>5. ASSUME TailStep \/ Take \/ Cancel \/ Stop \/ StopReturn \/ UNCHANGED vars PROVE CInv'
  <2>1. UNCHANGED <<disk, name, wr, rot>>
    BY <1>5 DEF TailStep, Glob, Open, OpenAs, Read, Skip, Emit, Put, EmitCancel, Hold, Tick, Exit, Take,
                Cancel, Stop, StopReturn, vars, files
  <2>2. Dated'
    BY <1>2, <2>1 DEF Dated
  <2>4. ASSUME NEW q \in Path PROVE Paired(q)'
    BY <1>1, <1>2, <2>1, QuietRest
  <2>3. ASSUME NEW q \in Path PROVE Aged(q)' /\ Consumed(q)'
    <3>1. CASE Glob \/ EmitCancel \/ Tick \/ Exit \/ Take \/ Cancel \/ Stop \/ StopReturn \/ UNCHANGED vars
      BY <1>1, <1>2, <3>1, PauseConsumed
    <3>2. CASE Open
      BY <1>1, <1>2, <3>2, OpenConsumed
    <3>3. CASE Read
      BY <1>1, <1>2, <3>3, ReadConsumed
    <3>4. CASE Skip \/ Emit
      BY <1>1, <1>2, <3>4, SplitConsumed
    <3>5. CASE Hold
      BY <1>1, <1>2, <3>5, HoldConsumed
    <3> QED
      BY <1>5, <3>1, <3>2, <3>3, <3>4, <3>5 DEF TailStep
  <2> QED
    BY <2>2, <2>3, <2>4 DEF CInv
<1> QED
  BY <1>3, <1>4, <1>5 DEF Next

(* In the content at a path every line's pieces stand together, an offset is  *)
(* only taken for that of the content it was counted in, and what was read of *)
(* that is what was emitted and what is in hand (tail.go:79-120).             *)
THEOREM ContentInvariant == Spec => []CInv
<1> QED
  BY InitHolds, StepKeeps, InitConsumed, StepConsumed, PTL DEF Spec

(* While the offset belongs to the file that is there, every good line up to  *)
(* it was emitted or is in hand, and no line was made of pieces of two, for   *)
(* any files, any number of rotations and any capacity (tail.go:17-20,        *)
(* 95-118).                                                                   *)
THEOREM NothingReadIsLost == Spec => []ConsumedIsEmitted
<1>1. IInv /\ CInv => ConsumedIsEmitted
  <2> SUFFICES ASSUME IInv, CInv, NEW p \in Path, Here(p)
               PROVE  PairsOf(SentOf(p)) \o GoodLines(p, Pending(p)) = GoodLines(p, SubSeq(Content(p), 1, st[p].off))
    BY DEF ConsumedIsEmitted, PairsOf
  <2>1. ConsumedIn(p, Content(p), Pending(p), st[p].off, SentOf(p))
    BY DEF CInv, Consumed
  <2>2. Content(p) \in Seq(Piece) /\ st[p].off \in Nat
    BY TheirTypes DEF IInv
  <2>3. Accounted(p, Content(p), Pending(p), st[p].off, SentOf(p))
    BY <2>1, <2>2, ConsumedAll
  <2> QED
    BY <2>3 DEF Accounted
<1> QED
  BY <1>1, Invariant, ContentInvariant, PTL
=============================================================================
