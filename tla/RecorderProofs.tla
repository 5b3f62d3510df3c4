---------------------------- MODULE RecorderProofs ----------------------------
(* Whatever the size of PyTorch's ring, however many collectives are launched *)
(* and whichever of them cannot be read or converted: the recorder keeps one  *)
(* copy of what it marked as seen, and its last flush leaves nothing behind   *)
(* that neither the thread nor an exception cost it.                          *)
EXTENDS Recorder, FlowLemmas, TLAPS

Keys == 1..MaxLaunched
Queue == Seq(Keys)
Spots == {"wait", "run", "join", "dump", "convert", "mark", "ended", "dead", "returned", "raised"}

Shapes ==
    /\ launched \in 0..MaxLaunched /\ completed \subseteq 1..launched
    /\ stopSet \in BOOLEAN /\ overtaken \in BOOLEAN
    /\ pc \in [Pollers -> Spots] /\ key \in [Pollers -> Keys \cup {NoKey}]
    /\ dump \in [Pollers -> Queue] /\ out \in [Pollers -> Queue] /\ file \in Queue
    /\ failed \in [Pollers -> SUBSET Keys]
    /\ seen \subseteq completed /\ last \subseteq completed /\ unreached \subseteq last

(* Where the pollers are, and what they have in hand there. *)
PlaceInv ==
    /\ pc[Thread] \in {"wait", "dump", "convert", "mark", "ended", "dead"}
    /\ pc[Main] \in {"run", "join", "dump", "convert", "mark", "returned", "raised"}
    /\ stopSet = (pc[Main] # "run")
HandInv ==
    \A p \in Pollers :
        /\ pc[p] = "mark" <=> key[p] # NoKey
        /\ key[p] # NoKey => key[p] \in completed
        /\ pc[p] \notin {"convert", "mark"} => dump[p] = <<>> /\ out[p] = <<>>
        /\ Range(dump[p]) \subseteq completed

(* What was marked is somewhere. *)
KeptInv ==
    seen = Range(file) \cup Range(out[Thread]) \cup Range(out[Main])
               \cup failed[Thread] \cup failed[Main]

(* Until stop overtakes it, the thread is done when Main polls: whoever has   *)
(* found a key unmarked is the one that marks it.                            *)
AloneInv == ~overtaken => pc[Main] \in {"run", "join"} \/ ~Alive
OnceInv ==
    ~overtaken =>
        /\ \A p \in Pollers : key[p] \notin seen
        /\ \A k \in Keys : /\ Copies(k) <= 1
                           /\ k \in failed[Thread] \cup failed[Main] => Copies(k) = 0

(* What the ring showed at Main's dump is marked, or still to be looked at,   *)
(* or an exception kept the poll from it; and without such an exception       *)
(* nothing is lost to Main.                                                   *)
Excused ==
    failed[Main] \cup unreached # {} =>
        \/ unreached = last /\ failed[Main] = {}
        \/ \E k \in last : k \in Unreadable \/ k \in Bad \cap failed[Main]
FlushInv ==
    /\ pc[Main] \in {"run", "join", "dump"} => last = {} /\ failed[Main] = {} /\ unreached = {}
    /\ pc[Main] \in {"convert", "mark"} =>
           /\ Range(dump[Main]) \subseteq last /\ key[Main] \in last \cup {NoKey}
           /\ last \subseteq Range(dump[Main]) \cup {key[Main]} \cup seen \cup unreached
    /\ pc[Main] = "returned" => last \subseteq seen \cup unreached
    /\ pc[Main] # "raised" => Excused

IInv == Shapes /\ PlaceInv /\ HandInv /\ KeptInv /\ AloneInv /\ OnceInv /\ FlushInv

----------------------------------------------------------------------------

LEMMA Constants ==
    /\ Thread # Main /\ RingCap \in Nat /\ MaxLaunched \in Nat /\ NoKey \notin Keys
    /\ Thread \in Pollers /\ Main \in Pollers
  BY RecorderAssumption DEF Keys, Pollers

LEMMA TwoPollers == ASSUME NEW p \in Pollers PROVE \E o \in Pollers : o # p /\ Pollers = {p, o}
  BY Constants DEF Pollers

LEMMA CompletedAreKeys == ASSUME Shapes PROVE completed \subseteq Keys
  BY Constants DEF Shapes, Keys

(* The shapes, poller by poller. *)
LEMMA Parts ==
    ASSUME Shapes, NEW p \in Pollers
    PROVE  /\ pc[p] \in Spots /\ key[p] \in Keys \cup {NoKey}
           /\ dump[p] \in Seq(Keys) /\ out[p] \in Seq(Keys) /\ file \in Seq(Keys)
           /\ failed[p] \in SUBSET Keys
  BY DEF Shapes, Queue

(* The copies of a collective, and what was marked, from one poller's side. *)
LEMMA CopiesOf ==
    ASSUME Shapes, NEW p \in Pollers, NEW o \in Pollers, o # p, NEW k
    PROVE  /\ Copies(k) = Times(file, k) + Times(out[p], k) + Times(out[o], k)
           /\ Times(file, k) \in Nat /\ Times(out[p], k) \in Nat /\ Times(out[o], k) \in Nat
<1>1. file \in Seq(Keys) /\ out[Thread] \in Seq(Keys) /\ out[Main] \in Seq(Keys)
  BY Constants, Parts
<1> DEFINE a == file
           b == out[Thread]
           c == out[Main]
<1>2. Copies(k) = Times(a \o b \o c, k)
  BY DEF Copies, Times
<1> HIDE DEF a, b, c
<1>3. a \in Seq(Keys) /\ b \in Seq(Keys) /\ c \in Seq(Keys) /\ a \o b \in Seq(Keys)
  BY <1>1, ConcatProperties DEF a, b, c
<1>4. Times(a \o b \o c, k) = Times(a \o b, k) + Times(c, k)
  BY <1>3, TimesConcat
<1>5. Times(a \o b, k) = Times(a, k) + Times(b, k)
  BY <1>3, TimesConcat
<1>6. Times(a, k) \in Nat /\ Times(b, k) \in Nat /\ Times(c, k) \in Nat
  BY <1>3, TimesRange
<1>7. (p = Thread /\ o = Main) \/ (p = Main /\ o = Thread)
  BY DEF Pollers
<1> QED
  BY <1>2, <1>4, <1>5, <1>6, <1>7 DEF a, b, c

LEMMA CopiesNext ==
    ASSUME Shapes', NEW p \in Pollers, NEW o \in Pollers, o # p
    PROVE  \A k : Copies(k)' = Times(file', k) + Times(out'[p], k) + Times(out'[o], k)
<1> SUFFICES ASSUME NEW k
             PROVE  Copies(k)' = Times(file', k) + Times(out'[p], k) + Times(out'[o], k)
  OBVIOUS
<1> DEFINE a == file'
           b == out'[Thread]
           c == out'[Main]
<1>1. a \in Seq(Keys) /\ b \in Seq(Keys) /\ c \in Seq(Keys)
  BY Constants DEF Shapes, Queue, Pollers, Keys
<1>2. Copies(k)' = Times(a \o b \o c, k)
  BY DEF Copies, Times
<1> HIDE DEF a, b, c
<1>3. a \o b \in Seq(Keys)
  BY <1>1, ConcatProperties
<1>4. Times(a \o b \o c, k) = Times(a \o b, k) + Times(c, k)
  BY <1>1, <1>3, TimesConcat
<1>5. Times(a \o b, k) = Times(a, k) + Times(b, k)
  BY <1>1, TimesConcat
<1>6. Times(a, k) \in Nat /\ Times(b, k) \in Nat /\ Times(c, k) \in Nat
  BY <1>1, TimesRange
<1>7. (p = Thread /\ o = Main) \/ (p = Main /\ o = Thread)
  BY DEF Pollers
<1> QED
  BY <1>2, <1>4, <1>5, <1>6, <1>7 DEF a, b, c

LEMMA KeptOf ==
    ASSUME NEW p \in Pollers, NEW o \in Pollers, o # p
    PROVE  KeptInv <=> seen = Range(file) \cup Range(out[p]) \cup Range(out[o])
                                  \cup failed[p] \cup failed[o]
  BY DEF KeptInv, Pollers

(* While nobody is overtaken, one poller at a time has anything in hand. *)
LEMMA OneAtATime ==
    ASSUME IInv, ~overtaken, NEW p \in Pollers, NEW o \in Pollers, o # p,
           pc[p] \in {"dump", "convert", "mark"}
    PROVE  pc[o] \notin {"dump", "convert", "mark"} /\ key[o] = NoKey /\ out[o] = <<>>
<1>1. pc[o] \notin {"dump", "convert", "mark"}
  BY DEF Pollers, IInv, AloneInv, PlaceInv, Alive
<1> QED
  BY <1>1 DEF IInv, HandInv

(* What a dump shows has completed. *)
LEMMA RingHolds ==
    ASSUME Shapes
    PROVE  InRing \in Queue /\ Range(InRing) \subseteq completed
<1> DEFINE all == [k \in 1..launched |-> k]
           T == completed \ (1..(launched - RingCap))
<1>1. launched \in Nat /\ launched <= MaxLaunched /\ MaxLaunched \in Nat
  BY Constants DEF Shapes
<1>2. all \in Seq(Keys)
  BY <1>1 DEF Keys
<1> HIDE DEF all, T
<1>3. Only(all, T) \in Seq(Keys \cap T)
  BY <1>2, OnlyType
<1>4. Range(Only(all, T)) \in SUBSET (Keys \cap T)
  BY <1>3, RangeOfSeq
<1>5. Only(all, T) \in Seq(Keys)
  BY <1>3, SeqMonotonic
<1>6. InRing = Only(all, T)
  BY DEF InRing, all, T
<1>7. T \subseteq completed
  BY DEF T
<1> QED
  BY <1>4, <1>5, <1>6, <1>7 DEF Queue

(* What a poller's step leaves alone. *)
LEMMA Around ==
    ASSUME Shapes, NEW p \in Pollers, Poll(p)
    PROVE  /\ UNCHANGED <<launched, completed, stopSet, overtaken>>
           /\ \A o \in Pollers :
                  o # p => /\ pc'[o] = pc[o] /\ dump'[o] = dump[o] /\ out'[o] = out[o]
                           /\ key'[o] = key[o] /\ failed'[o] = failed[o]
           /\ p # Main => last' = last /\ unreached' = unreached
           /\ pc[p] \in {"dump", "convert", "mark"}
<1>1. /\ pc \in [Pollers -> Spots] /\ dump \in [Pollers -> Queue] /\ out \in [Pollers -> Queue]
      /\ key \in [Pollers -> Keys \cup {NoKey}] /\ failed \in [Pollers -> SUBSET Keys]
  BY DEF Shapes
<1>2. CASE Dump(p, InRing) \/ Dump(p, <<>>)
  BY <1>1, <1>2 DEF Dump, Unreached, GoTo, jobVars
<1>3. CASE Look(p) \/ LookRaises(p)
  BY <1>1, <1>3 DEF Look, LookRaises, Unreached, GoTo, jobVars
<1>4. CASE Mark(p) \/ MarkRaises(p)
  BY <1>1, <1>4 DEF Mark, MarkRaises, Unreached, GoTo, jobVars
<1>5. CASE Write(p)
  BY <1>1, <1>5 DEF Write, GoTo, jobVars
<1>6. CASE \E n \in 0..RingCap : WriteFails(p, n)
  BY <1>1, <1>6 DEF WriteFails, GoTo, jobVars
<1> QED
  BY <1>2, <1>3, <1>4, <1>5, <1>6 DEF Poll

(* A step of a poller: its own part of the invariant is what is to be shown. *)
LEMMA OwnPart ==
    ASSUME IInv, NEW p \in Pollers, Poll(p), Shapes', KeptInv', OnceInv',
           pc'[p] = "mark" <=> key'[p] # NoKey, key'[p] # NoKey => key'[p] \in completed,
           pc'[p] \notin {"convert", "mark"} => dump'[p] = <<>> /\ out'[p] = <<>>,
           Range(dump'[p]) \subseteq completed,
           pc'[p] \in {"convert", "mark", Done(p), Died(p)}, seen \subseteq seen',
           p = Main => FlushInv'
    PROVE  IInv'
<1>1. /\ UNCHANGED <<launched, completed, stopSet, overtaken>>
      /\ \A o \in Pollers :
             o # p => /\ pc'[o] = pc[o] /\ dump'[o] = dump[o] /\ out'[o] = out[o]
                      /\ key'[o] = key[o] /\ failed'[o] = failed[o]
      /\ p # Main => last' = last /\ unreached' = unreached
      /\ pc[p] \in {"dump", "convert", "mark"}
  BY Around DEF IInv
<1>2. PlaceInv' /\ AloneInv'
  <2>1. CASE p = Thread
    <3>1. pc'[Main] = pc[Main]
      BY <1>1, <2>1, Constants
    <3>2. pc'[Thread] \in {"convert", "mark", "wait", "dead"}
      BY <2>1, Constants DEF Done, Died
    <3> QED
      BY <1>1, <2>1, <3>1, <3>2 DEF IInv, PlaceInv, AloneInv, Alive
  <2>2. CASE p = Main
    <3>1. pc'[Thread] = pc[Thread]
      BY <1>1, <2>2, Constants
    <3>2. pc'[Main] \in {"convert", "mark", "returned", "raised"}
      BY <2>2 DEF Done, Died
    <3> QED
      BY <1>1, <2>2, <3>1, <3>2 DEF IInv, PlaceInv, AloneInv, Alive
  <2> QED
    BY <2>1, <2>2 DEF Pollers
<1>3. HandInv'
  <2>1. Pollers' = Pollers
    BY DEF Pollers
  <2> QED
    BY <1>1, <2>1 DEF IInv, HandInv
<1>4. FlushInv'
  <2>1. CASE p = Thread
    <3>1. /\ pc'[Main] = pc[Main] /\ dump'[Main] = dump[Main] /\ key'[Main] = key[Main]
          /\ failed'[Main] = failed[Main] /\ last' = last /\ unreached' = unreached
      BY <1>1, <2>1, Constants
    <3> QED
      BY <1>1, <2>1, <3>1 DEF IInv, FlushInv, Excused
  <2> QED
    BY <2>1 DEF Pollers
<1> QED
  BY <1>2, <1>3, <1>4 DEF IInv

(* Copies depend on the file and on what is in hand. *)
LEMMA SameCopies ==
    ASSUME UNCHANGED <<file, out, seen, failed, overtaken>>
    PROVE  (KeptInv => KeptInv') /\ \A k : Copies(k)' = Copies(k)
  BY DEF KeptInv, Copies

LEMMA DumpKeeps ==
    ASSUME IInv, NEW p \in Pollers, NEW entries \in Queue, Range(entries) \subseteq completed,
           entries = InRing \/ entries = <<>>, Dump(p, entries), Poll(p)
    PROVE  IInv'
<1> DEFINE R == Range(InRing)
<1>1. /\ pc[p] = "dump" /\ pc' = [pc EXCEPT ![p] = "convert"]
      /\ dump' = [dump EXCEPT ![p] = entries] /\ last' = IF p = Main THEN R ELSE last
      /\ unreached' = IF p = Main THEN unreached \cup (R \ Range(entries)) ELSE unreached
      /\ UNCHANGED <<launched, completed, stopSet, key, out, seen, file, failed, overtaken>>
  BY DEF Dump, Unreached, GoTo, jobVars
<1>2. Shapes /\ HandInv /\ KeptInv /\ OnceInv /\ FlushInv
  BY DEF IInv
<1>9. /\ R \subseteq completed
      /\ Range(entries) = R \/ Range(entries) = {}
  BY <1>2, RingHolds DEF Range
<1>10. p = Main => unreached = {} /\ last = {} /\ failed[Main] = {}
  BY <1>1, <1>2 DEF FlushInv
<1> HIDE DEF R
<1>3. Shapes'
  <2>1. unreached' \subseteq last' /\ last' \subseteq completed
    BY <1>1, <1>2, <1>9, <1>10 DEF Shapes
  <2> QED
    BY <1>1, <1>2, <2>1 DEF Shapes, Spots
<1>4. pc'[p] = "convert" /\ dump'[p] = entries
  BY <1>1, <1>2 DEF Shapes
<1>5. KeptInv' /\ OnceInv'
  <2>1. \A k : Copies(k)' = Copies(k)
    BY <1>1, SameCopies
  <2> QED
    BY <1>1, <1>2, <2>1, SameCopies DEF OnceInv
<1>6. key[p] = NoKey
  BY <1>1, <1>2 DEF HandInv
<1>7. p = Main => FlushInv'
  <2> SUFFICES ASSUME p = Main PROVE FlushInv'
    OBVIOUS
  <2>1. last' = R /\ unreached' = R \ Range(entries) /\ failed'[Main] = {}
    BY <1>1, <1>10
  <2>2. Excused'
    BY <1>9, <2>1 DEF Excused
  <2> QED
    BY <1>1, <1>4, <1>6, <1>9, <2>1, <2>2 DEF FlushInv
<1>8. UNCHANGED <<key, completed, seen>>
  BY <1>1
<1> QED
  BY <1>3, <1>4, <1>5, <1>6, <1>7, <1>8, OwnPart

LEMMA LookKeeps ==
    ASSUME IInv, NEW p \in Pollers, Look(p), Poll(p)
    PROVE  IInv'
<1> DEFINE h == Head(dump[p])
           r == Tail(dump[p])
<1>1. /\ pc[p] = "convert" /\ dump[p] # <<>>
      /\ dump' = [dump EXCEPT ![p] = r]
      /\ IF h \in seen THEN UNCHANGED <<pc, key>>
         ELSE key' = [key EXCEPT ![p] = h] /\ pc' = [pc EXCEPT ![p] = "mark"]
      /\ UNCHANGED <<launched, completed, stopSet, out, seen, file, failed, last, unreached, overtaken>>
  BY DEF Look, Known, GoTo, jobVars
<1>2. Shapes /\ HandInv /\ KeptInv /\ OnceInv /\ FlushInv
  BY DEF IInv
<1>3. /\ h \in Keys /\ r \in Seq(Keys) /\ Range(dump[p]) = {h} \cup Range(r)
  <2> DEFINE q == dump[p]
             t == <<Head(q)>>
             u == Tail(q)
  <2>1. q \in Seq(Keys) /\ q # <<>>
    BY <1>1, <1>2, Parts
  <2> HIDE DEF q
  <2>2. Head(q) \in Keys /\ u \in Seq(Keys) /\ q = t \o u
    BY <2>1, FirstAndRest
  <2>3. t \in Seq(Keys) /\ Range(t) = {Head(q)}
    BY <2>2 DEF Range
  <2> HIDE DEF t, u
  <2>4. Range(t \o u) = Range(t) \cup Range(u)
    BY <2>2, <2>3, RangeConcatenation
  <2> QED
    BY <2>2, <2>3, <2>4 DEF q, u
<1> HIDE DEF h, r
<1>4. Range(dump[p]) \subseteq completed /\ key[p] = NoKey /\ NoKey \notin Keys
  BY <1>1, <1>2, Constants DEF HandInv
<1>5. h \in completed /\ Range(r) \subseteq completed /\ h # NoKey
  BY <1>3, <1>4
<1>6. Shapes'
  BY <1>1, <1>2, <1>3 DEF Shapes, Spots, Queue
<1>7. /\ dump'[p] = r
      /\ \/ h \in seen /\ pc'[p] = "convert" /\ key'[p] = NoKey /\ key' = key
         \/ h \notin seen /\ pc'[p] = "mark" /\ key'[p] = h
  BY <1>1, <1>2, <1>4 DEF Shapes
<1>8. KeptInv' /\ \A k : Copies(k)' = Copies(k)
  BY <1>1, <1>2, SameCopies
<1>9. OnceInv'
  <2>1. Pollers' = Pollers /\ \A o \in Pollers : o # p => key'[o] = key[o]
    BY <1>2, Around DEF Pollers
  <2> QED
    BY <1>1, <1>2, <1>7, <1>8, <2>1 DEF OnceInv
<1>10. p = Main => FlushInv'
  <2> SUFFICES ASSUME p = Main PROVE FlushInv'
    OBVIOUS
  <2>1. /\ last \subseteq Range(dump[p]) \cup {NoKey} \cup seen \cup unreached /\ last \subseteq Keys
        /\ Range(dump[p]) \subseteq last
    BY <1>1, <1>2, <1>4, CompletedAreKeys DEF FlushInv, Shapes
  <2>2. last \subseteq Range(r) \cup {h} \cup seen \cup unreached
    BY <1>3, <1>4, <2>1
  <2>3. /\ last' \subseteq Range(dump'[Main]) \cup {key'[Main]} \cup seen' \cup unreached'
        /\ Range(dump'[Main]) \subseteq last' /\ key'[Main] \in last' \cup {NoKey}
    BY <1>1, <1>3, <1>7, <2>1, <2>2
  <2>4. Excused'
    BY <1>1, <1>2 DEF FlushInv, Excused
  <2> QED
    BY <1>7, <2>3, <2>4 DEF FlushInv
<1>11. out'[p] = out[p] /\ seen' = seen
  BY <1>1
<1> QED
  BY <1>5, <1>6, <1>7, <1>8, <1>9, <1>10, <1>11, OwnPart

LEMMA MarkKeeps ==
    ASSUME IInv, NEW p \in Pollers, Mark(p), Poll(p)
    PROVE  IInv'
<1> DEFINE h == key[p]
           q == out[p]
           r == Append(q, h)
<1>1. /\ pc[p] = "mark" /\ pc' = [pc EXCEPT ![p] = "convert"] /\ key' = [key EXCEPT ![p] = NoKey]
      /\ seen' = seen \cup {h} /\ out' = [out EXCEPT ![p] = r]
      /\ UNCHANGED <<launched, completed, stopSet, dump, file, failed, last, unreached, overtaken>>
  BY DEF Mark, GoTo, jobVars
<1>2. Shapes /\ HandInv /\ KeptInv /\ OnceInv /\ FlushInv
  BY DEF IInv
<1>3. h \in completed /\ h \in Keys /\ h # NoKey
  BY <1>1, <1>2, CompletedAreKeys DEF HandInv
<1>4. q \in Seq(Keys) /\ r \in Seq(Keys) /\ Range(r) = Range(q) \cup {h}
  <2>1. q \in Seq(Keys)
    BY <1>2, Parts
  <2>2. r = q \o <<h>> /\ r \in Seq(Keys)
    BY <1>3, <2>1, AppendIsConcat, AppendProperties
  <2>3. <<h>> \in Seq(Keys) /\ Range(<<h>>) = {h}
    BY <1>3 DEF Range
  <2> DEFINE t == <<h>>
  <2> HIDE DEF q, t
  <2>4. Range(q \o t) = Range(q) \cup Range(t)
    BY <2>1, <2>3, RangeConcatenation DEF t
  <2> QED
    BY <2>1, <2>2, <2>3, <2>4 DEF t
<1>5. \A k : Times(r, k) = IF h = k THEN Times(q, k) + 1 ELSE Times(q, k)
  BY <1>3, <1>4, TimesAppend
<1> HIDE DEF h, q, r
<1>6. Shapes'
  BY <1>1, <1>2, <1>3, <1>4 DEF Shapes, Spots, Queue
<1>7. pc'[p] = "convert" /\ key'[p] = NoKey /\ out'[p] = r /\ dump'[p] = dump[p]
  BY <1>1, <1>2 DEF Shapes
<1>8. PICK o \in Pollers : o # p /\ Pollers = {p, o}
  BY TwoPollers
<1>9. out'[o] = out[o] /\ key'[o] = key[o] /\ failed' = failed /\ file' = file
  BY <1>1, <1>2, <1>8, Around
<1>10. seen = Range(file) \cup Range(q) \cup Range(out[o]) \cup failed[p] \cup failed[o]
  BY <1>2, <1>8, KeptOf DEF q
<1>11. KeptInv'
  <2>1. KeptInv' <=> seen' = Range(file') \cup Range(out'[p]) \cup Range(out'[o])
                                 \cup failed'[p] \cup failed'[o]
    BY <1>8 DEF KeptInv, Pollers
  <2> QED
    BY <1>1, <1>4, <1>7, <1>9, <1>10, <2>1
<1>12. OnceInv'
  <2> SUFFICES ASSUME ~overtaken
               PROVE  /\ \A x \in Pollers : key'[x] \notin seen'
                      /\ \A k \in Keys : /\ Copies(k)' <= 1
                                         /\ k \in failed'[Thread] \cup failed'[Main] => Copies(k)' = 0
    <3>1. Pollers' = Pollers /\ Keys' = Keys /\ overtaken' = overtaken
      BY <1>1 DEF Pollers, Keys
    <3> QED
      BY <3>1 DEF OnceInv
  <2>1. key[o] = NoKey /\ h \notin seen
    BY <1>1, <1>2, <1>8, OneAtATime DEF OnceInv, h
  <2>2. NoKey \notin seen'
    BY <1>1, <1>3, <1>2, CompletedAreKeys, Constants DEF Shapes
  <2>3. ASSUME NEW k \in Keys
        PROVE  /\ Copies(k)' <= 1
               /\ k \in failed'[Thread] \cup failed'[Main] => Copies(k)' = 0
    <3>1. /\ Copies(k) = Times(file, k) + Times(q, k) + Times(out[o], k)
          /\ Times(file, k) \in Nat /\ Times(q, k) \in Nat /\ Times(out[o], k) \in Nat
      BY <1>2, <1>8, CopiesOf DEF q
    <3>2. Copies(k)' = Times(file, k) + Times(r, k) + Times(out[o], k)
      <4>1. Copies(k)' = Times(file', k) + Times(out'[p], k) + Times(out'[o], k)
        BY <1>6, <1>8, CopiesNext
      <4> QED
        BY <1>7, <1>9, <4>1
    <3>3. CASE k # h
      BY <1>2, <1>5, <1>9, <2>3, <3>1, <3>2, <3>3 DEF OnceInv
    <3>4. CASE k = h
      <4>1. /\ k \notin Range(file) /\ k \notin Range(q) /\ k \notin Range(out[o])
            /\ k \notin failed[Thread] \cup failed[Main]
        BY <1>2, <1>10, <2>1, <3>4 DEF KeptInv
      <4>2. Times(file, k) = 0 /\ Times(q, k) = 0 /\ Times(out[o], k) = 0
        BY <1>2, <1>4, <1>8, <4>1, Parts, TimesRange
      <4> QED
        BY <1>5, <1>9, <3>2, <3>4, <4>1, <4>2
    <3> QED
      BY <3>3, <3>4
  <2> QED
    BY <1>7, <1>8, <1>9, <2>1, <2>2, <2>3
<1>13. p = Main => FlushInv'
  <2> SUFFICES ASSUME p = Main PROVE FlushInv'
    OBVIOUS
  <2>1. /\ last \subseteq Range(dump[Main]) \cup {h} \cup seen \cup unreached
        /\ Range(dump[Main]) \subseteq last
    BY <1>1, <1>2 DEF FlushInv, h
  <2>2. /\ last' \subseteq Range(dump'[Main]) \cup {key'[Main]} \cup seen' \cup unreached'
        /\ Range(dump'[Main]) \subseteq last' /\ key'[Main] = NoKey
    BY <1>1, <1>7, <2>1
  <2>3. Excused'
    BY <1>1, <1>2, <1>9 DEF FlushInv, Excused
  <2> QED
    BY <1>7, <2>2, <2>3 DEF FlushInv
<1>14. Range(dump'[p]) \subseteq completed /\ seen \subseteq seen'
  BY <1>1, <1>2, <1>7 DEF HandInv
<1> QED
  BY <1>6, <1>7, <1>11, <1>12, <1>13, <1>14, OwnPart

(* What is taken out of a poller's hands and lost: nothing of it is left.     *)
LEMMA LostForGood ==
    ASSUME IInv, ~overtaken, NEW p \in Pollers, NEW o \in Pollers, o # p, NEW k \in Range(out[p])
    PROVE  Times(file, k) = 0 /\ Times(out[o], k) = 0 /\ Times(out[p], k) = 1
<1>1. out[p] \in Seq(Keys) /\ Shapes
  BY Parts DEF IInv
<1>2. Range(out[p]) \in SUBSET Keys
  BY <1>1, RangeOfSeq
<1>3. k \in Keys
  BY <1>2
<1>4. Copies(k) <= 1
  BY <1>3 DEF IInv, OnceInv
<1>5. Times(out[p], k) # 0
  BY <1>1, TimesRange
<1>6. /\ Copies(k) = Times(file, k) + Times(out[p], k) + Times(out[o], k)
      /\ Times(file, k) \in Nat /\ Times(out[p], k) \in Nat /\ Times(out[o], k) \in Nat
  BY <1>1, CopiesOf
<1> QED
  BY <1>4, <1>5, <1>6

(* What was not marked has no copy. *)
LEMMA NoCopyYet ==
    ASSUME IInv, NEW k, k \notin seen
    PROVE  Copies(k) = 0 /\ k \notin failed[Thread] /\ k \notin failed[Main]
<1>1. /\ k \notin Range(file) /\ k \notin Range(out[Thread]) /\ k \notin Range(out[Main])
      /\ k \notin failed[Thread] /\ k \notin failed[Main]
  BY DEF IInv, KeptInv
<1>2. /\ file \in Seq(Keys) /\ out[Thread] \in Seq(Keys) /\ out[Main] \in Seq(Keys)
  BY Constants, Parts DEF IInv
<1>3. Times(file, k) = 0 /\ Times(out[Thread], k) = 0 /\ Times(out[Main], k) = 0
  BY <1>1, <1>2, TimesRange
<1>4. Copies(k) = Times(file, k) + Times(out[Thread], k) + Times(out[Main], k)
  BY Constants, CopiesOf DEF IInv
<1> QED
  BY <1>1, <1>3, <1>4

LEMMA RaiseKeeps ==
    ASSUME IInv, NEW p \in Pollers, MarkRaises(p), Poll(p)
    PROVE  IInv'
<1> DEFINE h == key[p]
           f == failed[p] \cup Range(out[p]) \cup {h}
<1>1. /\ pc[p] = "mark" /\ pc' = [pc EXCEPT ![p] = "convert"] /\ key' = [key EXCEPT ![p] = NoKey]
      /\ seen' = seen \cup {h} /\ out' = [out EXCEPT ![p] = <<>>] /\ dump' = [dump EXCEPT ![p] = <<>>]
      /\ failed' = [failed EXCEPT ![p] = f] /\ h \in Bad
      /\ unreached' = IF p = Main THEN unreached \cup Range(dump[p]) ELSE unreached
      /\ UNCHANGED <<launched, completed, stopSet, file, last, overtaken>>
  BY DEF MarkRaises, Unreached, GoTo, jobVars
<1>2. Shapes /\ HandInv /\ KeptInv /\ OnceInv /\ FlushInv
  BY DEF IInv
<1>3. h \in completed /\ h \in Keys /\ h # NoKey
  BY <1>1, <1>2, CompletedAreKeys DEF HandInv
<1>4. Range(out[p]) \subseteq Keys /\ f \in SUBSET Keys
  <2>1. out[p] \in Seq(Keys) /\ failed[p] \in SUBSET Keys
    BY <1>2, Parts
  <2>2. Range(out[p]) \in SUBSET Keys
    BY <2>1, RangeOfSeq
  <2> QED
    BY <1>3, <2>1, <2>2
<1>5. <<>> \in Seq(Keys) /\ Range(<<>>) = {}
  BY DEF Range
<1>15. p = Main => /\ Range(dump[p]) \subseteq last /\ h \in last
                   /\ last \subseteq Range(dump[p]) \cup {h} \cup seen \cup unreached
  BY <1>1, <1>2, <1>3 DEF FlushInv
<1> HIDE DEF h
<1>6. Shapes'
  <2> HIDE DEF f
  <2>1. unreached' \subseteq last'
    BY <1>1, <1>2, <1>15 DEF Shapes
  <2> QED
    BY <1>1, <1>2, <1>3, <1>4, <1>5, <2>1 DEF Shapes, Spots, Queue
<1>7. /\ pc'[p] = "convert" /\ key'[p] = NoKey /\ out'[p] = <<>> /\ dump'[p] = <<>>
      /\ failed'[p] = f
  <2> HIDE DEF f
  <2> QED
    BY <1>1, <1>2 DEF Shapes
<1>8. PICK o \in Pollers : o # p /\ Pollers = {p, o}
  BY TwoPollers
<1>9. out'[o] = out[o] /\ key'[o] = key[o] /\ failed'[o] = failed[o] /\ file' = file
  BY <1>1, <1>2, <1>8, Around
<1>10. seen = Range(file) \cup Range(out[p]) \cup Range(out[o]) \cup failed[p] \cup failed[o]
  BY <1>2, <1>8, KeptOf
<1>11. KeptInv'
  <2>1. KeptInv' <=> seen' = Range(file') \cup Range(out'[p]) \cup Range(out'[o])
                                 \cup failed'[p] \cup failed'[o]
    BY <1>8 DEF KeptInv, Pollers
  <2> QED
    BY <1>1, <1>5, <1>7, <1>9, <1>10, <2>1
<1>12. OnceInv'
  <2> SUFFICES ASSUME ~overtaken
               PROVE  /\ \A x \in Pollers : key'[x] \notin seen'
                      /\ \A k \in Keys : /\ Copies(k)' <= 1
                                         /\ k \in failed'[Thread] \cup failed'[Main] => Copies(k)' = 0
    <3>1. Pollers' = Pollers /\ Keys' = Keys /\ overtaken' = overtaken
      BY <1>1 DEF Pollers, Keys
    <3> QED
      BY <3>1 DEF OnceInv
  <2>1. key[o] = NoKey /\ h \notin seen
    BY <1>1, <1>2, <1>8, OneAtATime DEF OnceInv, h
  <2>2. NoKey \notin seen'
    BY <1>1, <1>3, <1>2, CompletedAreKeys, Constants DEF Shapes
  <2>3. ASSUME NEW k \in Keys
        PROVE  /\ Copies(k)' <= 1
               /\ k \in failed'[p] \cup failed'[o] => Copies(k)' = 0
    <3>1. /\ Copies(k) = Times(file, k) + Times(out[p], k) + Times(out[o], k)
          /\ Times(file, k) \in Nat /\ Times(out[p], k) \in Nat /\ Times(out[o], k) \in Nat
      BY <1>2, <1>8, CopiesOf
    <3>2. Copies(k)' = Times(file, k) + Times(out[o], k)
      <4>1. Copies(k)' = Times(file', k) + Times(out'[p], k) + Times(out'[o], k)
        BY <1>6, <1>8, CopiesNext
      <4>2. Times(<<>>, k) = 0
        BY TimesEmpty
      <4> QED
        BY <1>7, <1>9, <3>1, <4>1, <4>2
    <3>3. Copies(k)' <= Copies(k) /\ Copies(k) <= 1 /\ Copies(k)' \in Nat /\ Copies(k) \in Nat
      BY <1>2, <3>1, <3>2 DEF OnceInv
    <3>4. CASE k \in Range(out[p])
      BY <1>8, <3>2, <3>4, LostForGood
    <3>5. CASE k = h \/ k \in failed[p] \cup failed[o]
      <4>1. k \in failed[p] \cup failed[o] => Copies(k) = 0
        BY <1>2, <1>8 DEF OnceInv, Pollers
      <4>2. k = h => Copies(k) = 0
        BY <2>1, NoCopyYet
      <4> QED
        BY <3>3, <3>5, <4>1, <4>2
    <3>6. k \in failed'[p] \cup failed'[o] =>
              k \in Range(out[p]) \/ k = h \/ k \in failed[p] \cup failed[o]
      BY <1>7, <1>9
    <3> QED
      BY <3>3, <3>4, <3>5, <3>6
  <2>4. failed'[Thread] \cup failed'[Main] = failed'[p] \cup failed'[o]
    BY <1>8 DEF Pollers
  <2> QED
    BY <1>7, <1>8, <1>9, <2>1, <2>2, <2>3, <2>4
<1>13. p = Main => FlushInv'
  <2> SUFFICES ASSUME p = Main PROVE FlushInv'
    OBVIOUS
  <2>1. h \in last' /\ h \in Bad /\ h \in failed'[Main]
    BY <1>1, <1>7, <1>15
  <2>2. Excused'
    BY <2>1 DEF Excused
  <2>3. last' \subseteq seen' \cup unreached'
    BY <1>1, <1>15
  <2> QED
    BY <1>5, <1>7, <2>2, <2>3 DEF FlushInv
<1>14. Range(dump'[p]) \subseteq completed /\ seen \subseteq seen'
  BY <1>1, <1>5, <1>7
<1> QED
  BY <1>6, <1>7, <1>11, <1>12, <1>13, <1>14, OwnPart

LEMMA LookRaisesKeeps ==
    ASSUME IInv, NEW p \in Pollers, LookRaises(p), Poll(p)
    PROVE  IInv'
<1> DEFINE h == Head(dump[p])
           f == failed[p] \cup Range(out[p])
<1>1. /\ pc[p] = "convert" /\ dump[p] # <<>> /\ h \in Unreadable
      /\ out' = [out EXCEPT ![p] = <<>>] /\ dump' = [dump EXCEPT ![p] = <<>>]
      /\ failed' = [failed EXCEPT ![p] = f]
      /\ unreached' = IF p = Main THEN unreached \cup Range(dump[p]) ELSE unreached
      /\ UNCHANGED <<launched, completed, stopSet, pc, key, seen, file, last, overtaken>>
  BY DEF LookRaises, Unreached, jobVars
<1>2. Shapes /\ HandInv /\ KeptInv /\ OnceInv /\ FlushInv
  BY DEF IInv
<1>3. h \in Range(dump[p])
  <2>1. dump[p] \in Seq(Keys)
    BY <1>2, Parts
  <2>2. 1 \in DOMAIN dump[p] /\ h = dump[p][1]
    BY <1>1, <2>1
  <2> QED
    BY <2>2 DEF Range
<1>4. f \in SUBSET Keys
  <2>1. out[p] \in Seq(Keys) /\ failed[p] \in SUBSET Keys
    BY <1>2, Parts
  <2>2. Range(out[p]) \in SUBSET Keys
    BY <2>1, RangeOfSeq
  <2> QED
    BY <2>1, <2>2
<1>5. <<>> \in Seq(Keys) /\ Range(<<>>) = {}
  BY DEF Range
<1>6. p = Main => /\ Range(dump[p]) \subseteq last /\ key[p] = NoKey
                  /\ last \subseteq Range(dump[p]) \cup {key[p]} \cup seen \cup unreached
  BY <1>1, <1>2 DEF FlushInv, HandInv
<1> HIDE DEF h
<1>7. Shapes'
  <2> HIDE DEF f
  <2>1. unreached' \subseteq last'
    BY <1>1, <1>2, <1>6 DEF Shapes
  <2> QED
    BY <1>1, <1>2, <1>4, <1>5, <2>1 DEF Shapes, Queue
<1>8. /\ pc'[p] = "convert" /\ key'[p] = NoKey /\ out'[p] = <<>> /\ dump'[p] = <<>>
      /\ failed'[p] = f
  <2> HIDE DEF f
  <2> QED
    BY <1>1, <1>2 DEF Shapes, HandInv
<1>9. PICK o \in Pollers : o # p /\ Pollers = {p, o}
  BY TwoPollers
<1>10. out'[o] = out[o] /\ failed'[o] = failed[o]
  BY <1>2, <1>9, Around
<1>11. KeptInv'
  <2>1. seen = Range(file) \cup Range(out[p]) \cup Range(out[o]) \cup failed[p] \cup failed[o]
    BY <1>2, <1>9, KeptOf
  <2>2. KeptInv' <=> seen' = Range(file') \cup Range(out'[p]) \cup Range(out'[o])
                                 \cup failed'[p] \cup failed'[o]
    BY <1>9 DEF KeptInv, Pollers
  <2> QED
    BY <1>1, <1>5, <1>8, <1>10, <2>1, <2>2
<1>12. OnceInv'
  <2> SUFFICES ASSUME ~overtaken
               PROVE  /\ \A x \in Pollers : key'[x] \notin seen'
                      /\ \A k \in Keys : /\ Copies(k)' <= 1
                                         /\ k \in failed'[Thread] \cup failed'[Main] => Copies(k)' = 0
    <3>1. Pollers' = Pollers /\ Keys' = Keys /\ overtaken' = overtaken
      BY <1>1 DEF Pollers, Keys
    <3> QED
      BY <3>1 DEF OnceInv
  <2>1. \A x \in Pollers : key'[x] \notin seen'
    BY <1>1, <1>2 DEF OnceInv
  <2>2. ASSUME NEW k \in Keys
        PROVE  /\ Copies(k)' <= 1
               /\ k \in failed'[p] \cup failed'[o] => Copies(k)' = 0
    <3>1. /\ Copies(k) = Times(file, k) + Times(out[p], k) + Times(out[o], k)
          /\ Times(file, k) \in Nat /\ Times(out[p], k) \in Nat /\ Times(out[o], k) \in Nat
      BY <1>2, <1>9, CopiesOf
    <3>2. Copies(k)' = Times(file, k) + Times(out[o], k)
      <4>1. Copies(k)' = Times(file', k) + Times(out'[p], k) + Times(out'[o], k)
        BY <1>7, <1>9, CopiesNext
      <4>2. Times(<<>>, k) = 0
        BY TimesEmpty
      <4> QED
        BY <1>1, <1>8, <1>10, <3>1, <4>1, <4>2
    <3>3. Copies(k)' <= Copies(k) /\ Copies(k) <= 1 /\ Copies(k)' \in Nat /\ Copies(k) \in Nat
      BY <1>2, <3>1, <3>2 DEF OnceInv
    <3>4. CASE k \in Range(out[p])
      BY <1>9, <3>2, <3>4, LostForGood
    <3>5. CASE k \in failed[p] \cup failed[o]
      <4>1. Copies(k) = 0
        BY <1>2, <1>9, <3>5 DEF OnceInv, Pollers
      <4> QED
        BY <3>3, <4>1
    <3>6. k \in failed'[p] \cup failed'[o] =>
              k \in Range(out[p]) \/ k \in failed[p] \cup failed[o]
      BY <1>8, <1>10
    <3> QED
      BY <3>3, <3>4, <3>5, <3>6
  <2>3. failed'[Thread] \cup failed'[Main] = failed'[p] \cup failed'[o]
    BY <1>9 DEF Pollers
  <2> QED
    BY <2>1, <2>2, <2>3
<1>13. p = Main => FlushInv'
  <2> SUFFICES ASSUME p = Main PROVE FlushInv'
    OBVIOUS
  <2>1. h \in last' /\ h \in Unreadable
    BY <1>1, <1>3, <1>6
  <2>2. Excused'
    BY <2>1 DEF Excused
  <2>3. last' \subseteq {NoKey} \cup seen' \cup unreached'
    BY <1>1, <1>6
  <2> QED
    BY <1>5, <1>8, <2>2, <2>3 DEF FlushInv
<1>14. Range(dump'[p]) \subseteq completed /\ seen \subseteq seen'
  BY <1>1, <1>5, <1>8
<1> QED
  BY <1>7, <1>8, <1>11, <1>12, <1>13, <1>14, OwnPart

(* The first n of what p converted get into the file, the rest is lost.       *)
LEMMA WritingKeeps ==
    ASSUME IInv, NEW p \in Pollers, Poll(p), NEW n \in 0..Len(out[p]), NEW l,
           l \in {Done(p), Died(p)}, l = Done(p) => n = Len(out[p]),
           pc[p] = "convert", dump[p] = <<>>, pc' = [pc EXCEPT ![p] = l],
           file' = file \o SubSeq(out[p], 1, n),
           failed' = [failed EXCEPT ![p] = @ \cup Range(SubSeq(out[p], n + 1, Len(out[p])))],
           out' = [out EXCEPT ![p] = <<>>],
           UNCHANGED <<launched, completed, stopSet, dump, key, seen, last, unreached, overtaken>>
    PROVE  IInv'
<1> DEFINE q == out[p]
           a == SubSeq(q, 1, n)
           b == SubSeq(q, n + 1, Len(q))
           f == failed[p] \cup Range(b)
<1>1. /\ file' = file \o a /\ failed' = [failed EXCEPT ![p] = f]
      /\ n \in 0..Len(q)
  OBVIOUS
<1>2. Shapes /\ HandInv /\ KeptInv /\ OnceInv /\ FlushInv
  BY DEF IInv
<1>3. q \in Seq(Keys) /\ file \in Seq(Keys) /\ failed[p] \in SUBSET Keys
  BY <1>2, Parts
<1> HIDE DEF q
<1>4. a \in Seq(Keys) /\ b \in Seq(Keys) /\ q = a \o b
  BY <1>1, <1>3, CutInTwo
<1>5. n = Len(q) => b = <<>>
  BY <1>3
<1> HIDE DEF a, b
<1>6. Range(q) = Range(a) \cup Range(b) /\ Range(b) \in SUBSET Keys
  BY <1>4, RangeConcatenation, RangeOfSeq
<1>7. /\ file \o a \in Seq(Keys) /\ Range(file \o a) = Range(file) \cup Range(a)
  BY <1>3, <1>4, ConcatProperties, RangeConcatenation
<1>8. f \in SUBSET Keys
  BY <1>3, <1>6
<1> HIDE DEF f
<1>9. Range(<<>>) = {} /\ <<>> \in Seq(Keys)
  BY DEF Range
<1>10. l \in Spots
  BY DEF Done, Died, Spots
<1>11. Shapes'
  BY <1>1, <1>2, <1>7, <1>8, <1>9, <1>10 DEF Shapes, Queue
<1>12. /\ pc'[p] = l /\ out'[p] = <<>> /\ failed'[p] = f /\ key'[p] = key[p] /\ dump'[p] = <<>>
       /\ key[p] = NoKey
  BY <1>1, <1>2 DEF Shapes, HandInv
<1>13. PICK o \in Pollers : o # p /\ Pollers = {p, o}
  BY TwoPollers
<1>14. out'[o] = out[o] /\ failed'[o] = failed[o]
  BY <1>2, <1>13, Around
<1>15. seen = Range(file) \cup Range(q) \cup Range(out[o]) \cup failed[p] \cup failed[o]
  BY <1>2, <1>13, KeptOf DEF q
<1>16. KeptInv'
  <2>1. KeptInv' <=> seen' = Range(file') \cup Range(out'[p]) \cup Range(out'[o])
                                 \cup failed'[p] \cup failed'[o]
    BY <1>13 DEF KeptInv, Pollers
  <2> QED
    BY <1>1, <1>6, <1>7, <1>9, <1>12, <1>14, <1>15, <2>1 DEF f
<1>17. OnceInv'
  <2> SUFFICES ASSUME ~overtaken
               PROVE  /\ \A x \in Pollers : key'[x] \notin seen'
                      /\ \A k \in Keys : /\ Copies(k)' <= 1
                                         /\ k \in failed'[Thread] \cup failed'[Main] => Copies(k)' = 0
    <3>1. Pollers' = Pollers /\ Keys' = Keys /\ overtaken' = overtaken
      BY DEF Pollers, Keys
    <3> QED
      BY <3>1 DEF OnceInv
  <2>1. \A x \in Pollers : key'[x] \notin seen'
    BY <1>2 DEF OnceInv
  <2>2. ASSUME NEW k \in Keys
        PROVE  /\ Copies(k)' <= 1
               /\ k \in failed'[p] \cup failed'[o] => Copies(k)' = 0
    <3>1. /\ Copies(k) = Times(file, k) + Times(q, k) + Times(out[o], k)
          /\ Times(file, k) \in Nat /\ Times(q, k) \in Nat /\ Times(out[o], k) \in Nat
      BY <1>2, <1>13, CopiesOf DEF q
    <3>2. /\ Times(q, k) = Times(a, k) + Times(b, k) /\ Times(a, k) \in Nat /\ Times(b, k) \in Nat
      BY <1>4, TimesConcat, TimesRange
    <3>3. Times(file \o a, k) = Times(file, k) + Times(a, k)
      BY <1>3, <1>4, TimesConcat
    <3>4. Copies(k)' = Times(file, k) + Times(a, k) + Times(out[o], k)
      <4>1. Copies(k)' = Times(file', k) + Times(out'[p], k) + Times(out'[o], k)
        BY <1>11, <1>13, CopiesNext
      <4>2. Times(<<>>, k) = 0
        BY TimesEmpty
      <4> QED
        BY <1>1, <1>12, <1>14, <3>1, <3>2, <3>3, <4>1, <4>2
    <3>5. Copies(k)' <= Copies(k) /\ Copies(k) <= 1 /\ Copies(k)' \in Nat /\ Copies(k) \in Nat
      BY <1>2, <3>1, <3>2, <3>4 DEF OnceInv
    <3>6. CASE k \in Range(b)
      <4>1. k \in Range(q)
        BY <1>6, <3>6
      <4>2. Times(file, k) = 0 /\ Times(out[o], k) = 0 /\ Times(q, k) = 1
        BY <1>13, <4>1, LostForGood DEF q
      <4>3. Times(b, k) # 0
        BY <1>4, <3>6, TimesRange
      <4> QED
        BY <3>2, <3>4, <4>2, <4>3
    <3>7. CASE k \in failed[p] \cup failed[o]
      <4>1. Copies(k) = 0
        BY <1>2, <1>13, <3>7 DEF OnceInv, Pollers
      <4> QED
        BY <3>5, <4>1
    <3>8. k \in failed'[p] \cup failed'[o] => k \in Range(b) \/ k \in failed[p] \cup failed[o]
      BY <1>12, <1>14 DEF f
    <3> QED
      BY <3>5, <3>6, <3>7, <3>8
  <2>3. failed'[Thread] \cup failed'[Main] = failed'[p] \cup failed'[o]
    BY <1>13 DEF Pollers
  <2> QED
    BY <2>1, <2>2, <2>3
<1>18. p = Main => FlushInv'
  <2> SUFFICES ASSUME p = Main PROVE FlushInv'
    OBVIOUS
  <2>1. last \subseteq seen \cup unreached
    BY <1>2, <1>9, <1>12, CompletedAreKeys, Constants DEF FlushInv, Shapes
  <2>2. l = "returned" => failed'[Main] = failed[Main]
    BY <1>5, <1>9, <1>12 DEF Done, f, q
  <2>3. l = "returned" => Excused'
    BY <1>2, <2>2 DEF FlushInv, Excused
  <2> QED
    BY <1>2, <1>12, <2>1, <2>3 DEF FlushInv, Done, Died
<1>19. Range(dump'[p]) \subseteq completed
  BY <1>9, <1>12
<1> QED
  BY <1>11, <1>12, <1>16, <1>17, <1>18, <1>19, OwnPart DEF Done, Died

LEMMA WriteKeeps ==
    ASSUME IInv, NEW p \in Pollers, Write(p), Poll(p)
    PROVE  IInv'
<1> DEFINE n == Len(out[p])
<1>1. out[p] \in Seq(Keys) /\ failed \in [Pollers -> SUBSET Keys]
  BY Parts DEF IInv, Shapes
<1>2. n \in 0..Len(out[p]) /\ SubSeq(out[p], 1, n) = out[p] /\ SubSeq(out[p], n + 1, n) = <<>>
  BY <1>1, SubSeqFull
<1>3. Range(SubSeq(out[p], n + 1, n)) = {}
  BY <1>2 DEF Range
<1>4. [failed EXCEPT ![p] = @ \cup Range(SubSeq(out[p], n + 1, n))] = failed
  BY <1>1, <1>3
<1>5. /\ pc[p] = "convert" /\ dump[p] = <<>> /\ pc' = [pc EXCEPT ![p] = Done(p)]
      /\ file' = file \o SubSeq(out[p], 1, n) /\ out' = [out EXCEPT ![p] = <<>>]
      /\ failed' = [failed EXCEPT ![p] = @ \cup Range(SubSeq(out[p], n + 1, n))]
      /\ UNCHANGED <<launched, completed, stopSet, dump, key, seen, last, unreached, overtaken>>
  BY <1>2, <1>4 DEF Write, GoTo, jobVars
<1> DEFINE l == Done(p)
<1>6. l \in {Done(p), Died(p)}
  OBVIOUS
<1> QED
  BY <1>2, <1>5, <1>6, WritingKeeps

LEMMA WriteFailsKeeps ==
    ASSUME IInv, NEW p \in Pollers, NEW n \in 0..RingCap, WriteFails(p, n), Poll(p)
    PROVE  IInv'
<1>1. out[p] \in Seq(Keys)
  BY Parts DEF IInv
<1>2. n \in 0..Len(out[p]) /\ Died(p) # Done(p)
  BY <1>1, Constants DEF WriteFails, Died, Done
<1>3. /\ pc[p] = "convert" /\ dump[p] = <<>> /\ pc' = [pc EXCEPT ![p] = Died(p)]
      /\ file' = file \o SubSeq(out[p], 1, n) /\ out' = [out EXCEPT ![p] = <<>>]
      /\ failed' = [failed EXCEPT ![p] = @ \cup Range(SubSeq(out[p], n + 1, Len(out[p])))]
      /\ UNCHANGED <<launched, completed, stopSet, dump, key, seen, last, unreached, overtaken>>
  BY DEF WriteFails, GoTo, jobVars
<1>4. Died(p) \in {Done(p), Died(p)}
  OBVIOUS
<1> QED
  BY <1>2, <1>3, <1>4, WritingKeeps

LEMMA PollKeeps ==
    ASSUME IInv, NEW p \in Pollers, Poll(p)
    PROVE  IInv'
<1>1. CASE Dump(p, InRing)
  <2>1. InRing \in Queue /\ Range(InRing) \subseteq completed
    BY RingHolds DEF IInv
  <2> DEFINE e == InRing
  <2>2. e \in Queue /\ Range(e) \subseteq completed /\ Dump(p, e) /\ e = InRing
    BY <1>1, <2>1
  <2> HIDE DEF e
  <2> QED
    BY <2>2, DumpKeeps
<1>2. CASE Dump(p, <<>>)
  <2>1. <<>> \in Queue /\ Range(<<>>) \subseteq completed
    BY DEF Queue, Range
  <2> QED
    BY <1>2, <2>1, DumpKeeps
<1>3. CASE Look(p) \/ LookRaises(p)
  BY <1>3, LookKeeps, LookRaisesKeeps
<1>4. CASE Mark(p)
  BY <1>4, MarkKeeps
<1>5. CASE MarkRaises(p)
  BY <1>5, RaiseKeeps
<1>6. CASE Write(p)
  BY <1>6, WriteKeeps
<1>7. CASE \E n \in 0..RingCap : WriteFails(p, n)
  BY <1>7, WriteFailsKeeps
<1> QED
  BY <1>1, <1>2, <1>3, <1>4, <1>5, <1>6, <1>7 DEF Poll

LEMMA InitHolds == Init => IInv
<1> SUFFICES ASSUME Init PROVE IInv
  OBVIOUS
<1>1. /\ launched = 0 /\ completed = {} /\ stopSet = FALSE /\ overtaken = FALSE
      /\ dump = [p \in Pollers |-> <<>>] /\ out = [p \in Pollers |-> <<>>]
      /\ key = [p \in Pollers |-> NoKey] /\ failed = [p \in Pollers |-> {}]
      /\ seen = {} /\ file = <<>> /\ last = {} /\ unreached = {}
  BY DEF Init
<1>2. pc \in [Pollers -> Spots] /\ pc[Thread] = "wait" /\ pc[Main] = "run"
  BY Constants DEF Init, Spots
<1>3. Range(<<>>) = {} /\ <<>> \in Seq(Keys)
  BY DEF Range
<1>4. Shapes
  <2>1. dump \in [Pollers -> Queue] /\ out \in [Pollers -> Queue] /\ file \in Queue
    BY <1>1, <1>3 DEF Queue
  <2>2. key \in [Pollers -> Keys \cup {NoKey}] /\ failed \in [Pollers -> SUBSET Keys]
    BY <1>1
  <2>3. launched \in 0..MaxLaunched /\ completed \subseteq 1..launched
    BY <1>1, Constants
  <2> QED
    BY <1>1, <1>2, <2>1, <2>2, <2>3 DEF Shapes
<1>5. PlaceInv /\ AloneInv
  BY <1>1, <1>2 DEF PlaceInv, AloneInv
<1>6. HandInv
  <2>1. \A p \in Pollers : pc[p] \in {"wait", "run"}
    BY <1>2 DEF Pollers
  <2> QED
    BY <1>1, <1>3, <2>1 DEF HandInv
<1>7. KeptInv
  BY <1>1, <1>3, Constants DEF KeptInv
<1>8. OnceInv
  <2>1. \A k : Copies(k) = 0
    BY <1>1, <1>3, <1>7, <1>4, Constants, CopiesOf, TimesEmpty
  <2> QED
    BY <1>1, <2>1, Constants DEF OnceInv
<1>9. FlushInv
  BY <1>1, <1>2, Constants DEF FlushInv, Excused
<1> QED
  BY <1>4, <1>5, <1>6, <1>7, <1>8, <1>9 DEF IInv

(* The job's steps only add to what has completed. *)
LEMMA JobKeeps == ASSUME IInv, Job PROVE IInv'
<1>1. /\ launched' \in 0..MaxLaunched /\ completed' \subseteq 1..launched' /\ completed \subseteq completed'
      /\ UNCHANGED <<stopSet, pc, dump, key, out, seen, file, failed, last, unreached, overtaken>>
  <2>1. launched \in 0..MaxLaunched /\ completed \subseteq 1..launched /\ MaxLaunched \in Nat
    BY Constants DEF IInv, Shapes
  <2>2. CASE launched < MaxLaunched /\ launched' = launched + 1 /\ completed' = completed
    <3>1. 1..launched \subseteq 1..launched'
      BY <2>1, <2>2
    <3>2. launched' \in 0..MaxLaunched
      BY <2>1, <2>2
    <3> QED
      BY <2>1, <2>2, <3>1, <3>2 DEF Job
  <2>3. CASE \E k \in (1..launched) \ completed :
                completed' = completed \cup {k} /\ launched' = launched
    BY <2>1, <2>3 DEF Job
  <2> QED
    BY <2>2, <2>3 DEF Job, Launch, Complete
<1>2. \A k : Copies(k)' = Copies(k)
  BY <1>1, SameCopies
<1>3. Shapes'
  BY <1>1 DEF IInv, Shapes
<1>4. PlaceInv' /\ AloneInv' /\ FlushInv'
  BY <1>1 DEF IInv, PlaceInv, AloneInv, Alive, FlushInv, Excused
<1>5. HandInv'
  BY <1>1 DEF IInv, HandInv, Pollers
<1>6. KeptInv'
  BY <1>1, SameCopies DEF IInv
<1>7. OnceInv'
  BY <1>1, <1>2 DEF IInv, OnceInv, Pollers, Keys
<1> QED
  BY <1>3, <1>4, <1>5, <1>6, <1>7 DEF IInv

(* The loop and stop move a poller that has nothing in hand. *)
LEMMA MoveKeeps ==
    ASSUME IInv, NEW p \in Pollers, NEW l \in Spots \ {"mark"},
           pc[p] \in {"wait", "run", "join"}, pc' = [pc EXCEPT ![p] = l],
           UNCHANGED <<jobVars, dump, key, out, seen, file, failed, last, unreached>>,
           stopSet' \in BOOLEAN, overtaken' \in BOOLEAN, overtaken => overtaken',
           PlaceInv', AloneInv', p = Main => l \in {"join", "dump"}
    PROVE  IInv'
<1>1. launched' = launched /\ completed' = completed
  BY DEF jobVars
<1>2. pc'[p] = l /\ \A o \in Pollers : o # p => pc'[o] = pc[o]
  BY DEF IInv, Shapes
<1>3. \A k : Copies(k)' = Copies(k)
  BY DEF Copies
<1>4. Shapes'
  BY <1>1 DEF IInv, Shapes
<1>5. HandInv'
  BY <1>1, <1>2 DEF IInv, HandInv, Pollers
<1>6. KeptInv'
  BY DEF IInv, KeptInv
<1>7. OnceInv'
  BY <1>3 DEF IInv, OnceInv, Pollers, Keys
<1>8. FlushInv'
  <2>1. CASE p = Main
    BY <1>2, <2>1 DEF IInv, FlushInv, PlaceInv, Excused
  <2>2. CASE p # Main
    BY <1>2, <2>2, Constants DEF IInv, FlushInv, Excused
  <2> QED
    BY <2>1, <2>2
<1> QED
  BY <1>4, <1>5, <1>6, <1>7, <1>8 DEF IInv

LEMMA StepKeeps == ASSUME IInv, [Next]_vars PROVE IInv'
<1>1. CASE Job
  BY <1>1, JobKeeps
<1>2. CASE \E p \in Pollers : Poll(p)
  BY <1>2, PollKeeps
<1>3. CASE Tick
  <2> DEFINE l == IF stopSet THEN "ended" ELSE "dump"
  <2>1. /\ pc[Thread] = "wait" /\ pc' = [pc EXCEPT ![Thread] = l]
        /\ UNCHANGED <<jobVars, stopSet, dump, key, out, seen, file, failed, last, unreached, overtaken>>
    BY <1>3 DEF Tick, GoTo
  <2>2. pc'[Thread] = l /\ pc'[Main] = pc[Main]
    BY <2>1, Constants DEF IInv, Shapes
  <2>3. PlaceInv' /\ AloneInv'
    BY <2>1, <2>2 DEF IInv, PlaceInv, AloneInv, Alive
  <2>4. l \in Spots \ {"mark"} /\ stopSet' \in BOOLEAN /\ overtaken' \in BOOLEAN
    BY <2>1 DEF Spots, IInv, Shapes
  <2> HIDE DEF l
  <2> QED
    BY <2>1, <2>3, <2>4, Constants, MoveKeeps
<1>4. CASE Stop
  <2>1. /\ pc[Main] = "run" /\ pc' = [pc EXCEPT ![Main] = "join"] /\ stopSet' = TRUE
        /\ UNCHANGED <<jobVars, dump, key, out, seen, file, failed, last, unreached, overtaken>>
    BY <1>4 DEF Stop, GoTo
  <2>2. pc'[Main] = "join" /\ pc'[Thread] = pc[Thread]
    BY <2>1, Constants DEF IInv, Shapes
  <2>3. PlaceInv' /\ AloneInv'
    BY <2>1, <2>2 DEF IInv, PlaceInv, AloneInv, Alive
  <2>4. "join" \in Spots \ {"mark"} /\ stopSet' \in BOOLEAN /\ overtaken' \in BOOLEAN
    BY <2>1 DEF Spots, IInv, Shapes
  <2> QED
    BY <2>1, <2>3, <2>4, Constants, MoveKeeps
<1>5. CASE Joined \/ JoinTimesOut
  <2>1. /\ pc[Main] = "join" /\ pc' = [pc EXCEPT ![Main] = "dump"] /\ stopSet' = stopSet
        /\ UNCHANGED <<jobVars, dump, key, out, seen, file, failed, last, unreached>>
        /\ (~Alive /\ overtaken' = overtaken) \/ overtaken' = TRUE
    BY <1>5 DEF Joined, JoinTimesOut, GoTo
  <2>2. pc'[Main] = "dump" /\ pc'[Thread] = pc[Thread]
    BY <2>1, Constants DEF IInv, Shapes
  <2>3. PlaceInv' /\ AloneInv'
    BY <2>1, <2>2 DEF IInv, PlaceInv, AloneInv, Alive
  <2>4. "dump" \in Spots \ {"mark"} /\ stopSet' \in BOOLEAN /\ overtaken' \in BOOLEAN
    BY <2>1 DEF Spots, IInv, Shapes
  <2>5. overtaken => overtaken'
    BY <2>1
  <2>6. /\ pc[Main] = "join" /\ pc' = [pc EXCEPT ![Main] = "dump"]
        /\ UNCHANGED <<jobVars, dump, key, out, seen, file, failed, last, unreached>>
    BY <2>1
  <2> QED
    BY <2>3, <2>4, <2>5, <2>6, Constants, MoveKeeps
<1>6. CASE UNCHANGED vars
  <2>1. UNCHANGED <<launched, completed, stopSet, pc, dump, key, out, seen, file, failed, last, unreached, overtaken>>
    BY <1>6 DEF vars
  <2>2. \A k : Copies(k)' = Copies(k)
    BY <2>1 DEF Copies
  <2>3. Shapes' /\ PlaceInv' /\ HandInv' /\ KeptInv'
    BY <2>1 DEF IInv, Shapes, PlaceInv, HandInv, KeptInv, Pollers
  <2>4. AloneInv' /\ FlushInv'
    BY <2>1 DEF IInv, AloneInv, Alive, FlushInv, Excused
  <2>5. OnceInv'
    BY <2>1, <2>2 DEF IInv, OnceInv, Pollers, Keys
  <2> QED
    BY <2>3, <2>4, <2>5 DEF IInv
<1> QED
  BY <1>1, <1>2, <1>3, <1>4, <1>5, <1>6 DEF Next

----------------------------------------------------------------------------

(* Every state of the recorder keeps the places, the hands, the marks and the *)
(* copies in order (gfr_torch.py:128-181).                                    *)
THEOREM Invariant == Spec => []IInv
<1>1. Init => IInv
  BY InitHolds
<1>2. IInv /\ [Next]_vars => IInv'
  BY StepKeeps
<1> QED
  BY <1>1, <1>2, PTL DEF Spec

(* A poller has a key in hand only between looking and marking, and the file  *)
(* holds collectives that completed.                                          *)
THEOREM TypeCorrect == Spec => []TypeOK
<1>1. ASSUME IInv PROVE TypeOK
  <2>1. /\ Shapes /\ PlaceInv /\ HandInv /\ KeptInv
    BY <1>1 DEF IInv
  <2>2. \A p \in Pollers : Range(out[p]) \cup failed[p] \subseteq seen
    BY <2>1 DEF KeptInv, Pollers
  <2>3. Range(file) \subseteq seen
    BY <2>1 DEF KeptInv
  <2>4. \A p \in Pollers : /\ (pc[p] = "mark") = (key[p] # NoKey)
                           /\ pc[p] \notin {"convert", "mark"} => dump[p] = <<>> /\ out[p] = <<>>
                           /\ Range(dump[p]) \subseteq completed
    BY <2>1 DEF HandInv
  <2> QED
    BY <2>1, <2>2, <2>3, <2>4 DEF TypeOK, Shapes, PlaceInv
<1> QED
  BY <1>1, Invariant, PTL

(* However often a collective was dumped, it is in the file or on its way     *)
(* there once, unless stop overtook the thread; and nothing that was marked   *)
(* goes missing without an exception (gfr_torch.py:158-168, 177-181).         *)
THEOREM KeptOnce == Spec => []OneCopy
<1>1. ASSUME IInv PROVE OneCopy
  <2> SUFFICES ASSUME NEW k \in seen
               PROVE  LET lost == k \in failed[Thread] \cup failed[Main]
                      IN  /\ lost \/ Copies(k) >= 1
                          /\ overtaken \/ Copies(k) = IF lost THEN 0 ELSE 1
    BY DEF OneCopy
  <2>1. k \in Keys
    BY <1>1, CompletedAreKeys DEF IInv, Shapes
  <2>2. /\ Copies(k) = Times(file, k) + Times(out[Thread], k) + Times(out[Main], k)
        /\ Times(file, k) \in Nat /\ Times(out[Thread], k) \in Nat /\ Times(out[Main], k) \in Nat
    BY <1>1, Constants, CopiesOf DEF IInv
  <2>3. file \in Seq(Keys) /\ out[Thread] \in Seq(Keys) /\ out[Main] \in Seq(Keys)
    BY <1>1, Constants, Parts DEF IInv
  <2>4. k \in failed[Thread] \cup failed[Main] \/ Copies(k) >= 1
    <3>1. CASE k \in Range(file)
      <4>1. Times(file, k) # 0
        BY <2>3, <3>1, TimesRange
      <4> QED
        BY <2>2, <4>1
    <3>2. CASE k \in Range(out[Thread])
      <4>1. Times(out[Thread], k) # 0
        BY <2>3, <3>2, TimesRange
      <4> QED
        BY <2>2, <4>1
    <3>3. CASE k \in Range(out[Main])
      <4>1. Times(out[Main], k) # 0
        BY <2>3, <3>3, TimesRange
      <4> QED
        BY <2>2, <4>1
    <3> QED
      BY <1>1, <3>1, <3>2, <3>3 DEF IInv, KeptInv
  <2>5. ~overtaken => /\ Copies(k) <= 1
                      /\ k \in failed[Thread] \cup failed[Main] => Copies(k) = 0
    BY <1>1, <2>1 DEF IInv, OnceInv
  <2>6. Copies(k) \in Nat
    BY <2>2
  <2> QED
    BY <2>4, <2>5, <2>6
<1> QED
  BY <1>1, Invariant, PTL

(* When stop returns, what had completed at its dump is in the file, but for  *)
(* what the thread lost or still has in hand, and for what stop's own poll    *)
(* had marked, or had not reached, when an entry of its dump raised or the    *)
(* dump failed; unless one of these happened, it leaves out nothing else      *)
(* (gfr_torch.py:66-77, 158-161, 177-181).                                    *)
THEOREM LastFlush == Spec => []FinalFlush
<1>1. ASSUME IInv PROVE FinalFlush
  <2> SUFFICES ASSUME pc[Main] = "returned"
               PROVE  /\ last \subseteq Range(file) \cup failed[Thread] \cup failed[Main] \cup unreached
                                      \cup (IF overtaken THEN Range(out[Thread]) ELSE {})
                      /\ Excused
    BY DEF FinalFlush, Excused
  <2>1. last \subseteq seen \cup unreached /\ Excused
    BY <1>1 DEF IInv, FlushInv
  <2>2. Range(out[Main]) = {}
    BY <1>1, Constants DEF IInv, HandInv, Range
  <2>3. ~overtaken => Range(out[Thread]) = {}
    BY <1>1, Constants DEF IInv, HandInv, AloneInv, Alive, Range
  <2> QED
    BY <1>1, <2>1, <2>2, <2>3 DEF IInv, KeptInv
<1> QED
  BY <1>1, Invariant, PTL
=============================================================================
