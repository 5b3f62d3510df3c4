-------------------------- MODULE RingBufferProofs --------------------------
(* For every capacity, every set of events and any number of threads, the   *)
(* ring buffer is type correct, hands out pushed events only, and           *)
(* implements the bounded log.                                              *)
EXTENDS RingBuffer, TLAPS

Locked == {"store", "bump", "copy"}

(* The strengthening. MutexInv says who may touch the slots; SlotInv that   *)
(* the retained window was written; PartInv that a snapshot being made      *)
(* agrees with the buffer, which cannot move while it is being made.        *)
MutexInv == \A t \in Thread : pc[t] \in Locked <=> mu = t
ArgInv == \A t \in Thread : pc[t] \in {"push", "store", "bump"} => arg[t] \in Event
SlotInv == \A k \in 1..LenAt(Effective) : Oldest(Effective, k) \in Event
PartInv == \A t \in Thread :
               /\ pc[t] # "copy" => part[t] = <<>>
               /\ pc[t] = "copy" => \A k \in 1..Len(part[t]) : part[t][k] = Oldest(written, k)
CopyInv == \A t \in Thread :
               /\ copy[t] \in Seq(Event)
               /\ pc[t] \in {"range", "copy"} => copy[t] = <<>>

IInv == TypeOK /\ MutexInv /\ ArgInv /\ SlotInv /\ PartInv /\ CopyInv

----------------------------------------------------------------------------
(* Arithmetic of the slot index. *)

(* An index is a slot of the array (written & mask, ringbuffer.go:36). *)
LEMMA SlotRange == ASSUME NEW k \in Nat
                   PROVE  Slot(k) \in 0..(Size - 1)
  BY SizeAssumption, SMT DEF Slot

(* Fewer than Size pushes apart, two events have different slots: the mask  *)
(* never folds two retained events into one.                                *)
LEMMA SlotsDiffer == ASSUME NEW a \in Nat, NEW b \in Nat, a < b, b < a + Size
                     PROVE  Slot(a) # Slot(b)
<1> DEFINE S == Size
           p == a \div S
           q == b \div S
<1>1. S \in Nat \ {0}
  BY SizeAssumption
<1> HIDE DEF S
<1>2. p \in Int /\ q \in Int
  BY <1>1, SMT
<1>3. a = (S * p) + (a % S) /\ b = (S * q) + (b % S)
  BY <1>1, SMT
<1>4. a % S \in Int /\ b % S \in Int
  BY <1>1, SMT
<1>5. b < a + S
  BY DEF S
<1> HIDE DEF p, q
<1>6. SUFFICES ASSUME a % S = b % S PROVE FALSE
  BY DEF Slot, S
<1>7. S * p \in Int /\ S * q \in Int
  BY <1>1, <1>2
<1>8. 0 < (S * q) - (S * p) /\ (S * q) - (S * p) < S
  BY <1>1, <1>3, <1>4, <1>5, <1>6, <1>7
<1> QED
  BY <1>1, <1>2, <1>8, SMT

(* What is retained is a number of events between 0 and Size. *)
LEMMA LenAtRange == ASSUME NEW w \in Nat
                    PROVE  /\ LenAt(w) \in Nat
                           /\ LenAt(w) <= Size
                           /\ LenAt(w) <= w
                           /\ w <= Size => LenAt(w) = w
                           /\ w >= Size => LenAt(w) = Size
  BY SizeAssumption DEF LenAt

(* The k-th oldest event an array ev retains after w pushes. *)
WindowAt(ev, w, k) == ev[Slot((w - LenAt(w)) + (k - 1))]

(* The array after the w-th event is stored. *)
Stored(ev, w, e) == [ev EXCEPT ![Slot(w)] = e]

(* The window of an array into which the next event has been stored: it is  *)
(* the old window, one event on.                                            *)
LEMMA StoreMovesWindow ==
  ASSUME NEW w \in Nat, NEW e,
         NEW ev \in [0..(Size - 1) -> Event \cup {Zero}],
         NEW k \in 1..LenAt(w + 1)
  PROVE  LET x == WindowAt(Stored(ev, w, e), w + 1, k)
         IN  /\ k = LenAt(w + 1) => x = e
             /\ k # LenAt(w + 1) /\ w < Size => x = WindowAt(ev, w, k)
             /\ k # LenAt(w + 1) /\ ~(w < Size) => x = WindowAt(ev, w, k + 1)
<1>1. LenAt(w + 1) = IF w < Size THEN w + 1 ELSE Size
  BY SizeAssumption DEF LenAt
<1>2. LenAt(w) = IF w < Size THEN w ELSE Size
  BY SizeAssumption DEF LenAt
<1> DEFINE i == ((w + 1) - LenAt(w + 1)) + (k - 1)
           j == (w - LenAt(w)) + (k - 1)
           jj == (w - LenAt(w)) + ((k + 1) - 1)
           ew == Stored(ev, w, e)
<1>3. i \in Nat /\ i <= w /\ w < i + Size /\ (i = w <=> k = LenAt(w + 1))
  BY <1>1, SizeAssumption
<1>4. k # LenAt(w + 1) => i = IF w < Size THEN j ELSE jj
  BY <1>1, <1>2, SizeAssumption
<1> HIDE DEF i, j, jj
<1>5. ew[Slot(i)] = IF i = w THEN e ELSE ev[Slot(i)]
  <2>1. Slot(i) \in 0..(Size - 1) /\ Slot(w) \in 0..(Size - 1)
    BY <1>3, SlotRange
  <2>2. i # w => Slot(i) # Slot(w)
    BY <1>3, SlotsDiffer
  <2> QED
    BY <2>1, <2>2 DEF Stored
<1> QED
  BY <1>3, <1>4, <1>5 DEF WindowAt, i, j, jj

(* Everything of the state that the retained window depends on. *)
LEMMA WindowUnchanged ==
  ASSUME UNCHANGED events, Effective' = Effective
  PROVE  /\ Retained(Effective)' = Retained(Effective)
         /\ Dropped(Effective)' = Dropped(Effective)
         /\ SlotInv => SlotInv'
  BY DEF Retained, Dropped, SlotInv, Oldest

(* With the mutex free, or held for a store or a copy, nothing is between   *)
(* its store and its count.                                                 *)
LEMMA EffectiveWritten ==
  ASSUME MutexInv, NoThread \notin Thread,
         mu = NoThread \/ \E t \in Thread : mu = t /\ pc[t] # "bump"
  PROVE  Effective = written
  BY DEF MutexInv, Locked, Effective

----------------------------------------------------------------------------
(* The invariant. *)

(* A new buffer satisfies the invariant: nothing is written, retained, being *)
(* pushed or being read (NewRingBuffer, ringbuffer.go:21-28).                *)
LEMMA InitInv == Init => IInv
<1> SUFFICES ASSUME Init PROVE IInv
  OBVIOUS
<1>1. Effective = 0 /\ LenAt(0) = 0
  BY SizeAssumption DEF Init, Effective, LenAt
<1>2. TypeOK
  BY <1>1, NamesAssumption DEF Init, TypeOK
<1>3. MutexInv
  BY NamesAssumption DEF Init, MutexInv, Locked
<1>4. SlotInv
  BY <1>1 DEF SlotInv
<1>5. ArgInv /\ PartInv /\ CopyInv
  BY DEF Init, ArgInv, PartInv, CopyInv
<1> QED
  BY <1>2, <1>3, <1>4, <1>5 DEF IInv

(* The steps that leave slots, counter and mutex alone, or only take or     *)
(* release the mutex: the window stays.                                     *)
LEMMA EffectiveUnchanged ==
  ASSUME TypeOK, NEW t \in Thread, written' = written,
         \/ UNCHANGED pc
         \/ \E to \in {"push", "store", "range", "copy", "idle"} :
               pc[t] # "bump" /\ pc' = [pc EXCEPT ![t] = to]
  PROVE  Effective' = Effective
  BY DEF TypeOK, Effective

(* Storing the event of a push moves the effective count on by one. *)
LEMMA EffectiveStore ==
  ASSUME IInv, NEW t \in Thread, StoreEvent(t)
  PROVE  /\ Effective = written /\ Effective' = written + 1
         /\ written' = written /\ mu = t
         /\ arg[t] \in Event
         /\ events' = Stored(events, written, arg[t])
  BY NamesAssumption, EffectiveWritten
  DEF IInv, TypeOK, MutexInv, ArgInv, Locked, StoreEvent, Goto, Effective, Stored

(* Counting it leaves the effective count where it is. *)
LEMMA EffectiveBump ==
  ASSUME IInv, NEW t \in Thread, BumpWritten(t)
  PROVE  Effective = written + 1 /\ Effective' = Effective /\ UNCHANGED events
<1>1. \A u \in Thread : u # t => pc[u] # "bump"
  BY DEF IInv, MutexInv, Locked, BumpWritten, Goto
<1> QED
  BY <1>1 DEF IInv, TypeOK, BumpWritten, Goto, Effective

(* Storing a push keeps every retained slot filled by a push: the slot it     *)
(* overwrites is the one that leaves the window (ringbuffer.go:36).           *)
LEMMA StoreSlotInv ==
  ASSUME IInv, NEW t \in Thread, StoreEvent(t)
  PROVE  SlotInv'
<1>1. /\ Effective = written /\ Effective' = written + 1 /\ written \in Nat
      /\ arg[t] \in Event
      /\ events' = Stored(events, written, arg[t])
      /\ events \in [0..(Size - 1) -> Event \cup {Zero}]
  BY EffectiveStore DEF IInv, TypeOK
<1> DEFINE ew == Stored(events, written, arg[t])
<1>2. SUFFICES ASSUME NEW k \in 1..LenAt(written + 1)
               PROVE  WindowAt(ew, written + 1, k) \in Event
  BY <1>1 DEF SlotInv, Oldest, WindowAt
<1>3. CASE k = LenAt(written + 1)
  BY <1>1, <1>3, StoreMovesWindow
<1>4. CASE k # LenAt(written + 1) /\ written < Size
  <2>1. WindowAt(ew, written + 1, k) = WindowAt(events, written, k)
    BY <1>1, <1>4, StoreMovesWindow
  <2>2. k \in 1..LenAt(written)
    BY <1>1, <1>4, SizeAssumption DEF LenAt
  <2> QED
    BY <1>1, <2>1, <2>2 DEF IInv, SlotInv, Oldest, WindowAt
<1>5. CASE k # LenAt(written + 1) /\ ~(written < Size)
  <2>1. WindowAt(ew, written + 1, k) = WindowAt(events, written, k + 1)
    BY <1>1, <1>5, StoreMovesWindow
  <2>2. k + 1 \in 1..LenAt(written)
    BY <1>1, <1>5, SizeAssumption DEF LenAt
  <2>3. Oldest(written, k + 1) \in Event
    BY <1>1, <2>2 DEF IInv, SlotInv
  <2> QED
    BY <2>1, <2>3 DEF Oldest, WindowAt
<1> QED
  BY <1>3, <1>4, <1>5

(* Every step of every thread preserves the invariant, one case per memory   *)
(* access of Push and Snapshot (ringbuffer.go:33-39, 62-83).                 *)
LEMMA NextInv == IInv /\ [Next]_vars => IInv'
<1> SUFFICES ASSUME IInv, [Next]_vars PROVE IInv'
  OBVIOUS
<1> USE NamesAssumption
<1> USE DEF IInv, Goto
<1>1. CASE UNCHANGED vars
  <2>1. Effective' = Effective
    BY <1>1 DEF vars, Effective
  <2> QED
    BY <1>1, <2>1, WindowUnchanged DEF vars, TypeOK, MutexInv, ArgInv, PartInv, CopyInv, Oldest
<1>2. ASSUME NEW t \in Thread, NEW e \in Event, CallPush(t, e) PROVE IInv'
  <2>1. SlotInv'
    BY <1>2, EffectiveUnchanged, WindowUnchanged DEF CallPush
  <2> QED
    BY <1>2, <2>1 DEF CallPush, TypeOK, MutexInv, ArgInv, PartInv, CopyInv, Locked, Oldest
<1>3. ASSUME NEW t \in Thread, LockPush(t) PROVE IInv'
  <2>1. SlotInv'
    BY <1>3, EffectiveUnchanged, WindowUnchanged DEF LockPush
  <2> QED
    BY <1>3, <2>1 DEF LockPush, TypeOK, MutexInv, ArgInv, PartInv, CopyInv, Locked, Oldest
<1>4. ASSUME NEW t \in Thread, StoreEvent(t) PROVE IInv'
  <2>1. SlotInv'
    BY <1>4, StoreSlotInv
  <2>2. PartInv'
    BY <1>4 DEF StoreEvent, TypeOK, MutexInv, PartInv, Locked
  <2> QED
    BY <1>4, <2>1, <2>2 DEF StoreEvent, TypeOK, MutexInv, ArgInv, CopyInv, Locked
<1>5. ASSUME NEW t \in Thread, BumpWritten(t) PROVE IInv'
  <2>1. SlotInv'
    BY <1>5, EffectiveBump, WindowUnchanged
  <2>2. PartInv'
    BY <1>5 DEF BumpWritten, TypeOK, MutexInv, PartInv, Locked
  <2>3. TypeOK'
    <3>1. written' = written + 1 /\ LenAt(written) <= LenAt(written')
      BY <1>5, SizeAssumption DEF BumpWritten, TypeOK, LenAt
    <3>2. LenAt(written) \in Int /\ LenAt(written') \in Int
      BY <3>1, LenAtRange DEF TypeOK
    <3> QED
      BY <1>5, <3>1, <3>2 DEF BumpWritten, TypeOK
  <2> QED
    BY <1>5, <2>1, <2>2, <2>3 DEF BumpWritten, TypeOK, MutexInv, ArgInv, CopyInv, Locked
<1>6. ASSUME NEW t \in Thread, CallRange(t) PROVE IInv'
  <2>1. SlotInv'
    BY <1>6, EffectiveUnchanged, WindowUnchanged DEF CallRange
  <2> QED
    BY <1>6, <2>1 DEF CallRange, TypeOK, MutexInv, ArgInv, PartInv, CopyInv, Locked, Oldest
<1>7. ASSUME NEW t \in Thread, LockSnapshot(t) PROVE IInv'
  <2>1. SlotInv'
    BY <1>7, EffectiveUnchanged, WindowUnchanged DEF LockSnapshot
  <2> QED
    BY <1>7, <2>1 DEF LockSnapshot, TypeOK, MutexInv, ArgInv, PartInv, CopyInv, Locked, Oldest
<1>8. ASSUME NEW t \in Thread, CopySlot(t) PROVE IInv'
  <2>1. SlotInv'
    BY <1>8, EffectiveUnchanged, WindowUnchanged DEF CopySlot
  <2> DEFINE n == Len(part[t])
             x == Oldest(written, n + 1)
  <2>2. /\ part[t] \in Seq(Event \cup {Zero}) /\ n \in Nat /\ n < LenAt(written)
        /\ part' = [part EXCEPT ![t] = Append(part[t], x)]
        /\ written \in Nat /\ LenAt(written) \in Nat
    BY <1>8, LenAtRange DEF CopySlot, TypeOK
  <2>3. x \in Event
    <3>1. Effective = written
      BY <1>8, EffectiveWritten DEF CopySlot, MutexInv, Locked
    <3> QED
      BY <2>2, <3>1 DEF SlotInv
  <2> HIDE DEF x
  <2>4. TypeOK'
    BY <1>8, <2>2, <2>3 DEF CopySlot, TypeOK
  <2>5. PartInv'
    <3>1. \A k \in 1..(n + 1) : Append(part[t], x)[k] = Oldest(written, k)
      BY <1>8, <2>2 DEF x, CopySlot, PartInv
    <3>2. part'[t] = Append(part[t], x) /\ Len(part'[t]) = n + 1
      BY <2>2 DEF TypeOK
    <3>3. \A k \in Nat : Oldest(written, k)' = Oldest(written, k)
      BY <1>8 DEF CopySlot, Oldest
    <3>4. \A u \in Thread : u # t => part'[u] = part[u] /\ pc[u] # "copy"
      BY <1>8, <2>2 DEF CopySlot, MutexInv, Locked
    <3> QED
      BY <1>8, <2>2, <3>1, <3>2, <3>3, <3>4 DEF CopySlot, PartInv
  <2> QED
    BY <1>8, <2>1, <2>4, <2>5 DEF CopySlot, MutexInv, ArgInv, CopyInv
<1>9. ASSUME NEW t \in Thread, EndSnapshot(t) PROVE IInv'
  <2>1. SlotInv'
    BY <1>9, EffectiveUnchanged, WindowUnchanged DEF EndSnapshot
  <2>2. Effective = written
    BY <1>9, EffectiveWritten DEF EndSnapshot, MutexInv, Locked
  <2>3. part[t] \in Seq(Event)
    <3>1. /\ Len(part[t]) = LenAt(written) /\ part[t] \in Seq(Event \cup {Zero})
          /\ \A k \in 1..Len(part[t]) : part[t][k] = Oldest(written, k)
      BY <1>9 DEF EndSnapshot, PartInv, TypeOK
    <3>2. \A k \in 1..Len(part[t]) : part[t][k] \in Event
      BY <2>2, <3>1 DEF SlotInv
    <3> QED
      BY <3>1, <3>2
  <2>4. /\ LenAt(written) \in Nat
        /\ Len(<<>>) = 0
    BY LenAtRange DEF TypeOK
  <2>5. TypeOK'
    BY <1>9, <2>4 DEF EndSnapshot, TypeOK
  <2> QED
    BY <1>9, <2>1, <2>3, <2>5 DEF EndSnapshot, TypeOK, MutexInv, ArgInv, PartInv, CopyInv, Locked, Oldest
<1>10. ASSUME NEW t \in Thread, CallFn(t) PROVE IInv'
  <2>1. SlotInv'
    BY <1>10, EffectiveUnchanged, WindowUnchanged DEF CallFn
  <2>2. Tail(copy[t]) \in Seq(Event) /\ <<>> \in Seq(Event)
    BY <1>10 DEF CallFn, CopyInv
  <2>3. copy' \in [Thread -> Seq(Event)]
    BY <1>10, <2>2 DEF CallFn, CopyInv, TypeOK
  <2> QED
    BY <1>10, <2>1, <2>3 DEF CallFn, TypeOK, MutexInv, ArgInv, PartInv, CopyInv, Locked, Oldest
<1> QED
  BY <1>1, <1>2, <1>3, <1>4, <1>5, <1>6, <1>7, <1>8, <1>9, <1>10 DEF Next, Step

(* The inductive invariant holds of every behaviour. *)
THEOREM Invariant == Spec => []IInv
  BY InitInv, NextInv, PTL DEF Spec

(* Types, and the length of a snapshot under construction. *)
THEOREM TypeCorrect == Spec => []TypeOK
  BY Invariant, PTL DEF IInv

(* Whatever the capacity, a reader is never handed a slot that no push      *)
(* wrote, although the array is allocated full of zero events.              *)
THEOREM OnlyPushedEventsRead == Spec => []NoZeroEventRead
<1>1. IInv => NoZeroEventRead
  <2> SUFFICES ASSUME IInv, NEW t \in Thread
               PROVE  \A s \in {part[t], copy[t]} : \A k \in DOMAIN s : s[k] \in Event
    BY DEF NoZeroEventRead
  <2>1. \A k \in DOMAIN copy[t] : copy[t][k] \in Event
    BY DEF IInv, CopyInv
  <2>2. CASE pc[t] # "copy"
    BY <2>1, <2>2 DEF IInv, PartInv
  <2>3. CASE pc[t] = "copy"
    <3>1. Effective = written
      BY <2>3, NamesAssumption, EffectiveWritten DEF IInv, MutexInv, Locked
    <3>2. /\ part[t] \in Seq(Event \cup {Zero})
          /\ Len(part[t]) <= LenAt(written) /\ LenAt(written) \in Nat
          /\ \A k \in 1..Len(part[t]) : part[t][k] = Oldest(written, k)
      BY <2>3, LenAtRange DEF IInv, TypeOK, PartInv
    <3>3. \A k \in 1..LenAt(written) : Oldest(written, k) \in Event
      BY <3>1 DEF IInv, SlotInv
    <3> QED
      BY <2>1, <3>2, <3>3
  <2> QED
    BY <2>2, <2>3
<1> QED
  BY <1>1, Invariant, PTL

----------------------------------------------------------------------------
(* The refinement. *)

(* A new buffer stands for the empty log, of which nothing is lost. *)
LEMMA RefinesInit == Init => BL!Init
<1>1. Init => Effective = 0 /\ LenAt(0) = 0
  BY SizeAssumption DEF Init, Effective, LenAt
<1> QED
  BY <1>1 DEF Init, BL!Init, Retained, Dropped

(* The linearisation point of a push: storing the event is a push of the    *)
(* bounded log, on a buffer that is full and on one that is not.            *)
LEMMA RefinesPush ==
  ASSUME IInv, NEW t \in Thread, StoreEvent(t)
  PROVE  BL!Push(arg[t])
<1> DEFINE w == written
           old == Retained(w)
           e == arg[t]
           ew == Stored(events, w, e)
<1>1. /\ Effective = w /\ Effective' = w + 1 /\ w \in Nat
      /\ events' = ew
      /\ events \in [0..(Size - 1) -> Event \cup {Zero}]
      /\ copy' = copy
  BY EffectiveStore DEF IInv, TypeOK, StoreEvent
<1>2. /\ LenAt(w) = IF w < Size THEN w ELSE Size
      /\ LenAt(w + 1) = IF w < Size THEN w + 1 ELSE Size
  BY <1>1, SizeAssumption DEF LenAt
<1>3. Retained(Effective)' = [k \in 1..LenAt(w + 1) |-> WindowAt(ew, w + 1, k)]
  BY <1>1 DEF Retained, Oldest, WindowAt
<1>4. old = [k \in 1..LenAt(w) |-> WindowAt(events, w, k)]
  BY DEF Retained, Oldest, WindowAt
<1>5. Dropped(Effective)' = (w + 1) - LenAt(w + 1) /\ Dropped(Effective) = w - LenAt(w)
  <2>1. Dropped(Effective)' = Effective' - LenAt(Effective')
    BY DEF Dropped, LenAt
  <2> QED
    BY <1>1, <2>1 DEF Dropped
<1>6. LenAt(w) \in Nat /\ Len(old) = LenAt(w) /\ old \in Seq(Event)
  <2>1. \A k \in 1..LenAt(w) : WindowAt(events, w, k) \in Event
    BY <1>1 DEF IInv, SlotInv, Oldest, WindowAt
  <2>2. LenAt(w) \in Nat
    BY <1>1, LenAtRange
  <2> HIDE DEF w, old
  <2> QED
    BY <1>4, <2>1, <2>2
<1>7. CASE w < Size
  <2>1. \A k \in 1..w : WindowAt(ew, w + 1, k) = WindowAt(events, w, k)
    BY <1>1, <1>2, <1>7, StoreMovesWindow
  <2>2. WindowAt(ew, w + 1, w + 1) = e
    BY <1>1, <1>2, <1>7, StoreMovesWindow
  <2>3. Retained(Effective)' = Append(old, e)
    <3> HIDE DEF w, e, ew, old
    <3> QED
      BY <1>1, <1>2, <1>3, <1>4, <1>6, <1>7, <2>1, <2>2
  <2> QED
    BY <1>1, <1>2, <1>5, <1>6, <1>7, <2>3, SizeAssumption DEF BL!Push
<1>8. CASE ~(w < Size)
  <2>1. \A k \in 1..(Size - 1) : WindowAt(ew, w + 1, k) = WindowAt(events, w, k + 1)
    BY <1>1, <1>2, <1>8, SizeAssumption, StoreMovesWindow
  <2>2. WindowAt(ew, w + 1, Size) = e
    BY <1>1, <1>2, <1>8, SizeAssumption, StoreMovesWindow
  <2>3. Retained(Effective)' = Append(Tail(old), e)
    <3> DEFINE n == Size
    <3>1. n \in Nat \ {0}
      BY SizeAssumption
    <3> HIDE DEF w, e, ew, old, n
    <3>2. LenAt(w) = n /\ LenAt(w + 1) = n
      BY <1>2, <1>8 DEF n
    <3> DEFINE tl == Tail(old)
    <3>3. /\ tl \in Seq(Event) /\ Len(tl) = n - 1
          /\ \A k \in 1..(n - 1) : tl[k] = WindowAt(events, w, k + 1)
      BY <1>4, <1>6, <3>1, <3>2
    <3>4. e \in Event
      BY EffectiveStore DEF e
    <3> HIDE DEF tl
    <3>5. /\ Append(tl, e) \in Seq(Event) /\ Len(Append(tl, e)) = n
          /\ \A k \in 1..n : Append(tl, e)[k] = IF k = n THEN e ELSE WindowAt(events, w, k + 1)
      BY <3>1, <3>3, <3>4
    <3>6. \A k \in 1..n : Append(tl, e)[k] = WindowAt(ew, w + 1, k)
      BY <2>1, <2>2, <3>1, <3>5 DEF n
    <3>7. Append(tl, e) = [k \in 1..n |-> WindowAt(ew, w + 1, k)]
      <4>1. \A s \in Seq(Event) : s = [k \in 1..Len(s) |-> s[k]]
        OBVIOUS
      <4>2. Append(tl, e) = [k \in 1..n |-> Append(tl, e)[k]]
        BY <3>5, <4>1
      <4> QED
        BY <3>6, <4>2, Zenon
    <3> QED
      BY <1>3, <3>2, <3>7 DEF tl
  <2> QED
    BY <1>1, <1>2, <1>5, <1>6, <1>8, <2>3, SizeAssumption DEF BL!Push
<1> QED
  BY <1>7, <1>8

(* Every step of the buffer is a step of the bounded log, or none. *)
LEMMA RefinesNext == IInv /\ [Next]_vars => [BL!Next]_BL!vars
<1> SUFFICES ASSUME IInv, [Next]_vars PROVE [BL!Next]_BL!vars
  OBVIOUS
<1> USE DEF Goto, BL!vars
<1>1. CASE UNCHANGED vars
  BY <1>1, WindowUnchanged DEF vars, Effective
<1>2. ASSUME NEW t \in Thread, NEW e \in Event, CallPush(t, e) PROVE UNCHANGED BL!vars
  BY <1>2, EffectiveUnchanged, WindowUnchanged DEF CallPush, IInv
<1>3. ASSUME NEW t \in Thread, LockPush(t) PROVE UNCHANGED BL!vars
  BY <1>3, EffectiveUnchanged, WindowUnchanged DEF LockPush, IInv
<1>4. ASSUME NEW t \in Thread, StoreEvent(t) PROVE BL!Next
  BY <1>4, RefinesPush, EffectiveStore DEF BL!Next
<1>5. ASSUME NEW t \in Thread, BumpWritten(t) PROVE UNCHANGED BL!vars
  BY <1>5, EffectiveBump, WindowUnchanged DEF BumpWritten
<1>6. ASSUME NEW t \in Thread, CallRange(t) PROVE UNCHANGED BL!vars
  BY <1>6, EffectiveUnchanged, WindowUnchanged DEF CallRange, IInv
<1>7. ASSUME NEW t \in Thread, LockSnapshot(t) PROVE UNCHANGED BL!vars
  BY <1>7, EffectiveUnchanged, WindowUnchanged DEF LockSnapshot, IInv
<1>8. ASSUME NEW t \in Thread, CopySlot(t) PROVE UNCHANGED BL!vars
  BY <1>8, EffectiveUnchanged, WindowUnchanged DEF CopySlot, IInv
<1>9. ASSUME NEW t \in Thread, EndSnapshot(t) PROVE BL!Next
  <2>1. Effective = written /\ Effective' = Effective /\ events' = events
    BY <1>9, NamesAssumption, EffectiveWritten, EffectiveUnchanged
    DEF EndSnapshot, IInv, MutexInv, Locked
  <2>2. part[t] = Retained(written)
    <3>1. /\ part[t] \in Seq(Event \cup {Zero}) /\ Len(part[t]) = LenAt(written)
          /\ \A k \in 1..Len(part[t]) : part[t][k] = Oldest(written, k)
      BY <1>9 DEF EndSnapshot, IInv, TypeOK, PartInv
    <3> QED
      BY <3>1 DEF Retained
  <2>3. copy[t] = <<>> /\ copy' = [copy EXCEPT ![t] = part[t]]
    BY <1>9 DEF EndSnapshot, IInv, CopyInv
  <2> QED
    BY <2>1, <2>2, <2>3, WindowUnchanged DEF BL!Next, BL!Snapshot
<1>10. ASSUME NEW t \in Thread, CallFn(t) PROVE BL!Next
  <2>1. UNCHANGED <<Retained(Effective), Dropped(Effective)>>
    BY <1>10, EffectiveUnchanged, WindowUnchanged DEF CallFn, IInv
  <2> QED
    BY <1>10, <2>1 DEF CallFn, BL!Next, BL!Walk
<1> QED
  BY <1>1, <1>2, <1>3, <1>4, <1>5, <1>6, <1>7, <1>8, <1>9, <1>10 DEF Next, Step

(* The ring buffer implements the log of its Size newest events, for every  *)
(* capacity and any number of threads.                                      *)
THEOREM Refinement == Spec => ImplementsBoundedLog
<1>1. IInv /\ [Next]_vars => [BL!Next]_BL!vars
  BY RefinesNext
<1> QED
  BY <1>1, RefinesInit, Invariant, PTL DEF Spec, ImplementsBoundedLog, BL!Spec
=============================================================================
