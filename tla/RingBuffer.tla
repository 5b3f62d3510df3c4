----------------------------- MODULE RingBuffer -----------------------------
(* internal/buffer/ringbuffer.go: the overwrite-oldest buffer that keeps an *)
(* agent's recent history. Threads push and walk snapshots concurrently;    *)
(* the mutex is modelled, with one step per memory access made under it, so *)
(* that what the mutex protects is checked and not assumed.                 *)
EXTENDS Integers, Sequences, FiniteSets

CONSTANTS Event,     \* what is pushed
          Thread,    \* goroutines that use the buffer
          Capacity,  \* NewRingBuffer's argument, any int
          MaxPushes, \* bound: calls of Push in a behaviour
          NoThread,  \* value of mu when it is free
          Zero       \* a slot never written: the zero Event

(* bits.Len64: the number of bits of n. *)
Len64(n) == CHOOSE k \in 0..64 : /\ n < 2^k
                                 /\ \A j \in 0..(k - 1) : 2^j <= n

(* The rounded-up capacity, len(rb.events); `& mask` is `% Size` since Size *)
(* is a power of two.                                                       *)
Size == 2 ^ Len64(IF Capacity < 1 THEN 0 ELSE Capacity - 1)

(* The arithmetic of Len64 for the instance at hand: the proofs need no     *)
(* more of it than this, and in particular not that Size is a power of two. *)
ASSUME SizeAssumption == Size \in Nat \ {0}
ASSUME NamesAssumption == NoThread \notin Thread /\ Zero \notin Event

VARIABLES events,  \* the slots
          written, \* total events ever pushed
          mu,      \* the holder of the mutex
          pc,      \* pc[t]: where thread t is
          arg,     \* arg[t]: the event thread t is pushing
          part,    \* part[t]: Snapshot's out while it is being filled
          copy     \* copy[t]: what Range has still to hand to fn

vars == <<events, written, mu, pc, arg, part, copy>>

Slot(k) == k % Size

(* Mutant: the buffer always counts as full. *)
LenAtAlwaysFull(w) == Size
(* lenLocked, for a buffer that was pushed w events in all. *)
LenAt(w) == IF w > Size THEN Size ELSE w

(* The k-th oldest retained event, and the retained events in order. *)
Oldest(w, k) == events[Slot((w - LenAt(w)) + (k - 1))]
Retained(w) == [k \in 1..LenAt(w) |-> Oldest(w, k)]
Dropped(w) == w - LenAt(w)

Init == /\ events = [i \in 0..(Size - 1) |-> Zero]
        /\ written = 0
        /\ mu = NoThread
        /\ pc = [t \in Thread |-> "idle"]
        /\ arg = [t \in Thread |-> Zero]
        /\ part = [t \in Thread |-> <<>>]
        /\ copy = [t \in Thread |-> <<>>]

Goto(t, from, to) == pc[t] = from /\ pc' = [pc EXCEPT ![t] = to]

Pushing == {t \in Thread : pc[t] \in {"push", "store", "bump"}}

(* Push(e) is called: by anyone, from inside Range's fn too. *)
CallPush(t, e) == /\ Goto(t, "idle", "push")
                  /\ written + Cardinality(Pushing) < MaxPushes
                  /\ arg' = [arg EXCEPT ![t] = e]
                  /\ UNCHANGED <<events, written, mu, part, copy>>

(* Mutant: Push does not take the mutex, it only believes it has it. *)
LockPushUnguarded(t) == /\ Goto(t, "push", "store")
                        /\ mu' = t
                        /\ UNCHANGED <<events, written, arg, part, copy>>

LockPush(t) == /\ Goto(t, "push", "store")
               /\ mu = NoThread
               /\ mu' = t
               /\ UNCHANGED <<events, written, arg, part, copy>>

StoreEvent(t) == /\ Goto(t, "store", "bump")
                 /\ events' = [events EXCEPT ![Slot(written)] = arg[t]]
                 /\ UNCHANGED <<written, mu, arg, part, copy>>

(* written++ and Unlock. *)
BumpWritten(t) == /\ Goto(t, "bump", "idle")
                  /\ written' = written + 1
                  /\ mu' = NoThread
                  /\ arg' = [arg EXCEPT ![t] = Zero]
                  /\ UNCHANGED <<events, part, copy>>

(* Range, which begins with a Snapshot. *)
CallRange(t) == /\ Goto(t, "idle", "range")
                /\ copy[t] = <<>>
                /\ UNCHANGED <<events, written, mu, arg, part, copy>>

LockSnapshot(t) == /\ Goto(t, "range", "copy")
                   /\ mu = NoThread
                   /\ mu' = t
                   /\ UNCHANGED <<events, written, arg, part, copy>>

(* Mutant: i <= n in the loop's condition. *)
CopySlotPastEnd(t) ==
    /\ pc[t] = "copy"
    /\ Len(part[t]) <= LenAt(written)
    /\ part' = [part EXCEPT ![t] = Append(@, Oldest(written, Len(@) + 1))]
    /\ UNCHANGED <<events, written, mu, pc, arg, copy>>

(* One iteration of Snapshot's loop. *)
CopySlot(t) ==
    /\ pc[t] = "copy"
    /\ Len(part[t]) < LenAt(written)
    /\ part' = [part EXCEPT ![t] = Append(@, Oldest(written, Len(@) + 1))]
    /\ UNCHANGED <<events, written, mu, pc, arg, copy>>

(* Mutant: Range keeps the mutex while it iterates. *)
EndSnapshotLocked(t) == /\ Goto(t, "copy", "idle")
                        /\ Len(part[t]) = LenAt(written)
                        /\ copy' = [copy EXCEPT ![t] = part[t]]
                        /\ part' = [part EXCEPT ![t] = <<>>]
                        /\ UNCHANGED <<events, written, mu, arg>>

(* The loop is over: unlock, and Range has its copy. *)
EndSnapshot(t) == /\ Goto(t, "copy", "idle")
                  /\ Len(part[t]) = LenAt(written)
                  /\ mu' = NoThread
                  /\ copy' = [copy EXCEPT ![t] = part[t]]
                  /\ part' = [part EXCEPT ![t] = <<>>]
                  /\ UNCHANGED <<events, written, arg>>

(* fn is given the next event of the copy and asks for more, or for no more. *)
CallFn(t) == /\ pc[t] = "idle"
             /\ copy[t] # <<>>
             /\ \/ copy' = [copy EXCEPT ![t] = Tail(@)]
                \/ copy' = [copy EXCEPT ![t] = <<>>]
             /\ UNCHANGED <<events, written, mu, pc, arg, part>>

Step(t) == \/ \E e \in Event : CallPush(t, e)
           \/ LockPush(t) \/ StoreEvent(t) \/ BumpWritten(t)
           \/ CallRange(t) \/ LockSnapshot(t) \/ CopySlot(t) \/ EndSnapshot(t)
           \/ CallFn(t)

Next == \E t \in Thread : Step(t)

(* sync.Mutex hands itself to a waiter that has waited too long, so a lock  *)
(* request is served whenever the mutex is free again and again; a running  *)
(* goroutine gets to run. Nobody is obliged to call the buffer.             *)
Fairness ==
    \A t \in Thread :
        /\ SF_vars(LockPush(t)) /\ SF_vars(LockSnapshot(t))
        /\ WF_vars(StoreEvent(t) \/ BumpWritten(t))
        /\ WF_vars(CopySlot(t) \/ EndSnapshot(t))

Spec == Init /\ [][Next]_vars
FairSpec == Spec /\ Fairness

----------------------------------------------------------------------------

(* Types, and out never longer than the array Snapshot makes for it         *)
(* (ringbuffer.go:67).                                                      *)
TypeOK == /\ events \in [0..(Size - 1) -> Event \cup {Zero}]
          /\ written \in Nat
          /\ mu \in Thread \cup {NoThread}
          /\ pc \in [Thread -> {"idle", "push", "store", "bump", "range", "copy"}]
          /\ arg \in [Thread -> Event \cup {Zero}]
          /\ part \in [Thread -> Seq(Event \cup {Zero})]
          /\ \A t \in Thread : Len(part[t]) <= LenAt(written)
          /\ copy \in [Thread -> Seq(Event \cup {Zero})]

(* A push takes effect when its event is stored: from then on, and until    *)
(* written catches up, the oldest event of a full buffer is gone.           *)
Effective == IF \E t \in Thread : pc[t] = "bump" THEN written + 1 ELSE written

(* The bounded log this buffer stands for. *)
BL == INSTANCE BoundedLog WITH Cap <- Size,
                               log <- Retained(Effective),
                               lost <- Dropped(Effective),
                               view <- copy

(* Every behaviour of the buffer is one of the bounded log: Len, Dropped    *)
(* and Snapshot agree with a log that keeps the Size newest pushes, a       *)
(* snapshot is the state of one instant although it is copied slot by slot, *)
(* and a walk over it is not disturbed by pushes (ringbuffer.go:13, 33, 62, *)
(* 75).                                                                     *)
ImplementsBoundedLog == BL!Spec

(* No slot that was never written is handed to a reader, although the       *)
(* backing array is allocated full of zero events (ringbuffer.go:27, 63-71).*)
NoZeroEventRead == \A t \in Thread : \A s \in {part[t], copy[t]} :
                       \A k \in DOMAIN s : s[k] \in Event

(* Every call returns, the pushes made from inside Range's fn included: fn  *)
(* may call back into the buffer without deadlock (ringbuffer.go:75-76).    *)
CallsReturn == \A t \in Thread : (pc[t] # "idle") ~> (pc[t] = "idle")
=============================================================================
