----------------------------- MODULE BoundedLog -----------------------------
(* What the agent's local history promises to its users: a log of the Cap   *)
(* newest events, a count of the events it had to give up, and snapshots    *)
(* that a thread walks while the log moves on. RingBuffer implements it.     *)
EXTENDS Integers, Sequences

CONSTANTS Event, Thread, Cap

VARIABLES log,  \* the retained events, oldest first
          lost, \* how many events have been overwritten
          view  \* view[t]: what thread t still has to see of its snapshot

vars == <<log, lost, view>>

Init == /\ log = <<>>
        /\ lost = 0
        /\ view = [t \in Thread |-> <<>>]

(* A push never fails: a full log gives up its oldest event. *)
Push(e) == /\ IF Len(log) < Cap
              THEN log' = Append(log, e) /\ lost' = lost
              ELSE log' = Append(Tail(log), e) /\ lost' = lost + 1
           /\ UNCHANGED view

(* A snapshot is the whole log of one instant. *)
Snapshot(t) == /\ view[t] = <<>>
               /\ view' = [view EXCEPT ![t] = log]
               /\ UNCHANGED <<log, lost>>

(* The walk sees the oldest event it has not seen, or is given up. *)
Walk(t) == /\ view[t] # <<>>
           /\ \/ view' = [view EXCEPT ![t] = Tail(@)]
              \/ view' = [view EXCEPT ![t] = <<>>]
           /\ UNCHANGED <<log, lost>>

Next == \/ \E e \in Event : Push(e)
        \/ \E t \in Thread : Snapshot(t) \/ Walk(t)

Spec == Init /\ [][Next]_vars
=============================================================================
