---------------------------- MODULE StreamService ----------------------------
(* What the streams between agents and the coordinator promise, each side of *)
(* which is modelled in detail elsewhere (modules Agent and Coordinator):    *)
(* messages are delivered in order, none twice and none left out, until the  *)
(* stream breaks and loses what was in flight; one that breaks is never used *)
(* again; an answer counts all that was delivered on a stream that was       *)
(* closed. Nothing that was to be sent is given up before the stream broke   *)
(* or the sender was told to stop.                                           *)
EXTENDS Integers, Sequences, SequencesExt

CONSTANTS Stream,
          Source,    \* Source[s]: what stream s has to send from the start
          Event,     \* what may be added to that
          Rejected   \* messages the receiver leaves out

VARIABLES cancelled, \* the sender was told to stop
          todo,      \* todo[s]: what is to be sent
          flight,    \* flight[s]: sent and neither delivered nor lost
          got,       \* got[s]: delivered
          state,     \* state[s]: none, open, halfclosed, acked, broken
          ack        \* ack[s]: the count answered

vars == <<cancelled, todo, flight, got, state, ack>>

Init == /\ cancelled = FALSE /\ todo = Source
        /\ flight = [s \in Stream |-> <<>>] /\ got = [s \in Stream |-> <<>>]
        /\ state = [s \in Stream |-> "none"] /\ ack = [s \in Stream |-> 0]

Cancel == cancelled' = TRUE /\ UNCHANGED <<todo, flight, got, state, ack>>

Add(s) == /\ \E e \in Event : todo' = [todo EXCEPT ![s] = Append(@, e)]
          /\ UNCHANGED <<cancelled, flight, got, state, ack>>

GiveUp(s) == /\ cancelled \/ state[s] = "broken"
             /\ \E i \in DOMAIN todo[s] : todo' = [todo EXCEPT ![s] = RemoveAt(@, i)]
             /\ UNCHANGED <<cancelled, flight, got, state, ack>>

Open(s) == /\ state[s] = "none"
           /\ state' = [state EXCEPT ![s] = "open"]
           /\ UNCHANGED <<cancelled, todo, flight, got, ack>>

Send(s) == /\ state[s] = "open" /\ todo[s] # <<>>
           /\ flight' = [flight EXCEPT ![s] = Append(@, Head(todo[s]))]
           /\ todo' = [todo EXCEPT ![s] = Tail(@)]
           /\ UNCHANGED <<cancelled, got, state, ack>>

Deliver(s) == /\ state[s] \in {"open", "halfclosed"} /\ flight[s] # <<>>
              /\ flight' = [flight EXCEPT ![s] = Tail(@)]
              /\ got' = IF Head(flight[s]) \in Rejected THEN got
                        ELSE [got EXCEPT ![s] = Append(@, Head(flight[s]))]
              /\ UNCHANGED <<cancelled, todo, state, ack>>

Close(s) == /\ state[s] = "open"
            /\ state' = [state EXCEPT ![s] = "halfclosed"]
            /\ UNCHANGED <<cancelled, todo, flight, got, ack>>

Answer(s) == /\ state[s] = "halfclosed" /\ flight[s] = <<>>
             /\ state' = [state EXCEPT ![s] = "acked"]
             /\ ack' = [ack EXCEPT ![s] = Len(got[s])]
             /\ UNCHANGED <<cancelled, todo, flight, got>>

(* Also while the answer is on its way. *)
Break(s) == /\ state[s] \in {"open", "halfclosed", "acked"}
            /\ state' = [state EXCEPT ![s] = "broken"]
            /\ flight' = [flight EXCEPT ![s] = <<>>]
            /\ UNCHANGED <<cancelled, todo, got, ack>>

Next == \/ Cancel
        \/ \E s \in Stream : \/ Add(s) \/ GiveUp(s) \/ Open(s) \/ Send(s) \/ Deliver(s)
                             \/ Close(s) \/ Answer(s) \/ Break(s)

Spec == Init /\ [][Next]_vars
=============================================================================
