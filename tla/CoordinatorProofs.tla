-------------------------- MODULE CoordinatorProofs --------------------------
(* For any number of agent streams and of report calls, and whatever Live    *)
(* may keep, the coordinator is type correct, keeps to its bound on memory,  *)
(* computes each report from the state of one instant after the call, serves *)
(* every stream as StreamService promises, and loses nothing when it stops.  *)
EXTENDS Coordinator, FlowLemmas, FiniteSetTheorems, TLAPS

Message == Stream \X Nat

(* The strengthening. HandlerInv says that an event is counted after it was  *)
(* read and before the next is; LiveInv that Live is the tail of the history *)
(* it forgets; SnapInv that a call in progress holds such a tail.            *)
Peers == [sent : 0..MaxMessages, closed : BOOLEAN, broken : BOOLEAN]
Handlers == [at : {"none", "recv", "ingest", "count", "ended"},
             read : Nat, n : Nat, ack : Nat \cup {NoAck}]
Reports == [at : {"idle", "called", "analysing", "done"}, from : Nat, snap : Seq(Message)]
Shapes ==
    /\ server \in {"serving", "stopping", "stopped"}
    /\ peer \in [Stream -> Peers]
    /\ handler \in [Stream -> Handlers]
    /\ received \in Nat
    /\ live \in Seq(Message) /\ log \in Seq(Message)
    /\ report \in [Caller -> Reports]
HandlerOK(s) ==
    /\ handler[s].read <= peer[s].sent /\ handler[s].n <= handler[s].read
    /\ handler[s].at \in {"ingest", "count"} => handler[s].n < handler[s].read
    /\ handler[s].ack = NoAck \/ handler[s].ack <= handler[s].n
HandlerInv == \A s \in Stream : HandlerOK(s)
LiveInv == live = Newest(log)
SnapOK(c) ==
    /\ report[c].from <= Len(log)
    /\ report[c].at \in {"analysing", "done"} =>
           \E k \in report[c].from..Len(log) : report[c].snap = Newest(SubSeq(log, 1, k))
SnapInv == \A c \in Caller : SnapOK(c)

IInv == Shapes /\ HandlerInv /\ LiveInv /\ SnapInv

----------------------------------------------------------------------------
(* Live's slice (coordinator.go:78-81). *)

(* Newest keeps the tail of a slice, and never more than MaxEvents. *)
LEMMA NewestTail ==
    ASSUME NEW T, NEW q \in Seq(T)
    PROVE  /\ Newest(q) \in Seq(T)
           /\ Len(Newest(q)) = IF Len(q) > MaxEvents THEN MaxEvents ELSE Len(q)
           /\ \A i \in 1..Len(Newest(q)) : Newest(q)[i] = q[Len(q) - Len(Newest(q)) + i]
<1>1. MaxEvents \in Nat \ {0}
  BY CoordinatorAssumption
<1>2. CASE Len(q) > MaxEvents
  <2>1. Newest(q) = SubSeq(q, Len(q) - MaxEvents + 1, Len(q))
    BY <1>2 DEF Newest
  <2>2. /\ SubSeq(q, Len(q) - MaxEvents + 1, Len(q)) \in Seq(T)
        /\ Len(SubSeq(q, Len(q) - MaxEvents + 1, Len(q))) = MaxEvents
        /\ \A i \in 1..MaxEvents :
               SubSeq(q, Len(q) - MaxEvents + 1, Len(q))[i] = q[Len(q) - MaxEvents + i]
    BY <1>1, <1>2
  <2> QED
    BY <1>2, <2>1, <2>2
<1>3. CASE ~(Len(q) > MaxEvents)
  BY <1>3 DEF Newest
<1> QED
  BY <1>2, <1>3

(* Two sequences with the same elements at the same places are equal. *)
LEMMA SameElements ==
    ASSUME NEW T, NEW p \in Seq(T), NEW q \in Seq(T), Len(p) = Len(q),
           \A i \in 1..Len(p) : p[i] = q[i]
    PROVE  p = q
  OBVIOUS

(* Dropping the oldest at each event keeps what dropping them at the end     *)
(* would: Live's eviction is the tail of all that was ingested.              *)
LEMMA EvictionIsTail ==
    ASSUME NEW T, NEW q \in Seq(T), NEW e \in T
    PROVE  Newest(Append(Newest(q), e)) = Newest(Append(q, e))
<1> DEFINE p == Append(Newest(q), e)
           r == Append(q, e)
<1>1. MaxEvents \in Nat \ {0}
  BY CoordinatorAssumption
<1>2. /\ Newest(q) \in Seq(T)
      /\ Len(Newest(q)) = IF Len(q) > MaxEvents THEN MaxEvents ELSE Len(q)
      /\ \A i \in 1..Len(Newest(q)) : Newest(q)[i] = q[Len(q) - Len(Newest(q)) + i]
  BY NewestTail
<1>3. /\ p \in Seq(T) /\ Len(p) = Len(Newest(q)) + 1
      /\ \A i \in 1..Len(Newest(q)) : p[i] = Newest(q)[i]
      /\ p[Len(p)] = e
  BY <1>2
<1>4. /\ r \in Seq(T) /\ Len(r) = Len(q) + 1
      /\ \A i \in 1..Len(q) : r[i] = q[i]
      /\ r[Len(r)] = e
  OBVIOUS
<1> HIDE DEF p, r
<1>5. \A i \in 1..Len(p) : p[i] = r[Len(r) - Len(p) + i]
  <2> TAKE i \in 1..Len(p)
  <2>1. /\ Len(q) \in Nat /\ Len(Newest(q)) \in 0..Len(q)
        /\ Len(r) - Len(p) = Len(q) - Len(Newest(q))
    BY <1>1, <1>2, <1>3, <1>4
  <2>2. CASE i = Len(p)
    BY <1>3, <1>4, <2>1, <2>2
  <2>3. CASE i # Len(p)
    <3>1. i \in 1..Len(Newest(q)) /\ Len(q) - Len(Newest(q)) + i \in 1..Len(q)
      BY <1>3, <2>1, <2>3
    <3> QED
      BY <1>2, <1>3, <1>4, <2>1, <3>1
  <2> QED
    BY <2>2, <2>3
<1>6. /\ Newest(p) \in Seq(T)
      /\ Len(Newest(p)) = IF Len(p) > MaxEvents THEN MaxEvents ELSE Len(p)
      /\ \A i \in 1..Len(Newest(p)) : Newest(p)[i] = p[Len(p) - Len(Newest(p)) + i]
  BY <1>3, NewestTail
<1>7. /\ Newest(r) \in Seq(T)
      /\ Len(Newest(r)) = IF Len(r) > MaxEvents THEN MaxEvents ELSE Len(r)
      /\ \A i \in 1..Len(Newest(r)) : Newest(r)[i] = r[Len(r) - Len(Newest(r)) + i]
  BY <1>4, NewestTail
<1>8. Len(Newest(p)) = Len(Newest(r))
  BY <1>1, <1>2, <1>3, <1>4, <1>6, <1>7
<1>9. \A i \in 1..Len(Newest(p)) : Newest(p)[i] = Newest(r)[i]
  <2> TAKE i \in 1..Len(Newest(p))
  <2>1. Len(p) \in Nat /\ Len(r) \in Nat /\ Len(Newest(p)) \in 0..Len(p)
    BY <1>1, <1>3, <1>4, <1>6
  <2>2. Len(p) - Len(Newest(p)) + i \in 1..Len(p)
    BY <2>1
  <2>3. Len(r) - Len(p) + (Len(p) - Len(Newest(p)) + i) = Len(r) - Len(Newest(r)) + i
    BY <1>8, <2>1
  <2> QED
    BY <1>5, <1>6, <1>7, <1>8, <2>2, <2>3
<1> QED
  BY <1>6, <1>7, <1>8, <1>9, SameElements DEF p, r

(* The past of an append-only history does not change. *)
LEMMA PastStays ==
    ASSUME NEW T, NEW q \in Seq(T), NEW e \in T, NEW k \in 0..Len(q)
    PROVE  SubSeq(Append(q, e), 1, k) = SubSeq(q, 1, k)
<1>1. /\ SubSeq(Append(q, e), 1, k) \in Seq(T) /\ SubSeq(q, 1, k) \in Seq(T)
      /\ Len(SubSeq(Append(q, e), 1, k)) = k /\ Len(SubSeq(q, 1, k)) = k
      /\ \A i \in 1..k : SubSeq(Append(q, e), 1, k)[i] = SubSeq(q, 1, k)[i]
  OBVIOUS
<1> QED
  BY <1>1, SameElements

----------------------------------------------------------------------------
(* The invariant. *)

LEMMA InitInvariant == Init => IInv
<1> SUFFICES ASSUME Init PROVE IInv
  OBVIOUS
<1>1. /\ MaxMessages \in Nat /\ MaxEvents \in Nat \ {0}
  BY CoordinatorAssumption
<1>2. Shapes
  BY <1>1 DEF Init, Shapes, Peers, Handlers, Reports
<1>3. HandlerInv
  BY DEF Init, HandlerInv, HandlerOK, NoAck
<1>4. LiveInv
  BY <1>1 DEF Init, LiveInv, Newest
<1>5. SnapInv
  BY DEF Init, SnapInv, SnapOK
<1> QED
  BY <1>2, <1>3, <1>4, <1>5 DEF IInv

(* The agents' ends only add to what was sent. *)
LEMMA PeerStep ==
    ASSUME IInv, NEW s \in Stream, Send(s) \/ HalfClose(s) \/ Break(s)
    PROVE  IInv'
<1> USE DEF IInv, Shapes
<1>1. MaxMessages \in Nat
  BY CoordinatorAssumption
<1>2. UNCHANGED <<server, handler, received, live, log, report>>
  BY DEF Send, HalfClose, Break
<1>3. peer' \in [Stream -> Peers]
  <2>1. CASE Send(s)
    <3>1. peer[s].sent + 1 \in 0..MaxMessages
      BY <1>1, <2>1 DEF Send, Peers
    <3> QED
      BY <2>1, <3>1 DEF Send, Peers
  <2>2. CASE HalfClose(s)
    BY <2>2 DEF HalfClose, Peers
  <2>3. CASE Break(s)
    BY <2>3 DEF Break, Peers
  <2> QED
    BY <2>1, <2>2, <2>3
<1>7. ASSUME NEW t \in Stream PROVE peer'[t].sent >= peer[t].sent
  <2>1. peer[t].sent \in Nat
    BY <1>1 DEF Peers
  <2>2. peer'[t].sent \in {peer[t].sent, peer[t].sent + 1}
    BY DEF Send, HalfClose, Break, Peers
  <2> QED
    BY <2>1, <2>2
<1>4. HandlerInv'
  <2> SUFFICES ASSUME NEW t \in Stream PROVE HandlerOK(t)'
    BY DEF HandlerInv
  <2>1. HandlerOK(t)
    BY DEF HandlerInv
  <2>2. /\ peer[t].sent \in Nat /\ peer'[t].sent \in Nat /\ handler[t].read \in Nat
        /\ peer'[t].sent >= peer[t].sent
    BY <1>1, <1>3, <1>7 DEF Peers, Handlers
  <2> QED
    BY <1>2, <2>1, <2>2 DEF HandlerOK
<1>5. LiveInv'
  BY <1>2 DEF LiveInv, Newest
<1>6. SnapInv'
  BY <1>2 DEF SnapInv, SnapOK, Newest
<1> QED
  BY <1>2, <1>3, <1>4, <1>5, <1>6

(* A handler's steps; only Ingest touches Live. *)
LEMMA HandlerStepKeeps ==
    ASSUME IInv, NEW s \in Stream, Accept(s) \/ HandlerStep(s)
    PROVE  IInv'
<1> USE DEF IInv, Shapes
<1>1. MaxMessages \in Nat /\ MaxEvents \in Nat \ {0}
  BY CoordinatorAssumption
<1>2. /\ handler[s].read \in Nat /\ handler[s].n \in Nat /\ peer[s].sent \in Nat
      /\ HandlerOK(s)
  BY <1>1 DEF HandlerInv, Peers, Handlers
<1>3. ASSUME handler' \in [Stream -> Handlers],
             \A t \in Stream : t # s => handler'[t] = handler[t],
             UNCHANGED <<server, peer, live, log, report>>,
             received' \in Nat, HandlerOK(s)'
      PROVE  IInv'
  <2>1. HandlerInv'
    <3>1. \A t \in Stream : t # s => (HandlerOK(t) => HandlerOK(t)')
      BY <1>3 DEF HandlerOK
    <3> QED
      BY <1>3, <3>1 DEF HandlerInv
  <2>2. LiveInv'
    BY <1>3 DEF LiveInv, Newest
  <2>3. SnapInv'
    BY <1>3 DEF SnapInv, SnapOK, Newest
  <2> QED
    BY <1>3, <2>1, <2>2, <2>3
<1>4. CASE Accept(s)
  <2>1. HandlerOK(s)'
    BY <1>2, <1>4 DEF Accept, HandlerOK, Handlers, NoAck
  <2>2. handler' \in [Stream -> Handlers]
    BY <1>2, <1>4 DEF Accept, Handlers
  <2>3. /\ \A t \in Stream : t # s => handler'[t] = handler[t]
        /\ UNCHANGED <<server, peer, live, log, report>> /\ received' \in Nat
    BY <1>4 DEF Accept
  <2> QED
    BY <1>3, <2>1, <2>2, <2>3
<1>5. CASE Recv(s)
  <2>1. HandlerOK(s)'
    BY <1>2, <1>5 DEF Recv, AfterMalformed, HandlerOK, Handlers, NoAck
  <2>2. handler' \in [Stream -> Handlers]
    <3>1. handler[s] \in Handlers /\ handler[s].read + 1 \in Nat
      BY <1>2
    <3>2. PICK a \in {"recv", "ingest"} :
              handler' = [handler EXCEPT ![s].read = @ + 1, ![s].at = a]
      BY <1>5 DEF Recv, AfterMalformed
    <3>3. [handler[s] EXCEPT !.read = @ + 1, !.at = a] \in Handlers
      BY <3>1 DEF Handlers
    <3> QED
      BY <3>2, <3>3
  <2>3. /\ \A t \in Stream : t # s => handler'[t] = handler[t]
        /\ UNCHANGED <<server, peer, live, log, report>> /\ received' \in Nat
    BY <1>5 DEF Recv
  <2> QED
    BY <1>3, <2>1, <2>2, <2>3
<1>6. CASE Count(s)
  <2>1. HandlerOK(s)'
    BY <1>2, <1>6 DEF Count, HandlerOK, Handlers, NoAck
  <2>2. handler' \in [Stream -> Handlers]
    <3>1. handler[s] \in Handlers /\ handler[s].n + 1 \in Nat
      BY <1>2
    <3>2. handler' = [handler EXCEPT ![s].at = "recv", ![s].n = @ + 1]
      BY <1>6 DEF Count
    <3>3. [handler[s] EXCEPT !.at = "recv", !.n = @ + 1] \in Handlers
      BY <3>1 DEF Handlers
    <3> QED
      BY <3>2, <3>3
  <2>3. /\ \A t \in Stream : t # s => handler'[t] = handler[t]
        /\ UNCHANGED <<server, peer, live, log, report>> /\ received' \in Nat
    BY <1>6 DEF Count
  <2> QED
    BY <1>3, <2>1, <2>2, <2>3
<1>7. CASE EndOfStream(s)
  <2>1. HandlerOK(s)'
    BY <1>2, <1>7 DEF EndOfStream, HandlerOK, Handlers, NoAck
  <2>2. handler' \in [Stream -> Handlers]
    BY <1>2, <1>7 DEF EndOfStream, Handlers
  <2>3. /\ \A t \in Stream : t # s => handler'[t] = handler[t]
        /\ UNCHANGED <<server, peer, live, log, report>> /\ received' \in Nat
    BY <1>7 DEF EndOfStream
  <2> QED
    BY <1>3, <2>1, <2>2, <2>3
<1>8. CASE RecvFails(s)
  <2>1. HandlerOK(s)'
    BY <1>2, <1>8 DEF RecvFails, HandlerOK, Handlers, NoAck
  <2>2. handler' \in [Stream -> Handlers]
    BY <1>2, <1>8 DEF RecvFails, Handlers
  <2>3. /\ \A t \in Stream : t # s => handler'[t] = handler[t]
        /\ UNCHANGED <<server, peer, live, log, report>> /\ received' \in Nat
    BY <1>8 DEF RecvFails
  <2> QED
    BY <1>3, <2>1, <2>2, <2>3
<1>9. CASE Ingest(s)
  <2> DEFINE e == <<s, handler[s].read>>
  <2>1. e \in Message
    BY <1>2 DEF Message
  <2>2. /\ live' = Newest(Append(live, e)) /\ log' = Append(log, e)
        /\ handler' = [handler EXCEPT ![s].at = "count"]
        /\ handler[s].at = "ingest"
        /\ UNCHANGED <<server, peer, received, report>>
    BY <1>9 DEF Ingest, Kept
  <2>3. LiveInv'
    <3>1. live' = Newest(Append(Newest(log), e))
      BY <2>2 DEF LiveInv
    <3>2. Newest(Append(Newest(log), e)) = Newest(Append(log, e))
      BY <2>1, EvictionIsTail
    <3>3. Newest(log)' = Newest(log')
      BY DEF Newest
    <3> QED
      BY <2>2, <3>1, <3>2, <3>3 DEF LiveInv
  <2>4. Shapes'
    <3>1. Append(live, e) \in Seq(Message) /\ log' \in Seq(Message)
      BY <2>1, <2>2
    <3>2. live' \in Seq(Message)
      BY <2>2, <3>1, NewestTail
    <3>3. handler' \in [Stream -> Handlers]
      BY <2>2 DEF Handlers
    <3> QED
      BY <2>2, <3>1, <3>2, <3>3
  <2>5. HandlerInv'
    <3>1. \A t \in Stream : HandlerOK(t) => HandlerOK(t)'
      BY <1>2, <2>2 DEF HandlerOK, Handlers
    <3> QED
      BY <3>1 DEF HandlerInv
  <2>6. SnapInv'
    <3> SUFFICES ASSUME NEW c \in Caller PROVE SnapOK(c)'
      BY DEF SnapInv
    <3>1. SnapOK(c) /\ report[c].from \in Nat /\ report[c].from <= Len(log)
      BY DEF SnapInv, SnapOK, Reports
    <3>2. Len(log') = Len(log) + 1 /\ Len(log) \in Nat
      BY <2>1, <2>2
    <3>3. ASSUME report[c].at \in {"analysing", "done"}
          PROVE  \E k \in report[c].from..Len(log') :
                     report[c].snap = Newest(SubSeq(log', 1, k))
      <4>1. PICK k \in report[c].from..Len(log) : report[c].snap = Newest(SubSeq(log, 1, k))
        BY <3>1, <3>3 DEF SnapOK
      <4>2. k \in 0..Len(log) /\ k \in report[c].from..Len(log')
        BY <3>1, <3>2
      <4>3. SubSeq(log', 1, k) = SubSeq(log, 1, k)
        BY <2>1, <2>2, <4>2, PastStays
      <4> QED
        BY <4>1, <4>2, <4>3
    <3>4. report' = report /\ \A q : Newest(q)' = Newest(q)
      BY <2>2 DEF Newest
    <3>5. report[c].from <= Len(log')
      BY <3>1, <3>2
    <3>6. \A k \in Nat : Newest(SubSeq(log, 1, k))' = Newest(SubSeq(log', 1, k))
      BY DEF Newest
    <3> QED
      BY <3>1, <3>3, <3>4, <3>5 DEF SnapOK, Newest
  <2> QED
    BY <2>3, <2>4, <2>5, <2>6
<1> QED
  BY <1>4, <1>5, <1>6, <1>7, <1>8, <1>9 DEF HandlerStep

(* A call starts after what is in the log, and copies Live at one instant. *)
LEMMA ReportStepKeeps ==
    ASSUME IInv, NEW c \in Caller, CallReport(c) \/ ReportStep(c)
    PROVE  IInv'
<1> USE DEF IInv, Shapes
<1>1. ASSUME report' \in [Caller -> Reports],
             \A d \in Caller : d # c => report'[d] = report[d],
             UNCHANGED <<server, peer, handler, received, live, log>>, SnapOK(c)'
      PROVE  IInv'
  <2>1. HandlerInv'
    BY <1>1 DEF HandlerInv, HandlerOK
  <2>2. LiveInv'
    BY <1>1 DEF LiveInv, Newest
  <2>3. SnapInv'
    <3>1. \A d \in Caller : d # c => (SnapOK(d) => SnapOK(d)')
      BY <1>1 DEF SnapOK, Newest
    <3> QED
      BY <1>1, <3>1 DEF SnapInv
  <2> QED
    BY <1>1, <2>1, <2>2, <2>3
<1>2. /\ SnapOK(c) /\ report[c].from \in Nat /\ Len(log) \in Nat
      /\ live \in Seq(Message) /\ log \in Seq(Message) /\ LiveInv
      /\ report \in [Caller -> Reports]
  BY DEF SnapInv, Reports
<1> HIDE DEF IInv, Shapes
<1>3. CASE CallReport(c)
  <2>1. SnapOK(c)'
    BY <1>2, <1>3 DEF CallReport, SnapOK
  <2> QED
    BY <1>1, <1>2, <1>3, <2>1 DEF CallReport, Reports
<1>4. CASE Snapshot(c)
  <2>1. SubSeq(log, 1, Len(log)) = log
    BY <1>2
  <2>2. Len(log) \in report[c].from..Len(log)
    BY <1>2 DEF SnapOK
  <2>3. \E k \in report[c].from..Len(log) : live = Newest(SubSeq(log, 1, k))
    BY <1>2, <2>1, <2>2 DEF LiveInv
  <2>4. SnapOK(c)'
    BY <1>2, <1>4, <2>3 DEF Snapshot, SnapOK, Newest
  <2> QED
    BY <1>1, <1>2, <1>4, <2>4 DEF Snapshot, Reports
<1>5. CASE Respond(c)
  <2>1. SnapOK(c)'
    BY <1>2, <1>5 DEF Respond, SnapOK, Newest
  <2> QED
    BY <1>1, <1>2, <1>5, <2>1 DEF Respond, Reports
<1> QED
  BY <1>3, <1>4, <1>5 DEF ReportStep

LEMMA ServerKeeps ==
    ASSUME IInv, Stop \/ Stopped \/ UNCHANGED vars
    PROVE  IInv'
<1>1. UNCHANGED <<peer, handler, received, live, log, report>>
  BY DEF Stop, Stopped, vars
<1>2. server' \in {"serving", "stopping", "stopped"}
  BY DEF Stop, Stopped, vars, IInv, Shapes
<1>3. Shapes'
  BY <1>1, <1>2 DEF IInv, Shapes
<1>4. HandlerInv' /\ LiveInv' /\ SnapInv'
  BY <1>1 DEF IInv, HandlerInv, HandlerOK, LiveInv, SnapInv, SnapOK, Newest
<1> QED
  BY <1>3, <1>4 DEF IInv

LEMMA StepInvariant == IInv /\ [Next]_vars => IInv'
<1> SUFFICES ASSUME IInv, [Next]_vars PROVE IInv'
  OBVIOUS
<1>1. ASSUME NEW s \in Stream, Accept(s) \/ Send(s) \/ HalfClose(s) \/ Break(s) \/ HandlerStep(s)
      PROVE  IInv'
  BY <1>1, PeerStep, HandlerStepKeeps
<1>2. ASSUME NEW c \in Caller, CallReport(c) \/ ReportStep(c)
      PROVE  IInv'
  BY <1>2, ReportStepKeeps
<1>3. CASE Stop \/ Stopped \/ UNCHANGED vars
  BY <1>3, ServerKeeps
<1> QED
  BY <1>1, <1>2, <1>3 DEF Next

----------------------------------------------------------------------------

(* The invariant holds in every behaviour of the coordinator. *)
THEOREM Invariant == Spec => []IInv
  BY InitInvariant, StepInvariant, PTL DEF Spec

(* Handlers, calls and the server are where the code can be, no handler      *)
(* counts or acknowledges more than it read, and Live never keeps more than  *)
(* MaxEvents (coordinator.go:60, 75-82; grpc.go:72-93).                      *)
THEOREM TypeCorrect == Spec => []TypeOK
<1>1. IInv => TypeOK
  <2> SUFFICES ASSUME IInv PROVE TypeOK
    OBVIOUS
  <2>1. MaxMessages \in Nat /\ MaxEvents \in Nat \ {0}
    BY CoordinatorAssumption
  <2>2. Len(live) <= MaxEvents
    BY <2>1, NewestTail DEF IInv, Shapes, LiveInv
  <2>3. ASSUME NEW s \in Stream
        PROVE  /\ handler[s].at \in {"none", "recv", "ingest", "count", "ended"}
               /\ handler[s].read \in 0..peer[s].sent /\ handler[s].n \in 0..handler[s].read
               /\ handler[s].ack \in 0..handler[s].n \cup {NoAck}
    <3>1. /\ handler[s].at \in {"none", "recv", "ingest", "count", "ended"}
          /\ handler[s].read \in Nat /\ handler[s].n \in Nat
          /\ handler[s].ack \in Nat \cup {NoAck} /\ peer[s].sent \in Nat
      BY <2>1 DEF IInv, Shapes, Peers, Handlers
    <3>2. HandlerOK(s)
      BY DEF IInv, HandlerInv
    <3> QED
      BY <3>1, <3>2 DEF HandlerOK
  <2> QED
    <3>1. \A c \in Caller : report[c].at \in {"idle", "called", "analysing", "done"}
      BY DEF IInv, Shapes, Reports
    <3>2. /\ server \in {"serving", "stopping", "stopped"} /\ received \in Nat
          /\ peer \in [Stream -> [sent : 0..MaxMessages, closed : BOOLEAN, broken : BOOLEAN]]
      BY DEF IInv, Shapes, Peers
    <3> QED
      BY <2>2, <2>3, <3>1, <3>2 DEF TypeOK
<1> QED
  BY <1>1, Invariant, PTL

(* A report is computed from the newest events of one instant between the    *)
(* call and the answer, however handlers ingest and evict meanwhile          *)
(* (coordinator.go:75-89).                                                   *)
THEOREM ReportsAreCurrent == Spec => []ReportIsCurrent
<1>1. IInv => ReportIsCurrent
  BY DEF IInv, SnapInv, SnapOK, ReportIsCurrent
<1> QED
  BY <1>1, Invariant, PTL

----------------------------------------------------------------------------
(* The streams. IInv does not say what is in the log, only how much of it is *)
(* counted: SInv does. FlowOK says what a handler has taken in, has in hand  *)
(* and has counted, and what its end means.                                  *)
FlowOK(s) ==
    /\ handler[s].at = "none" => /\ peer[s].sent = 0 /\ ~peer[s].closed /\ ~peer[s].broken
                                 /\ handler[s].read = 0 /\ handler[s].n = 0
                                 /\ handler[s].ack = NoAck
    /\ handler[s].at = "ingest" => <<s, handler[s].read>> \notin Malformed
    /\ OfStream(log, s) = WellFormed(s, Taken(s))
    /\ Len(OfStream(log, s)) = IF handler[s].at = "count" THEN handler[s].n + 1 ELSE handler[s].n
    /\ handler[s].ack # NoAck => /\ handler[s].at = "ended" /\ peer[s].closed
                                 /\ handler[s].read = peer[s].sent
                                 /\ handler[s].ack = handler[s].n
    /\ handler[s].at = "ended" /\ handler[s].ack = NoAck => peer[s].broken
FlowInv == \A s \in Stream : FlowOK(s)
(* received lags the log by the handlers between Ingest and the counter.     *)
Counting == {s \in Stream : handler[s].at = "count"}
CountInv == IsFiniteSet(Counting) /\ received + Cardinality(Counting) = Len(log)
IdleInv == server = "stopped" => Idle

SInv == FlowInv /\ CountInv /\ IdleInv

(* Ingest adds to what was taken in of its own stream, and of no other. *)
LEMMA IngestIsSeen ==
    ASSUME IInv, NEW s \in Stream, NEW t \in Stream, Ingest(s)
    PROVE  OfStream(log', t) = IF t = s THEN Append(OfStream(log, t), <<s, handler[s].read>>)
                               ELSE OfStream(log, t)
<1> DEFINE e == <<s, handler[s].read>>
<1>1. log \in Seq(Message) /\ log' = Append(log, e)
  BY DEF IInv, Shapes, Ingest
<1>2. handler[s].read \in 1..MaxMessages /\ e \in Message
  <2>1. /\ handler[s].read \in Nat /\ handler[s].n \in Nat /\ peer[s].sent \in 0..MaxMessages
        /\ HandlerOK(s) /\ handler[s].at = "ingest" /\ MaxMessages \in Nat
    BY CoordinatorAssumption DEF IInv, Shapes, HandlerInv, Handlers, Peers, Ingest
  <2> QED
    BY <2>1 DEF HandlerOK, Message
<1>3. e \in Messages(t) <=> t = s
  BY <1>2 DEF Messages
<1> HIDE DEF e
<1>4. Only(Append(log, e), Messages(t)) =
          IF e \in Messages(t) THEN Append(Only(log, Messages(t)), e) ELSE Only(log, Messages(t))
  BY <1>1, <1>2, OnlyAppend
<1> QED
  BY <1>1, <1>3, <1>4 DEF OfStream, e

(* One message more is looked at. *)
LEMMA WellFormedGrows ==
    ASSUME NEW s \in Stream, NEW k \in Nat, k < MaxMessages
    PROVE  WellFormed(s, k + 1) = IF <<s, k + 1>> \in Malformed THEN WellFormed(s, k)
                                  ELSE Append(WellFormed(s, k), <<s, k + 1>>)
<1> DEFINE e == <<s, k + 1>>
           M == {s} \X (1..(k + 1))
           G == Messages(s) \ Malformed
<1>1. 0 \in Nat /\ 0 <= k /\ k + 1 \in Nat /\ MaxMessages \in Nat /\ 0 + 1 = 1
  BY CoordinatorAssumption
<1>2. Between(s, 0, k + 1) = Append(Between(s, 0, k), e)
  BY <1>1, BetweenGrows
<1>3. Between(s, 0, k) \in Seq({s} \X ((0 + 1)..k))
  BY <1>1, BetweenType
<1>4. {s} \X ((0 + 1)..k) \subseteq M /\ e \in M
  BY <1>1
<1>5. e \in Messages(s)
  BY <1>1 DEF Messages
<1> HIDE DEF e, M, G
<1>6. Between(s, 0, k) \in Seq(M)
  BY <1>3, <1>4, SeqMonotonic
<1>7. Only(Append(Between(s, 0, k), e), G) =
          IF e \in G THEN Append(Only(Between(s, 0, k), G), e) ELSE Only(Between(s, 0, k), G)
  BY <1>4, <1>6, OnlyAppend
<1> QED
  BY <1>2, <1>5, <1>7 DEF WellFormed, G, e

(* No stream has begun. *)
LEMMA FlowInit == Init => SInv
<1> SUFFICES ASSUME Init PROVE SInv
  OBVIOUS
<1>1. ASSUME NEW s \in Stream PROVE FlowOK(s)
  <2>1. /\ handler[s] = [at |-> "none", read |-> 0, n |-> 0, ack |-> NoAck]
        /\ peer[s] = [sent |-> 0, closed |-> FALSE, broken |-> FALSE] /\ log = <<>>
    BY DEF Init
  <2>2. Taken(s) = 0
    BY <2>1 DEF Taken
  <2>3. Between(s, 0, 0) = <<>>
    BY BetweenEmpty
  <2>4. OfStream(log, s) = <<>> /\ WellFormed(s, Taken(s)) = <<>>
    BY <2>1, <2>2, <2>3, OnlyEmpty DEF OfStream, WellFormed
  <2> QED
    BY <2>1, <2>4 DEF FlowOK
<1>2. Counting = {} /\ received = 0 /\ log = <<>>
  BY DEF Init, Counting
<1>3. CountInv
  BY <1>2, FS_EmptySet DEF CountInv
<1>4. IdleInv
  BY DEF Init, IdleInv
<1> QED
  BY <1>1, <1>3, <1>4 DEF SInv, FlowInv

(* What a step of one stream leaves alone is every other stream. *)
LEMMA OthersStay ==
    ASSUME IInv, NEW s \in Stream, NEW t \in Stream, t # s,
           Accept(s) \/ Send(s) \/ HalfClose(s) \/ Break(s) \/ HandlerStep(s)
    PROVE  handler'[t] = handler[t] /\ peer'[t] = peer[t] /\ OfStream(log', t) = OfStream(log, t)
<1>1. handler'[t] = handler[t] /\ peer'[t] = peer[t]
  BY DEF IInv, Shapes, Accept, Send, HalfClose, Break, HandlerStep, Recv, Ingest, Count,
         EndOfStream, RecvFails
<1>2. CASE Ingest(s)
  BY <1>1, <1>2, IngestIsSeen
<1>3. CASE ~Ingest(s)
  BY <1>1, <1>3 DEF Accept, Send, HalfClose, Break, HandlerStep, Recv, Count, EndOfStream, RecvFails
<1> QED
  BY <1>2, <1>3

(* So it leaves what is known of them. *)
LEMMA OthersKeep ==
    ASSUME IInv, NEW s \in Stream, NEW t \in Stream, t # s, FlowOK(t),
           Accept(s) \/ Send(s) \/ HalfClose(s) \/ Break(s) \/ HandlerStep(s)
    PROVE  FlowOK(t)'
  BY OthersStay DEF FlowOK, Taken

(* Of the stream itself, one step at a time: what was sent and well formed   *)
(* is in the log up to where the handler is.                                 *)
LEMMA OwnKeeps ==
    ASSUME IInv, NEW s \in Stream, FlowOK(s),
           Accept(s) \/ Send(s) \/ HalfClose(s) \/ Break(s) \/ HandlerStep(s)
    PROVE  FlowOK(s)'
<1>1. /\ handler \in [Stream -> Handlers] /\ peer \in [Stream -> Peers]
      /\ handler[s] \in Handlers /\ peer[s] \in Peers /\ HandlerOK(s) /\ MaxMessages \in Nat
  BY CoordinatorAssumption DEF IInv, Shapes, HandlerInv
<1>2. /\ handler[s].read \in Nat /\ handler[s].n \in Nat /\ peer[s].sent \in 0..MaxMessages
      /\ handler[s].ack \in Nat \cup {NoAck} /\ peer[s].closed \in BOOLEAN
      /\ peer[s].broken \in BOOLEAN
  BY <1>1 DEF Handlers, Peers
<1>3. CASE Accept(s)
  <2>1. /\ handler'[s] = [handler[s] EXCEPT !.at = "recv"] /\ handler[s].at = "none"
        /\ peer' = peer /\ log' = log
    BY <1>1, <1>3 DEF Accept
  <2>2. /\ handler'[s].at = "recv" /\ handler'[s].read = handler[s].read
        /\ handler'[s].n = handler[s].n /\ handler'[s].ack = handler[s].ack
    BY <1>1, <2>1 DEF Handlers
  <2> QED
    BY <2>1, <2>2 DEF FlowOK, Taken
<1>4. CASE Send(s) \/ HalfClose(s) \/ Break(s)
  <2>1. handler' = handler /\ log' = log /\ handler[s].at \notin {"none", "ended"}
    BY <1>4 DEF Send, HalfClose, Break
  <2>2. handler[s].ack = NoAck /\ Taken(s)' = Taken(s)
    BY <2>1 DEF FlowOK, Taken
  <2> QED
    BY <2>1, <2>2 DEF FlowOK
<1>5. CASE Recv(s)
  <2> DEFINE k == handler[s].read
             m == <<s, k + 1>>
  <2>1. /\ handler'[s] = [handler[s] EXCEPT !.read = @ + 1,
                                            !.at = IF m \in Malformed THEN "recv" ELSE "ingest"]
        /\ handler[s].at = "recv" /\ k < peer[s].sent /\ peer' = peer /\ log' = log
    BY <1>1, <1>5 DEF Recv, AfterMalformed
  <2>2. /\ handler'[s].at = (IF m \in Malformed THEN "recv" ELSE "ingest")
        /\ handler'[s].read = k + 1
        /\ handler'[s].n = handler[s].n /\ handler'[s].ack = handler[s].ack
    BY <1>1, <2>1 DEF Handlers
  <2>3. k \in Nat /\ k < MaxMessages /\ (k + 1) - 1 = k
    BY <1>1, <1>2, <2>1
  <2>4. m \in Malformed => WellFormed(s, k + 1) = WellFormed(s, k)
    BY <2>3, WellFormedGrows
  <2>5. Taken(s) = k /\ Taken(s)' = IF m \in Malformed THEN k + 1 ELSE k
    BY <2>1, <2>2, <2>3 DEF Taken
  <2>6. OfStream(log, s)' = WellFormed(s, Taken(s))'
    BY <2>1, <2>4, <2>5 DEF FlowOK
  <2>7. handler[s].ack = NoAck
    BY <2>1 DEF FlowOK
  <2>8. handler'[s].at = "ingest" => <<s, handler'[s].read>> \notin Malformed
    BY <2>2
  <2>9. handler'[s].at \in {"recv", "ingest"}
    BY <2>2
  <2> QED
    BY <2>1, <2>2, <2>6, <2>7, <2>8, <2>9 DEF FlowOK
<1>6. CASE Ingest(s)
  <2> DEFINE k == handler[s].read
             e == <<s, k>>
  <2>1. /\ handler'[s] = [handler[s] EXCEPT !.at = "count"]
        /\ handler[s].at = "ingest" /\ peer' = peer
    BY <1>1, <1>6 DEF Ingest
  <2>2. /\ handler'[s].at = "count" /\ handler'[s].read = k
        /\ handler'[s].n = handler[s].n /\ handler'[s].ack = handler[s].ack
    BY <1>1, <2>1 DEF Handlers
  <2>3. k - 1 \in Nat /\ k - 1 < MaxMessages /\ (k - 1) + 1 = k
    BY <1>1, <1>2, <2>1 DEF HandlerOK
  <2>4. e \notin Malformed /\ handler[s].ack = NoAck
    BY <2>1 DEF FlowOK
  <2>5. WellFormed(s, k) = Append(WellFormed(s, k - 1), e)
    BY <2>3, <2>4, WellFormedGrows
  <2>6. Taken(s) = k - 1 /\ Taken(s)' = k
    BY <2>1, <2>2 DEF Taken
  <2>7. OfStream(log', s) = Append(OfStream(log, s), e)
    BY <1>6, IngestIsSeen
  <2>8. OfStream(log, s)' = WellFormed(s, Taken(s))'
    BY <2>5, <2>6, <2>7 DEF FlowOK
  <2>9. Len(OfStream(log', s)) = handler[s].n + 1
    <3>1. OfStream(log, s) \in Seq(Message \cap Messages(s))
      BY OnlyType DEF OfStream, IInv, Shapes
    <3>2. Len(OfStream(log, s)) = handler[s].n
      BY <2>1 DEF FlowOK
    <3> QED
      BY <2>7, <3>1, <3>2
  <2> QED
    BY <2>2, <2>4, <2>8, <2>9 DEF FlowOK
<1>7. CASE Count(s)
  <2>1. /\ handler'[s] = [handler[s] EXCEPT !.at = "recv", !.n = @ + 1]
        /\ handler[s].at = "count" /\ peer' = peer /\ log' = log
    BY <1>1, <1>7 DEF Count
  <2>2. /\ handler'[s].at = "recv" /\ handler'[s].read = handler[s].read
        /\ handler'[s].n = handler[s].n + 1 /\ handler'[s].ack = handler[s].ack
    BY <1>1, <2>1 DEF Handlers
  <2>3. handler[s].ack = NoAck
    BY <2>1 DEF FlowOK
  <2> QED
    BY <2>1, <2>2, <2>3 DEF FlowOK, Taken
<1>8. CASE EndOfStream(s)
  <2>1. /\ handler'[s] = [handler[s] EXCEPT !.at = "ended", !.ack = handler[s].n]
        /\ handler[s].at = "recv" /\ AtEnd(s) /\ peer' = peer /\ log' = log
    BY <1>1, <1>8 DEF EndOfStream
  <2>2. /\ handler'[s].at = "ended" /\ handler'[s].read = handler[s].read
        /\ handler'[s].n = handler[s].n /\ handler'[s].ack = handler[s].n
    BY <1>1, <2>1 DEF Handlers
  <2>3. handler[s].n # NoAck
    BY <1>2 DEF NoAck
  <2> QED
    BY <2>1, <2>2, <2>3 DEF FlowOK, Taken, AtEnd
<1>9. CASE RecvFails(s)
  <2>1. /\ handler'[s] = [handler[s] EXCEPT !.at = "ended"]
        /\ handler[s].at = "recv" /\ peer[s].broken /\ peer' = peer /\ log' = log
    BY <1>1, <1>9 DEF RecvFails
  <2>2. /\ handler'[s].at = "ended" /\ handler'[s].read = handler[s].read
        /\ handler'[s].n = handler[s].n /\ handler'[s].ack = handler[s].ack
    BY <1>1, <2>1 DEF Handlers
  <2> QED
    BY <2>1, <2>2 DEF FlowOK, Taken
<1> QED
  BY <1>3, <1>4, <1>5, <1>6, <1>7, <1>8, <1>9 DEF HandlerStep

(* The counter follows the log, one handler at a time. *)
LEMMA CountKeeps ==
    ASSUME IInv, CountInv, [Next]_vars
    PROVE  CountInv'
<1>1. handler \in [Stream -> Handlers] /\ received \in Nat /\ log \in Seq(Message)
  BY DEF IInv, Shapes
<1>2. ASSUME UNCHANGED <<received, log>>, \A t \in Stream : handler'[t].at = "count" <=> handler[t].at = "count"
      PROVE  CountInv'
  BY <1>2 DEF CountInv, Counting
<1>3. ASSUME NEW s \in Stream, Accept(s) \/ Recv(s) \/ EndOfStream(s) \/ RecvFails(s) PROVE CountInv'
  <2>1. /\ handler'[s].at \in {"recv", "ingest", "ended"} /\ handler[s].at \in {"none", "recv"}
        /\ \A t \in Stream : t # s => handler'[t] = handler[t]
    BY <1>1, <1>3 DEF Accept, Recv, EndOfStream, RecvFails, Handlers, AfterMalformed
  <2>2. UNCHANGED <<received, log>>
    BY <1>3 DEF Accept, Recv, EndOfStream, RecvFails
  <2>3. \A t \in Stream : handler'[t].at = "count" <=> handler[t].at = "count"
    BY <2>1
  <2> QED
    BY <1>2, <2>2, <2>3
<1>4. ASSUME NEW s \in Stream, Ingest(s) PROVE CountInv'
  <2>1. /\ handler' = [handler EXCEPT ![s].at = "count"] /\ handler[s].at = "ingest"
        /\ received' = received /\ log' = Append(log, <<s, handler[s].read>>)
    BY <1>4 DEF Ingest
  <2>2. Counting' = Counting \cup {s} /\ s \notin Counting
    BY <1>1, <2>1 DEF Counting, Handlers
  <2> DEFINE c == Cardinality(Counting)
             d == Cardinality(Counting')
             l == Len(log)
             m == Len(log')
  <2>3. IsFiniteSet(Counting') /\ d = c + 1
    BY <2>2, FS_AddElement DEF CountInv
  <2>4. m = l + 1
    <3>1. <<s, handler[s].read>> \in Message
      BY <1>1 DEF Message, Handlers
    <3> QED
      BY <1>1, <2>1, <3>1
  <2>5. c \in Nat /\ l \in Nat /\ received + c = l /\ received \in Nat /\ received' = received
    BY <1>1, <2>1, FS_CardinalityType DEF CountInv
  <2> HIDE DEF c, d, l, m
  <2>6. received' + d = m
    BY <2>3, <2>4, <2>5
  <2> QED
    BY <2>3, <2>6 DEF CountInv, d, m
<1>5. ASSUME NEW s \in Stream, Count(s) PROVE CountInv'
  <2>1. /\ handler' = [handler EXCEPT ![s].at = "recv", ![s].n = @ + 1] /\ handler[s].at = "count"
        /\ received' = received + 1 /\ log' = log
    BY <1>5 DEF Count
  <2>2. Counting' = Counting \ {s} /\ s \in Counting
    BY <1>1, <2>1 DEF Counting, Handlers
  <2>3. IsFiniteSet(Counting') /\ Cardinality(Counting') = Cardinality(Counting) - 1
    BY <2>2, FS_RemoveElement DEF CountInv
  <2>4. Cardinality(Counting) \in Nat /\ Len(log) \in Nat
    BY <1>1, FS_CardinalityType DEF CountInv
  <2> QED
    BY <1>1, <2>1, <2>3, <2>4 DEF CountInv
<1>6. CASE UNCHANGED <<handler, received, log>>
  BY <1>2, <1>6
<1> QED
  <2>1. \/ UNCHANGED <<handler, received, log>>
        \/ \E s \in Stream : Accept(s) \/ HandlerStep(s)
    BY DEF Next, vars, Send, HalfClose, Break, CallReport, ReportStep, Snapshot, Respond,
           Stop, Stopped
  <2> QED
    BY <1>3, <1>4, <1>5, <1>6, <2>1 DEF HandlerStep

(* Once Serve has returned nothing is in progress and nothing starts. *)
LEMMA IdleKeeps ==
    ASSUME IInv, IdleInv, [Next]_vars
    PROVE  IdleInv'
<1> SUFFICES ASSUME server' = "stopped" PROVE Idle'
  BY DEF IdleInv
<1>1. CASE server = "stopped"
  <2>1. Idle
    BY <1>1 DEF IdleInv
  <2>2. UNCHANGED <<handler, report>>
    BY <1>1, <2>1 DEF Idle, Next, vars, Accept, Send, HalfClose, Break, HandlerStep, Recv, Ingest,
       Count, EndOfStream, RecvFails, CallReport, ReportStep, Snapshot, Respond, Stop, Stopped
  <2> QED
    BY <2>1, <2>2 DEF Idle
<1>2. CASE server # "stopped"
  <2>1. Stopped
    BY <1>2 DEF Next, vars, Accept, Send, HalfClose, Break, HandlerStep, Recv, Ingest,
       Count, EndOfStream, RecvFails, CallReport, ReportStep, Snapshot, Respond, Stop
  <2> QED
    BY <2>1 DEF Stopped, Idle
<1> QED
  BY <1>1, <1>2

(* All streams together. *)
LEMMA FlowKeeps ==
    ASSUME IInv, FlowInv, [Next]_vars
    PROVE  FlowInv'
<1>1. ASSUME NEW s \in Stream, Accept(s) \/ Send(s) \/ HalfClose(s) \/ Break(s) \/ HandlerStep(s)
      PROVE  FlowInv'
  <2> SUFFICES ASSUME NEW t \in Stream PROVE FlowOK(t)'
    BY DEF FlowInv
  <2>1. FlowOK(t)
    BY DEF FlowInv
  <2> QED
    BY <1>1, <2>1, OthersKeep, OwnKeeps
<1>2. CASE UNCHANGED <<peer, handler, log>>
  BY <1>2 DEF FlowInv, FlowOK, Taken
<1>3. \/ UNCHANGED <<peer, handler, log>>
      \/ \E s \in Stream : Accept(s) \/ Send(s) \/ HalfClose(s) \/ Break(s) \/ HandlerStep(s)
  BY DEF Next, vars, CallReport, ReportStep, Snapshot, Respond, Stop, Stopped
<1> QED
  BY <1>1, <1>2, <1>3

(* Both invariants hold in every behaviour of the coordinator. *)
THEOREM StreamInvariant == Spec => [](IInv /\ SInv)
<1>1. Init => IInv /\ SInv
  BY InitInvariant, FlowInit
<1>2. IInv /\ SInv /\ [Next]_vars => (IInv /\ SInv)'
  BY StepInvariant, FlowKeeps, CountKeeps, IdleKeeps DEF SInv
<1> QED
  BY <1>1, <1>2, PTL DEF Spec

(* A stop loses nothing of a stream that did not break: once Serve has       *)
(* returned, everything sent on it is in the log, counted and acknowledged,  *)
(* and every report was given (grpc.go:65-68, 76-91).                        *)
THEOREM StopLosesNothing == Spec => []StopIsGraceful
<1>1. IInv /\ SInv => StopIsGraceful
  <2> SUFFICES ASSUME IInv, SInv, server = "stopped" PROVE StopIsGraceful
    BY DEF StopIsGraceful
  <2>1. Idle
    BY DEF SInv, IdleInv
  <2>2. ASSUME NEW s \in Stream, handler[s].at # "none", ~peer[s].broken
        PROVE  /\ OfStream(log, s) = WellFormed(s, peer[s].sent)
               /\ handler[s].ack = Len(OfStream(log, s))
    <3>1. handler[s].at = "ended"
      BY <2>1, <2>2 DEF Idle
    <3>2. FlowOK(s)
      BY DEF SInv, FlowInv
    <3> QED
      BY <2>2, <3>1, <3>2 DEF FlowOK, Taken
  <2>3. received = Len(log)
    <3>1. Counting = {}
      BY <2>1 DEF Counting, Idle
    <3>2. Cardinality(Counting) = 0 /\ received \in Nat
      BY <3>1, FS_EmptySet DEF IInv, Shapes
    <3> QED
      BY <3>2 DEF SInv, CountInv
  <2>4. \A c \in Caller : report[c].at \in {"idle", "done"}
    BY <2>1 DEF Idle
  <2> QED
    BY <2>2, <2>3, <2>4 DEF StopIsGraceful
<1> QED
  BY <1>1, StreamInvariant, PTL
----------------------------------------------------------------------------
(* The refinement of StreamService. *)

(* A step of one stream changes one entry of the mapping. *)
LEMMA OneEntry ==
    ASSUME IInv, NEW s \in Stream, NEW u, NEW f, NEW g, NEW x, NEW k,
           Accept(s) \/ Send(s) \/ HalfClose(s) \/ Break(s) \/ HandlerStep(s),
           Unsent(s)' = u, Flight(s)' = f, OfStream(log', s) = g, StateOf(s)' = x, Answered(s)' = k
    PROVE  /\ ToSend' = [ToSend EXCEPT ![s] = u] /\ InFlight' = [InFlight EXCEPT ![s] = f]
           /\ Ingested' = [Ingested EXCEPT ![s] = g] /\ States' = [States EXCEPT ![s] = x]
           /\ Acks' = [Acks EXCEPT ![s] = k]
<1>1. ASSUME NEW t \in Stream, t # s
      PROVE  /\ Unsent(t)' = Unsent(t) /\ Flight(t)' = Flight(t) /\ StateOf(t)' = StateOf(t)
             /\ OfStream(log', t) = OfStream(log, t) /\ Answered(t)' = Answered(t)
  BY <1>1, OthersStay DEF Unsent, Flight, Unread, Taken, StateOf, Answered
<1>2. ToSend' = [ToSend EXCEPT ![s] = u]
  BY <1>1 DEF ToSend
<1>3. InFlight' = [InFlight EXCEPT ![s] = f]
  BY <1>1 DEF InFlight
<1>4. Ingested' = [Ingested EXCEPT ![s] = g]
  BY <1>1 DEF Ingested
<1>5. States' = [States EXCEPT ![s] = x]
  BY <1>1 DEF States
<1>6. Acks' = [Acks EXCEPT ![s] = k]
  BY <1>1 DEF Acks
<1> QED
  BY <1>2, <1>3, <1>4, <1>5, <1>6

(* The mapping at one stream. *)
LEMMA Entries ==
    ASSUME NEW s \in Stream
    PROVE  /\ ToSend[s] = Unsent(s) /\ InFlight[s] = Flight(s) /\ Ingested[s] = OfStream(log, s)
           /\ States[s] = StateOf(s) /\ Acks[s] = Answered(s)
  BY DEF ToSend, InFlight, Ingested, States, Acks

(* A step of a stream that leaves its own entries too leaves the mapping. *)
LEMMA Stutters ==
    ASSUME IInv, NEW s \in Stream,
           Accept(s) \/ Send(s) \/ HalfClose(s) \/ Break(s) \/ HandlerStep(s),
           Unsent(s)' = Unsent(s), Flight(s)' = Flight(s), OfStream(log', s) = OfStream(log, s),
           StateOf(s)' = StateOf(s), Answered(s)' = Answered(s)
    PROVE  UNCHANGED S!vars
<1>1. /\ ToSend' = [ToSend EXCEPT ![s] = Unsent(s)] /\ InFlight' = [InFlight EXCEPT ![s] = Flight(s)]
      /\ Ingested' = [Ingested EXCEPT ![s] = OfStream(log, s)]
      /\ States' = [States EXCEPT ![s] = StateOf(s)] /\ Acks' = [Acks EXCEPT ![s] = Answered(s)]
  BY OneEntry
<1>2. ToSend' = ToSend /\ InFlight' = InFlight
  BY <1>1 DEF ToSend, InFlight
<1>3. Ingested' = Ingested /\ States' = States /\ Acks' = Acks
  BY <1>1 DEF Ingested, States, Acks
<1> QED
  BY <1>2, <1>3 DEF S!vars

(* It begins where the service begins. *)
LEMMA StreamsInit == Init => S!Init
<1> SUFFICES ASSUME Init PROVE S!Init
  OBVIOUS
<1>1. ASSUME NEW s \in Stream
      PROVE  /\ Unsent(s) = Between(s, 0, MaxMessages) /\ Flight(s) = <<>>
             /\ OfStream(log, s) = <<>> /\ StateOf(s) = "none" /\ Answered(s) = 0
  <2>1. /\ handler[s] = [at |-> "none", read |-> 0, n |-> 0, ack |-> NoAck]
        /\ peer[s] = [sent |-> 0, closed |-> FALSE, broken |-> FALSE] /\ log = <<>>
    BY DEF Init
  <2>2. Between(s, 0, 0) = <<>>
    BY BetweenEmpty
  <2>3. OfStream(log, s) = <<>>
    BY <2>1, OnlyEmpty DEF OfStream
  <2> QED
    BY <2>1, <2>2, <2>3 DEF Unsent, Flight, Unread, Taken, StateOf, Answered
<1>2. ToSend = [s \in Stream |-> Between(s, 0, MaxMessages)]
  BY <1>1 DEF ToSend
<1>3. InFlight = [s \in Stream |-> <<>>] /\ Ingested = [s \in Stream |-> <<>>]
  BY <1>1 DEF InFlight, Ingested
<1>4. States = [s \in Stream |-> "none"] /\ Acks = [s \in Stream |-> 0]
  BY <1>1 DEF States, Acks
<1> QED
  BY <1>2, <1>3, <1>4 DEF S!Init

(* An agent's step, seen by the service. *)
LEMMA PeerRefines ==
    ASSUME IInv, SInv, NEW s \in Stream, Send(s) \/ HalfClose(s) \/ Break(s)
    PROVE  S!Send(s) \/ S!Close(s) \/ UNCHANGED S!vars
<1>1. /\ handler' = handler /\ log' = log /\ handler[s].at \notin {"none", "ended"} /\ FlowOK(s)
      /\ peer \in [Stream -> Peers] /\ MaxMessages \in Nat /\ peer[s].sent \in 0..MaxMessages
      /\ peer[s] \in Peers
  BY CoordinatorAssumption DEF Send, HalfClose, Break, SInv, FlowInv, IInv, Shapes, Peers
<1>2. handler[s].ack = NoAck
  BY <1>1 DEF FlowOK
<1>3. /\ OfStream(log', s) = OfStream(log, s) /\ Answered(s)' = Answered(s)
      /\ Taken(s)' = Taken(s)
  BY <1>1 DEF Answered, Taken
<1>4. StateOf(s) = IF peer[s].closed THEN "halfclosed" ELSE "open"
  BY <1>1, <1>2 DEF StateOf
<1>5. StateOf(s)' = IF peer'[s].closed THEN "halfclosed" ELSE "open"
  BY <1>1, <1>2 DEF StateOf
<1>6. Flight(s) = Unread(s) /\ Flight(s)' = Unread(s)'
  BY <1>4, <1>5 DEF Flight
<1>7. CASE Send(s)
  <2> DEFINE n == peer[s].sent
  <2>1. n < MaxMessages /\ peer'[s] = [peer[s] EXCEPT !.sent = n + 1] /\ ~peer[s].closed
    BY <1>1, <1>7 DEF Send, Quiet
  <2>2. peer'[s].sent = n + 1 /\ ~peer'[s].closed
    BY <1>1, <2>1 DEF Peers
  <2>3. /\ Unsent(s) # <<>> /\ Head(Unsent(s)) = <<s, n + 1>>
        /\ Unsent(s)' = Tail(Unsent(s))
    <3>1. n \in Nat /\ n < MaxMessages /\ MaxMessages \in Nat
      BY <1>1, <2>1
    <3>2. /\ Between(s, n, MaxMessages) # <<>> /\ Head(Between(s, n, MaxMessages)) = <<s, n + 1>>
          /\ Tail(Between(s, n, MaxMessages)) = Between(s, n + 1, MaxMessages)
      BY <3>1, BetweenShrinks
    <3> QED
      BY <2>2, <3>2 DEF Unsent
  <2>4. Taken(s) \in Nat /\ Taken(s) <= n
    <3>1. /\ HandlerOK(s) /\ handler[s].read \in Nat /\ handler[s].n \in Nat
      BY DEF IInv, Shapes, HandlerInv, Handlers
    <3> QED
      BY <1>1, <3>1 DEF HandlerOK, Taken
  <2>5. Flight(s)' = Append(Flight(s), Head(Unsent(s)))
    <3>1. n \in Nat
      BY <1>1
    <3>2. Between(s, Taken(s), n + 1) = Append(Between(s, Taken(s), n), <<s, n + 1>>)
      BY <2>4, <3>1, BetweenGrows
    <3> QED
      BY <1>3, <1>6, <2>2, <2>3, <3>2 DEF Unread
  <2>6. StateOf(s) = "open" /\ StateOf(s)' = "open"
    BY <1>4, <1>5, <2>1, <2>2
  <2>7. /\ ToSend' = [ToSend EXCEPT ![s] = Tail(Unsent(s))]
        /\ InFlight' = [InFlight EXCEPT ![s] = Append(Flight(s), Head(Unsent(s)))]
        /\ Ingested' = [Ingested EXCEPT ![s] = OfStream(log, s)]
        /\ States' = [States EXCEPT ![s] = StateOf(s)]
        /\ Acks' = [Acks EXCEPT ![s] = Answered(s)]
    BY <1>3, <1>7, <2>3, <2>5, <2>6, OneEntry
  <2>8. S!Send(s)
    BY <2>3, <2>6, <2>7, Entries DEF S!Send, Ingested, States, Acks
  <2> QED
    BY <2>8
<1>8. CASE HalfClose(s)
  <2>1. peer'[s] = [peer[s] EXCEPT !.closed = TRUE] /\ ~peer[s].closed
    BY <1>1, <1>8 DEF HalfClose, Quiet
  <2>2. peer'[s].sent = peer[s].sent /\ peer'[s].closed
    BY <1>1, <2>1 DEF Peers
  <2>3. Unsent(s)' = Unsent(s) /\ Flight(s)' = Flight(s)
    BY <1>3, <1>6, <2>2 DEF Unsent, Unread
  <2>4. StateOf(s) = "open" /\ StateOf(s)' = "halfclosed"
    BY <1>4, <1>5, <2>1, <2>2
  <2>5. /\ ToSend' = [ToSend EXCEPT ![s] = Unsent(s)]
        /\ InFlight' = [InFlight EXCEPT ![s] = Flight(s)]
        /\ Ingested' = [Ingested EXCEPT ![s] = OfStream(log, s)]
        /\ States' = [States EXCEPT ![s] = "halfclosed"]
        /\ Acks' = [Acks EXCEPT ![s] = Answered(s)]
    BY <1>3, <1>8, <2>3, <2>4, OneEntry
  <2>6. S!Close(s)
    BY <2>4, <2>5, Entries DEF S!Close, ToSend, InFlight, Ingested, Acks
  <2> QED
    BY <2>6
<1>9. CASE Break(s)
  <2>1. peer'[s] = [peer[s] EXCEPT !.broken = TRUE]
    BY <1>1, <1>9 DEF Break
  <2>2. peer'[s].sent = peer[s].sent /\ peer'[s].closed = peer[s].closed
    BY <1>1, <2>1 DEF Peers
  <2>3. Unsent(s)' = Unsent(s) /\ Flight(s)' = Flight(s) /\ StateOf(s)' = StateOf(s)
    BY <1>3, <1>4, <1>5, <1>6, <2>2 DEF Unsent, Unread
  <2>4. UNCHANGED S!vars
    BY <1>3, <1>9, <2>3, Stutters
  <2> QED
    BY <2>4
<1> QED
  BY <1>7, <1>8, <1>9

(* A handler's step, seen by the service: Recv of a malformed message and    *)
(* Ingest of another deliver it; the counter is nobody else's business.      *)
LEMMA HandlerRefines ==
    ASSUME IInv, SInv, NEW s \in Stream, Accept(s) \/ HandlerStep(s)
    PROVE  S!Open(s) \/ S!Deliver(s) \/ S!Answer(s) \/ S!Break(s) \/ UNCHANGED S!vars
<1>1. /\ peer' = peer /\ FlowOK(s) /\ HandlerOK(s) /\ peer[s] \in Peers
      /\ handler \in [Stream -> Handlers] /\ handler[s] \in Handlers
      /\ MaxMessages \in Nat /\ peer[s].sent \in Nat
      /\ handler[s].read \in Nat /\ handler[s].n \in Nat
  BY CoordinatorAssumption DEF Accept, HandlerStep, Recv, Ingest, Count, EndOfStream, RecvFails,
     SInv, FlowInv, IInv, HandlerInv, Shapes, Peers, Handlers
<1>2. Unsent(s)' = Unsent(s)
  BY <1>1 DEF Unsent
<1>3. CASE Accept(s)
  <2>1. handler'[s] = [handler[s] EXCEPT !.at = "recv"] /\ handler[s].at = "none" /\ log' = log
    BY <1>1, <1>3 DEF Accept
  <2>2. /\ handler'[s].at = "recv" /\ handler'[s].read = handler[s].read
        /\ handler'[s].ack = handler[s].ack
    BY <1>1, <2>1 DEF Handlers
  <2>3. ~peer[s].closed /\ handler[s].ack = NoAck
    BY <1>1, <2>1 DEF FlowOK
  <2>4. StateOf(s) = "none" /\ StateOf(s)' = "open" /\ Answered(s)' = Answered(s)
    BY <1>1, <2>1, <2>2, <2>3 DEF StateOf, Answered
  <2>5. Flight(s)' = Flight(s)
    BY <1>1, <2>1, <2>2, <2>4 DEF Flight, Unread, Taken
  <2>6. OfStream(log', s) = OfStream(log, s)
    BY <2>1
  <2>7. /\ ToSend' = [ToSend EXCEPT ![s] = Unsent(s)]
        /\ InFlight' = [InFlight EXCEPT ![s] = Flight(s)]
        /\ Ingested' = [Ingested EXCEPT ![s] = OfStream(log, s)]
        /\ States' = [States EXCEPT ![s] = "open"]
        /\ Acks' = [Acks EXCEPT ![s] = Answered(s)]
    BY <1>2, <1>3, <2>4, <2>5, <2>6, OneEntry
  <2>8. S!Open(s)
    BY <2>4, <2>7, Entries DEF S!Open, ToSend, InFlight, Ingested, Acks
  <2> QED
    BY <2>8
<1>4. ASSUME handler[s].at \in {"recv", "ingest", "count"} PROVE handler[s].ack = NoAck
  BY <1>1, <1>4 DEF FlowOK
<1>5. CASE Recv(s)
  <2> DEFINE k == handler[s].read
             m == <<s, k + 1>>
  <2>1. /\ handler'[s] = [handler[s] EXCEPT !.read = @ + 1,
                                            !.at = IF m \in Malformed THEN "recv" ELSE "ingest"]
        /\ handler[s].at = "recv" /\ k < peer[s].sent /\ log' = log
    BY <1>1, <1>5 DEF Recv, AfterMalformed
  <2>2. /\ handler'[s].at = (IF m \in Malformed THEN "recv" ELSE "ingest")
        /\ handler'[s].read = k + 1 /\ handler'[s].ack = handler[s].ack
    BY <1>1, <2>1 DEF Handlers
  <2>3. handler[s].ack = NoAck
    BY <1>4, <2>1
  <2>4. /\ StateOf(s) = IF peer[s].closed THEN "halfclosed" ELSE "open"
        /\ StateOf(s)' = StateOf(s) /\ Answered(s)' = Answered(s)
    BY <1>1, <2>1, <2>2, <2>3 DEF StateOf, Answered
  <2>5. Flight(s) = Unread(s) /\ Flight(s)' = Unread(s)'
    BY <2>4 DEF Flight
  <2>6. OfStream(log', s) = OfStream(log, s)
    BY <2>1
  <2>7. CASE m \in Malformed
    <3>1. Taken(s) = k /\ Taken(s)' = k + 1
      BY <2>1, <2>2, <2>7 DEF Taken
    <3>2. /\ Between(s, k, peer[s].sent) # <<>> /\ Head(Between(s, k, peer[s].sent)) = m
          /\ Tail(Between(s, k, peer[s].sent)) = Between(s, k + 1, peer[s].sent)
      <4>1. k \in Nat /\ peer[s].sent \in Nat /\ k < peer[s].sent
        BY <1>1, <2>1
      <4> QED
        BY <4>1, BetweenShrinks
    <3>3. Flight(s) # <<>> /\ Head(Flight(s)) = m /\ Flight(s)' = Tail(Flight(s))
      BY <1>1, <2>5, <3>1, <3>2 DEF Unread
    <3>4. /\ ToSend' = [ToSend EXCEPT ![s] = Unsent(s)]
          /\ InFlight' = [InFlight EXCEPT ![s] = Tail(Flight(s))]
          /\ Ingested' = [Ingested EXCEPT ![s] = OfStream(log, s)]
          /\ States' = [States EXCEPT ![s] = StateOf(s)]
          /\ Acks' = [Acks EXCEPT ![s] = Answered(s)]
      BY <1>2, <1>5, <2>4, <2>6, <3>3, OneEntry
    <3>5. S!Deliver(s)
      BY <2>4, <2>7, <3>3, <3>4, Entries DEF S!Deliver, ToSend, Ingested, States, Acks
    <3> QED
      BY <3>5
  <2>8. CASE m \notin Malformed
    <3>1. Taken(s)' = Taken(s)
      BY <1>1, <2>1, <2>2, <2>8 DEF Taken
    <3>2. Flight(s)' = Flight(s)
      BY <1>1, <2>5, <3>1 DEF Unread
    <3>3. UNCHANGED S!vars
      BY <1>2, <1>5, <2>4, <2>6, <3>2, Stutters DEF HandlerStep
    <3> QED
      BY <3>3
  <2> QED
    BY <2>7, <2>8
<1>6. CASE Ingest(s)
  <2> DEFINE k == handler[s].read
             e == <<s, k>>
  <2>1. handler'[s] = [handler[s] EXCEPT !.at = "count"] /\ handler[s].at = "ingest"
    BY <1>1, <1>6 DEF Ingest
  <2>2. /\ handler'[s].at = "count" /\ handler'[s].read = k
        /\ handler'[s].ack = handler[s].ack
    BY <1>1, <2>1 DEF Handlers
  <2>3. handler[s].ack = NoAck /\ e \notin Malformed
    BY <1>1, <1>4, <2>1 DEF FlowOK
  <2>4. /\ StateOf(s) = IF peer[s].closed THEN "halfclosed" ELSE "open"
        /\ StateOf(s)' = StateOf(s) /\ Answered(s)' = Answered(s)
    BY <1>1, <2>1, <2>2, <2>3 DEF StateOf, Answered
  <2>5. Flight(s) = Unread(s) /\ Flight(s)' = Unread(s)'
    BY <2>4 DEF Flight
  <2>6. Taken(s) = k - 1 /\ Taken(s)' = k
    BY <2>1, <2>2 DEF Taken
  <2>7. k - 1 \in Nat /\ k - 1 < peer[s].sent /\ (k - 1) + 1 = k
    BY <1>1, <2>1 DEF HandlerOK
  <2>8. /\ Between(s, k - 1, peer[s].sent) # <<>> /\ Head(Between(s, k - 1, peer[s].sent)) = e
        /\ Tail(Between(s, k - 1, peer[s].sent)) = Between(s, k, peer[s].sent)
    <3> DEFINE j == k - 1
    <3>1. j \in Nat /\ peer[s].sent \in Nat /\ j < peer[s].sent /\ j + 1 = k
      BY <1>1, <2>7
    <3> HIDE DEF j
    <3>2. /\ Between(s, j, peer[s].sent) # <<>> /\ Head(Between(s, j, peer[s].sent)) = <<s, j + 1>>
          /\ Tail(Between(s, j, peer[s].sent)) = Between(s, j + 1, peer[s].sent)
      BY <3>1, BetweenShrinks
    <3> QED
      BY <3>1, <3>2 DEF j
  <2>9. Flight(s) # <<>> /\ Head(Flight(s)) = e /\ Flight(s)' = Tail(Flight(s))
    BY <1>1, <2>5, <2>6, <2>8 DEF Unread
  <2>10. OfStream(log', s) = Append(OfStream(log, s), e)
    BY <1>6, IngestIsSeen
  <2>11. /\ ToSend' = [ToSend EXCEPT ![s] = Unsent(s)]
         /\ InFlight' = [InFlight EXCEPT ![s] = Tail(Flight(s))]
         /\ Ingested' = [Ingested EXCEPT ![s] = Append(OfStream(log, s), e)]
         /\ States' = [States EXCEPT ![s] = StateOf(s)]
         /\ Acks' = [Acks EXCEPT ![s] = Answered(s)]
    BY <1>2, <1>6, <2>4, <2>9, <2>10, OneEntry DEF HandlerStep
  <2>12. S!Deliver(s)
    BY <2>3, <2>4, <2>9, <2>11, Entries DEF S!Deliver, ToSend, States, Acks
  <2> QED
    BY <2>12
<1>7. CASE Count(s)
  <2>1. /\ handler'[s] = [handler[s] EXCEPT !.at = "recv", !.n = @ + 1]
        /\ handler[s].at = "count" /\ log' = log
    BY <1>1, <1>7 DEF Count
  <2>2. /\ handler'[s].at = "recv" /\ handler'[s].read = handler[s].read
        /\ handler'[s].ack = handler[s].ack
    BY <1>1, <2>1 DEF Handlers
  <2>3. StateOf(s)' = StateOf(s) /\ Answered(s)' = Answered(s) /\ Taken(s)' = Taken(s)
    BY <1>1, <1>4, <2>1, <2>2 DEF StateOf, Answered, Taken
  <2>4. Flight(s)' = Flight(s) /\ OfStream(log', s) = OfStream(log, s)
    BY <1>1, <2>1, <2>3 DEF Flight, Unread
  <2>5. UNCHANGED S!vars
    BY <1>2, <1>7, <2>3, <2>4, Stutters DEF HandlerStep
  <2> QED
    BY <2>5
<1>8. CASE EndOfStream(s)
  <2>1. /\ handler'[s] = [handler[s] EXCEPT !.at = "ended", !.ack = handler[s].n]
        /\ handler[s].at = "recv" /\ peer[s].closed /\ handler[s].read = peer[s].sent /\ log' = log
    BY <1>1, <1>8 DEF EndOfStream, AtEnd
  <2>2. /\ handler'[s].at = "ended" /\ handler'[s].read = handler[s].read
        /\ handler'[s].ack = handler[s].n /\ handler[s].n # NoAck
    BY <1>1, <2>1 DEF Handlers, NoAck
  <2>3. StateOf(s) = "halfclosed" /\ StateOf(s)' = "acked"
    <3>1. handler[s].ack = NoAck
      BY <1>4, <2>1
    <3>2. StateOf(s) = "halfclosed"
      BY <2>1, <3>1 DEF StateOf
    <3>3. handler'[s].ack # NoAck
      BY <2>2
    <3>4. StateOf(s)' = "acked"
      BY <2>2, <3>3 DEF StateOf
    <3> QED
      BY <3>2, <3>4
  <2>4. Between(s, peer[s].sent, peer[s].sent) = <<>>
    BY <1>1, BetweenEmpty
  <2>5. Flight(s) = <<>> /\ Flight(s)' = <<>>
    BY <1>1, <2>1, <2>2, <2>3, <2>4 DEF Flight, Unread, Taken
  <2>6. OfStream(log', s) = OfStream(log, s) /\ Answered(s)' = Len(OfStream(log, s))
    BY <1>1, <2>1, <2>2 DEF Answered, FlowOK
  <2>7. /\ ToSend' = [ToSend EXCEPT ![s] = Unsent(s)]
        /\ InFlight' = [InFlight EXCEPT ![s] = Flight(s)]
        /\ Ingested' = [Ingested EXCEPT ![s] = OfStream(log, s)]
        /\ States' = [States EXCEPT ![s] = "acked"]
        /\ Acks' = [Acks EXCEPT ![s] = Len(OfStream(log, s))]
    BY <1>2, <1>8, <2>3, <2>5, <2>6, OneEntry DEF HandlerStep
  <2>8. S!Answer(s)
    BY <2>3, <2>5, <2>7, Entries DEF S!Answer, ToSend, InFlight, Ingested
  <2> QED
    BY <2>8
<1>9. CASE RecvFails(s)
  <2>1. /\ handler'[s] = [handler[s] EXCEPT !.at = "ended"]
        /\ handler[s].at = "recv" /\ peer[s].broken /\ log' = log
    BY <1>1, <1>9 DEF RecvFails
  <2>2. handler'[s].at = "ended" /\ handler'[s].ack = handler[s].ack
    BY <1>1, <2>1 DEF Handlers
  <2>3. StateOf(s) \in {"open", "halfclosed"} /\ StateOf(s)' = "broken"
    BY <1>1, <1>4, <2>1, <2>2 DEF StateOf
  <2>4. Flight(s)' = <<>> /\ Answered(s)' = Answered(s) /\ OfStream(log', s) = OfStream(log, s)
    BY <2>1, <2>2, <2>3 DEF Flight, Answered
  <2>5. /\ ToSend' = [ToSend EXCEPT ![s] = Unsent(s)]
        /\ InFlight' = [InFlight EXCEPT ![s] = <<>>]
        /\ Ingested' = [Ingested EXCEPT ![s] = OfStream(log, s)]
        /\ States' = [States EXCEPT ![s] = "broken"]
        /\ Acks' = [Acks EXCEPT ![s] = Answered(s)]
    BY <1>2, <1>9, <2>3, <2>4, OneEntry DEF HandlerStep
  <2>6. S!Break(s)
    BY <2>3, <2>5, Entries DEF S!Break, ToSend, Ingested, Acks
  <2> QED
    BY <2>6
<1> QED
  BY <1>3, <1>5, <1>6, <1>7, <1>8, <1>9 DEF HandlerStep

(* Every step of the coordinator is a step of the service, or none. *)
LEMMA StepRefines == IInv /\ SInv /\ [Next]_vars => [S!Next]_S!vars
<1> SUFFICES ASSUME IInv, SInv, [Next]_vars PROVE [S!Next]_S!vars
  OBVIOUS
<1>1. ASSUME NEW s \in Stream, Send(s) \/ HalfClose(s) \/ Break(s)
      PROVE  [S!Next]_S!vars
  BY <1>1, PeerRefines DEF S!Next
<1>2. ASSUME NEW s \in Stream, Accept(s) \/ HandlerStep(s)
      PROVE  [S!Next]_S!vars
  BY <1>2, HandlerRefines DEF S!Next
<1>3. CASE UNCHANGED <<peer, handler, log>>
  BY <1>3 DEF S!vars, ToSend, InFlight, Ingested, States, Acks, Unsent, Flight, Unread, Taken,
              StateOf, Answered
<1>4. \/ UNCHANGED <<peer, handler, log>>
      \/ \E s \in Stream : Accept(s) \/ Send(s) \/ HalfClose(s) \/ Break(s) \/ HandlerStep(s)
  BY DEF Next, vars, CallReport, ReportStep, Snapshot, Respond, Stop, Stopped
<1> QED
  BY <1>1, <1>2, <1>3, <1>4

(* However the handlers interleave, every stream is taken in once and in     *)
(* order, malformed messages left out and nothing after them lost, answered  *)
(* with the count of what was ingested once all of it is, and ended          *)
(* otherwise only when it broke (grpc.go:70-93).                             *)
THEOREM StreamsAreServed == Spec => ImplementsStreams
<1>1. Spec => S!Spec
  BY StreamsInit, StepRefines, StreamInvariant, PTL DEF Spec, S!Spec
<1> QED
  BY <1>1 DEF ImplementsStreams
=============================================================================
