---------------------------- MODULE Coordinator -----------------------------
(* The coordinator process: the server half of internal/transport/grpc.go   *)
(* over internal/coordinator's Live, run by coordinatorCmd. One handler     *)
(* goroutine per agent stream, GetReport calls beside them, and a graceful  *)
(* stop. Agents are outside: they send, half-close, break, or do nothing.   *)
(*                                                                          *)
(* A message is <<s, k>>, the k-th of stream s. log, the order in which     *)
(* Live took the events in, is history: the code keeps its tail, live.      *)
EXTENDS Integers, Sequences, FiniteSets, Flows

CONSTANTS Stream,      \* agent streams
          Caller,      \* GetReport calls
          MaxMessages, \* bound: messages per stream
          Malformed,   \* messages FromProto rejects
          MaxEvents    \* NewLive's bound on what is kept

ASSUME CoordinatorAssumption ==
    /\ MaxMessages \in Nat /\ MaxEvents \in Nat \ {0}
    /\ Malformed \subseteq Stream \X (1..MaxMessages)

VARIABLES
    server,   \* serving, stopping (GracefulStop called), stopped (Serve returned)
    peer,     \* the agents' ends: messages sent, whether half-closed, broken
    handler,  \* StreamEvents: control point, messages read, event in hand, n, ack
    received, \* Server.received
    live,     \* Live.events
    log,      \* all that was ingested, in order
    report    \* GetReport calls: control point, length of log at the call, snapshot

vars == <<server, peer, handler, received, live, log, report>>

NoAck == -1

Init == /\ server = "serving"
        /\ peer = [s \in Stream |-> [sent |-> 0, closed |-> FALSE, broken |-> FALSE]]
        /\ handler = [s \in Stream |-> [at |-> "none", read |-> 0, n |-> 0, ack |-> NoAck]]
        /\ received = 0
        /\ live = <<>> /\ log = <<>>
        /\ report = [c \in Caller |-> [at |-> "idle", from |-> 0, snap |-> <<>>]]

----------------------------------------------------------------------------
(* The agents' ends. *)

Quiet(s) == peer[s].closed \/ peer[s].broken

Send(s) == /\ handler[s].at \notin {"none", "ended"} /\ ~Quiet(s)
           /\ peer[s].sent < MaxMessages
           /\ peer' = [peer EXCEPT ![s].sent = @ + 1]
           /\ UNCHANGED <<server, handler, received, live, log, report>>

HalfClose(s) == /\ handler[s].at \notin {"none", "ended"} /\ ~Quiet(s)
                /\ peer' = [peer EXCEPT ![s].closed = TRUE]
                /\ UNCHANGED <<server, handler, received, live, log, report>>

(* The agent dies, its connection is lost, or its context is done. *)
Break(s) == /\ handler[s].at \notin {"none", "ended"} /\ ~peer[s].broken
            /\ peer' = [peer EXCEPT ![s].broken = TRUE]
            /\ UNCHANGED <<server, handler, received, live, log, report>>

----------------------------------------------------------------------------
(* StreamEvents, one goroutine per stream. *)

(* gRPC accepts a stream only until GracefulStop. *)
Accept(s) == /\ server = "serving" /\ handler[s].at = "none"
             /\ handler' = [handler EXCEPT ![s].at = "recv"]
             /\ UNCHANGED <<server, peer, received, live, log, report>>

(* Mutant: a malformed message ends the stream. *)
AfterMalformedEnd == "ended"
AfterMalformed == "recv"
(* Recv returns a message; one that FromProto rejects is skipped. *)
Recv(s) == /\ handler[s].at = "recv" /\ handler[s].read < peer[s].sent
           /\ LET m == <<s, handler[s].read + 1>>
              IN  handler' = [handler EXCEPT ![s].read = @ + 1,
                                             ![s].at = IF m \in Malformed THEN AfterMalformed ELSE "ingest"]
           /\ UNCHANGED <<server, peer, received, live, log, report>>

(* Mutant: one event too many is kept. *)
NewestAndOne(q) == IF Len(q) > MaxEvents + 1 THEN SubSeq(q, Len(q) - MaxEvents, Len(q)) ELSE q
Newest(q) == IF Len(q) > MaxEvents THEN SubSeq(q, Len(q) - MaxEvents + 1, Len(q)) ELSE q

(* Mutant: the newest event is dropped when Live is full. *)
KeptOldest(q, e) == IF Len(q) < MaxEvents THEN Append(q, e) ELSE q
Kept(q, e) == Newest(Append(q, e))
(* Live.Ingest, under its mutex: append, then keep the newest MaxEvents. *)
Ingest(s) == /\ handler[s].at = "ingest"
             /\ LET e == <<s, handler[s].read>>
                IN  live' = Kept(live, e) /\ log' = Append(log, e)
             /\ handler' = [handler EXCEPT ![s].at = "count"]
             /\ UNCHANGED <<server, peer, received, report>>

(* n++ and the atomic received.Add(1). *)
Count(s) == /\ handler[s].at = "count"
            /\ handler' = [handler EXCEPT ![s].at = "recv", ![s].n = @ + 1]
            /\ received' = received + 1
            /\ UNCHANGED <<server, peer, live, log, report>>

(* Mutant: a server that is stopping acknowledges nothing. *)
AtEndWhileServing(s) == server = "serving" /\ peer[s].closed /\ handler[s].read = peer[s].sent
AtEnd(s) == peer[s].closed /\ handler[s].read = peer[s].sent
(* Recv returns io.EOF once everything before it was read: acknowledge. *)
EndOfStream(s) ==
    /\ handler[s].at = "recv" /\ AtEnd(s)
    /\ handler' = [handler EXCEPT ![s].at = "ended", ![s].ack = handler[s].n]
    /\ UNCHANGED <<server, peer, received, live, log, report>>

(* Mutant: a failed Recv is skipped like a malformed message. *)
RecvFailsGoesOn(s) == FALSE

(* Recv returns an error. What was sent and not read is lost. *)
RecvFails(s) == /\ handler[s].at = "recv" /\ peer[s].broken
                /\ handler' = [handler EXCEPT ![s].at = "ended"]
                /\ UNCHANGED <<server, peer, received, live, log, report>>

----------------------------------------------------------------------------
(* GetReport: Live.Report copies the events under the mutex and analyses the *)
(* copy without it.                                                          *)

CallReport(c) == /\ server = "serving" /\ report[c].at = "idle"
                 /\ report' = [report EXCEPT ![c].at = "called", ![c].from = Len(log)]
                 /\ UNCHANGED <<server, peer, handler, received, live, log>>

Snapshot(c) == /\ report[c].at = "called"
               /\ report' = [report EXCEPT ![c].at = "analysing", ![c].snap = live]
               /\ UNCHANGED <<server, peer, handler, received, live, log>>

Respond(c) == /\ report[c].at = "analysing"
              /\ report' = [report EXCEPT ![c].at = "done"]
              /\ UNCHANGED <<server, peer, handler, received, live, log>>

----------------------------------------------------------------------------

(* SIGTERM: coordinatorCmd calls Stop, that is GracefulStop. *)
Stop == /\ server = "serving"
        /\ server' = "stopping"
        /\ UNCHANGED <<peer, handler, received, live, log, report>>

(* Mutant: grpc.Server.Stop, which does not wait for the handlers. *)
IdleOrNot == TRUE
Idle == /\ \A s \in Stream : handler[s].at \in {"none", "ended"}
        /\ \A c \in Caller : report[c].at \in {"idle", "done"}
(* GracefulStop waits for every call in progress; only then does Serve, and  *)
(* with it Start and the process, return.                                    *)
Stopped == /\ server = "stopping" /\ Idle
           /\ server' = "stopped"
           /\ UNCHANGED <<peer, handler, received, live, log, report>>

HandlerStep(s) == \/ Recv(s) \/ Ingest(s) \/ Count(s) \/ EndOfStream(s) \/ RecvFails(s)
ReportStep(c) == Snapshot(c) \/ Respond(c)

Next == \/ \E s \in Stream : Accept(s) \/ Send(s) \/ HalfClose(s) \/ Break(s) \/ HandlerStep(s)
        \/ \E c \in Caller : CallReport(c) \/ ReportStep(c)
        \/ Stop \/ Stopped
        \/ server = "stopped" /\ UNCHANGED vars

(* Handlers run, and a graceful stop notices that it can end. Agents owe     *)
(* nothing.                                                                  *)
Fairness == /\ \A s \in Stream : WF_vars(HandlerStep(s))
            /\ \A c \in Caller : WF_vars(ReportStep(c))
            /\ WF_vars(Stopped)

Spec == Init /\ [][Next]_vars
FairSpec == Spec /\ Fairness

----------------------------------------------------------------------------

(* Types, and the bound on memory Live promises (coordinator.go:60). *)
TypeOK ==
    /\ server \in {"serving", "stopping", "stopped"}
    /\ peer \in [Stream -> [sent : 0..MaxMessages, closed : BOOLEAN, broken : BOOLEAN]]
    /\ \A s \in Stream :
           /\ handler[s].at \in {"none", "recv", "ingest", "count", "ended"}
           /\ handler[s].read \in 0..peer[s].sent /\ handler[s].n \in 0..handler[s].read
           /\ handler[s].ack \in 0..handler[s].n \cup {NoAck}
    /\ received \in Nat /\ Len(live) <= MaxEvents
    /\ \A c \in Caller : report[c].at \in {"idle", "called", "analysing", "done"}

Messages(s) == {s} \X (1..MaxMessages)
WellFormed(s, k) == Only(Between(s, 0, k), Messages(s) \ Malformed)
Taken(s) == IF handler[s].at = "ingest" THEN handler[s].read - 1 ELSE handler[s].read
OfStream(q, s) == Only(q, Messages(s))

(* What an agent has not sent; what Recv has not returned, or not yet        *)
(* ingested. A stream ends acknowledged or broken, and in no other way.      *)
Unsent(s) == Between(s, peer[s].sent, MaxMessages)
Unread(s) == Between(s, Taken(s), peer[s].sent)
StateOf(s) ==
    CASE handler[s].at = "none" -> "none"
      [] handler[s].at = "ended" /\ handler[s].ack # NoAck -> "acked"
      [] handler[s].at = "ended" /\ handler[s].ack = NoAck ->
             IF peer[s].broken THEN "broken" ELSE "abandoned"
      [] OTHER -> IF peer[s].closed THEN "halfclosed" ELSE "open"
Flight(s) == IF StateOf(s) = "broken" THEN <<>> ELSE Unread(s)
Answered(s) == IF handler[s].ack = NoAck THEN 0 ELSE handler[s].ack
ToSend == [s \in Stream |-> Unsent(s)]
InFlight == [s \in Stream |-> Flight(s)]
Ingested == [s \in Stream |-> OfStream(log, s)]
States == [s \in Stream |-> StateOf(s)]
Acks == [s \in Stream |-> Answered(s)]
S == INSTANCE StreamService WITH
         Source <- [s \in Stream |-> Between(s, 0, MaxMessages)],
         Event <- {}, Rejected <- Malformed, cancelled <- FALSE,
         todo <- ToSend, flight <- InFlight, got <- Ingested, state <- States, ack <- Acks

(* However the handlers interleave, each stream keeps the promise of         *)
(* StreamService: taken in once, in the order sent, malformed messages left  *)
(* out and nothing after them lost; acknowledged with the count of what was  *)
(* ingested, once all of it is; ended otherwise only when it broke           *)
(* (grpc.go:70-93).                                                          *)
ImplementsStreams == S!Spec

(* A report is computed from the newest MaxEvents events of one instant      *)
(* between the call and the answer: with everything acknowledged before the  *)
(* call, but for what newer events displaced (coordinator.go:75-89).         *)
ReportIsCurrent ==
    \A c \in Caller :
        report[c].at \in {"analysing", "done"} =>
            \E k \in report[c].from..Len(log) : report[c].snap = Newest(SubSeq(log, 1, k))

(* A stop loses nothing of a stream that did not break: once the server has  *)
(* stopped, all that was sent on it is ingested, counted and acknowledged;   *)
(* and every report that was asked for was given (grpc.go:65-68, 76-91).     *)
StopIsGraceful ==
    server = "stopped" =>
        /\ \A s \in Stream : handler[s].at # "none" /\ ~peer[s].broken =>
               /\ OfStream(log, s) = WellFormed(s, peer[s].sent)
               /\ handler[s].ack = Len(OfStream(log, s))
        /\ received = Len(log)
        /\ \A c \in Caller : report[c].at \in {"idle", "done"}

(* An agent that closes its stream is answered, or its connection breaks:    *)
(* neither a stop nor other streams starve it (grpc.go:72-78, 68).           *)
CloseIsAnswered ==
    \A s \in Stream : peer[s].closed ~> (handler[s].ack # NoAck \/ peer[s].broken)

(* A stop ends, if every agent ends its stream. *)
StopEnds ==
    (\A s \in Stream : []<>(handler[s].at = "none" \/ Quiet(s))) =>
        (server = "stopping" ~> server = "stopped")
=============================================================================
