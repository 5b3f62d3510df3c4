------------------------------- MODULE Agent --------------------------------
(* internal/agent/agent.go with the client half of internal/transport/      *)
(* grpc.go: one Run of the per-node agent. The collectors' goroutines, one  *)
(* fan-in goroutine each, the goroutine that closes merged, Run itself and  *)
(* the goroutine that streams to the coordinator are processes joined by    *)
(* bounded channels. The context may be cancelled, a collector may fail to  *)
(* start and the connection may break at any point.                         *)
(*                                                                          *)
(* An event is <<i, k>>, the k-th event of collector i. pushed is all that  *)
(* was pushed to the ring buffer: RingBuffer tells what of it is retained.  *)
EXTENDS Integers, Sequences, SequencesExt, Flows

CONSTANTS MaxCollectors, \* how many collectors may be registered
          Emits,         \* Emits[i]: how many events collector i has to give
          Live,          \* collectors that never finish (tail)
          MayFail,       \* collectors whose Start may return an error
          Cap,           \* capacities: Cap.events, Cap.merged, Cap.out, Cap.wire
          Links,         \* the states the connection may start in
          MaxFaults      \* bound: how often the connection breaks

ASSUME ParametersAssumption ==
    /\ MaxCollectors \in Nat
    /\ Emits \in [1..MaxCollectors -> Nat]
    /\ Live \subseteq 1..MaxCollectors /\ MayFail \subseteq 1..MaxCollectors
    /\ Cap \in [{"events", "merged", "out", "wire"} -> Nat \ {0}]
    /\ Links \subseteq {"up", "down"} /\ MaxFaults \in Nat

VARIABLES
    ctxDone, \* the caller's context is cancelled
    setup,   \* before Run: collectors 1..setup.count added, client set or not
    coll,    \* collectors: control point, own cancel called, events sent, channel
    fan,     \* fan-in goroutines: control point, event in hand (at most one)
    merged,  \* channel from the fan-in goroutines to Run
    run,     \* Run: control point, loop index, what it returns, event on offer
    pushed,  \* the events pushed to the ring buffer
    out,     \* channel from Run to the streaming goroutine
    str,     \* StreamEvents: control point, event in hand, whether it failed
    net      \* link, faults so far, stream, what is in flight on it, what the
             \* coordinator ingested, the count it acknowledged

vars == <<ctxDone, setup, coll, fan, merged, run, pushed, out, str, net>>

Colls == 1..setup.count
Empty == [q |-> <<>>, closed |-> FALSE]

Init == /\ ctxDone = FALSE
        /\ setup \in [count : 0..MaxCollectors, client : BOOLEAN]
        /\ coll = [i \in Colls |-> [at |-> "new", stop |-> FALSE, sent |-> 0, q |-> <<>>]]
        /\ fan = [i \in Colls |-> [at |-> "off", ev |-> <<>>]]
        /\ run = [at |-> IF setup.count = 0 THEN "blocked" ELSE "starting",
                  idx |-> 1, res |-> "nil", ev |-> <<>>]
        /\ merged = Empty /\ out = Empty /\ pushed = <<>>
        /\ str = [at |-> "off", ev |-> <<>>, err |-> FALSE]
        /\ net \in [link : Links, faults : {0}, stream : {"none"}, wire : {<<>>},
                    ingested : {<<>>}, ack : {0}]

(* Mutant: channels without a bound. *)
RoomAlways(q, cap) == TRUE
(* A channel takes another event. *)
Room(q, cap) == Len(q) < cap

(* The caller's context ends, at any time. *)
Cancel == /\ ~ctxDone
          /\ ctxDone' = TRUE
          /\ UNCHANGED <<setup, coll, fan, merged, run, pushed, out, str, net>>

----------------------------------------------------------------------------
(* Collectors (internal/collector): a goroutine that puts events on its     *)
(* channel under a select with its context, and closes the channel at last. *)

(* With room and a done context the select may still choose to send. *)
Emit(i) == /\ coll[i].at = "running"
           /\ coll[i].sent < Emits[i] /\ Room(coll[i].q, Cap.events)
           /\ coll' = [coll EXCEPT ![i].sent = @ + 1,
                                   ![i].q = Append(@, <<i, coll[i].sent + 1>>)]
           /\ UNCHANGED <<ctxDone, setup, fan, merged, run, pushed, out, str, net>>

CollectorExit(i) == /\ coll[i].at = "running"
                    /\ \/ ctxDone \/ coll[i].stop
                       \/ i \notin Live /\ coll[i].sent = Emits[i]
                    /\ coll' = [coll EXCEPT ![i].at = "exited"]
                    /\ UNCHANGED <<ctxDone, setup, fan, merged, run, pushed, out, str, net>>

----------------------------------------------------------------------------
(* Fan-in. *)

FanRecv(i) == /\ fan[i].at = "recv" /\ coll[i].q # <<>>
              /\ fan' = [fan EXCEPT ![i] = [at |-> "send", ev |-> <<Head(coll[i].q)>>]]
              /\ coll' = [coll EXCEPT ![i].q = Tail(@)]
              /\ UNCHANGED <<ctxDone, setup, merged, run, pushed, out, str, net>>

FanSend(i) == /\ fan[i].at = "send" /\ Room(merged.q, Cap.merged)
              /\ merged' = [merged EXCEPT !.q = @ \o fan[i].ev]
              /\ fan' = [fan EXCEPT ![i] = [at |-> "recv", ev |-> <<>>]]
              /\ UNCHANGED <<ctxDone, setup, coll, run, pushed, out, str, net>>

(* Mutant: the goroutine goes on with the next event. *)
AfterDropGoesOn == [at |-> "recv", ev |-> <<>>]
AfterDrop == [at |-> "exited", ev |-> <<>>]
(* ctx.Done wins the select: the event in hand is dropped, and the goroutine *)
(* takes no other.                                                           *)
FanCancel(i) == /\ fan[i].at = "send" /\ ctxDone
                /\ fan' = [fan EXCEPT ![i] = AfterDrop]
                /\ UNCHANGED <<ctxDone, setup, coll, merged, run, pushed, out, str, net>>

(* The collector's channel is closed and drained. *)
FanEnd(i) == /\ fan[i].at = "recv" /\ coll[i].q = <<>> /\ coll[i].at = "exited"
             /\ fan' = [fan EXCEPT ![i].at = "exited"]
             /\ UNCHANGED <<ctxDone, setup, coll, merged, run, pushed, out, str, net>>

(* wg.Wait(); close(merged) *)
CloseMerged == /\ run.at \in {"main", "offering"} /\ ~merged.closed
               /\ \A i \in Colls : fan[i].at = "exited"
               /\ merged' = [merged EXCEPT !.closed = TRUE]
               /\ UNCHANGED <<ctxDone, setup, coll, fan, run, pushed, out, str, net>>

----------------------------------------------------------------------------
(* Run. *)

(* No collectors: wait for the context, then shut down. *)
RunBlocked == /\ run.at = "blocked" /\ ctxDone
              /\ run' = [run EXCEPT !.at = "stopping"]
              /\ UNCHANGED <<ctxDone, setup, coll, fan, merged, pushed, out, str, net>>

(* One collector starts. After the last one Run starts the fan-in           *)
(* goroutines and, if there is a client, the streaming goroutine.           *)
StartOK == /\ run.at = "starting"
           /\ coll' = [coll EXCEPT ![run.idx].at = "running"]
           /\ IF run.idx < setup.count
              THEN run' = [run EXCEPT !.idx = @ + 1] /\ UNCHANGED <<fan, str>>
              ELSE /\ run' = [run EXCEPT !.idx = 1, !.at = "main"]
                   /\ fan' = [i \in Colls |-> [fan[i] EXCEPT !.at = "recv"]]
                   /\ str' = IF setup.client THEN [str EXCEPT !.at = "opening"] ELSE str
           /\ UNCHANGED <<ctxDone, setup, merged, pushed, out, net>>

(* Mutant: nothing is shut down. *)
AfterFailedStartReturn == "returned"
AfterFailedStart == "stopping"
(* Start fails: what was started before it is shut down. *)
StartFails == /\ run.at = "starting" /\ run.idx \in MayFail
              /\ run' = [run EXCEPT !.at = AfterFailedStart, !.idx = 1, !.res = "startErr"]
              /\ UNCHANGED <<ctxDone, setup, coll, fan, merged, pushed, out, str, net>>

(* The next event is recorded first, then offered to the coordinator. *)
RunRecv == /\ run.at = "main" /\ merged.q # <<>>
           /\ merged' = [merged EXCEPT !.q = Tail(@)]
           /\ pushed' = Append(pushed, Head(merged.q))
           /\ run' = IF setup.client
                     THEN [run EXCEPT !.at = "offering", !.ev = <<Head(merged.q)>>] ELSE run
           /\ UNCHANGED <<ctxDone, setup, coll, fan, out, str, net>>

RunOffer == /\ run.at = "offering" /\ Room(out.q, Cap.out)
            /\ out' = [out EXCEPT !.q = @ \o run.ev]
            /\ run' = [run EXCEPT !.at = "main", !.ev = <<>>]
            /\ UNCHANGED <<ctxDone, setup, coll, fan, merged, pushed, str, net>>

(* Mutant: select with a default branch: a full out drops the event. *)
MaySkipWhenFull == ctxDone \/ Len(out.q) = Cap.out
(* Mutant: a plain send, without a case for ctx. *)
MaySkipNever == FALSE
MaySkip == ctxDone
(* ctx.Done wins: recorded, not forwarded. *)
RunSkip == /\ run.at = "offering" /\ MaySkip
           /\ run' = [run EXCEPT !.at = "main", !.ev = <<>>]
           /\ UNCHANGED <<ctxDone, setup, coll, fan, merged, pushed, out, str, net>>

(* Mutant: out is left open. *)
OutOpen == out
OutClosed == [out EXCEPT !.closed = setup.client]
(* merged is closed and drained: close out, then wait for the stream. *)
RunEnd == /\ run.at = "main" /\ merged.closed /\ merged.q = <<>>
          /\ run' = [run EXCEPT !.at = IF setup.client THEN "waiting" ELSE "stopping"]
          /\ out' = OutClosed
          /\ UNCHANGED <<ctxDone, setup, coll, fan, merged, pushed, str, net>>

RunJoin == /\ run.at = "waiting" /\ str.at = "done"
           /\ run' = [run EXCEPT !.at = "stopping"]
           /\ UNCHANGED <<ctxDone, setup, coll, fan, merged, pushed, out, str, net>>

(* shutdown, one collector: cancel it, if it was started, ... *)
StopCollector == /\ run.at = "stopping" /\ run.idx \in Colls
                 /\ coll[run.idx].at # "new" /\ ~coll[run.idx].stop
                 /\ coll' = [coll EXCEPT ![run.idx].stop = TRUE]
                 /\ UNCHANGED <<ctxDone, setup, fan, merged, run, pushed, out, str, net>>

(* ... and wait for its goroutine. *)
CollectorStopped == /\ run.at = "stopping" /\ run.idx \in Colls
                    /\ \/ coll[run.idx].at = "new"
                       \/ coll[run.idx].at = "exited" /\ coll[run.idx].stop
                    /\ run' = [run EXCEPT !.idx = @ + 1]
                    /\ UNCHANGED <<ctxDone, setup, coll, fan, merged, pushed, out, str, net>>

RunReturn == /\ run.at = "stopping" /\ run.idx \notin Colls
             /\ run' = [run EXCEPT !.at = "returned",
                                   !.res = IF @ = "nil" /\ str.err /\ ~ctxDone
                                           THEN "streamErr" ELSE @]
             /\ UNCHANGED <<ctxDone, setup, coll, fan, merged, pushed, out, str, net>>

----------------------------------------------------------------------------
(* The client's StreamEvents, and pump. *)

OpenOK == /\ str.at = "opening" /\ net.link = "up" /\ ~ctxDone
          /\ str' = [str EXCEPT !.at = "pumping"]
          /\ net' = [net EXCEPT !.stream = "open"]
          /\ UNCHANGED <<ctxDone, setup, coll, fan, merged, run, pushed, out>>

OpenFails == /\ str.at = "opening" /\ (net.link = "down" \/ ctxDone)
             /\ str' = [str EXCEPT !.at = "backoff"]
             /\ UNCHANGED <<ctxDone, setup, coll, fan, merged, run, pushed, out, net>>

(* The backoff timer fires. *)
Retry == /\ str.at = "backoff"
         /\ str' = [str EXCEPT !.at = "opening"]
         /\ UNCHANGED <<ctxDone, setup, coll, fan, merged, run, pushed, out, net>>

(* ctx.Done, in the backoff and in pump. *)
StreamCancel == /\ str.at \in {"backoff", "pumping"} /\ ctxDone
                /\ str' = [str EXCEPT !.at = "done", !.err = TRUE]
                /\ UNCHANGED <<ctxDone, setup, coll, fan, merged, run, pushed, out, net>>

(* An event from out, in hand until Send returns. *)
PumpTake == /\ str.at = "pumping" /\ out.q # <<>>
            /\ str' = [str EXCEPT !.at = "sending", !.ev = <<Head(out.q)>>]
            /\ out' = [out EXCEPT !.q = Tail(@)]
            /\ UNCHANGED <<ctxDone, setup, coll, fan, merged, run, pushed, net>>

(* Send waits for flow control, and returns before the peer has the event. *)
SendOK == /\ str.at = "sending" /\ net.stream = "open" /\ Len(net.wire) < Cap.wire
          /\ net' = [net EXCEPT !.wire = @ \o str.ev]
          /\ str' = [str EXCEPT !.at = "pumping", !.ev = <<>>]
          /\ UNCHANGED <<ctxDone, setup, coll, fan, merged, run, pushed, out>>

(* Mutant: a new stream is opened and goes on with the next event. *)
AfterFailedSendReopen == "opening"
AfterFailedSend == "done"
(* The first Send that fails ends pump, and StreamEvents with it. *)
SendFails == /\ str.at = "sending" /\ net.stream = "broken"
             /\ str' = [str EXCEPT !.at = AfterFailedSend, !.ev = <<>>, !.err = TRUE]
             /\ UNCHANGED <<ctxDone, setup, coll, fan, merged, run, pushed, out, net>>

(* Mutant: out counts as closed as soon as it is drained. *)
OutDrained == out.q = <<>>
OutDone == out.closed /\ out.q = <<>>
(* out is closed and drained: CloseSend, ... *)
PumpClose == /\ str.at = "pumping" /\ OutDone
             /\ str' = [str EXCEPT !.at = "closing"]
             /\ net' = [net EXCEPT !.stream = IF @ = "open" THEN "halfclosed" ELSE @]
             /\ UNCHANGED <<ctxDone, setup, coll, fan, merged, run, pushed, out>>

(* ... then the acknowledgement, or the error the stream ended with. *)
CloseAndRecv == /\ str.at = "closing" /\ net.stream \in {"acked", "broken"}
                /\ str' = [str EXCEPT !.at = "done", !.err = (net.stream = "broken")]
                /\ UNCHANGED <<ctxDone, setup, coll, fan, merged, run, pushed, out, net>>

----------------------------------------------------------------------------
(* The network, and the coordinator's handler of the stream. *)

Broken(n) == [n EXCEPT !.stream = IF @ = "none" THEN @ ELSE "broken", !.wire = <<>>]

(* The connection is lost, and with it what was in flight. *)
LinkDown == /\ net.link = "up" /\ net.faults < MaxFaults
            /\ net' = [Broken(net) EXCEPT !.link = "down", !.faults = @ + 1]
            /\ UNCHANGED <<ctxDone, setup, coll, fan, merged, run, pushed, out, str>>

LinkUp == /\ net.link = "down"
          /\ net' = [net EXCEPT !.link = "up"]
          /\ UNCHANGED <<ctxDone, setup, coll, fan, merged, run, pushed, out, str>>

(* gRPC resets the stream of a context that is done. *)
StreamReset == /\ ctxDone /\ net.stream \in {"open", "halfclosed"}
               /\ net' = Broken(net)
               /\ UNCHANGED <<ctxDone, setup, coll, fan, merged, run, pushed, out, str>>

(* The handler's Recv returns an event: it is ingested. *)
ServerRecv == /\ net.stream \in {"open", "halfclosed"} /\ net.wire # <<>>
              /\ net' = [net EXCEPT !.wire = Tail(@), !.ingested = Append(@, Head(net.wire))]
              /\ UNCHANGED <<ctxDone, setup, coll, fan, merged, run, pushed, out, str>>

(* Recv returns io.EOF: SendAndClose with the count. *)
ServerEOF == /\ net.stream = "halfclosed" /\ net.wire = <<>>
             /\ net' = [net EXCEPT !.stream = "acked", !.ack = Len(net.ingested)]
             /\ UNCHANGED <<ctxDone, setup, coll, fan, merged, run, pushed, out, str>>

----------------------------------------------------------------------------

FanStep(i) == FanRecv(i) \/ FanSend(i) \/ FanCancel(i) \/ FanEnd(i)
RunStep == \/ RunBlocked \/ StartOK \/ StartFails \/ RunRecv \/ RunOffer \/ RunSkip \/ RunEnd
           \/ RunJoin \/ StopCollector \/ CollectorStopped \/ RunReturn
StreamStep == \/ OpenOK \/ OpenFails \/ Retry \/ StreamCancel \/ PumpTake \/ SendOK
              \/ SendFails \/ PumpClose \/ CloseAndRecv
ServerStep == ServerRecv \/ ServerEOF

(* Run has returned: there is nothing left to wait for. *)
Returned == run.at = "returned" /\ UNCHANGED vars

Next == \/ Cancel
        \/ \E i \in Colls : Emit(i) \/ CollectorExit(i) \/ FanStep(i)
        \/ CloseMerged \/ RunStep \/ StreamStep
        \/ LinkDown \/ LinkUp \/ StreamReset \/ ServerStep
        \/ Returned

(* Every goroutine that can move does, the server handles what it received, *)
(* a reset is noticed, and a select whose context stays done chooses it in  *)
(* the end (Go picks a ready case at random). A live collector need not     *)
(* emit, nobody has to cancel, a lost connection need not come back.        *)
Fairness == /\ \A i \in 1..MaxCollectors :
                  /\ WF_vars(i \in Colls /\ CollectorExit(i))
                  /\ WF_vars(i \in Colls \ Live /\ Emit(i))
                  /\ WF_vars(i \in Colls /\ FanStep(i))
            /\ WF_vars(CloseMerged) /\ WF_vars(RunStep)
            /\ WF_vars(StreamStep) /\ SF_vars(StreamCancel)
            /\ WF_vars(ServerStep) /\ WF_vars(StreamReset)

Spec == Init /\ [][Next]_vars
FairSpec == Spec /\ Fairness

----------------------------------------------------------------------------

Points == [run |-> {"blocked", "starting", "main", "offering", "waiting", "stopping", "returned"},
           fan |-> {"off", "recv", "send", "exited"},
           str |-> {"off", "opening", "backoff", "pumping", "sending", "closing", "done"}]

(* Types; no channel beyond its capacity, one event at most in each hand.    *)
TypeOK ==
    /\ ctxDone \in BOOLEAN
    /\ setup \in [count : 0..MaxCollectors, client : BOOLEAN]
    /\ \A i \in Colls : /\ coll[i].at \in {"new", "running", "exited"}
                         /\ coll[i].stop \in BOOLEAN /\ coll[i].sent \in 0..Emits[i]
                         /\ Len(coll[i].q) <= Cap.events
                         /\ fan[i].at \in Points.fan /\ Len(fan[i].ev) <= 1
    /\ run.at \in Points.run /\ run.idx \in 1..(MaxCollectors + 1)
    /\ run.res \in {"nil", "startErr", "streamErr"} /\ Len(run.ev) <= 1
    /\ Len(merged.q) <= Cap.merged /\ Len(out.q) <= Cap.out
    /\ str.at \in Points.str /\ Len(str.ev) <= 1 /\ str.err \in BOOLEAN
    /\ net.link \in {"up", "down"} /\ net.faults \in 0..MaxFaults
    /\ net.stream \in {"none", "open", "halfclosed", "acked", "broken"}
    /\ Len(net.wire) <= Cap.wire

Events == UNION {{<<i, k>> : k \in 1..Emits[i]} : i \in 1..MaxCollectors}
OfColl(s, i) == Only(s, {i} \X Nat)
UpTo(i, n) == Between(i, 0, n)

(* Between a collector and the ring buffer nothing is lost, duplicated or   *)
(* reordered while ctx lives; after that a collector's events still reach   *)
(* the buffer without a gap: it holds the first few of them (agent.go:54-67,*)
(* 83-91).                                                                  *)
CollectorOrder ==
    \A i \in Colls :
        LET arrived == OfColl(pushed \o merged.q, i)
            emitted == UpTo(i, coll[i].sent)
        IN  IF ctxDone THEN IsPrefix(arrived, emitted)
                       ELSE arrived \o fan[i].ev \o coll[i].q = emitted

(* What was recorded and is on its way to the coordinator, or arrived. *)
Forwarded == net.ingested \o net.wire \o str.ev \o out.q \o run.ev
(* What of it waits to be sent. *)
Waiting == str.ev \o out.q \o run.ev

(* As long as ctx lives and the stream stands, everything recorded is on    *)
(* its way: backpressure delays the forwarding, it drops nothing            *)
(* (agent.go:85-90, grpc.go:157-180).                                       *)
NothingLostWhileUp ==
    setup.client /\ ~ctxDone /\ net.stream # "broken" => Forwarded = pushed

One(x) == [s \in {"agent"} |-> x]
S == INSTANCE StreamService WITH
         Stream <- {"agent"}, Source <- One(<<>>), Rejected <- {},
         Event <- Events, cancelled <- ctxDone,
         todo <- One(Waiting), flight <- One(net.wire),
         got <- One(net.ingested), state <- One(net.stream), ack <- One(net.ack)

(* Whatever happens, the stream keeps the promise of StreamService: the      *)
(* coordinator sees what Run forwards in order and each event at most once;  *)
(* a stream that broke is not continued, so nothing follows what was lost    *)
(* with it; and only a broken stream or a cancelled ctx gives up an event    *)
(* that waits to be sent (agent.go:85-90, grpc.go:135-180).                  *)
ImplementsStream == S!Spec

(* A Run that returns nil on its own has recorded every event of every      *)
(* collector, and with a client the coordinator has ingested and            *)
(* acknowledged them all (agent.go:92-104).                                 *)
NilMeansDelivered ==
    run.at = "returned" /\ run.res = "nil" /\ ~ctxDone =>
        /\ \A i \in Colls : coll[i].sent = Emits[i] /\ OfColl(pushed, i) = UpTo(i, Emits[i])
        /\ setup.client => net.ingested = pushed /\ net.ack = Len(pushed)

(* Run leaves no goroutine behind, however it ends: not when a Start fails   *)
(* after others succeeded, not when it is cancelled with full channels       *)
(* (agent.go:46-51, 97, 106-115).                                            *)
NothingLeftBehind ==
    run.at = "returned" => /\ \A i \in Colls : /\ coll[i].at # "running"
                                               /\ fan[i].at \in {"off", "exited"}
                           /\ str.at \in {"off", "done"}

(* A cancelled Run returns, wherever cancellation finds its goroutines: the *)
(* stream opening, a channel full, the coordinator gone (agent.go:37-39).   *)
CancelStopsRun == ctxDone ~> (run.at = "returned")

ReplayOnly == run.at = "main" /\ Colls \cap Live = {}
Delivered == /\ \A i \in Colls : OfColl(pushed, i) = UpTo(i, Emits[i])
             /\ setup.client => net.ingested = pushed

(* With collectors that end and a connection that comes up and stays up, a  *)
(* Run that is not cancelled returns, everything delivered (agent.go:37-38).*)
ReplayEnds ==
    <>[](net.link = "up") =>
        (ReplayOnly ~> (ctxDone \/ net.stream = "broken" \/ (run.at = "returned" /\ Delivered)))

(* What grpc.go:136-138 says: "events already sent on a broken stream are   *)
(* not replayed: the ring buffer, not the wire, is the durable record". So  *)
(* what a collector emits gets into the ring buffer although a stream broke, *)
(* at the least when the coordinator is reachable again and stays so.        *)
RingBufferIsTheRecord ==
    <>[](net.link = "up") =>
        \A i \in 1..MaxCollectors : \A k \in 1..Emits[i] :
            (i \in Colls /\ coll[i].sent >= k) ~>
                (ctxDone \/ run.at = "returned" \/ <<i, k>> \in Range(pushed))
=============================================================================
