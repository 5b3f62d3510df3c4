----------------------------- MODULE AgentProofs -----------------------------
(* For any number of collectors, whatever they emit, every capacity of the   *)
(* channels and any number of faults: no channel outgrows its capacity, and  *)
(* a Run that has returned has left no goroutine behind (IInv). And every    *)
(* event is where it belongs (FInv): in order on its way to the ring buffer, *)
(* in order on its way to the coordinator, over a stream that keeps the      *)
(* promise of StreamService.                                                 *)
EXTENDS Agent, FlowLemmas, TLAPS

Queue == Seq(Events)
Collectors == [at : {"new", "running", "exited"}, stop : BOOLEAN, sent : Nat, q : Queue]
Fans == [at : {"off", "recv", "send", "exited"}, ev : Queue]
Channels == [q : Queue, closed : BOOLEAN]
Runs == [at : {"blocked", "starting", "main", "offering", "waiting", "stopping", "returned"},
         idx : Nat, res : {"nil", "startErr", "streamErr"}, ev : Queue]
Streamers == [at : {"off", "opening", "backoff", "pumping", "sending", "closing", "done"},
              ev : Queue, err : BOOLEAN]
Nets == [link : {"up", "down"}, faults : Nat,
         stream : {"none", "open", "halfclosed", "acked", "broken"},
         wire : Queue, ingested : Queue, ack : Nat]

Shapes ==
    /\ ctxDone \in BOOLEAN
    /\ setup \in [count : 0..MaxCollectors, client : BOOLEAN]
    /\ coll \in [Colls -> Collectors] /\ fan \in [Colls -> Fans]
    /\ merged \in Channels /\ out \in Channels
    /\ run \in Runs /\ str \in Streamers /\ net \in Nets

(* What goroutines and channels hold. *)
HoldInv ==
    /\ \A i \in Colls : /\ coll[i].sent <= Emits[i] /\ Len(coll[i].q) <= Cap.events
                        /\ Len(fan[i].ev) <= 1
    /\ Len(merged.q) <= Cap.merged /\ Len(out.q) <= Cap.out /\ Len(net.wire) <= Cap.wire
    /\ Len(run.ev) <= 1 /\ Len(str.ev) <= 1 /\ net.faults <= MaxFaults

(* Who is running depends on how far Run is. IdxInv: where its loop index is. *)
(* FanInv: merged is closed after the last fan-in goroutine, and Run leaves  *)
(* its loop after that. StrInv: Run waits for the streaming goroutine. Only  *)
(* then does it go from collector to collector, which is CollInv.            *)
IdxInv ==
    /\ run.idx >= 1
    /\ run.at = "blocked" => setup.count = 0
    /\ run.at = "starting" => run.idx <= setup.count
    /\ run.at = "stopping" => run.idx <= setup.count + 1
    /\ run.at = "returned" => run.idx = setup.count + 1
    /\ run.at \in {"blocked", "main", "offering", "waiting"} => run.idx = 1
FanInv ==
    /\ run.at \in {"blocked", "starting"} => ~merged.closed /\ \A i \in Colls : fan[i].at = "off"
    /\ merged.closed => \A i \in Colls : fan[i].at = "exited"
    /\ run.at \in {"waiting", "stopping", "returned"} =>
           \A i \in Colls : fan[i].at \in {"off", "exited"}
StrInv ==
    /\ run.at \in {"blocked", "starting"} \/ ~setup.client => str.at = "off"
    /\ run.at \in {"stopping", "returned"} => str.at \in {"off", "done"}
CollInv ==
    run.at \in {"stopping", "returned"} => \A i \in Colls : i < run.idx => coll[i].at # "running"

IInv == Shapes /\ HoldInv /\ IdxInv /\ FanInv /\ StrInv /\ CollInv

----------------------------------------------------------------------------

LEMMA InitInvariant == Init => IInv
<1> SUFFICES ASSUME Init PROVE IInv
  OBVIOUS
<1>1. /\ MaxCollectors \in Nat /\ Emits \in [1..MaxCollectors -> Nat] /\ MaxFaults \in Nat
      /\ Cap \in [{"events", "merged", "out", "wire"} -> Nat \ {0}] /\ Links \subseteq {"up", "down"}
  BY ParametersAssumption
<1>2. /\ Cap.events \in Nat /\ Cap.merged \in Nat /\ Cap.out \in Nat /\ Cap.wire \in Nat
  BY <1>1
<1>3. setup.count \in 0..MaxCollectors /\ \A i \in Colls : Emits[i] \in Nat
  BY <1>1 DEF Init, Colls
<1>4. net \in Nets /\ net.wire = <<>> /\ net.faults = 0
  <2>1. <<>> \in Queue
    BY DEF Queue
  <2>2. PICK l \in Links : net = [link |-> l, faults |-> 0, stream |-> "none",
                                 wire |-> <<>>, ingested |-> <<>>, ack |-> 0]
    BY DEF Init
  <2>3. l \in {"up", "down"}
    BY <1>1
  <2> QED
    BY <2>1, <2>2, <2>3 DEF Nets
<1>5. Shapes
  <2>1. <<>> \in Queue
    BY DEF Queue
  <2>2. coll \in [Colls -> Collectors] /\ fan \in [Colls -> Fans]
    BY <2>1 DEF Init, Collectors, Fans
  <2>3. merged \in Channels /\ out \in Channels
    BY <2>1 DEF Init, Channels, Empty
  <2>4. run \in Runs /\ str \in Streamers
    BY <2>1 DEF Init, Runs, Streamers
  <2> QED
    BY <1>4, <2>2, <2>3, <2>4 DEF Init, Shapes
<1>6. HoldInv
  BY <1>1, <1>2, <1>3, <1>4 DEF Init, HoldInv, Empty
<1>7. IdxInv
  BY <1>3 DEF Init, IdxInv
<1>8. FanInv /\ StrInv /\ CollInv
  BY DEF Init, FanInv, StrInv, CollInv, Empty
<1> QED
  BY <1>5, <1>6, <1>7, <1>8 DEF IInv

(* No event at all is a queue, too. *)
LEMMA NoEvents == \E z \in Queue : z = <<>> /\ Len(z) = 0
<1>1. <<>> \in Queue /\ Len(<<>>) = 0
  BY DEF Queue
<1> QED
  BY <1>1, Zenon

(* Facts about a sequence that one event is taken from, or put at the end of. *)
LEMMA OneEvent ==
    ASSUME NEW q \in Queue
    PROVE  /\ \A e \in Events : Append(q, e) \in Queue /\ Len(Append(q, e)) = Len(q) + 1
           /\ \A p \in Queue : q \o p \in Queue /\ Len(q \o p) = Len(q) + Len(p)
           /\ q # <<>> => /\ Tail(q) \in Queue /\ Len(Tail(q)) = Len(q) - 1
                          /\ Head(q) \in Events
                          /\ <<Head(q)>> \in Queue /\ Len(<<Head(q)>>) = 1
           /\ Len(q) \in Nat
  BY DEF Queue

LEMMA Bounds ==
    ASSUME IInv
    PROVE  /\ Cap.events \in Nat /\ Cap.merged \in Nat /\ Cap.out \in Nat /\ Cap.wire \in Nat
           /\ setup.count \in Nat /\ MaxFaults \in Nat
           /\ \A i \in Colls : i \in Nat /\ Emits[i] \in Nat
  BY ParametersAssumption DEF IInv, Shapes, Colls

(* A collector's goroutine: it may stop running, and never starts again. *)
LEMMA CollectorKeeps ==
    ASSUME IInv, NEW i \in Colls, Emit(i) \/ CollectorExit(i)
    PROVE  IInv'
<1>1. UNCHANGED <<ctxDone, setup, fan, merged, run, out, str, net>> /\ Colls' = Colls
  BY DEF Emit, CollectorExit, Colls
<1>2. /\ coll \in [Colls -> Collectors] /\ coll[i] \in Collectors
      /\ coll[i].q \in Queue /\ coll[i].sent \in Nat
      /\ coll[i].sent <= Emits[i] /\ Len(coll[i].q) <= Cap.events
  BY DEF IInv, Shapes, HoldInv, Collectors
<1>3. /\ coll' \in [Colls -> Collectors]
      /\ coll'[i].sent <= Emits[i] /\ Len(coll'[i].q) <= Cap.events
      /\ \A j \in Colls : j # i => coll'[j] = coll[j]
      /\ coll[i].at = "running"
  <2>1. CASE Emit(i)
    <3> DEFINE e == <<i, coll[i].sent + 1>>
    <3>1. /\ coll[i].at = "running" /\ coll[i].sent < Emits[i] /\ Len(coll[i].q) < Cap.events
          /\ coll' = [coll EXCEPT ![i].sent = @ + 1, ![i].q = Append(@, e)]
      BY <2>1 DEF Emit, Room
    <3>2. e \in Events
      <4>1. /\ coll[i].sent \in Nat /\ coll[i].sent < Emits[i] /\ Emits[i] \in Nat
            /\ i \in 1..MaxCollectors
        BY <1>2, <3>1, Bounds, ParametersAssumption DEF IInv, Shapes, Colls
      <4>2. coll[i].sent + 1 \in 1..Emits[i]
        BY <4>1
      <4> QED
        BY <4>1, <4>2 DEF Events
    <3>3. /\ Append(coll[i].q, e) \in Queue
          /\ Len(Append(coll[i].q, e)) = Len(coll[i].q) + 1 /\ Len(coll[i].q) \in Nat
      BY <1>2, <3>2, OneEvent
    <3>4. coll'[i] = [coll[i] EXCEPT !.sent = @ + 1, !.q = Append(@, e)]
      BY <1>2, <3>1
    <3> DEFINE q == Append(coll[i].q, e)
               n == coll[i].sent + 1
    <3>6. coll'[i] = [coll[i] EXCEPT !.sent = n, !.q = q] /\ n \in Nat /\ q \in Queue
      BY <1>2, <3>3, <3>4
    <3> HIDE DEF e, q, n
    <3>7. coll'[i] \in Collectors /\ coll'[i].sent = n /\ coll'[i].q = q
      BY <1>2, <3>6 DEF Collectors
    <3>5. /\ coll'[i] \in Collectors /\ coll'[i].sent = coll[i].sent + 1
          /\ coll'[i].q = Append(coll[i].q, e)
      BY <3>7 DEF q, n
    <3> QED
      BY <1>2, <3>1, <3>3, <3>5, Bounds
  <2>2. CASE CollectorExit(i)
    BY <1>2, <2>2 DEF CollectorExit, Collectors
  <2> QED
    BY <2>1, <2>2
<1>4. Shapes'
  BY <1>1, <1>3 DEF IInv, Shapes
<1>5. HoldInv'
  BY <1>1, <1>3 DEF IInv, HoldInv
<1>6. IdxInv' /\ FanInv' /\ StrInv'
  BY <1>1 DEF IInv, IdxInv, FanInv, StrInv
<1>7. CollInv'
  BY <1>1, <1>3 DEF IInv, CollInv, Shapes, Collectors, Emit, CollectorExit
<1> QED
  BY <1>4, <1>5, <1>6, <1>7 DEF IInv

(* A fan-in goroutine: one that has exited, or was never started, does not   *)
(* move.                                                                     *)
LEMMA FanKeeps ==
    ASSUME IInv, NEW i \in Colls, FanStep(i)
    PROVE  IInv'
<1>1. UNCHANGED <<ctxDone, setup, run, out, str, net>> /\ Colls' = Colls
  BY DEF FanStep, FanRecv, FanSend, FanCancel, FanEnd, Colls
<1>2. /\ coll \in [Colls -> Collectors] /\ coll[i].q \in Queue /\ coll[i] \in Collectors
      /\ fan \in [Colls -> Fans] /\ fan[i].ev \in Queue /\ fan[i] \in Fans
      /\ merged \in Channels /\ merged.q \in Queue
      /\ Len(coll[i].q) <= Cap.events /\ Len(fan[i].ev) <= 1 /\ Len(merged.q) <= Cap.merged
      /\ Len(merged.q) \in Nat /\ Len(fan[i].ev) \in Nat /\ Len(coll[i].q) \in Nat
  BY DEF IInv, Shapes, HoldInv, Collectors, Fans, Channels, Queue
<1>3. /\ fan' \in [Colls -> Fans] /\ Len(fan'[i].ev) <= 1 /\ fan[i].at \in {"recv", "send"}
      /\ \A j \in Colls : j # i => fan'[j] = fan[j]
  <2>0. PICK z \in Queue : z = <<>> /\ Len(z) = 0
    BY NoEvents
  <2>1. CASE FanRecv(i)
    <3>1. <<Head(coll[i].q)>> \in Queue /\ Len(<<Head(coll[i].q)>>) = 1
      BY <1>2, <2>1, OneEvent DEF FanRecv
    <3> QED
      BY <1>2, <2>1, <3>1 DEF FanRecv, Fans
  <2>2. CASE FanSend(i)
    <3>1. fan[i].at = "send" /\ fan' = [fan EXCEPT ![i] = [at |-> "recv", ev |-> z]]
      BY <2>0, <2>2 DEF FanSend
    <3> QED
      BY <1>2, <2>0, <3>1 DEF Fans
  <2>3. CASE FanCancel(i)
    <3>1. fan[i].at = "send" /\ fan' = [fan EXCEPT ![i] = [at |-> "exited", ev |-> z]]
      BY <2>0, <2>3 DEF FanCancel, AfterDrop
    <3> QED
      BY <1>2, <2>0, <3>1 DEF Fans
  <2>4. CASE FanEnd(i)
    BY <1>2, <2>4 DEF FanEnd, Fans
  <2> QED
    BY <2>1, <2>2, <2>3, <2>4 DEF FanStep
<1>4. /\ coll' \in [Colls -> Collectors] /\ Len(coll'[i].q) <= Cap.events
      /\ coll'[i].sent = coll[i].sent /\ coll'[i].at = coll[i].at
      /\ \A j \in Colls : j # i => coll'[j] = coll[j]
  <2>1. CASE FanRecv(i)
    <3>1. Tail(coll[i].q) \in Queue /\ Len(Tail(coll[i].q)) = Len(coll[i].q) - 1
      BY <1>2, <2>1, OneEvent DEF FanRecv
    <3> DEFINE q == Tail(coll[i].q)
    <3>2. /\ coll' = [coll EXCEPT ![i].q = q]
          /\ q \in Queue /\ Len(q) = Len(coll[i].q) - 1 /\ Cap.events \in Nat
      BY <2>1, <3>1, Bounds DEF FanRecv
    <3> HIDE DEF q
    <3>3. coll'[i] = [coll[i] EXCEPT !.q = q] /\ \A j \in Colls : j # i => coll'[j] = coll[j]
      BY <1>2, <3>2
    <3>4. coll'[i] \in Collectors /\ coll'[i].q = q
      BY <1>2, <3>2, <3>3 DEF Collectors
    <3> QED
      BY <1>2, <3>2, <3>3, <3>4
  <2>2. CASE coll' = coll
    BY <1>2, <2>2
  <2> QED
    BY <2>1, <2>2 DEF FanStep, FanSend, FanCancel, FanEnd
<1>5. merged' \in Channels /\ merged'.closed = merged.closed /\ Len(merged'.q) <= Cap.merged
  <2>1. CASE FanSend(i)
    <3>1. /\ merged.q \o fan[i].ev \in Queue
          /\ Len(merged.q \o fan[i].ev) = Len(merged.q) + Len(fan[i].ev)
      BY <1>2, OneEvent
    <3>2. Len(merged.q) < Cap.merged /\ merged' = [merged EXCEPT !.q = @ \o fan[i].ev]
      BY <2>1 DEF FanSend, Room
    <3> DEFINE q == merged.q \o fan[i].ev
    <3>4. Len(q) <= Cap.merged
      <4> DEFINE a == Len(merged.q)
                 b == Len(fan[i].ev)
      <4>1. /\ a \in Nat /\ b \in Nat /\ b <= 1 /\ a < Cap.merged /\ Cap.merged \in Nat
            /\ Len(q) = a + b
        BY <1>2, <3>1, <3>2, Bounds
      <4> HIDE DEF a, b, q
      <4> QED
        BY <4>1
    <3>3. merged' = [merged EXCEPT !.q = q] /\ q \in Queue
      BY <3>1, <3>2
    <3> HIDE DEF q
    <3> QED
      BY <1>2, <3>3, <3>4 DEF Channels
  <2>2. CASE merged' = merged
    BY <1>2, <2>2
  <2> QED
    BY <2>1, <2>2 DEF FanStep, FanRecv, FanCancel, FanEnd
<1>6. Shapes'
  BY <1>1, <1>3, <1>4, <1>5 DEF IInv, Shapes
<1>7. HoldInv'
  BY <1>1, <1>3, <1>4, <1>5 DEF IInv, HoldInv
<1>8. IdxInv' /\ StrInv'
  BY <1>1 DEF IInv, IdxInv, StrInv
<1>9. FanInv'
  BY <1>1, <1>3, <1>5 DEF IInv, FanInv
<1>10. CollInv'
  BY <1>1, <1>4 DEF IInv, CollInv
<1> QED
  BY <1>6, <1>7, <1>8, <1>9, <1>10 DEF IInv

LEMMA CloseMergedKeeps ==
    ASSUME IInv, CloseMerged
    PROVE  IInv'
<1>1. /\ UNCHANGED <<ctxDone, setup, coll, fan, run, out, str, net>> /\ Colls' = Colls
      /\ merged' = [merged EXCEPT !.closed = TRUE]
      /\ run.at \in {"main", "offering"} /\ \A i \in Colls : fan[i].at = "exited"
  BY DEF CloseMerged, Colls
<1>2. merged \in Channels
  BY DEF IInv, Shapes
<1>3. merged' \in Channels /\ merged'.q = merged.q
  BY <1>1, <1>2 DEF Channels
<1>4. Shapes' /\ HoldInv'
  BY <1>1, <1>3 DEF IInv, Shapes, HoldInv
<1>5. IdxInv' /\ FanInv' /\ StrInv' /\ CollInv'
  BY <1>1 DEF IInv, IdxInv, FanInv, StrInv, CollInv
<1> QED
  BY <1>4, <1>5 DEF IInv

----------------------------------------------------------------------------
(* Run. *)

(* Run before its loop: it starts the collectors, or is blocked or fails.    *)
LEMMA StartKeeps ==
    ASSUME IInv, RunBlocked \/ StartOK \/ StartFails
    PROVE  IInv'
<1>1. /\ coll \in [Colls -> Collectors] /\ fan \in [Colls -> Fans]
      /\ run \in Runs /\ str \in Streamers /\ run.idx \in Nat /\ setup.count \in Nat
      /\ run.idx >= 1
  BY DEF IInv, Shapes, Runs, IdxInv
<1>2. CASE RunBlocked
  <2>1. /\ UNCHANGED <<ctxDone, setup, coll, fan, merged, out, str, net>> /\ Colls' = Colls
        /\ run.at = "blocked" /\ run' = [run EXCEPT !.at = "stopping"]
    BY <1>2 DEF RunBlocked, Colls
  <2>2. /\ run' \in Runs /\ run'.at = "stopping" /\ run'.idx = run.idx /\ run'.ev = run.ev
    BY <1>1, <2>1 DEF Runs
  <2>3. Shapes' /\ HoldInv'
    BY <2>1, <2>2 DEF IInv, Shapes, HoldInv
  <2>4. IdxInv'
    BY <1>1, <2>1, <2>2 DEF IInv, IdxInv
  <2>5. FanInv' /\ StrInv'
    BY <2>1, <2>2 DEF IInv, FanInv, StrInv
  <2>6. CollInv'
    BY <2>1, <2>2 DEF IInv, IdxInv, CollInv, Colls
  <2> QED
    BY <2>3, <2>4, <2>5, <2>6 DEF IInv
<1>3. CASE StartFails
  <2>1. /\ UNCHANGED <<ctxDone, setup, coll, fan, merged, out, str, net>> /\ Colls' = Colls
        /\ run.at = "starting"
        /\ run' = [run EXCEPT !.at = "stopping", !.idx = 1, !.res = "startErr"]
    BY <1>3 DEF StartFails, AfterFailedStart, Colls
  <2>2. /\ run' \in Runs /\ run'.at = "stopping" /\ run'.idx = 1 /\ run'.ev = run.ev
    BY <1>1, <2>1 DEF Runs
  <2>3. Shapes' /\ HoldInv'
    BY <2>1, <2>2 DEF IInv, Shapes, HoldInv
  <2>4. IdxInv'
    BY <1>1, <2>1, <2>2 DEF IInv, IdxInv
  <2>5. FanInv' /\ StrInv'
    BY <2>1, <2>2 DEF IInv, FanInv, StrInv
  <2>6. CollInv'
    BY <1>1, <2>1, <2>2 DEF CollInv, Colls
  <2> QED
    BY <2>3, <2>4, <2>5, <2>6 DEF IInv
<1>4. CASE StartOK
  <2>1. /\ UNCHANGED <<ctxDone, setup, merged, out, net>> /\ Colls' = Colls
        /\ run.at = "starting" /\ coll' = [coll EXCEPT ![run.idx].at = "running"]
    BY <1>4 DEF StartOK, Colls
  <2>2. run.idx \in Colls
    BY <1>1, <2>1 DEF IInv, IdxInv, Colls
  <2>3. /\ coll' \in [Colls -> Collectors]
        /\ \A i \in Colls : coll'[i].sent = coll[i].sent /\ coll'[i].q = coll[i].q
    BY <1>1, <2>1, <2>2 DEF Collectors
  <2>4. CASE run.idx < setup.count
    <3>1. run' = [run EXCEPT !.idx = @ + 1] /\ UNCHANGED <<fan, str>>
      BY <1>4, <2>4 DEF StartOK
    <3>2. /\ run' \in Runs /\ run'.at = "starting" /\ run'.idx = run.idx + 1 /\ run'.ev = run.ev
      BY <1>1, <2>1, <3>1 DEF Runs
    <3>3. Shapes' /\ HoldInv'
      BY <2>1, <2>3, <3>1, <3>2 DEF IInv, Shapes, HoldInv
    <3>4. IdxInv'
      BY <1>1, <2>1, <2>4, <3>2 DEF IdxInv
    <3>5. FanInv' /\ StrInv' /\ CollInv'
      BY <2>1, <3>1, <3>2 DEF IInv, FanInv, StrInv, CollInv
    <3> QED
      BY <3>3, <3>4, <3>5 DEF IInv
  <2>5. CASE ~(run.idx < setup.count)
    <3>1. /\ run' = [run EXCEPT !.idx = 1, !.at = "main"]
          /\ fan' = [i \in Colls |-> [fan[i] EXCEPT !.at = "recv"]]
          /\ str' = IF setup.client THEN [str EXCEPT !.at = "opening"] ELSE str
      BY <1>4, <2>5 DEF StartOK
    <3>2. /\ run' \in Runs /\ run'.at = "main" /\ run'.idx = 1 /\ run'.ev = run.ev
      BY <1>1, <3>1 DEF Runs
    <3>3. /\ fan' \in [Colls -> Fans]
          /\ \A i \in Colls : fan'[i].at = "recv" /\ fan'[i].ev = fan[i].ev
      BY <1>1, <3>1 DEF Fans
    <3>4. str' \in Streamers /\ str'.ev = str.ev /\ (~setup.client => str' = str)
      BY <1>1, <3>1 DEF Streamers
    <3>5. Shapes'
      BY <2>1, <2>3, <3>2, <3>3, <3>4 DEF IInv, Shapes
    <3>6. HoldInv'
      BY <2>1, <2>3, <3>2, <3>3, <3>4 DEF IInv, HoldInv
    <3>7. IdxInv' /\ CollInv'
      BY <3>2 DEF IdxInv, CollInv
    <3>8. FanInv' /\ StrInv'
      BY <2>1, <3>2, <3>3, <3>4 DEF IInv, FanInv, StrInv
    <3> QED
      BY <3>5, <3>6, <3>7, <3>8 DEF IInv
  <2> QED
    BY <2>4, <2>5
<1> QED
  BY <1>2, <1>3, <1>4

(* Run's loop moves events, and no goroutine. *)
LEMMA LoopKeeps ==
    ASSUME IInv, RunRecv \/ RunOffer \/ RunSkip
    PROVE  IInv'
<1>1. /\ UNCHANGED <<ctxDone, setup, coll, fan, str, net>> /\ Colls' = Colls
      /\ run.at \in {"main", "offering"}
  BY DEF RunRecv, RunOffer, RunSkip, Colls
<1>2. /\ run \in Runs /\ run.ev \in Queue /\ Len(run.ev) \in Nat /\ Len(run.ev) <= 1
      /\ merged \in Channels /\ merged.q \in Queue /\ Len(merged.q) \in Nat
      /\ Len(merged.q) <= Cap.merged /\ Len(out.q) <= Cap.out
      /\ out \in Channels /\ out.q \in Queue /\ Len(out.q) \in Nat
  BY DEF IInv, Shapes, HoldInv, Runs, Channels, Queue
<1>3. PICK z \in Queue : z = <<>> /\ Len(z) = 0
  BY NoEvents
<1>4. /\ run' \in Runs /\ run'.at \in {"main", "offering"} /\ run'.idx = run.idx
      /\ Len(run'.ev) <= 1
  <2>1. CASE RunRecv
    <3> DEFINE e == <<Head(merged.q)>>
    <3>1. e \in Queue /\ Len(e) = 1
      BY <1>2, <2>1, OneEvent DEF RunRecv
    <3>2. run' = IF setup.client THEN [run EXCEPT !.at = "offering", !.ev = e] ELSE run
      BY <2>1 DEF RunRecv
    <3> HIDE DEF e
    <3>3. CASE setup.client
      <4>1. run' = [run EXCEPT !.at = "offering", !.ev = e] /\ run \in Runs /\ e \in Queue
        BY <1>2, <3>1, <3>2, <3>3
      <4>2. run' \in Runs /\ run'.at = "offering" /\ run'.ev = e /\ run'.idx = run.idx
        BY <4>1 DEF Runs
      <4>3. Len(e) = 1
        BY <3>1
      <4>4. Len(run'.ev) = 1
        BY <4>2, <4>3, Zenon
      <4> QED
        BY <4>2, <4>4
    <3>4. CASE ~setup.client
      BY <1>1, <1>2, <3>2, <3>4
    <3> QED
      BY <3>3, <3>4
  <2>2. CASE RunOffer
    <3>1. run' = [run EXCEPT !.at = "main", !.ev = z] /\ run \in Runs /\ z \in Queue
      BY <1>2, <1>3, <2>2 DEF RunOffer
    <3>2. run' \in Runs /\ run'.at = "main" /\ run'.ev = z /\ run'.idx = run.idx
      BY <3>1 DEF Runs
    <3> QED
      BY <1>3, <3>2
  <2>3. CASE RunSkip
    <3>1. run' = [run EXCEPT !.at = "main", !.ev = z] /\ run \in Runs /\ z \in Queue
      BY <1>2, <1>3, <2>3 DEF RunSkip
    <3>2. run' \in Runs /\ run'.at = "main" /\ run'.ev = z /\ run'.idx = run.idx
      BY <3>1 DEF Runs
    <3> QED
      BY <1>3, <3>2
  <2> QED
    BY <2>1, <2>2, <2>3
<1>5. merged' \in Channels /\ merged'.closed = merged.closed /\ Len(merged'.q) <= Cap.merged
  <2>1. CASE RunRecv
    <3> DEFINE q == Tail(merged.q)
    <3>1. /\ q \in Queue /\ Len(q) = Len(merged.q) - 1 /\ Cap.merged \in Nat
          /\ merged' = [merged EXCEPT !.q = q]
      BY <1>2, <2>1, OneEvent, Bounds DEF RunRecv
    <3> HIDE DEF q
    <3> QED
      BY <1>2, <3>1 DEF Channels
  <2>2. CASE merged' = merged
    BY <1>2, <2>2
  <2> QED
    BY <2>1, <2>2 DEF RunOffer, RunSkip
<1>6. out' \in Channels /\ Len(out'.q) <= Cap.out
  <2>1. CASE RunOffer
    <3> DEFINE q == out.q \o run.ev
               a == Len(out.q)
               b == Len(run.ev)
    <3>1. /\ q \in Queue /\ Len(q) = a + b /\ out' = [out EXCEPT !.q = q]
          /\ a < Cap.out /\ Cap.out \in Nat /\ a \in Nat /\ b \in Nat /\ b <= 1
      BY <1>2, <2>1, OneEvent, Bounds DEF RunOffer, Room
    <3> HIDE DEF q, a, b
    <3>2. Len(q) <= Cap.out
      BY <3>1
    <3> QED
      BY <1>2, <3>1, <3>2 DEF Channels
  <2>2. CASE out' = out
    BY <1>2, <2>2
  <2> QED
    BY <2>1, <2>2 DEF RunRecv, RunSkip
<1>7. Shapes' /\ HoldInv'
  BY <1>1, <1>4, <1>5, <1>6 DEF IInv, Shapes, HoldInv
<1>8. IdxInv' /\ FanInv' /\ StrInv' /\ CollInv'
  BY <1>1, <1>4, <1>5 DEF IInv, IdxInv, FanInv, StrInv, CollInv
<1> QED
  BY <1>7, <1>8 DEF IInv

(* Run leaves its loop when every fan-in goroutine has exited, and waits for *)
(* the streaming goroutine.                                                  *)
LEMMA EndKeeps ==
    ASSUME IInv, RunEnd \/ RunJoin
    PROVE  IInv'
<1>1. /\ UNCHANGED <<ctxDone, setup, coll, fan, merged, str, net>> /\ Colls' = Colls
  BY DEF RunEnd, RunJoin, Colls
<1>2. run \in Runs /\ out \in Channels /\ setup.count \in Nat /\ setup.client \in BOOLEAN
  BY DEF IInv, Shapes
<1>3. /\ run' \in Runs /\ run'.idx = run.idx /\ run'.ev = run.ev /\ run.idx = 1
      /\ out' \in Channels /\ out'.q = out.q
      /\ run'.at \in {"waiting", "stopping"}
      /\ \A i \in Colls : fan[i].at \in {"off", "exited"}
      /\ run'.at = "stopping" => str.at \in {"off", "done"}
  <2>1. CASE RunEnd
    BY <1>2, <2>1 DEF RunEnd, OutClosed, Runs, Channels, IInv, FanInv, StrInv, IdxInv
  <2>2. CASE RunJoin
    BY <1>2, <2>2 DEF RunJoin, Runs, IInv, FanInv, StrInv, IdxInv
  <2> QED
    BY <2>1, <2>2
<1>4. Shapes' /\ HoldInv'
  BY <1>1, <1>3 DEF IInv, Shapes, HoldInv
<1>5. IdxInv'
  BY <1>1, <1>2, <1>3 DEF IdxInv
<1>6. FanInv'
  BY <1>1, <1>3 DEF IInv, FanInv
<1>7. StrInv'
  BY <1>1, <1>3 DEF IInv, StrInv
<1>8. CollInv'
  BY <1>1, <1>3, Bounds DEF CollInv, Colls
<1> QED
  BY <1>4, <1>5, <1>6, <1>7, <1>8 DEF IInv

(* shutdown passes a collector when its goroutine has ended. *)
LEMMA ShutdownKeeps ==
    ASSUME IInv, StopCollector \/ CollectorStopped \/ RunReturn
    PROVE  IInv'
<1>1. /\ UNCHANGED <<ctxDone, setup, fan, merged, out, str, net>> /\ Colls' = Colls
      /\ run.at = "stopping"
  BY DEF StopCollector, CollectorStopped, RunReturn, Colls
<1>2. /\ run \in Runs /\ run.idx \in Nat /\ run.idx >= 1 /\ run.idx <= setup.count + 1
      /\ setup.count \in Nat /\ coll \in [Colls -> Collectors]
  BY <1>1 DEF IInv, Shapes, Runs, IdxInv
<1>3. /\ coll' \in [Colls -> Collectors]
      /\ \A i \in Colls : /\ coll'[i].at = coll[i].at /\ coll'[i].sent = coll[i].sent
                          /\ coll'[i].q = coll[i].q
  <2>1. CASE StopCollector
    BY <1>2, <2>1 DEF StopCollector, Collectors
  <2>2. CASE coll' = coll
    BY <1>2, <2>2
  <2> QED
    BY <2>1, <2>2 DEF CollectorStopped, RunReturn
<1>4. /\ run' \in Runs /\ run'.ev = run.ev /\ run'.at \in {"stopping", "returned"}
      /\ run'.idx <= setup.count + 1 /\ run'.idx >= 1
      /\ run'.at = "returned" => run'.idx = setup.count + 1
      /\ \/ run'.idx = run.idx
         \/ run'.idx = run.idx + 1 /\ run.idx \in Colls /\ coll[run.idx].at # "running"
  <2>1. CASE StopCollector
    BY <1>1, <1>2, <2>1 DEF StopCollector
  <2>2. CASE CollectorStopped
    <3>1. /\ run' = [run EXCEPT !.idx = @ + 1] /\ run.idx \in Colls
          /\ UNCHANGED coll /\ coll[run.idx].at # "running"
      BY <2>2 DEF CollectorStopped
    <3>2. run.idx + 1 \in Nat /\ run.idx + 1 <= setup.count + 1
      BY <1>2, <3>1 DEF Colls
    <3>3. /\ run' \in Runs /\ run'.ev = run.ev /\ run'.at = "stopping"
          /\ run'.idx = run.idx + 1
      BY <1>1, <1>2, <3>1, <3>2 DEF Runs
    <3> QED
      BY <1>2, <3>1, <3>2, <3>3
  <2>3. CASE RunReturn
    <3>1. PICK x \in {run.res, "streamErr"} :
              run' = [run EXCEPT !.at = "returned", !.res = x]
      BY <2>3 DEF RunReturn
    <3>2. run' \in Runs /\ run'.ev = run.ev /\ run'.at = "returned" /\ run'.idx = run.idx
      BY <1>2, <3>1 DEF Runs
    <3>3. run.idx = setup.count + 1
      BY <1>2, <2>3 DEF RunReturn, Colls
    <3> QED
      BY <1>2, <3>2, <3>3
  <2> QED
    BY <2>1, <2>2, <2>3
<1>5. Shapes' /\ HoldInv'
  BY <1>1, <1>3, <1>4 DEF IInv, Shapes, HoldInv
<1>6. IdxInv'
  BY <1>1, <1>4 DEF IdxInv
<1>7. FanInv' /\ StrInv'
  BY <1>1, <1>4 DEF IInv, FanInv, StrInv
<1>8. CollInv'
  <2> SUFFICES ASSUME NEW i \in Colls, i < run'.idx PROVE coll[i].at # "running"
    BY <1>1, <1>3 DEF CollInv
  <2>1. i \in Nat /\ (i < run.idx \/ i = run.idx)
    BY <1>2, <1>4, Bounds
  <2> QED
    BY <1>1, <1>4, <2>1 DEF IInv, CollInv
<1> QED
  BY <1>5, <1>6, <1>7, <1>8 DEF IInv

----------------------------------------------------------------------------
(* The client, and the network. *)

(* The streaming goroutine: one that has ended does not move. *)
LEMMA StreamKeeps ==
    ASSUME IInv, StreamStep
    PROVE  IInv'
<1>1. /\ UNCHANGED <<ctxDone, setup, coll, fan, merged, run>> /\ Colls' = Colls
      /\ str.at \in {"opening", "backoff", "pumping", "sending", "closing"}
  BY DEF StreamStep, OpenOK, OpenFails, Retry, StreamCancel, PumpTake, SendOK, SendFails,
         PumpClose, CloseAndRecv, Colls
<1>2. /\ str \in Streamers /\ str.ev \in Queue /\ Len(str.ev) \in Nat /\ Len(str.ev) <= 1
      /\ out \in Channels /\ out.q \in Queue /\ Len(out.q) \in Nat /\ Len(out.q) <= Cap.out
      /\ net \in Nets /\ net.wire \in Queue /\ Len(net.wire) \in Nat /\ Len(net.wire) <= Cap.wire
  BY DEF IInv, Shapes, HoldInv, Streamers, Channels, Nets, Queue
<1>3. PICK z \in Queue : z = <<>> /\ Len(z) = 0
  BY NoEvents
<1>4. str' \in Streamers /\ Len(str'.ev) <= 1
  <2>1. CASE OpenOK \/ OpenFails \/ Retry \/ StreamCancel \/ PumpClose
    BY <1>2, <2>1 DEF OpenOK, OpenFails, Retry, StreamCancel, PumpClose, Streamers
  <2>2. CASE PumpTake
    <3> DEFINE e == <<Head(out.q)>>
    <3>1. e \in Queue /\ Len(e) = 1 /\ str' = [str EXCEPT !.at = "sending", !.ev = e]
      BY <1>2, <2>2, OneEvent DEF PumpTake
    <3> HIDE DEF e
    <3>2. e \in Queue /\ str \in Streamers /\ str' = [str EXCEPT !.at = "sending", !.ev = e]
      BY <1>2, <3>1
    <3>3. str' \in Streamers /\ str'.ev = e
      BY <3>2 DEF Streamers
    <3>4. Len(e) = 1
      BY <3>1
    <3>5. Len(str'.ev) = 1
      BY <3>3, <3>4, Zenon
    <3> QED
      BY <3>3, <3>5
  <2>3. CASE SendOK
    <3>1. z \in Queue /\ str \in Streamers /\ str' = [str EXCEPT !.at = "pumping", !.ev = z]
      BY <1>2, <1>3, <2>3 DEF SendOK
    <3>2. str' \in Streamers /\ str'.ev = z
      BY <3>1 DEF Streamers
    <3> QED
      BY <1>3, <3>2
  <2>4. CASE SendFails
    <3>1. /\ z \in Queue /\ str \in Streamers
          /\ str' = [str EXCEPT !.at = "done", !.ev = z, !.err = TRUE]
      BY <1>2, <1>3, <2>4 DEF SendFails, AfterFailedSend
    <3>2. str' \in Streamers /\ str'.ev = z
      BY <3>1 DEF Streamers
    <3> QED
      BY <1>3, <3>2
  <2>5. CASE CloseAndRecv
    <3>1. PICK b \in BOOLEAN : str' = [str EXCEPT !.at = "done", !.err = b]
      BY <2>5 DEF CloseAndRecv
    <3> QED
      BY <1>2, <3>1 DEF Streamers
  <2> QED
    BY <2>1, <2>2, <2>3, <2>4, <2>5 DEF StreamStep
<1>5. out' \in Channels /\ Len(out'.q) <= Cap.out
  <2>1. CASE PumpTake
    <3> DEFINE q == Tail(out.q)
    <3>1. /\ q \in Queue /\ Len(q) = Len(out.q) - 1 /\ Cap.out \in Nat
          /\ out' = [out EXCEPT !.q = q]
      BY <1>2, <2>1, OneEvent, Bounds DEF PumpTake
    <3> HIDE DEF q
    <3> QED
      BY <1>2, <3>1 DEF Channels
  <2>2. CASE out' = out
    BY <1>2, <2>2
  <2> QED
    BY <2>1, <2>2 DEF StreamStep, OpenOK, OpenFails, Retry, StreamCancel, SendOK, SendFails,
                      PumpClose, CloseAndRecv
<1>6. net' \in Nets /\ Len(net'.wire) <= Cap.wire /\ net'.faults = net.faults
  <2>1. CASE OpenOK
    BY <1>2, <2>1 DEF OpenOK, Nets
  <2>2. CASE SendOK
    <3> DEFINE q == net.wire \o str.ev
               a == Len(net.wire)
               b == Len(str.ev)
    <3>1. /\ q \in Queue /\ Len(q) = a + b /\ net' = [net EXCEPT !.wire = q]
          /\ a < Cap.wire /\ Cap.wire \in Nat /\ a \in Nat /\ b \in Nat /\ b <= 1
      BY <1>2, <2>2, OneEvent, Bounds DEF SendOK
    <3> HIDE DEF q, a, b
    <3>2. Len(q) <= Cap.wire
      BY <3>1
    <3> QED
      BY <1>2, <3>1, <3>2 DEF Nets
  <2>3. CASE PumpClose
    BY <1>2, <2>3 DEF PumpClose, Nets
  <2>4. CASE net' = net
    BY <1>2, <2>4
  <2> QED
    BY <2>1, <2>2, <2>3, <2>4 DEF StreamStep, OpenFails, Retry, StreamCancel, PumpTake,
                                  SendFails, CloseAndRecv
<1>7. Shapes' /\ HoldInv'
  BY <1>1, <1>4, <1>5, <1>6 DEF IInv, Shapes, HoldInv
<1>8. IdxInv' /\ FanInv' /\ CollInv'
  BY <1>1 DEF IInv, IdxInv, FanInv, CollInv
<1>9. StrInv'
  BY <1>1, <1>4 DEF IInv, StrInv
<1> QED
  BY <1>7, <1>8, <1>9 DEF IInv

(* The network and the server touch nothing but the connection. *)
LEMMA NetKeeps ==
    ASSUME IInv, Cancel \/ LinkDown \/ LinkUp \/ StreamReset \/ ServerStep \/ UNCHANGED vars
    PROVE  IInv'
<1>1. /\ UNCHANGED <<setup, coll, fan, merged, run, out, str>> /\ Colls' = Colls
  BY DEF Cancel, LinkDown, LinkUp, StreamReset, ServerStep, ServerRecv, ServerEOF, vars, Colls
<1>2. /\ net \in Nets /\ net.wire \in Queue /\ Len(net.wire) \in Nat /\ Len(net.wire) <= Cap.wire
      /\ net.ingested \in Queue /\ Len(net.ingested) \in Nat
      /\ net.faults \in Nat /\ net.faults <= MaxFaults /\ ctxDone \in BOOLEAN
  BY DEF IInv, Shapes, HoldInv, Nets, Queue
<1>3. PICK z \in Queue : z = <<>> /\ Len(z) = 0
  BY NoEvents
<1>4. ctxDone' \in BOOLEAN
  BY <1>2 DEF Cancel, LinkDown, LinkUp, StreamReset, ServerStep, ServerRecv, ServerEOF, vars
<1>5. PICK s \in {"none", "broken"} : Broken(net) = [net EXCEPT !.stream = s, !.wire = z]
  BY <1>3 DEF Broken
<1>6. net' \in Nets /\ Len(net'.wire) <= Cap.wire /\ net'.faults <= MaxFaults
  <2>1. CASE LinkDown
    <3> DEFINE f == net.faults + 1
    <3>1. f \in Nat /\ f <= MaxFaults
      BY <1>2, <2>1, Bounds DEF LinkDown
    <3>2. net' = [net EXCEPT !.stream = s, !.wire = z, !.link = "down", !.faults = f]
      BY <1>2, <1>5, <2>1 DEF LinkDown, Nets
    <3> HIDE DEF f
    <3>3. f \in Nat /\ z \in Queue /\ net \in Nets /\ s \in {"none", "broken"}
      BY <1>2, <1>3, <1>5, <3>1
    <3>4. net' \in Nets /\ net'.wire = z /\ net'.faults = f
      BY <3>2, <3>3 DEF Nets
    <3> QED
      BY <1>3, <3>1, <3>4, Bounds
  <2>2. CASE LinkUp
    BY <1>2, <2>2 DEF LinkUp, Nets
  <2>3. CASE StreamReset
    <3>1. net' = [net EXCEPT !.stream = s, !.wire = z] /\ Cap.wire \in Nat
      BY <1>5, <2>3, Bounds DEF StreamReset
    <3>2. z \in Queue /\ net \in Nets /\ net' = [net EXCEPT !.stream = s, !.wire = z]
      BY <1>2, <1>3, <3>1
    <3>3. net' \in Nets /\ net'.wire = z /\ net'.faults = net.faults
      BY <1>5, <3>2 DEF Nets
    <3> QED
      BY <1>2, <1>3, <3>1, <3>3
  <2>4. CASE ServerRecv
    <3> DEFINE q == Tail(net.wire)
               g == Append(net.ingested, Head(net.wire))
    <3>1. /\ q \in Queue /\ g \in Queue /\ Len(q) = Len(net.wire) - 1 /\ Cap.wire \in Nat
          /\ net' = [net EXCEPT !.wire = q, !.ingested = g]
      BY <1>2, <2>4, OneEvent, Bounds DEF ServerRecv
    <3> HIDE DEF q, g
    <3>2. /\ q \in Queue /\ g \in Queue /\ net \in Nets
          /\ net' = [net EXCEPT !.wire = q, !.ingested = g]
      BY <1>2, <3>1
    <3>3. net' \in Nets /\ net'.wire = q /\ net'.faults = net.faults
      BY <3>2 DEF Nets
    <3> QED
      BY <1>2, <3>1, <3>3
  <2>5. CASE ServerEOF
    <3> DEFINE n == Len(net.ingested)
    <3>1. n \in Nat /\ net' = [net EXCEPT !.stream = "acked", !.ack = n]
      BY <1>2, <2>5 DEF ServerEOF
    <3> HIDE DEF n
    <3> QED
      BY <1>2, <3>1 DEF Nets
  <2>6. CASE net' = net
    BY <1>2, <2>6
  <2> QED
    BY <2>1, <2>2, <2>3, <2>4, <2>5, <2>6 DEF Cancel, ServerStep, vars
<1>7. Shapes' /\ HoldInv'
  BY <1>1, <1>4, <1>6 DEF IInv, Shapes, HoldInv
<1>8. IdxInv' /\ FanInv' /\ StrInv' /\ CollInv'
  BY <1>1 DEF IInv, IdxInv, FanInv, StrInv, CollInv
<1> QED
  BY <1>7, <1>8 DEF IInv

LEMMA StepInvariant == IInv /\ [Next]_vars => IInv'
<1> SUFFICES ASSUME IInv, [Next]_vars PROVE IInv'
  OBVIOUS
<1>1. ASSUME NEW i \in Colls, Emit(i) \/ CollectorExit(i) \/ FanStep(i)
      PROVE  IInv'
  BY <1>1, CollectorKeeps, FanKeeps
<1>2. CASE CloseMerged
  BY <1>2, CloseMergedKeeps
<1>3. CASE RunStep
  BY <1>3, StartKeeps, LoopKeeps, EndKeeps, ShutdownKeeps DEF RunStep
<1>4. CASE StreamStep
  BY <1>4, StreamKeeps
<1>5. CASE Cancel \/ LinkDown \/ LinkUp \/ StreamReset \/ ServerStep \/ UNCHANGED vars
  BY <1>5, NetKeeps
<1> QED
  BY <1>1, <1>2, <1>3, <1>4, <1>5 DEF Next, Returned

----------------------------------------------------------------------------

(* The invariant holds in every behaviour of the agent. *)
THEOREM Invariant == Spec => []IInv
  BY InitInvariant, StepInvariant, PTL DEF Spec

(* Every goroutine is where the code can be, none has more than one event in *)
(* hand, and no channel holds more than its capacity (agent.go:53-91).       *)
THEOREM TypeCorrect == Spec => []TypeOK
<1>1. IInv => TypeOK
  <2> SUFFICES ASSUME IInv PROVE TypeOK
    OBVIOUS
  <2>1. MaxCollectors \in Nat /\ MaxFaults \in Nat
    BY ParametersAssumption
  <2>2. /\ run.at \in Points.run /\ run.res \in {"nil", "startErr", "streamErr"}
        /\ str.at \in Points.str /\ str.err \in BOOLEAN
        /\ net.link \in {"up", "down"} /\ net.faults \in 0..MaxFaults
        /\ net.stream \in {"none", "open", "halfclosed", "acked", "broken"}
    BY <2>1 DEF IInv, Shapes, HoldInv, Runs, Streamers, Nets, Points
  <2>3. run.idx \in 1..(MaxCollectors + 1)
    BY <2>1 DEF IInv, Shapes, Runs, IdxInv
  <2>4. ASSUME NEW i \in Colls
        PROVE  /\ coll[i].at \in {"new", "running", "exited"}
               /\ coll[i].stop \in BOOLEAN /\ coll[i].sent \in 0..Emits[i]
               /\ fan[i].at \in Points.fan
    <3>1. /\ coll[i] \in Collectors /\ fan[i] \in Fans /\ coll[i].sent <= Emits[i]
          /\ Emits[i] \in Nat
      BY Bounds DEF IInv, Shapes, HoldInv
    <3> QED
      BY <3>1 DEF Collectors, Fans, Points
  <2> QED
    BY <2>2, <2>3, <2>4 DEF IInv, Shapes, HoldInv, TypeOK
<1> QED
  BY <1>1, Invariant, PTL

(* However a Run ends, it has waited for every collector it started, every   *)
(* fan-in goroutine and the streaming one (agent.go:46-51, 95-115).          *)
THEOREM LeavesNothingBehind == Spec => []NothingLeftBehind
<1>1. IInv => NothingLeftBehind
  <2> SUFFICES ASSUME IInv, run.at = "returned"
               PROVE  /\ \A i \in Colls : /\ coll[i].at # "running"
                                          /\ fan[i].at \in {"off", "exited"}
                      /\ str.at \in {"off", "done"}
    BY DEF NothingLeftBehind
  <2>1. \A i \in Colls : i < run.idx
    BY Bounds DEF IInv, IdxInv, Colls
  <2> QED
    BY <2>1 DEF IInv, CollInv, FanInv, StrInv
<1> QED
  BY <1>1, Invariant, PTL

----------------------------------------------------------------------------
(* Where the events are. *)

(* What goroutines have in hand. *)
HandInv ==
    /\ \A i \in Colls : fan[i].ev = <<>> <=> fan[i].at # "send"
    /\ run.ev = <<>> <=> run.at # "offering"
    /\ run.at = "offering" => setup.client
    /\ str.ev = <<>> <=> str.at # "sending"

(* A stream is opened once, closed when everything was sent, and holds       *)
(* nothing once it broke or was answered.                                    *)
StreamInv ==
    /\ str.at \in {"off", "opening", "backoff"} => net.stream = "none"
    /\ str.at \in {"pumping", "sending"} => net.stream \in {"open", "broken"}
    /\ str.at = "closing" => net.stream \in {"halfclosed", "acked", "broken"}
    /\ str.at = "done" /\ ~ctxDone => net.stream \in {"acked", "broken"}
    /\ net.stream \in {"none", "broken", "acked"} => net.wire = <<>>
    /\ str.at = "closing" \/ net.stream \in {"halfclosed", "acked"} => out.closed /\ out.q = <<>>
    /\ net.stream = "acked" => net.ack = Len(net.ingested)
    /\ out.closed => run.at \in {"waiting", "stopping", "returned"}
ForwardInv == setup.client /\ ~ctxDone /\ net.stream # "broken" => Forwarded = pushed
AnswerInv ==
    ~ctxDone /\ str.at = "done" /\ ~str.err =>
        out.closed /\ net.ingested = pushed /\ net.ack = Len(pushed)

(* How Run ends. *)
EndInv ==
    /\ run.at \notin {"stopping", "returned"} => run.res = "nil"
    /\ run.at = "waiting" => merged.closed /\ merged.q = <<>> /\ setup.client
    /\ run.at \in {"stopping", "returned"} /\ run.res # "startErr" /\ ~ctxDone =>
           merged.closed /\ merged.q = <<>> /\ (setup.client => str.at = "done")
    /\ run.at = "returned" /\ run.res = "nil" /\ ~ctxDone => ~str.err

Arrived(i) == OfColl(pushed \o merged.q, i)
OrderOK(i) ==
    /\ coll[i].stop => run.at \in {"stopping", "returned"}
    /\ coll[i].at = "exited" /\ ~coll[i].stop /\ ~ctxDone => coll[i].sent = Emits[i]
    /\ fan[i].at # "exited" => Arrived(i) \o fan[i].ev \o coll[i].q = UpTo(i, coll[i].sent)
    /\ fan[i].at = "exited" =>
           \E n \in 0..coll[i].sent :
               /\ Arrived(i) = UpTo(i, n)
               /\ \/ ctxDone
                  \/ /\ n = coll[i].sent /\ n = Emits[i]
                     /\ coll[i].q = <<>> /\ coll[i].at = "exited"
OrderInv == \A i \in Colls : OrderOK(i)

FInv == pushed \in Queue /\ HandInv /\ StreamInv /\ ForwardInv /\ AnswerInv /\ EndInv /\ OrderInv
----------------------------------------------------------------------------
(* Who may change what. *)
LEMMA Movers ==
    ASSUME [Next]_vars
    PROVE  /\ setup' = setup /\ Colls' = Colls
           /\ Cancel \/ ctxDone' = ctxDone
           /\ RunStep \/ run' = run
           /\ StartOK \/ (\E i \in Colls : FanStep(i)) \/ fan' = fan
           /\ StartOK \/ StreamStep \/ str' = str
           /\ RunOffer \/ RunEnd \/ PumpTake \/ out' = out
           /\ RunRecv \/ pushed' = pushed
           /\ CloseMerged \/ RunRecv \/ (\E i \in Colls : FanSend(i)) \/ merged' = merged
           /\ \/ OpenOK \/ SendOK \/ PumpClose \/ LinkDown \/ LinkUp \/ StreamReset
              \/ ServerStep \/ net' = net
<1> USE DEF Colls, RunStep, FanStep, StreamStep, ServerStep
<1>1. CASE \E i \in Colls : Emit(i) \/ CollectorExit(i) \/ FanStep(i)
  BY <1>1 DEF Emit, CollectorExit, FanRecv, FanSend, FanCancel, FanEnd
<1>2. CASE RunStep
  BY <1>2 DEF RunBlocked, StartOK, StartFails, RunRecv, RunOffer, RunSkip, RunEnd, RunJoin,
              StopCollector, CollectorStopped, RunReturn
<1>3. CASE StreamStep
  BY <1>3 DEF OpenOK, OpenFails, Retry, StreamCancel, PumpTake, SendOK, SendFails, PumpClose,
              CloseAndRecv
<1>4. CASE LinkDown \/ LinkUp \/ StreamReset \/ ServerStep
  BY <1>4 DEF LinkDown, LinkUp, StreamReset, ServerRecv, ServerEOF
<1>5. CASE Cancel \/ CloseMerged \/ UNCHANGED vars
  BY <1>5 DEF Cancel, CloseMerged, vars
<1> QED
  BY <1>1, <1>2, <1>3, <1>4, <1>5 DEF Next, Returned

(* Everything that moves is a queue of events. *)
LEMMA Queues ==
    ASSUME IInv
    PROVE  /\ merged \in Channels /\ merged.q \in Queue /\ out \in Channels /\ out.q \in Queue
           /\ run \in Runs /\ run.ev \in Queue /\ str \in Streamers /\ str.ev \in Queue
           /\ net \in Nets /\ net.wire \in Queue /\ net.ingested \in Queue
           /\ coll \in [Colls -> Collectors] /\ fan \in [Colls -> Fans]
           /\ \A i \in Colls : coll[i].q \in Queue /\ fan[i].ev \in Queue
  BY DEF IInv, Shapes, Channels, Runs, Streamers, Nets, Collectors, Fans

LEMMA NotEmpty == \A e : <<e>> # <<>>
  OBVIOUS

LEMMA HandKeeps ==
    ASSUME IInv, HandInv, [Next]_vars
    PROVE  HandInv'
<1>1. ASSUME NEW i \in Colls PROVE fan'[i].ev = <<>> <=> fan'[i].at # "send"
  <2>1. fan \in [Colls -> Fans] /\ fan[i] \in Fans /\ (fan[i].ev = <<>> <=> fan[i].at # "send")
    BY Queues DEF HandInv
  <2>2. CASE StartOK
    <3>1. run.at = "starting" /\ fan[i].at = "off"
      BY <2>2 DEF StartOK, IInv, FanInv
    <3>2. fan' = fan \/ fan'[i] = [fan[i] EXCEPT !.at = "recv"]
      BY <2>2 DEF StartOK
    <3> QED
      BY <2>1, <3>1, <3>2 DEF Fans
  <2>3. ASSUME NEW j \in Colls, FanStep(j) PROVE fan'[i].ev = <<>> <=> fan'[i].at # "send"
    <3>1. CASE i = j
      <4>1. CASE FanRecv(j)
        BY <2>1, <3>1, <4>1, NotEmpty DEF FanRecv
      <4>2. CASE FanSend(j) \/ FanCancel(j)
        <5>1. PICK a \in {"recv", "exited"} : fan' = [fan EXCEPT ![j] = [at |-> a, ev |-> <<>>]]
          BY <4>2 DEF FanSend, FanCancel, AfterDrop
        <5>2. fan'[i] = [at |-> a, ev |-> <<>>]
          BY <2>1, <3>1, <5>1
        <5> QED
          BY <5>2
      <4>3. CASE FanEnd(j)
        BY <2>1, <3>1, <4>3 DEF FanEnd, Fans
      <4> QED
        BY <2>3, <4>1, <4>2, <4>3 DEF FanStep
    <3>2. CASE i # j
      BY <2>1, <2>3, <3>2 DEF FanStep, FanRecv, FanSend, FanCancel, FanEnd
    <3> QED
      BY <3>1, <3>2
  <2> QED
    BY <2>1, <2>2, <2>3, Movers
<1>2. (run'.ev = <<>> <=> run'.at # "offering") /\ (run'.at = "offering" => setup'.client)
  <2>1. /\ run \in Runs /\ (run.ev = <<>> <=> run.at # "offering")
        /\ (run.at = "offering" => setup.client) /\ setup' = setup
    BY Queues, Movers DEF HandInv
  <2>2. CASE RunRecv
    <3>1. \/ run' = run
          \/ setup.client /\ run' = [run EXCEPT !.at = "offering", !.ev = <<Head(merged.q)>>]
      BY <2>2 DEF RunRecv
    <3>2. CASE setup.client /\ run' = [run EXCEPT !.at = "offering", !.ev = <<Head(merged.q)>>]
      <4>1. run'.at = "offering" /\ run'.ev = <<Head(merged.q)>>
        BY <2>1, <3>2 DEF Runs
      <4> QED
        BY <2>1, <3>2, <4>1, NotEmpty
    <3> QED
      BY <2>1, <3>1, <3>2
  <2>3. CASE RunOffer \/ RunSkip
    <3>1. run' = [run EXCEPT !.at = "main", !.ev = <<>>]
      BY <2>3 DEF RunOffer, RunSkip
    <3>2. run'.at = "main" /\ run'.ev = <<>>
      BY <2>1, <3>1 DEF Runs
    <3> QED
      BY <3>2
  <2>4. ASSUME run.at # "offering", run'.ev = run.ev, run'.at # "offering"
        PROVE  (run'.ev = <<>> <=> run'.at # "offering") /\ (run'.at = "offering" => setup'.client)
    BY <2>1, <2>4
  <2>5. CASE RunBlocked \/ StartOK \/ StartFails \/ RunEnd \/ RunJoin \/ CollectorStopped \/ RunReturn
    <3>1. run.at # "offering" /\ run'.ev = run.ev /\ run'.at # "offering"
      BY <2>1, <2>5 DEF RunBlocked, StartOK, StartFails, AfterFailedStart, RunEnd, RunJoin,
                        CollectorStopped, RunReturn, Runs
    <3> QED
      BY <2>4, <3>1
  <2>6. CASE run' = run
    BY <2>1, <2>6
  <2> QED
    BY <2>2, <2>3, <2>5, <2>6, Movers DEF RunStep, StopCollector
<1>3. str'.ev = <<>> <=> str'.at # "sending"
  <2>1. str \in Streamers /\ (str.ev = <<>> <=> str.at # "sending")
    BY Queues DEF HandInv
  <2>2. CASE PumpTake
    <3>1. str'.at = "sending" /\ str'.ev = <<Head(out.q)>>
      BY <2>1, <2>2 DEF PumpTake, Streamers
    <3> QED
      BY <3>1, NotEmpty
  <2>3. CASE SendOK \/ SendFails
    <3>1. str'.at \in {"pumping", "done"} /\ str'.ev = <<>>
      BY <2>1, <2>3 DEF SendOK, SendFails, AfterFailedSend, Streamers
    <3> QED
      BY <3>1
  <2>4. CASE OpenOK \/ OpenFails \/ Retry \/ StreamCancel \/ PumpClose \/ CloseAndRecv
    <3>1. str.at # "sending" /\ str'.ev = str.ev /\ str'.at # "sending"
      BY <2>1, <2>4 DEF OpenOK, OpenFails, Retry, StreamCancel, PumpClose, CloseAndRecv, Streamers
    <3> QED
      BY <2>1, <3>1
  <2>5. CASE StartOK
    <3>1. str.at = "off"
      BY <2>5 DEF StartOK, IInv, StrInv
    <3>2. str'.ev = str.ev /\ str'.at \in {"off", "opening"}
      BY <2>1, <2>5, <3>1 DEF StartOK, Streamers
    <3> QED
      BY <2>1, <3>1, <3>2
  <2>6. CASE str' = str
    BY <2>1, <2>6
  <2> QED
    BY <2>2, <2>3, <2>4, <2>5, <2>6, Movers DEF StreamStep
<1> QED
  BY <1>1, <1>2, <1>3, Movers DEF HandInv

(* The stream. Only the streaming goroutine opens, closes and leaves it; it   *)
(* breaks at any time, but is not reopened.                                  *)
LEMMA StreamInvKeeps ==
    ASSUME IInv, HandInv, StreamInv, [Next]_vars
    PROVE  StreamInv'
<1>1. /\ str \in Streamers /\ net \in Nets /\ out \in Channels /\ run \in Runs
      /\ str.at \in {"off", "opening", "backoff", "pumping", "sending", "closing", "done"}
      /\ net.stream \in {"none", "open", "halfclosed", "acked", "broken"}
      /\ ctxDone \in BOOLEAN /\ out.closed \in BOOLEAN
  BY Queues DEF Streamers, Nets, Channels, IInv, Shapes
<1>2. ctxDone => ctxDone'
  BY Movers DEF Cancel
<1>3. ASSUME UNCHANGED <<str, net, out>>,
             run'.at = run.at \/ run'.at \in {"waiting", "stopping", "returned"}
                 \/ run.at \notin {"waiting", "stopping", "returned"}
      PROVE  StreamInv'
  BY <1>2, <1>3 DEF StreamInv
<1>4. CASE StreamStep
  <2>1. run' = run /\ ctxDone' = ctxDone
    BY <1>4 DEF StreamStep, OpenOK, OpenFails, Retry, StreamCancel, PumpTake, SendOK, SendFails,
                PumpClose, CloseAndRecv
  <2>2. CASE OpenOK
    <3>1. /\ str.at = "opening" /\ str'.at = "pumping" /\ out' = out
          /\ net'.stream = "open" /\ net'.wire = net.wire
      BY <1>1, <2>2 DEF OpenOK, Streamers, Nets
    <3> QED
      BY <2>1, <3>1 DEF StreamInv
  <2>3. CASE OpenFails \/ Retry
    <3>1. /\ str.at \in {"opening", "backoff"} /\ str'.at \in {"opening", "backoff"}
          /\ out' = out /\ net' = net
      BY <1>1, <2>3 DEF OpenFails, Retry, Streamers
    <3> QED
      BY <2>1, <3>1 DEF StreamInv
  <2>4. CASE StreamCancel
    <3>1. /\ str.at \in {"backoff", "pumping"} /\ ctxDone /\ str'.at = "done"
          /\ out' = out /\ net' = net
      BY <1>1, <2>4 DEF StreamCancel, Streamers
    <3> QED
      BY <2>1, <3>1 DEF StreamInv
  <2>5. CASE PumpTake
    <3>1. /\ str.at = "pumping" /\ str'.at = "sending" /\ out.q # <<>>
          /\ out'.closed = out.closed /\ net' = net
      BY <1>1, <2>5 DEF PumpTake, Streamers, Channels
    <3> QED
      BY <2>1, <3>1 DEF StreamInv
  <2>6. CASE SendOK
    <3>1. /\ str.at = "sending" /\ str'.at = "pumping" /\ out' = out
          /\ net.stream = "open" /\ net'.stream = "open"
      <4>1. /\ str.at = "sending" /\ str'.at = "pumping" /\ out' = out /\ net.stream = "open"
        BY <1>1, <2>6 DEF SendOK, Streamers
      <4> DEFINE q == net.wire \o str.ev
      <4>2. net' = [net EXCEPT !.wire = q]
        BY <2>6 DEF SendOK
      <4> HIDE DEF q
      <4>3. net'.stream = net.stream
        BY <1>1, <4>2 DEF Nets
      <4> QED
        BY <4>1, <4>3
    <3> QED
      BY <2>1, <3>1 DEF StreamInv
  <2>7. CASE SendFails
    <3>1. /\ str.at = "sending" /\ str'.at = "done" /\ out' = out /\ net' = net
          /\ net.stream = "broken"
      BY <1>1, <2>7 DEF SendFails, AfterFailedSend, Streamers
    <3> QED
      BY <2>1, <3>1 DEF StreamInv
  <2>8. CASE PumpClose
    <3>1. /\ str.at = "pumping" /\ str'.at = "closing" /\ out' = out /\ out.closed /\ out.q = <<>>
          /\ net'.wire = net.wire
          /\ net'.stream = IF net.stream = "open" THEN "halfclosed" ELSE net.stream
      BY <1>1, <2>8 DEF PumpClose, OutDone, Streamers, Nets
    <3> QED
      BY <2>1, <3>1 DEF StreamInv
  <2>9. CASE CloseAndRecv
    <3>1. /\ str.at = "closing" /\ str'.at = "done" /\ out' = out /\ net' = net
          /\ net.stream \in {"acked", "broken"}
      BY <1>1, <2>9 DEF CloseAndRecv, Streamers
    <3> QED
      BY <2>1, <3>1 DEF StreamInv
  <2> QED
    BY <1>4, <2>2, <2>3, <2>4, <2>5, <2>6, <2>7, <2>8, <2>9 DEF StreamStep
<1>5. CASE LinkDown \/ LinkUp \/ StreamReset
  <2>1. UNCHANGED <<str, out, run>>
    BY <1>5 DEF LinkDown, LinkUp, StreamReset
  <2>2. \/ net'.stream = net.stream /\ net'.wire = net.wire /\ net'.ack = net.ack
           /\ net'.ingested = net.ingested
        \/ net'.wire = <<>> /\ net'.stream = IF net.stream = "none" THEN "none" ELSE "broken"
    <3>1. CASE LinkUp
      BY <1>1, <3>1 DEF LinkUp, Nets
    <3>2. CASE LinkDown
      <4>1. net' = [Broken(net) EXCEPT !.link = "down", !.faults = @ + 1]
        BY <3>2 DEF LinkDown
      <4> QED
        BY <1>1, <4>1 DEF Broken, Nets
    <3>3. CASE StreamReset
      BY <1>1, <3>3 DEF StreamReset, Broken, Nets
    <3> QED
      BY <1>5, <3>1, <3>2, <3>3
  <2> QED
    BY <1>1, <1>2, <2>1, <2>2 DEF StreamInv
<1>6. CASE ServerStep
  <2>1. UNCHANGED <<str, out, run>>
    BY <1>6 DEF ServerStep, ServerRecv, ServerEOF
  <2>2. CASE ServerRecv
    <3>1. net.stream \in {"open", "halfclosed"} /\ net'.stream = net.stream
      <4> DEFINE q == Tail(net.wire)
                 g == Append(net.ingested, Head(net.wire))
      <4>1. net' = [net EXCEPT !.wire = q, !.ingested = g] /\ net.stream \in {"open", "halfclosed"}
        BY <2>2 DEF ServerRecv
      <4> HIDE DEF q, g
      <4> QED
        BY <1>1, <4>1 DEF Nets
    <3> QED
      BY <1>2, <2>1, <3>1 DEF StreamInv
  <2>3. CASE ServerEOF
    <3>1. /\ net.stream = "halfclosed" /\ net'.stream = "acked" /\ net'.wire = <<>>
          /\ net'.ingested = net.ingested /\ net'.ack = Len(net.ingested)
      <4> DEFINE n == Len(net.ingested)
      <4>1. net' = [net EXCEPT !.stream = "acked", !.ack = n] /\ net.stream = "halfclosed" /\ net.wire = <<>>
        BY <2>3 DEF ServerEOF
      <4> HIDE DEF n
      <4>2. net'.stream = "acked" /\ net'.wire = net.wire /\ net'.ingested = net.ingested /\ net'.ack = n
        BY <1>1, <4>1 DEF Nets
      <4> QED
        BY <4>1, <4>2 DEF n
    <3> QED
      BY <1>2, <2>1, <3>1 DEF StreamInv
  <2> QED
    BY <1>6, <2>2, <2>3 DEF ServerStep
<1>7. CASE RunStep
  <2>0. net' = net
    BY <1>7 DEF RunStep, RunBlocked, StartOK, StartFails, RunRecv, RunOffer, RunSkip, RunEnd, RunJoin,
       StopCollector, CollectorStopped, RunReturn
  <2>1. CASE StartOK
    <3>1. run.at = "starting" /\ str.at = "off" /\ out' = out
      BY <2>1 DEF StartOK, IInv, StrInv
    <3>2. str'.at \in {"off", "opening"} /\ run'.at \in {"starting", "main"}
      BY <1>1, <2>1, <3>1 DEF StartOK, Streamers, Runs
    <3> QED
      BY <1>1, <1>2, <2>0, <3>1, <3>2 DEF StreamInv
  <2>2. CASE RunOffer
    <3>1. run.at = "offering" /\ run'.at = "main" /\ str' = str /\ out'.closed = out.closed
      <4> DEFINE q == out.q \o run.ev
      <4>1. /\ out' = [out EXCEPT !.q = q] /\ run' = [run EXCEPT !.at = "main", !.ev = <<>>]
            /\ run.at = "offering" /\ str' = str
        BY <2>2 DEF RunOffer
      <4> HIDE DEF q
      <4>2. out'.closed = out.closed
        BY <1>1, <4>1 DEF Channels
      <4>3. run'.at = "main"
        BY <1>1, <4>1 DEF Runs
      <4> QED
        BY <4>1, <4>2, <4>3
    <3> QED
      BY <1>2, <2>0, <3>1 DEF StreamInv
  <2>3. CASE RunEnd
    <3>1. /\ run'.at \in {"waiting", "stopping"} /\ str' = str
          /\ out'.q = out.q /\ (out.closed => out'.closed)
      BY <1>1, <2>3 DEF RunEnd, OutClosed, Runs, Channels, StreamInv
    <3> QED
      BY <1>2, <2>0, <3>1 DEF StreamInv
  <2>4. CASE RunBlocked \/ StartFails \/ RunRecv \/ RunSkip \/ RunJoin \/ StopCollector
             \/ CollectorStopped \/ RunReturn
    <3>1. UNCHANGED <<str, out>>
      BY <2>4 DEF RunBlocked, StartFails, RunRecv, RunSkip, RunJoin, StopCollector,
                  CollectorStopped, RunReturn
    <3>2. \/ run'.at \in {"waiting", "stopping", "returned"}
          \/ run.at \notin {"waiting", "stopping", "returned"}
      BY <1>1, <2>4 DEF RunBlocked, StartFails, AfterFailedStart, RunRecv, RunSkip, RunJoin,
                        StopCollector, CollectorStopped, RunReturn, Runs
    <3> QED
      BY <1>3, <2>0, <3>1, <3>2
  <2> QED
    BY <1>7, <2>1, <2>2, <2>3, <2>4 DEF RunStep
<1>8. CASE UNCHANGED <<str, net, out, run>>
  BY <1>3, <1>8
<1>9. \/ StreamStep \/ LinkDown \/ LinkUp \/ StreamReset \/ ServerStep \/ RunStep
      \/ UNCHANGED <<str, net, out, run>>
  BY Movers DEF RunStep, StreamStep
<1> QED
  BY <1>4, <1>5, <1>6, <1>7, <1>8, <1>9
----------------------------------------------------------------------------
(* How an event gets from merged to the coordinator, one step at a time. *)

LEMMA RecvMoves ==
    ASSUME IInv, HandInv, RunRecv
    PROVE  /\ merged.q # <<>> /\ pushed' = Append(pushed, Head(merged.q))
           /\ merged'.q = Tail(merged.q) /\ merged'.closed = merged.closed
           /\ UNCHANGED <<ctxDone, setup, coll, fan, out, str, net>> /\ run.at = "main"
           /\ setup.client => /\ run.ev = <<>> /\ run'.ev = <<Head(merged.q)>>
                              /\ run'.at = "offering" /\ run'.res = run.res
           /\ ~setup.client => run' = run
<1>1. /\ merged \in Channels /\ run \in Runs /\ (run.ev = <<>> <=> run.at # "offering")
  BY Queues DEF HandInv
<1> DEFINE q == Tail(merged.q)
           h == <<Head(merged.q)>>
<1>2. /\ merged' = [merged EXCEPT !.q = q] /\ run.at = "main"
      /\ run' = IF setup.client THEN [run EXCEPT !.at = "offering", !.ev = h] ELSE run
  BY DEF RunRecv
<1> HIDE DEF q, h
<1>3. merged'.q = q /\ merged'.closed = merged.closed
  BY <1>1, <1>2 DEF Channels
<1>4. setup.client => /\ run'.ev = h /\ run'.at = "offering" /\ run'.res = run.res
  BY <1>1, <1>2 DEF Runs
<1> QED
  BY <1>1, <1>2, <1>3, <1>4 DEF RunRecv, q, h

LEMMA OfferMoves ==
    ASSUME IInv, RunOffer
    PROVE  /\ out'.q = out.q \o run.ev /\ out'.closed = out.closed
           /\ run'.ev = <<>> /\ run'.at = "main" /\ run'.res = run.res /\ run.at = "offering"
           /\ UNCHANGED <<ctxDone, setup, coll, fan, merged, pushed, str, net>>
<1> DEFINE q == out.q \o run.ev
<1>1. /\ out' = [out EXCEPT !.q = q] /\ run' = [run EXCEPT !.at = "main", !.ev = <<>>]
      /\ UNCHANGED <<ctxDone, setup, coll, fan, merged, pushed, str, net>> /\ run.at = "offering"
  BY DEF RunOffer
<1> HIDE DEF q
<1>2. out'.q = q /\ out'.closed = out.closed
  BY <1>1, Queues DEF Channels
<1>3. run'.ev = <<>> /\ run'.at = "main" /\ run'.res = run.res
  BY <1>1, Queues DEF Runs
<1> QED
  BY <1>1, <1>2, <1>3 DEF q

LEMMA TakeMoves ==
    ASSUME IInv, HandInv, PumpTake
    PROVE  /\ out.q # <<>> /\ str.ev = <<>> /\ str'.ev = <<Head(out.q)>> /\ out'.q = Tail(out.q)
           /\ out'.closed = out.closed /\ str'.at = "sending" /\ str'.err = str.err /\ str.at = "pumping"
           /\ UNCHANGED <<ctxDone, setup, coll, fan, merged, run, pushed, net>>
<1> DEFINE q == Tail(out.q)
           h == <<Head(out.q)>>
<1>1. /\ out' = [out EXCEPT !.q = q] /\ str' = [str EXCEPT !.at = "sending", !.ev = h]
      /\ UNCHANGED <<ctxDone, setup, coll, fan, merged, run, pushed, net>>
      /\ str.at = "pumping" /\ out.q # <<>>
  BY DEF PumpTake
<1> HIDE DEF q, h
<1>2. out'.q = q /\ out'.closed = out.closed
  BY <1>1, Queues DEF Channels
<1>3. str'.ev = h /\ str'.at = "sending" /\ str'.err = str.err
  BY <1>1, Queues DEF Streamers
<1>4. str.ev = <<>>
  BY <1>1 DEF HandInv
<1> QED
  BY <1>1, <1>2, <1>3, <1>4 DEF q, h

LEMMA SendMoves ==
    ASSUME IInv, SendOK
    PROVE  /\ net'.wire = net.wire \o str.ev /\ net'.ingested = net.ingested
           /\ net'.stream = net.stream /\ net.stream = "open" /\ net'.ack = net.ack
           /\ str'.ev = <<>> /\ str'.at = "pumping" /\ str'.err = str.err /\ str.at = "sending"
           /\ UNCHANGED <<ctxDone, setup, coll, fan, merged, run, pushed, out>>
<1> DEFINE q == net.wire \o str.ev
<1>1. /\ net' = [net EXCEPT !.wire = q] /\ str' = [str EXCEPT !.at = "pumping", !.ev = <<>>]
      /\ net.stream = "open" /\ str.at = "sending"
      /\ UNCHANGED <<ctxDone, setup, coll, fan, merged, run, pushed, out>>
  BY DEF SendOK
<1> HIDE DEF q
<1>2. /\ net'.wire = q /\ net'.ingested = net.ingested /\ net'.stream = net.stream
      /\ net'.ack = net.ack
  BY <1>1, Queues DEF Nets
<1>3. str'.ev = <<>> /\ str'.at = "pumping" /\ str'.err = str.err
  BY <1>1, Queues DEF Streamers
<1> QED
  BY <1>1, <1>2, <1>3 DEF q

LEMMA ServerMoves ==
    ASSUME IInv, ServerRecv
    PROVE  /\ net.wire # <<>> /\ net'.wire = Tail(net.wire)
           /\ net'.ingested = Append(net.ingested, Head(net.wire))
           /\ net'.stream = net.stream /\ net.stream \in {"open", "halfclosed"} /\ net'.ack = net.ack
           /\ UNCHANGED <<ctxDone, setup, coll, fan, merged, run, pushed, out, str>>
<1> DEFINE q == Tail(net.wire)
           g == Append(net.ingested, Head(net.wire))
<1>1. /\ net' = [net EXCEPT !.wire = q, !.ingested = g] /\ net.wire # <<>>
      /\ net.stream \in {"open", "halfclosed"}
      /\ UNCHANGED <<ctxDone, setup, coll, fan, merged, run, pushed, out, str>>
  BY DEF ServerRecv
<1> HIDE DEF q, g
<1>2. net'.wire = q /\ net'.ingested = g /\ net'.stream = net.stream /\ net'.ack = net.ack
  BY <1>1, Queues DEF Nets
<1> QED
  BY <1>1, <1>2 DEF q, g

(* The rest of what the connection does. *)
LEMMA NetMoves ==
    ASSUME IInv, LinkDown \/ LinkUp \/ StreamReset
    PROVE  /\ net'.ingested = net.ingested /\ net'.ack = net.ack
           /\ \/ net'.stream = net.stream /\ net'.wire = net.wire
              \/ net'.wire = <<>> /\ net'.stream = IF net.stream = "none" THEN "none" ELSE "broken"
           /\ UNCHANGED <<ctxDone, setup, coll, fan, merged, run, pushed, out, str>>
<1>1. net \in Nets
  BY Queues
<1>2. CASE LinkUp
  BY <1>1, <1>2 DEF LinkUp, Nets
<1>3. CASE LinkDown
  <2>1. net' = [Broken(net) EXCEPT !.link = "down", !.faults = @ + 1]
    BY <1>3 DEF LinkDown
  <2> QED
    BY <1>1, <1>3, <2>1 DEF LinkDown, Broken, Nets
<1>4. CASE StreamReset
  BY <1>1, <1>4 DEF StreamReset, Broken, Nets
<1> QED
  BY <1>2, <1>3, <1>4

(* Answered, opened or closed, the stream holds what it held. *)
LEMMA StreamMoves ==
    ASSUME IInv, ServerEOF \/ OpenOK \/ PumpClose
    PROVE  /\ net'.ingested = net.ingested /\ net'.wire = net.wire
           /\ str'.ev = str.ev /\ str'.err = str.err
           /\ UNCHANGED <<ctxDone, setup, coll, fan, merged, run, pushed, out>>
           /\ ServerEOF => /\ net.stream = "halfclosed" /\ net'.stream = "acked" /\ net.wire = <<>>
                           /\ net'.ack = Len(net.ingested) /\ str' = str
           /\ OpenOK => /\ str.at = "opening" /\ str'.at = "pumping" /\ net'.stream = "open"
                        /\ net'.ack = net.ack
           /\ PumpClose => /\ str.at = "pumping" /\ str'.at = "closing" /\ net'.ack = net.ack
                           /\ out.closed /\ out.q = <<>>
                           /\ net'.stream = IF net.stream = "open" THEN "halfclosed" ELSE net.stream
<1>1. net \in Nets /\ str \in Streamers
  BY Queues
<1>2. ASSUME ServerEOF
      PROVE  /\ net'.ingested = net.ingested /\ net'.wire = net.wire /\ str' = str
             /\ net.stream = "halfclosed" /\ net'.stream = "acked" /\ net.wire = <<>>
             /\ net'.ack = Len(net.ingested)
  <2> DEFINE n == Len(net.ingested)
  <2>1. /\ net' = [net EXCEPT !.stream = "acked", !.ack = n] /\ net.stream = "halfclosed"
        /\ net.wire = <<>> /\ str' = str
    BY <1>2 DEF ServerEOF
  <2> HIDE DEF n
  <2>2. /\ net'.stream = "acked" /\ net'.wire = net.wire /\ net'.ingested = net.ingested
        /\ net'.ack = n
    BY <1>1, <2>1 DEF Nets
  <2> QED
    BY <2>1, <2>2 DEF n
<1>3. ASSUME OpenOK
      PROVE  /\ net'.ingested = net.ingested /\ net'.wire = net.wire /\ net'.ack = net.ack
             /\ str'.ev = str.ev /\ str'.err = str.err
             /\ str.at = "opening" /\ str'.at = "pumping" /\ net'.stream = "open"
  BY <1>1, <1>3 DEF OpenOK, Nets, Streamers
<1>4. ASSUME PumpClose
      PROVE  /\ net'.ingested = net.ingested /\ net'.wire = net.wire /\ net'.ack = net.ack
             /\ str'.ev = str.ev /\ str'.err = str.err
             /\ str.at = "pumping" /\ str'.at = "closing" /\ out.closed /\ out.q = <<>>
             /\ net'.stream = IF net.stream = "open" THEN "halfclosed" ELSE net.stream
  BY <1>1, <1>4 DEF PumpClose, OutDone, Nets, Streamers
<1>5. UNCHANGED <<ctxDone, setup, coll, fan, merged, run, pushed, out>>
  BY DEF ServerEOF, OpenOK, PumpClose
<1> QED
  BY <1>2, <1>3, <1>4, <1>5

(* The steps of Run that move no event. *)
LEMMA RunStays ==
    ASSUME IInv, HandInv, RunStep
    PROVE  \/ RunRecv \/ RunOffer
           \/ RunSkip /\ ctxDone /\ run.at = "offering" /\ run'.ev = <<>> /\ UNCHANGED <<pushed, out, str, net>>
           \/ run'.ev = run.ev /\ out'.q = out.q /\ str'.ev = str.ev /\ UNCHANGED <<pushed, net>>
<1>1. run \in Runs /\ out \in Channels /\ str \in Streamers
  BY Queues
<1>2. CASE RunSkip
  BY <1>1, <1>2 DEF RunSkip, MaySkip, Runs
<1>3. CASE RunEnd
  BY <1>1, <1>3 DEF RunEnd, OutClosed, Runs, Channels
<1>4. CASE StartOK
  BY <1>1, <1>4 DEF StartOK, Runs, Streamers
<1>5. CASE RunBlocked \/ StartFails \/ RunJoin \/ StopCollector \/ CollectorStopped \/ RunReturn
  BY <1>1, <1>5 DEF RunBlocked, StartFails, RunJoin, StopCollector, CollectorStopped, RunReturn, Runs
<1> QED
  BY <1>2, <1>3, <1>4, <1>5 DEF RunStep

(* The steps of the streaming goroutine that move no event. *)
LEMMA StreamStays ==
    ASSUME IInv, HandInv, StreamStep
    PROVE  \/ OpenOK \/ PumpTake \/ SendOK \/ PumpClose
           \/ /\ SendFails /\ str.at = "sending" /\ net.stream = "broken" /\ str'.ev = <<>>
              /\ str'.err = TRUE /\ str'.at = "done" /\ UNCHANGED <<pushed, out, run, net>>
           \/ str'.ev = str.ev /\ UNCHANGED <<pushed, out, run, net>>
<1>1. str \in Streamers
  BY Queues
<1>2. CASE SendFails
  BY <1>1, <1>2 DEF SendFails, AfterFailedSend, Streamers
<1>3. CASE OpenFails \/ Retry \/ StreamCancel
  <2>1. UNCHANGED <<pushed, out, run, net>>
    BY <1>3 DEF OpenFails, Retry, StreamCancel
  <2>2. PICK x \in {"backoff", "opening", "done"}, b \in BOOLEAN : str' = [str EXCEPT !.at = x, !.err = b]
    <3>1. CASE OpenFails
      BY <1>1, <3>1 DEF OpenFails, Streamers
    <3>2. CASE Retry
      BY <1>1, <3>2 DEF Retry, Streamers
    <3>3. CASE StreamCancel
      BY <1>1, <3>3 DEF StreamCancel, Streamers
    <3> QED
      BY <1>3, <3>1, <3>2, <3>3
  <2>3. str'.ev = str.ev
    BY <1>1, <2>2 DEF Streamers
  <2> QED
    BY <2>1, <2>3
<1>4. CASE CloseAndRecv
  <2>1. PICK b \in BOOLEAN : str' = [str EXCEPT !.at = "done", !.err = b]
    BY <1>4 DEF CloseAndRecv
  <2> QED
    BY <1>1, <1>4, <2>1 DEF CloseAndRecv, Streamers
<1> QED
  BY <1>2, <1>3, <1>4 DEF StreamStep

LEMMA PushedStays ==
    ASSUME IInv, HandInv, pushed \in Queue, [Next]_vars
    PROVE  pushed' \in Queue
<1>1. CASE RunRecv
  <2>1. merged.q \in Queue /\ merged.q # <<>> /\ pushed' = Append(pushed, Head(merged.q))
    BY <1>1, Queues, RecvMoves
  <2> QED
    BY <2>1, OneEvent
<1> QED
  BY <1>1, Movers

(* Nothing is lost on the way: an event changes hands, and the queue of all  *)
(* that are under way stays.                                                 *)
LEMMA ForwardKeeps ==
    ASSUME IInv, HandInv, StreamInv, ForwardInv, pushed \in Queue, [Next]_vars
    PROVE  ForwardInv'
<1> SUFFICES ASSUME setup.client, ~ctxDone', net'.stream # "broken"
             PROVE  Forwarded' = pushed'
  BY Movers DEF ForwardInv
<1> DEFINE a == net.ingested
           w == net.wire
           h == str.ev
           o == out.q
           r == run.ev
           E == Events
<1>1. /\ a \in Seq(E) /\ w \in Seq(E) /\ h \in Seq(E) /\ o \in Seq(E) /\ r \in Seq(E)
      /\ merged.q \in Seq(E) /\ pushed \in Seq(E)
  BY Queues DEF Queue
<1>2. ~ctxDone
  BY Movers DEF Cancel
<1>3. ASSUME net.stream # "broken" PROVE a \o w \o h \o o \o r = pushed
  BY <1>2, <1>3 DEF ForwardInv, Forwarded
<1>4. Forwarded' = net'.ingested \o net'.wire \o str'.ev \o out'.q \o run'.ev
  BY DEF Forwarded
<1>5. /\ a \o w \in Seq(E) /\ a \o w \o h \in Seq(E) /\ a \o w \o h \o o \in Seq(E)
      /\ a \o w \o h \o o \o r \in Seq(E)
  BY <1>1, ConcatProperties
<1> HIDE DEF a, w, h, o, r, E
<1>6. CASE RunRecv
  <2> DEFINE e == Head(merged.q)
             x == a \o w \o h \o o
  <2>1. /\ merged.q # <<>> /\ pushed' = Append(pushed, e) /\ UNCHANGED <<out, str, net>>
        /\ r = <<>> /\ run'.ev = <<e>>
    BY <1>6, RecvMoves DEF r
  <2>2. x \o <<>> = pushed /\ x \in Seq(E) /\ e \in E
    BY <1>1, <1>3, <1>5, <2>1, HeadTailProperties
  <2>3. Forwarded' = x \o <<e>>
    BY <1>4, <2>1 DEF a, w, h, o
  <2> HIDE DEF e, x
  <2>4. x = pushed
    BY <2>2, ConcatEmptySeq
  <2>5. x \o <<e>> = Append(x, e)
    BY <2>2, AppendIsConcat
  <2> QED
    BY <2>1, <2>3, <2>4, <2>5
<1>7. CASE RunOffer
  <2>1. /\ out'.q = o \o r /\ run'.ev = <<>> /\ UNCHANGED <<pushed, str, net>>
    BY <1>7, OfferMoves DEF o, r
  <2>2. a \o w \o h \o o \o r = a \o w \o h \o (o \o r) \o <<>>
    <3> DEFINE x == a \o w \o h
    <3>1. x \in Seq(E) /\ o \o r \in Seq(E) /\ x \o (o \o r) \in Seq(E)
      BY <1>1, <1>5, ConcatProperties
    <3> HIDE DEF x
    <3>2. (x \o o) \o r = x \o (o \o r)
      <4>1. x \in Seq(E) /\ o \in Seq(E) /\ r \in Seq(E)
        BY <1>1, <3>1
      <4>2. \A k, l, m \in Seq(E) : (k \o l) \o m = k \o (l \o m)
        BY ConcatAssociative
      <4> QED
        BY <4>1, <4>2
    <3>3. x \o (o \o r) \o <<>> = x \o (o \o r)
      BY <3>1, ConcatEmptySeq
    <3> QED
      BY <3>2, <3>3 DEF x
  <2> QED
    BY <1>3, <1>4, <2>1, <2>2 DEF a, w, h
<1>8. CASE PumpTake
  <2>1. /\ o # <<>> /\ h = <<>> /\ str'.ev = <<Head(o)>> /\ out'.q = Tail(o)
        /\ UNCHANGED <<pushed, run, net>>
    BY <1>8, TakeMoves DEF o, h
  <2>2. (a \o w) \o o = (a \o w) \o <<Head(o)>> \o Tail(o) /\ (a \o w) \o <<>> = a \o w
    BY <1>1, <1>5, <2>1, FirstGoesOn, ConcatEmptySeq
  <2> QED
    BY <1>3, <1>4, <2>1, <2>2 DEF a, w, r
<1>9. CASE SendOK
  <2>1. /\ net'.wire = w \o h /\ net'.ingested = a /\ str'.ev = <<>> /\ UNCHANGED <<pushed, run, out>>
        /\ net.stream # "broken"
    BY <1>9, SendMoves DEF a, w, h
  <2>2. a \o w \o h = a \o (w \o h) \o <<>>
    <3>1. w \o h \in Seq(E) /\ a \o (w \o h) \in Seq(E)
      BY <1>1, ConcatProperties
    <3>2. (a \o w) \o h = a \o (w \o h)
      <4>1. a \in Seq(E) /\ w \in Seq(E) /\ h \in Seq(E)
        BY <1>1
      <4>2. \A k, l, m \in Seq(E) : (k \o l) \o m = k \o (l \o m)
        BY ConcatAssociative
      <4> QED
        BY <4>1, <4>2
    <3>3. a \o (w \o h) \o <<>> = a \o (w \o h)
      BY <3>1, ConcatEmptySeq
    <3> QED
      BY <3>2, <3>3
  <2> QED
    BY <1>3, <1>4, <2>1, <2>2 DEF o, r
<1>10. CASE ServerRecv
  <2>1. /\ w # <<>> /\ net'.wire = Tail(w) /\ net'.ingested = Append(a, Head(w))
        /\ UNCHANGED <<pushed, run, out, str>> /\ net.stream # "broken"
    BY <1>10, ServerMoves DEF a, w
  <2>2. a \o w = Append(a, Head(w)) \o Tail(w)
    BY <1>1, <2>1, FirstGoesOn
  <2> QED
    BY <1>3, <1>4, <2>1, <2>2 DEF h, o, r
<1>11. ASSUME run'.ev = r, out'.q = o, str'.ev = h, net'.ingested = a, net'.wire = w, pushed' = pushed,
              net.stream # "broken"
       PROVE  Forwarded' = pushed'
  BY <1>3, <1>4, <1>11
<1>12. CASE LinkDown \/ LinkUp \/ StreamReset
  <2>1. \/ net'.stream = net.stream
        \/ net'.stream = "none" /\ net.stream = "none" /\ net'.wire = <<>>
    <3>1. \/ net'.stream = net.stream
          \/ net'.wire = <<>> /\ net'.stream = IF net.stream = "none" THEN "none" ELSE "broken"
      BY <1>12, NetMoves
    <3> QED
      BY <3>1
  <2>2. net'.wire = w /\ net.stream # "broken"
    BY <1>12, <2>1, NetMoves DEF w, StreamInv
  <2> QED
    BY <1>11, <1>12, <2>2, NetMoves DEF a, h, o, r
<1>13. CASE ServerEOF \/ OpenOK \/ PumpClose
  <2>1. net.stream # "broken"
    BY <1>13, StreamMoves DEF StreamInv
  <2> QED
    BY <1>11, <1>13, <2>1, StreamMoves DEF a, w, h, o, r
<1>14. CASE RunStep
  <2>1. CASE run'.ev = run.ev /\ out'.q = out.q /\ str'.ev = str.ev /\ UNCHANGED <<pushed, net>>
    BY <1>11, <2>1 DEF a, w, h, o, r
  <2> QED
    BY <1>2, <1>6, <1>7, <1>14, <2>1, RunStays
<1>15. CASE StreamStep
  <2>1. CASE SendFails /\ UNCHANGED <<net>>
    BY <2>1 DEF SendFails
  <2>2. CASE str'.ev = str.ev /\ UNCHANGED <<pushed, out, run, net>>
    BY <1>11, <2>2 DEF a, w, h, o, r
  <2> QED
    BY <1>8, <1>9, <1>13, <1>15, <2>1, <2>2, StreamStays
<1>16. CASE UNCHANGED <<pushed, out, run, str, net>>
  BY <1>11, <1>16 DEF a, w, h, o, r
<1> QED
  BY <1>10, <1>12, <1>13, <1>14, <1>15, <1>16, Movers DEF ServerStep, RunStep, StreamStep

(* What a closed stream was answered with stays true: Run is past its loop.  *)
LEMMA AnswerKeeps ==
    ASSUME IInv, HandInv, StreamInv, ForwardInv, AnswerInv, pushed \in Queue, [Next]_vars
    PROVE  AnswerInv'
<1> SUFFICES ASSUME ~ctxDone', str'.at = "done", ~str'.err
             PROVE  out'.closed /\ net'.ingested = pushed' /\ net'.ack = Len(pushed')
  BY DEF AnswerInv
<1>0. ~ctxDone
  BY Movers DEF Cancel
<1>1. ~ctxDone /\ str \in Streamers /\ str.at \in {"off", "opening", "backoff", "pumping", "sending", "closing", "done"}
  BY <1>0, Queues DEF Streamers
<1>2. CASE CloseAndRecv
  <2>1. net.stream = "acked" /\ str.at = "closing" /\ UNCHANGED <<run, pushed, out, net>>
    <3>1. net.stream \in {"acked", "broken"} /\ str' = [str EXCEPT !.at = "done", !.err = (net.stream = "broken")]
      BY <1>2 DEF CloseAndRecv
    <3>2. str'.err = (net.stream = "broken")
      BY <1>1, <3>1 DEF Streamers
    <3> QED
      BY <1>2, <3>1, <3>2 DEF CloseAndRecv
  <2>2. /\ out.closed /\ out.q = <<>> /\ net.wire = <<>> /\ net.ack = Len(net.ingested)
        /\ run.at # "offering"
    BY <2>1 DEF StreamInv
  <2>3. run.ev = <<>> /\ str.ev = <<>> /\ setup.client
    BY <2>1, <2>2 DEF HandInv, IInv, StrInv
  <2>4. net.ingested \o <<>> \o <<>> \o <<>> \o <<>> = pushed
    BY <1>1, <2>1, <2>2, <2>3 DEF ForwardInv, Forwarded
  <2>5. net.ingested \in Seq(Events)
    BY Queues DEF Queue
  <2>6. net.ingested = pushed
    BY <2>4, <2>5, ConcatEmptySeq
  <2> QED
    BY <2>1, <2>2, <2>6
<1>3. CASE str.at = "done" /\ str'.at = str.at /\ str'.err = str.err
  <2>1. /\ out.closed /\ net.ingested = pushed /\ net.ack = Len(pushed)
        /\ net.stream \in {"acked", "broken"} /\ run.at \in {"waiting", "stopping", "returned"}
    BY <1>1, <1>3 DEF AnswerInv, StreamInv
  <2>2. pushed' = pushed
    BY <2>1, Movers DEF RunRecv
  <2>3. out'.closed
    <3>1. ~RunOffer /\ ~RunEnd /\ ~PumpTake
      BY <1>3, <2>1 DEF RunOffer, RunEnd, PumpTake
    <3> QED
      BY <2>1, <3>1, Movers
  <2>4. net'.ingested = net.ingested /\ net'.ack = net.ack
    <3>1. ~OpenOK /\ ~SendOK /\ ~PumpClose /\ ~ServerStep
      BY <1>3, <2>1 DEF OpenOK, SendOK, PumpClose, ServerStep, ServerRecv, ServerEOF
    <3> QED
      BY <3>1, Movers, NetMoves
  <2> QED
    BY <2>1, <2>2, <2>3, <2>4
<1>4. CASE StreamStep
  <2>1. ~OpenOK /\ ~OpenFails /\ ~Retry /\ ~PumpTake /\ ~SendOK /\ ~PumpClose
    BY <1>1 DEF OpenOK, OpenFails, Retry, PumpTake, SendOK, PumpClose, Streamers
  <2>2. ~SendFails /\ ~StreamCancel
    BY <1>1 DEF SendFails, StreamCancel, AfterFailedSend, Streamers
  <2> QED
    BY <1>2, <1>4, <2>1, <2>2 DEF StreamStep
<1>5. CASE StartOK
  <2>1. str.at = "off"
    BY <1>5 DEF StartOK, IInv, StrInv
  <2>2. str'.at \in {"off", "opening"}
    BY <1>1, <1>5, <2>1 DEF StartOK, Streamers
  <2> QED
    BY <2>2
<1> QED
  BY <1>3, <1>4, <1>5, Movers
----------------------------------------------------------------------------
(* How Run ends: its loop is over when merged is closed and drained, and it   *)
(* goes on when the streaming goroutine is done.                             *)
LEMMA RunEndsInOrder ==
    ASSUME IInv, EndInv, [Next]_vars
    PROVE  EndInv'
<1>1. run \in Runs /\ str \in Streamers /\ ctxDone \in BOOLEAN /\ setup.client \in BOOLEAN
  BY Queues DEF IInv, Shapes
<1>0. ctxDone => ctxDone'
  BY Movers DEF Cancel
<1>2. (ctxDone => ctxDone') /\ setup' = setup
  BY <1>0, Movers
<1>3. ASSUME run.at \in {"waiting", "stopping", "returned"} PROVE merged' = merged
  <2>1. ~CloseMerged /\ ~RunRecv
    BY <1>3 DEF CloseMerged, RunRecv
  <2>2. \A i \in Colls : ~FanSend(i)
    BY <1>3 DEF FanSend, IInv, FanInv
  <2> QED
    BY <2>1, <2>2, Movers
<1>4. ASSUME run.at # "starting", str.at \in {"off", "done"} PROVE str' = str
  <2>1. ~StartOK /\ ~StreamStep
    BY <1>4 DEF StartOK, StreamStep, OpenOK, OpenFails, Retry, StreamCancel, PumpTake, SendOK,
                SendFails, PumpClose, CloseAndRecv
  <2> QED
    BY <2>1, Movers
<1>5. run.at \in {"stopping", "returned"} => str.at \in {"off", "done"}
  BY DEF IInv, StrInv
<1>6. CASE run' = run
  BY <1>2, <1>3, <1>4, <1>5, <1>6 DEF EndInv
<1>7. CASE RunBlocked \/ StartOK \/ StartFails
  <2>1. /\ run.at \in {"blocked", "starting"}
        /\ \/ ctxDone /\ run'.at = "stopping" /\ run'.res = run.res
           \/ run'.at \in {"starting", "main"} /\ run'.res = run.res
           \/ run'.at = "stopping" /\ run'.res = "startErr"
    BY <1>1, <1>7 DEF RunBlocked, StartOK, StartFails, AfterFailedStart, Runs
  <2> QED
    BY <1>2, <2>1 DEF EndInv
<1>8. CASE RunRecv \/ RunOffer \/ RunSkip
  <2>1. run.at \in {"main", "offering"} /\ run'.at \in {"main", "offering"} /\ run'.res = run.res
    BY <1>1, <1>8 DEF RunRecv, RunOffer, RunSkip, Runs
  <2> QED
    BY <2>1 DEF EndInv
<1>9. CASE RunEnd
  <2>1. /\ run.at = "main" /\ merged' = merged /\ merged.closed /\ merged.q = <<>> /\ str' = str
        /\ run'.at = (IF setup.client THEN "waiting" ELSE "stopping") /\ run'.res = run.res
    BY <1>1, <1>9 DEF RunEnd, Runs
  <2> QED
    BY <1>1, <1>2, <2>1 DEF EndInv
<1>10. CASE RunJoin
  <2>1. /\ run.at = "waiting" /\ merged' = merged /\ str' = str /\ str.at = "done"
        /\ run'.at = "stopping" /\ run'.res = run.res
    BY <1>1, <1>10 DEF RunJoin, Runs
  <2> QED
    BY <1>2, <2>1 DEF EndInv
<1>11. CASE CollectorStopped
  <2>1. /\ run.at = "stopping" /\ merged' = merged /\ str' = str
        /\ run'.at = run.at /\ run'.res = run.res
    BY <1>1, <1>11 DEF CollectorStopped, Runs
  <2> QED
    BY <1>2, <2>1 DEF EndInv
<1>12. CASE RunReturn
  <2>1. /\ run.at = "stopping" /\ merged' = merged /\ str' = str /\ ctxDone' = ctxDone
        /\ run'.at = "returned"
        /\ run'.res = IF run.res = "nil" /\ str.err /\ ~ctxDone THEN "streamErr" ELSE run.res
    BY <1>1, <1>12 DEF RunReturn, Runs
  <2> QED
    BY <1>1, <1>2, <2>1 DEF EndInv, Streamers
<1> QED
  BY <1>6, <1>7, <1>8, <1>9, <1>10, <1>11, <1>12, Movers DEF RunStep, StopCollector

----------------------------------------------------------------------------
(* The events of each collector stay in order. *)

LEMMA RunStopsForGood ==
    ASSUME IInv, [Next]_vars, run.at \in {"stopping", "returned"}
    PROVE  run'.at \in {"stopping", "returned"}
<1>1. run \in Runs
  BY Queues
<1>2. CASE RunStep
  BY <1>1, <1>2 DEF RunStep, RunBlocked, StartOK, StartFails, RunRecv, RunOffer, RunSkip, RunEnd,
                    RunJoin, StopCollector, CollectorStopped, RunReturn, Runs
<1> QED
  BY <1>2, Movers

(* A step that moves no event of the collector, and ends nothing. *)
LEMMA OrderStays ==
    ASSUME IInv, [Next]_vars, NEW i \in Colls, OrderOK(i),
           Arrived(i)' = Arrived(i), coll'[i].q = coll[i].q, coll'[i].sent = coll[i].sent,
           fan'[i].ev = fan[i].ev, (fan'[i].at = "exited") <=> (fan[i].at = "exited"),
           coll'[i].at = coll[i].at \/ coll[i].at = "new",
           coll'[i].at # "exited" \/ coll[i].at = "exited",
           coll[i].stop => coll'[i].stop,
           coll'[i].stop => coll[i].stop \/ run'.at \in {"stopping", "returned"}
    PROVE  OrderOK(i)'
<1>1. ctxDone => ctxDone'
  BY Movers DEF Cancel
<1>2. run.at \in {"stopping", "returned"} => run'.at \in {"stopping", "returned"}
  BY RunStopsForGood
<1> DEFINE a == Arrived(i)
           u(n) == UpTo(i, n)
<1>3. a' = a /\ \A n : u(n)' = u(n)
  BY DEF UpTo
<1> HIDE DEF a, u
<1> QED
  BY <1>1, <1>2, <1>3 DEF OrderOK, a, u

LEMMA RunStopsMeansNoFan ==
    ASSUME IInv, OrderInv, NEW i \in Colls, fan[i].at \in {"recv", "send"}
    PROVE  ~coll[i].stop
  BY DEF IInv, FanInv, OrderInv, OrderOK

(* The queues of one collector's events. *)
LEMMA OneCollector ==
    ASSUME IInv, pushed \in Queue, NEW i \in Colls
    PROVE  /\ Arrived(i) \in Queue /\ coll[i].q \in Queue /\ fan[i].ev \in Queue
           /\ coll[i].sent \in Nat /\ pushed \o merged.q \in Queue
           /\ coll[i] \in Collectors /\ fan[i] \in Fans
           /\ coll \in [Colls -> Collectors] /\ fan \in [Colls -> Fans]
<1>1. /\ coll[i] \in Collectors /\ fan[i] \in Fans /\ merged.q \in Queue
      /\ coll \in [Colls -> Collectors] /\ fan \in [Colls -> Fans]
  BY Queues
<1>2. pushed \o merged.q \in Seq(Events)
  BY <1>1, ConcatProperties DEF Queue
<1>3. Arrived(i) \in Seq(Events \cap ({i} \X Nat))
  BY <1>2, OnlyType DEF Arrived, OfColl
<1>4. Arrived(i) \in Seq(Events)
  BY <1>3, SeqMonotonic
<1> QED
  BY <1>1, <1>2, <1>4 DEF Collectors, Fans, Queue

(* The collector's own steps: one event more, or the last one was sent. *)
LEMMA EmitKeepsOrder ==
    ASSUME IInv, pushed \in Queue, OrderInv, [Next]_vars, NEW i \in Colls, Emit(i)
    PROVE  OrderOK(i)'
<1> DEFINE n == coll[i].sent
           q == coll[i].q
           a == Arrived(i)
           v == fan[i].ev
           e == <<i, n + 1>>
           r == Append(q, e)
<1>1. /\ coll[i].at = "running" /\ n < Emits[i] /\ UNCHANGED <<ctxDone, fan, merged, run, pushed>>
      /\ coll' = [coll EXCEPT ![i].sent = n + 1, ![i].q = r]
  BY DEF Emit
<1>2. /\ a \in Queue /\ q \in Queue /\ v \in Queue /\ n \in Nat
      /\ coll[i] \in Collectors /\ coll \in [Colls -> Collectors]
  BY OneCollector
<1>3. e \in Events
  <2>1. i \in 1..MaxCollectors /\ n + 1 \in 1..Emits[i]
    <3>1. setup.count \in 0..MaxCollectors /\ MaxCollectors \in Nat /\ i \in Nat /\ Emits[i] \in Nat
      BY Bounds, ParametersAssumption DEF IInv, Shapes
    <3> HIDE DEF n
    <3> QED
      BY <1>1, <1>2, <3>1 DEF Colls
  <2> QED
    BY <2>1 DEF Events
<1>4. a' = a
  BY <1>1 DEF Arrived
<1> HIDE DEF r, a, v
<1>5. /\ coll'[i].sent = n + 1 /\ coll'[i].q = r /\ coll'[i].at = coll[i].at
      /\ coll'[i].stop = coll[i].stop
  BY <1>1, <1>2 DEF Collectors
<1> HIDE DEF n, q
<1>6. coll[i].stop => run.at \in {"stopping", "returned"}
  BY DEF OrderInv, OrderOK
<1>7. CASE fan[i].at # "exited"
  <2>1. a \o v \o q = UpTo(i, n)
    BY <1>7 DEF OrderInv, OrderOK, a, v, q, n
  <2>2. a \o v \in Seq(Events) /\ q \in Seq(Events)
    BY <1>2, ConcatProperties DEF Queue
  <2>3. (a \o v) \o r = Append((a \o v) \o q, e)
    BY <1>3, <2>2, OneComesIn DEF r
  <2>4. UpTo(i, n + 1) = Append(UpTo(i, n), e)
    <3>1. 0 \in Nat /\ n \in Nat /\ 0 <= n
      BY <1>2
    <3> QED
      BY <3>1, BetweenGrows DEF UpTo
  <2>5. Arrived(i)' \o fan'[i].ev \o coll'[i].q = UpTo(i, coll'[i].sent)
    BY <1>1, <1>4, <1>5, <2>1, <2>3, <2>4 DEF a, v
  <2> QED
    BY <1>1, <1>5, <1>6, <1>7, <2>5 DEF OrderOK, UpTo
<1>8. CASE fan[i].at = "exited"
  <2>1. PICK m \in 0..n :
            /\ a = UpTo(i, m)
            /\ ctxDone \/ coll[i].at = "exited"
    BY <1>8 DEF OrderInv, OrderOK, a, n
  <2>2. m \in 0..coll'[i].sent /\ Arrived(i)' = UpTo(i, m) /\ ctxDone'
    BY <1>1, <1>2, <1>4, <1>5, <2>1 DEF a
  <2> QED
    BY <1>1, <1>5, <1>6, <1>8, <2>2 DEF OrderOK, UpTo
<1> QED
  BY <1>7, <1>8

LEMMA ExitKeepsOrder ==
    ASSUME IInv, pushed \in Queue, OrderInv, [Next]_vars, NEW i \in Colls, CollectorExit(i)
    PROVE  OrderOK(i)'
<1>1. /\ coll[i].at = "running" /\ UNCHANGED <<ctxDone, fan, merged, run, pushed>>
      /\ coll' = [coll EXCEPT ![i].at = "exited"]
      /\ ctxDone \/ coll[i].stop \/ coll[i].sent = Emits[i]
  BY DEF CollectorExit
<1>2. coll[i] \in Collectors /\ coll \in [Colls -> Collectors]
  BY OneCollector
<1>3. /\ coll'[i].sent = coll[i].sent /\ coll'[i].q = coll[i].q /\ coll'[i].at = "exited"
      /\ coll'[i].stop = coll[i].stop
  BY <1>1, <1>2 DEF Collectors
<1>4. Arrived(i)' = Arrived(i)
  BY <1>1 DEF Arrived
<1> DEFINE a == Arrived(i)
           u(n) == UpTo(i, n)
<1>5. a' = a /\ \A n : u(n)' = u(n)
  BY <1>4 DEF UpTo
<1>6. OrderOK(i)
  BY DEF OrderInv
<1> HIDE DEF a, u
<1> QED
  BY <1>1, <1>3, <1>5, <1>6 DEF OrderOK, a, u

(* An event in the hands of the fan-in goroutine of i is one of i's. *)
LEMMA InHand ==
    ASSUME IInv, pushed \in Queue, OrderInv, NEW i \in Colls, fan[i].at # "exited",
           NEW e \in Events, fan[i].ev = <<e>>
    PROVE  e \in {i} \X Nat
<1> DEFINE a == Arrived(i)
           q == coll[i].q
           n == coll[i].sent
<1>1. a \in Seq(Events) /\ q \in Seq(Events) /\ n \in Nat
  BY OneCollector DEF Queue
<1>2. (a \o <<e>>) \o q = Between(i, 0, n)
  BY DEF OrderInv, OrderOK, UpTo
<1> HIDE DEF a, q, n
<1>3. a \o <<e>> \in Seq(Events) /\ a \o <<e>> = Append(a, e)
  BY <1>1, AppendIsConcat, ConcatProperties
<1> DEFINE p == a \o <<e>>
           k == Len(p)
<1>4. k \in 0..n /\ p = Between(i, 0, k)
  BY <1>1, <1>2, <1>3, BetweenFront
<1>5. p[k] = e /\ k >= 1
  BY <1>1, <1>3
<1>6. 0 \in Nat /\ k \in Nat /\ 0 <= k
  BY <1>1, <1>4
<1> HIDE DEF p, k
<1>7. \A j \in 1..(k - 0) : Between(i, 0, k)[j] = <<i, 0 + j>>
  BY <1>6, BetweenType
<1>8. e = <<i, k>>
  BY <1>4, <1>5, <1>6, <1>7
<1> QED
  BY <1>6, <1>8

(* The fan-in goroutine takes an event: it is in its hands now. *)
LEMMA TakenKeepsOrder ==
    ASSUME IInv, HandInv, pushed \in Queue, OrderInv, [Next]_vars, NEW i \in Colls, FanRecv(i)
    PROVE  OrderOK(i)'
<1> DEFINE q == coll[i].q
           a == Arrived(i)
           h == <<Head(q)>>
           r == Tail(q)
<1>1. /\ fan[i].at = "recv" /\ q # <<>> /\ UNCHANGED <<ctxDone, merged, run, pushed>>
      /\ fan' = [fan EXCEPT ![i] = [at |-> "send", ev |-> h]]
      /\ coll' = [coll EXCEPT ![i].q = r]
  BY DEF FanRecv
<1>2. /\ a \in Queue /\ q \in Queue /\ coll[i] \in Collectors
      /\ coll \in [Colls -> Collectors] /\ fan \in [Colls -> Fans]
  BY OneCollector
<1>3. fan[i].ev = <<>> /\ a \o fan[i].ev \o q = UpTo(i, coll[i].sent)
  BY <1>1 DEF OrderInv, OrderOK, HandInv
<1>4. a' = a
  BY <1>1 DEF Arrived
<1>5. OrderOK(i)
  BY DEF OrderInv
<1> HIDE DEF a, h, r
<1>6. /\ coll'[i].sent = coll[i].sent /\ coll'[i].q = r /\ coll'[i].at = coll[i].at
      /\ coll'[i].stop = coll[i].stop /\ fan'[i].at = "send" /\ fan'[i].ev = h
  BY <1>1, <1>2 DEF Collectors
<1>7. a \o h \o r = UpTo(i, coll[i].sent)
  <2>1. a \in Seq(Events) /\ q \in Seq(Events) /\ q # <<>>
    BY <1>1, <1>2 DEF Queue
  <2>2. a \o q = a \o h \o r
    BY <2>1, FirstGoesOn DEF h, r
  <2>3. a \o <<>> = a
    BY <2>1, ConcatEmptySeq
  <2> QED
    BY <1>3, <2>2, <2>3
<1> HIDE DEF q
<1>8. Arrived(i)' \o fan'[i].ev \o coll'[i].q = UpTo(i, coll'[i].sent)
  BY <1>4, <1>6, <1>7 DEF a
<1>9. fan'[i].at # "exited" /\ run' = run /\ ctxDone' = ctxDone
  BY <1>1, <1>6
<1> QED
  BY <1>5, <1>6, <1>8, <1>9 DEF OrderOK, UpTo

(* It puts the event on merged, behind what arrived before. *)
LEMMA SentKeepsOrder ==
    ASSUME IInv, HandInv, pushed \in Queue, OrderInv, [Next]_vars,
           NEW i \in Colls, NEW j \in Colls, FanSend(j)
    PROVE  OrderOK(i)'
<1>1. /\ fan[j].at = "send" /\ UNCHANGED <<ctxDone, coll, run, pushed>>
      /\ merged' = [merged EXCEPT !.q = merged.q \o fan[j].ev]
      /\ fan' = [fan EXCEPT ![j] = [at |-> "recv", ev |-> <<>>]]
  BY DEF FanSend
<1>2. /\ merged \in Channels /\ merged.q \in Queue /\ pushed \o merged.q \in Queue
      /\ fan \in [Colls -> Fans] /\ fan[j].ev \in Queue
      /\ coll[i].q \in Queue /\ Arrived(i) \in Queue
  BY Queues, OneCollector
<1>3. PICK e \in Events : fan[j].ev = <<e>>
  <2>1. fan[j].ev # <<>> /\ Len(fan[j].ev) <= 1
    BY <1>1 DEF HandInv, IInv, HoldInv
  <2>2. Head(fan[j].ev) \in Events /\ fan[j].ev = <<Head(fan[j].ev)>>
    BY <1>2, <2>1 DEF Queue
  <2> QED
    BY <2>2
<1>4. e \in {j} \X Nat
  BY <1>1, <1>3, InHand
<1> DEFINE p == pushed \o merged.q
<1>5. pushed' \o merged'.q = Append(p, e)
  <2> DEFINE r == merged.q \o fan[j].ev
  <2>1. merged' = [merged EXCEPT !.q = r]
    BY <1>1
  <2> HIDE DEF r
  <2>2. merged'.q = r
    BY <1>2, <2>1 DEF Channels
  <2>3. merged'.q = merged.q \o <<e>>
    BY <1>3, <2>2 DEF r
  <2>4. pushed \in Seq(Events) /\ merged.q \in Seq(Events)
    BY <1>2 DEF Queue
  <2>5. pushed \o (merged.q \o <<e>>) = Append(p, e)
    BY <2>4, OneComesIn
  <2> QED
    BY <1>1, <2>3, <2>5
<1>6. p \in Seq(Events)
  BY <1>2 DEF Queue
<1>7. Only(Append(p, e), {i} \X Nat) = IF e \in {i} \X Nat THEN Append(Only(p, {i} \X Nat), e)
                                       ELSE Only(p, {i} \X Nat)
  <2> DEFINE t == {i} \X Nat
  <2>1. e \in Events
    BY <1>3
  <2> HIDE DEF p, t
  <2>2. Only(Append(p, e), t) = IF e \in t THEN Append(Only(p, t), e) ELSE Only(p, t)
    BY <1>6, <2>1, OnlyAppend
  <2> QED
    BY <2>2 DEF t
<1>8. Arrived(i)' = IF e \in {i} \X Nat THEN Append(Arrived(i), e) ELSE Arrived(i)
  BY <1>5, <1>7 DEF Arrived, OfColl
<1> HIDE DEF p
<1>9. CASE i = j
  <2> DEFINE a == Arrived(i)
             q == coll[i].q
             v == fan[i].ev
  <2>1. OrderOK(i)
    BY DEF OrderInv
  <2>2. a \o v \o q = UpTo(i, coll[i].sent)
    BY <1>1, <1>9, <2>1 DEF OrderOK
  <2>3. Arrived(i)' = Append(a, e)
    BY <1>4, <1>8, <1>9
  <2>4. fan'[i].at = "recv" /\ fan'[i].ev = <<>>
    BY <1>1, <1>2, <1>9
  <2>5. a \in Seq(Events) /\ q \in Seq(Events)
    BY <1>2 DEF Queue
  <2>6. v = <<e>>
    BY <1>3, <1>9
  <2> HIDE DEF a, q, v
  <2>7. Append(a, e) \o <<>> \o q = a \o v \o q
    <3>1. a \o <<e>> = Append(a, e) /\ Append(a, e) \in Seq(Events)
      BY <2>5, AppendIsConcat, AppendProperties
    <3>2. Append(a, e) \o <<>> = Append(a, e)
      BY <3>1, ConcatEmptySeq
    <3> QED
      BY <2>6, <3>1, <3>2
  <2>8. Arrived(i)' \o fan'[i].ev \o coll'[i].q = UpTo(i, coll'[i].sent)
    BY <1>1, <2>2, <2>3, <2>4, <2>7 DEF q
  <2> QED
    BY <1>1, <2>1, <2>4, <2>8 DEF OrderOK, UpTo
<1>10. CASE i # j
  <2>1. Arrived(i)' = Arrived(i) /\ fan'[i] = fan[i] /\ coll' = coll /\ OrderOK(i)
    BY <1>1, <1>2, <1>4, <1>8, <1>10 DEF OrderInv
  <2> QED
    BY <2>1, OrderStays
<1> QED
  BY <1>9, <1>10

(* It ends: nothing of the collector's is left, or ctx is done and what it    *)
(* had in its hands, and all that comes after it, does not arrive.           *)
LEMMA EndKeepsOrder ==
    ASSUME IInv, HandInv, pushed \in Queue, OrderInv, [Next]_vars, NEW i \in Colls,
           FanCancel(i) \/ FanEnd(i)
    PROVE  OrderOK(i)'
<1> DEFINE a == Arrived(i)
           v == fan[i].ev
           q == coll[i].q
           n == coll[i].sent
<1>1. /\ UNCHANGED <<ctxDone, coll, merged, run, pushed>> /\ fan'[i].at = "exited"
      /\ FanCancel(i) => ctxDone
      /\ FanEnd(i) => fan[i].at = "recv" /\ q = <<>> /\ coll[i].at = "exited"
      /\ fan[i].at \in {"recv", "send"}
  <2>1. fan \in [Colls -> Fans] /\ fan[i] \in Fans
    BY OneCollector
  <2> QED
    BY <2>1 DEF FanCancel, AfterDrop, FanEnd, Fans
<1>2. a \in Seq(Events) /\ v \in Seq(Events) /\ q \in Seq(Events) /\ n \in Nat
  BY OneCollector DEF Queue
<1>3. (a \o v) \o q = UpTo(i, n) /\ OrderOK(i)
  BY <1>1 DEF OrderInv, OrderOK
<1>4. a' = a
  BY <1>1 DEF Arrived
<1> HIDE DEF a, v, q, n
<1>5. PICK m \in 0..n : a = UpTo(i, m) /\ (v \o q = <<>> => m = n)
  <2>1. a \o (v \o q) = Between(i, 0, n) /\ v \o q \in Seq(Events)
    <3>1. \A k, l, m \in Seq(Events) : (k \o l) \o m = k \o (l \o m)
      BY ConcatAssociative
    <3>2. v \o q \in Seq(Events)
      BY <1>2, ConcatProperties
    <3> QED
      BY <1>2, <1>3, <3>1, <3>2 DEF UpTo
  <2>2. Len(a) \in 0..n /\ a = Between(i, 0, Len(a))
    BY <1>2, <2>1, BetweenFront
  <2>3. ASSUME v \o q = <<>> PROVE Len(a) = n
    <3>1. a = Between(i, 0, n)
      BY <1>2, <2>1, <2>3, ConcatEmptySeq
    <3>2. 0 \in Nat /\ n \in Nat /\ 0 <= n
      BY <1>2
    <3>3. Len(Between(i, 0, n)) = n - 0
      BY <3>2, BetweenType
    <3> QED
      BY <3>1, <3>2, <3>3
  <2> QED
    BY <2>2, <2>3 DEF UpTo
<1>6. ctxDone \/ (m = n /\ n = Emits[i] /\ q = <<>> /\ coll[i].at = "exited")
  <2>1. CASE FanCancel(i)
    BY <1>1, <2>1
  <2>2. CASE FanEnd(i)
    <3>1. v = <<>> /\ ~coll[i].stop
      BY <1>1, <2>2, RunStopsMeansNoFan DEF HandInv, v
    <3>2. v \o q = <<>>
      BY <1>1, <2>2, <3>1
    <3>3. ctxDone \/ n = Emits[i]
      BY <1>1, <1>3, <2>2, <3>1 DEF OrderOK, n
    <3> QED
      BY <1>1, <1>5, <2>2, <3>2, <3>3
  <2> QED
    BY <2>1, <2>2
<1> DEFINE u == UpTo(i, m)
<1>7. u' = u
  BY DEF UpTo
<1> HIDE DEF u
<1> QED
  BY <1>1, <1>3, <1>4, <1>5, <1>6, <1>7 DEF OrderOK, a, q, n, u

(* Run takes an event out of merged and pushes it: the order stays. *)
LEMMA PushKeepsOrder ==
    ASSUME IInv, HandInv, pushed \in Queue, OrderInv, [Next]_vars, NEW i \in Colls, RunRecv
    PROVE  OrderOK(i)'
<1>1. /\ merged.q # <<>> /\ pushed' = Append(pushed, Head(merged.q)) /\ merged'.q = Tail(merged.q)
      /\ coll' = coll /\ fan' = fan
  BY RecvMoves
<1>2. pushed \in Seq(Events) /\ merged.q \in Seq(Events)
  BY Queues DEF Queue
<1>3. pushed \o merged.q = Append(pushed, Head(merged.q)) \o Tail(merged.q)
  BY <1>1, <1>2, FirstGoesOn
<1>4. Arrived(i)' = Arrived(i) /\ OrderOK(i)
  BY <1>1, <1>3 DEF Arrived, OrderInv
<1> QED
  BY <1>1, <1>4, OrderStays

(* The steps of Run that move no event: a collector is started or told to     *)
(* stop, or none of it matters here.                                         *)
LEMMA RunKeepsOrder ==
    ASSUME IInv, HandInv, pushed \in Queue, OrderInv, [Next]_vars, NEW i \in Colls,
           RunStep, ~RunRecv
    PROVE  OrderOK(i)'
<1>1. /\ coll \in [Colls -> Collectors] /\ coll[i] \in Collectors
      /\ fan \in [Colls -> Fans] /\ fan[i] \in Fans /\ run \in Runs
  BY Queues
<1>2. pushed' = pushed /\ merged' = merged
  BY DEF RunStep, RunBlocked, StartOK, StartFails, RunOffer, RunSkip, RunEnd, RunJoin,
         StopCollector, CollectorStopped, RunReturn
<1>3. Arrived(i)' = Arrived(i) /\ OrderOK(i)
  BY <1>2 DEF Arrived, OrderInv
<1>4. CASE StartOK
  <2>1. coll'[i] = coll[i] \/ (coll'[i] = [coll[i] EXCEPT !.at = "running"])
    BY <1>1, <1>4 DEF StartOK
  <2>2. fan[i].at = "off" /\ (fan' = fan \/ fan'[i] = [fan[i] EXCEPT !.at = "recv"])
    BY <1>4 DEF StartOK, IInv, FanInv
  <2>3. /\ coll'[i].q = coll[i].q /\ coll'[i].sent = coll[i].sent
        /\ coll'[i].stop = coll[i].stop
        /\ coll'[i].at = coll[i].at \/ coll'[i].at = "running"
    BY <1>1, <2>1 DEF Collectors
  <2>4. fan'[i].ev = fan[i].ev /\ fan'[i].at \in {"off", "recv"}
    BY <1>1, <2>2 DEF Fans
  <2>5. ctxDone' = ctxDone /\ ~coll[i].stop
    BY <1>3, <1>4 DEF StartOK, OrderOK
  <2> DEFINE a == Arrived(i)
             u(n) == UpTo(i, n)
  <2>6. a' = a /\ \A n : u(n)' = u(n)
    BY <1>3 DEF UpTo
  <2> HIDE DEF a, u
  <2> QED
    BY <1>3, <2>2, <2>3, <2>4, <2>5, <2>6 DEF OrderOK, a, u
<1>5. CASE StopCollector
  <2>1. fan' = fan /\ ctxDone' = ctxDone /\ run' = run /\ run.at = "stopping"
    BY <1>5 DEF StopCollector
  <2>2. coll'[i] = coll[i] \/ coll'[i] = [coll[i] EXCEPT !.stop = TRUE]
    BY <1>1, <1>5 DEF StopCollector
  <2>3. /\ coll'[i].q = coll[i].q /\ coll'[i].sent = coll[i].sent /\ coll'[i].at = coll[i].at
        /\ coll'[i].stop = coll[i].stop \/ coll'[i].stop = TRUE
    BY <1>1, <2>2 DEF Collectors
  <2> QED
    BY <1>3, <2>1, <2>3, OrderStays
<1>6. CASE ~StartOK /\ ~StopCollector
  <2>1. fan' = fan /\ coll' = coll
    BY <1>6 DEF RunStep, RunBlocked, StartFails, RunOffer, RunSkip, RunEnd, RunJoin,
                CollectorStopped, RunReturn
  <2> QED
    BY <1>3, <2>1, OrderStays
<1> QED
  BY <1>4, <1>5, <1>6

LEMMA OrderKeeps ==
    ASSUME IInv, HandInv, pushed \in Queue, OrderInv, [Next]_vars
    PROVE  OrderInv'
<1> SUFFICES ASSUME NEW i \in Colls PROVE OrderOK(i)'
  <2>1. Colls' = Colls
    BY Movers
  <2> QED
    BY <2>1 DEF OrderInv
<1>1. OrderOK(i)
  BY DEF OrderInv
<1>2. ASSUME NEW j \in Colls, Emit(j) \/ CollectorExit(j) \/ FanStep(j) PROVE OrderOK(i)'
  <2>1. CASE i = j
    BY <1>2, <2>1, EmitKeepsOrder, ExitKeepsOrder, TakenKeepsOrder, SentKeepsOrder, EndKeepsOrder
       DEF FanStep
  <2>2. CASE FanSend(j)
    BY <2>2, SentKeepsOrder
  <2>3. CASE i # j /\ ~FanSend(j)
    <3>1. pushed' = pushed /\ merged' = merged
      BY <1>2, <2>3 DEF Emit, CollectorExit, FanStep, FanRecv, FanCancel, FanEnd
    <3>2. coll \in [Colls -> Collectors] /\ fan \in [Colls -> Fans]
      BY Queues
    <3>3. coll'[i] = coll[i] /\ fan'[i] = fan[i]
      BY <1>2, <2>3, <3>2 DEF Emit, CollectorExit, FanStep, FanRecv, FanCancel, FanEnd
    <3>4. Arrived(i)' = Arrived(i)
      BY <3>1 DEF Arrived
    <3> QED
      BY <1>1, <3>3, <3>4, OrderStays
  <2> QED
    BY <2>1, <2>2, <2>3
<1>3. CASE CloseMerged
  <2>1. merged'.q = merged.q /\ pushed' = pushed /\ coll' = coll /\ fan' = fan
    BY <1>3, Queues DEF CloseMerged, Channels
  <2>2. Arrived(i)' = Arrived(i)
    BY <2>1 DEF Arrived
  <2> QED
    BY <1>1, <2>1, <2>2, OrderStays
<1>4. CASE UNCHANGED <<coll, fan, merged, pushed>>
  <2>1. Arrived(i)' = Arrived(i)
    BY <1>4 DEF Arrived
  <2> QED
    BY <1>1, <1>4, <2>1, OrderStays
<1>5. CASE Cancel \/ StreamStep \/ LinkDown \/ LinkUp \/ StreamReset \/ ServerStep \/ UNCHANGED vars
  <2>1. CASE Cancel \/ LinkDown \/ LinkUp \/ StreamReset \/ ServerStep \/ UNCHANGED vars
    BY <1>4, <2>1 DEF Cancel, LinkDown, LinkUp, StreamReset, ServerStep, ServerRecv, ServerEOF, vars
  <2>2. CASE StreamStep
    BY <1>4, <2>2 DEF StreamStep, OpenOK, OpenFails, Retry, StreamCancel, PumpTake, SendOK,
                      SendFails, PumpClose, CloseAndRecv
  <2> QED
    BY <1>5, <2>1, <2>2
<1>6. CASE RunStep
  BY <1>6, PushKeepsOrder, RunKeepsOrder
<1> QED
  BY <1>2, <1>3, <1>5, <1>6 DEF Next, Returned

----------------------------------------------------------------------------

LEMMA InitFlow == ASSUME Init PROVE FInv
<1>1. /\ coll = [i \in Colls |-> [at |-> "new", stop |-> FALSE, sent |-> 0, q |-> <<>>]]
      /\ fan = [i \in Colls |-> [at |-> "off", ev |-> <<>>]]
      /\ run.at \in {"blocked", "starting"} /\ run.ev = <<>> /\ run.res = "nil"
      /\ merged.q = <<>> /\ ~merged.closed /\ out.q = <<>> /\ ~out.closed /\ pushed = <<>>
      /\ str.at = "off" /\ str.ev = <<>> /\ ~str.err
  BY DEF Init, Empty
<1>2. net.stream = "none" /\ net.wire = <<>> /\ net.ingested = <<>> /\ net.ack = 0
  <2>1. PICK l \in Links : net = [link |-> l, faults |-> 0, stream |-> "none",
                                 wire |-> <<>>, ingested |-> <<>>, ack |-> 0]
    BY DEF Init
  <2> QED
    BY <2>1
<1>3. pushed \in Queue
  BY <1>1 DEF Queue
<1>4. HandInv /\ EndInv /\ AnswerInv
  BY <1>1 DEF HandInv, EndInv, AnswerInv
<1>5. StreamInv
  BY <1>1, <1>2 DEF StreamInv
<1>6. ForwardInv
  BY <1>1, <1>2 DEF ForwardInv, Forwarded
<1>7. OrderInv
  <2> SUFFICES ASSUME NEW i \in Colls PROVE OrderOK(i)
    BY DEF OrderInv
  <2>1. /\ coll[i].at = "new" /\ coll[i].stop = FALSE /\ coll[i].sent = 0 /\ coll[i].q = <<>>
        /\ fan[i].at = "off" /\ fan[i].ev = <<>>
    BY <1>1
  <2>2. Arrived(i) = <<>>
    BY <1>1, OnlyEmpty DEF Arrived, OfColl
  <2>3. UpTo(i, 0) = <<>>
    BY BetweenEmpty DEF UpTo
  <2> QED
    BY <2>1, <2>2, <2>3 DEF OrderOK
<1> QED
  BY <1>3, <1>4, <1>5, <1>6, <1>7 DEF FInv

LEMMA StepFlow == IInv /\ FInv /\ [Next]_vars => FInv'
<1> SUFFICES ASSUME IInv, FInv, [Next]_vars PROVE FInv'
  OBVIOUS
<1>1. pushed \in Queue /\ HandInv /\ StreamInv /\ ForwardInv /\ AnswerInv /\ EndInv /\ OrderInv
  BY DEF FInv
<1>2. (pushed \in Queue)' /\ HandInv' /\ StreamInv' /\ ForwardInv'
  BY <1>1, PushedStays, HandKeeps, StreamInvKeeps, ForwardKeeps
<1>3. AnswerInv' /\ EndInv' /\ OrderInv'
  BY <1>1, AnswerKeeps, RunEndsInOrder, OrderKeeps
<1> QED
  BY <1>2, <1>3 DEF FInv

THEOREM FlowInvariant == Spec => [](IInv /\ FInv)
<1>1. Init => IInv /\ FInv
  BY InitInvariant, InitFlow
<1>2. (IInv /\ FInv) /\ [Next]_vars => (IInv /\ FInv)'
  BY StepInvariant, StepFlow
<1> QED
  BY <1>1, <1>2, PTL DEF Spec

(* Between a collector and the ring buffer nothing is lost, duplicated or     *)
(* reordered, and what cancellation loses is the end of it (agent.go:54-67,  *)
(* 83-91).                                                                   *)
THEOREM CollectorsInOrder == Spec => []CollectorOrder
<1>1. IInv /\ FInv => CollectorOrder
  <2> SUFFICES ASSUME IInv, FInv, NEW i \in Colls
               PROVE  IF ctxDone THEN IsPrefix(Arrived(i), UpTo(i, coll[i].sent))
                      ELSE Arrived(i) \o fan[i].ev \o coll[i].q = UpTo(i, coll[i].sent)
    BY DEF CollectorOrder, Arrived
  <2> DEFINE a == Arrived(i)
             v == fan[i].ev
             q == coll[i].q
             n == coll[i].sent
  <2>1. a \in Seq(Events) /\ v \in Seq(Events) /\ q \in Seq(Events) /\ n \in Nat
    BY OneCollector DEF FInv, Queue
  <2>2. OrderOK(i) /\ (v = <<>> <=> fan[i].at # "send")
    BY DEF FInv, OrderInv, HandInv
  <2>3. \/ (a \o v) \o q = UpTo(i, n)
        \/ /\ v = <<>>
           /\ \E m \in 0..n : a = UpTo(i, m) /\ (ctxDone \/ (m = n /\ q = <<>>))
    BY <2>2 DEF OrderOK
  <2> HIDE DEF a, v, q, n
  <2>4. CASE ctxDone
    <3>1. PICK m \in 0..n : a = UpTo(i, m)
      <4>1. CASE (a \o v) \o q = UpTo(i, n)
        <5>1. \A k, l, m \in Seq(Events) : (k \o l) \o m = k \o (l \o m)
          BY ConcatAssociative
        <5>2. a \o (v \o q) = Between(i, 0, n) /\ v \o q \in Seq(Events)
          BY <2>1, <4>1, <5>1, ConcatProperties DEF UpTo
        <5>3. Len(a) \in 0..n /\ a = Between(i, 0, Len(a))
          BY <2>1, <5>2, BetweenFront
        <5> QED
          BY <5>3 DEF UpTo
      <4> QED
        BY <2>3, <4>1
    <3>2. m \in Nat /\ n \in Nat /\ m <= n
      BY <2>1
    <3>3. IsPrefix(UpTo(i, m), UpTo(i, n))
      BY <3>2, BetweenPrefix DEF UpTo
    <3> QED
      BY <2>4, <3>1, <3>3 DEF a, n
  <2>5. CASE ~ctxDone
    <3>1. (a \o v) \o q = UpTo(i, n)
      <4>1. CASE v = <<>> /\ q = <<>> /\ a = UpTo(i, n)
        BY <2>1, <4>1, ConcatEmptySeq
      <4> QED
        BY <2>3, <2>5, <4>1
    <3> QED
      BY <2>5, <3>1 DEF a, v, q, n
  <2> QED
    BY <2>4, <2>5
<1> QED
  BY <1>1, FlowInvariant, PTL

(* As long as ctx lives and the stream stands, everything recorded is on its *)
(* way to the coordinator: backpressure delays, it drops nothing             *)
(* (agent.go:85-90, grpc.go:157-180).                                        *)
THEOREM BackpressureLosesNothing == Spec => []NothingLostWhileUp
<1>1. FInv => NothingLostWhileUp
  BY DEF FInv, ForwardInv, NothingLostWhileUp
<1> QED
  BY <1>1, FlowInvariant, PTL

(* A Run that returns nil on its own has recorded every event of every       *)
(* collector, and with a client the coordinator has ingested and             *)
(* acknowledged them all (agent.go:92-104).                                  *)
THEOREM ReturnedNilDelivered == Spec => []NilMeansDelivered
<1>1. IInv /\ FInv => NilMeansDelivered
  <2> SUFFICES ASSUME IInv, FInv, run.at = "returned", run.res = "nil", ~ctxDone
               PROVE  /\ \A i \in Colls : /\ coll[i].sent = Emits[i]
                                           /\ OfColl(pushed, i) = UpTo(i, Emits[i])
                      /\ setup.client => net.ingested = pushed /\ net.ack = Len(pushed)
    BY DEF NilMeansDelivered
  <2>1. merged.closed /\ merged.q = <<>> /\ (setup.client => str.at = "done") /\ ~str.err
    BY DEF FInv, EndInv
  <2>2. \A i \in Colls : fan[i].at = "exited"
    BY <2>1 DEF IInv, FanInv
  <2>3. pushed \o merged.q = pushed
    BY <2>1, ConcatEmptySeq DEF FInv, Queue
  <2>4. ASSUME NEW i \in Colls
        PROVE  coll[i].sent = Emits[i] /\ OfColl(pushed, i) = UpTo(i, Emits[i])
    BY <2>2, <2>3 DEF FInv, OrderInv, OrderOK, Arrived
  <2>5. setup.client => net.ingested = pushed /\ net.ack = Len(pushed)
    BY <2>1 DEF FInv, AnswerInv
  <2> QED
    BY <2>4, <2>5
<1> QED
  BY <1>1, FlowInvariant, PTL

----------------------------------------------------------------------------
(* The stream Run forwards to, as StreamService sees it. *)

LEMMA OneStream == \A x, y : [One(x) EXCEPT !["agent"] = y] = One(y) /\ One(x)["agent"] = x
  BY DEF One

LEMMA StreamInit == Init => S!Init
<1> SUFFICES ASSUME Init PROVE S!Init
  OBVIOUS
<1>1. PICK l \in Links : net = [link |-> l, faults |-> 0, stream |-> "none",
                               wire |-> <<>>, ingested |-> <<>>, ack |-> 0]
  BY DEF Init
<1>2. /\ net.wire = <<>> /\ net.ingested = <<>> /\ net.stream = "none" /\ net.ack = 0
      /\ ctxDone = FALSE
  BY <1>1 DEF Init
<1>3. Waiting = <<>>
  BY DEF Init, Waiting, Empty
<1> QED
  BY <1>2, <1>3 DEF S!Init, One

(* What waits to be sent: the parts it is made of. *)
LEMMA WaitingParts ==
    ASSUME IInv
    PROVE  /\ str.ev \in Seq(Events) /\ out.q \in Seq(Events) /\ run.ev \in Seq(Events)
           /\ Waiting \in Seq(Events) /\ str.ev \o out.q \in Seq(Events)
           /\ Waiting = str.ev \o (out.q \o run.ev) /\ out.q \o run.ev \in Seq(Events)
           /\ str.ev = <<>> => Waiting = out.q \o run.ev
           /\ run.ev = <<>> => Waiting = str.ev \o out.q
<1>1. str.ev \in Seq(Events) /\ out.q \in Seq(Events) /\ run.ev \in Seq(Events)
  BY Queues DEF Queue
<1>2. /\ Waiting \in Seq(Events) /\ str.ev \o out.q \in Seq(Events)
      /\ out.q \o run.ev \in Seq(Events)
  BY <1>1, ConcatProperties DEF Waiting
<1>3. \A k, l, m \in Seq(Events) : (k \o l) \o m = k \o (l \o m)
  BY ConcatAssociative
<1>4. \A k \in Seq(Events) : k \o <<>> = k /\ <<>> \o k = k
  BY ConcatEmptySeq
<1>5. Waiting = str.ev \o (out.q \o run.ev)
  BY <1>1, <1>3 DEF Waiting
<1>6. str.ev = <<>> => Waiting = out.q \o run.ev
  BY <1>2, <1>4, <1>5
<1>7. run.ev = <<>> => Waiting = str.ev \o out.q
  BY <1>2, <1>4 DEF Waiting
<1> QED
  BY <1>1, <1>2, <1>5, <1>6, <1>7

(* An event in hand. *)
LEMMA InHands ==
    ASSUME IInv, HandInv
    PROVE  /\ str.at = "sending" => \E e \in Events : str.ev = <<e>>
           /\ run.at = "offering" => \E e \in Events : run.ev = <<e>>
<1>1. ASSUME NEW q \in Seq(Events), q # <<>>, Len(q) <= 1 PROVE \E e \in Events : q = <<e>>
  <2>1. Head(q) \in Events /\ q = <<Head(q)>>
    BY <1>1
  <2> QED
    BY <2>1
<1>2. str.ev \in Seq(Events) /\ run.ev \in Seq(Events) /\ Len(str.ev) <= 1 /\ Len(run.ev) <= 1
  BY Queues DEF Queue, IInv, HoldInv
<1> QED
  BY <1>1, <1>2 DEF HandInv

(* An event that waits is given up. *)
LEMMA GivesUp ==
    ASSUME NEW n \in DOMAIN Waiting, Waiting' = RemoveAt(Waiting, n), UNCHANGED <<ctxDone, net>>,
           ctxDone \/ net.stream = "broken"
    PROVE  S!GiveUp("agent")
<1> DEFINE w == Waiting
           t == One(w)
           r == RemoveAt(w, n)
<1>1. t["agent"] = w /\ [t EXCEPT !["agent"] = r] = One(r)
  BY OneStream
<1>2. t' = One(r)
  BY DEF One
<1> HIDE DEF w
<1>3. n \in DOMAIN t["agent"] /\ t' = [t EXCEPT !["agent"] = RemoveAt(t["agent"], n)]
  BY <1>1, <1>2 DEF w
<1>4. \E i \in DOMAIN t["agent"] : t' = [t EXCEPT !["agent"] = RemoveAt(@, i)]
  <2> HIDE DEF t
  <2> QED
    BY <1>3
<1>5. \E i \in DOMAIN One(Waiting)["agent"] :
          One(Waiting)' = [One(Waiting) EXCEPT !["agent"] = RemoveAt(@, i)]
  BY <1>4 DEF w
<1>6. ctxDone \/ One(net.stream)["agent"] = "broken"
  BY OneStream
<1>7. UNCHANGED <<ctxDone, One(net.wire), One(net.ingested), One(net.stream), One(net.ack)>>
  OBVIOUS
<1> QED
  BY <1>5, <1>6, <1>7 DEF S!GiveUp, S!RemoveAt, RemoveAt

(* Run, as the service sees it: it adds an event, and gives one up when ctx   *)
(* is done; that it hands one to the streaming goroutine is not seen.        *)
LEMMA RunRefines ==
    ASSUME IInv, HandInv, RunStep
    PROVE  S!Add("agent") \/ S!GiveUp("agent") \/ UNCHANGED S!vars
<1>1. CASE RunRecv
  <2>1. /\ UNCHANGED <<ctxDone, out, str, net>> /\ merged.q # <<>>
        /\ setup.client => run.ev = <<>> /\ run'.ev = <<Head(merged.q)>>
        /\ ~setup.client => run' = run
    BY <1>1, RecvMoves
  <2>2. CASE setup.client
    <3> DEFINE e == Head(merged.q)
    <3>1. e \in Events
      <4>1. merged.q \in Seq(Events)
        BY Queues DEF Queue
      <4> QED
        BY <2>1, <4>1, HeadTailProperties
    <3>2. Waiting = str.ev \o out.q /\ Waiting \in Seq(Events)
      BY <2>1, <2>2, WaitingParts
    <3>3. Waiting' = (str.ev \o out.q) \o <<e>>
      BY <2>1, <2>2 DEF Waiting
    <3> HIDE DEF e
    <3>4. Waiting' = Append(Waiting, e)
      BY <3>1, <3>2, <3>3, AppendIsConcat
    <3> QED
      BY <2>1, <3>1, <3>4, OneStream DEF S!Add
  <2>3. CASE ~setup.client
    BY <2>1, <2>3 DEF S!vars, Waiting
  <2> QED
    BY <2>2, <2>3
<1>2. CASE RunOffer
  <2>1. /\ out'.q = out.q \o run.ev /\ run'.ev = <<>> /\ UNCHANGED <<ctxDone, str, net>>
    BY <1>2, OfferMoves
  <2>2. Waiting' = str.ev \o (out.q \o run.ev) \o <<>>
    BY <2>1 DEF Waiting
  <2>3. Waiting' = Waiting
    BY <2>2, WaitingParts, ConcatEmptySeq
  <2> QED
    BY <2>1, <2>3 DEF S!vars
<1>3. CASE RunSkip
  <2>1. ctxDone /\ run.at = "offering" /\ run'.ev = <<>> /\ UNCHANGED <<ctxDone, out, str, net>>
    BY <1>3, Queues DEF RunSkip, MaySkip, Runs
  <2>2. PICK e \in Events : run.ev = <<e>>
    BY <2>1, InHands
  <2> DEFINE q == str.ev \o out.q
  <2>3. q \in Seq(Events)
    BY WaitingParts
  <2>4. Waiting = q \o <<e>> /\ Waiting' = q \o <<>>
    BY <2>1, <2>2 DEF Waiting
  <2> HIDE DEF q
  <2>5. Waiting = Append(q, e) /\ Waiting' = q
    BY <2>3, <2>4, AppendIsConcat, ConcatEmptySeq
  <2>6. PICK n \in DOMAIN Waiting : Waiting' = RemoveAt(Waiting, n)
    BY <2>3, <2>5, DropLast
  <2> QED
    BY <2>1, <2>6, GivesUp
<1>4. CASE run'.ev = run.ev /\ out'.q = out.q /\ str'.ev = str.ev /\ ctxDone' = ctxDone /\ net' = net
  BY <1>4 DEF S!vars, Waiting
<1>5. ctxDone' = ctxDone
  BY DEF RunStep, RunBlocked, StartOK, StartFails, RunRecv, RunOffer, RunSkip, RunEnd, RunJoin,
         StopCollector, CollectorStopped, RunReturn
<1>6. \/ RunRecv \/ RunOffer \/ RunSkip
      \/ run'.ev = run.ev /\ out'.q = out.q /\ str'.ev = str.ev /\ UNCHANGED <<pushed, net>>
  BY RunStays
<1> QED
  BY <1>1, <1>2, <1>3, <1>4, <1>5, <1>6

(* The streaming goroutine opens the stream, sends on it and closes it, and   *)
(* gives up the event it could not send.                                     *)
LEMMA StreamRefines ==
    ASSUME IInv, HandInv, StreamInv, StreamStep
    PROVE  \/ S!Open("agent") \/ S!Send("agent") \/ S!Close("agent") \/ S!GiveUp("agent")
           \/ UNCHANGED S!vars
<1>0. ctxDone' = ctxDone
  BY DEF StreamStep, OpenOK, OpenFails, Retry, StreamCancel, PumpTake, SendOK, SendFails, PumpClose,
         CloseAndRecv
<1>1. CASE OpenOK
  <2>1. /\ net'.ingested = net.ingested /\ net'.wire = net.wire /\ net'.ack = net.ack
        /\ str'.ev = str.ev /\ UNCHANGED <<run, out>> /\ str.at = "opening"
        /\ net'.stream = "open"
    BY <1>1, StreamMoves
  <2>2. Waiting' = Waiting /\ net.stream = "none"
    BY <2>1 DEF Waiting, StreamInv
  <2> QED
    BY <1>0, <2>1, <2>2, OneStream DEF S!Open
<1>2. CASE PumpTake
  <2>1. /\ out.q # <<>> /\ str.ev = <<>> /\ str'.ev = <<Head(out.q)>> /\ out'.q = Tail(out.q)
        /\ UNCHANGED <<run, net>>
    BY <1>2, TakeMoves
  <2>2. out.q = <<Head(out.q)>> \o Tail(out.q)
    BY <2>1, WaitingParts, FirstAndRest
  <2>3. Waiting' = (<<Head(out.q)>> \o Tail(out.q)) \o run.ev
    BY <2>1 DEF Waiting
  <2>4. Waiting' = Waiting
    BY <2>1, <2>2, <2>3, WaitingParts
  <2> QED
    BY <1>0, <2>1, <2>4 DEF S!vars
<1>3. ASSUME str.at = "sending", str'.ev = <<>>, UNCHANGED <<run, out>>
      PROVE  /\ Waiting # <<>> /\ Waiting' = Tail(Waiting) /\ str.ev = <<Head(Waiting)>>
             /\ Head(Waiting) \in Events
  <2>1. PICK e \in Events : str.ev = <<e>>
    BY <1>3, InHands
  <2> DEFINE q == out.q \o run.ev
  <2>2. q \in Seq(Events) /\ Waiting = <<e>> \o q
    BY <2>1, WaitingParts
  <2>3. Waiting' = <<>> \o out.q \o run.ev
    BY <1>3 DEF Waiting
  <2>4. Waiting' = q
    BY <2>3, WaitingParts, ConcatEmptySeq
  <2> HIDE DEF q
  <2>5. /\ <<e>> \o q # <<>> /\ Head(<<e>> \o q) = e /\ Tail(<<e>> \o q) = q
    BY <2>2
  <2> QED
    BY <2>1, <2>2, <2>4, <2>5
<1>4. CASE SendOK
  <2>1. /\ net'.wire = net.wire \o str.ev /\ net'.ingested = net.ingested /\ net'.ack = net.ack
        /\ net'.stream = net.stream /\ net.stream = "open" /\ str'.ev = <<>>
        /\ str.at = "sending" /\ UNCHANGED <<run, out>>
    BY <1>4, SendMoves
  <2>2. /\ Waiting # <<>> /\ Waiting' = Tail(Waiting) /\ str.ev = <<Head(Waiting)>>
        /\ Head(Waiting) \in Events
    BY <1>3, <2>1
  <2>3. net.wire \in Seq(Events)
    BY Queues DEF Queue
  <2>4. net.wire \o <<Head(Waiting)>> = Append(net.wire, Head(Waiting))
    BY <2>2, <2>3, AppendIsConcat
  <2>5. net'.wire = Append(net.wire, Head(Waiting))
    BY <2>1, <2>2, <2>4
  <2> QED
    <3>1. /\ One(Waiting)' = [One(Waiting) EXCEPT !["agent"] = Tail(@)]
          /\ One(Waiting)["agent"] = Waiting
      BY <2>2, OneStream
    <3>2. One(net.wire)' = [One(net.wire) EXCEPT !["agent"] = Append(@, Head(Waiting))]
      BY <2>5, OneStream
    <3>3. /\ One(net.stream)["agent"] = "open" /\ One(net.stream)' = One(net.stream)
          /\ One(net.ingested)' = One(net.ingested) /\ One(net.ack)' = One(net.ack)
      BY <2>1, OneStream
    <3> QED
      BY <1>0, <2>2, <3>1, <3>2, <3>3 DEF S!Send
<1>5. CASE PumpClose
  <2>1. /\ net'.ingested = net.ingested /\ net'.wire = net.wire /\ net'.ack = net.ack
        /\ str'.ev = str.ev /\ UNCHANGED <<run, out>>
        /\ net'.stream = IF net.stream = "open" THEN "halfclosed" ELSE net.stream
    BY <1>5, StreamMoves
  <2>2. Waiting' = Waiting
    BY <2>1 DEF Waiting
  <2> QED
    BY <1>0, <2>1, <2>2, OneStream DEF S!Close, S!vars
<1>6. CASE SendFails
  <2>1. /\ str.at = "sending" /\ net.stream = "broken" /\ str'.ev = <<>>
        /\ UNCHANGED <<out, run, net>>
    BY <1>6, Queues DEF SendFails, AfterFailedSend, Streamers
  <2>2. Waiting # <<>> /\ Waiting' = Tail(Waiting)
    BY <1>3, <2>1
  <2>3. PICK n \in DOMAIN Waiting : Waiting' = RemoveAt(Waiting, n)
    BY <2>2, WaitingParts, DropFirst
  <2> QED
    BY <1>0, <2>1, <2>3, GivesUp
<1>7. CASE str'.ev = str.ev /\ UNCHANGED <<pushed, out, run, net>>
  BY <1>0, <1>7 DEF S!vars, Waiting
<1> QED
  BY <1>1, <1>2, <1>4, <1>5, <1>6, <1>7, StreamStays

(* The connection and the coordinator. *)
LEMMA NetRefines ==
    ASSUME IInv, StreamInv, LinkDown \/ LinkUp \/ StreamReset \/ ServerStep
    PROVE  \/ S!Break("agent") \/ S!Deliver("agent") \/ S!Answer("agent")
           \/ UNCHANGED S!vars
<1>1. UNCHANGED <<ctxDone, run, out, str>>
  BY DEF LinkDown, LinkUp, StreamReset, ServerStep, ServerRecv, ServerEOF
<1>2. Waiting' = Waiting
  BY <1>1 DEF Waiting
<1>3. CASE ServerRecv
  <2>1. /\ net.wire # <<>> /\ net'.wire = Tail(net.wire)
        /\ net'.ingested = Append(net.ingested, Head(net.wire))
        /\ net'.stream = net.stream /\ net.stream \in {"open", "halfclosed"} /\ net'.ack = net.ack
    BY <1>3, ServerMoves
  <2> QED
    BY <1>1, <1>2, <2>1, OneStream DEF S!Deliver
<1>4. CASE ServerEOF
  <2>1. /\ net'.ingested = net.ingested /\ net'.wire = net.wire /\ net.stream = "halfclosed"
        /\ net'.stream = "acked" /\ net.wire = <<>> /\ net'.ack = Len(net.ingested)
    BY <1>4, StreamMoves
  <2> QED
    BY <1>1, <1>2, <2>1, OneStream DEF S!Answer
<1>5. CASE LinkDown \/ LinkUp \/ StreamReset
  <2>1. /\ net'.ingested = net.ingested /\ net'.ack = net.ack
        /\ \/ net'.stream = net.stream /\ net'.wire = net.wire
           \/ net'.wire = <<>> /\ net'.stream = IF net.stream = "none" THEN "none" ELSE "broken"
    BY <1>5, NetMoves
  <2>2. CASE net'.stream = net.stream /\ net'.wire = net.wire
    BY <1>1, <1>2, <2>1, <2>2 DEF S!vars
  <2>3. CASE net'.wire = <<>> /\ net'.stream = IF net.stream = "none" THEN "none" ELSE "broken"
    <3>1. CASE net.stream \in {"none", "broken"}
      <4>1. net.wire = <<>> /\ net'.stream = net.stream
        BY <2>3, <3>1 DEF StreamInv
      <4> QED
        BY <1>1, <1>2, <2>1, <2>3, <4>1 DEF S!vars
    <3>2. CASE net.stream \in {"open", "halfclosed", "acked"}
      <4>1. net'.stream = "broken"
        BY <2>3, <3>2
      <4> QED
        BY <1>1, <1>2, <2>1, <2>3, <3>2, <4>1, OneStream DEF S!Break
    <3> QED
      BY <3>1, <3>2, Queues DEF Nets
  <2> QED
    BY <2>1, <2>2, <2>3
<1> QED
  BY <1>3, <1>4, <1>5 DEF ServerStep

LEMMA StepRefines == IInv /\ FInv /\ [Next]_vars => [S!Next]_S!vars
<1> SUFFICES ASSUME IInv, FInv, [Next]_vars PROVE [S!Next]_S!vars
  OBVIOUS
<1>0. HandInv /\ StreamInv
  BY DEF FInv
<1>1. CASE Cancel
  <2>1. ctxDone' = TRUE /\ UNCHANGED <<run, out, str, net>>
    BY <1>1 DEF Cancel
  <2>2. Waiting' = Waiting
    BY <2>1 DEF Waiting
  <2>3. S!Cancel
    BY <2>1, <2>2 DEF S!Cancel
  <2> QED
    BY <2>3 DEF S!Next
<1>2. CASE RunStep
  BY <1>0, <1>2, RunRefines DEF S!Next
<1>3. CASE StreamStep
  BY <1>0, <1>3, StreamRefines DEF S!Next
<1>4. CASE LinkDown \/ LinkUp \/ StreamReset \/ ServerStep
  BY <1>0, <1>4, NetRefines DEF S!Next
<1>5. CASE UNCHANGED <<ctxDone, run, out, str, net>>
  BY <1>5 DEF S!vars, Waiting
<1>6. \/ Cancel \/ RunStep \/ StreamStep \/ LinkDown \/ LinkUp \/ StreamReset \/ ServerStep
      \/ UNCHANGED <<ctxDone, run, out, str, net>>
  BY DEF Next, Returned, vars, Emit, CollectorExit, FanStep, FanRecv, FanSend, FanCancel, FanEnd,
         CloseMerged
<1> QED
  BY <1>1, <1>2, <1>3, <1>4, <1>5, <1>6

(* Whatever happens, the stream keeps the promise of StreamService: what Run  *)
(* forwards arrives in order and at most once, a stream that broke is not    *)
(* continued, and only a broken stream or a cancelled ctx gives up an event  *)
(* that waits to be sent (agent.go:85-90, grpc.go:135-180).                  *)
THEOREM StreamIsKept == Spec => ImplementsStream
<1>1. Spec => S!Spec
  BY StreamInit, StepRefines, FlowInvariant, PTL DEF Spec, S!Spec
<1> QED
  BY <1>1 DEF ImplementsStream
=============================================================================
