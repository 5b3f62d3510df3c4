------------------------------ MODULE Pipeline ------------------------------
(* The path of a trace through the system: gfr-sim writes it, one agent per   *)
(* rank replays its part of it (gfr agent --replay --ranks), the events reach *)
(* the coordinator as messages, the streams of the ranks interleaving, and    *)
(* Analyze explains what arrived, whenever a report is asked for. An agent    *)
(* may be killed and started again; it then sends its part from the start.    *)
(*                                                                            *)
(* What Analyze does for each event it does here as the event arrives. Live's *)
(* eviction is left out (module Coordinator): nothing here reaches its limit. *)
EXTENDS Simulation

CONSTANTS Runs,              \* the runs simulated, and how often agents restart
          AttributionWindow, ThresholdSigma, MinRanks, BlockSize, MinHits, MinHitPercent

NoKey == -1
Unlimited == 1000
Ranks == UNION {0..(p.ranks - 1) : p \in Runs}

ASSUME PipelineAssumption ==
    \A p \in Runs : /\ p.fault \in AllFaults /\ p.ranks \in Nat /\ p.straggler \in 0..(p.ranks - 1)
                    /\ p.jitter \in [(0..(Steps - 1)) \X (0..(p.ranks - 1)) -> Int]
                    /\ p.damage \in {"none", "blank", "torn"} /\ p.restarts \in Nat

INSTANCE Codec

C == INSTANCE Correlator WITH
         Rank <- Ranks, Key <- 0..(Steps - 1), Inputs <- {}, Lookbacks <- {0}, MaxArrivals <- 0,
         lookback <- 0, rankEvents <- <<>>, groups <- <<>>, newestNs <- 0, arrived <- <<>>
D == INSTANCE Detection WITH
         Rank <- Ranks, Durations <- {}, Windows <- {Unlimited}, MaxCollectives <- 0,
         groups <- <<>>, found <- <<>>
A == INSTANCE Attribution WITH
         Samples <- {}, Lo <- 0, EndNs <- 0, MaxTime <- 0, MaxSamples <- 0,
         rankEvents <- <<>>, report <- <<>>

----------------------------------------------------------------------------
(* Analyze. *)

(* An event as the store, detection and the rules read it. *)
Stored(e) ==
    [rank |-> e.rank, ts |-> e.ts,
     key |-> IF e.kind = "nccl" THEN e.seq ELSE NoKey,
     dur |-> IF e.kind = "nccl" THEN e.dur ELSE 0,
     is |-> IF e.kind = "pcie" THEN [kind |-> "pcie", bw |-> e.read + e.write] ELSE e]

NoEvents == [events |-> [r \in Ranks |-> <<>>], groups |-> <<>>]

(* IngestEvent without a lookback. *)
Ingest(st, e) ==
    LET x == Stored(e)
    IN  [events |-> [st.events EXCEPT ![x.rank] = C!Insert(@, x)],
         groups |-> C!Join(st.groups, x)]

(* The groups in the order detection cuts them into blocks. *)
InOrder(groups) ==
    LET at(k) == C!NewestOf(groups[k])
        keys == SortSeq(SelectSeq([i \in 1..Steps |-> i - 1], LAMBDA k : k \in DOMAIN groups),
                        LAMBDA j, k : at(j) < at(k) \/ (at(j) = at(k) /\ j < k))
    IN  [i \in DOMAIN keys |->
            [ts |-> at(keys[i]),
             dur |-> [r \in DOMAIN groups[keys[i]] |-> groups[keys[i]][r].dur]]]

(* An anomaly with its explanation, from the rank's events since an instant. *)
Explain(a, evs) ==
    [rank |-> a.rank, anomaly |-> a]
    @@ A!Attribute(evs, a.startNs - AttributionWindow, a.endNs)

Anomalies(st) == D!DetectAnomalies(InOrder(st.groups), Unlimited)

(* Mutant: attribution gets the events of its window only. *)
AnalyzeWindow(st) ==
    {Explain(a, SelectSeq(st.events[a.rank], LAMBDA e : e.ts >= a.startNs - AttributionWindow)) :
     a \in Anomalies(st)}
Analyze(st) == {Explain(a, st.events[a.rank]) : a \in Anomalies(st)}

----------------------------------------------------------------------------

VARIABLES run,     \* the run's parameters
          left,    \* left[r]: what rank r's agent has still to send
          crashes, \* restarts of agents so far
          store    \* the events ingested, as Analyze correlates them

vars == <<run, left, crashes, store>>

(* The file written for the run, perhaps with an empty line, or torn. *)
File(p) == LET lines == Write(Generate(p))
           IN  CASE p.damage = "none" -> lines
                 [] p.damage = "blank" -> <<Blank>> \o lines
                 [] p.damage = "torn" -> Append(lines, Torn)

(* ReplayCollector.Start reads the whole trace, and its rank's part is sent. *)
Part(p, r) == SelectSeq(Read(File(p)).events, LAMBDA e : e.rank = r)

Init == /\ run \in Runs
        /\ left = [r \in 0..(run.ranks - 1) |-> Part(run, r)]
        /\ crashes = 0
        /\ store = NoEvents

(* The next event of rank r is sent, received and ingested. *)
Deliver(r) ==
    /\ left[r] # <<>>
    /\ store' = Ingest(store, FromProto(ToProto(Head(left[r]))))
    /\ left' = [left EXCEPT ![r] = Tail(@)]
    /\ UNCHANGED <<run, crashes>>

(* Rank r's agent is killed and started again: it replays from the start. *)
Restart(r) ==
    /\ crashes < run.restarts
    /\ crashes' = crashes + 1
    /\ left' = [left EXCEPT ![r] = Part(run, r)]
    /\ UNCHANGED <<run, store>>

Next == \E r \in DOMAIN left : Deliver(r) \/ Restart(r)

Spec == Init /\ [][Next]_vars

----------------------------------------------------------------------------

(* What GetReport answers now, and what gfr replay prints for the same file. *)
Report == Analyze(store)
Readable == Read(File(run)).ok
Replay == IF Readable THEN Analyze(FoldLeft(Ingest, NoEvents, Read(File(run)).events)) ELSE {}

Delivered == \A r \in DOMAIN left : left[r] = <<>>

(* Whenever a report is asked for, it names nobody but the true straggler:   *)
(* however far one agent is ahead of another, whatever part of a collective  *)
(* has arrived, and however often an agent has started again                 *)
(* (coordinator.go:27-57, correlator.go:154-195, sim_test.go:16-40).         *)
NoFalseStraggler == FalseStragglers(run, Report) = 0

Agree(live, offline) ==
    /\ {a.anomaly : a \in live} = {a.anomaly : a \in offline}
    /\ crashes = 0 => live = offline
    /\ run.damage = "torn" => live = {}

(* Once every agent has sent its part, the live report is that of an offline *)
(* replay of the file: ranks came in another order, and through messages.    *)
(* What an agent sends twice makes no anomaly and hides none, though samples *)
(* counted twice may move a confidence. A torn file gives neither a report   *)
(* (correlator.go:80-105, 153, convert.go:11-65, trace.go:62-83).            *)
LiveAgreesWithReplay == Delivered => Agree(Report, Replay)

Explained(rep) ==
    /\ Detected(run, rep)
    /\ run.fault # "clean" => ExactTop(run, rep)
    /\ run.fault # "clean" /\ crashes = 0 => AttrCorrect(run, rep)
    /\ \A a \in rep : causesFor(run.fault) \subseteq CausesOf(a)

(* Once every agent has sent its part, the fault simulated is found, its true *)
(* straggler named with every cause, a true one on top, and the true causes   *)
(* before all others unless a restart counted samples twice. A healthy run    *)
(* has no report; a fault no collector can see is located and not explained   *)
(* (score.go:16-48, sim.go:24-26, sim_test.go:16-40).                         *)
FaultExplained == Delivered /\ Readable => Explained(Report)
=============================================================================
