----------------------------- MODULE Simulation -----------------------------
(* internal/sim: a synthetic run of a training job with one known fault, and  *)
(* the score of a report about it. An event is a record with the fields of    *)
(* its Go type that the analysis reads; kind stands for the type. Durations   *)
(* are in hundredths of opNs, times in steps, clocks in 100 MHz, rates in     *)
(* hundredths of the healthy rate. Noise is given: a table of deviations.     *)
EXTENDS Integers, Sequences, SequencesExt, FiniteSets, FiniteSetsExt

CONSTANTS Steps,        \* p.Steps
          SamplePeriod, \* steps between two hardware samples
          Severity      \* p.Severity, in hundredths

ASSUME SimulationAssumption ==
    /\ Steps \in Nat /\ SamplePeriod \in Nat \ {0} /\ Severity \in Nat

AllFaults == {"clean", "thermal", "power", "ecc", "pcie", "nvlink", "host_stall",
              "contention", "contention_hidden", "thermal+ecc"}

Onset == Steps \div 2

causesFor(f) ==
    CASE f = "thermal" -> {"thermal_throttle"}
      [] f = "power" -> {"power_throttle"}
      [] f = "ecc" -> {"ecc_errors"}
      [] f = "pcie" -> {"pcie_bandwidth_drop"}
      [] f = "nvlink" -> {"nvlink_degraded"}
      [] f = "host_stall" -> {"host_stall"}
      [] f = "contention" -> {"gpu_contention"}
      [] f = "thermal+ecc" -> {"thermal_throttle", "ecc_errors"}
      [] f = "contention_hidden" -> {"unknown"}
      [] f = "clean" -> {}

(* A run p: its fault, the true straggler, the number of ranks, the noise.   *)
Faulty(p, s) == p.fault # "clean" /\ s >= Onset

(* Mutant: the straggler reports the longer operation, not those that wait. *)
DurationOfSlow(p, s, r) == 100 + p.jitter[s, r]
                           + IF Faulty(p, s) /\ r = p.straggler THEN Severity ELSE 0
(* The peers wait for the straggler. *)
Duration(p, s, r) == 100 + p.jitter[s, r]
                     + IF Faulty(p, s) /\ r # p.straggler THEN Severity ELSE 0

(* eccD when rank r is sampled in step s: one counter for all ranks, bumped  *)
(* whenever the straggler was sampled since the fault began.                 *)
ECC(p, s, r) ==
    IF p.fault \notin {"ecc", "thermal+ecc"} THEN 0
    ELSE Cardinality({t \in Onset..s : /\ t % SamplePeriod = 0
                                       /\ t < s \/ p.straggler <= r})

Metric(p, s, r) ==
    LET hit == Faulty(p, s) /\ r = p.straggler
        On(fs) == hit /\ p.fault \in fs
    IN  [kind |-> "gpu", ts |-> s, rank |-> r, mem |-> 60,
         throttle |-> IF On({"thermal", "thermal+ecc"}) THEN {"thermal"}
                      ELSE IF On({"power"}) THEN {"power"} ELSE {},
         clock |-> IF On({"thermal", "thermal+ecc"}) THEN 11
                   ELSE IF On({"power"}) THEN 13 ELSE 19,
         procs |-> IF On({"contention"}) THEN 2
                   ELSE IF p.fault = "contention_hidden" THEN 0 ELSE 1,
         util |-> IF On({"host_stall"}) THEN 12 ELSE 94,
         sbe |-> 3 * ECC(p, s, r), dbe |-> ECC(p, s, r)]

Links(p, s, r) ==
    LET On(f) == Faulty(p, s) /\ r = p.straggler /\ p.fault = f
    IN  <<[kind |-> "pcie", ts |-> s, rank |-> r, write |-> 0,
           read |-> IF On("pcie") THEN 25 ELSE 100],
          [kind |-> "nvlink", ts |-> s, rank |-> r, bw |-> IF On("nvlink") THEN 20 ELSE 100]>>

(* What rank r emits in step s. *)
Emitted(p, s, r) ==
    <<[kind |-> "nccl", ts |-> s, rank |-> r, seq |-> s, dur |-> Duration(p, s, r)]>>
    \o IF s % SamplePeriod = 0 THEN <<Metric(p, s, r)>> \o Links(p, s, r) ELSE <<>>

Generate(p) ==
    FlattenSeq([i \in 1..(Steps * p.ranks) |->
        Emitted(p, (i - 1) \div p.ranks, (i - 1) % p.ranks)])

----------------------------------------------------------------------------
(* The score of a report: a set of anomalies, each with the chain of causes  *)
(* found for it, the likeliest first.                                        *)

FalseStragglers(p, rep) ==
    Cardinality({a \in rep : p.fault = "clean" \/ a.rank # p.straggler})
Detected(p, rep) == IF p.fault = "clean" THEN rep = {} ELSE \E a \in rep : a.rank = p.straggler
(* The chain begins with the true causes, in any order. *)
AttrCorrect(p, rep) ==
    LET want == causesFor(p.fault)
    IN  \E a \in rep : /\ a.rank = p.straggler
                       /\ {a.chain[i].cause : i \in 1..Cardinality(want) \cap DOMAIN a.chain} = want
CausesOf(a) == {a.chain[i].cause : i \in DOMAIN a.chain}
ExactTop(p, rep) == \E a \in rep : a.rank = p.straggler /\ a.chain[1].cause \in causesFor(p.fault)
=============================================================================
