----------------------------- MODULE Attribution -----------------------------
(* internal/attribution/engine.go: which hardware signals of a straggler rank *)
(* explain its anomaly, and how surely. rankEvents is what the correlator     *)
(* hands over, in time order; it grows here one event at a time, and report   *)
(* is what Attribute returns for it.                                          *)
(*                                                                            *)
(* Float arithmetic is exact here: a confidence is a fraction <<num, den>>.   *)
(* Throttle masks are sets of the two kinds the rules test. A GPU sample's    *)
(* clock or process count of 0 means that NVML could not tell.                *)
EXTENDS Flows, Statistics, SequencesExt

CONSTANTS Samples,    \* what may be observed: records by kind, without a time
          Lo, EndNs,  \* "during" is from Lo = StartNs - window to EndNs
          MaxTime,    \* bound: the last instant observed
          MaxSamples  \* bound: the events of the rank

GPU == [kind : {"gpu"}, throttle : SUBSET {"thermal", "power"}, clock : Nat,
        procs : Nat, sbe : Nat, dbe : Nat, util : 0..100, mem : 0..100]
Link == [kind : {"pcie", "nvlink"}, bw : Nat]
Thermal == [kind : {"thermal"}, active : BOOLEAN]

ASSUME AttributionAssumption ==
    /\ \A s \in Samples : s \in GPU \cup Link \cup Thermal
    /\ Lo \in Nat /\ EndNs \in Nat /\ Lo <= EndNs /\ EndNs <= MaxTime
    /\ MaxTime \in Nat /\ MaxSamples \in Nat

----------------------------------------------------------------------------
(* Helpers. Samples are a part of the rank's events: a function on some of    *)
(* their indices, which are in time order.                                    *)

(* Mutant: no upper end of the window. *)
DuringOpenEnded(evs, lo, end) == Restrict(evs, {i \in DOMAIN evs : evs[i].ts >= lo})
During(evs, lo, end) ==
    Restrict(evs, {i \in DOMAIN evs : evs[i].ts >= lo /\ evs[i].ts <= end})
Baseline(evs, lo) == Restrict(evs, {i \in DOMAIN evs : evs[i].ts < lo})

OfKinds(d, ks) == Restrict(d, {i \in DOMAIN d : d[i].is.kind \in ks})
OfKind(d, k) == OfKinds(d, {k})
Known(d, f) == LET g == OfKind(d, "gpu") IN Restrict(g, {i \in DOMAIN g : g[i].is[f] > 0})
Values(d, f) == [i \in DOMAIN d |-> d[i].is[f]]

Absent(d) == DOMAIN d = {}
Earliest(d) == d[Min(DOMAIN d)]
Latest(d) == d[Max(DOMAIN d)]

(* The mean, times Number(v). *)
Sum(v) == LET last == Max({0} \cup DOMAIN v)
              upTo[n \in 0..last] ==
                  IF n = 0 THEN 0 ELSE upTo[n - 1] + IF n \in DOMAIN v THEN v[n] ELSE 0
          IN  upTo[last]

Lt(a, b) == a[1] * b[2] < b[1] * a[2]
AtMost(a, cap) == IF Lt(cap, a) THEN cap ELSE a

(* What a rule returns: fired, with its last evidence and its confidence; or *)
(* not, with data that speak against the cause; or no data.                  *)
Fired(ev, c) == [is |-> "fired", ev |-> ev, conf |-> c]
Against == [is |-> "against"]
NoData == [is |-> "nodata"]

----------------------------------------------------------------------------
(* The rules. *)

(* Mutant: without the cap. *)
FracUncapped(a, b) == <<a, b>>
Frac(a, b) == AtMost(<<a, b>>, <<95, 100>>)

Throttled(e) == e.is.kind = "gpu" /\ "thermal" \in e.is.throttle
Hot(e) == Throttled(e) \/ (e.is.kind = "thermal" /\ e.is.active)
Capped(e) == e.is.kind = "gpu" /\ "power" \in e.is.throttle

(* The share of the samples d that hits are. *)
Share(d, hits) == IF Absent(d) THEN NoData
                  ELSE IF hits = {} THEN Against
                  ELSE Fired(d[Max(hits)], Frac(Cardinality(hits), Number(d)))

RuleThermal(d) == LET t == OfKinds(d, {"gpu", "thermal"})
                  IN  Share(t, {i \in DOMAIN t : Hot(t[i])})
RulePower(d) == LET g == OfKind(d, "gpu") IN Share(g, {i \in DOMAIN g : Capped(g[i])})

(* Mutant: any drop does. *)
SlowerAtAll(dm, bm) == dm < bm
(* Below 75% of the baseline's median clock. *)
Slower(dm, bm) == 4 * dm < 3 * bm
(* Mutant: capped like the bandwidth rules. *)
ClockConfHigh(dm, bm) == AtMost(<<9 * bm - 5 * dm, 10 * bm>>, <<95, 100>>)
(* 0.4 + drop/2, at most 0.7. *)
ClockConf(dm, bm) == AtMost(<<9 * bm - 5 * dm, 10 * bm>>, <<7, 10>>)
RuleClock(d, b) ==
    LET dc == Known(d, "clock")
        bc == Known(b, "clock")
        dm == Median2(Values(dc, "clock"))
        bm == Median2(Values(bc, "clock"))
    IN  IF Absent(dc) \/ Absent(bc) THEN NoData
        ELSE IF ~Slower(dm, bm) THEN Against
        ELSE Fired(Latest(dc), ClockConf(dm, bm))

RuleContention(d, b) ==
    LET dp == Known(d, "procs")
        bp == Known(b, "procs")
    IN  IF Absent(dp) \/ Absent(bp) THEN NoData
        ELSE IF Median2(Values(dp, "procs")) <= Median2(Values(bp, "procs")) THEN Against
        ELSE Fired(Latest(dp), <<7, 10>>)

(* Mutant: counted from the first sample there is. *)
CountedFromTheFirst(d, b) == IF Absent(b) THEN Earliest(d) ELSE Earliest(b)
(* lastOf(before), then the window. *)
CountedFrom(d, b) == IF Absent(b) THEN Earliest(d) ELSE Latest(b)
CountedTo(d, b) == IF Absent(d) THEN Latest(b) ELSE Latest(d)
RuleECC(during, before) ==
    LET d == OfKind(during, "gpu")
        b == OfKind(before, "gpu")
        Rose(f) == CountedTo(d, b).is[f] > CountedFrom(d, b).is[f]
    IN  IF Absent(d) /\ Absent(b) THEN NoData
        ELSE IF ~Rose("sbe") /\ ~Rose("dbe") THEN Against
        ELSE Fired(CountedTo(d, b), IF Rose("dbe") THEN <<9, 10>> ELSE <<6, 10>>)

(* Mutant: without a baseline there is nothing to hold against the cause. *)
BandwidthNeedsNoBaseline(d, b) ==
    LET dm == Median2(Values(d, "bw"))
        bm == Median2(Values(b, "bw"))
    IN  IF Absent(d) THEN NoData
        ELSE IF bm <= 0 \/ 2 * dm >= bm THEN Against
        ELSE Fired(Latest(d), AtMost(<<2 * bm - dm, 2 * bm>>, <<95, 100>>))
(* bandwidthDrop: below half the baseline's median; 0.5 + drop/2. *)
BandwidthDrop(d, b) ==
    LET dm == Median2(Values(d, "bw"))
        bm == Median2(Values(b, "bw"))
    IN  IF Absent(d) \/ Absent(b) THEN NoData
        ELSE IF bm <= 0 \/ 2 * dm >= bm THEN Against
        ELSE Fired(Latest(d), AtMost(<<2 * bm - dm, 2 * bm>>, <<95, 100>>))

RuleMemory(d) ==
    LET g == OfKind(d, "gpu")
    IN  IF Absent(g) THEN NoData
        ELSE IF Sum(Values(g, "mem")) < 90 * Number(g) THEN Against
        ELSE Fired(Latest(g), <<5, 10>>)

(* A mean utilisation below 40%; 0.4 + what is missing, at most 0.8. *)
RuleHostStall(d) ==
    LET g == OfKind(d, "gpu")
        used == Sum(Values(g, "util"))
    IN  IF Absent(g) THEN NoData
        ELSE IF \/ \E i \in DOMAIN g : g[i].is.throttle # {}
                \/ used >= 40 * Number(g) THEN Against
        ELSE Fired(Latest(g), AtMost(<<80 * Number(g) - used, 100 * Number(g)>>, <<8, 10>>))

Causes == <<"thermal_throttle", "power_throttle", "clock_reduced", "gpu_contention",
            "ecc_errors", "pcie_bandwidth_drop", "nvlink_degraded", "memory_pressure",
            "host_stall">>

Verdicts(d, b) ==
    <<RuleThermal(d), RulePower(d), RuleClock(d, b), RuleContention(d, b), RuleECC(d, b),
      BandwidthDrop(OfKind(d, "pcie"), OfKind(b, "pcie")),
      BandwidthDrop(OfKind(d, "nvlink"), OfKind(b, "nvlink")), RuleMemory(d), RuleHostStall(d)>>

(* The stable sort by confidence: which verdicts come before which. *)
Surer(v, i, j) == Lt(v[j].conf, v[i].conf) \/ (~Lt(v[i].conf, v[j].conf) /\ i < j)
Ranked(v, S) ==
    [k \in 1..Cardinality(S) |->
        CHOOSE i \in S : Cardinality({j \in S : Surer(v, j, i)}) = k - 1]

(* What fired, surest first and in the order of the rules where equal, or    *)
(* unknown; and what the data speak against.                                 *)
Explained(v) ==
    LET With(x) == {i \in 1..9 : v[i].is = x}
        links == Ranked(v, With("fired"))
        against == Only([i \in 1..9 |-> i], With("against"))
    IN  [chain |-> IF With("fired") = {} THEN <<[cause |-> "unknown", conf |-> <<0, 1>>]>>
                   ELSE [k \in DOMAIN links |-> [cause |-> Causes[links[k]],
                                                 ev |-> v[links[k]].ev, conf |-> v[links[k]].conf]],
         ruledOut |-> [k \in DOMAIN against |-> Causes[against[k]]]]

Attribute(evs, lo, end) == Explained(Verdicts(During(evs, lo, end), Baseline(evs, lo)))

----------------------------------------------------------------------------
(* The straggler's events arrive. *)

VARIABLES rankEvents, \* EventsForRank(straggler), in time order
          report      \* what Attribute returns for it

vars == <<rankEvents, report>>

Init == rankEvents = <<>> /\ report = Attribute(<<>>, Lo, EndNs)

(* One more event of the rank, not older than the last, and Attribute again. *)
Observe(s, t) ==
    /\ Len(rankEvents) < MaxSamples
    /\ rankEvents # <<>> => Last(rankEvents).ts <= t
    /\ rankEvents' = Append(rankEvents, [ts |-> t, is |-> s])
    /\ report' = Attribute(rankEvents', Lo, EndNs)

Next == \E s \in Samples, t \in 0..MaxTime : Observe(s, t)

Spec == Init /\ [][Next]_vars

----------------------------------------------------------------------------

Fires(c) == \E k \in DOMAIN report.chain : report.chain[k].cause = c
Judged(c) == Fires(c) \/ c \in Range(report.ruledOut)

(* Types: the report has a cause, none twice nor both found and ruled out,   *)
(* and no cause is certain.                                                  *)
TypeOK ==
    /\ \A e \in Range(rankEvents) : e.ts \in 0..MaxTime /\ e.is \in Samples
    /\ report.chain # <<>> /\ IsInjective([k \in DOMAIN report.chain |-> report.chain[k].cause])
    /\ \A k \in DOMAIN report.chain :
           /\ report.chain[k].cause \notin Range(report.ruledOut)
           /\ report.chain[k].cause # "unknown" => Lt(<<0, 1>>, report.chain[k].conf)
           /\ ~Lt(<<95, 100>>, report.chain[k].conf)

Reading(c, e) ==
    CASE c = "thermal_throttle" -> e.is.kind \in {"gpu", "thermal"}
      [] c = "clock_reduced" -> e.is.kind = "gpu" /\ e.is.clock > 0
      [] c = "gpu_contention" -> e.is.kind = "gpu" /\ e.is.procs > 0
      [] c = "pcie_bandwidth_drop" -> e.is.kind = "pcie"
      [] c = "nvlink_degraded" -> e.is.kind = "nvlink"
      [] OTHER -> e.is.kind = "gpu"
Read(c, d) == \E e \in Range(d) : Reading(c, e)
Comparing == {"clock_reduced", "gpu_contention", "pcie_bandwidth_drop", "nvlink_degraded"}

(* A cause is neither found nor ruled out without readings to judge it by,   *)
(* and one that is a change against the baseline not without a baseline      *)
(* (engine.go:64-67, 175-177, 201-203, 289-290); ECC counters alone may be   *)
(* judged by the last sample before the window. What is found points at an   *)
(* event inside the window, the ECC rule included (engine.go:226-253).       *)
ClaimsAreBacked ==
    LET during == During(rankEvents, Lo, EndNs)
        before == Baseline(rankEvents, Lo)
    IN  /\ \A c \in Range(Causes) : Judged(c) =>
               /\ Read(c, during) \/ (c = "ecc_errors" /\ Read(c, before))
               /\ c \in Comparing => Read(c, before)
        /\ \A l \in Range(report.chain) : l.cause # "unknown" => l.ev \in Range(during)

(* A change against the baseline was really seen: some sample of the window  *)
(* is that much worse than some sample before it; medians of unlike or even  *)
(* numbers of samples make up nothing (engine.go:178-224, 291-302). And ECC  *)
(* counters that are said to have risen rose in the window: a sample of it   *)
(* counts more than an earlier one there or than the last before, whatever   *)
(* older samples counted (engine.go:226-253).                                *)
Worse(c, d, b) ==
    CASE c = "clock_reduced" -> 4 * d.is.clock < 3 * b.is.clock
      [] c = "gpu_contention" -> d.is.procs > b.is.procs
      [] OTHER -> 2 * d.is.bw < b.is.bw
RoseWithin(during, before) ==
    LET d == OfKind(during, "gpu")
        b == OfKind(before, "gpu")
        Earlier(i) == {d[j] : j \in {j \in DOMAIN d : j < i}}
                          \cup (IF Absent(b) THEN {} ELSE {Latest(b)})
    IN  \E i \in DOMAIN d : \E e \in Earlier(i) :
            d[i].is.sbe > e.is.sbe \/ d[i].is.dbe > e.is.dbe
ChangesAreReal ==
    LET during == During(rankEvents, Lo, EndNs)
        before == Baseline(rankEvents, Lo)
    IN  /\ \A c \in Comparing : Fires(c) =>
               \E d \in Range(during), b \in Range(before) :
                   Reading(c, d) /\ Reading(c, b) /\ Worse(c, d, b)
        /\ Fires("ecc_errors") => RoseWithin(during, before)

(* What happens after the anomaly changes nothing in its report: asked again *)
(* later, the live coordinator answers the same (engine.go:69-79).           *)
LaterEventsChangeNothing ==
    [][Last(rankEvents').ts > EndNs => report' = report]_vars

(* A throttle that seven of ten samples show is named before the clock drop  *)
(* it causes, however deep: a tie goes to the explicit rule                  *)
(* (engine.go:95-97, 175-177, 195-197).                                      *)
ThrottleOutranksClock ==
    \A j, k \in DOMAIN report.chain :
        /\ report.chain[j].cause = "clock_reduced"
        /\ report.chain[k].cause \in {"thermal_throttle", "power_throttle"}
        /\ ~Lt(report.chain[k].conf, <<7, 10>>)
        => k < j
=============================================================================
