--------------------------- MODULE MCAttribution ---------------------------
(* A healthy sample and samples that differ from it in a way some rule tests, *)
(* at, above and below the thresholds; before, in and after the window.       *)
EXTENDS Attribution
Healthy == [kind |-> "gpu", throttle |-> {}, clock |-> 100, procs |-> 1,
            sbe |-> 0, dbe |-> 0, util |-> 90, mem |-> 50]
MCSamples ==
    {Healthy,
     [Healthy EXCEPT !.clock = 75, !.procs = 0],
     [Healthy EXCEPT !.clock = 10, !.procs = 2, !.throttle = {"thermal"}],
     [Healthy EXCEPT !.clock = 0, !.sbe = 1, !.mem = 95, !.throttle = {"power"}],
     [Healthy EXCEPT !.clock = 60, !.sbe = 1, !.dbe = 1, !.util = 0],
     [kind |-> "pcie", bw |-> 4], [kind |-> "pcie", bw |-> 1],
     [kind |-> "nvlink", bw |-> 0],
     [kind |-> "thermal", active |-> TRUE], [kind |-> "thermal", active |-> FALSE]}
=============================================================================
