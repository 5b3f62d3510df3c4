----------------------------- MODULE MCPipeline -----------------------------
(* Every fault once, the straggler first or last and the noise at most a      *)
(* tenth of the lag, with two ranks or three; with two ranks also an agent    *)
(* that starts again, and files with an empty line and a torn one. The window *)
(* before the first flagged block takes in a sample from before the fault.    *)
EXTENDS Pipeline
Noisy == [x \in (0..(Steps - 1)) \X (0..2) |-> ((5 * x[1] + 2 * x[2]) % 7) - 3]
Of(f, straggler, noise) == [fault |-> f, straggler |-> straggler, ranks |-> 3, jitter |-> noise,
                            damage |-> "none", restarts |-> 0]
Pair(f) == [Of(f, 1, [x \in (0..(Steps - 1)) \X (0..1) |-> Noisy[x]]) EXCEPT !.ranks = 2]
MCRuns ==
    {Of(f, 2, Noisy) : f \in {"clean", "thermal", "contention_hidden"}}
    \cup {Of(f, 0, Noisy) : f \in {"power", "contention", "thermal+ecc"}}
    \cup {Pair(f) : f \in {"pcie", "nvlink", "ecc", "host_stall"}}
    \cup {[Pair(f) EXCEPT !.restarts = 1] : f \in {"clean", "thermal+ecc", "contention"}}
    \cup {[Pair("thermal") EXCEPT !.damage = "blank"], [Pair("power") EXCEPT !.damage = "torn"]}
=============================================================================
