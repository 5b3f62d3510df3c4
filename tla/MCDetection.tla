---------------------------- MODULE MCDetection ----------------------------
(* Three ranks that keep pace, in no time at all; one that lags (its peers    *)
(* wait for it); collectives of which a report is missing, with a large lag   *)
(* and one in the noise; and a single report.                                 *)
EXTENDS Detection
CONSTANTS r1, r2, r3
Took(a, b, c) == r1 :> a @@ r2 :> b @@ r3 :> c
Healthy == Took(10, 10, 10)
R3Late == Took(14, 14, 10)
MCDurations == {Took(0, 0, 0), R3Late, r1 :> 14 @@ r3 :> 10, r1 :> 11 @@ r3 :> 10, r2 :> 10}
MCTwoKinds == {Healthy, R3Late}
=============================================================================
