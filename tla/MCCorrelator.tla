---------------------------- MODULE MCCorrelator ----------------------------
(* Two ranks, two collectives, clocks that differ between the ranks, a       *)
(* second report of a collective by one rank, and two samples that belong to *)
(* no collective.                                                            *)
EXTENDS Correlator
CONSTANTS r1, r2, k1, k2
Ev(r, t, k, d) == [rank |-> r, ts |-> t, key |-> k, dur |-> d]
MCInputs == {Ev(r1, 1, k1, 5), Ev(r1, 3, k1, 6), Ev(r2, 3, k1, 5), Ev(r2, 2, k2, 4),
             Ev(r1, 5, k2, 4), Ev(r1, 3, NoKey, 0), Ev(r2, 4, NoKey, 0)}
MCLookbacks == {0, 2}
=============================================================================
