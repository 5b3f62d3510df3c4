------------------------------ MODULE Statistics ------------------------------
(* internal/correlator/detector.go, ComputeStats, which both the detection of *)
(* stragglers and the rules of attribution call. Values are a function with a *)
(* finite domain: their order does not matter. Fractions are avoided: a       *)
(* median is doubled, and so is a median of medians once more.                *)
EXTENDS Integers, FiniteSets, FiniteSetsExt, Functions

Number(v) == Cardinality(DOMAIN v)

(* The k-th smallest value, as in sorted[k - 1]. *)
Smallest(v, k) ==
    CHOOSE x \in Range(v) : /\ Cardinality({i \in DOMAIN v : v[i] < x}) < k
                            /\ Cardinality({i \in DOMAIN v : v[i] <= x}) >= k
(* Twice the median; 0 for no values. *)
Median2(v) == LET n == Number(v)
              IN  IF n = 0 THEN 0
                  ELSE Smallest(v, (n + 1) \div 2) + Smallest(v, n \div 2 + 1)

(* Four times the median distance from the median. *)
MAD4(v) == LET m == Median2(v)
           IN  Median2([i \in DOMAIN v |-> IF 2 * v[i] < m THEN m - 2 * v[i] ELSE 2 * v[i] - m])
=============================================================================
