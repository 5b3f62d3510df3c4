------------------------------ MODULE Detection ------------------------------
(* internal/correlator/correlator.go, DetectAnomalies: the groups the store   *)
(* keeps are cut into blocks, and a rank that lags its peers in enough of     *)
(* them is reported. Collectives complete one after the other, and detection  *)
(* is asked after each. Collectives are named by their positions in groups,   *)
(* which is in time order: those of a window, or of a block, are a set.       *)
(*                                                                            *)
(* Medians are doubled (module Statistics), and so is a lag or a duration     *)
(* where one meets a median of medians. z > ThresholdSigma is compared in     *)
(* squares, with 1.48 and 1.25 for madToSigma and the 1.2533 of a median's    *)
(* standard error. Names of operations, and the order of the anomalies, are   *)
(* left out.                                                                  *)
EXTENDS Statistics, SequencesExt

CONSTANTS Rank,
          Durations,      \* the collectives that may happen: each reporting
                          \* rank's duration
          Windows,        \* windows detection is asked for
          ThresholdSigma, MinRanks, BlockSize, MinHits,
          MinHitPercent,  \* MinHitFraction
          MaxCollectives  \* bound: collectives in a behaviour

ASSUME DetectionAssumption ==
    /\ IsFiniteSet(Rank)
    /\ \A d \in Durations : /\ DOMAIN d \subseteq Rank /\ DOMAIN d # {}
                            /\ d \in [DOMAIN d -> Nat]
    /\ Windows \subseteq Nat /\ MinHitPercent \in 0..100 /\ MaxCollectives \in Nat
    /\ {ThresholdSigma, MinRanks, BlockSize, MinHits} \subseteq Nat

(* The rank that arrived last waited least. *)
Lag(g, r) == Max(Range(g.dur)) - g.dur[r]

Enough(gs) == {i \in DOMAIN gs : Cardinality(DOMAIN gs[i].dur) >= MinRanks}
(* Mutant: every collective there is, whatever the window. *)
SeenAll(gs, window) == Enough(gs)
Seen(gs, window) == {i \in Enough(gs) : gs[i].ts >= gs[Len(gs)].ts - window}

(* The b-th block of the collectives S: a place is counted from the first. *)
Place(S, i) == Cardinality({j \in S : j <= i})
Block(S, b) == {i \in S : (b - 1) * BlockSize < Place(S, i) /\ Place(S, i) <= b * BlockSize}
Blocks(S) == 1..(Cardinality(S) \div BlockSize)

(* 400 times the floor of sigma: JitterFloor (0.05) times the median          *)
(* duration, over the groups outside the window too.                         *)
Floor400(gs) ==
    LET reports == {e \in Rank \X Enough(gs) : e[1] \in DOMAIN gs[e[2]].dur}
    IN  10 * Median2([e \in reports |-> gs[e[2]].dur[e[1]]])

(* perRank of a block: the lags of each rank. *)
PerRank(gs, block) ==
    [r \in Rank |-> [i \in {i \in block : r \in DOMAIN gs[i].dur} |-> Lag(gs[i], r)]]
(* Mutant: the worst lag of the block stands for it. *)
TypicalByWorst(v) == 2 * Max(Range(v))
Typical(v) == Median2(v)

(* med: the typical lags of the ranks that reported half of the block. *)
Medians(lags) ==
    [r \in {r \in Rank : Number(lags[r]) > 0 /\ Number(lags[r]) >= BlockSize \div 2} |->
        Typical(lags[r])]

(* How far r's median lag is above the median of its peers' medians, 4 times. *)
Excess4(med, r) == 2 * med[r] - Median2(Restrict(med, DOMAIN med \ {r}))

(* Mutant: the noise is estimated over all ranks, the suspect included. *)
NoisyOfAll(med, r) == DOMAIN med
(* Whose lags estimate the noise: the peers'. *)
NoisyOf(med, r) == DOMAIN med \ {r}
Pooled(lags, S) ==
    [e \in UNION {{p} \X DOMAIN lags[p] : p \in S} |-> lags[e[1]][e[2]]]

(* z > ThresholdSigma, with z the excess of a median over its standard error: *)
(* over sigma / sqrt(n).                                                      *)
Exceeds(excess, n, sigma) ==
    excess > 0 /\ 6400 * excess * excess * n > (ThresholdSigma * sigma) * (ThresholdSigma * sigma)

(* The ranks flagged for a block. *)
Flagged(lags, floor) ==
    LET med == Medians(lags)
        Sigma(r) == Max({148 * MAD4(Pooled(lags, NoisyOf(med, r))), floor})
    IN  {r \in DOMAIN med : /\ DOMAIN med # {r}
                            /\ Exceeds(Excess4(med, r), Number(lags[r]), Sigma(r))}

(* flags: the blocks each rank is flagged for. *)
Flags(gs, window) ==
    LET seen == Seen(gs, window)
        floor == Floor400(gs)
        flagged == [b \in Blocks(seen) |-> Flagged(PerRank(gs, Block(seen, b)), floor)]
    IN  [r \in Rank |-> {b \in Blocks(seen) : r \in flagged[b]}]

(* Mutant: the last block is not counted. *)
SpanExclusive(hits) == Max(hits) - Min(hits)
(* The blocks from the first flagged one to the last. *)
Span(hits) == Max(hits) - Min(hits) + 1

Persistent(hits) == /\ hits # {} /\ Cardinality(hits) >= MinHits
                    /\ 100 * Cardinality(hits) >= MinHitPercent * Span(hits)

Anomaly(gs, seen, r, hits) ==
    [rank |-> r,
     startNs |-> gs[Min(Block(seen, Min(hits)))].ts,
     endNs |-> gs[Max(Block(seen, Max(hits)))].ts,
     hits |-> Cardinality(hits) * BlockSize, groups |-> Span(hits) * BlockSize]

DetectAnomalies(gs, window) ==
    LET flags == Flags(gs, window)
    IN  IF BlockSize < 2 THEN {}
        ELSE {Anomaly(gs, Seen(gs, window), r, flags[r]) : r \in {q \in Rank : Persistent(flags[q])}}

----------------------------------------------------------------------------

VARIABLES groups, \* the collectives so far, in time order: [ts, dur]
          found   \* found[w]: the anomalies detected for window w

detectionVars == <<groups, found>>

NoCollectives == groups = <<>> /\ found = [w \in Windows |-> {}]

Collective(d) ==
    /\ Len(groups) < MaxCollectives
    /\ groups' = Append(groups, [ts |-> Len(groups) + 1, dur |-> d])
    /\ found' = [w \in Windows |-> DetectAnomalies(groups', w)]

Collectives == \E d \in Durations : Collective(d)

DetectionSpec == NoCollectives /\ [][Collectives]_detectionVars

----------------------------------------------------------------------------

Ranks(as) == {a.rank : a \in as}

(* Types; and the counts of an anomaly fit together: one per rank, no more   *)
(* flagged collectives than it spans, whole blocks of what was seen.         *)
DetectionTypeOK ==
    /\ \A i \in DOMAIN groups : groups[i].ts = i /\ groups[i].dur \in Durations
    /\ \A w \in Windows : \A a \in found[w] :
           /\ a.rank \in Rank /\ \A o \in found[w] : o.rank = a.rank => o = a
           /\ a.startNs \in 1..a.endNs /\ a.endNs <= Len(groups)
           /\ MinHits * BlockSize <= a.hits /\ a.hits <= a.groups
           /\ a.groups <= Len(groups)

(* A rank is reported for what it did in the window, and for lagging in at   *)
(* least half of its collectives in the blocks it was flagged for: neither a *)
(* few bad collectives nor a fault that left the window make a straggler     *)
(* (correlator.go:143-153, block_test.go:46-52, 77-87).                      *)
ReportedRanksReallyLag ==
    \A w \in Windows : \A a \in found[w] :
        LET mine == {i \in a.startNs..a.endNs : /\ a.rank \in DOMAIN groups[i].dur
                                               /\ Cardinality(DOMAIN groups[i].dur) >= MinRanks}
            late == {i \in mine : Lag(groups[i], a.rank) > 0}
        IN  /\ a.startNs >= Len(groups) - w
            /\ 2 * Cardinality(late) >= Cardinality(mine) - (a.groups - a.hits)

Later(gs, r) ==
    [i \in DOMAIN gs |->
        IF r \in DOMAIN gs[i].dur /\ Lag(gs[i], r) > 0 /\ gs[i].dur[r] > 3
        THEN [gs[i] EXCEPT !.dur[r] = @ - 3] ELSE gs[i]]

(* A rank that had lagged even more, wherever it lagged, would be flagged for *)
(* the same blocks at least: a straggler cannot inflate the noise it is      *)
(* judged by (correlator.go:147-149, 222-232). More blocks may be flagged;   *)
(* when they are far from the others it is not reported (150-153, 244).      *)
LaterIsNoExcuse ==
    \A w \in Windows :
        LET flags == Flags(groups, w)
        IN  \A r \in Rank : \A b \in flags[r] : b \in Flags(Later(groups, r), w)[r]

(* What correlator.go:150-153 says: hits are counted between a rank's first  *)
(* and last flagged blocks "so a fault that has ended is still reported".    *)
(* What was reported before the last collective is reported after it, as     *)
(* long as nothing leaves the window.                                        *)
EndedFaultStaysReported ==
    \A w \in Windows :
        groups # <<>> /\ w >= Len(groups) =>
            Ranks(DetectAnomalies(Front(groups), w)) \subseteq Ranks(found[w])
=============================================================================
