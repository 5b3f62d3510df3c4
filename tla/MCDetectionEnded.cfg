CONSTANTS
    r1 = r1
    r2 = r2
    r3 = r3
    Rank = {r1, r2, r3}
    Durations <- MCTwoKinds
    Windows = {99}
    ThresholdSigma = 4
    MinRanks = 2
    BlockSize = 2
    MinHits = 2
    MinHitPercent = 50
    MaxCollectives = 14
SPECIFICATION DetectionSpec
INVARIANT EndedFaultStaysReported
CHECK_DEADLOCK FALSE
