CONSTANTS
    r1 = r1
    r2 = r2
    r3 = r3
    Rank = {r1, r2, r3}
    Durations <- MCDurations
    Windows = {5}
    ThresholdSigma = 4
    MinRanks = 2
    BlockSize = 3
    MinHits = 2
    MinHitPercent = 50
    MaxCollectives = 7
SPECIFICATION DetectionSpec
INVARIANTS DetectionTypeOK ReportedRanksReallyLag LaterIsNoExcuse
CHECK_DEADLOCK FALSE
