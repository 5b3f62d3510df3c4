CONSTANTS
    Runs <- MCRuns
    Steps = 8
    SamplePeriod = 2
    Severity = 30
    AttributionWindow = 2
    ThresholdSigma = 4
    MinRanks = 2
    BlockSize = 2
    MinHits = 2
    MinHitPercent = 50
SPECIFICATION Spec
INVARIANTS NoFalseStraggler LiveAgreesWithReplay FaultExplained
CHECK_DEADLOCK FALSE
