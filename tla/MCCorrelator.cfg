CONSTANTS
    r1 = r1
    r2 = r2
    k1 = k1
    k2 = k2
    Rank = {r1, r2}
    Key = {k1, k2}
    NoKey = NoKey
    Inputs <- MCInputs
    Lookbacks <- MCLookbacks
    MaxArrivals = 5
SPECIFICATION Spec
INVARIANTS TypeOK HistoryExact GroupsHoldTheLatest
CHECK_DEADLOCK FALSE
