CONSTANTS
    MaxCollectors = 2
    Emits <- MCEmits
    Live = {2}
    MayFail = {2}
    Cap <- MCCap
    Links = {"up", "down"}
    MaxFaults = 1
SPECIFICATION FairSpec
INVARIANTS TypeOK CollectorOrder NothingLostWhileUp NilMeansDelivered NothingLeftBehind
PROPERTIES ImplementsStream CancelStopsRun ReplayEnds
