CONSTANTS
    Lines <- MCLines
    Existing <- MCExisting
    ChanCap = 1
    MaxRotations = 1
SPECIFICATION FairSpec
INVARIANTS TypeOK InOrderOnce ConsumedIsEmitted
PROPERTIES EveryLineEmitted StopReturns
CHECK_DEADLOCK FALSE
