CONSTANTS
    Samples <- MCSamples
    Lo = 1
    EndNs = 1
    MaxTime = 2
    MaxSamples = 5
SPECIFICATION Spec
INVARIANTS TypeOK ClaimsAreBacked ChangesAreReal ThrottleOutranksClock
PROPERTY LaterEventsChangeNothing
CHECK_DEADLOCK FALSE
