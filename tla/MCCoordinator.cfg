CONSTANTS
    a = a
    b = b
    Stream = {a, b}
    Caller = {c1}
    MaxMessages = 2
    Malformed <- MCMalformed
    MaxEvents = 2
SPECIFICATION FairSpec
INVARIANTS TypeOK ReportIsCurrent StopIsGraceful
PROPERTIES ImplementsStreams CloseIsAnswered StopEnds
