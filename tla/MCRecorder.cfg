CONSTANTS
    Thread = thread
    Main = main
    NoKey = nokey
    RingCap = 3
    Unreadable = {2}
    Bad = {4}
    MaxLaunched = 5
SPECIFICATION Spec
INVARIANTS TypeOK OneCopy FinalFlush
CHECK_DEADLOCK FALSE
