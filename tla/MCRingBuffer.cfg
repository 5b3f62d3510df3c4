CONSTANTS
    Event = {e1, e2}
    Thread = {recorder, reader}
    Capacity = 3
    MaxPushes = 5
    NoThread = NoThread
    Zero = Zero
SPECIFICATION FairSpec
INVARIANTS TypeOK NoZeroEventRead
PROPERTIES ImplementsBoundedLog CallsReturn
