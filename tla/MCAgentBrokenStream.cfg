CONSTANTS
    MaxCollectors = 1
    Emits <- MCEmits
    Live = {1}
    MayFail = {}
    Cap <- MCCap
    Links = {"up"}
    MaxFaults = 1
SPECIFICATION FairSpec
PROPERTIES RingBufferIsTheRecord
