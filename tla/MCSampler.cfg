CONSTANTS
    Samples = {}
    Hardware <- MCHardware
    Failures <- MCFailures
    Lo = 2
    EndNs = 3
    MaxTime = 4
    MaxSamples = 0
SPECIFICATION SampledSpec
INVARIANT NeverFiresOnAbsentData
CHECK_DEADLOCK FALSE
