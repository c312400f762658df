SPECIFICATION Spec
CONSTANTS
    s1 = s1
    s2 = s2
    Sets <- MCSets
    Optional <- MCOptional
    Slots = 1
    Sources = 2
    MaxStores = 2
    Listeners = 2
    MaxRuns = 2
    MaxFaults = 2
INVARIANTS TypeOK NotHalfConnected FailureHasCause DnsCacheSaved
PROPERTY Returns
CHECK_DEADLOCK FALSE
