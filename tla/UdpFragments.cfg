SPECIFICATION Spec
CONSTANTS
    IdSpace = 2
    MaxFragments = 3
    MaxBuffer = 2
    MaxWrites = 3
    MaxCopies = 1
INVARIANTS
    Intact
    NoReplay
    CompleteIsDelivered
CHECK_DEADLOCK FALSE
