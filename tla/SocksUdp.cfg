SPECIFICATION FairSpec
CONSTANTS
    k1 = k1
    k2 = k2
    Key <- MCKey
    MaxSessions = 3
INVARIANTS
    OpenIsReachable
    NoDeadSession
PROPERTIES
    ImplementsRelay
    CloseCompletes
    RelaysReturn
