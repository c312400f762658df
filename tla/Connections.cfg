SPECIFICATION FairSpec
CONSTANTS
    h1 = h1
    h2 = h2
    Handler <- MCHandler
    ClientConn <- MCClientConn
    HistoryCap = 2
    Limit = 1
    MaxConns = 3
    MaxDeletes = 1
    MaxPolls = 2
INVARIANTS
    RegistryExact
    NoTruncation
PROPERTIES
    LostOnlyToLimit
    HalfOpenSurvives
    DeleteInterrupts
    FailureReleases
