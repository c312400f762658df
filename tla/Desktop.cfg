SPECIFICATION Spec
CONSTANTS
    Procs <- MCProcs
    MaxAttempts = 1
    MaxEvents = 2
INVARIANTS
    TypeOK
    UserProxyKept
    NoOrphanCore
    ConfigRemoved
CHECK_DEADLOCK FALSE
PROPERTY ActivationReturns
