SPECIFICATION Spec
CONSTANTS
    h1 = h1
    h2 = h2
    Handler <- MCHandler
    ClientConn <- MCBuffered
    HistoryCap = 2
    Limit = 1
    MaxConns = 3
    MaxDeletes = 0
    MaxPolls = 2
INVARIANT
    LogComplete
