SPECIFICATION FairSpec
CONSTANTS
    d1 = d1
    d2 = d2
    d3 = d3
    Dest <- MCDest
    MaxPackets = 4
PROPERTIES
    ImplementsRelay
    TeardownCompletes
    TeardownEndsGoroutines
