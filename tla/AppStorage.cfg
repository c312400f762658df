SPECIFICATION Spec
CONSTANTS
    MaxSaves = 3
    MaxQueue = 2
    MaxFaults = 5
PROPERTY Refines
CHECK_DEADLOCK FALSE
