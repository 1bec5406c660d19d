SPECIFICATION FairSpec
CONSTANTS
    MaxAttempts = 2
    MaxConns = 3
    MaxLog = 2
    MaxOut = 1
    Faults = {"drop"}
    MaxFaults = 2
PROPERTY GapRecovered
CHECK_DEADLOCK FALSE
