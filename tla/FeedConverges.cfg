SPECIFICATION FairSpec
CONSTANTS
    Clients = {c1, c2}
    Late = {}
    Leavers = {}
    TickerOf <- OwnTickers
    Nobody = nobody
    MaxSid = 6
    MaxVersion = 2
    StashMax = 9
    Faults = {"repeat", "redeliver", "reset", "late_reset", "reap", "drop"}
    MaxFaults = 2
INVARIANTS
    ServerAgrees
PROPERTIES
    Converges
CHECK_DEADLOCK FALSE
