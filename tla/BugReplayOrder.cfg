SPECIFICATION Spec
CONSTANTS
    Clients = {c1, c2, c3}
    Late = {}
    Leavers = {}
    TickerOf <- OwnTickers
    Nobody = nobody
    MaxSid = 4
    MaxVersion = 2
    StashMax = 9
    Faults = {"drop", "skip"}
    MaxFaults = 2
INVARIANT BookPresent
CONSTRAINT FewChanges
CHECK_DEADLOCK FALSE
