SPECIFICATION Spec
CONSTANTS
    Clients = {c1, c2}
    Late = {c2}
    Leavers = {c1}
    TickerOf <- OwnTickers
    Nobody = nobody
    MaxSid = 5
    MaxVersion = 2
    StashMax = 9
    Faults = {"skip", "repeat", "redeliver", "malformed", "bad_snapshot", "reap", "reject", "timeout", "drop", "exhausted"}
    MaxFaults = 2
INVARIANTS
    TypeOK
    BookExact
    ToldOrServed
PROPERTY MirrorSpec
CONSTRAINT FewChanges
CHECK_DEADLOCK FALSE
