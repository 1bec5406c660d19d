SPECIFICATION FairSpec
CONSTANTS
    MaxSize = 2
    Consumers = {c1, c2}
    MaxPuts = 5
INVARIANTS
    TypeOK
    NoLostWakeup
    TerminalLast
PROPERTIES
    StreamSpec
    ClosedEnds
    EveryMessageLeaves
CHECK_DEADLOCK FALSE
