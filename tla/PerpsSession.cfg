SPECIFICATION FairSpec
CONSTANTS
    Callers = {c1, c2, c3}
    Commands = {"subscribe", "unsubscribe", "update"}
    RecvTask = recv_task
    Nobody = nobody
    Events = {"drop", "refuse", "overflow", "crash", "gap", "reap", "cancel", "stop"}
    MaxEvents = 2
INVARIANTS
    RecvExclusive
    FreshPause
    NoStrandedConsumer
PROPERTIES
    HandshakeEndsInCalm
CHECK_DEADLOCK FALSE
