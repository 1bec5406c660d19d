SPECIFICATION FairSpec
CONSTANTS
    Subscribers = {s1, s2, s3}
    Unsubscribers = {}
    RecvTask = recv_task
    Nobody = nobody
    Events = {"drop", "refuse", "overflow", "crash", "gap", "stop", "stop_event"}
    MaxEvents = 3
INVARIANTS
    TypeOK
    RecvExclusive
    NoStrandedConsumer
PROPERTIES
    QuietReconnect
    StopCompletes
    HandshakeEndsInCalm
CHECK_DEADLOCK FALSE
