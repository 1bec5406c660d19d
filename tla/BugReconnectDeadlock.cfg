SPECIFICATION FairSpec
CONSTANTS
    Subscribers = {s1, s2}
    Unsubscribers = {}
    RecvTask = recv_task
    Nobody = nobody
    Events = {"drop"}
    MaxEvents = 1
PROPERTIES
    SubscribeReturns
CHECK_DEADLOCK FALSE
