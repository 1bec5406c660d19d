SPECIFICATION FairSpec
CONSTANTS
    Subscribers = {s1, s2}
    Unsubscribers = {u1}
    RecvTask = recv_task
    Nobody = nobody
    Events = {"cancel", "overflow", "drop", "stop", "stop_event"}
    MaxEvents = 3
INVARIANT NoZombie
CHECK_DEADLOCK FALSE
