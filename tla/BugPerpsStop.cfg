SPECIFICATION FairSpec
CONSTANTS
    Callers = {c1, c2}
    Commands = {"subscribe", "unsubscribe", "update"}
    RecvTask = recv_task
    Nobody = nobody
    Events = {"stop"}
    MaxEvents = 1
PROPERTIES
    StopReleasesResume
CHECK_DEADLOCK FALSE
