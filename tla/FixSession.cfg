SPECIFICATION FairSpec
CONSTANTS
    MaxAttempts = 2
    MaxConns = 2
    MaxLog = 3
    MaxOut = 2
    Faults = {"drop", "mute", "skip", "repeat", "refuse", "slow", "reject",
              "stall", "logout", "malformed", "raise"}
    MaxFaults = 2
INVARIANTS
    TypeOK
    WatermarkHonest
    OutboundInOrder
    NeverWedged
PROPERTIES
    DeliverySpec
    GapRecoveredOnOneConnection
    DeadPeerNoticed
    CloseCompletes
CHECK_DEADLOCK FALSE
