SPECIFICATION OutageSpec
CONSTANTS
    RTO = 1
    MaxRetries = 0
    MaxPending = 3
    InitialWindow = 1
    MaxWindow = 1
    Unit = 2
    MaxMessages = 4
    Skew = 1
    WindowFrames = 8
    Keepalive = 5
    HealthTimeout = 5
    MaxChanges = 1
INVARIANTS
    ExpiresOnlyInOutage
