SPECIFICATION OutageSpec
CONSTANTS
    RTO = 1
    MaxRetries = 1
    MaxPending = 2
    InitialWindow = 2
    MaxWindow = 2
    Unit = 2
    MaxMessages = 3
    Skew = 3
    WindowFrames = 3
    Keepalive = 3
    HealthTimeout = 3
    MaxChanges = 1
INVARIANTS
    SettledInTime
    ExpiresOnlyInOutage
    HealthIsTrue
