SPECIFICATION FairSpec
CONSTANTS
    RTO = 1
    MaxRetries = 1
    MaxPending = 4
    InitialWindow = 3
    MaxWindow = 3
    Unit = 100
    MaxMessages = 6
INVARIANTS
    Accounting
    RetryBudget
    BoundedMemory
PROPERTIES
    ImplementsChannel
    WindowGates
    EventuallySettled
