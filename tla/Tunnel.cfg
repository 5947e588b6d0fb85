SPECIFICATION Spec
CONSTANTS
    Size = 4
    Session = {1, 2, 3}
    NoSession = 0
    MaxRetries = 1
    MaxPending = 1
    Scenarios <- Deliveries
INVARIANTS
    DuplicateNeedsCrash
    AckMeansReassembled
CHECK_DEADLOCK FALSE
