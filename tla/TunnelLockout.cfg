SPECIFICATION Spec
CONSTANTS
    Size = 2
    Session = {1, 2, 3}
    NoSession = 0
    MaxRetries = 1
    MaxPending = 2
    Scenarios <- PlainRestart
INVARIANTS
    LiveSessionNotRetired
CHECK_DEADLOCK FALSE
