SPECIFICATION FairSpec
CONSTANTS
    MaxFrames = 1
INVARIANTS
    ReceiverDiesLate
    ThreadsServe
    CleanStopReportsZero
PROPERTIES
    StopEnds
    ShownConverges
CHECK_DEADLOCK FALSE
