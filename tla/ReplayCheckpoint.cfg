SPECIFICATION FairSpec
CONSTANTS
    NoSession = NoSession
    Session = {s1, s2}
    SeqNo = {0, 1, 2}
    Size = 2
    BatchFrames = 2
    MaxAccepts = 2
    MaxEpochs = 1
INVARIANTS
    RejectsHistory
    FreshFramesPass
    LagIsExact
    CleanShutdownKeepsAll
    NoLostWakeup
    CommittedNeverReplayed
PROPERTIES
    CheckpointNeverRegresses
    EventuallyPersisted
CHECK_DEADLOCK FALSE
