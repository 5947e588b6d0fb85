SPECIFICATION Spec
CONSTANTS
    Unspecified = 0
    Multicast = {}
    None = None
    Candidates <- MCCandidates
    Bindable <- MCBindable
    Observed <- MCObserved
    Files <- MCFiles
    Sizes = {256, 1391}
    Totals = {3, 5}
    MaxProbes = 6
    MaxRounds = 1
    MaxEdits = 1
INVARIANTS
    ConfigStillLoads
    ChosenDelivers
    BackupIsPrevious
    AcceptedCarries
CHECK_DEADLOCK FALSE
