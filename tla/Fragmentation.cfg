SPECIFICATION FragSpec
CONSTANTS
    FragmentSize = 2
    MaxMessageSize = 6
    MaxFragments = 3
    MaxLen = 7
INVARIANTS
    DeliversTheOriginal
    DeliversWhenPossible
    HonestIsNeverRefused
CHECK_DEADLOCK FALSE
