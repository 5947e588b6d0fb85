SPECIFICATION Spec
CONSTANTS
    Split = {m1, m2, m3}
    Single = {m4, m5}
    Message <- Messages
    Need <- FragmentCount
    Timeout = 1
    TTL = 2
    MaxMessages = 2
    MaxTime = 3
SYMMETRY KindSymmetry
INVARIANTS
    DeliveredOnce
    TablesBounded
PROPERTIES
    ForgetsOnlyWhenFull
    DropsAreJustified
