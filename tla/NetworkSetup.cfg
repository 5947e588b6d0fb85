SPECIFICATION SetupSpec
CONSTANTS
    v1 = v1
    v2 = v2
    v3 = v3
    s1 = s1
    s2 = s2
    Value = {v1, v2, v3}
    Metric = {0, 1}
    Unset = Unset
    Absent = Absent
    Empty = Empty
    Loose = v2
    Shell = {s1, s2}
    MaxInterrupts = 2
    MaxCalls = 6
INVARIANTS
    RestoreSurvives
    OnlyLoosened
CHECK_DEADLOCK FALSE
