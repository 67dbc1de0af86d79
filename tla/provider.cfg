CONSTANTS
    Absent = Absent
    Empty = Empty
    MaxKeys = 4
    MaxCalls = 3
    MaxRuns = 2
SPECIFICATION Spec
INVARIANT TypeOK
INVARIANT KeyForLife
INVARIANT HalvesMatch
INVARIANT FewKeys
INVARIANT SetupComplete
CHECK_DEADLOCK FALSE
