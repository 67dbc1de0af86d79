CONSTANTS
    j1 = j1
    j2 = j2
    k1 = k1
    k2 = k2
    bad = bad
    NoKey = NoKey
    HostKey = HostKey
    Fragment = Fragment
    Jobs <- MCJobs
    Modes <- MCContainer
    Keys <- MCKeys
    BadKeys <- MCBadKeys
    MaxOctet = 5
    MaxRuns = 2
    Faults = FALSE
SPECIFICATION Spec
INVARIANT RelayPerVM
CHECK_DEADLOCK FALSE
