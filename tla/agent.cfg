CONSTANTS
    j1 = j1
    j2 = j2
    k1 = k1
    k2 = k2
    bad = bad
    NoKey = NoKey
    HostKey = HostKey
    Fragment = Fragment
    Jobs <- MCJobs
    Modes <- MCModes
    Keys <- MCKeys
    BadKeys <- MCBadKeys
    MaxOctet = 5
    MaxRuns = 2
    Faults = TRUE
SPECIFICATION FairSpec
INVARIANT TypeOK
INVARIANT RunningWasBuilt
INVARIANT FailedIsDead
INVARIANT SubnetsDistinct
INVARIANT KeyAuthorized
PROPERTY JobSettles
PROPERTY RelayComesUp
CHECK_DEADLOCK FALSE
