CONSTANTS
    p1 = p1
    p2 = p2
    s1 = s1
    s2 = s2
    NoProvider = NoProvider
    Providers <- MCProviders
    Slots <- MCSlots
    MaxJobs = 2
    ProviderRows <- MCRows
    Requests <- MCRequests
    Faults = TRUE
    MaxResent = 1
SYMMETRY Symmetry
SPECIFICATION Spec
INVARIANT TypeOK
INVARIANT ExclusiveHandoff
INVARIANT HandoffToOwner
INVARIANT WakeupsConserved
INVARIANT WokenFindsJob
PROPERTY NoRegress
PROPERTY ImplementsLifecycle
CHECK_DEADLOCK FALSE
