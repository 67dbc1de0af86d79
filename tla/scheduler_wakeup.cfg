CONSTANTS
    p1 = p1
    p2 = p2
    s1 = s1
    s2 = s2
    NoProvider = NoProvider
    Providers <- MCOneProvider
    Slots <- MCSlots
    MaxJobs = 2
    ProviderRows <- MCRows
    Requests <- MCRequests
    Faults = FALSE
    MaxResent = 0
SPECIFICATION Spec
INVARIANT AcceptedHasWakeup
CHECK_DEADLOCK FALSE
