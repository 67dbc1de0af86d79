CONSTANTS
    a = a
    j1 = j1
    NoId = NoId
    Ids <- MCIds
    Jobs <- MCJobs
    Reports <- MCReports
    Needs <- MCNeeds
    HeartbeatPeriod = 2
    SweepPeriod = 4
    OfflineAfter = 6
    Delay = 1
    AgeCap = 12
    MaxFailures = 2
SPECIFICATION PlacementSpec
INVARIANT TypeOK
INVARIANT PlacementTypes
INVARIANT StaleBounded
INVARIANT LiveStaysOnline
INVARIANT PlacedWasHeard
PROPERTY PlacedLately
PROPERTY EndedGoesOffline
PROPERTY JoinedBecomesEligible
