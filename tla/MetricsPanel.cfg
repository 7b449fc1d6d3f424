SPECIFICATION FairSpec
CONSTANTS
    e1 = e1
    e2 = e2
    Absent = Absent
    None = None
    Entities <- TwoEntities
    MaxRuns = 2
    MaxRequests = 2
    MaxHides = 3
INVARIANTS
    ShowsItsOwnAnswer
    MetricsAreOfEntity
PROPERTIES
    LoadingEnds
    BarGoesAway
