SPECIFICATION FairVersionSpec
CONSTANTS
    r1 = r1
    r2 = r2
    Callers <- TwoRequests
    MaxRelease = 2
    Timeout = 2
    Local = 1
INVARIANTS
    ReleaseHasDate
    UpdateIsReal
PROPERTIES
    OneCallPerTimeout
    ReleaseIsNoticed
