SPECIFICATION Spec
CONSTANTS
    s1 = s1
    s2 = s2
    None = None
    Services <- TwoServices
    MaxConns = 3
    MaxLine = 2
    Cap = 3
SYMMETRY ServiceSymmetry
INVARIANTS
    NoForeignLines
    BurstIsKept
    OneLiveConnection
    RetryIsForFollow
