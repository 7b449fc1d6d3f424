SPECIFICATION FairSpec
CONSTANTS
    n1 = n1
    n2 = n2
    a1 = a1
    a2 = a2
    a3 = a3
    t1 = t1
    t2 = t2
    t3 = t3
    Nodes <- TwoNodes
    Agents <- ThreeAgents
    On <- AgentsOn
    Addressed <- WithAddress
    Tasks <- ThreeTasks
    Place <- Placed
    MaxFaults = 2
    None = None
INVARIANTS
    PartialFailureIsTolerated
    StillSwarmIsExact
    TaskIsItsOwn
PROPERTY
    RequestIsAnswered
