SPECIFICATION Spec
CONSTANTS
    s1 = s1
    s2 = s2
    s3 = s3
    n1 = n1
    n2 = n2
    t1 = t1
    t2 = t2
    t3 = t3
    t4 = t4
    NoNode = NoNode
    Services <- MCServices
    Nodes <- MCNodes
    Tasks <- MCTasks
    ServiceOf <- MCServiceOf
    NodeOf <- MCNodeOf
    Name <- MCName
    ShortName <- MCShortName
    Stack <- MCStack
    Ports <- MCPorts
    States <- MCStates
    Rank <- MCRank
    Columns <- MCColumns
    Value <- MCValue
    Includes <- MCIncludes
    IncludesLoosely <- MCIncludesLoosely
    UserChoices <- MCUserChoices
    MaxChanges = 2
INVARIANT HiddenStatesAreHidden
