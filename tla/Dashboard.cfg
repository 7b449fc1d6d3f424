SPECIFICATION Spec
CONSTANTS
    n1 = n1
    s1 = s1
    t1 = t1
    Unset = Unset
    Nodes = {n1}
    Services = {s1}
    Tasks = {t1}
    Words <- MCWords
    States <- MCStates
    Served <- MCServed
    Links <- MCLinks
    MaxOps = 4
CHECK_DEADLOCK FALSE
INVARIANTS
    DetailMatchesPage
    AtMostOneFilter
    BoxAgrees
    UrlIsShown
