---------------------------- MODULE MCDashboard ----------------------------
(* Instances of Dashboard for TLC.                                          *)
EXTENDS Dashboard, TLC

CONSTANTS n1, s1, t1

MCWords == {"", "web", "a"}
MCStates == {"failed"}

\* A server that filters by default, and shows columns.
MCServed ==
    [darkMode |-> FALSE, tablesize |-> "sm", maxContentWidth |-> "fluid", showNavLabels |-> FALSE,
     showNamesButtons |-> TRUE, defaultLayout |-> "column", hiddenServiceStates |-> {"failed"},
     timeZone |-> "", locale |-> "", serviceNameFilter |-> "web", stackNameFilter |-> "",
     filterType |-> "service", showLogsButton |-> TRUE]

\* The bare URL, and the link of a node that filters by a stack.
MCLinks ==
    {Blank,
     [Blank EXCEPT !.id = "nodesDetail", !.detail = n1,
          !.keys = "serviceNameFilter" :> "" @@ "stackNameFilter" :> "a" @@ "filterType" :> "stack" @@ @]}

\* A server with a stack to filter by and nothing else, and a link to its settings.
MCServedStack == [MCServed EXCEPT !.serviceNameFilter = "", !.stackNameFilter = "a"]
MCLinksSettings == {[Blank EXCEPT !.id = "settings"]}
=============================================================================
