------------------------------ MODULE Dashboard ------------------------------
(***************************************************************************)
(* What a user does with the dashboard, as the browser keeps it: the view, *)
(* the filter and the settings live in the hash of the URL                 *)
(* (src/app-src/src/common/store/atoms), so in the history of the tab, and *)
(* are changed by the navigation bar, the names and tables of the pages,   *)
(* the filter box and the settings page (src/app-src/src/components).      *)
(*                                                                         *)
(* atomWithHash pushes an entry when the view, the base or the interval    *)
(* changes; everything else is written into the entry there is.  What is   *)
(* not in the hash is served by ui/dashboard-settings.                     *)
(*                                                                         *)
(* A click or a key is handled, rendered and followed by its effects before *)
(* the next; what startTransition wraps is rendered some time later.       *)
(***************************************************************************)
EXTENDS Naturals, Sequences

CONSTANTS
    Nodes, Services, Tasks,   \* their IDs
    Words,                    \* names, and what may be typed
    States,                   \* of a task
    Served,                   \* the defaults of the server, by key
    Links,                    \* what may be opened: hashes copied from a tab
    Unset,
    MaxOps                    \* bound: what the user, and the interval, do

Preferences ==
    {"darkMode", "tablesize", "maxContentWidth", "showNavLabels", "showNamesButtons",
     "defaultLayout", "hiddenServiceStates", "timeZone", "locale"}
Filters == {"serviceNameFilter", "stackNameFilter", "filterType"}
Replaced == Preferences \cup Filters     \* the keys of createHashAtomWithDefault


ASSUME ServedAssumption ==
    /\ Replaced \cup {"showLogsButton"} \subseteq DOMAIN Served
    /\ Served["serviceNameFilter"] \in Words /\ Served["stackNameFilter"] \in Words
    /\ Served["filterType"] \in {"service", "stack"}
    /\ "" \in Words /\ Unset \notin Words /\ Unset \notin {"service", "stack"}
    /\ MaxOps \in Nat

WithFilter == {"dashboardH", "dashboardV", "stacks", "tasks", "ports", "timeline"}
WithNode == {"dashboardH", "dashboardV", "nodes", "tasks", "servicesDetail", "tasksDetail"}
WithService == {"dashboardH", "dashboardV", "stacks", "tasks", "ports", "nodesDetail", "tasksDetail"}
WithStack == {"dashboardV", "stacks", "tasks", "ports"}
WithTask == {"dashboardH", "dashboardV", "tasks", "servicesDetail"}
Sortable == {"tasks", "ports", "nodes"}
WithoutData == {"about", "debug", "settings", "versionUpdate"}
InNavbar == {"timeline", "stacks", "nodes", "tasks", "ports", "logs", "about", "settings", "versionUpdate"}
Pages == InNavbar \cup WithFilter \cup {"nodesDetail", "servicesDetail", "tasksDetail", "debug"}

VARIABLES
    history, here,    \* the entries of the tab, and the one it is at
    shown,            \* the page on display; "none" before the first
    pending,          \* the data of the entry's page: "no", or asked for with the
                      \* page on display left ("behind") or taken away ("hidden")
    broken,           \* the error boundary stands in for everything
    box,              \* the filter box, as rendered
    versionRefresh,   \* versionRefreshAtom
    ops

rest == <<broken, versionRefresh>>
vars == <<history, here, shown, pending, box, ops, rest>>

Entry == history[here]
Value(e, key) == IF e.keys[key] = Unset THEN Served[key] ELSE e.keys[key]
Read(key) == Value(Entry, key)
Write(e, key, value) == [e EXCEPT !.keys[key] = value]

Blank ==
    [id |-> Unset, detail |-> Unset, sortBy |-> Unset, descending |-> FALSE, timestamp |-> 0,
     base |-> Unset, interval |-> Unset, keys |-> [key \in Replaced |-> Unset]]

\* dashboardSettingsDefaultLayoutViewIdAtom, and the page of an entry.
DefaultLayout(e) == IF Value(e, "defaultLayout") = "row" THEN "dashboardH" ELSE "dashboardV"
PageOf(e) == IF e.id = Unset THEN DefaultLayout(e) ELSE e.id

\* An entry that is the one there is already is not pushed.
Pushed(e) == IF e = Entry THEN history ELSE Append(SubSeq(history, 1, here), e)

Does == ~broken /\ ops < MaxOps /\ ops' = ops + 1
OnPage(pages) == Does /\ shown \in pages /\ pending # "hidden"

-----------------------------------------------------------------------------
(* The filter box.                                                         *)

Closed == [open |-> FALSE, value |-> "", type |-> "", service |-> "", stack |-> ""]

\* Mutant of Effect: the type is left as it is.
EffectOnValue(e, old) ==
    LET service == Value(e, "serviceNameFilter")
        stack == Value(e, "stackNameFilter")
        runs == ~old.open \/ old.service # service \/ old.stack # stack
    IN  [entry |-> e,
         box |-> [open |-> TRUE, type |-> Value(e, "filterType"), service |-> service, stack |-> stack,
                  value |-> IF ~runs THEN old.value ELSE IF service # "" THEN service ELSE stack]]

\* The box rendered for an entry; its effect runs when a filter has changed.
Effect(e, old) ==
    LET service == Value(e, "serviceNameFilter")
        stack == Value(e, "stackNameFilter")
        runs == ~old.open \/ old.service # service \/ old.stack # stack
        typed == IF runs /\ service # "" THEN Write(e, "filterType", "service")
                 ELSE IF runs /\ stack # "" THEN Write(e, "filterType", "stack") ELSE e
    IN  [entry |-> typed,
         box |-> [open |-> TRUE, type |-> Value(typed, "filterType"), service |-> service, stack |-> stack,
                  value |-> IF ~runs THEN old.value ELSE IF service # "" THEN service ELSE stack]]

\* Entry e is rendered with the box as it was, if there was one.
Rendered(e, old) ==
    LET done == Effect(e, old) IN
    history' = [history EXCEPT ![here'] = done.entry] /\ box' = done.box

\* Mutant of WriteFilter: the other filter stays.
WriteFilterOnly(e, type, value) ==
    IF type = "service" THEN Write(e, "serviceNameFilter", value)
    ELSE IF type = "stack" THEN Write(e, "stackNameFilter", value) ELSE e

WriteFilter(e, type, value) ==
    LET Both(service, stack) == Write(Write(e, "serviceNameFilter", service), "stackNameFilter", stack)
    IN  IF type = "service" THEN Both(value, "")
        ELSE IF type = "stack" THEN Both("", value) ELSE e

\* A key is typed or the box is cleared: the type is that of the last rendering.
changeFilterValue(value) ==
    /\ OnPage(WithFilter) /\ value # box.value
    /\ UNCHANGED <<here, shown, pending, rest>>
    /\ Rendered(WriteFilter(Entry, box.type, value), [box EXCEPT !.value = value])

changeFilterType(type) ==
    /\ OnPage(WithFilter)
    /\ UNCHANGED <<here, shown, pending, rest>>
    /\ Rendered(WriteFilter(Write(Entry, "filterType", type), type, box.value), box)

\* The filter button of a name, in a transition: the box follows in Commit.
onFilter(type, name) ==
    /\ OnPage(IF type = "service" THEN WithService ELSE WithStack)
    /\ Read("showNamesButtons") /\ name # ""
    /\ history' = [history EXCEPT ![here] = WriteFilter(Write(Entry, "filterType", type), type, name)]
    /\ UNCHANGED <<here, shown, pending, box, rest>>

Commit ==
    /\ shown \in WithFilter /\ pending # "hidden" /\ ~broken
    /\ UNCHANGED <<here, shown, pending, ops, rest>>
    /\ Rendered(Entry, box)
    /\ box' # box

-----------------------------------------------------------------------------
(* The view.                                                               *)

\* In a transition the page on display stays until the new one has its data.
SetView(e, how) ==
    /\ history' = Pushed(e)
    /\ here' = IF e = Entry THEN here ELSE here + 1
    /\ pending' = IF e = Entry \/ pending = "hidden" THEN pending ELSE how
    /\ UNCHANGED <<shown, box, rest>>

navigate(id) ==
    /\ Does /\ id \in InNavbar \cup {DefaultLayout(Entry)}
    /\ id = "logs" => Served["showLogsButton"]
    /\ SetView([Entry EXCEPT !.id = id], "behind")

\* Mutant of Open: the page changes, the ID stays.
OpenPageOnly(page, id) == SetView([Entry EXCEPT !.id = page], "behind")
Open(page, id) == SetView([Entry EXCEPT !.id = page, !.detail = id], "behind")

\* The open button of a name, or a service in the head of the dashboard.
onOpen(page, id) ==
    /\ OnPage(IF page = "nodesDetail" THEN WithNode ELSE WithService)
    /\ id \in IF page = "nodesDetail" THEN Nodes ELSE Services
    /\ Read("showNamesButtons") \/ (page = "servicesDetail" /\ shown = "dashboardH")
    /\ Open(page, id)

\* A view of its own: nothing of the one before is kept.
NewView(id, detail, timestamp) ==
    [Entry EXCEPT !.id = id, !.detail = detail, !.timestamp = timestamp, !.sortBy = Unset, !.descending = FALSE]

OpenTask(t) ==
    /\ OnPage(WithTask)
    /\ SetView(NewView("tasksDetail", t, ops'), IF shown = "dashboardH" THEN "behind" ELSE "hidden")

SwitchLayout(id) == OnPage({"dashboardH", "dashboardV"}) /\ SetView(NewView(id, Unset, 0), "hidden")

\* The logs button of a name: the rest of what it does is in LogsView.
handleShowLogs == OnPage(WithService) /\ Read("showNamesButtons") /\ SetView([Entry EXCEPT !.id = "logs"], "behind")

Debug == OnPage({"about"}) /\ SetView([Entry EXCEPT !.id = "debug"], "hidden")

\* Ascending, descending, not at all.
handleSort(column) ==
    /\ OnPage(Sortable)
    /\ LET again == Entry.sortBy = column IN
       SetView([Entry EXCEPT !.sortBy = IF again /\ Entry.descending THEN Unset ELSE column,
                             !.descending = again /\ ~Entry.descending], "hidden")

\* The view gets a new timestamp, and the version is asked for again.
reloadData(before) ==
    /\ history' = SubSeq(history, 1, here) \o before \o
                  <<[(IF before = <<>> THEN Entry ELSE before[1]) EXCEPT !.timestamp = ops']>>
    /\ here' = Len(history')
    /\ pending' = IF pending = "no" THEN "behind" ELSE pending
    /\ versionRefresh' = versionRefresh + 1
    /\ UNCHANGED <<shown, box, broken>>

Tick == Does /\ Entry.interval = "on" /\ reloadData(<<>>)

\* The button switches the interval off, an entry of its own, and reloads.
refreshAndNotifyUser ==
    Does /\ reloadData(IF Entry.interval = "on" THEN <<[Entry EXCEPT !.interval = "off"]>> ELSE <<>>)

-----------------------------------------------------------------------------
(* The settings page.                                                      *)

Set(key, value) ==
    /\ OnPage({"settings"})
    /\ history' = [history EXCEPT ![here] = Write(Entry, key, value)]
    /\ UNCHANGED <<here, shown, pending, box, rest>>

Undo(key) == Set(key, Served[key])

DarkModeRow == Set("darkMode", ~Read("darkMode")) \/ Undo("darkMode")
ShowNavLabelsRow == Set("showNavLabels", ~Read("showNavLabels")) \/ Undo("showNavLabels")
ShowNamesButtonsRow == Set("showNamesButtons", ~Read("showNamesButtons")) \/ Undo("showNamesButtons")
TableSizeRow == (\E size \in {"sm", "lg"} : Set("tablesize", size)) \/ Undo("tablesize")
CenteredLayoutRow ==
    \/ Set("maxContentWidth", IF Read("maxContentWidth") = "centered" THEN "fluid" ELSE "centered")
    \/ Undo("maxContentWidth")
DefaultLayoutRow == (\E layout \in {"row", "column"} : Set("defaultLayout", layout)) \/ Undo("defaultLayout")
HiddenServiceStatesRow ==
    \/ \E st \in States \ Read("hiddenServiceStates") :
          Set("hiddenServiceStates", Read("hiddenServiceStates") \cup {st})
    \/ \E st \in Read("hiddenServiceStates") : Set("hiddenServiceStates", Read("hiddenServiceStates") \ {st})
    \/ Undo("hiddenServiceStates")
TimeZoneRow == (\E text \in Words : Set("timeZone", text)) \/ Undo("timeZone")
LocaleRow == (\E text \in Words : Set("locale", text)) \/ Undo("locale")

\* The interval is the one row that pushes; its reset never asks the server.
RefreshIntervalRow ==
    /\ OnPage({"settings"})
    /\ \E interval \in {"off", "on"} :
          LET e == [Entry EXCEPT !.interval = interval] IN
          history' = Pushed(e) /\ here' = IF e = Entry THEN here ELSE here + 1
    /\ UNCHANGED <<shown, pending, box, rest>>

\* The base is written first, which pushes an entry when it was not there; the
\* interval and the filters keep their values.
resetDefaults ==
    /\ OnPage({"settings"})
    /\ LET based == [Entry EXCEPT !.base = "path"]
           served == [based EXCEPT !.keys = [key \in Replaced |-> IF key \in Preferences THEN Served[key] ELSE @[key]]]
           entries == Pushed(based)
       IN  /\ here' = IF based = Entry THEN here ELSE here + 1
           /\ history' = [entries EXCEPT ![here'] = served]
    /\ UNCHANGED <<shown, pending, box, rest>>

SettingsComponent ==
    \/ DarkModeRow \/ ShowNavLabelsRow \/ ShowNamesButtonsRow
    \/ TableSizeRow \/ CenteredLayoutRow \/ DefaultLayoutRow
    \/ HiddenServiceStatesRow \/ TimeZoneRow \/ LocaleRow
    \/ RefreshIntervalRow \/ resetDefaults

-----------------------------------------------------------------------------
(* The browser.                                                            *)

\* What the data of a page is asked again for.
Asks(e) == <<PageOf(e), e.id, e.detail, e.sortBy, e.descending, e.timestamp>>

\* Mutant of Go: the page stays.
GoInPlace(i) ==
    /\ i \in DOMAIN history \ {here} /\ ops < MaxOps /\ ops' = ops + 1
    /\ here' = i
    /\ UNCHANGED <<history, shown, pending, box, rest>>

\* Back and Forward: the whole hash is another one, filter and settings included.
Go(i) ==
    /\ i \in DOMAIN history \ {here} /\ ops < MaxOps /\ ops' = ops + 1
    /\ here' = i
    /\ pending' = IF Asks(history[i]) = Asks(Entry) THEN pending ELSE "hidden"
    /\ IF shown \in WithFilter /\ pending' # "hidden" /\ ~broken
       THEN Rendered(history[i], box)
       ELSE UNCHANGED <<history, box>>
    /\ UNCHANGED <<shown, rest>>

\* The data is there: the page is rendered, and its filter box with it.
Answer ==
    /\ ~broken /\ pending # "no"
    /\ shown' = PageOf(Entry) /\ pending' = "no"
    /\ UNCHANGED <<here, ops, rest>>
    /\ IF shown' \in WithFilter
       THEN Rendered(Entry, IF shown' = shown THEN box ELSE Closed)
       ELSE box' = Closed /\ UNCHANGED history

\* A request fails or has no JSON for an answer: the error boundary is outermost.
Fail ==
    /\ ~broken /\ pending # "no"
    /\ PageOf(Entry) \notin WithoutData \/ shown = "none"
    /\ broken' = TRUE /\ shown' = "none" /\ pending' = "hidden" /\ box' = Closed
    /\ UNCHANGED <<history, here, versionRefresh, ops>>

\* The Retry button loads the page again: only the hash is kept.
retry ==
    /\ broken
    /\ broken' = FALSE /\ versionRefresh' = 0
    /\ UNCHANGED <<history, here, shown, pending, box, ops>>

Init ==
    /\ \E link \in Links : history = <<link>>
    /\ here = 1 /\ shown = "none" /\ pending = "hidden" /\ broken = FALSE
    /\ box = Closed /\ versionRefresh = 0 /\ ops = 0

Next ==
    \/ \E value \in Words : changeFilterValue(value)
    \/ \E type \in {"service", "stack"} : changeFilterType(type) \/ \E name \in Words : onFilter(type, name)
    \/ Commit
    \/ \E id \in Pages : navigate(id)
    \/ \E page \in {"nodesDetail", "servicesDetail"} : \E id \in Nodes \cup Services : onOpen(page, id)
    \/ \E t \in Tasks : OpenTask(t)
    \/ \E id \in {"dashboardH", "dashboardV"} : SwitchLayout(id)
    \/ handleShowLogs \/ Debug
    \/ handleSort("Slot")
    \/ Tick \/ refreshAndNotifyUser
    \/ SettingsComponent
    \/ \E i \in DOMAIN history : Go(i)
    \/ Answer \/ Fail \/ retry

Spec == Init /\ [][Next]_vars

-----------------------------------------------------------------------------
(* Properties.                                                             *)

EntryOK(e) ==
    /\ e \in [id : Pages \cup {Unset}, detail : Nodes \cup Services \cup Tasks \cup {Unset},
              sortBy : {"Slot", Unset}, descending : BOOLEAN, timestamp : 0..MaxOps,
              base : {"path", Unset}, interval : {"off", "on", Unset}, keys : {e.keys}]
    /\ e.keys = [key \in Replaced |-> e.keys[key]]
    /\ e.keys["serviceNameFilter"] \in Words \cup {Unset}
    /\ e.keys["stackNameFilter"] \in Words \cup {Unset}
    /\ e.keys["filterType"] \in {"service", "stack", Unset}

BoxOK ==
    box \in [open : BOOLEAN, value : Words, type : {"service", "stack", ""}, service : Words, stack : Words]

TypeOK ==
    /\ history \in Seq({history[i] : i \in DOMAIN history})
    /\ \A i \in DOMAIN history : EntryOK(history[i])
    /\ here \in DOMAIN history
    /\ shown \in Pages \cup {"none"} /\ pending \in {"no", "behind", "hidden"}
    /\ broken \in BOOLEAN /\ versionRefresh \in 0..MaxOps /\ ops \in 0..MaxOps
    /\ BoxOK

\* The detail of an entry is that of its page, whatever page it was opened from
\* and however the user has come back to it: no page asks for a node by the ID
\* of a service.
DetailMatches(e) ==
    /\ e.id = "nodesDetail" => e.detail \in Nodes
    /\ e.id = "servicesDetail" => e.detail \in Services
    /\ e.id = "tasksDetail" => e.detail \in Tasks

DetailMatchesPage == \A i \in DOMAIN history : DetailMatches(history[i])

\* Once a filter is in the hash both are, and at most one of them is not empty:
\* a default of the server cannot come back beside the one the user has set.
OneFilter(e) ==
    LET service == e.keys["serviceNameFilter"]
        stack == e.keys["stackNameFilter"]
    IN  /\ (service = Unset) <=> (stack = Unset)
        /\ service # Unset => service = "" \/ stack = ""

AtMostOneFilter == \A i \in DOMAIN history : OneFilter(history[i])

ASSUME LinkAssumption == \A link \in Links : EntryOK(link) /\ DetailMatches(link) /\ OneFilter(link)

\* A box whose effect has seen the filters of the entry says what is filtered by,
\* and by which of the two: the next key typed changes that filter and no other.
BoxAgrees ==
    box.open /\ box.service = Read("serviceNameFilter") /\ box.stack = Read("stackNameFilter") =>
        /\ box.value = IF box.service # "" THEN box.service ELSE box.stack
        /\ box.service # "" => Read("filterType") = "service"
        /\ box.service = "" /\ box.stack # "" => Read("filterType") = "stack"

\* Once the data is there, the page on display is that of the URL, with its box
\* exactly if it has one: a copy of the link shows the same.
UrlIsShown ==
    pending = "no" => shown = PageOf(Entry) /\ (box.open <=> shown \in WithFilter) /\ ~broken

\* "Keep local UI state in sync when atoms change externally"
\* (FilterComponent.jsx:37), on a page whose data is there.
BoxIsInSync == pending = "no" => BoxAgrees
=============================================================================
