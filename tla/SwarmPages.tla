----------------------------- MODULE SwarmPages -----------------------------
(***************************************************************************)
(* The pages of the dashboard, from the swarm to the rows on display.  A   *)
(* handler of the server (src/server-src/dashboard_h_handler.go and its    *)
(* siblings) lists services, nodes and tasks in calls of their own, while  *)
(* the swarm goes on changing, and joins what it has got; a component of   *)
(* the browser (src/app-src/src/components) filters, sorts and shows it.   *)
(*                                                                         *)
(* What the user has set, the filters, hidden states and sort columns, is  *)
(* a parameter f of the components: see Dashboard for how it is set.       *)
(***************************************************************************)
EXTENDS Integers, Sequences, FiniteSets, SequencesExt

CONSTANTS
    Services, Nodes, Tasks,
    ServiceOf, NodeOf,     \* of each task; NoNode until it is assigned
    NoNode,
    Name, ShortName,       \* of each service; the short one without its stack
    Stack,                 \* of each service; "" without one
    Ports,                 \* the published ports, as <<service, port>>
    States,                \* of a task
    Rank,                  \* the order of names and times, by entity
    Columns, Value,        \* the columns of the task table, and Value[column][task]
    Includes,              \* <<filter, name>>: the name contains the filter
    IncludesLoosely,       \* the same without case, "-" and "_"
    UserChoices,           \* what users may have set
    MaxChanges             \* bound: changes of the swarm

ASSUME PagesAssumption ==
    /\ ServiceOf \in [Tasks -> Services] /\ NodeOf \in [Tasks -> Nodes \cup {NoNode}]
    /\ Includes \subseteq IncludesLoosely /\ MaxChanges \in Nat
    /\ \E st \in States : \A other \in States : Rank[st] <= Rank[other]

\* An ID is that of one entity; a service has a name, and a port is a service's.
ASSUME EntitiesAssumption ==
    /\ Services \cap Nodes = {} /\ Services \cap Tasks = {} /\ Nodes \cap Tasks = {}
    /\ NoNode \notin Services \cup Nodes \cup Tasks
    /\ \A s \in Services : Name[s] # ""
    /\ \A p \in Ports : p[1] \in Services

\* No two rows have the same place: equal names stay as Docker has listed them.
ASSUME RankAssumption ==
    /\ \A set \in {Services, Nodes, Tasks} :
          /\ IsFiniteSet(set)
          /\ \A x, y \in set : Rank[x] \in Int /\ (Rank[x] = Rank[y] => x = y)
    /\ \A column \in Columns, t \in Tasks : Value[column][t] \in Int

VARIABLES
    services, nodes, tasks,   \* the swarm
    state,                    \* of each task
    removed,                  \* what has left the swarm, and never comes back
    changes,
    page, subject,            \* the page asked for, and the ID a detail is about
    phase,
    todo,                     \* the lists its handler has still to ask for
    got,                      \* the lists it has got
    joined,                   \* of a detail: what its tasks have been joined with so far
    kept,                     \* ghost: what has been there unchanged since the request
    seen                      \* ghost: what has been there at some time since

swarm == <<services, nodes, tasks, state, removed, changes>>
request == <<page, subject, phase, todo, got, joined, kept, seen>>
vars == <<swarm, request>>

Entities == Services \cup Nodes \cup Tasks
Present == services \cup nodes \cup tasks
WithState(set) == {<<t, state[t]>> : t \in set}

-----------------------------------------------------------------------------
(* The swarm.                                                              *)

\* A change is noted for the request in progress, if there is one.
Changed(left, come) ==
    /\ changes < MaxChanges /\ changes' = changes + 1
    /\ removed' = removed \cup left
    /\ IF phase = "reading"
       THEN /\ kept' = kept \ (left \cup come)
            /\ seen' = seen \cup come \cup {<<t, state'[t]>> : t \in come \cap Tasks}
       ELSE UNCHANGED <<kept, seen>>
    /\ UNCHANGED <<page, subject, phase, todo, got, joined>>

\* A service is there before its tasks, and takes them with it.
CreateService(s) ==
    /\ s \notin services \cup removed
    /\ services' = services \cup {s}
    /\ UNCHANGED <<nodes, tasks, state>>
    /\ Changed({}, {s})

RemoveService(s) ==
    /\ s \in services
    /\ services' = services \ {s}
    /\ tasks' = {t \in tasks : ServiceOf[t] # s}
    /\ UNCHANGED <<nodes, state>>
    /\ Changed({s} \cup (tasks \ tasks'), {})

StartTask(t) ==
    /\ t \notin tasks \cup removed /\ ServiceOf[t] \in services /\ NodeOf[t] \in nodes \cup {NoNode}
    /\ tasks' = tasks \cup {t}
    /\ UNCHANGED <<services, nodes, state>>
    /\ Changed({}, {t})

TaskEnters(t, st) ==
    /\ t \in tasks /\ st # state[t]
    /\ state' = [state EXCEPT ![t] = st]
    /\ UNCHANGED <<services, nodes, tasks>>
    /\ Changed({}, {t})

\* The tasks of a node that is removed stay in the list for a while.
RemoveNode(n) ==
    /\ n \in nodes
    /\ nodes' = nodes \ {n}
    /\ UNCHANGED <<services, tasks, state>>
    /\ Changed({n}, {})

Changes ==
    \/ \E s \in Services : CreateService(s) \/ RemoveService(s)
    \/ \E t \in Tasks : StartTask(t) \/ \E st \in States : TaskEnters(t, st)
    \/ \E n \in Nodes : RemoveNode(n)

-----------------------------------------------------------------------------
(* The handlers.                                                           *)

\* The lists each handler asks for, in order; a detail starts with its subject.
Lists ==
    [dashboardH    |-> <<"services", "nodes", "tasks">>,
     dashboardV    |-> <<"nodes", "services", "tasks">>,
     stacks        |-> <<"services">>,
     ports         |-> <<"services">>,
     nodes         |-> <<"nodes">>,
     tasks         |-> <<"tasks", "services", "nodes">>,
     timeline      |-> <<"tasks", "services">>,
     nodeDetail    |-> <<"nodes", "tasks">>,
     serviceDetail |-> <<"services", "tasks">>]

Pages == DOMAIN Lists
Details == {"nodeDetail", "serviceDetail"}
Subjects(p) == CASE p = "nodeDetail" -> Nodes [] p = "serviceDetail" -> Services [] OTHER -> {NoNode}

Nothing == [services |-> {}, nodes |-> {}, tasks |-> {}, states |-> {}]

\* A page is opened, or asked for again: the link of a detail may be old.
Ask(p, x) ==
    /\ phase # "reading" /\ x \in Subjects(p)
    /\ page' = p /\ subject' = x
    /\ phase' = "reading" /\ todo' = Lists[p]
    /\ got' = Nothing /\ joined' = {}
    /\ kept' = Present /\ seen' = Present \cup WithState(tasks)
    /\ UNCHANGED swarm

\* TaskList with the filter of a detail, and the other lists whole or by ID.
Listed(list) ==
    CASE list = "tasks" /\ page = "nodeDetail"       -> {t \in tasks : NodeOf[t] = subject}
      [] list = "tasks" /\ page = "serviceDetail"    -> {t \in tasks : ServiceOf[t] = subject}
      [] list = "tasks" /\ page \notin {"nodeDetail", "serviceDetail"} -> tasks
      [] list = "services" /\ page = "serviceDetail" -> services \cap {subject}
      [] list = "services" /\ page # "serviceDetail" -> services
      [] list = "nodes" /\ page = "nodeDetail"       -> nodes \cap {subject}
      [] list = "nodes" /\ page # "nodeDetail"       -> nodes

\* Mutant of Subject: the detail is not left when its subject is not found.
SubjectIsThere(list) == TRUE
Subject(list) == list = "tasks" \/ Listed(list) # {}

\* One call of the Docker API.  A detail without its subject answers {} at once.
Read ==
    /\ phase = "reading" /\ todo # <<>>
    /\ LET list == Head(todo) IN
       /\ got' = [got EXCEPT ![list] = Listed(list),
                             !.states = IF list = "tasks" THEN WithState(Listed(list)) ELSE @]
       /\ todo' = IF page \in Details /\ ~Subject(list) THEN <<>> ELSE Tail(todo)
       /\ phase' = IF todo' = <<>> /\ (page \notin Details \/ got'.tasks = {}) THEN "answered" ELSE phase
    /\ UNCHANGED <<swarm, page, subject, joined, kept, seen>>

\* Mutant of Found: the service is looked up by its name in the stack.
FoundByName(t) ==
    IF page = "nodeDetail" THEN {s \in services : ShortName[s] = ShortName[ServiceOf[t]]}
    ELSE IF NodeOf[t] = NoNode THEN nodes
    ELSE nodes \cap {NodeOf[t]}

\* What the service's ID, or the node's, of a task finds.  That of a node the
\* task has not got yet is "", with which the ID of every node begins.
Found(t) ==
    IF page = "nodeDetail" THEN services \cap {ServiceOf[t]}
    ELSE IF NodeOf[t] = NoNode THEN nodes
    ELSE nodes \cap {NodeOf[t]}

\* A detail looks up the service or the node of each of its tasks by a call of
\* its own, and attaches the first it gets.  The error of the call is ignored:
\* it leaves the row as blank as a partner that is gone.
Enrich(t) ==
    /\ phase = "reading" /\ todo = <<>> /\ page \in Details
    /\ t \in got.tasks /\ \A j \in joined : j.task # t
    /\ \E x \in Found(t) \cup {NoNode}, failed \in BOOLEAN :
          /\ x = NoNode <=> failed \/ Found(t) = {}
          /\ joined' = joined \cup {[task |-> t, with |-> x, failed |-> failed]}
    /\ phase' = IF \A u \in got.tasks : \E j \in joined' : j.task = u THEN "answered" ELSE phase
    /\ UNCHANGED <<swarm, page, subject, todo, got, kept, seen>>

\* A list cannot be had: status 500 and no JSON, which takes the whole page down;
\* a detail answers without tasks instead.
Refuse ==
    /\ phase = "reading" /\ todo # <<>>
    /\ todo' = <<>>
    /\ phase' = IF page \in Details /\ Head(todo) = "tasks" THEN "answered" ELSE "error"
    /\ UNCHANGED <<swarm, page, subject, got, joined, kept, seen>>

Init ==
    /\ services \in SUBSET Services /\ nodes = Nodes
    /\ tasks = {t \in Tasks : ServiceOf[t] \in services}
    /\ state = [t \in Tasks |-> CHOOSE st \in States : \A other \in States : Rank[st] <= Rank[other]]
    /\ removed = {} /\ changes = 0
    /\ page = "dashboardH" /\ subject = NoNode
    /\ phase = "closed" /\ todo = <<>>
    /\ got = Nothing /\ joined = {} /\ kept = {} /\ seen = {}

Next ==
    \/ Changes
    \/ \E p \in Pages : \E x \in Subjects(p) : Ask(p, x)
    \/ Read
    \/ \E t \in Tasks : Enrich(t)
    \/ Refuse

Spec == Init /\ [][Next]_vars

-----------------------------------------------------------------------------
(* What the components share.                                              *)

Matches(filter, name) == filter = "" \/ <<filter, name>> \in Includes
MatchesLoosely(filter, name) == filter = "" \/ <<filter, name>> \in IncludesLoosely

\* Mutant of serviceFilter: one filter set is enough.
serviceFilterEither(s, f) ==
    \/ f.service = "" /\ f.stack = ""
    \/ f.service # "" /\ Matches(f.service, Name[s])
    \/ f.stack # "" /\ Matches(f.stack, Stack[s])

serviceFilter(s, f) == Matches(f.service, Name[s]) /\ Matches(f.stack, Stack[s])

\* ServiceStatusBadge: the states of the property count if there are any.
Hides(st, hiddenStates, f) == st \in IF hiddenStates # {} THEN hiddenStates ELSE f.hidden

\* The members of a set as a strict total order has them.
Sorted(set, order) ==
    [i \in 1..Cardinality(set) |->
        CHOOSE x \in set : Cardinality({y \in set : <<y, x>> \in order}) = i - 1]

\* sort() of JavaScript keeps the order of rows that compare as equal.
Compare(row, key, desc) ==
    {pair \in (DOMAIN row) \X (DOMAIN row) :
        LET i == pair[1]
            j == pair[2]
        IN  \/ IF desc THEN key[row[i]] > key[row[j]] ELSE key[row[i]] < key[row[j]]
            \/ key[row[i]] = key[row[j]] /\ i < j}

\* Mutant of sortData: ascending, then turned round.
sortDataTurned(row, sortBy, desc) ==
    IF sortBy \notin Columns THEN row
    ELSE LET up == Sorted(DOMAIN row, Compare(row, Value[sortBy], FALSE))
             sorted == [i \in DOMAIN row |-> row[up[i]]]
         IN  IF desc THEN Reverse(sorted) ELSE sorted

\* Rows without the column compare as equal.
sortData(row, sortBy, desc) ==
    IF sortBy \notin Columns THEN row
    ELSE LET order == Sorted(DOMAIN row, Compare(row, Value[sortBy], desc))
         IN  [i \in DOMAIN row |-> row[order[i]]]

InOrder(set) == Sorted(set, {pair \in set \X set : Rank[pair[1]] < Rank[pair[2]]})

-----------------------------------------------------------------------------
(* The components, of the answer and of what the user has set.             *)

StateOf(t) == (CHOOSE entry \in got.states : entry[1] = t)[2]

DashboardColumns(f) == InOrder({s \in got.services : serviceFilter(s, f)})
HeaderRow(r, f) == {i \in DOMAIN DashboardColumns(f) : (i - 1) % 3 = r}

Cell(n, s) == {t \in got.tasks : NodeOf[t] = n /\ ServiceOf[t] = s}

DashboardComponent(n, s, f) ==
    IF n \in got.nodes /\ \E i \in DOMAIN DashboardColumns(f) : DashboardColumns(f)[i] = s
    THEN {t \in Cell(n, s) : ~Hides(StateOf(t), f.hidden, f)}
    ELSE {}

VerticalRows(f) == {s \in got.services : serviceFilter(s, f)}

\* The vertical layout passes the states of the server's settings.
DashboardVerticalComponent(n, s, f) ==
    IF n \in got.nodes /\ s \in VerticalRows(f)
    THEN {t \in Cell(n, s) : ~Hides(StateOf(t), f.settings, f)}
    ELSE {}

\* Services of no stack are a stack of their own on this page.
StackLabel(s) == IF Stack[s] = "" THEN "(without stack)" ELSE Stack[s]

StacksComponent(f) ==
    {s \in got.services :
        /\ Matches(f.stack, StackLabel(s))
        /\ MatchesLoosely(f.service, ShortName[s]) \/ MatchesLoosely(f.service, Name[s])}

PortsComponent(f) ==
    {p \in Ports : p[1] \in got.services /\ serviceFilter(p[1], f)}

\* The join of tasksHandler and timelineHandler: no name for a service not listed.
ServiceName(t) == IF ServiceOf[t] \in got.services THEN Name[ServiceOf[t]] ELSE ""
StackName(t) == IF ServiceOf[t] \in got.services THEN Stack[ServiceOf[t]] ELSE ""

TaskRows(f) ==
    InOrder({t \in got.tasks : Matches(f.service, ServiceName(t)) /\ Matches(f.stack, StackName(t))})

TasksComponent(f, sortBy, desc) == sortData(TaskRows(f), sortBy, desc)

TimelineComponent(f) ==
    {t \in got.tasks :
        /\ Matches(f.service, ServiceName(t)) /\ Matches(f.stack, StackName(t))
        /\ ServiceName(t) # ""}

NodesComponent == InOrder(got.nodes)

\* A node that is gone is {}, which DetailsNodeComponent shows as a node.
DetailsNodeComponent == IF got.nodes = {} THEN "blank" ELSE "node"

\* The name of the service, or of the node, is left blank when there is none.
NodeTasksTab == {[task |-> j.task, service |-> j.with] : j \in joined}
ServiceTasksTab == {[task |-> j.task, node |-> j.with] : j \in joined}

-----------------------------------------------------------------------------
(* Properties.                                                             *)

TypeOK ==
    /\ services \subseteq Services /\ nodes \subseteq Nodes /\ tasks \subseteq Tasks
    /\ state \in [Tasks -> States] /\ removed \subseteq Entities /\ changes \in 0..MaxChanges
    /\ page \in Pages /\ subject \in Subjects(page)
    /\ phase \in {"closed", "reading", "answered", "error"}
    /\ todo \in UNION {{SubSeq(Lists[p], i, Len(Lists[p])) : i \in 1..4} : p \in Pages}
    /\ got.services \subseteq Services /\ got.nodes \subseteq Nodes /\ got.tasks \subseteq Tasks
    /\ joined \subseteq [task : got.tasks, with : Services \cup Nodes \cup {NoNode}, failed : BOOLEAN]
    /\ kept \subseteq Entities

Wanted(s, f) == serviceFilter(s, f)
Names(s) == {Name[s], ShortName[s]}

\* A task of a node and a service that were there all the time.
Settled(t) == t \in kept /\ ServiceOf[t] \in kept /\ NodeOf[t] \in kept

\* What is on a page for the user's choice f, of what was there all the time.
Explained(f) ==
    CASE page = "dashboardH" ->
            /\ \A s \in kept \cap Services :
                  (\E i \in DOMAIN DashboardColumns(f) : DashboardColumns(f)[i] = s) <=> Wanted(s, f)
            /\ \A i \in DOMAIN DashboardColumns(f) : Cardinality({r \in 0..2 : i \in HeaderRow(r, f)}) = 1
            /\ \A t \in Tasks : Settled(t) /\ Wanted(ServiceOf[t], f) =>
                  (t \in DashboardComponent(NodeOf[t], ServiceOf[t], f) <=> StateOf(t) \notin f.hidden)
      [] page = "dashboardV" ->
            /\ \A s \in kept \cap Services : s \in VerticalRows(f) <=> Wanted(s, f)
            /\ f.settings \in {{}, f.hidden} =>
                  \A t \in Tasks : Settled(t) /\ Wanted(ServiceOf[t], f) =>
                      (t \in DashboardVerticalComponent(NodeOf[t], ServiceOf[t], f) <=> StateOf(t) \notin f.hidden)
      [] page = "stacks" ->
            \A s \in kept \cap Services :
                /\ Stack[s] # "" /\ Wanted(s, f) => s \in StacksComponent(f)
                /\ s \in StacksComponent(f) =>
                      /\ Matches(f.stack, Stack[s]) \/ Stack[s] = ""
                      /\ \E name \in Names(s) : MatchesLoosely(f.service, name)
      [] page = "ports" ->
            \A p \in Ports : p[1] \in kept => (p \in PortsComponent(f) <=> Wanted(p[1], f))
      [] page = "tasks" ->
            \A t \in Tasks : {t, ServiceOf[t]} \subseteq kept =>
                ((\E i \in DOMAIN TaskRows(f) : TaskRows(f)[i] = t) <=> Wanted(ServiceOf[t], f))
      [] page = "timeline" ->
            \A t \in Tasks : {t, ServiceOf[t]} \subseteq kept =>
                (t \in TimelineComponent(f) <=> Wanted(ServiceOf[t], f))
      [] page = "nodes" -> \A n \in kept \cap Nodes : \E i \in DOMAIN NodesComponent : NodesComponent[i] = n
      [] OTHER -> TRUE

\* Whatever changes while a page is being put together, what stays in the swarm
\* is on it exactly when the user's filters and hidden states let it through, by
\* the same rule on every page; the stacks page alone matches more loosely.
RowsAreExplained == phase = "answered" => \A f \in UserChoices : Explained(f)

\* No page shows what was not in the swarm at some time since it was asked for,
\* nor puts together what does not belong together: a task stands in the cell of
\* its own node and service, and the row of a detail names the task's own service
\* or node, or none.  A task without a node alone may be shown with any.
NothingInvented ==
    phase = "answered" =>
        /\ got.services \cup got.nodes \cup got.tasks \subseteq seen
        /\ got.states \subseteq seen
        /\ \A n \in Nodes, s \in Services, f \in UserChoices :
              LET shown == DashboardComponent(n, s, f) \cup DashboardVerticalComponent(n, s, f)
              IN  \A t \in shown : {<<t, StateOf(t)>>, n, s} \subseteq seen /\ NodeOf[t] = n /\ ServiceOf[t] = s
        /\ page = "nodeDetail" =>
              \A row \in NodeTasksTab :
                  row.task \in seen /\ row.service \in {NoNode} \cup ({ServiceOf[row.task]} \cap seen)
        /\ page = "serviceDetail" =>
              \A row \in ServiceTasksTab :
                  /\ row.task \in seen /\ row.node \in {NoNode} \cup seen
                  /\ row.node # NoNode => NodeOf[row.task] \in {row.node, NoNode}

\* The tasks whose service or node could not be asked for.
LookupFailed == {j.task : j \in {i \in joined : i.failed}}

\* A detail is that of its subject: it names tasks of the subject only, all that
\* stayed, in one row each, with the service or node that stayed too unless the
\* call for just that row has failed.
DetailIsOfSubject ==
    phase = "answered" /\ page \in Details /\ got.tasks # {} =>
        /\ subject \in seen
        /\ \A i, j \in joined : i.task = j.task => i = j
        /\ \A t \in kept \cap Tasks :
              /\ page = "nodeDetail" /\ NodeOf[t] = subject =>
                    \E row \in NodeTasksTab :
                        /\ row.task = t
                        /\ ServiceOf[t] \in kept => row.service = ServiceOf[t] \/ t \in LookupFailed
              /\ page = "serviceDetail" /\ ServiceOf[t] = subject =>
                    \E row \in ServiceTasksTab :
                        /\ row.task = t
                        /\ NodeOf[t] \in kept => row.node = NodeOf[t] \/ t \in LookupFailed
        /\ page = "nodeDetail" => \A row \in NodeTasksTab : NodeOf[row.task] = subject
        /\ page = "serviceDetail" => \A row \in ServiceTasksTab : ServiceOf[row.task] = subject

\* docker_services_details_handler.go:53, "try to fetch node object for this task":
\* the node a row names is the task's own.  Not so for a task without a node.
RowsNameTheirNode ==
    phase = "answered" /\ page = "serviceDetail" =>
        \A row \in ServiceTasksTab : row.node \in {NodeOf[row.task], NoNode}

\* Sorting drops and doubles no row, and leaves rows with equal values in the
\* order the server sent, in both directions; a column this page does not have,
\* which the view carries over from another page, leaves the server's order.
SortIsStable ==
    phase = "answered" /\ page = "tasks" =>
        \A f \in UserChoices, column \in Columns \cup {"none"}, desc \in BOOLEAN :
            LET row == TasksComponent(f, column, desc)
                before == TaskRows(f)
            IN  /\ ToSet(row) = ToSet(before) /\ Len(row) = Len(before)
                /\ column \notin Columns => row = before
                /\ \A i, j \in DOMAIN row : i < j /\ column \in Columns =>
                      LET a == Value[column][row[i]]
                          b == Value[column][row[j]]
                      IN  /\ IF desc THEN a >= b ELSE a <= b
                          /\ a = b => Rank[row[i]] < Rank[row[j]]

\* HiddenServiceStatesRow.jsx:30, "Select service states to hide from the
\* dashboard": no layout shows a task in a state the user hides.
HiddenStatesAreHidden ==
    phase = "answered" =>
        \A f \in UserChoices, n \in Nodes, s \in Services :
            /\ page = "dashboardH" => \A t \in DashboardComponent(n, s, f) : StateOf(t) \notin f.hidden
            /\ page = "dashboardV" => \A t \in DashboardVerticalComponent(n, s, f) : StateOf(t) \notin f.hidden
=============================================================================
