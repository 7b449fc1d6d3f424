---------------------------- MODULE MetricsPanel ----------------------------
(***************************************************************************)
(* A panel of the browser that asks the server for metrics, over the       *)
(* wrapped fetch of LoadingBar: NodeMetricsComponent,                      *)
(* ServiceMetricsComponent, the tasks of DetailsServiceComponent,          *)
(* DetailsTaskComponent, and ClusterMetricsHeader with the atom it reads   *)
(* (src/app-src/src/components and common/store/atoms/dashboardAtoms.js).  *)
(*                                                                         *)
(* All but the last ask from an effect, which runs anew for another entity *)
(* and at each reload.  Its cleanup clears `mounted`, a flag of that run;  *)
(* an answer that comes later is for a run that is not live any more.      *)
(***************************************************************************)
EXTENDS LoadingBar

CONSTANTS
    Entities,
    MaxRuns,     \* bound: runs of the effect
    Absent,      \* what a detail is about when the server answered {} for its ID
    None

ASSUME PanelAssumption ==
    MaxRuns \in Nat /\ None \notin Entities /\ Absent \notin Entities \cup {None}

VARIABLES
    kind,        \* which panel this is
    alive,       \* it is mounted
    entity,      \* what it is about; None without a detail in the view
    run,         \* the number of the last run of the effect that asked
    first,       \* the runs of this mount come after this one
    live,        \* the run whose `mounted` is still set; 0 for none
    asked,       \* the entity each run asked for
    answer,      \* what came back to each run
    loading, available,
    error, data  \* error and metricsData, by the run they came from; 0 for null

panel == <<kind, alive, entity, run, first, live, asked, answer, loading, available, error, data>>
vars == <<barVars, panel>>

Runs == 1..MaxRuns
Kinds == {"node", "service", "serviceTasks", "task", "cluster"}
Detail == {"serviceTasks", "task"}

\* The answers of the server, and a request that fails or returns no JSON.
Answers == {"metrics", "message", "error", "warning", "failure"}
Available(a) == a \in {"metrics", "warning"}

Init ==
    /\ BarInit
    /\ kind \in Kinds
    /\ alive = FALSE /\ entity = None
    /\ run = 0 /\ first = 0 /\ live = 0
    /\ asked = [r \in Runs |-> None]
    /\ answer = [r \in Runs |-> "none"]
    /\ loading = FALSE /\ available = FALSE /\ error = 0 /\ data = 0

-----------------------------------------------------------------------------
(* What the effect does before it waits for the answer.                    *)

BeginMetrics ==
    /\ loading' = TRUE /\ error' = 0 /\ available' = FALSE
    /\ UNCHANGED data

BeginTasks == loading' = TRUE /\ UNCHANGED <<error, available, data>>

BeginTask == loading' = TRUE /\ error' = 0 /\ UNCHANGED <<available, data>>

Begin(e) ==
    /\ run < MaxRuns
    /\ run' = run + 1 /\ live' = run + 1
    /\ asked' = [asked EXCEPT ![run + 1] = e]
    /\ answer' = [answer EXCEPT ![run + 1] = "pending"]
    /\ BeginRequest /\ UNCHANGED barState
    /\ CASE kind \in {"node", "service"}         -> BeginMetrics
         [] kind \in {"serviceTasks", "cluster"} -> BeginTasks
         [] kind = "task"                        -> BeginTask

\* The panels of a node and of a service ask for an ID that is undefined as well.
Asks(e) == e \in Entities \/ (e = Absent /\ kind \in {"node", "service"})

\* Without an ID the effect of a detail returns at once, and leaves all as it is:
\* what the cleaned up run has set to loading stays so.
BeginNothing ==
    /\ kind \in Detail
    /\ live' = 0
    /\ UNCHANGED <<run, asked, answer, loading, available, error, data, barVars>>

\* The view is opened; the state is new.
Mount(e) ==
    /\ bar /\ ~alive
    /\ alive' = TRUE /\ entity' = e /\ first' = run
    /\ IF Asks(e) THEN Begin(e) ELSE BeginNothing
    /\ UNCHANGED kind

\* Another entity, another base URL or a new timestamp: cleanup and a new run.
Change(e) ==
    /\ alive
    /\ entity' = e
    /\ IF Asks(e) THEN Begin(e) ELSE BeginNothing
    /\ UNCHANGED <<kind, alive, first>>

Gone ==
    /\ alive' = FALSE /\ entity' = None /\ live' = 0
    /\ loading' = FALSE /\ available' = FALSE /\ error' = 0 /\ data' = 0
    /\ UNCHANGED <<kind, run, first, asked, answer>>

Unmount == alive /\ Gone /\ UNCHANGED barVars

\* An error while rendering takes the page down with the bar.
Fail == UnmountBar /\ Gone

-----------------------------------------------------------------------------
(* What it does with the answer a to run r.                                *)

\* Mutant of EndMetrics: the flag is not looked at.
EndMetricsUnguarded(r, a) ==
    /\ loading' = FALSE
    /\ available' = (Available(a) \/ a = "failure")
    /\ error' = IF a = "metrics" THEN 0 ELSE r
    /\ data' = IF a = "metrics" THEN r ELSE 0

\* `if (!mounted) return`, and the same before each write of catch and finally.
EndMetrics(r, a) ==
    IF r = live
    THEN /\ loading' = FALSE
         /\ available' = (Available(a) \/ a = "failure")
         /\ error' = IF a = "metrics" THEN 0 ELSE r
         /\ data' = IF a = "metrics" THEN r ELSE 0
    ELSE UNCHANGED <<loading, available, error, data>>

\* Mutant of EndTasks: the answer is written for every run, as the failure is.
EndTasksUnguarded(r, a) ==
    /\ loading' = (loading /\ r # live)
    /\ data' = IF a = "metrics" THEN r ELSE 0
    /\ UNCHANGED <<available, error>>

\* The catch of the details does not look at `mounted`; the setters of a mount
\* that is over do nothing.
EndTasks(r, a) ==
    /\ loading' = (loading /\ r # live)
    /\ data' = CASE r = live /\ a = "metrics"      -> r
                 [] r = live /\ a # "metrics"      -> 0
                 [] a = "failure" /\ r > first     -> 0
                 [] OTHER                          -> data
    /\ UNCHANGED <<available, error>>

\* Mutant of EndTask: no `finally`, so a failure leaves the panel loading.
EndTaskKeepsLoading(r, a) ==
    /\ loading' = (loading /\ (r # live \/ a = "failure"))
    /\ data' = IF r = live THEN (IF a = "metrics" THEN r ELSE 0) ELSE data
    /\ UNCHANGED <<available, error>>

\* Of an answer without metrics only `message` is read, never `error`.
EndTask(r, a) ==
    /\ loading' = (loading /\ r # live)
    /\ data' = CASE r = live /\ a = "metrics"      -> r
                 [] r = live /\ a # "metrics"      -> 0
                 [] a = "failure" /\ r > first     -> 0
                 [] OTHER                          -> data
    /\ error' = IF \/ r = live /\ a \in {"message", "failure"}
                   \/ a = "failure" /\ alive /\ r > first
                THEN r ELSE error
    /\ UNCHANGED available

\* The atom keeps the newest promise only, and a failure is { available: false }.
EndCluster(r, a) ==
    IF r = live
    THEN /\ loading' = FALSE
         /\ available' = Available(a)
         /\ error' = IF a \in {"error", "warning"} THEN r ELSE 0
         /\ data' = r
    ELSE UNCHANGED <<loading, available, error, data>>

Ends(r, a) ==
    /\ answer' = [answer EXCEPT ![r] = a]
    /\ CASE kind \in {"node", "service"} -> EndMetrics(r, a)
         [] kind = "serviceTasks"        -> EndTasks(r, a)
         [] kind = "task"                -> EndTask(r, a)
         [] kind = "cluster"             -> EndCluster(r, a)
    /\ UNCHANGED <<kind, alive, entity, run, first, live, asked>>

\* The headers have come: for the counter the request is over.
Arrive(r) ==
    /\ answer[r] = "pending"
    /\ answer' = [answer EXCEPT ![r] = "body"]
    /\ EndRequest
    /\ UNCHANGED <<barState, kind, alive, entity, run, first, live, asked,
                   loading, available, error, data>>

\* The request itself fails.
Reject(r) ==
    /\ answer[r] = "pending"
    /\ EndRequest /\ UNCHANGED barState
    /\ Ends(r, "failure")

\* The body is read as JSON, or is none; of an undefined ID there are no metrics.
Settle(r, a) ==
    /\ answer[r] = "body"
    /\ asked[r] = Absent => a # "metrics"
    /\ Ends(r, a)
    /\ UNCHANGED barVars

Next ==
    \/ \E e \in Entities \cup {Absent, None} : Mount(e) \/ Change(e)
    \/ Unmount
    \/ Fail
    \/ \E r \in Runs : Arrive(r) \/ Reject(r)
    \/ \E r \in Runs, a \in Answers : Settle(r, a)
    \/ (MountBar \/ BarTimer) /\ UNCHANGED panel

Spec == Init /\ [][Next]_vars

\* The server answers every request (RequestIsAnswered of MetricsRequest) and
\* the browser runs what it has scheduled.
Fairness ==
    /\ \A r \in Runs : WF_vars(Arrive(r) \/ Reject(r)) /\ WF_vars(\E a \in Answers : Settle(r, a))
    /\ WF_vars(Effect /\ UNCHANGED panel)
    /\ WF_vars(HideBar /\ UNCHANGED panel)
    /\ WF_vars(Finish /\ UNCHANGED panel)

FairSpec == Spec /\ Fairness

-----------------------------------------------------------------------------
(* What each panel shows.                                                  *)

NodeMetricsComponent ==
    IF loading THEN "loading"
    ELSE IF error # 0 /\ available THEN "warning"
    ELSE IF ~available THEN "not configured"
    ELSE IF data = 0 THEN "no data"
    ELSE "metrics"

ServiceMetricsComponent == NodeMetricsComponent

\* The tasks are there without metrics as well; of {} there are none.
DetailsServiceComponent ==
    IF entity = None THEN "missing"
    ELSE IF loading THEN "loading"
    ELSE IF data = 0 \/ entity = Absent THEN "no metrics"
    ELSE "metrics"

\* `!currentTask` is false of {}, so what the last run has left stays.
DetailsTaskComponent ==
    IF entity = None THEN "missing"
    ELSE IF loading THEN "loading"
    ELSE IF error # 0 THEN "warning"
    ELSE IF data = 0 THEN "no metrics"
    ELSE "metrics"

ClusterMetricsHeader ==
    IF loading THEN "loading"
    ELSE IF error # 0 THEN "warning"
    ELSE IF ~available THEN "not configured"
    ELSE "metrics"

Shows ==
    IF ~alive THEN "nothing"
    ELSE CASE kind = "node"         -> NodeMetricsComponent
           [] kind = "service"      -> ServiceMetricsComponent
           [] kind = "serviceTasks" -> DetailsServiceComponent
           [] kind = "task"         -> DetailsTaskComponent
           [] kind = "cluster"      -> ClusterMetricsHeader

-----------------------------------------------------------------------------
(* Properties.                                                             *)

TypeOK ==
    /\ BarTypeOK
    /\ kind \in Kinds /\ alive \in BOOLEAN /\ entity \in Entities \cup {Absent, None}
    /\ run \in 0..MaxRuns /\ first \in 0..run /\ live \in {0, run}
    /\ asked \in [Runs -> Entities \cup {Absent, None}]
    /\ answer \in [Runs -> Answers \cup {"none", "pending", "body"}]
    /\ loading \in BOOLEAN /\ available \in BOOLEAN
    /\ error \in 0..run /\ data \in 0..run

Settled(r) == answer[r] \in Answers

\* An earlier request of this mount failed.
EarlierFailure == \E r \in Runs : first < r /\ r < live /\ answer[r] = "failure"

\* What a panel should show of an answer.
Meaning(a) ==
    IF a = "metrics" THEN "metrics"
    ELSE CASE kind \in {"node", "service"} ->
                  IF a \in {"message", "error"} THEN "not configured" ELSE "warning"
           [] kind = "cluster" ->
                  IF a \in {"message", "failure"} THEN "not configured" ELSE "warning"
           [] kind = "task" ->
                  IF a \in {"message", "failure"} THEN "warning" ELSE "no metrics"
           [] kind = "serviceTasks" -> "no metrics"

\* A panel shows the answer to its own latest request and nothing of an earlier
\* one, whatever order the answers come in; only the two details, whose catch
\* writes for every run, may lose it to an earlier request that fails late.
ShowsItsOwnAnswer ==
    alive /\ live # 0 =>
        IF ~Settled(live)
        THEN Shows = "loading"
        ELSE \/ Shows = Meaning(answer[live])
             \/ kind \in Detail /\ EarlierFailure /\ Shows \in {"warning", "no metrics"}

\* Metrics on display are the answer to the last request of this mount, and are
\* those of the entity on display; only the page of a task whose detail became {}
\* keeps those of the task it showed before.
MetricsAreOfEntity ==
    Shows = "metrics" =>
        /\ data = run /\ first < run
        /\ \/ live = run /\ asked[run] = entity
           \/ kind = "task" /\ entity = Absent

\* A task that is gone ("Task doesn't exist", DetailsTaskComponent.jsx:68) is
\* shown without metrics.  Not so: an open page keeps those of the task before it.
GoneShowsNoMetrics == entity = Absent => Shows # "metrics"

\* A panel that is left alone with an entity it has asked for stops loading; a
\* detail that became {} while it was loading does not, for no run is live.
LoadingEnds ==
    \A r \in Runs : <>[](alive /\ live = r) => <>[](Shows # "loading")
=============================================================================
