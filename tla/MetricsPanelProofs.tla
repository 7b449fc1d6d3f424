------------------------- MODULE MetricsPanelProofs -------------------------
(***************************************************************************)
(* Proofs of the safety properties of MetricsPanel, for any entities and   *)
(* any number of requests: what the state of a panel has kept of the       *)
(* answers is related to the answer of the run that is live.               *)
(***************************************************************************)
EXTENDS MetricsPanel, TLAPS

\* The bar's timers belong to a bar that is mounted.
BarOK == BarTypeOK /\ (~bar => hides = 0 /\ ~armed)

\* The run that is live is the last one, of this mount, and for the entity on
\* display, which is one that is asked for; only a detail shows what is not, and
\* a panel that is gone shows and keeps nothing.
LiveOK ==
    /\ \A r \in Runs : answer[r] # "none" => r <= run
    /\ (live # 0) <=> Asks(entity)
    /\ live # 0 => first < live /\ asked[live] = entity /\ answer[live] # "none"
    /\ ~alive => entity = None /\ ~loading /\ data = 0 /\ error = 0
    /\ alive /\ ~Asks(entity) => kind \in Detail

\* A panel loads until the answer to its live run is there.
LoadingOK == live # 0 => (loading <=> ~Settled(live))

\* The data a detail has when it does not load are of its last run: an earlier
\* run writes none, and a run that was cleaned up leaves it loading.
DataIsLast == alive /\ kind \in Detail /\ ~loading /\ data # 0 => data = run /\ first < run

\* What the setters have left of the answer a to the live run.
MetricsLeft(a) ==
    /\ available = (Available(a) \/ a = "failure")
    /\ error = IF a = "metrics" THEN 0 ELSE live
    /\ data = IF a = "metrics" THEN live ELSE 0

DataLeft(a) ==
    IF a = "metrics" THEN data = live \/ (data = 0 /\ EarlierFailure) ELSE data = 0

ErrorLeft(a) ==
    /\ a \in {"message", "failure"} => error # 0
    /\ error # 0 => a \in {"message", "failure"} \/ EarlierFailure
    /\ a = "metrics" /\ data = 0 => error # 0

ClusterLeft(a) ==
    /\ available = Available(a)
    /\ error = IF a \in {"error", "warning"} THEN live ELSE 0
    /\ data = live

\* An error of a task that is loading is that of an earlier request.
ErrorIsEarlier == kind = "task" /\ live # 0 /\ ~Settled(live) /\ error # 0 => EarlierFailure

\* A panel whose answer has come keeps what the answer left.
AnswerOK ==
    live # 0 /\ Settled(live) =>
        /\ kind \in {"node", "service"} => MetricsLeft(answer[live])
        /\ kind \in Detail => DataLeft(answer[live])
        /\ kind = "task" => ErrorLeft(answer[live])
        /\ kind = "cluster" => ClusterLeft(answer[live])

PanelTypeOK ==
    /\ kind \in Kinds /\ alive \in BOOLEAN /\ entity \in Entities \cup {Absent, None}
    /\ run \in 0..MaxRuns /\ first \in 0..run /\ live \in {0, run}
    /\ asked \in [Runs -> Entities \cup {Absent, None}]
    /\ answer \in [Runs -> Answers \cup {"none", "pending", "body"}]
    /\ loading \in BOOLEAN /\ available \in BOOLEAN
    /\ error \in 0..run /\ data \in 0..run

PanelOK == PanelTypeOK /\ LiveOK /\ LoadingOK /\ DataIsLast /\ ErrorIsEarlier /\ AnswerOK

IInv == BarOK /\ PanelOK

-----------------------------------------------------------------------------
(* The bar and the counter.                                                *)

\* Beginning and ending a request leaves the bar as it is.
LEMMA RequestBarOK ==
    ASSUME BarOK, BeginRequest \/ EndRequest, UNCHANGED barState
    PROVE  BarOK'
<1> USE BarAssumption DEF BarAssumption
<1>1. count' \in 0..MaxRequests
  BY DEF BarOK, BarTypeOK, BeginRequest, EndRequest
<1> QED BY <1>1 DEF BarOK, BarTypeOK, barState

\* stop() starts a timeout, of which no more than the bound run together.
LEMMA StopBarOK ==
    ASSUME BarOK, bar \/ armed, Stop, bar' = bar, count' = count, seen' \in {seen, count}
    PROVE  BarOK'
<1> USE BarAssumption DEF BarAssumption
<1>1. bar /\ bar'
  BY DEF BarOK
<1>2. hides' \in 0..MaxHides
  BY DEF BarOK, BarTypeOK, Stop
<1>3. count' \in 0..MaxRequests /\ seen' \in 0..MaxRequests
  BY DEF BarOK, BarTypeOK
<1>4. bar' \in BOOLEAN /\ visible' \in BOOLEAN /\ armed' \in BOOLEAN
  BY DEF BarOK, BarTypeOK, Stop
<1> QED BY <1>1, <1>2, <1>3, <1>4 DEF BarOK, BarTypeOK

LEMMA StartBarOK ==
    ASSUME BarOK, Start, bar', count' = count, seen' = count
    PROVE  BarOK'
<1> USE BarAssumption DEF BarAssumption
<1> QED BY DEF BarOK, BarTypeOK, Start

LEMMA MountBarOK == ASSUME BarOK, MountBar PROVE BarOK'
<1> USE BarAssumption DEF BarAssumption
<1>1. hides = 0 /\ bar'
  BY DEF BarOK, MountBar
<1>2. CASE count > 0
  BY <1>2, StartBarOK DEF MountBar
<1>3. CASE ~(count > 0)
  <2>1. hides' \in 0..MaxHides /\ seen' \in 0..MaxRequests /\ count' \in 0..MaxRequests
    BY <1>1, <1>3 DEF MountBar, BarOK, BarTypeOK
  <2>2. visible' \in BOOLEAN /\ armed' \in BOOLEAN /\ bar' \in BOOLEAN
    BY <1>3 DEF MountBar, BarOK, BarTypeOK
  <2> QED BY <1>1, <2>1, <2>2 DEF BarOK, BarTypeOK
<1> QED BY <1>2, <1>3

LEMMA UnmountBarOK == ASSUME BarOK, UnmountBar PROVE BarOK'
<1>1. hides' = 0 /\ ~armed' /\ ~visible' /\ ~bar'
  BY DEF UnmountBar
<1>2. hides' \in 0..MaxHides /\ seen' \in 0..MaxRequests /\ count' \in 0..MaxRequests
  BY <1>1, BarAssumption DEF UnmountBar, BarOK, BarTypeOK, BarAssumption
<1>3. visible' \in BOOLEAN /\ armed' \in BOOLEAN /\ bar' \in BOOLEAN
  BY DEF UnmountBar
<1> QED BY <1>1, <1>2, <1>3 DEF BarOK, BarTypeOK

LEMMA HideBarOK == ASSUME BarOK, HideBar PROVE BarOK'
<1>1. hides' \in 0..MaxHides /\ seen' \in 0..MaxRequests /\ count' \in 0..MaxRequests
  BY BarAssumption DEF HideBar, BarOK, BarTypeOK, BarAssumption
<1>2. visible' \in BOOLEAN /\ armed' \in BOOLEAN /\ bar' \in BOOLEAN
  BY DEF HideBar, BarOK, BarTypeOK
<1>3. bar' = bar /\ armed' = armed /\ hides # 0
  BY BarAssumption DEF HideBar, BarOK, BarTypeOK, BarAssumption
<1> QED BY <1>1, <1>2, <1>3 DEF BarOK, BarTypeOK

LEMMA BarTimerOK == ASSUME BarOK, BarTimer PROVE BarOK'
<1>1. CASE Effect
  BY <1>1, StartBarOK, StopBarOK DEF Effect
<1>2. CASE Finish
  BY <1>2, StopBarOK DEF Finish
<1> QED BY <1>1, <1>2, HideBarOK DEF BarTimer

\* The state of the bar follows the bar's own actions: whatever a panel does,
\* its step is one of the counter, of the bar, or of neither.
LEMMA BarUnchangedOK == ASSUME BarOK, UNCHANGED barVars PROVE BarOK'
BY DEF BarOK, BarTypeOK, barVars, barState

-----------------------------------------------------------------------------
(* The panel.                                                              *)

\* A run that has just asked has no answer, and the panel loads.
LEMMA BeginOK ==
    ASSUME PanelOK, NEW e \in Entities \cup {Absent, None}, Asks(e), Begin(e), entity' = e,
           kind' = kind, alive',
           first' \in {first, run}
    PROVE  PanelOK'
<1>1. run + 1 \in Runs /\ run + 1 \in 1..MaxRuns /\ run' = run + 1 /\ live' = run + 1
  BY PanelAssumption DEF PanelAssumption, PanelOK, PanelTypeOK, Begin, Runs
<1>2. /\ answer' = [answer EXCEPT ![run + 1] = "pending"]
      /\ asked' = [asked EXCEPT ![run + 1] = e]
      /\ loading'
      /\ error' \in {0, error} /\ (kind = "task" => error' = 0)
      /\ available' \in {FALSE, available} /\ data' = data
  BY DEF Begin, BeginMetrics, BeginTasks, BeginTask, PanelOK, PanelTypeOK, Kinds
<1>3. answer'[live'] = "pending" /\ asked'[live'] = e
  BY <1>1, <1>2 DEF PanelOK, PanelTypeOK
<1>4. ~Settled(live)'
  BY <1>3 DEF Settled, Answers
<1>5. PanelTypeOK'
  <2>1. /\ kind' \in Kinds /\ entity' \in Entities \cup {Absent, None}
        /\ run' \in 0..MaxRuns /\ first' \in 0..run' /\ live' \in {0, run'}
        /\ error' \in 0..run' /\ data' \in 0..run'
    BY <1>1, <1>2, PanelAssumption DEF PanelAssumption, PanelOK, PanelTypeOK
  <2>2. /\ asked' \in [Runs -> Entities \cup {Absent, None}]
        /\ answer' \in [Runs -> Answers \cup {"none", "pending", "body"}]
    BY <1>1, <1>2 DEF PanelOK, PanelTypeOK
  <2>3. alive' \in BOOLEAN /\ loading' \in BOOLEAN /\ available' \in BOOLEAN
    BY <1>2 DEF PanelOK, PanelTypeOK
  <2> QED BY <2>1, <2>2, <2>3 DEF PanelTypeOK
<1>6. LiveOK'
  <2>1. ASSUME NEW r \in Runs, answer'[r] # "none" PROVE r <= run'
    BY <2>1, <1>1, <1>2 DEF PanelOK, PanelTypeOK, LiveOK, Runs
  <2>2. Asks(entity)' /\ live' # 0 /\ first' < live'
    BY <1>1, PanelAssumption DEF PanelAssumption, PanelOK, PanelTypeOK, Asks
  <2> QED BY <1>3, <2>1, <2>2 DEF LiveOK
<1>7. LoadingOK' /\ DataIsLast' /\ AnswerOK'
  BY <1>2, <1>4 DEF LoadingOK, DataIsLast, AnswerOK
<1>8. ErrorIsEarlier'
  BY <1>2 DEF ErrorIsEarlier
<1> QED BY <1>5, <1>6, <1>7, <1>8 DEF PanelOK

\* Without an ID no run is live, and a panel that was not there has no data.
LEMMA NothingOK ==
    ASSUME PanelOK, BeginNothing, NEW e \in Entities \cup {Absent, None}, ~Asks(e), entity' = e,
           kind' = kind, alive', alive => first' = first, first' \in {first, run}
    PROVE  PanelOK'
<1>1. PanelTypeOK'
  <2>1. /\ kind' \in Kinds /\ entity' \in Entities \cup {Absent, None}
        /\ run' \in 0..MaxRuns /\ first' \in 0..run' /\ live' \in {0, run'}
        /\ error' \in 0..run' /\ data' \in 0..run'
        /\ asked' \in [Runs -> Entities \cup {Absent, None}]
        /\ answer' \in [Runs -> Answers \cup {"none", "pending", "body"}]
    BY PanelAssumption DEF PanelAssumption, PanelOK, PanelTypeOK, BeginNothing
  <2>2. alive' \in BOOLEAN /\ loading' \in BOOLEAN /\ available' \in BOOLEAN
    BY DEF PanelOK, PanelTypeOK, BeginNothing
  <2> QED BY <2>1, <2>2 DEF PanelTypeOK
<1>2. LiveOK'
  BY DEF PanelOK, LiveOK, BeginNothing, Asks
<1>3. LoadingOK' /\ ErrorIsEarlier' /\ AnswerOK'
  BY DEF PanelOK, LoadingOK, ErrorIsEarlier, AnswerOK, BeginNothing
<1>4. DataIsLast'
  BY DEF PanelOK, LiveOK, DataIsLast, BeginNothing
<1> QED BY <1>1, <1>2, <1>3, <1>4 DEF PanelOK

\* A panel that is gone keeps nothing.
LEMMA GoneOK == ASSUME PanelOK, Gone PROVE PanelOK'
<1>1. PanelTypeOK'
  <2>1. /\ kind' \in Kinds /\ entity' \in Entities \cup {Absent, None}
        /\ run' \in 0..MaxRuns /\ first' \in 0..run' /\ live' \in {0, run'}
        /\ error' \in 0..run' /\ data' \in 0..run'
        /\ asked' \in [Runs -> Entities \cup {Absent, None}]
        /\ answer' \in [Runs -> Answers \cup {"none", "pending", "body"}]
    BY PanelAssumption DEF PanelAssumption, PanelOK, PanelTypeOK, Gone
  <2>2. alive' \in BOOLEAN /\ loading' \in BOOLEAN /\ available' \in BOOLEAN
    BY DEF Gone
  <2> QED BY <2>1, <2>2 DEF PanelTypeOK
<1>2. LiveOK' /\ LoadingOK' /\ DataIsLast' /\ ErrorIsEarlier' /\ AnswerOK'
  BY PanelAssumption
     DEF PanelAssumption, PanelOK, LiveOK, LoadingOK, DataIsLast, ErrorIsEarlier, AnswerOK, Gone, Asks
<1> QED BY <1>1, <1>2 DEF PanelOK

\* The headers of an answer change nothing for the panel.
LEMMA ArriveOK == ASSUME PanelOK, NEW r \in Runs, Arrive(r) PROVE PanelOK'
<1>1. /\ answer[r] = "pending" /\ answer' = [answer EXCEPT ![r] = "body"]
      /\ UNCHANGED <<kind, alive, entity, run, first, live, asked, loading, available, error, data>>
  BY DEF Arrive
<1>2. answer'[r] = "body" /\ \A q \in Runs \ {r} : answer'[q] = answer[q]
  BY <1>1 DEF PanelOK, PanelTypeOK
<1>3. EarlierFailure' <=> EarlierFailure
  BY <1>1, <1>2 DEF EarlierFailure
<1>4. live # 0 => live \in Runs
  BY PanelAssumption DEF PanelAssumption, PanelOK, PanelTypeOK, Runs
<1>5. live # 0 => (Settled(live)' <=> Settled(live)) /\ (Settled(live) => answer'[live] = answer[live])
  BY <1>1, <1>2, <1>4 DEF Settled, Answers
<1>6. PanelTypeOK'
  BY <1>1 DEF PanelOK, PanelTypeOK
<1>7. LiveOK'
  BY <1>1, <1>2, <1>4 DEF PanelOK, LiveOK, Asks
<1>8. LoadingOK' /\ DataIsLast'
  BY <1>1, <1>5 DEF PanelOK, LoadingOK, DataIsLast
<1>9. ErrorIsEarlier'
  BY <1>1, <1>3, <1>5 DEF PanelOK, ErrorIsEarlier
<1>10. AnswerOK'
  BY <1>1, <1>3, <1>5 DEF PanelOK, AnswerOK, MetricsLeft, DataLeft, ErrorLeft, ClusterLeft
<1> QED BY <1>6, <1>7, <1>8, <1>9, <1>10 DEF PanelOK

\* An answer is written by the setters of its kind of panel, and leaves what
\* AnswerOK says when it is for the live run; a failure that is not makes an
\* earlier failure.
LEMMA EndsOK ==
    ASSUME PanelOK, NEW r \in Runs, NEW a \in Answers, answer[r] \in {"pending", "body"}, Ends(r, a)
    PROVE  PanelOK'
<1>1. /\ answer' = [answer EXCEPT ![r] = a]
      /\ UNCHANGED <<kind, alive, entity, run, first, live, asked>>
  BY DEF Ends
<1>2. answer'[r] = a /\ \A q \in Runs \ {r} : answer'[q] = answer[q]
  BY <1>1 DEF PanelOK, PanelTypeOK
<1>3. /\ r \in 1..MaxRuns /\ r \in 1..run /\ live \in 0..run /\ run \in Nat /\ first \in Nat
      /\ live # 0 => live = run /\ live \in Runs
  BY PanelAssumption DEF PanelAssumption, PanelOK, PanelTypeOK, LiveOK, Runs
<1>4. /\ kind \in {"node", "service"} => EndMetrics(r, a)
      /\ kind = "serviceTasks" => EndTasks(r, a)
      /\ kind = "task" => EndTask(r, a)
      /\ kind = "cluster" => EndCluster(r, a)
  BY DEF Ends, PanelOK, PanelTypeOK, Kinds
<1>5. kind \in {"node", "service"} \/ kind = "serviceTasks" \/ kind = "task" \/ kind = "cluster"
  BY DEF PanelOK, PanelTypeOK, Kinds
<1>6. EarlierFailure => EarlierFailure'
  BY <1>1, <1>2 DEF EarlierFailure
<1>7. live # 0 /\ r # live /\ a = "failure" /\ r > first => EarlierFailure'
  BY <1>1, <1>2, <1>3 DEF EarlierFailure
<1>8. /\ live # r /\ live # 0 => (Settled(live)' <=> Settled(live))
      /\ live # r /\ live # 0 => answer'[live] = answer[live]
      /\ Settled(r)' /\ ~Settled(r)
  BY <1>1, <1>2, <1>3 DEF Settled, Answers
<1>9. /\ loading' \in BOOLEAN /\ available' \in BOOLEAN
      /\ error' \in {0, r, error} /\ data' \in {0, r, live, data}
  <2>1. CASE kind \in {"node", "service"}
    BY <1>4, <2>1 DEF EndMetrics, PanelOK, PanelTypeOK
  <2>2. CASE kind = "serviceTasks"
    BY <1>4, <2>2 DEF EndTasks, PanelOK, PanelTypeOK
  <2>3. CASE kind = "task"
    BY <1>4, <2>3 DEF EndTask, PanelOK, PanelTypeOK
  <2>4. CASE kind = "cluster"
    <3>1. Available(a) \in BOOLEAN
      BY DEF Available
    <3>2. CASE r = live
      BY <1>4, <2>4, <3>1, <3>2 DEF EndCluster
    <3>3. CASE r # live
      BY <1>4, <2>4, <3>3 DEF EndCluster, PanelOK, PanelTypeOK
    <3> QED BY <3>2, <3>3
  <2> QED BY <1>5, <2>1, <2>2, <2>3, <2>4
<1>10. PanelTypeOK'
  <2>1. /\ kind' \in Kinds /\ entity' \in Entities \cup {Absent, None}
        /\ run' \in 0..MaxRuns /\ first' \in 0..run' /\ live' \in {0, run'}
        /\ asked' \in [Runs -> Entities \cup {Absent, None}]
        /\ answer' \in [Runs -> Answers \cup {"none", "pending", "body"}]
    BY <1>1 DEF PanelOK, PanelTypeOK
  <2>2. error' \in 0..run' /\ data' \in 0..run'
    BY <1>1, <1>3, <1>9 DEF PanelOK, PanelTypeOK
  <2>3. alive' \in BOOLEAN
    BY <1>1 DEF PanelOK, PanelTypeOK
  <2> QED BY <1>9, <2>1, <2>2, <2>3 DEF PanelTypeOK
<1>11. live # r =>
         /\ loading' <=> loading
         /\ kind \in {"node", "service", "cluster"} => UNCHANGED <<available, error, data>>
         /\ kind = "serviceTasks" => UNCHANGED <<available, error>>
         /\ kind = "task" => UNCHANGED available
  <2> SUFFICES ASSUME live # r
               PROVE  /\ loading' <=> loading
                      /\ kind \in {"node", "service", "cluster"} => UNCHANGED <<available, error, data>>
                      /\ kind = "serviceTasks" => UNCHANGED <<available, error>>
                      /\ kind = "task" => UNCHANGED available
    OBVIOUS
  <2>1. CASE kind \in {"node", "service"}
    BY <1>4, <2>1 DEF EndMetrics
  <2>2. CASE kind = "serviceTasks"
    BY <1>4, <2>2 DEF EndTasks
  <2>3. CASE kind = "task"
    BY <1>4, <2>3 DEF EndTask
  <2>4. CASE kind = "cluster"
    BY <1>4, <2>4 DEF EndCluster
  <2> QED BY <1>5, <2>1, <2>2, <2>3, <2>4
<1>12. live = r => ~loading'
  <2>1. CASE kind \in {"node", "service"}
    BY <1>4, <2>1 DEF EndMetrics
  <2>2. CASE kind = "serviceTasks"
    BY <1>4, <2>2 DEF EndTasks
  <2>3. CASE kind = "task"
    BY <1>4, <2>3 DEF EndTask
  <2>4. CASE kind = "cluster"
    BY <1>4, <2>4 DEF EndCluster
  <2> QED BY <1>5, <2>1, <2>2, <2>3, <2>4
<1>13. LoadingOK'
  <2>1. CASE live = r
    BY <1>1, <1>8, <1>12, <2>1 DEF LoadingOK, PanelOK
  <2>2. CASE live # r
    BY <1>1, <1>8, <1>11, <2>2 DEF LoadingOK, PanelOK
  <2> QED BY <2>1, <2>2
\* A late failure of a detail clears the metrics, and of a task sets the error.
<1>14. live # r /\ kind \in Detail =>
         data' = data \/ (data' = 0 /\ a = "failure" /\ r > first)
  BY <1>4 DEF EndTasks, EndTask, Detail
<1>15. live # r /\ kind = "task" =>
         /\ error' = error \/ (error' = r /\ alive /\ a = "failure" /\ r > first)
         /\ alive /\ data' # data => error' = r
  BY <1>4 DEF EndTask
<1>16. live # 0 => alive
  BY PanelAssumption DEF PanelAssumption, LiveOK, PanelOK, Asks
<1>17. LiveOK'
  <2>1. ASSUME NEW q \in Runs, answer'[q] # "none" PROVE q <= run'
    BY <1>1, <1>2, <1>3, <2>1 DEF PanelOK, LiveOK
  <2>2. /\ (live' # 0) <=> Asks(entity)'
        /\ alive' /\ ~Asks(entity)' => kind' \in Detail
    BY <1>1 DEF PanelOK, LiveOK, Asks
  <2>3. ASSUME live' # 0
        PROVE  first' < live' /\ asked'[live'] = entity' /\ answer'[live'] # "none"
    BY <1>1, <1>2, <1>3, <2>3 DEF PanelOK, LiveOK, Answers
  <2>4. ASSUME ~alive' PROVE entity' = None /\ ~loading' /\ data' = 0 /\ error' = 0
    <3>1. ~alive /\ live = 0 /\ live # r /\ ~loading' /\ data = 0 /\ error = 0 /\ entity' = None
      BY <1>1, <1>3, <1>11, <1>16, <2>4 DEF PanelOK, LiveOK
    <3>2. data' = 0
      BY <1>5, <1>11, <1>14, <3>1 DEF Detail
    <3>3. error' = 0
      BY <1>5, <1>11, <1>15, <3>1
    <3> QED BY <3>1, <3>2, <3>3
  <2> QED BY <2>1, <2>2, <2>3, <2>4 DEF LiveOK
<1>18. ErrorIsEarlier'
  <2> SUFFICES ASSUME kind' = "task", live' # 0, ~Settled(live)', error' # 0
               PROVE  EarlierFailure'
    BY DEF ErrorIsEarlier
  <2>1. live # r /\ live # 0 /\ ~Settled(live) /\ kind = "task"
    BY <1>1, <1>8
  <2>2. CASE error' = error
    BY <1>6, <2>1, <2>2 DEF PanelOK, ErrorIsEarlier
  <2>3. CASE error' # error
    BY <1>7, <1>15, <2>1, <2>3
  <2> QED BY <2>2, <2>3
\* The last run wrote the data when it was live; a later failure clears them.
<1>19. DataIsLast'
  <2> SUFFICES ASSUME alive, kind \in Detail, ~loading', data' # 0
               PROVE  data' = run /\ first < run
    BY <1>1 DEF DataIsLast
  <2>1. CASE live = r
    <3>1. data' = r
      BY <1>4, <2>1 DEF EndTasks, EndTask, Detail
    <3> QED BY <1>3, <2>1, <3>1 DEF PanelOK, LiveOK
  <2>2. CASE live # r
    BY <1>11, <1>14, <2>2 DEF PanelOK, DataIsLast
  <2> QED BY <2>1, <2>2
<1>20. CASE live # r
  <2> SUFFICES ASSUME live # 0, Settled(live)' PROVE
         /\ kind' \in {"node", "service"} => MetricsLeft(answer[live])'
         /\ kind' \in Detail => DataLeft(answer[live])'
         /\ kind' = "task" => ErrorLeft(answer[live])'
         /\ kind' = "cluster" => ClusterLeft(answer[live])'
    BY <1>10, <1>13, <1>17, <1>1, <1>18, <1>19 DEF PanelOK, AnswerOK
  <2>1. /\ answer'[live'] = answer[live] /\ live' = live /\ kind' = kind
        /\ kind \in {"node", "service"} => MetricsLeft(answer[live])
        /\ kind \in Detail => DataLeft(answer[live])
        /\ kind = "task" => ErrorLeft(answer[live])
        /\ kind = "cluster" => ClusterLeft(answer[live])
    BY <1>1, <1>8, <1>20 DEF PanelOK, AnswerOK
  <2>2. kind \in {"node", "service"} => MetricsLeft(answer[live])'
    BY <1>11, <1>20, <2>1 DEF MetricsLeft
  <2>3. kind = "cluster" => ClusterLeft(answer[live])'
    BY <1>11, <1>20, <2>1 DEF ClusterLeft
  <2>4. kind \in Detail => DataLeft(answer[live])'
    BY <1>6, <1>7, <1>14, <1>20, <2>1 DEF DataLeft
  <2>5. kind = "task" => ErrorLeft(answer[live])'
    <3> SUFFICES ASSUME kind = "task" PROVE ErrorLeft(answer[live])'
      OBVIOUS
    <3>1. r # 0 /\ alive
      BY <1>3, <1>16
    <3>2. error' # error => error' # 0 /\ EarlierFailure'
      BY <1>7, <1>15, <1>20, <3>1
    <3>3. data' # data => error' # 0
      BY <1>15, <1>20, <3>1
    <3> QED BY <1>6, <2>1, <3>2, <3>3 DEF ErrorLeft
  <2> QED BY <2>1, <2>2, <2>3, <2>4, <2>5
<1>21. CASE live = r
  <2> SUFFICES
         /\ kind' \in {"node", "service"} => MetricsLeft(answer[live])'
         /\ kind' \in Detail => DataLeft(answer[live])'
         /\ kind' = "task" => ErrorLeft(answer[live])'
         /\ kind' = "cluster" => ClusterLeft(answer[live])'
    BY <1>10, <1>13, <1>17, <1>18, <1>19 DEF PanelOK, AnswerOK
  <2>1. answer'[live'] = a /\ live' = r /\ kind' = kind /\ r # 0
    BY <1>1, <1>2, <1>3, <1>21
  <2>2. kind \in {"node", "service"} => MetricsLeft(answer[live])'
    BY <1>4, <1>21, <2>1 DEF EndMetrics, MetricsLeft
  <2>3. kind = "cluster" => ClusterLeft(answer[live])'
    BY <1>4, <1>21, <2>1 DEF EndCluster, ClusterLeft
  <2>4. kind \in Detail => DataLeft(answer[live])'
    BY <1>4, <1>21, <2>1 DEF EndTasks, EndTask, DataLeft, Detail
  <2>5. kind = "task" => ErrorLeft(answer[live])'
    <3> SUFFICES ASSUME kind = "task" PROVE ErrorLeft(answer[live])'
      OBVIOUS
    <3>1. /\ error' = IF a \in {"message", "failure"} \/ (a = "failure" /\ alive /\ r > first)
                      THEN r ELSE error
          /\ a = "metrics" => data' = r
      BY <1>4, <1>21 DEF EndTask
    <3>2. error # 0 => EarlierFailure'
      BY <1>6, <1>8, <1>21, <2>1 DEF PanelOK, ErrorIsEarlier
    <3> QED BY <2>1, <3>1, <3>2 DEF ErrorLeft
  <2> QED BY <2>1, <2>2, <2>3, <2>4, <2>5
<1> QED BY <1>20, <1>21

\* The initial state: no panel, no bar and no request.
LEMMA IInvInit == Init => IInv
<1> SUFFICES ASSUME Init PROVE IInv
  OBVIOUS
<1> USE BarAssumption, PanelAssumption DEF BarAssumption, PanelAssumption
<1>1. BarOK
  <2>1. count \in 0..MaxRequests /\ seen \in 0..MaxRequests /\ hides \in 0..MaxHides
    BY DEF Init, BarInit
  <2>2. bar \in BOOLEAN /\ visible \in BOOLEAN /\ armed \in BOOLEAN
    BY DEF Init, BarInit
  <2>3. hides = 0 /\ ~armed
    BY DEF Init, BarInit
  <2> QED BY <2>1, <2>2, <2>3 DEF BarOK, BarTypeOK
<1>2. PanelTypeOK
  <2>1. /\ kind \in Kinds /\ entity \in Entities \cup {Absent, None}
        /\ run \in 0..MaxRuns /\ first \in 0..run /\ live \in {0, run}
        /\ asked \in [Runs -> Entities \cup {Absent, None}]
        /\ answer \in [Runs -> Answers \cup {"none", "pending", "body"}]
        /\ error \in 0..run /\ data \in 0..run
    BY DEF Init
  <2>2. alive \in BOOLEAN /\ loading \in BOOLEAN /\ available \in BOOLEAN
    BY DEF Init
  <2> QED BY <2>1, <2>2 DEF PanelTypeOK
<1>3. LiveOK /\ LoadingOK /\ DataIsLast /\ ErrorIsEarlier /\ AnswerOK
  BY DEF Init, LiveOK, LoadingOK, DataIsLast, ErrorIsEarlier, AnswerOK, Asks
<1> QED BY <1>1, <1>2, <1>3 DEF IInv, PanelOK

\* What the effect does for the entity e.
LEMMA EntityOK ==
    ASSUME IInv, NEW e \in Entities \cup {Absent, None}, IF Asks(e) THEN Begin(e) ELSE BeginNothing,
           entity' = e, kind' = kind, alive', alive => first' = first, first' \in {first, run}
    PROVE  IInv'
<1>1. CASE Asks(e)
  <2>1. Begin(e)
    BY <1>1
  <2>2. BarOK'
    BY <2>1, RequestBarOK DEF Begin, IInv
  <2>3. PanelOK'
    BY <1>1, <2>1, BeginOK DEF IInv
  <2> QED BY <2>2, <2>3 DEF IInv
<1>2. CASE ~Asks(e)
  <2>1. BeginNothing
    BY <1>2
  <2>2. BarOK'
    BY <2>1, BarUnchangedOK DEF BeginNothing, IInv
  <2>3. PanelOK'
    BY <1>2, <2>1, NothingOK DEF IInv
  <2> QED BY <2>2, <2>3 DEF IInv
<1> QED BY <1>1, <1>2

\* Every step of the panel, the bar and the counter keeps the invariant.
LEMMA IInvStep == IInv /\ [Next]_vars => IInv'
<1> SUFFICES ASSUME IInv, [Next]_vars PROVE IInv'
  OBVIOUS
<1> USE DEF IInv
<1>1. ASSUME NEW e \in Entities \cup {Absent, None}, Mount(e) PROVE IInv'
  BY <1>1, EntityOK DEF Mount
<1>2. ASSUME NEW e \in Entities \cup {Absent, None}, Change(e) PROVE IInv'
  BY <1>2, EntityOK DEF Change
<1>3. CASE Unmount
  BY <1>3, GoneOK, BarUnchangedOK DEF Unmount
<1>4. CASE Fail
  BY <1>4, GoneOK, UnmountBarOK DEF Fail
<1>5. ASSUME NEW r \in Runs, Arrive(r) PROVE IInv'
  BY <1>5, ArriveOK, RequestBarOK DEF Arrive
<1>6. ASSUME NEW r \in Runs, Reject(r) PROVE IInv'
  <2>1. "failure" \in Answers
    BY DEF Answers
  <2> QED BY <1>6, <2>1, EndsOK, RequestBarOK DEF Reject
<1>7. ASSUME NEW r \in Runs, NEW a \in Answers, Settle(r, a) PROVE IInv'
  BY <1>7, EndsOK, BarUnchangedOK DEF Settle
<1>8. ASSUME UNCHANGED panel PROVE PanelOK'
  <2>1. UNCHANGED <<kind, alive, entity, run, first, live, asked, answer, loading, available,
                    error, data>>
    BY <1>8 DEF panel
  <2>2. PanelTypeOK'
    BY <2>1 DEF PanelOK, PanelTypeOK
  <2>3. LiveOK' /\ LoadingOK' /\ DataIsLast' /\ ErrorIsEarlier' /\ AnswerOK'
    BY <2>1 DEF PanelOK, LiveOK, Asks, LoadingOK, DataIsLast, ErrorIsEarlier, AnswerOK, Settled, EarlierFailure,
                MetricsLeft, DataLeft, ErrorLeft, ClusterLeft
  <2> QED BY <2>2, <2>3 DEF PanelOK
<1>9. CASE (MountBar \/ BarTimer) /\ UNCHANGED panel
  BY <1>8, <1>9, MountBarOK, BarTimerOK
<1>10. CASE UNCHANGED vars
  BY <1>8, <1>10, BarUnchangedOK DEF vars
<1> QED BY <1>1, <1>2, <1>3, <1>4, <1>5, <1>6, <1>7, <1>9, <1>10 DEF Next

\* The invariant holds in every state.
LEMMA IInvAlways == Spec => []IInv
BY IInvInit, IInvStep, PTL DEF Spec

-----------------------------------------------------------------------------
(* The properties.                                                         *)

\* Every variable of the panel, the counter and the bar has its type: runs are
\* numbered up to the last one, what is kept is of a run that has asked, and no
\* more hides than the bound are under way.
THEOREM TypeCorrect == Spec => []TypeOK
<1>1. IInv => TypeOK
  BY DEF IInv, BarOK, PanelOK, PanelTypeOK, TypeOK
<1> QED BY <1>1, IInvAlways, PTL

\* A panel shows the answer to its own latest request and nothing of an earlier
\* one, whatever order the answers come in; only the details may lose it to an
\* earlier request that fails late.
THEOREM OwnAnswer == Spec => []ShowsItsOwnAnswer
<1>1. IInv => ShowsItsOwnAnswer
  <2> SUFFICES ASSUME IInv, alive, live # 0
               PROVE  IF ~Settled(live)
                      THEN Shows = "loading"
                      ELSE \/ Shows = Meaning(answer[live])
                           \/ kind \in Detail /\ EarlierFailure /\ Shows \in {"warning", "no metrics"}
    BY DEF ShowsItsOwnAnswer
  <2>1. /\ loading <=> ~Settled(live)
        /\ entity # None /\ (kind \in Detail => entity # Absent)
    BY PanelAssumption DEF PanelAssumption, IInv, PanelOK, LoadingOK, LiveOK, Asks, Detail
  <2>2. CASE ~Settled(live)
    BY <2>1, <2>2 DEF Shows, NodeMetricsComponent, ServiceMetricsComponent,
                      DetailsServiceComponent, DetailsTaskComponent, ClusterMetricsHeader,
                      IInv, PanelOK, PanelTypeOK, Kinds
  <2>3. ASSUME Settled(live)
        PROVE  \/ Shows = Meaning(answer[live])
               \/ kind \in Detail /\ EarlierFailure /\ Shows \in {"warning", "no metrics"}
    <3> DEFINE a == answer[live]
    <3>1. a \in Answers /\ ~loading
      BY <2>1, <2>3 DEF Settled
    <3>2. CASE kind \in {"node", "service"}
      <4>1. MetricsLeft(a)
        BY <2>3, <3>2 DEF IInv, PanelOK, AnswerOK
      <4>2. Shows = NodeMetricsComponent
        BY <3>2 DEF Shows, ServiceMetricsComponent
      <4> QED BY <3>1, <3>2, <4>1, <4>2
              DEF MetricsLeft, Meaning, Answers, Available, NodeMetricsComponent
    <3>3. CASE kind = "serviceTasks"
      <4>1. DataLeft(a)
        BY <2>3, <3>3 DEF IInv, PanelOK, AnswerOK, Detail
      <4>2. Shows = DetailsServiceComponent
        BY <3>3 DEF Shows
      <4> QED BY <2>1, <3>1, <3>3, <4>1, <4>2
              DEF DataLeft, Meaning, Answers, Detail, DetailsServiceComponent
    <3>4. CASE kind = "task"
      <4>1. DataLeft(a) /\ ErrorLeft(a)
        BY <2>3, <3>4 DEF IInv, PanelOK, AnswerOK, Detail
      <4>2. Shows = DetailsTaskComponent
        BY <3>4 DEF Shows
      <4> QED BY <2>1, <3>1, <3>4, <4>1, <4>2
              DEF DataLeft, ErrorLeft, Meaning, Answers, Detail, DetailsTaskComponent
    <3>5. CASE kind = "cluster"
      <4>1. ClusterLeft(a)
        BY <2>3, <3>5 DEF IInv, PanelOK, AnswerOK
      <4>2. Shows = ClusterMetricsHeader
        BY <3>5 DEF Shows
      <4> QED BY <3>1, <3>5, <4>1, <4>2
              DEF ClusterLeft, Meaning, Answers, Available, ClusterMetricsHeader
    <3> QED BY <3>2, <3>3, <3>4, <3>5 DEF IInv, PanelOK, PanelTypeOK, Kinds
  <2> QED BY <2>2, <2>3
<1> QED BY <1>1, IInvAlways, PTL

\* Metrics on display are the answer to the last request of this mount, and are
\* those of the entity on display; only the page of a task whose detail became {}
\* keeps those of the task it showed before.
THEOREM OfEntity == Spec => []MetricsAreOfEntity
<1>1. IInv => MetricsAreOfEntity
  <2> SUFFICES ASSUME IInv, Shows = "metrics"
               PROVE  /\ data = run /\ first < run
                      /\ \/ live = run /\ asked[run] = entity
                         \/ kind = "task" /\ entity = Absent
    BY DEF MetricsAreOfEntity
  <2>1. alive
    BY DEF Shows
  <2>2. /\ ~loading /\ (kind # "cluster" => data # 0)
        /\ kind \in Detail => entity # None /\ (entity = Absent => kind = "task")
    BY <2>1 DEF Shows, NodeMetricsComponent, ServiceMetricsComponent, DetailsServiceComponent,
                DetailsTaskComponent, ClusterMetricsHeader, IInv, PanelOK, PanelTypeOK, Kinds,
                Detail
  <2>3. CASE kind \in Detail
    <3>1. data = run /\ first < run
      BY <2>1, <2>2, <2>3 DEF IInv, PanelOK, DataIsLast, Detail
    <3>2. CASE entity \in Entities
      <4>1. live # 0 /\ asked[live] = entity
        BY <3>2 DEF IInv, PanelOK, LiveOK, Asks
      <4>2. live = run
        BY <4>1 DEF IInv, PanelOK, PanelTypeOK
      <4> QED BY <3>1, <4>1, <4>2
    <3>3. CASE entity = Absent
      BY <2>2, <2>3, <3>1, <3>3
    <3> QED BY <2>2, <2>3, <3>2, <3>3 DEF IInv, PanelOK, PanelTypeOK
  <2>4. CASE kind \notin Detail
    <3>1. live # 0 /\ asked[live] = entity /\ first < live /\ Settled(live)
      BY <2>1, <2>2, <2>4 DEF IInv, PanelOK, LiveOK, LoadingOK
    <3>2. live = run
      BY <3>1 DEF IInv, PanelOK, PanelTypeOK
    <3>3. data = live
      <4>1. CASE kind \in {"node", "service"}
        BY <2>2, <3>1, <4>1 DEF IInv, PanelOK, AnswerOK, MetricsLeft
      <4>2. CASE kind = "cluster"
        BY <3>1, <4>2 DEF IInv, PanelOK, AnswerOK, ClusterLeft
      <4> QED BY <2>4, <4>1, <4>2 DEF IInv, PanelOK, PanelTypeOK, Kinds, Detail
    <3> QED BY <3>1, <3>2, <3>3
  <2> QED BY <2>3, <2>4
<1> QED BY <1>1, IInvAlways, PTL

=============================================================================
