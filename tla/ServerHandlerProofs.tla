------------------------ MODULE ServerHandlerProofs -------------------------
(***************************************************************************)
(* Proofs of the safety properties of two request handlers of the server:  *)
(* MetricsRequest, for any finite sets of nodes and agents, any tasks and  *)
(* any number of changes of the swarm, and, in the second part,            *)
(* VersionCache, for any number of requests and releases and any cache     *)
(* timeout.                                                                *)
(***************************************************************************)
EXTENDS MetricsRequest, VersionCache, FiniteSetTheorems, TLAPS

\* Sets of workers are finite and have sizes.
LEMMA JobSets ==
    ASSUME NEW S \in SUBSET Jobs
    PROVE  IsFiniteSet(S) /\ Cardinality(S) \in Nat
<1>1. IsFiniteSet(Jobs)
  BY MetricsAssumption, FS_Union DEF MetricsAssumption, Jobs
<1> QED BY <1>1, FS_Subset, FS_CardinalityType

\* A handler that has received as many results as it started workers has
\* received the result of every worker.
LEMMA AllReceived ==
    ASSUME NEW R \in SUBSET Jobs, NEW J \in SUBSET Jobs,
           R \subseteq J, Cardinality(R) = Cardinality(J)
    PROVE  R = J
BY JobSets, FS_Subset

\* What a worker sends is one of the samples; only a failure is not ok, and only
\* what was parsed is of a node.
LEMMA MeasureFacts ==
    /\ NoSample \in Samples /\ ~NoSample.ok /\ NoSample.tasks = {}
    /\ Unparsed \in Samples /\ Unparsed.node = None /\ Unparsed.tasks = {}
    /\ running \in SUBSET Tasks =>
         \A n \in Nodes :
            /\ Measure(n) \in Samples /\ Measure(n).node = n
            /\ \A t \in Measure(n).tasks : Place[t] = n
BY DEF Measure, Samples, NoSample, Unparsed

\* What was measured, and where agents are, changes only with the swarm.
LEMMA SameSwarm ==
    ASSUME TypeOK, request' = request, agent' = agent, running' = running
    PROVE  /\ Concerned' = Concerned
           /\ \A j : At(j)' = At(j)
           /\ \A n : Measure(n)' = Measure(n)
<1>1. \A j : At(j)' = At(j)
  BY DEF At, Running
<1>2. \A n : Measure(n)' = Measure(n)
  BY DEF Measure
<1>3. Concerned' = Concerned
  BY DEF Concerned
<1> QED BY <1>1, <1>2, <1>3

\* The initial state satisfies the invariant.
LEMMA IInvInit == Init => IInv
<1> SUFFICES ASSUME Init PROVE IInv
  OBVIOUS
<1>1. NoSample \in Samples /\ NoSample.tasks = {}
  BY MeasureFacts
<1>2. MaxFaults \in Nat
  BY MetricsAssumption DEF MetricsAssumption
<1>3. Cardinality({}) = 0
  BY FS_EmptySet
<1>4. TypeOK
  BY <1>1, <1>2 DEF Init, TypeOK
<1>5. WorkersReport /\ AnswerIsMeasured
  BY <1>1, <1>3 DEF Init, WorkersReport, AnswerIsMeasured
<1>6. StillSwarm
  <2>1. /\ pc = "begin" /\ \A j \in Jobs : worker[j] = "idle" /\ sample[j] = NoSample
        /\ \A a \in Agents : agent[a] # "none" => On[a] \in members
    BY DEF Init
  <2> QED BY <2>1 DEF StillSwarm
<1>7. NothingLeftBehind /\ PartialFailureIsTolerated /\ TaskIsItsOwn
  BY DEF Init, NothingLeftBehind, PartialFailureIsTolerated, TaskIsItsOwn
<1> QED BY <1>4, <1>5, <1>6, <1>7 DEF IInv

\* An answer given before any worker was started.
LEMMA EarlyReply ==
    ASSUME IInv, pc \in {"begin", "find", "list"},
           NEW a \in BOOLEAN, NEW note \in {"error", "message"},
           Reply(a, note, {}), nodeCount' \in Nat,
           UNCHANGED <<request, swarm, faults, jobs, expected, work, received>>
    PROVE  IInv'
<1>1. jobs = {} /\ \A j \in Jobs : worker[j] = "idle"
  BY DEF IInv, TypeOK, WorkersReport
<1>2. received = {} /\ chan = {}
  BY <1>1 DEF IInv, TypeOK
<1>3. TypeOK'
  BY <1>1, <1>2 DEF IInv, TypeOK, Reply, swarm, work
<1>4. WorkersReport' /\ AnswerIsMeasured'
  BY <1>1, <1>2 DEF IInv, WorkersReport, AnswerIsMeasured, Reply, work
<1>5. answer'.note # "none"
  BY DEF Reply
<1>6. StillSwarm'
  <2>1. (\A j : At(j)' = At(j)) /\ (\A n : Measure(n)' = Measure(n))
    BY SameSwarm DEF IInv, swarm
  <2> QED BY <1>5, <2>1 DEF IInv, StillSwarm, swarm, work
<1>7. NothingLeftBehind' /\ PartialFailureIsTolerated' /\ TaskIsItsOwn'
  BY <1>1, <1>2
     DEF Reply, NothingLeftBehind, PartialFailureIsTolerated, TaskIsItsOwn, work
<1> QED BY <1>3, <1>4, <1>6, <1>7 DEF IInv

\* A handler that goes on to its next call.
LEMMA GoOn ==
    ASSUME IInv, pc \in {"begin", "find"}, pc' \in {"find", "list"},
           nodeCount' \in Nat,
           pc = "begin" /\ request.kind = "cluster" => nodeCount' = Cardinality(members),
           pc = "find" => nodeCount' = nodeCount,
           UNCHANGED <<request, swarm, faults, jobs, expected, work, received, answer>>
    PROVE  IInv'
<1>1. TypeOK'
  BY DEF IInv, TypeOK, swarm, work
<1>2. WorkersReport' /\ AnswerIsMeasured'
  BY DEF IInv, WorkersReport, AnswerIsMeasured, work
<1>3. StillSwarm'
  <2>1. (\A j : At(j)' = At(j)) /\ (\A n : Measure(n)' = Measure(n))
    BY SameSwarm DEF IInv, swarm
  <2> QED BY <2>1 DEF IInv, StillSwarm, swarm, work
<1>4. NothingLeftBehind' /\ PartialFailureIsTolerated' /\ TaskIsItsOwn'
  BY DEF IInv, NothingLeftBehind, PartialFailureIsTolerated, TaskIsItsOwn, work
<1> QED BY <1>1, <1>2, <1>3, <1>4 DEF IInv

\* The workers that the request asks for are started.
LEMMA Started ==
    ASSUME IInv, pc = "list", NEW js \in SUBSET Jobs, js = Concerned,
           StartWorkers(js),
           UNCHANGED <<request, swarm, faults, nodeCount, target, sample, chan, received>>
    PROVE  IInv'
<1>1. /\ jobs = {} /\ chan = {} /\ received = {}
      /\ \A j \in Jobs : worker[j] = "idle" /\ sample[j] = NoSample
  BY DEF IInv, TypeOK, WorkersReport
<1>2. /\ jobs' = js /\ pc' = "collect" /\ answer' = answer
      /\ expected' = Cardinality(js) /\ expected' \in Nat
      /\ \A j \in Jobs : worker'[j] = IF j \in js THEN "resolve" ELSE "idle"
  BY JobSets DEF StartWorkers
<1>3. TypeOK'
  BY <1>1, <1>2 DEF IInv, TypeOK, StartWorkers, swarm
<1>4. WorkersReport' /\ AnswerIsMeasured'
  BY <1>1, <1>2 DEF IInv, WorkersReport, AnswerIsMeasured
<1>5. StillSwarm'
  <2>1. Concerned' = Concerned
    BY SameSwarm DEF IInv, swarm
  <2>2. \A j \in Jobs : worker'[j] # "fetch" /\ sample'[j] = NoSample
    BY <1>1, <1>2
  <2>3. UNCHANGED <<request, members, agent, faults, nodeCount>>
    BY DEF swarm
  <2>4. pc # "begin" /\ pc # "answered" /\ answer' = answer /\ jobs' = Concerned
    BY <1>2
  <2> QED BY <2>1, <2>2, <2>3, <2>4 DEF IInv, StillSwarm
<1>6. NothingLeftBehind' /\ PartialFailureIsTolerated' /\ TaskIsItsOwn'
  BY <1>2 DEF IInv, NothingLeftBehind, PartialFailureIsTolerated, TaskIsItsOwn,
              AnswerIsMeasured
<1> QED BY <1>3, <1>4, <1>5, <1>6 DEF IInv

\* The steps of the handler up to the start of the workers.
LEMMA HandlerBegins ==
    ASSUME IInv, CallFails \/ Begin \/ Find \/ ListTasks
    PROVE  IInv'
<1> USE DEF IInv
<1>1. nodeCount \in Nat /\ Cardinality(members) \in Nat
  BY JobSets DEF TypeOK, Jobs
<1>2. CASE CallFails
  BY <1>1, <1>2, EarlyReply DEF CallFails
<1>3. CASE Begin
  <2>1. CASE Reply(FALSE, "message", {})
    BY <1>1, <1>3, <2>1, EarlyReply DEF Begin
  <2>2. CASE pc' = "find" /\ UNCHANGED answer
    BY <1>1, <1>3, <2>2, GoOn DEF Begin
  <2> QED BY <1>3, <2>1, <2>2 DEF Begin
<1>4. CASE Find
  <2>1. CASE Reply(FALSE, "message", {})
    BY <1>1, <1>4, <2>1, EarlyReply DEF Find
  <2>2. CASE pc' = "list" /\ UNCHANGED answer
    BY <1>1, <1>4, <2>2, GoOn DEF Find
  <2> QED BY <1>4, <2>1, <2>2 DEF Find
<1>5. CASE ListTasks
  <2>1. CASE \E a \in BOOLEAN, note \in {"error", "message"} :
               Reply(a, note, {}) /\ UNCHANGED <<jobs, expected, worker>>
    BY <1>1, <1>5, <2>1, EarlyReply DEF ListTasks, work
  <2>2. CASE StartWorkers(Concerned)
    <3>1. Concerned \in SUBSET Jobs
      BY MetricsAssumption
         DEF MetricsAssumption, Concerned, TypeOK, Requests, Jobs
    <3> QED BY <1>5, <2>2, <3>1, Started DEF ListTasks
  <2>3. \/ \E a \in BOOLEAN, note \in {"error", "message"} :
             Reply(a, note, {}) /\ UNCHANGED <<jobs, expected, worker>>
        \/ StartWorkers(Concerned)
    BY <1>5 DEF ListTasks, Concerned
  <2> QED BY <2>1, <2>2, <2>3
<1> QED BY <1>2, <1>3, <1>4, <1>5

\* A worker that resolves its address moves on and touches no result.
LEMMA ResolveStep ==
    ASSUME IInv, NEW j \in Jobs, Resolve(j)
    PROVE  IInv'
<1>1. /\ worker[j] = "resolve" /\ worker' = [worker EXCEPT ![j] = "fetch"]
      /\ UNCHANGED <<request, swarm, pc, nodeCount, jobs, expected, sample, chan, received, answer>>
  BY DEF Resolve
<1>2. TypeOK'
  <2>1. \A a \in At(j) : a \in Agents
    BY DEF At, Running
  <2>2. /\ target' \in [Jobs -> Agents \cup {None}]
        /\ faults' \in 0..MaxFaults
    BY <2>1, MetricsAssumption DEF MetricsAssumption, Resolve, IInv, TypeOK
  <2> QED BY <1>1, <2>2 DEF IInv, TypeOK, swarm
<1>3. pc = "collect"
  BY <1>1 DEF IInv, TypeOK, WorkersReport, NothingLeftBehind
<1>4. WorkersReport' /\ AnswerIsMeasured'
  BY <1>1 DEF IInv, TypeOK, WorkersReport, AnswerIsMeasured
<1>5. StillSwarm'
  <2>1. Concerned' = Concerned /\ (\A i : At(i)' = At(i)) /\ (\A n : Measure(n)' = Measure(n))
    BY <1>1, SameSwarm DEF IInv, swarm
  <2>2. faults' = 0 => /\ faults = 0
                       /\ \E a : /\ target' = [target EXCEPT ![j] = a]
                                 /\ At(j) # {} => a \in At(j)
    BY MetricsAssumption DEF MetricsAssumption, Resolve, IInv, TypeOK
  <2>3. faults' = 0 =>
          \A i \in Jobs : At(i) # {} /\ worker'[i] = "fetch" => target'[i] \in At(i)
    BY <1>1, <2>2 DEF IInv, TypeOK, StillSwarm
  <2>4. UNCHANGED <<request, members, agent, nodeCount, pc, answer, jobs, sample>>
    BY <1>1 DEF swarm
  <2> QED BY <2>1, <2>2, <2>3, <2>4 DEF IInv, StillSwarm
<1>6. NothingLeftBehind' /\ PartialFailureIsTolerated' /\ TaskIsItsOwn'
  BY <1>1, <1>3
     DEF IInv, NothingLeftBehind, PartialFailureIsTolerated, TaskIsItsOwn,
         AnswerIsMeasured
<1> QED BY <1>2, <1>4, <1>5, <1>6 DEF IInv

\* A worker that reports: its result is in the channel and it has ended.
LEMMA ReportStep ==
    ASSUME IInv, NEW j \in Jobs, worker[j] = "fetch",
           NEW result \in Samples, Report(j, result),
           \A t \in result.tasks : Place[t] = result.node,
           faults = 0 /\ At(j) # {} => result \in {NoSample, Unparsed, Measure(NodeOf(j))}
    PROVE  IInv'
<1>1. /\ worker' = [worker EXCEPT ![j] = "done"]
      /\ sample' = [sample EXCEPT ![j] = result]
      /\ chan' = chan \cup {j}
      /\ UNCHANGED <<request, swarm, faults, pc, nodeCount, jobs, expected, target, received, answer>>
  BY DEF Report
<1>2. j \in jobs /\ j \notin chan /\ j \notin received /\ pc = "collect"
  BY DEF IInv, TypeOK, WorkersReport, NothingLeftBehind
<1>3. TypeOK'
  BY <1>1, <1>2 DEF IInv, TypeOK, swarm
<1>4. WorkersReport' /\ AnswerIsMeasured'
  BY <1>1, <1>2 DEF IInv, TypeOK, WorkersReport, AnswerIsMeasured
<1>5. StillSwarm'
  <2>1. Concerned' = Concerned /\ (\A i : At(i)' = At(i)) /\ (\A n : Measure(n)' = Measure(n))
    BY <1>1, SameSwarm DEF IInv, swarm
  <2>2. \A i \in Jobs : worker'[i] = (IF i = j THEN "done" ELSE worker[i])
    BY <1>1 DEF IInv, TypeOK
  <2>3. \A i \in Jobs : sample'[i] = (IF i = j THEN result ELSE sample[i])
    BY <1>1 DEF IInv, TypeOK
  <2>4. UNCHANGED <<request, members, agent, nodeCount, pc, answer, jobs, target, faults>>
    BY <1>1 DEF swarm
  <2>5. faults = 0 => \A i \in Jobs : At(i) # {} =>
          /\ worker'[i] = "fetch" => target[i] \in At(i)
          /\ sample'[i] \in {NoSample, Unparsed, Measure(NodeOf(i))}
    BY <2>2, <2>3 DEF IInv, StillSwarm
  <2> QED BY <2>1, <2>4, <2>5 DEF IInv, StillSwarm
<1>6. NothingLeftBehind' /\ PartialFailureIsTolerated' /\ TaskIsItsOwn'
  BY <1>1, <1>2
     DEF IInv, NothingLeftBehind, PartialFailureIsTolerated, TaskIsItsOwn,
         AnswerIsMeasured
<1> QED BY <1>3, <1>4, <1>5, <1>6 DEF IInv

\* The steps of a worker.
LEMMA WorkerStep ==
    ASSUME IInv, NEW j \in Jobs, Worker(j)
    PROVE  IInv'
<1>1. CASE Resolve(j)
  BY <1>1, ResolveStep
<1>2. CASE Fetch(j)
  <2>1. PICK a \in Running : target[j] \in {a, None} /\ Report(j, Measure(On[a]))
    BY <1>2 DEF Fetch
  <2>2. a \in Agents /\ On[a] \in Nodes
    BY MetricsAssumption DEF MetricsAssumption, Running
  <2>3. faults = 0 /\ At(j) # {} => On[a] = NodeOf(j)
    <3>1. SUFFICES ASSUME faults = 0, At(j) # {} PROVE On[a] = NodeOf(j)
      OBVIOUS
    <3>2. target[j] \in At(j) /\ At(j) \subseteq Agents
      BY <1>2, <3>1 DEF Fetch, IInv, StillSwarm, At, Running
    <3>3. target[j] = a
      BY <2>1, <3>2, MetricsAssumption DEF MetricsAssumption
    <3> QED BY <3>2, <3>3 DEF At
  <2>4. running \in SUBSET Tasks
    BY DEF IInv, TypeOK
  <2>5. /\ Measure(On[a]) \in Samples
        /\ \A t \in Measure(On[a]).tasks : Place[t] = Measure(On[a]).node
    BY <2>2, <2>4, MeasureFacts
  <2> QED BY <1>2, <2>1, <2>3, <2>5, ReportStep DEF Fetch
<1>3. CASE Misread(j)
  <2>1. PICK result \in {NoSample, Unparsed} : Report(j, result)
    BY <1>3 DEF Misread
  <2>2. result \in Samples /\ result.tasks = {}
    BY <2>1, MeasureFacts
  <2> QED BY <1>3, <2>1, <2>2, ReportStep DEF Misread
<1>4. CASE FetchFails(j)
  <2>1. NoSample \in Samples /\ NoSample.tasks = {}
    BY MeasureFacts
  <2> QED BY <1>4, <2>1, ReportStep DEF FetchFails
<1> QED BY <1>1, <1>2, <1>3, <1>4 DEF Worker

\* The handler receives a result.
LEMMA CollectStep ==
    ASSUME IInv, Collect
    PROVE  IInv'
<1>1. PICK j \in chan : chan' = chan \ {j} /\ received' = received \cup {j}
  BY DEF Collect
<1>2. /\ pc = "collect"
      /\ UNCHANGED <<request, swarm, faults, pc, nodeCount, jobs, expected, worker, target, sample, answer>>
  BY DEF Collect
<1>3. TypeOK'
  BY <1>1, <1>2 DEF IInv, TypeOK, swarm
<1>4. WorkersReport' /\ AnswerIsMeasured'
  BY <1>1, <1>2 DEF IInv, TypeOK, WorkersReport, AnswerIsMeasured
<1>5. StillSwarm'
  <2>1. Concerned' = Concerned /\ (\A i : At(i)' = At(i)) /\ (\A n : Measure(n)' = Measure(n))
    BY <1>2, SameSwarm DEF IInv, swarm
  <2> QED BY <1>2, <2>1 DEF IInv, StillSwarm, swarm
<1>6. NothingLeftBehind' /\ PartialFailureIsTolerated' /\ TaskIsItsOwn'
  BY <1>2 DEF IInv, NothingLeftBehind, PartialFailureIsTolerated, TaskIsItsOwn,
              AnswerIsMeasured
<1> QED BY <1>3, <1>4, <1>5, <1>6 DEF IInv

\* The answer, once every result is in.
LEMMA AnswerStep ==
    ASSUME IInv, Answer
    PROVE  IInv'
<1>1. /\ pc = "collect" /\ pc' = "answered"
      /\ UNCHANGED <<request, swarm, faults, nodeCount, jobs, expected, work, received>>
  BY DEF Answer, Reply
<1>2. received = jobs
  <2>1. received \subseteq jobs /\ received \in SUBSET Jobs /\ jobs \in SUBSET Jobs
    BY DEF IInv, TypeOK
  <2>2. Cardinality(received) = Cardinality(jobs)
    BY DEF Answer, IInv, WorkersReport
  <2> QED BY <2>1, <2>2, AllReceived
<1>3. PICK a \in BOOLEAN, note \in {"none", "error", "message"}, from \in {{}, Good, Found} :
        answer' = [available |-> a, note |-> note, from |-> from]
  BY DEF Answer, Reply
<1>4. from \subseteq Good /\ Good \subseteq received
  BY DEF Found, Good
<1>5. \A j \in jobs : worker[j] = "done"
  BY <1>2 DEF IInv, TypeOK, WorkersReport
<1>6. TypeOK'
  BY <1>1, <1>3, <1>4 DEF IInv, TypeOK, swarm, work
<1>7. WorkersReport' /\ AnswerIsMeasured'
  <2>1. WorkersReport'
    BY <1>1 DEF IInv, WorkersReport, work
  <2>2. AnswerIsMeasured'
    BY <1>1, <1>3, <1>4 DEF AnswerIsMeasured, Good, work
  <2> QED BY <2>1, <2>2
<1>8. StillSwarm'
  <2>1. Concerned' = Concerned /\ (\A i : At(i)' = At(i)) /\ (\A n : Measure(n)' = Measure(n))
    BY <1>1, SameSwarm DEF IInv, swarm
  <2>2. answer.note = "none"
    BY <1>1 DEF IInv, AnswerIsMeasured
  <2> QED BY <1>1, <2>1, <2>2 DEF IInv, StillSwarm, swarm, work
<1>9. NothingLeftBehind'
  <2>1. chan = {}
    BY <1>2 DEF IInv, TypeOK
  <2>2. \A j \in Jobs : worker[j] = IF j \in jobs THEN "done" ELSE "idle"
    BY <1>5 DEF IInv, WorkersReport
  <2> QED BY <1>1, <1>2, <2>1, <2>2 DEF NothingLeftBehind, work
<1>10. PartialFailureIsTolerated'
  <2>1. Good = {j \in jobs : sample[j].ok}
    BY <1>2 DEF Good
  <2>2. request.kind \in {"cluster", "service", "node", "task"}
    BY DEF IInv, TypeOK, Requests
  <2>3. request.kind # "task" =>
          \/ Good = {} /\ answer'.from = {}
          \/ answer' = [available |-> TRUE, note |-> "none", from |-> Good]
    BY ONLY Answer, <2>2 DEF Answer, Reply
  <2> QED BY <1>1, <1>5, <2>1, <2>3 DEF PartialFailureIsTolerated, work
<1>11. TaskIsItsOwn'
  <2>1. request.kind = "task" => from \subseteq Found
    BY <1>3 DEF Answer, Reply
  <2>2. \A j \in Found : request.task \in sample[j].tasks
    BY DEF Found
  <2>3. \A j \in Found : j \in Jobs
    BY DEF Found, Good, IInv, TypeOK
  <2> QED BY <1>1, <1>3, <2>1, <2>2, <2>3 DEF IInv, WorkersReport, TaskIsItsOwn, work
<1> QED BY <1>6, <1>7, <1>8, <1>9, <1>10, <1>11 DEF IInv

\* The swarm changes: nothing is claimed any more of what was listed before.
LEMMA SwarmStep ==
    ASSUME IInv, SwarmChanges
    PROVE  IInv'
<1>1. /\ pc # "answered" /\ faults < MaxFaults /\ faults' = faults + 1
      /\ UNCHANGED <<request, pc, nodeCount, jobs, expected, work, received, answer>>
  BY DEF SwarmChanges
<1>2. faults' # 0 /\ faults' \in 0..MaxFaults
  BY <1>1, MetricsAssumption DEF MetricsAssumption, IInv, TypeOK
<1>3. /\ members' \in SUBSET Nodes /\ deployed' \in BOOLEAN
      /\ agent' \in [Agents -> AgentStates]
      /\ running' \in SUBSET Tasks
  BY DEF SwarmChanges, IInv, TypeOK, AgentStates
<1>4. TypeOK'
  BY <1>1, <1>2, <1>3 DEF IInv, TypeOK, work
<1>5. WorkersReport' /\ AnswerIsMeasured'
  BY <1>1 DEF IInv, WorkersReport, AnswerIsMeasured, work
<1>6. StillSwarm'
  <2>1. \A a \in Agents : agent'[a] # "none" => On[a] \in members'
    BY DEF SwarmChanges, IInv, TypeOK, StillSwarm
  <2> QED BY <1>2, <2>1 DEF StillSwarm
<1>7. NothingLeftBehind' /\ PartialFailureIsTolerated' /\ TaskIsItsOwn'
  BY <1>1
     DEF IInv, NothingLeftBehind, PartialFailureIsTolerated, TaskIsItsOwn,
         AnswerIsMeasured
<1> QED BY <1>4, <1>5, <1>6, <1>7 DEF IInv

\* A stuttering step.
LEMMA NoStep ==
    ASSUME IInv, UNCHANGED vars
    PROVE  IInv'
<1>1. TypeOK' /\ WorkersReport' /\ AnswerIsMeasured'
  BY DEF IInv, TypeOK, WorkersReport, AnswerIsMeasured, vars, swarm, work
<1>2. StillSwarm'
  <2>1. Concerned' = Concerned /\ (\A i : At(i)' = At(i)) /\ (\A n : Measure(n)' = Measure(n))
    BY SameSwarm DEF IInv, vars, swarm
  <2> QED BY <2>1 DEF IInv, StillSwarm, vars, swarm, work
<1>3. NothingLeftBehind' /\ PartialFailureIsTolerated' /\ TaskIsItsOwn'
  BY DEF IInv, NothingLeftBehind, PartialFailureIsTolerated, TaskIsItsOwn,
         vars, work
<1> QED BY <1>1, <1>2, <1>3 DEF IInv

LEMMA IInvNext == IInv /\ [Next]_vars => IInv'
BY HandlerBegins, WorkerStep, CollectStep, AnswerStep, SwarmStep, NoStep
   DEF Next, Handler, Terminated

\* The inductive invariant holds of every reachable state.
THEOREM Invariance == Spec => []IInv
BY IInvInit, IInvNext, PTL DEF Spec

\* Every variable keeps its type.
THEOREM TypeCorrect == Spec => []TypeOK
<1>1. IInv => TypeOK
  BY DEF IInv
<1> QED BY <1>1, Invariance, PTL

\* When the answer is sent every worker has ended and has been heard.
THEOREM NothingLeftBehindHolds == Spec => []NothingLeftBehind
<1>1. IInv => NothingLeftBehind
  BY DEF IInv
<1> QED BY <1>1, Invariance, PTL

\* A worker that fails hides no other, and none that was started is forgotten.
THEOREM PartialFailureIsToleratedHolds == Spec => []PartialFailureIsTolerated
<1>1. IInv => PartialFailureIsTolerated
  BY DEF IInv
<1> QED BY <1>1, Invariance, PTL

\* A task is shown its own measurements only.
THEOREM TaskIsItsOwnHolds == Spec => []TaskIsItsOwn
<1>1. IInv => TaskIsItsOwn
  BY DEF IInv
<1> QED BY <1>1, Invariance, PTL

\* Agents that run on different nodes are at most as many as the nodes.
LEMMA FewerAgentsThanNodes ==
    ASSUME IInv, NEW S \in SUBSET Agents, OnePerNode, \A a \in S : agent[a] = "running"
    PROVE  Cardinality(S) <= Cardinality(members)
<1> DEFINE f == [a \in S |-> On[a]]
<1>1. IsFiniteSet(members)
  BY MetricsAssumption, FS_Subset DEF MetricsAssumption, IInv, TypeOK
<1>2. f \in [S -> members]
  BY DEF IInv, StillSwarm
<1>3. \A a, b \in S : f[a] = f[b] => a = b
  BY DEF OnePerNode
<1>4. f \in Injection(S, members)
  BY <1>2, <1>3 DEF Injection, IsInjective
<1> HIDE DEF f
<1> QED BY <1>1, <1>4, FS_Injection

\* In a swarm that stands still there is one worker for each agent that runs or
\* node of the service; what it measured, when its node's agent has an address,
\* is its own node, and with one agent on each node none is counted twice.
THEOREM StillSwarmIsExactHolds == Spec => []StillSwarmIsExact
<1>1. IInv => StillSwarmIsExact
  <2> SUFFICES ASSUME IInv, pc = "answered", answer.note = "none", faults = 0
               PROVE  /\ jobs = Concerned
                      /\ (\A j \in jobs : At(j) # {}) =>
                           /\ \A j \in answer.from :
                                sample[j] \in {Unparsed, Measure(NodeOf(j))}
                           /\ OnePerNode =>
                                \A i, j \in answer.from :
                                  sample[i].node = sample[j].node /\ sample[i].node # None => i = j
                      /\ request.kind = "cluster" /\ OnePerNode =>
                           Cardinality(answer.from) <= nodeCount
    BY DEF StillSwarmIsExact
  <2>1. jobs = Concerned
    BY DEF IInv, StillSwarm
  <2>2. answer.from \subseteq jobs /\ jobs \subseteq Jobs
    BY DEF IInv, TypeOK
  <2>3. ASSUME \A j \in jobs : At(j) # {}, NEW j \in answer.from
        PROVE  sample[j] \in {Unparsed, Measure(NodeOf(j))}
    <3>1. sample[j] \in {NoSample, Unparsed, Measure(NodeOf(j))}
      BY <2>2, <2>3 DEF IInv, StillSwarm
    <3>2. sample[j].ok /\ ~NoSample.ok
      BY <2>3, MeasureFacts DEF IInv, AnswerIsMeasured
    <3> QED BY <3>1, <3>2
  <2>4. ASSUME \A j \in jobs : At(j) # {}, OnePerNode,
               NEW i \in answer.from, NEW j \in answer.from,
               sample[i].node = sample[j].node, sample[i].node # None
        PROVE  i = j
    <3>1. /\ sample[i] \in {Unparsed, Measure(NodeOf(i))}
          /\ sample[j] \in {Unparsed, Measure(NodeOf(j))}
      BY <2>3, <2>4
    <3>2. Unparsed.node = None
      BY MeasureFacts
    <3>3. Measure(NodeOf(i)).node = NodeOf(i) /\ Measure(NodeOf(j)).node = NodeOf(j)
      BY DEF Measure
    <3>4. NodeOf(i) = NodeOf(j)
      BY ONLY <2>4, <3>1, <3>2, <3>3
    <3>5. CASE request.kind = "cluster"
      <4>1. \A k \in jobs : k \in Agents /\ agent[k] = "running" /\ NodeOf(k) = On[k]
        BY <2>1, <3>5 DEF Concerned, NodeOf
      <4> QED BY <2>2, <2>4, <3>4, <4>1 DEF OnePerNode
    <3>6. CASE request.kind # "cluster"
      <4>1. jobs \subseteq Nodes
        BY <2>1, <3>6, MetricsAssumption
           DEF MetricsAssumption, Concerned, IInv, TypeOK, Requests
      <4>2. \A k \in jobs : NodeOf(k) = k
        BY <4>1, MetricsAssumption DEF MetricsAssumption, NodeOf
      <4> QED BY <2>2, <2>4, <3>4, <4>2
    <3> QED BY <3>5, <3>6
  <2>5. ASSUME request.kind = "cluster", OnePerNode
        PROVE  Cardinality(answer.from) <= nodeCount
    <3>1. \A a \in answer.from : a \in Agents /\ agent[a] = "running"
      BY <2>1, <2>2, <2>5 DEF Concerned
    <3>2. nodeCount = Cardinality(members)
      BY <2>5 DEF IInv, StillSwarm
    <3> QED BY <2>5, <3>1, <3>2, FewerAgentsThanNodes
  <2> QED BY <2>1, <2>3, <2>4, <2>5
<1> QED BY <1>1, Invariance, PTL

-----------------------------------------------------------------------------
(* The version cache.                                                      *)

\* The initial state satisfies the inductive invariant.
LEMMA VersionInvInit == VersionInit => VersionInv
<1> SUFFICES ASSUME VersionInit PROVE VersionInv
  OBVIOUS
<1>1. \A r \in Callers : reply[r].remote = NoTag /\ ~reply[r].update
  BY DEF VersionInit, NoReply
<1>a. Timeout \in Nat /\ MaxRelease \in Nat /\ MaxRelease # 0
  BY VersionAssumption DEF VersionAssumption
<1>b. /\ stage \in [Callers -> {"idle", "fetch", "store", "stamp"}]
      /\ remote \in [Callers -> 0..1]
      /\ since \in [Callers -> 0..Timeout]
  BY <1>a DEF VersionInit, NoTag
<1>c. NoReply \in [remote : 0..1, update : BOOLEAN, lastChecked : BOOLEAN]
  BY DEF NoReply, NoTag
<1>2. VersionTypeOK
  <2>1. reply \in
          [Callers -> [remote : 0..1, update : BOOLEAN, lastChecked : BOOLEAN]]
    BY <1>c DEF VersionInit
  <2>2. latest = 1 /\ age = Timeout /\ cached = 0
    BY DEF VersionInit, NoTag
  <2>3. enabled \in BOOLEAN /\ healthy \in BOOLEAN /\ checked \in BOOLEAN
    BY DEF VersionInit
  <2> QED BY <1>a, <1>b, <2>1, <2>2, <2>3 DEF VersionTypeOK
<1>3. ReleaseHasDate /\ UpdateIsReal
  BY <1>1 DEF ReleaseHasDate, UpdateIsReal
<1>4. \A r \in Callers : ~(since[r] < Timeout)
  <2> SUFFICES ASSUME NEW r \in Callers PROVE ~(since[r] < Timeout)
    OBVIOUS
  <2>1. since[r] = Timeout
    BY DEF VersionInit
  <2>2. ~(Timeout < Timeout)
    BY <1>a
  <2> QED BY <2>1, <2>2
<1> QED BY <1>2, <1>3, <1>4 DEF VersionInit, VersionInv

\* What the invariant says of one request, in the form the steps use.
LEMMA RequestStep ==
    ASSUME VersionInv, NEW r \in Callers, Request(r)
    PROVE  VersionInv'
<1>1. Local \in Nat /\ Timeout \in Nat /\ MaxRelease \in Nat
  BY VersionAssumption DEF VersionAssumption
<1>2. CASE UseCache(r)
  <2>1. VersionTypeOK'
    BY <1>1, <1>2
       DEF VersionInv, VersionTypeOK, UseCache, Goto,
           cacheVars, feedVars
  <2> QED
    BY <1>1, <1>2, <2>1
       DEF VersionInv, VersionTypeOK, UseCache, Goto,
           cacheVars, feedVars, Fresh,
           ReleaseHasDate, UpdateIsReal
<1>3. CASE CheckDisabled(r)
  <2>1. VersionTypeOK'
    BY <1>1, <1>3
       DEF VersionInv, VersionTypeOK, CheckDisabled, Goto,
           cacheVars, feedVars, NoTag
  <2> QED
    BY <1>1, <1>3, <2>1
       DEF VersionInv, VersionTypeOK, CheckDisabled, Goto,
           cacheVars, feedVars,
           ReleaseHasDate, UpdateIsReal
<1>4. CASE AskFeed(r)
  <2>1. VersionTypeOK'
    BY <1>1, <1>4
       DEF VersionInv, VersionTypeOK, AskFeed, Goto, cacheVars,
           feedVars, NoTag
  <2> QED
    BY <1>1, <1>4, <2>1
       DEF VersionInv, VersionTypeOK, AskFeed, Goto, cacheVars,
           feedVars,
           ReleaseHasDate, UpdateIsReal
<1>5. CASE FeedAnswers(r)
  <2>2. PICK p \in {"store", "stamp"}, tag \in 0..latest :
          stage' = [stage EXCEPT ![r] = p] /\ remote' = [remote EXCEPT ![r] = tag]
    BY <1>1, <1>5
       DEF VersionInv, VersionTypeOK, FeedAnswers, Goto, NoTag
  <2>3. /\ stage' \in [Callers -> {"idle", "fetch", "store", "stamp"}]
        /\ remote' \in [Callers -> 0..latest]
    BY <2>2 DEF VersionInv, VersionTypeOK
  <2>4. UNCHANGED <<enabled, latest, healthy, checked, age, cached, reply, since>>
    BY <1>5 DEF FeedAnswers, cacheVars, feedVars
  <2>1. VersionTypeOK'
    BY <2>3, <2>4 DEF VersionInv, VersionTypeOK
  <2> QED
    BY <1>1, <1>5, <2>1
       DEF VersionInv, VersionTypeOK, FeedAnswers, Goto,
           cacheVars, feedVars,
           ReleaseHasDate, UpdateIsReal
<1>6. CASE Store(r)
  <2>1. VersionTypeOK'
    BY <1>1, <1>6
       DEF VersionInv, VersionTypeOK, Store, Goto, feedVars
  <2>2. \A q \in Callers : since'[q] < Timeout => checked' /\ age' <= since'[q]
    BY <1>1, <1>6 DEF VersionInv, VersionTypeOK, Store
  <2> QED
    BY <1>1, <1>6, <2>1, <2>2
       DEF VersionInv, VersionTypeOK, Store, Goto, feedVars,
           ReleaseHasDate, UpdateIsReal
<1>7. CASE Stamp(r)
  <2>1. VersionTypeOK'
    BY <1>1, <1>7
       DEF VersionInv, VersionTypeOK, Stamp, Goto, cacheVars,
           feedVars, NoTag, UpdateAvailable
  <2>2. /\ reply'[r].remote = remote[r]
        /\ reply'[r].update => Local < remote[r]
        /\ reply'[r].lastChecked = checked
    BY <1>7 DEF VersionInv, VersionTypeOK, Stamp, UpdateAvailable
  <2>3. \A q \in Callers \ {r} : reply'[q] = reply[q]
    BY <1>7 DEF VersionInv, VersionTypeOK, Stamp
  <2>4. ReleaseHasDate'
    BY <1>7, <2>2, <2>3
       DEF VersionInv, Stamp, cacheVars, ReleaseHasDate
  <2>5. UpdateIsReal'
    BY <1>1, <1>7, <2>2, <2>3
       DEF VersionInv, VersionTypeOK, Stamp, feedVars,
           UpdateIsReal
  <2> QED
    BY <1>1, <1>7, <2>1, <2>4, <2>5
       DEF VersionInv, VersionTypeOK, Stamp, Goto, cacheVars,
           feedVars, NoTag
<1> QED BY <1>2, <1>3, <1>4, <1>5, <1>6, <1>7 DEF Request

\* The environment's steps: time, releases and the feed.
LEMMA OutsideStep ==
    ASSUME VersionInv,
           \/ Tick \/ Publish \/ FeedChanges
           \/ UNCHANGED versionVars
    PROVE  VersionInv'
<1>1. Local \in Nat /\ Timeout \in Nat /\ MaxRelease \in Nat
  BY VersionAssumption DEF VersionAssumption
<1>2. CASE Tick
  <2>1. VersionTypeOK'
    BY <1>1, <1>2 DEF VersionInv, VersionTypeOK, Tick, feedVars
  <2>2. \A q \in Callers : since'[q] < Timeout => checked' /\ age' <= since'[q]
    BY <1>1, <1>2 DEF VersionInv, VersionTypeOK, Tick
  <2> QED
    BY <1>1, <1>2, <2>1, <2>2
       DEF VersionInv, VersionTypeOK, Tick, feedVars,
           ReleaseHasDate, UpdateIsReal
<1>3. CASE Publish
  <2>1. VersionTypeOK'
    BY <1>1, <1>3 DEF VersionInv, VersionTypeOK, Publish, cacheVars
  <2> QED
    BY <1>1, <1>3, <2>1
       DEF VersionInv, VersionTypeOK, Publish, cacheVars,
           ReleaseHasDate, UpdateIsReal
<1>4. CASE FeedChanges
  BY <1>4
     DEF VersionInv, VersionTypeOK, FeedChanges, cacheVars,
         ReleaseHasDate, UpdateIsReal
<1>5. CASE UNCHANGED versionVars
  BY <1>5
     DEF VersionInv, VersionTypeOK, versionVars, cacheVars, feedVars,
         ReleaseHasDate, UpdateIsReal
<1> QED BY <1>2, <1>3, <1>4, <1>5

LEMMA VersionInvNext == VersionInv /\ [VersionNext]_versionVars => VersionInv'
BY RequestStep, OutsideStep DEF VersionNext

\* The inductive invariant holds of every reachable state: what a request may
\* answer with, and how old the cache may be, whatever the interleaving.
THEOREM VersionInvariance == VersionSpec => []VersionInv
BY VersionInvInit, VersionInvNext, PTL DEF VersionSpec

\* Every variable keeps its type, and nothing unpublished is cached or answered.
THEOREM VersionTypeCorrect == VersionSpec => []VersionTypeOK
<1>1. VersionInv => VersionTypeOK
  BY DEF VersionInv
<1> QED BY <1>1, VersionInvariance, PTL

\* An answer that names a release carries the time of a check.
THEOREM ReleaseHasDateHolds == VersionSpec => []ReleaseHasDate
<1>1. VersionInv => ReleaseHasDate
  BY DEF VersionInv
<1> QED BY <1>1, VersionInvariance, PTL

\* An update is claimed only for a published, newer release.
THEOREM UpdateIsRealHolds == VersionSpec => []UpdateIsReal
<1>1. VersionInv => UpdateIsReal
  BY DEF VersionInv
<1> QED BY <1>1, VersionInvariance, PTL

\* A step that turns to the feed finds the cache as old as the timeout, and so
\* the request's own last store at least as old.
LEMMA FeedStep ==
    ASSUME VersionInv, [VersionNext]_versionVars, NEW r \in Callers,
           stage[r] = "idle", stage'[r] = "fetch"
    PROVE  since[r] = Timeout
<1>1. Timeout \in Nat
  BY VersionAssumption DEF VersionAssumption
<1>2. PICK q \in Callers : Request(q)
  BY DEF VersionNext, versionVars, Tick, Publish, FeedChanges
<1>3. q = r /\ AskFeed(r)
  BY <1>2
     DEF Request, UseCache, CheckDisabled, AskFeed,
         FeedAnswers, Store, Stamp,
         Goto, VersionInv, VersionTypeOK
<1> QED BY <1>1, <1>3 DEF AskFeed, Fresh, VersionInv, VersionTypeOK

\* No request calls the feed twice within the timeout of its own answer.
THEOREM OneCallPerTimeoutHolds == VersionSpec => OneCallPerTimeout
<1>1. VersionInv /\ [VersionNext]_versionVars =>
        [\A r \in Callers :
            stage[r] = "idle" /\ stage'[r] = "fetch" => since[r] =
            Timeout]_versionVars
  BY FeedStep
<1> QED BY <1>1, VersionInvariance, PTL DEF VersionSpec, OneCallPerTimeout
=============================================================================
