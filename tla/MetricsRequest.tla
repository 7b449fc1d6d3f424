--------------------------- MODULE MetricsRequest ---------------------------
(***************************************************************************)
(* One request for metrics: clusterMetricsHandler and nodeMetricsHandler   *)
(* (src/server-src/node_metrics_handler.go), serviceMetricsHandler         *)
(* (service_metrics_handler.go) and taskMetricsHandler                     *)
(* (task_metrics_handler.go), while the swarm changes.                     *)
(*                                                                         *)
(* An agent is a task that measures its node: of node-exporter for the     *)
(* first two handlers, of cAdvisor for the others.  The handler lists what *)
(* runs and starts workers, for the cluster one for each agent and for a   *)
(* service one for each node; for a node or a task the handler itself is   *)
(* the only worker.  A worker is named after the agent or node it is for.  *)
(***************************************************************************)
EXTENDS Naturals, FiniteSets

CONSTANTS
    Nodes,
    Agents,       \* the agents' tasks
    On,           \* the node of each agent
    Addressed,    \* the agents with an address in NetworksAttachments
    Tasks,        \* the tasks of the service asked for
    Place,        \* the node of each task
    MaxFaults,    \* bound: changes of the swarm and failed lists in a request
    None

ASSUME MetricsAssumption ==
    /\ IsFiniteSet(Nodes) /\ IsFiniteSet(Agents) /\ Nodes \cap Agents = {}
    /\ On \in [Agents -> Nodes]
    /\ Addressed \subseteq Agents
    /\ Place \in [Tasks -> Nodes]
    /\ MaxFaults \in Nat
    /\ None \notin Nodes \cup Agents

Requests ==
    [kind : {"cluster", "service"}, node : {None}, task : {None}]
      \cup [kind : {"node"}, node : Nodes, task : {None}]
      \cup [kind : {"task"}, node : {None}, task : Tasks]

VARIABLES
    request,
    members,      \* the nodes of the swarm
    deployed,     \* a service has the agents' label
    agent,        \* the state of each agent; one that is leaving still runs
    running,      \* the tasks of the service that run
    faults,       \* changes of the swarm and failed lists since the request began
    pc,           \* where the handler is
    nodeCount,    \* len(nodes) of clusterMetricsHandler
    jobs,         \* the workers that were started
    expected,     \* startedGoroutines, or len(nodeIDs): the results to wait for
    worker,       \* where each worker is
    target,       \* the agent each worker turns to; None for the service's name
    sample,       \* what each worker measured; NoSample when it failed
    chan,         \* the workers whose result is in resultsChan
    received,     \* the workers whose result the handler has received
    answer

swarm    == <<members, deployed, agent, running>>
work     == <<worker, target, sample, chan>>
vars == <<request, swarm, faults, pc, nodeCount, jobs, expected, work, received, answer>>

Jobs == Nodes \cup Agents
NodeOf(j) == IF j \in Agents THEN On[j] ELSE j

AgentStates == {"none", "starting", "running", "leaving"}
Running == {a \in Agents : agent[a] \in {"running", "leaving"}}

\* A failure; what parseCAdvisorMetrics makes of text it cannot parse; and what
\* it, or parsePrometheusMetrics, makes of the text of the agent of a node.
NoSample == [ok |-> FALSE, node |-> None, tasks |-> {}]
Unparsed == [ok |-> TRUE, node |-> None, tasks |-> {}]
Measure(n) == [ok |-> TRUE, node |-> n, tasks |-> {t \in running : Place[t] = n}]

Init ==
    /\ request \in Requests
    /\ members \in SUBSET Nodes
    /\ deployed \in BOOLEAN
    /\ agent \in [Agents -> AgentStates]
    /\ \A a \in Agents : agent[a] # "none" => deployed /\ On[a] \in members
    /\ running \in SUBSET {t \in Tasks : Place[t] \in members}
    /\ faults = 0
    /\ pc = "begin"
    /\ nodeCount = 0
    /\ jobs = {} /\ expected = 0
    /\ worker = [j \in Jobs |-> "idle"]
    /\ target = [j \in Jobs |-> None]
    /\ sample = [j \in Jobs |-> NoSample]
    /\ chan = {}
    /\ received = {}
    /\ answer = [available |-> FALSE, note |-> "none", from |-> {}]

-----------------------------------------------------------------------------
(* The handlers up to the start of the workers.                            *)

\* The answer: metrics from some workers, an error or a message.
Reply(available, note, from) ==
    /\ pc' = "answered"
    /\ answer' = [available |-> available, note |-> note, from |-> from]

\* getCli, NodeList, ServiceList, TaskInspect or TaskList fails, or the service
\* asked for is not there.
CallFails ==
    /\ pc \in {"begin", "find", "list"}
    /\ pc = "list" => request.kind \in {"cluster", "service"}
    /\ Reply(FALSE, "error", {})
    /\ UNCHANGED <<request, swarm, faults, nodeCount, jobs, expected, work, received>>

\* The first look at the swarm: NodeList, the service or the task.
Begin ==
    /\ pc = "begin"
    /\ IF request.kind = "task" /\ request.task \notin running
       THEN Reply(FALSE, "message", {})
       ELSE pc' = "find" /\ UNCHANGED answer
    /\ nodeCount' = IF request.kind = "cluster" THEN Cardinality(members) ELSE 0
    /\ UNCHANGED <<request, swarm, faults, jobs, expected, work, received>>

\* findNodeExporterService or findCAdvisorService.
Find ==
    /\ pc = "find"
    /\ IF deployed THEN pc' = "list" /\ UNCHANGED answer
                   ELSE Reply(FALSE, "message", {})
    /\ UNCHANGED <<request, swarm, faults, nodeCount, jobs, expected, work, received>>

\* Mutant of StartWorkers: a node is expected to report once.
StartWorkersByNode(js) ==
    /\ pc' = "collect"
    /\ jobs' = js
    /\ expected' = Cardinality({NodeOf(j) : j \in js})
    /\ worker' = [j \in Jobs |-> IF j \in js THEN "resolve" ELSE "idle"]
    /\ UNCHANGED answer

StartWorkers(js) ==
    /\ pc' = "collect"
    /\ jobs' = js
    /\ expected' = Cardinality(js)
    /\ worker' = [j \in Jobs |-> IF j \in js THEN "resolve" ELSE "idle"]
    /\ UNCHANGED answer

\* TaskList: for the cluster the agents that should run, of which those that do
\* get a worker; for a service the nodes on which a task runs, each once.
ListTasks ==
    /\ pc = "list"
    /\ \/ /\ request.kind = "cluster"
          /\ IF \A a \in Agents : agent[a] \in {"none", "leaving"}
             THEN Reply(FALSE, "message", {}) /\ UNCHANGED <<jobs, expected, worker>>
             ELSE StartWorkers({a \in Agents : agent[a] = "running"})
       \/ /\ request.kind = "service"
          /\ IF running = {}
             THEN Reply(TRUE, "error", {}) /\ UNCHANGED <<jobs, expected, worker>>
             ELSE StartWorkers({Place[t] : t \in running})
       \/ request.kind = "node" /\ StartWorkers({request.node})
       \/ request.kind = "task" /\ StartWorkers({Place[request.task]})
    /\ UNCHANGED <<request, swarm, faults, nodeCount, target, sample, chan, received>>

-----------------------------------------------------------------------------
(* A worker: resolveServiceEndpoint, the fetch, the parser.                *)

\* The agents that run on the node of a worker and have an address.
At(j) == {a \in Running \cap Addressed : On[a] = NodeOf(j)}

\* Mutant of Resolve: the task list is not filtered by node.
ResolveAnyNode(j) ==
    /\ worker[j] = "resolve"
    /\ target' = [target EXCEPT ![j] = IF Running \cap Addressed = {} THEN None
                                       ELSE CHOOSE a \in Running \cap Addressed : TRUE]
    /\ UNCHANGED faults
    /\ worker' = [worker EXCEPT ![j] = "fetch"]
    /\ UNCHANGED <<request, swarm, pc, nodeCount, jobs, expected, sample, chan, received, answer>>

\* An agent that runs on the node: the first one listed, or one on a network of
\* the dashboard if those are known.  When none has an address, or the list
\* fails, the name of the service.
Resolve(j) ==
    /\ worker[j] = "resolve"
    /\ \/ /\ \/ \E a \in At(j) : target' = [target EXCEPT ![j] = a]
             \/ At(j) = {} /\ target' = [target EXCEPT ![j] = None]
          /\ UNCHANGED faults
       \/ /\ faults < MaxFaults
          /\ target' = [target EXCEPT ![j] = None]
          /\ faults' = faults + 1
    /\ worker' = [worker EXCEPT ![j] = "fetch"]
    /\ UNCHANGED <<request, swarm, pc, nodeCount, jobs, expected, sample, chan, received, answer>>

\* The worker's only result.
Report(j, result) ==
    /\ worker' = [worker EXCEPT ![j] = "done"]
    /\ sample' = [sample EXCEPT ![j] = result]
    /\ chan' = chan \cup {j}
    /\ UNCHANGED <<request, swarm, faults, pc, nodeCount, jobs, expected, target, received, answer>>

\* The service's name stands for any agent that runs.
Fetch(j) ==
    /\ worker[j] = "fetch"
    /\ \E a \in Running :
          /\ target[j] \in {a, None}
          /\ Report(j, Measure(On[a]))

\* Text that does not parse: of node-exporter an error, of cAdvisor no containers.
Misread(j) ==
    /\ worker[j] = "fetch"
    /\ Report(j, IF request.kind \in {"service", "task"} THEN Unparsed ELSE NoSample)

\* Mutant of FetchFails: a worker that fails sends nothing.
FailSilently(j) ==
    /\ worker[j] = "fetch"
    /\ worker' = [worker EXCEPT ![j] = "done"]
    /\ UNCHANGED <<request, swarm, faults, pc, nodeCount, jobs, expected, target, sample,
                   chan, received, answer>>

\* No connection, no answer within five seconds, or another status than 200.
FetchFails(j) == worker[j] = "fetch" /\ Report(j, NoSample)

Worker(j) == Resolve(j) \/ Fetch(j) \/ Misread(j) \/ FetchFails(j)

-----------------------------------------------------------------------------
(* The handler again: the results and the answer.                          *)

Collect ==
    /\ pc = "collect"
    /\ Cardinality(received) < expected
    /\ \E j \in chan :
          /\ chan' = chan \ {j}
          /\ received' = received \cup {j}
    /\ UNCHANGED <<request, swarm, faults, pc, nodeCount, jobs, expected, worker, target,
                   sample, answer>>

Good == {j \in received : sample[j].ok}

\* The container of parseCAdvisorMetrics with the id of the task.
Found == {j \in Good : request.task \in sample[j].tasks}

\* Mutant of Answer: a task's metrics are the first ones found.
AnswerAnyTask ==
    /\ pc = "collect"
    /\ Cardinality(received) = expected
    /\ Reply(TRUE, "none", Good)
    /\ UNCHANGED <<request, swarm, faults, nodeCount, jobs, expected, work, received>>

\* The containers of a task are found by the name of its service, which is asked
\* for once more: when that fails, or the service has gone, none is found.
Answer ==
    /\ pc = "collect"
    /\ Cardinality(received) = expected
    /\ \/ /\ request.kind = "cluster"
          /\ IF Good = {} /\ expected > 0 THEN Reply(TRUE, "error", {})
                                       ELSE Reply(TRUE, "none", Good)
       \/ /\ request.kind = "service"
          /\ IF Good = {} THEN Reply(FALSE, "error", {}) ELSE Reply(TRUE, "none", Good)
       \/ /\ request.kind = "node"
          /\ IF Good = {} THEN Reply(TRUE, "error", {}) ELSE Reply(TRUE, "none", Good)
       \/ /\ request.kind = "task"
          /\ \/ Good = {} /\ Reply(FALSE, "error", {})
             \/ Good # {} /\ Reply(FALSE, "message", {})
             \/ Found # {} /\ Reply(TRUE, "none", Found)
    /\ UNCHANGED <<request, swarm, faults, nodeCount, jobs, expected, work, received>>

-----------------------------------------------------------------------------
(* The swarm.                                                              *)

SwarmChanges ==
    /\ pc # "answered" /\ faults < MaxFaults
    /\ faults' = faults + 1
    /\ \/ \E a \in Agents, s \in AgentStates :
             /\ deployed /\ On[a] \in members
             /\ agent' = [agent EXCEPT ![a] = s]
             /\ UNCHANGED <<members, deployed, running>>
       \/ \E t \in Tasks :
             /\ Place[t] \in members
             /\ running' \in {running \cup {t}, running \ {t}}
             /\ UNCHANGED <<members, deployed, agent>>
       \/ \E n \in Nodes \ members :
             /\ members' = members \cup {n}
             /\ UNCHANGED <<deployed, agent, running>>
       \/ \E n \in members :
             /\ members' = members \ {n}
             /\ agent' = [a \in Agents |-> IF On[a] = n THEN "none" ELSE agent[a]]
             /\ running' = {t \in running : Place[t] # n}
             /\ UNCHANGED deployed
    /\ UNCHANGED <<request, pc, nodeCount, jobs, expected, work, received, answer>>

Terminated == pc = "answered" /\ chan = {} /\ UNCHANGED vars

Handler == CallFails \/ Begin \/ Find \/ ListTasks \/ Collect \/ Answer

Next ==
    \/ Handler
    \/ \E j \in Jobs : Worker(j)
    \/ SwarmChanges
    \/ Terminated

Spec == Init /\ [][Next]_vars

\* Docker answers, and the agents' HTTP client has a timeout.
FairSpec == Spec /\ WF_vars(Handler) /\ \A j \in Jobs : WF_vars(Worker(j))

-----------------------------------------------------------------------------
(* Properties.                                                             *)

Samples == [ok : BOOLEAN, node : Nodes \cup {None}, tasks : SUBSET Tasks]

\* Every variable has its type; a result is in one place at a time.
TypeOK ==
    /\ request \in Requests
    /\ members \in SUBSET Nodes
    /\ deployed \in BOOLEAN
    /\ agent \in [Agents -> AgentStates]
    /\ running \in SUBSET Tasks
    /\ faults \in 0..MaxFaults
    /\ pc \in {"begin", "find", "list", "collect", "answered"}
    /\ nodeCount \in Nat /\ expected \in Nat
    /\ jobs \in SUBSET Jobs
    /\ worker \in [Jobs -> {"idle", "resolve", "fetch", "done"}]
    /\ target \in [Jobs -> Agents \cup {None}]
    /\ sample \in [Jobs -> Samples]
    /\ chan \in SUBSET jobs /\ received \in SUBSET jobs /\ chan \cap received = {}
    /\ answer \in [available : BOOLEAN, note : {"none", "error", "message"},
                   from : SUBSET received]

\* When the answer is sent every worker has ended and every result has been
\* counted: the handler waits for as many results as it started workers, on
\* every path a worker may take.
NothingLeftBehind ==
    pc = "answered" =>
        /\ chan = {}
        /\ \A j \in Jobs : worker[j] = IF j \in jobs THEN "done" ELSE "idle"
        /\ received = jobs

\* One worker that fails does not hide the others, and none is forgotten: a
\* request for several nodes is answered with what every worker that was started
\* measured, and a worker still to report has nothing that would be missing.
PartialFailureIsTolerated ==
    pc = "answered" /\ request.kind # "task" =>
        /\ answer.from = {j \in jobs : sample[j].ok}
        /\ \A j \in jobs : worker[j] = "done"
        /\ answer.from # {} => answer.available /\ answer.note = "none"

\* The workers that the request asks for.
Concerned ==
    CASE request.kind = "cluster" -> {a \in Agents : agent[a] = "running"}
      [] request.kind = "service" -> {Place[t] : t \in running}
      [] request.kind = "node"    -> {request.node}
      [] request.kind = "task"    -> {Place[request.task]}

\* The agents are deployed as a global service, as the messages ask for.
OnePerNode ==
    \A a, b \in Agents : agent[a] = "running" /\ agent[b] = "running" /\ On[a] = On[b] => a = b

\* Of a swarm that stood still the answer is exact.  There is a worker for each
\* agent that runs, or node of the service.  Where each can be reached by an
\* address, what it measured is its own node; and with one agent on each node no
\* node is counted twice, nor more of them than there are.
StillSwarmIsExact ==
    pc = "answered" /\ answer.note = "none" /\ faults = 0 =>
        /\ jobs = Concerned
        /\ (\A j \in jobs : At(j) # {}) =>
              /\ \A j \in answer.from : sample[j] \in {Unparsed, Measure(NodeOf(j))}
              /\ OnePerNode => \A i, j \in answer.from : sample[i].node = sample[j].node /\ sample[i].node # None => i = j
        /\ request.kind = "cluster" /\ OnePerNode => Cardinality(answer.from) <= nodeCount

\* A task is only shown its own measurements, although its node's agent may have
\* gone and the service's name lead to the agent of another node.
TaskIsItsOwn ==
    request.kind = "task" =>
        \A j \in answer.from :
            request.task \in sample[j].tasks /\ Place[request.task] = sample[j].node

\* Every request is answered.
RequestIsAnswered == <>(pc = "answered")

-----------------------------------------------------------------------------
(* The inductive invariant behind the safety properties, in named parts.   *)

\* Each worker of the request has its result in exactly one place.
WorkersReport ==
    /\ \A j \in Jobs : j \in jobs <=> worker[j] # "idle"
    /\ \A j \in Jobs : worker[j] = "done" <=> j \in chan \cup received
    /\ \A j \in Jobs : sample[j] # NoSample => worker[j] = "done"
    /\ \A j \in Jobs : \A t \in sample[j].tasks : Place[t] = sample[j].node
    /\ expected = Cardinality(jobs)
    /\ pc \in {"begin", "find", "list"} => jobs = {}

\* What is answered was measured.
AnswerIsMeasured ==
    /\ pc # "answered" => answer.from = {} /\ answer.note = "none"
    /\ \A j \in answer.from : sample[j].ok

\* While nothing has changed, what was listed, resolved and measured still holds.
StillSwarm ==
    /\ \A a \in Agents : agent[a] # "none" => On[a] \in members
    /\ faults = 0 =>
          /\ request.kind = "cluster" /\ pc # "begin" /\ answer.note = "none" =>
                nodeCount = Cardinality(members)
          /\ pc \in {"collect", "answered"} /\ answer.note = "none" =>
                jobs = Concerned
          /\ \A j \in Jobs : At(j) # {} =>
                /\ worker[j] = "fetch" => target[j] \in At(j)
                /\ sample[j] \in {NoSample, Unparsed, Measure(NodeOf(j))}

IInv ==
    /\ TypeOK
    /\ WorkersReport /\ AnswerIsMeasured /\ StillSwarm
    /\ NothingLeftBehind /\ PartialFailureIsTolerated /\ TaskIsItsOwn

-----------------------------------------------------------------------------
(* What a comment of the source says and the code does not do.             *)

\* "Node-exporter service found, but no running tasks were detected": without a
\* running agent the answer says so.
SuccessHasMetrics ==
    pc = "answered" /\ answer.note = "none" => answer.from # {}
=============================================================================
