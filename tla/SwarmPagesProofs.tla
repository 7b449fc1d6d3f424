-------------------------- MODULE SwarmPagesProofs --------------------------
(* What a page shows of a swarm that changes while the page is put together: *)
(* theorems for any swarm, any number of changes and any choice of the user. *)
EXTENDS SwarmPages, FiniteSetTheorems, SequenceTheorems, TLAPS

-----------------------------------------------------------------------------
(* Sorting.                                                                *)

StrictTotal(set, order) ==
    /\ \A x \in set : <<x, x>> \notin order
    /\ \A x, y \in set : x # y => <<x, y>> \in order \/ <<y, x>> \in order
    /\ \A x, y, z \in set : <<x, y>> \in order /\ <<y, z>> \in order => <<x, z>> \in order

\* A finite set is enumerated, each of its members once, in the order: the
\* number of members before one is the place that is its own.
LEMMA SortedEnumerates ==
    ASSUME NEW set, IsFiniteSet(set), NEW order, StrictTotal(set, order)
    PROVE  LET row == Sorted(set, order) IN
           /\ Cardinality(set) \in Nat /\ row \in [1..Cardinality(set) -> set]
           /\ \A x \in set : \E i \in 1..Cardinality(set) : row[i] = x
           /\ \A i, j \in 1..Cardinality(set) : i < j => <<row[i], row[j]>> \in order
  <1> DEFINE n == Cardinality(set)
             before(x) == {y \in set : <<y, x>> \in order}
             place == [x \in set |-> Cardinality(before(x))]
             row == Sorted(set, order)
  <1>1. n \in Nat
    BY FS_CardinalityType
  <1>2. ASSUME NEW x \in set
        PROVE  IsFiniteSet(before(x)) /\ place[x] \in 0..(n - 1)
    <2>1. before(x) \in SUBSET (set \ {x})
      BY DEF StrictTotal
    <2>2. IsFiniteSet(set \ {x}) /\ Cardinality(set \ {x}) = n - 1
      BY FS_RemoveElement
    <2>3. IsFiniteSet(before(x)) /\ Cardinality(before(x)) <= Cardinality(set \ {x})
      BY <2>1, <2>2, FS_Subset
    <2>4. Cardinality(before(x)) \in Nat
      BY <2>3, FS_CardinalityType
    <2> QED
      BY <1>1, <2>2, <2>3, <2>4
  <1>3. ASSUME NEW x \in set, NEW y \in set, <<x, y>> \in order
        PROVE  place[x] < place[y]
    <2>1. before(x) \cup {x} \in SUBSET before(y) /\ x \notin before(x)
      BY <1>3 DEF StrictTotal
    <2>2. Cardinality(before(x) \cup {x}) = Cardinality(before(x)) + 1
      BY <1>2, <2>1, FS_AddElement
    <2>3. Cardinality(before(x) \cup {x}) <= Cardinality(before(y))
      BY <1>2, <2>1, FS_Subset
    <2>4. Cardinality(before(x)) \in Nat /\ Cardinality(before(y)) \in Nat
      BY <1>2, FS_CardinalityType
    <2> QED
      BY <2>2, <2>3, <2>4
  <1> HIDE DEF n
  <1>4. ASSUME NEW x \in set, NEW y \in set, x # y
        PROVE  place[x] # place[y]
    <2>1. <<x, y>> \in order \/ <<y, x>> \in order
      BY <1>4 DEF StrictTotal
    <2>2. place[x] < place[y] \/ place[y] < place[x]
      BY <1>3, <2>1
    <2>3. place[x] \in 0..(n - 1) /\ place[y] \in 0..(n - 1)
      BY <1>2
    <2> HIDE DEF place
    <2> QED
      BY <1>1, <2>2, <2>3
  <1>5. ASSUME NEW k \in 0..(n - 1)
        PROVE  \E x \in set : place[x] = k
    <2> SUFFICES ASSUME \A x \in set : place[x] # k PROVE FALSE
      OBVIOUS
    <2> DEFINE rest == (0..(n - 1)) \ {k}
    <2>1. place \in [set -> rest]
      BY <1>2
    <2>2. IsFiniteSet(0..(n - 1)) /\ Cardinality(0..(n - 1)) = n
      BY <1>1, FS_Interval
    <2>3. IsFiniteSet(rest) /\ Cardinality(rest) = n - 1
      BY <2>2, FS_RemoveElement
    <2> HIDE DEF place, rest
    <2>4. Cardinality(rest) < Cardinality(set)
      BY <1>1, <2>3 DEF n
    <2>5. \E x, y \in set : x # y /\ place[x] = place[y]
      BY <2>1, <2>3, <2>4, FS_PigeonHole
    <2> QED
      BY <1>4, <2>5
  <1>6. /\ row = [i \in 1..n |-> CHOOSE x \in set : Cardinality(before(x)) = i - 1]
        /\ \A x \in set : place[x] = Cardinality(before(x))
    BY DEF Sorted, n
  <1> HIDE DEF place, row, before
  <1>7. ASSUME NEW i \in 1..n
        PROVE  row[i] \in set /\ place[row[i]] = i - 1
    <2>1. \E x \in set : place[x] = i - 1
      BY <1>1, <1>5
    <2> QED
      BY <1>6, <2>1
  <1>8. ASSUME NEW x \in set
        PROVE  \E i \in 1..n : row[i] = x
    <2>1. place[x] \in 0..(n - 1)
      BY <1>2
    <2> DEFINE k == place[x]
    <2> HIDE DEF k
    <2>2. k \in 0..(n - 1) => k + 1 \in 1..n /\ (k + 1) - 1 = k
      BY <1>1
    <2>3. place[x] + 1 \in 1..n /\ (place[x] + 1) - 1 = place[x]
      BY <2>1, <2>2 DEF k
    <2>4. row[place[x] + 1] \in set /\ place[row[place[x] + 1]] = place[x]
      BY <1>7, <2>3
    <2> QED
      BY <1>4, <2>3, <2>4
  <1>9. ASSUME NEW i \in 1..n, NEW j \in 1..n, i < j
        PROVE  <<row[i], row[j]>> \in order
    <2>1. /\ row[i] \in set /\ row[j] \in set
          /\ place[row[i]] = i - 1 /\ place[row[j]] = j - 1
      BY <1>7
    <2>2. row[i] # row[j] /\ ~(place[row[j]] < place[row[i]])
      BY <1>1, <1>9, <2>1
    <2> QED
      BY <1>3, <2>1, <2>2 DEF StrictTotal
  <1> QED
    BY <1>1, <1>6, <1>7, <1>8, <1>9 DEF n, row

\* Rows in the order of their names: each once, and no other.
LEMMA InOrderEnumerates ==
    ASSUME NEW kind \in {Services, Nodes, Tasks}, NEW set, set \subseteq kind
    PROVE  /\ Cardinality(set) \in Nat /\ InOrder(set) \in [1..Cardinality(set) -> set]
           /\ \A x \in set : \E i \in 1..Cardinality(set) : InOrder(set)[i] = x
           /\ \A i, j \in 1..Cardinality(set) : i < j => Rank[InOrder(set)[i]] < Rank[InOrder(set)[j]]
  <1> DEFINE order == {pair \in set \X set : Rank[pair[1]] < Rank[pair[2]]}
             row == InOrder(set)
             n == Cardinality(set)
  <1>1. IsFiniteSet(set)
    BY RankAssumption, FS_Subset
  <1>2. \A x, y \in set : Rank[x] \in Int /\ Rank[y] \in Int /\ (Rank[x] = Rank[y] => x = y)
    BY RankAssumption
  <1>3. \A x, y \in set : <<x, y>> \in order <=> Rank[x] < Rank[y]
    OBVIOUS
  <1>4. row = Sorted(set, order)
    BY DEF InOrder
  <1> HIDE DEF order, row
  <1>5. StrictTotal(set, order)
    BY <1>2, <1>3 DEF StrictTotal
  <1>6. /\ n \in Nat /\ row \in [1..n -> set]
        /\ \A x \in set : \E i \in 1..n : row[i] = x
        /\ \A i, j \in 1..n : i < j => <<row[i], row[j]>> \in order
    BY <1>1, <1>4, <1>5, SortedEnumerates
  <1>7. \A i, j \in 1..n : i < j => Rank[row[i]] < Rank[row[j]]
    BY <1>3, <1>6
  <1> QED
    BY <1>6, <1>7 DEF row

-----------------------------------------------------------------------------
(* The inductive invariant.                                                *)

SwarmOK ==
    /\ services \subseteq Services /\ nodes \subseteq Nodes /\ tasks \subseteq Tasks
    /\ \A t \in tasks : ServiceOf[t] \in services
    /\ DOMAIN state = Tasks

\* What the ghosts say while a page is put together.
SeenOK ==
    phase = "reading" =>
        kept \subseteq Present /\ Present \subseteq seen /\ WithState(tasks) \subseteq seen

KeptOK == kept \subseteq Entities

\* Whatever has been got was there at some time, tasks with their service and state.
GotOK ==
    /\ got = [services |-> got.services, nodes |-> got.nodes, tasks |-> got.tasks, states |-> got.states]
    /\ got.services \subseteq Services \cap seen /\ got.nodes \subseteq Nodes \cap seen
    /\ got.tasks \subseteq Tasks \cap seen /\ got.states \subseteq seen
    /\ \A t \in got.tasks : ServiceOf[t] \in seen /\ \E st : <<t, st>> \in got.states
    /\ \A entry \in got.states : \E t, st : entry = <<t, st>>

Todo == {todo[i] : i \in DOMAIN todo}
Listing == {"services", "nodes", "tasks"}

\* A page that is no detail: the lists there are no more to ask for have all that stayed.
ListsOK ==
    /\ todo \in Seq(Listing)
    /\ page \notin Details /\ phase \in {"reading", "answered"} =>
          /\ page # "nodes" /\ "services" \notin Todo => kept \cap Services \subseteq got.services
          /\ page \in {"dashboardH", "dashboardV", "nodes", "tasks"} /\ "nodes" \notin Todo =>
                kept \cap Nodes \subseteq got.nodes
          /\ page \in {"dashboardH", "dashboardV", "timeline", "tasks"} /\ "tasks" \notin Todo =>
                kept \cap Tasks \subseteq got.tasks
          /\ phase = "answered" => todo = <<>>

\* The service or node that is a task's own, for the page that looks it up.
Own(t) == IF page = "nodeDetail" THEN ServiceOf[t] ELSE NodeOf[t]

\* What a task has been joined with: its own, if that was there all the time and
\* the call for it has not failed, and nothing else unless it has no node.
JoinOK(j) ==
    /\ Own(j.task) \in kept => j.with = Own(j.task) \/ j.failed
    /\ j.with \in {NoNode} \cup seen
    /\ j.with \in {NoNode, Own(j.task)} \/ (page = "serviceDetail" /\ NodeOf[j.task] = NoNode)

Joins == [task : got.tasks, with : Services \cup Nodes \cup {NoNode}, failed : BOOLEAN]

\* A detail: its subject is found before its tasks are asked for, and each of
\* them is joined once.
DetailOK ==
    page \in Details =>
        /\ joined \subseteq Joins
        /\ phase = "reading" => todo \in {Lists[page], <<"tasks">>, <<>>}
        /\ phase \in {"reading", "answered"} /\ (todo = <<"tasks">> \/ got.tasks # {}) => subject \in seen
        /\ todo # <<>> => got.tasks = {}
        /\ \A t \in got.tasks : (IF page = "nodeDetail" THEN NodeOf[t] ELSE ServiceOf[t]) = subject
        /\ got.tasks # {} => \A t \in kept \cap Tasks :
              (IF page = "nodeDetail" THEN NodeOf[t] ELSE ServiceOf[t]) = subject => t \in got.tasks
        /\ \A j \in joined : JoinOK(j)
        /\ \A i, j \in joined : i.task = j.task => i = j
        /\ phase = "answered" => \A t \in got.tasks : \E j \in joined : j.task = t

IInv == SwarmOK /\ SeenOK /\ KeptOK /\ GotOK /\ ListsOK /\ DetailOK

-----------------------------------------------------------------------------
(* The swarm.                                                              *)

\* A change of the swarm that says what has left and what has come.
LEMMA ChangedOK ==
    ASSUME IInv, SwarmOK', NEW left, NEW come, Changed(left, come),
           Present \ left \subseteq Present', Present' \subseteq Present \cup come,
           \A t \in tasks' : t \in come \/ (t \in tasks /\ state'[t] = state[t])
    PROVE  IInv'
  <1>1. /\ kept' \subseteq kept /\ seen \subseteq seen'
        /\ phase = "reading" =>
              /\ kept' = kept \ (left \cup come)
              /\ seen' = seen \cup come \cup {<<t, state'[t]>> : t \in come \cap Tasks}
        /\ UNCHANGED <<page, subject, phase, todo, got, joined>>
    BY DEF Changed
  <1>2. SeenOK'
    <2> SUFFICES ASSUME phase = "reading"
                 PROVE  /\ kept' \subseteq Present' /\ Present' \subseteq seen'
                        /\ \A t \in tasks' : <<t, state'[t]>> \in seen'
      BY <1>1 DEF SeenOK, WithState
    <2>1. kept \subseteq Present /\ Present \subseteq seen /\ \A t \in tasks : <<t, state[t]>> \in seen
      BY DEF IInv, SeenOK, WithState
    <2>2. kept' \subseteq Present' /\ Present' \subseteq seen'
      BY <1>1, <2>1
    <2>3. ASSUME NEW t \in tasks' PROVE <<t, state'[t]>> \in seen'
      <3>1. CASE t \in come
        <4>1. t \in Tasks
          BY DEF SwarmOK
        <4> QED
          BY <1>1, <3>1, <4>1
      <3>2. CASE t \in tasks /\ state'[t] = state[t]
        BY <1>1, <2>1, <3>2
      <3> QED
        BY <3>1, <3>2
    <2> QED
      BY <2>2, <2>3
  <1>3. GotOK' /\ KeptOK'
    BY <1>1 DEF IInv, GotOK, KeptOK
  <1>4. ListsOK'
    BY <1>1 DEF IInv, ListsOK, Todo
  <1>5. DetailOK'
    <2>1. \A j \in joined : JoinOK(j) => JoinOK(j)'
      BY <1>1 DEF JoinOK, Own
    <2>2. Joins' = Joins
      BY <1>1 DEF Joins
    <2> QED
      BY <1>1, <2>1, <2>2 DEF IInv, DetailOK
  <1> QED
    BY <1>2, <1>3, <1>4, <1>5 DEF IInv

LEMMA ChangesOK ==
    ASSUME IInv, Changes PROVE IInv'
  <1>1. ASSUME NEW x \in Services, CreateService(x) PROVE IInv'
    <2>1. SwarmOK'
      BY <1>1 DEF IInv, SwarmOK, CreateService
    <2>2. Present \ {} \subseteq Present' /\ Present' \subseteq Present \cup {x}
      BY <1>1 DEF CreateService, Present
    <2>3. \A t \in tasks' : t \in {x} \/ (t \in tasks /\ state'[t] = state[t])
      BY <1>1 DEF CreateService
    <2> QED
      BY <1>1, <2>1, <2>2, <2>3, ChangedOK DEF CreateService
  <1>2. ASSUME NEW x \in Services, RemoveService(x) PROVE IInv'
    <2> DEFINE left == {x} \cup (tasks \ tasks')
    <2>1. SwarmOK'
      BY <1>2 DEF IInv, SwarmOK, RemoveService
    <2>2. Present \ left \subseteq Present' /\ Present' \subseteq Present \cup {}
      BY <1>2 DEF RemoveService, Present
    <2>3. \A t \in tasks' : t \in {} \/ (t \in tasks /\ state'[t] = state[t])
      BY <1>2 DEF RemoveService
    <2>4. Changed(left, {})
      BY <1>2 DEF RemoveService
    <2> HIDE DEF left
    <2> QED
      BY <2>1, <2>2, <2>3, <2>4, ChangedOK
  <1>3. ASSUME NEW x \in Tasks, StartTask(x) PROVE IInv'
    <2>1. SwarmOK'
      BY <1>3 DEF IInv, SwarmOK, StartTask
    <2>2. Present \ {} \subseteq Present' /\ Present' \subseteq Present \cup {x}
      BY <1>3 DEF StartTask, Present
    <2>3. \A t \in tasks' : t \in {x} \/ (t \in tasks /\ state'[t] = state[t])
      BY <1>3 DEF StartTask
    <2> QED
      BY <1>3, <2>1, <2>2, <2>3, ChangedOK DEF StartTask
  <1>4. ASSUME NEW x \in Tasks, NEW st \in States, TaskEnters(x, st) PROVE IInv'
    <2>1. SwarmOK'
      BY <1>4 DEF IInv, SwarmOK, TaskEnters
    <2>2. Present \ {} \subseteq Present' /\ Present' \subseteq Present \cup {x}
      BY <1>4 DEF TaskEnters, Present
    <2>3. \A t \in tasks' : t \in {x} \/ (t \in tasks /\ state'[t] = state[t])
      BY <1>4 DEF TaskEnters
    <2> QED
      BY <1>4, <2>1, <2>2, <2>3, ChangedOK DEF TaskEnters
  <1>5. ASSUME NEW x \in Nodes, RemoveNode(x) PROVE IInv'
    <2>1. SwarmOK'
      BY <1>5 DEF IInv, SwarmOK, RemoveNode
    <2>2. Present \ {x} \subseteq Present' /\ Present' \subseteq Present \cup {}
      BY <1>5 DEF RemoveNode, Present
    <2>3. \A t \in tasks' : t \in {} \/ (t \in tasks /\ state'[t] = state[t])
      BY <1>5 DEF RemoveNode
    <2> QED
      BY <1>5, <2>1, <2>2, <2>3, ChangedOK DEF RemoveNode
  <1> QED
    BY <1>1, <1>2, <1>3, <1>4, <1>5 DEF Changes

-----------------------------------------------------------------------------
(* The handlers.                                                           *)

LEMMA ListsAreListing ==
    ASSUME NEW p \in Pages
    PROVE  Lists[p] \in Seq(Listing)
  <1>1. ASSUME NEW a \in Listing, NEW b \in Listing, NEW c \in Listing
        PROVE  <<a>> \in Seq(Listing) /\ <<a, b>> \in Seq(Listing) /\ <<a, b, c>> \in Seq(Listing)
    OBVIOUS
  <1>2. "services" \in Listing /\ "nodes" \in Listing /\ "tasks" \in Listing
    BY DEF Listing
  <1>3. Lists[p] \in {<<"services", "nodes", "tasks">>, <<"nodes", "services", "tasks">>, <<"services">>, <<"nodes">>,
                      <<"tasks", "services", "nodes">>, <<"tasks", "services">>, <<"nodes", "tasks">>,
                      <<"services", "tasks">>}
    BY DEF Pages, Lists
  <1>4. /\ <<"services", "nodes", "tasks">> \in Seq(Listing) /\ <<"nodes", "services", "tasks">> \in Seq(Listing)
        /\ <<"services">> \in Seq(Listing) /\ <<"nodes">> \in Seq(Listing)
    BY <1>1, <1>2
  <1>5. /\ <<"tasks", "services", "nodes">> \in Seq(Listing) /\ <<"tasks", "services">> \in Seq(Listing)
        /\ <<"nodes", "tasks">> \in Seq(Listing) /\ <<"services", "tasks">> \in Seq(Listing)
    BY <1>1, <1>2
  <1> QED
    BY <1>3, <1>4, <1>5

\* What is still to be asked for when one list has been read.
LEMMA TodoOfTail ==
    ASSUME todo \in Seq(Listing), todo # <<>>
    PROVE  /\ Head(todo) \in Listing /\ Tail(todo) \in Seq(Listing)
           /\ Todo \subseteq {Head(todo)} \cup {Tail(todo)[i] : i \in DOMAIN Tail(todo)}
  <1>1. Head(todo) \in Listing /\ Tail(todo) \in Seq(Listing) /\ Len(todo) \in Nat /\ Len(todo) # 0
    OBVIOUS
  <1>2. ASSUME NEW i \in DOMAIN todo
        PROVE  todo[i] = Head(todo) \/ \E j \in DOMAIN Tail(todo) : todo[i] = Tail(todo)[j]
    <2>1. i \in 1..Len(todo)
      OBVIOUS
    <2>2. CASE i = 1
      BY <2>2
    <2>3. CASE i # 1
      <3>1. i - 1 \in 1..(Len(todo) - 1) /\ Len(Tail(todo)) = Len(todo) - 1
        BY <1>1, <2>1, <2>3
      <3>2. i - 1 \in DOMAIN Tail(todo) /\ Tail(todo)[i - 1] = todo[i]
        BY <1>1, <3>1
      <3> QED
        BY <3>2
    <2> QED
      BY <2>2, <2>3
  <1> QED
    BY <1>1, <1>2 DEF Todo

LEMMA AskOK ==
    ASSUME IInv, NEW p \in Pages, NEW x \in Subjects(p), Ask(p, x) PROVE IInv'
  <1>1. SwarmOK'
    BY DEF IInv, SwarmOK, Ask, swarm
  <1>2. SeenOK' /\ KeptOK'
    BY DEF Ask, SeenOK, KeptOK, swarm, Present, WithState, Entities, IInv, SwarmOK
  <1>3. GotOK'
    BY DEF Ask, GotOK, Nothing
  <1>4. todo' \in Seq(Listing) /\ phase' = "reading" /\ page' = p /\ todo' = Lists[p]
    BY ListsAreListing DEF Ask
  <1>5. /\ p \in Pages \ (Details \cup {"nodes"}) => \E i \in DOMAIN Lists[p] : Lists[p][i] = "services"
        /\ p \in {"dashboardH", "dashboardV", "nodes", "tasks"} => \E i \in DOMAIN Lists[p] : Lists[p][i] = "nodes"
        /\ p \in {"dashboardH", "dashboardV", "timeline", "tasks"} =>
              \E i \in DOMAIN Lists[p] : Lists[p][i] = "tasks"
    <2>1. ASSUME NEW a, NEW b, NEW c
          PROVE  /\ 1 \in DOMAIN <<a>> /\ <<a>>[1] = a
                 /\ 1 \in DOMAIN <<a, b>> /\ <<a, b>>[1] = a /\ 2 \in DOMAIN <<a, b>> /\ <<a, b>>[2] = b
                 /\ 1 \in DOMAIN <<a, b, c>> /\ <<a, b, c>>[1] = a /\ 2 \in DOMAIN <<a, b, c>> /\ <<a, b, c>>[2] = b
                 /\ 3 \in DOMAIN <<a, b, c>> /\ <<a, b, c>>[3] = c
      OBVIOUS
    <2> QED
      BY <2>1 DEF Pages, Details, Lists
  <1>6. ListsOK'
    BY <1>4, <1>5 DEF ListsOK, Todo
  <1>7. DetailOK'
    <2>1. got'.tasks = {} /\ joined' = {} /\ todo' = Lists[page'] /\ phase' = "reading"
      BY DEF Ask, Nothing
    <2>2. page' \in Details => todo' # <<"tasks">>
      BY DEF Ask, Details, Lists
    <2> QED
      BY <2>1, <2>2 DEF DetailOK
  <1> QED
    BY <1>1, <1>2, <1>3, <1>6, <1>7 DEF IInv

\* What a call returns is there, and is all there is that the page asks for.
LEMMA ListedIs ==
    /\ Listed("services") = IF page = "serviceDetail" THEN services \cap {subject} ELSE services
    /\ Listed("nodes") = IF page = "nodeDetail" THEN nodes \cap {subject} ELSE nodes
    /\ Listed("tasks") = IF page = "nodeDetail" THEN {t \in tasks : NodeOf[t] = subject}
                         ELSE IF page = "serviceDetail" THEN {t \in tasks : ServiceOf[t] = subject}
                         ELSE tasks
  BY DEF Listed

\* A list that is read takes its place among those got, tasks with their states.
LEMMA ReadGot ==
    ASSUME IInv, Read
    PROVE  /\ Head(todo) \in Listing /\ todo # <<>> /\ phase = "reading"
           /\ got' = [services |-> got'.services, nodes |-> got'.nodes, tasks |-> got'.tasks, states |-> got'.states]
           /\ got'.services = IF Head(todo) = "services" THEN Listed("services") ELSE got.services
           /\ got'.nodes = IF Head(todo) = "nodes" THEN Listed("nodes") ELSE got.nodes
           /\ got'.tasks = IF Head(todo) = "tasks" THEN Listed("tasks") ELSE got.tasks
           /\ got'.states = IF Head(todo) = "tasks" THEN WithState(Listed("tasks")) ELSE got.states
  <1> DEFINE list == Head(todo)
  <1>1. list \in Listing /\ todo # <<>> /\ phase = "reading"
    BY TodoOfTail DEF Read, IInv, ListsOK
  <1>2. got' = [got EXCEPT ![list] = Listed(list), !.states = IF list = "tasks" THEN WithState(Listed(list)) ELSE @]
    BY DEF Read
  <1>3. got = [services |-> got.services, nodes |-> got.nodes, tasks |-> got.tasks, states |-> got.states]
    BY DEF IInv, GotOK
  <1> HIDE DEF list
  <1>4. CASE list = "services"
    <2>1. got' = [services |-> Listed("services"), nodes |-> got.nodes, tasks |-> got.tasks, states |-> got.states]
      BY <1>2, <1>3, <1>4
    <2> QED
      BY <1>1, <1>4, <2>1 DEF list
  <1>5. CASE list = "nodes"
    <2>1. got' = [services |-> got.services, nodes |-> Listed("nodes"), tasks |-> got.tasks, states |-> got.states]
      BY <1>2, <1>3, <1>5
    <2> QED
      BY <1>1, <1>5, <2>1 DEF list
  <1>6. CASE list = "tasks"
    <2>1. got' = [services |-> got.services, nodes |-> got.nodes, tasks |-> Listed("tasks"),
                  states |-> WithState(Listed("tasks"))]
      BY <1>2, <1>3, <1>6
    <2> QED
      BY <1>1, <1>6, <2>1 DEF list
  <1> QED
    BY <1>1, <1>4, <1>5, <1>6 DEF Listing

LEMMA ReadOK ==
    ASSUME IInv, Read PROVE IInv'
  <1> DEFINE list == Head(todo)
  <1>1. /\ list \in Listing /\ todo # <<>> /\ phase = "reading"
        /\ UNCHANGED <<services, nodes, tasks, state, page, subject, joined, kept, seen>>
        /\ todo' = IF page \in Details /\ ~Subject(list) THEN <<>> ELSE Tail(todo)
        /\ phase' = IF todo' = <<>> /\ (page \notin Details \/ got'.tasks = {}) THEN "answered" ELSE phase
    BY ReadGot DEF Read, swarm
  <1>2. /\ kept \subseteq Present /\ Present \subseteq seen /\ \A t \in tasks : <<t, state[t]>> \in seen
    BY <1>1 DEF IInv, SeenOK, WithState
  <1>3. SwarmOK'
    BY <1>1 DEF IInv, SwarmOK
  <1>4. SeenOK' /\ KeptOK'
    BY <1>1 DEF IInv, SeenOK, KeptOK, Present, WithState
  <1>5. /\ Listed("services") \subseteq services /\ Listed("nodes") \subseteq nodes /\ Listed("tasks") \subseteq tasks
    BY ListedIs
  <1>6. GotOK'
    <2>0. got' = [services |-> got'.services, nodes |-> got'.nodes, tasks |-> got'.tasks, states |-> got'.states]
      BY ReadGot
    <2>1. /\ Listed("services") \subseteq Services \cap seen /\ Listed("nodes") \subseteq Nodes \cap seen
          /\ Listed("tasks") \subseteq Tasks \cap seen /\ WithState(Listed("tasks")) \subseteq seen
      BY <1>2, <1>5 DEF IInv, SwarmOK, Present, WithState
    <2>2. ASSUME NEW t \in Listed("tasks")
          PROVE  ServiceOf[t] \in seen /\ \E st : <<t, st>> \in WithState(Listed("tasks"))
      BY <1>2, <1>5 DEF IInv, SwarmOK, Present, WithState
    <2>3. ASSUME NEW entry \in WithState(Listed("tasks"))
          PROVE  \E t, st : entry = <<t, st>>
      BY DEF WithState
    <2>4. CASE list = "tasks"
      <3>1. /\ got'.services = got.services /\ got'.nodes = got.nodes
            /\ got'.tasks = Listed("tasks") /\ got'.states = WithState(Listed("tasks"))
        BY <2>4, ReadGot
      <3>2. got.services \subseteq Services \cap seen /\ got.nodes \subseteq Nodes \cap seen
        BY DEF IInv, GotOK
      <3>3. seen' = seen
        BY <1>1
      <3>4. /\ got'.services \subseteq Services \cap seen' /\ got'.nodes \subseteq Nodes \cap seen'
            /\ got'.tasks \subseteq Tasks \cap seen' /\ got'.states \subseteq seen'
        BY ONLY <2>1, <3>1, <3>2, <3>3
      <3>5. \A t \in got'.tasks : ServiceOf[t] \in seen' /\ \E st : <<t, st>> \in got'.states
        BY ONLY <2>2, <3>1, <3>3
      <3>6. \A entry \in got'.states : \E t, st : entry = <<t, st>>
        BY ONLY <2>3, <3>1
      <3> QED
        BY ONLY <2>0, <3>4, <3>5, <3>6 DEF GotOK
    <2>5. CASE list # "tasks"
      <3>1. /\ got'.services \in {got.services, Listed("services")} /\ got'.nodes \in {got.nodes, Listed("nodes")}
            /\ got'.tasks = got.tasks /\ got'.states = got.states
        BY <2>5, ReadGot
      <3>2. GotOK /\ seen' = seen
        BY <1>1 DEF IInv
      <3> QED
        BY ONLY <2>0, <2>1, <3>1, <3>2 DEF GotOK
    <2> QED
      BY <2>4, <2>5
  <1>7. ListsOK'
    <2>1. /\ Tail(todo) \in Seq(Listing) /\ Todo \subseteq {list} \cup {Tail(todo)[i] : i \in DOMAIN Tail(todo)}
      BY <1>1, TodoOfTail DEF IInv, ListsOK
    <2>2. todo' \in Seq(Listing)
      BY <1>1, <2>1
    <2>3. ASSUME page \notin Details
          PROVE  /\ Todo \subseteq {list} \cup Todo' /\ (phase' = "answered" => todo' = <<>>)
                 /\ Listed("services") = services /\ Listed("nodes") = nodes /\ Listed("tasks") = tasks
      <3>1. Todo \subseteq {list} \cup Todo'
        BY <1>1, <2>1, <2>3 DEF Todo
      <3>2. phase' = "answered" => todo' = <<>>
        BY <1>1
      <3> QED
        BY <2>3, <3>1, <3>2, ListedIs DEF Details
    <2>4. /\ kept \cap Services \subseteq services /\ kept \cap Nodes \subseteq nodes /\ kept \cap Tasks \subseteq tasks
      BY <1>2, EntitiesAssumption DEF IInv, SwarmOK, Present
    <2>5. ASSUME page \notin Details
          PROVE  /\ page # "nodes" /\ "services" \notin Todo' => kept \cap Services \subseteq got'.services
                 /\ page \in {"dashboardH", "dashboardV", "nodes", "tasks"} /\ "nodes" \notin Todo' =>
                       kept \cap Nodes \subseteq got'.nodes
                 /\ page \in {"dashboardH", "dashboardV", "timeline", "tasks"} /\ "tasks" \notin Todo' =>
                       kept \cap Tasks \subseteq got'.tasks
      <3> HIDE DEF list
      <3>1. \A x : x \notin Todo' => x = list \/ x \notin Todo
        BY <2>3, <2>5
      <3>2. /\ got'.services = IF list = "services" THEN services ELSE got.services
            /\ got'.nodes = IF list = "nodes" THEN nodes ELSE got.nodes
            /\ got'.tasks = IF list = "tasks" THEN tasks ELSE got.tasks
        BY <2>3, <2>5, ReadGot DEF list
      <3> QED
        BY <1>1, <2>4, <2>5, <3>1, <3>2 DEF IInv, ListsOK
    <2> QED
      BY <1>1, <2>2, <2>3, <2>5 DEF ListsOK
  <1>8. DetailOK'
    <2> SUFFICES ASSUME page \in Details PROVE DetailOK'
      BY <1>1 DEF DetailOK
    <2>1. /\ todo \in {Lists[page], <<"tasks">>} /\ got.tasks = {}
          /\ todo = <<"tasks">> => subject \in seen
      BY <1>1 DEF IInv, DetailOK
    <2>2. joined = {}
      BY <2>1 DEF IInv, DetailOK, Joins
    <2>3. CASE todo = <<"tasks">>
      <3>1. list = "tasks" /\ Tail(todo) = <<>>
        BY <2>3
      <3>2. todo' = <<>> /\ got'.tasks = Listed("tasks")
        BY <1>1, <3>1, ReadGot DEF Subject
      <3>3. /\ \A t \in got'.tasks : (IF page = "nodeDetail" THEN NodeOf[t] ELSE ServiceOf[t]) = subject
            /\ \A t \in kept \cap Tasks :
                  (IF page = "nodeDetail" THEN NodeOf[t] ELSE ServiceOf[t]) = subject => t \in got'.tasks
        <4>1. kept \cap Tasks \subseteq tasks
          BY <1>2, EntitiesAssumption DEF IInv, SwarmOK, Present
        <4> QED
          BY <3>2, <4>1, ListedIs DEF Details
      <3>4. phase' = "answered" => got'.tasks = {}
        BY <1>1
      <3> QED
        BY <1>1, <2>1, <2>2, <2>3, <3>2, <3>3, <3>4 DEF DetailOK
    <2>4. CASE todo = Lists[page]
      <3>1. todo = <<IF page = "nodeDetail" THEN "nodes" ELSE "services", "tasks">>
        BY <2>4 DEF Lists, Details
      <3>2. list = (IF page = "nodeDetail" THEN "nodes" ELSE "services") /\ Tail(todo) = <<"tasks">>
        BY <3>1
      <3>3. got'.tasks = {}
        BY <2>1, <3>2, ReadGot
      <3>4. todo' = <<>> \/ (todo' = <<"tasks">> /\ Subject(list))
        BY <1>1, <3>2
      <3>5. todo' = <<"tasks">> => subject \in seen
        <4> SUFFICES ASSUME Subject(list) PROVE subject \in seen
          BY <3>4
        <4>1. Listed(list) # {}
          BY <3>2 DEF Subject
        <4>2. subject \in services \cup nodes
          BY <3>2, <4>1, ListedIs DEF Details
        <4> QED
          BY <1>2, <4>2 DEF Present
      <3> QED
        BY <1>1, <2>2, <3>3, <3>4, <3>5 DEF DetailOK
    <2> QED
      BY <2>1, <2>3, <2>4
  <1> QED
    BY <1>3, <1>4, <1>6, <1>7, <1>8 DEF IInv

\* What a lookup finds is there; it finds what stayed, and another than the
\* task's own only for a task without a node.
LEMMA FoundIs ==
    ASSUME IInv, page \in Details, phase = "reading", NEW t \in Tasks
    PROVE  /\ Found(t) \subseteq (Services \cup Nodes) \cap seen /\ NoNode \notin Found(t)
           /\ Own(t) \in kept => Found(t) = {Own(t)}
           /\ Found(t) \subseteq {Own(t)} \/ (page = "serviceDetail" /\ NodeOf[t] = NoNode)
  <1>1. /\ services \subseteq Services \cap seen /\ nodes \subseteq Nodes \cap seen
        /\ kept \cap Services \subseteq services /\ kept \cap Nodes \subseteq nodes /\ NoNode \notin kept
    BY EntitiesAssumption DEF IInv, SwarmOK, SeenOK, KeptOK, Present, Entities
  <1>2. ServiceOf[t] \in Services /\ NodeOf[t] \in Nodes \cup {NoNode} /\ NoNode \notin Services \cup Nodes
    BY PagesAssumption, EntitiesAssumption
  <1>3. CASE page = "nodeDetail"
    <2>1. Own(t) = ServiceOf[t] /\ Found(t) = services \cap {ServiceOf[t]}
      BY <1>3 DEF Own, Found
    <2> QED
      BY <1>1, <1>2, <2>1
  <1>4. CASE page = "serviceDetail"
    <2>1. Own(t) = NodeOf[t] /\ Found(t) = IF NodeOf[t] = NoNode THEN nodes ELSE nodes \cap {NodeOf[t]}
      BY <1>4 DEF Own, Found
    <2> QED
      BY <1>1, <1>2, <1>4, <2>1
  <1> QED
    BY <1>3, <1>4 DEF Details

LEMMA EnrichOK ==
    ASSUME IInv, NEW t \in Tasks, Enrich(t) PROVE IInv'
  <1>1. /\ phase = "reading" /\ todo = <<>> /\ page \in Details /\ t \in got.tasks
        /\ \A j \in joined : j.task # t
        /\ phase' = IF \A u \in got.tasks : \E j \in joined' : j.task = u THEN "answered" ELSE phase
        /\ UNCHANGED <<services, nodes, tasks, state, page, subject, todo, got, kept, seen>>
    BY DEF Enrich, swarm
  <1>2. SwarmOK' /\ GotOK' /\ ListsOK'
    BY <1>1 DEF IInv, SwarmOK, GotOK, ListsOK, Todo
  <1>3. SeenOK' /\ KeptOK'
    BY <1>1 DEF IInv, SeenOK, KeptOK, Present, WithState
  <1>4. PICK x \in Found(t) \cup {NoNode}, failed \in BOOLEAN :
            /\ x = NoNode <=> failed \/ Found(t) = {}
            /\ joined' = joined \cup {[task |-> t, with |-> x, failed |-> failed]}
    BY DEF Enrich
  <1> DEFINE new == [task |-> t, with |-> x, failed |-> failed]
  <1>5. new.task = t /\ new.with = x /\ new.failed = failed
    OBVIOUS
  <1>6. new \in Joins
    <2>1. x \in Services \cup Nodes \cup {NoNode}
      BY <1>1, <1>4, FoundIs
    <2> QED
      BY <1>1, <2>1 DEF Joins
  <1> HIDE DEF new
  <1>7. JoinOK(new)
    <2>1. /\ Found(t) \subseteq seen /\ NoNode \notin Found(t) /\ (Own(t) \in kept => Found(t) = {Own(t)})
          /\ Found(t) \subseteq {Own(t)} \/ (page = "serviceDetail" /\ NodeOf[t] = NoNode)
      BY <1>1, FoundIs
    <2> QED
      BY <1>4, <1>5, <2>1 DEF JoinOK
  <1>8. DetailOK'
    <2>1. joined' = joined \cup {new}
      BY <1>4 DEF new
    <2>2. Joins' = Joins /\ \A j : JoinOK(j)' <=> JoinOK(j)
      BY <1>1 DEF Joins, JoinOK, Own
    <2>3. joined' \subseteq Joins' /\ (\A j \in joined' : JoinOK(j)')
      BY <1>1, <1>6, <1>7, <2>1, <2>2 DEF IInv, DetailOK
    <2>4. \A i, j \in joined' : i.task = j.task => i = j
      BY <1>1, <1>5, <2>1 DEF IInv, DetailOK
    <2>5. phase' = "answered" => \A u \in got'.tasks : \E j \in joined' : j.task = u
      BY <1>1
    <2> QED
      BY <1>1, <2>3, <2>4, <2>5 DEF IInv, DetailOK
  <1> QED
    BY <1>2, <1>3, <1>8 DEF IInv

LEMMA RefuseOK ==
    ASSUME IInv, Refuse PROVE IInv'
  <1>1. /\ phase = "reading" /\ todo # <<>> /\ todo' = <<>>
        /\ phase' = IF page \in Details /\ Head(todo) = "tasks" THEN "answered" ELSE "error"
        /\ UNCHANGED <<services, nodes, tasks, state, page, subject, got, joined, kept, seen>>
    BY DEF Refuse, swarm
  <1>2. SwarmOK' /\ GotOK'
    BY <1>1 DEF IInv, SwarmOK, GotOK
  <1>3. SeenOK' /\ KeptOK'
    BY <1>1 DEF IInv, SeenOK, KeptOK
  <1>4. ListsOK'
    <2>1. todo' \in Seq(Listing)
      BY <1>1
    <2> QED
      BY <1>1, <2>1 DEF ListsOK
  <1>5. DetailOK'
    BY <1>1 DEF IInv, DetailOK, JoinOK, Own, Joins
  <1> QED
    BY <1>2, <1>3, <1>4, <1>5 DEF IInv

LEMMA InitOK ==
    ASSUME Init PROVE IInv
  <1>1. SwarmOK
    BY DEF Init, SwarmOK
  <1>2. SeenOK /\ KeptOK /\ GotOK
    BY DEF Init, SeenOK, KeptOK, GotOK, Nothing
  <1>3. ListsOK
    <2>1. todo \in Seq(Listing)
      BY DEF Init
    <2> QED
      BY <2>1 DEF Init, ListsOK
  <1>4. DetailOK
    BY DEF Init, DetailOK, Details
  <1> QED
    BY <1>1, <1>2, <1>3, <1>4 DEF IInv

THEOREM Inductive == Spec => []IInv
  <1>1. ASSUME IInv, UNCHANGED vars PROVE IInv'
    <2>1. /\ UNCHANGED <<services, nodes, tasks, state>>
          /\ UNCHANGED <<page, subject, phase, todo, got, joined, kept, seen>>
      BY <1>1 DEF vars, swarm, request
    <2>2. SwarmOK' /\ SeenOK' /\ KeptOK'
      BY <1>1, <2>1 DEF IInv, SwarmOK, SeenOK, KeptOK, Present, WithState
    <2>3. GotOK' /\ ListsOK'
      BY <1>1, <2>1 DEF IInv, GotOK, ListsOK, Todo
    <2>4. DetailOK'
      BY <1>1, <2>1 DEF IInv, DetailOK, JoinOK, Own, Joins
    <2> QED
      BY <2>2, <2>3, <2>4 DEF IInv
  <1>2. IInv /\ [Next]_vars => IInv'
    BY <1>1, ChangesOK, AskOK, ReadOK, EnrichOK, RefuseOK DEF Next
  <1> QED
    BY <1>2, InitOK, PTL DEF Spec

-----------------------------------------------------------------------------
(* Types.                                                                  *)

\* What is left to be asked for is the end of the list of some page.
Rests == UNION {{SubSeq(Lists[p], i, Len(Lists[p])) : i \in 1..4} : p \in Pages}

TypeInv == TypeOK /\ (page \notin Details => joined = {})

LEMMA RestsAreRests ==
    /\ <<>> \in Rests
    /\ \A p \in Pages : Lists[p] \in Rests
    /\ \A rest \in Rests : rest # <<>> => Tail(rest) \in Rests
  <1>1. ASSUME NEW p \in Pages
        PROVE  /\ Lists[p] \in Seq(Listing) /\ Len(Lists[p]) \in 1..3
    <2>1. Lists[p] \in Seq(Listing)
      BY ListsAreListing
    <2>2. Lists[p] \in {<<"services", "nodes", "tasks">>, <<"nodes", "services", "tasks">>, <<"services">>, <<"nodes">>,
                        <<"tasks", "services", "nodes">>, <<"tasks", "services">>, <<"nodes", "tasks">>,
                        <<"services", "tasks">>}
      BY DEF Pages, Lists
    <2>3. Len(Lists[p]) \in 1..3
      BY <2>2
    <2> QED
      BY <2>1, <2>3
  <1>2. ASSUME NEW p \in Pages PROVE Lists[p] \in Rests
    <2> DEFINE l == Lists[p]
    <2>1. l \in Seq(Listing) /\ 1 \in 1..4
      BY <1>1
    <2> HIDE DEF l
    <2>2. SubSeq(l, 1, Len(l)) = l
      BY <2>1, SubSeqFull
    <2> QED
      BY <2>1, <2>2 DEF Rests, l
  <1>3. <<>> \in Rests
    <2>1. "stacks" \in Pages
      BY DEF Pages, Lists
    <2> DEFINE l == Lists["stacks"]
    <2>2. l \in Seq(Listing) /\ Len(l) \in 1..3
      BY <1>1, <2>1
    <2> HIDE DEF l
    <2>3. SubSeq(l, 4, Len(l)) = <<>>
      <3> DEFINE n == Len(l)
      <3>a. n \in 1..3
        BY <2>2
      <3> HIDE DEF n
      <3>1. n \in Int /\ 4 \in Int /\ n < 4
        BY <3>a
      <3> QED
        BY <3>1, SubSeqEmpty DEF n
    <2>4. SubSeq(l, 4, Len(l)) \in Rests
      BY <2>1 DEF Rests, l
    <2> QED
      BY <2>3, <2>4
  <1>4. ASSUME NEW rest \in Rests, rest # <<>> PROVE Tail(rest) \in Rests
    <2>1. PICK p \in Pages, i \in 1..4 : rest = SubSeq(Lists[p], i, Len(Lists[p]))
      BY DEF Rests
    <2> DEFINE l == Lists[p]
    <2>2. l \in Seq(Listing) /\ Len(l) \in 1..3 /\ rest = SubSeq(l, i, Len(l))
      BY <1>1, <2>1
    <2> HIDE DEF l
    <2>3. i <= Len(l)
      <3>1. ASSUME i > Len(l) PROVE FALSE
        <4>1. SubSeq(l, i, Len(l)) = <<>>
          BY <2>2, <3>1, SubSeqEmpty
        <4> QED
          BY <1>4, <2>2, <4>1
      <3> QED
        BY <2>2, <3>1
    <2>4. i \in 1..Len(l) /\ Len(l) \in i..Len(l) /\ i + 1 \in 1..4
      BY <2>2, <2>3
    <2>5. Tail(rest) = SubSeq(l, i + 1, Len(l))
      BY <2>2, <2>4, HeadTailOfSubSeq
    <2>6. ASSUME NEW j \in 1..4 PROVE SubSeq(l, j, Len(l)) \in Rests
      <3>1. SubSeq(l, j, Len(l)) \in {SubSeq(Lists[p], k, Len(Lists[p])) : k \in 1..4}
        BY DEF l
      <3> QED
        <4> DEFINE starting(q) == {SubSeq(Lists[q], k, Len(Lists[q])) : k \in 1..4}
        <4>1. SubSeq(l, j, Len(l)) \in starting(p) /\ Rests = UNION {starting(q) : q \in Pages}
          BY <3>1 DEF Rests
        <4> HIDE DEF starting
        <4> QED
          BY ONLY <4>1, p \in Pages
    <2>7. SubSeq(l, i + 1, Len(l)) \in Rests
      BY ONLY <2>4, <2>6
    <2> QED
      BY ONLY <2>5, <2>7
  <1> QED
    BY <1>2, <1>3, <1>4

\* The types of what the invariant does not speak of, when the swarm changes.
LEMMA ChangesTyped ==
    ASSUME TypeInv, IInv', Changes PROVE TypeInv'
  <1>1. /\ \E left \in SUBSET Entities : \E come : Changed(left, come)
        /\ state' \in [Tasks -> States]
    <2>1. ASSUME NEW x \in Services, CreateService(x) \/ RemoveService(x)
          PROVE  (\E left \in SUBSET Entities : \E come : Changed(left, come)) /\ state' = state
      BY <2>1 DEF CreateService, RemoveService, TypeInv, TypeOK, Entities
    <2>2. ASSUME NEW x \in Nodes, RemoveNode(x)
          PROVE  (\E left \in SUBSET Entities : \E come : Changed(left, come)) /\ state' = state
      BY <2>2 DEF RemoveNode, Entities
    <2>3. ASSUME NEW x \in Tasks, StartTask(x)
          PROVE  (\E left \in SUBSET Entities : \E come : Changed(left, come)) /\ state' = state
      BY <2>3 DEF StartTask
    <2>4. ASSUME NEW x \in Tasks, NEW st \in States, TaskEnters(x, st)
          PROVE  /\ \E left \in SUBSET Entities : \E come : Changed(left, come)
                 /\ state' \in [Tasks -> States]
      BY <2>4 DEF TaskEnters, TypeInv, TypeOK
    <2> QED
      BY <2>1, <2>2, <2>3, <2>4 DEF Changes, TypeInv, TypeOK
  <1>2. PICK left \in SUBSET Entities : \E come : Changed(left, come)
    BY <1>1
  <1>3. /\ removed' \subseteq Entities /\ changes' \in 0..MaxChanges
        /\ UNCHANGED <<page, subject, phase, todo, got, joined>>
    BY <1>2, PagesAssumption DEF Changed, TypeInv, TypeOK
  <1> QED
    BY <1>1, <1>3 DEF TypeInv, TypeOK, IInv, SwarmOK, KeptOK, GotOK

\* The same for a step of a handler.
LEMMA HandlersTyped ==
    ASSUME TypeInv, IInv, IInv',
           \/ \E p \in Pages : \E x \in Subjects(p) : Ask(p, x)
           \/ Read \/ Refuse
           \/ \E t \in Tasks : Enrich(t)
           \/ UNCHANGED vars
    PROVE  TypeInv'
  <1>a. todo \in Rests
    BY DEF TypeInv, TypeOK, Rests
  <1>1. ASSUME todo' \in Rests, UNCHANGED <<state, removed, changes>>,
               page' \in Pages, subject' \in Subjects(page'),
               phase' \in {"closed", "reading", "answered", "error"},
               joined' \subseteq Joins'
        PROVE  TypeOK'
    BY <1>1 DEF TypeInv, TypeOK, Rests, IInv, SwarmOK, KeptOK, GotOK, Joins
  <1>2. ASSUME NEW p \in Pages, NEW x \in Subjects(p), Ask(p, x) PROVE TypeInv'
    BY <1>1, <1>2, RestsAreRests DEF Ask, swarm, TypeInv
  <1>3. CASE Read
    <2>1. /\ todo' \in Rests /\ phase' \in {"closed", "reading", "answered", "error"}
          /\ UNCHANGED <<swarm, page, subject, joined>> /\ todo # <<>>
      BY <1>a, <1>3, RestsAreRests DEF Read, TypeInv, TypeOK
    <2>2. joined = {}
      BY <2>1 DEF TypeInv, IInv, DetailOK, Joins
    <2> QED
      BY <1>1, <2>1, <2>2 DEF TypeInv, TypeOK, swarm, Joins
  <1>4. CASE Refuse
    BY <1>1, <1>4, RestsAreRests DEF Refuse, swarm, TypeInv, TypeOK, Joins
  <1>5. ASSUME NEW t \in Tasks, Enrich(t) PROVE TypeInv'
    <2>1. page' = page /\ page \in Details
      BY <1>5 DEF Enrich
    <2>2. joined' \subseteq Joins'
      BY <2>1 DEF IInv, DetailOK
    <2>4. /\ UNCHANGED <<swarm, subject, todo>>
          /\ phase' \in {"closed", "reading", "answered", "error"}
      BY <1>5 DEF Enrich
    <2> QED
      BY <1>a, <1>1, <2>1, <2>2, <2>4 DEF swarm, TypeInv, TypeOK
  <1>6. CASE UNCHANGED vars
    BY <1>a, <1>1, <1>6 DEF vars, swarm, request, TypeInv, TypeOK, Joins
  <1> QED
    BY <1>2, <1>3, <1>4, <1>5, <1>6

\* Every variable has its type: no list has what is not of its kind, a detail is
\* about what it may be about, and what is left to be asked for is a page's.
THEOREM TypeCorrect == Spec => []TypeOK
  <1>1. Init => TypeInv
    <2> SUFFICES ASSUME Init PROVE TypeInv
      OBVIOUS
    <2>1. state \in [Tasks -> States] /\ changes \in 0..MaxChanges
      BY PagesAssumption DEF Init
    <2>2. todo \in Rests
      BY RestsAreRests DEF Init
    <2>3. page \in Pages /\ subject \in Subjects(page)
      BY DEF Init, Pages, Lists, Subjects
    <2>4. /\ got.services = {} /\ got.nodes = {} /\ got.tasks = {} /\ joined = {} /\ kept = {}
          /\ phase = "closed" /\ removed = {}
          /\ services \subseteq Services /\ nodes \subseteq Nodes /\ tasks \subseteq Tasks
      BY DEF Init, Nothing
    <2> QED
      BY <2>1, <2>2, <2>3, <2>4 DEF TypeInv, TypeOK, Rests
  <1>2. IInv /\ IInv' /\ TypeInv /\ [Next]_vars => TypeInv'
    BY ChangesTyped, HandlersTyped DEF Next
  <1>3. TypeInv => TypeOK
    BY DEF TypeInv
  <1> QED
    BY <1>1, <1>2, <1>3, Inductive, PTL DEF Spec

-----------------------------------------------------------------------------
(* Theorems.                                                               *)

\* The state a page shows for a task is the one it had when it was listed.
LEMMA StateOfListed ==
    ASSUME IInv, NEW t \in got.tasks
    PROVE  <<t, StateOf(t)>> \in got.states
  <1>1. \E entry \in got.states : entry[1] = t
    BY DEF IInv, GotOK
  <1>2. PICK entry \in got.states : entry[1] = t /\ StateOf(t) = entry[2]
    BY <1>1 DEF StateOf
  <1>3. entry = <<entry[1], entry[2]>>
    BY DEF IInv, GotOK
  <1> QED
    BY <1>2, <1>3

\* However services, nodes and tasks come and go between the calls of a handler,
\* a page shows nothing that was not there since it was asked for, and joins no
\* task with what is not its own, unless it has no node.
THEOREM NothingInventedHolds == Spec => []NothingInvented
  <1>1. ASSUME IInv PROVE NothingInvented
    <2>1. got.services \cup got.nodes \cup got.tasks \subseteq seen /\ got.states \subseteq seen
      BY <1>1 DEF IInv, GotOK
    <2>2. ASSUME NEW n \in Nodes, NEW s \in Services, NEW f,
                 NEW t \in DashboardComponent(n, s, f) \cup DashboardVerticalComponent(n, s, f)
          PROVE  {<<t, StateOf(t)>>, n, s} \subseteq seen /\ NodeOf[t] = n /\ ServiceOf[t] = s
      <3>1. n \in got.nodes /\ t \in Cell(n, s)
        BY <2>2 DEF DashboardComponent, DashboardVerticalComponent
      <3>2. t \in got.tasks /\ NodeOf[t] = n /\ ServiceOf[t] = s
        BY <3>1 DEF Cell
      <3>3. s \in seen
        BY <1>1, <3>2 DEF IInv, GotOK
      <3>4. <<t, StateOf(t)>> \in seen
        BY <1>1, <2>1, <3>2, StateOfListed
      <3> QED
        BY <2>1, <3>1, <3>2, <3>3, <3>4
    <2>3. ASSUME page = "nodeDetail", NEW row \in NodeTasksTab
          PROVE  row.task \in seen /\ row.service \in {NoNode} \cup ({ServiceOf[row.task]} \cap seen)
      <3>1. PICK j \in joined : row = [task |-> j.task, service |-> j.with]
        BY DEF NodeTasksTab
      <3>2. JoinOK(j) /\ j.task \in got.tasks
        BY <1>1, <2>3 DEF IInv, DetailOK, Details, Joins
      <3> QED
        BY <2>1, <2>3, <3>1, <3>2 DEF JoinOK, Own
    <2>4. ASSUME page = "serviceDetail", NEW row \in ServiceTasksTab
          PROVE  /\ row.task \in seen /\ row.node \in {NoNode} \cup seen
                 /\ row.node # NoNode => NodeOf[row.task] \in {row.node, NoNode}
      <3>1. PICK j \in joined : row = [task |-> j.task, node |-> j.with]
        BY DEF ServiceTasksTab
      <3>2. JoinOK(j) /\ j.task \in got.tasks
        BY <1>1, <2>4 DEF IInv, DetailOK, Details, Joins
      <3> QED
        BY <2>1, <2>4, <3>1, <3>2 DEF JoinOK, Own
    <2> QED
      BY <2>1, <2>2, <2>3, <2>4 DEF NothingInvented
  <1> QED
    BY <1>1, Inductive, PTL

\* However the tasks of a detail are started, removed and looked up one by one,
\* it is about its subject, and misses nothing that stayed.
THEOREM DetailIsOfSubjectHolds == Spec => []DetailIsOfSubject
  <1>1. ASSUME IInv PROVE DetailIsOfSubject
    <2> SUFFICES ASSUME phase = "answered", page \in Details, got.tasks # {} PROVE DetailIsOfSubject
      BY DEF DetailIsOfSubject
    <2>1. subject \in seen /\ \A k, j \in joined : k.task = j.task => k = j
      BY <1>1 DEF IInv, DetailOK
    <2>2. ASSUME NEW j \in joined
          PROVE  /\ j.task \in got.tasks /\ JoinOK(j)
                 /\ page = "nodeDetail" => NodeOf[j.task] = subject
                 /\ page = "serviceDetail" => ServiceOf[j.task] = subject
      BY <1>1 DEF IInv, DetailOK, Details, Joins
    <2>3. ASSUME NEW t \in kept \cap Tasks, (IF page = "nodeDetail" THEN NodeOf[t] ELSE ServiceOf[t]) = subject
          PROVE  \E j \in joined : j.task = t /\ (Own(t) \in kept => j.with = Own(t) \/ t \in LookupFailed)
      <3>1. t \in got.tasks
        BY <1>1, <2>3 DEF IInv, DetailOK
      <3>2. PICK j \in joined : j.task = t
        BY <1>1, <3>1 DEF IInv, DetailOK
      <3>3. j.failed => t \in LookupFailed
        BY <3>2 DEF LookupFailed
      <3> QED
        BY <2>2, <3>2, <3>3 DEF JoinOK
    <2>5. ASSUME NEW t \in kept \cap Tasks, page = "nodeDetail", NodeOf[t] = subject
          PROVE  \E row \in NodeTasksTab :
                     row.task = t /\ (ServiceOf[t] \in kept => row.service = ServiceOf[t] \/ t \in LookupFailed)
      <3>1. PICK j \in joined : j.task = t /\ (ServiceOf[t] \in kept => j.with = ServiceOf[t] \/ t \in LookupFailed)
        BY <2>3, <2>5 DEF Own
      <3>2. [task |-> j.task, service |-> j.with] \in NodeTasksTab
        BY DEF NodeTasksTab
      <3> QED
        BY <3>1, <3>2
    <2>6. ASSUME NEW t \in kept \cap Tasks, page = "serviceDetail", ServiceOf[t] = subject
          PROVE  \E row \in ServiceTasksTab :
                     row.task = t /\ (NodeOf[t] \in kept => row.node = NodeOf[t] \/ t \in LookupFailed)
      <3>1. PICK j \in joined : j.task = t /\ (NodeOf[t] \in kept => j.with = NodeOf[t] \/ t \in LookupFailed)
        BY <2>3, <2>6 DEF Own
      <3>2. [task |-> j.task, node |-> j.with] \in ServiceTasksTab
        BY DEF ServiceTasksTab
      <3> QED
        BY <3>1, <3>2
    <2>7. page = "nodeDetail" => \A row \in NodeTasksTab : NodeOf[row.task] = subject
      BY <2>2 DEF NodeTasksTab
    <2>8. page = "serviceDetail" => \A row \in ServiceTasksTab : ServiceOf[row.task] = subject
      BY <2>2 DEF ServiceTasksTab
    <2> QED
      BY <2>1, <2>5, <2>6, <2>7, <2>8 DEF DetailIsOfSubject
  <1> QED
    BY <1>1, Inductive, PTL

-----------------------------------------------------------------------------
(* Rows.                                                                   *)

\* An answered page that is no detail has every list whole, of what stayed.
LEMMA AnswerIsWhole ==
    ASSUME IInv, phase = "answered", page \notin Details
    PROVE  /\ page # "nodes" => kept \cap Services \subseteq got.services
           /\ page \in {"dashboardH", "dashboardV", "nodes", "tasks"} => kept \cap Nodes \subseteq got.nodes
           /\ page \in {"dashboardH", "dashboardV", "timeline", "tasks"} => kept \cap Tasks \subseteq got.tasks
  <1>1. todo = <<>>
    BY DEF IInv, ListsOK
  <1>2. Todo = {}
    BY <1>1 DEF Todo
  <1> QED
    BY <1>2 DEF IInv, ListsOK

\* What of a service that stayed its tasks need to be shown.
LEMMA SettledIs ==
    ASSUME IInv, NEW t \in Tasks, Settled(t)
    PROVE  t \in kept \cap Tasks /\ ServiceOf[t] \in kept \cap Services
  BY PagesAssumption DEF Settled

\* The columns, and the rows of the table, are the set that is put in order.
LEMMA OrderedIs ==
    ASSUME NEW kind \in {Services, Nodes, Tasks}, NEW set, set \subseteq kind, NEW x
    PROVE  (\E i \in DOMAIN InOrder(set) : InOrder(set)[i] = x) <=> x \in set
  <1> DEFINE row == InOrder(set)
             n == Cardinality(set)
  <1>1. row \in [1..n -> set] /\ \A y \in set : \E i \in 1..n : row[i] = y
    BY InOrderEnumerates
  <1> HIDE DEF row
  <1>2. DOMAIN row = 1..n /\ \A i \in 1..n : row[i] \in set
    BY <1>1
  <1>3. (\E i \in DOMAIN row : row[i] = x) <=> x \in set
    BY <1>1, <1>2
  <1> QED
    BY <1>3 DEF row

LEMMA DashboardHExplained ==
    ASSUME IInv, phase = "answered", page = "dashboardH", NEW f
    PROVE  /\ \A s \in kept \cap Services :
                 (\E i \in DOMAIN DashboardColumns(f) : DashboardColumns(f)[i] = s) <=> Wanted(s, f)
           /\ \A i \in DOMAIN DashboardColumns(f) : Cardinality({r \in 0..2 : i \in HeaderRow(r, f)}) = 1
           /\ \A t \in Tasks : Settled(t) /\ Wanted(ServiceOf[t], f) =>
                 (t \in DashboardComponent(NodeOf[t], ServiceOf[t], f) <=> StateOf(t) \notin f.hidden)
  <1>1. /\ kept \cap Services \subseteq got.services /\ kept \cap Nodes \subseteq got.nodes
        /\ kept \cap Tasks \subseteq got.tasks
    BY AnswerIsWhole DEF Details
  <1> DEFINE set == {s \in got.services : serviceFilter(s, f)}
  <1>2. set \subseteq Services
    BY DEF IInv, GotOK
  <1>3. \A s : (\E i \in DOMAIN DashboardColumns(f) : DashboardColumns(f)[i] = s) <=> s \in set
    BY <1>2, OrderedIs DEF DashboardColumns
  <1>4. \A s \in kept \cap Services : s \in set <=> Wanted(s, f)
    BY <1>1 DEF Wanted
  <1>5. ASSUME NEW i \in DOMAIN DashboardColumns(f)
        PROVE  Cardinality({r \in 0..2 : i \in HeaderRow(r, f)}) = 1
    <2>1. i \in Nat \ {0}
      <3>1. Cardinality(set) \in Nat /\ InOrder(set) \in [1..Cardinality(set) -> set]
        BY <1>2, InOrderEnumerates
      <3> HIDE DEF set
      <3>2. DOMAIN InOrder(set) = 1..Cardinality(set)
        BY <3>1
      <3>3. DOMAIN DashboardColumns(f) = 1..Cardinality(set)
        BY <3>2 DEF DashboardColumns, set
      <3> QED
        BY <3>1, <3>3
    <2>2. (i - 1) % 3 \in 0..2
      BY <2>1
    <2>3. {r \in 0..2 : i \in HeaderRow(r, f)} = {(i - 1) % 3}
      BY <2>2 DEF HeaderRow
    <2> QED
      BY <2>3, FS_Singleton
  <1>6. ASSUME NEW t \in Tasks, Settled(t), Wanted(ServiceOf[t], f)
        PROVE  t \in DashboardComponent(NodeOf[t], ServiceOf[t], f) <=> StateOf(t) \notin f.hidden
    <2>1. t \in got.tasks /\ ServiceOf[t] \in set /\ NodeOf[t] \in got.nodes
      <3>1. t \in kept \cap Tasks /\ ServiceOf[t] \in kept \cap Services
        BY <1>6, SettledIs
      <3>2. NodeOf[t] \in kept \cap Nodes
        <4>1. kept \subseteq Entities
          BY DEF IInv, KeptOK
        <4> QED
          BY <1>6, <4>1, PagesAssumption, EntitiesAssumption DEF Settled, Entities
      <3> QED
        BY <1>1, <1>4, <1>6, <3>1, <3>2
    <2>2. t \in Cell(NodeOf[t], ServiceOf[t])
      BY <2>1 DEF Cell
    <2>3. t \in DashboardComponent(NodeOf[t], ServiceOf[t], f) <=> ~Hides(StateOf(t), f.hidden, f)
      BY <1>3, <2>1, <2>2 DEF DashboardComponent
    <2> QED
      BY <2>3 DEF Hides
  <1> QED
    BY <1>3, <1>4, <1>5, <1>6

LEMMA DashboardVExplained ==
    ASSUME IInv, phase = "answered", page = "dashboardV", NEW f
    PROVE  /\ \A s \in kept \cap Services : s \in VerticalRows(f) <=> Wanted(s, f)
           /\ f.settings \in {{}, f.hidden} =>
                 \A t \in Tasks : Settled(t) /\ Wanted(ServiceOf[t], f) =>
                     (t \in DashboardVerticalComponent(NodeOf[t], ServiceOf[t], f) <=> StateOf(t) \notin f.hidden)
  <1>1. /\ kept \cap Services \subseteq got.services /\ kept \cap Nodes \subseteq got.nodes
        /\ kept \cap Tasks \subseteq got.tasks
    BY AnswerIsWhole DEF Details
  <1>2. \A s \in kept \cap Services : s \in VerticalRows(f) <=> Wanted(s, f)
    BY <1>1 DEF VerticalRows, Wanted
  <1>3. ASSUME f.settings \in {{}, f.hidden}, NEW t \in Tasks, Settled(t), Wanted(ServiceOf[t], f)
        PROVE  t \in DashboardVerticalComponent(NodeOf[t], ServiceOf[t], f) <=> StateOf(t) \notin f.hidden
    <2>1. t \in kept \cap Tasks /\ ServiceOf[t] \in kept \cap Services
      BY <1>3, SettledIs
    <2>2. NodeOf[t] \in kept \cap Nodes
      <3>1. kept \subseteq Entities
        BY DEF IInv, KeptOK
      <3> QED
        BY <1>3, <3>1, PagesAssumption, EntitiesAssumption DEF Settled, Entities
    <2>3. t \in Cell(NodeOf[t], ServiceOf[t]) /\ NodeOf[t] \in got.nodes /\ ServiceOf[t] \in VerticalRows(f)
      BY <1>1, <1>2, <1>3, <2>1, <2>2 DEF Cell
    <2>4. t \in DashboardVerticalComponent(NodeOf[t], ServiceOf[t], f) <=> ~Hides(StateOf(t), f.settings, f)
      BY <2>3 DEF DashboardVerticalComponent
    <2> QED
      BY <1>3, <2>4 DEF Hides
  <1> QED
    BY <1>2, <1>3

LEMMA StacksExplained ==
    ASSUME IInv, phase = "answered", page = "stacks", NEW f, NEW s \in kept \cap Services
    PROVE  /\ Stack[s] # "" /\ Wanted(s, f) => s \in StacksComponent(f)
           /\ s \in StacksComponent(f) =>
                 /\ Matches(f.stack, Stack[s]) \/ Stack[s] = ""
                 /\ \E name \in Names(s) : MatchesLoosely(f.service, name)
  <1>1. s \in got.services
    BY AnswerIsWhole DEF Details
  <1>2. Matches(f.service, Name[s]) => MatchesLoosely(f.service, Name[s])
    BY PagesAssumption DEF Matches, MatchesLoosely
  <1>3. Stack[s] # "" => StackLabel(s) = Stack[s]
    BY DEF StackLabel
  <1>4. s \in StacksComponent(f) <=>
            /\ Matches(f.stack, StackLabel(s))
            /\ MatchesLoosely(f.service, ShortName[s]) \/ MatchesLoosely(f.service, Name[s])
    BY <1>1 DEF StacksComponent
  <1> QED
    BY <1>2, <1>3, <1>4 DEF Wanted, serviceFilter, Names

\* The tables of tasks and ports filter what they show by the same rule.
LEMMA TablesExplained ==
    ASSUME IInv, phase = "answered", NEW f
    PROVE  /\ page = "ports" => \A p \in Ports : p[1] \in kept => (p \in PortsComponent(f) <=> Wanted(p[1], f))
           /\ page = "tasks" => \A t \in Tasks : {t, ServiceOf[t]} \subseteq kept =>
                 ((\E i \in DOMAIN TaskRows(f) : TaskRows(f)[i] = t) <=> Wanted(ServiceOf[t], f))
           /\ page = "timeline" => \A t \in Tasks : {t, ServiceOf[t]} \subseteq kept =>
                 (t \in TimelineComponent(f) <=> Wanted(ServiceOf[t], f))
           /\ page = "nodes" => \A n \in kept \cap Nodes : \E i \in DOMAIN NodesComponent : NodesComponent[i] = n
  <1>1. ASSUME NEW p \in Ports, page = "ports", p[1] \in kept
        PROVE  p \in PortsComponent(f) <=> Wanted(p[1], f)
    <2>1. p[1] \in got.services
      BY <1>1, AnswerIsWhole, EntitiesAssumption DEF Details
    <2> QED
      BY <2>1 DEF PortsComponent, Wanted
  <1>2. ASSUME NEW t \in Tasks, page \in {"tasks", "timeline"}, {t, ServiceOf[t]} \subseteq kept
        PROVE  /\ t \in got.tasks
               /\ ServiceName(t) = Name[ServiceOf[t]] /\ StackName(t) = Stack[ServiceOf[t]] /\ ServiceName(t) # ""
    <2>1. ServiceOf[t] \in Services
      BY PagesAssumption
    <2>2. t \in got.tasks /\ ServiceOf[t] \in got.services
      BY <1>2, <2>1, AnswerIsWhole DEF Details
    <2> QED
      BY <2>1, <2>2, EntitiesAssumption DEF ServiceName, StackName
  <1>3. ASSUME NEW t \in Tasks, page = "tasks", {t, ServiceOf[t]} \subseteq kept
        PROVE  (\E i \in DOMAIN TaskRows(f) : TaskRows(f)[i] = t) <=> Wanted(ServiceOf[t], f)
    <2> DEFINE set == {u \in got.tasks : Matches(f.service, ServiceName(u)) /\ Matches(f.stack, StackName(u))}
    <2>1. set \subseteq Tasks
      BY DEF IInv, GotOK
    <2>2. (\E i \in DOMAIN TaskRows(f) : TaskRows(f)[i] = t) <=> t \in set
      BY <2>1, OrderedIs DEF TaskRows
    <2>3. t \in set <=> Wanted(ServiceOf[t], f)
      BY <1>2, <1>3 DEF Wanted, serviceFilter
    <2> QED
      BY <2>2, <2>3
  <1>4. ASSUME NEW t \in Tasks, page = "timeline", {t, ServiceOf[t]} \subseteq kept
        PROVE  t \in TimelineComponent(f) <=> Wanted(ServiceOf[t], f)
    BY <1>2, <1>4 DEF TimelineComponent, Wanted, serviceFilter
  <1>5. ASSUME NEW n \in kept \cap Nodes, page = "nodes"
        PROVE  \E i \in DOMAIN NodesComponent : NodesComponent[i] = n
    <2>1. n \in got.nodes /\ got.nodes \subseteq Nodes
      BY <1>5, AnswerIsWhole DEF Details, IInv, GotOK
    <2> QED
      BY <2>1, OrderedIs DEF NodesComponent
  <1> QED
    BY <1>1, <1>3, <1>4, <1>5

\* Whatever changes between the calls, what stays in the swarm is on every page
\* exactly when the user's filters and hidden states let it through.
THEOREM RowsAreExplainedHolds == Spec => []RowsAreExplained
  <1>1. ASSUME IInv PROVE RowsAreExplained
    <2> SUFFICES ASSUME phase = "answered", NEW f \in UserChoices PROVE Explained(f)
      BY DEF RowsAreExplained
    <2>1. CASE page = "dashboardH"
      BY <1>1, <2>1, DashboardHExplained DEF Explained
    <2>2. CASE page = "dashboardV"
      BY <1>1, <2>2, DashboardVExplained DEF Explained
    <2>3. CASE page = "stacks"
      BY <1>1, <2>3, StacksExplained DEF Explained
    <2>4. CASE page = "ports"
      BY <1>1, <2>4, TablesExplained DEF Explained
    <2>5. CASE page = "tasks"
      BY <1>1, <2>5, TablesExplained DEF Explained
    <2>6. CASE page = "timeline"
      BY <1>1, <2>6, TablesExplained DEF Explained
    <2>7. CASE page = "nodes"
      BY <1>1, <2>7, TablesExplained DEF Explained
    <2>8. CASE page \notin {"dashboardH", "dashboardV", "stacks", "ports", "tasks", "timeline", "nodes"}
      BY <2>8 DEF Explained
    <2> QED
      BY <2>1, <2>2, <2>3, <2>4, <2>5, <2>6, <2>7, <2>8
  <1> QED
    BY <1>1, Inductive, PTL

-----------------------------------------------------------------------------
(* The sorted table.                                                       *)

\* Comparing by a column, and rows that are equal by where they are, is total.
LEMMA CompareIsTotal ==
    ASSUME NEW n \in Nat, NEW row \in [1..n -> Tasks], NEW column \in Columns, NEW desc \in BOOLEAN
    PROVE  /\ StrictTotal(1..n, Compare(row, Value[column], desc))
           /\ \A i, j \in 1..n : <<i, j>> \in Compare(row, Value[column], desc) =>
                 \/ desc /\ Value[column][row[i]] > Value[column][row[j]]
                 \/ ~desc /\ Value[column][row[i]] < Value[column][row[j]]
                 \/ Value[column][row[i]] = Value[column][row[j]] /\ i < j
  <1> DEFINE order == Compare(row, Value[column], desc)
             key == [i \in 1..n |-> Value[column][row[i]]]
  <1>1. key \in [1..n -> Int] /\ \A i \in 1..n : Value[column][row[i]] = key[i]
    BY RankAssumption
  <1> HIDE DEF key
  <1>2. DOMAIN row = 1..n
    OBVIOUS
  <1>3. CASE desc
    <2>1. \A i, j \in 1..n : <<i, j>> \in order <=> key[i] > key[j] \/ (key[i] = key[j] /\ i < j)
      BY <1>1, <1>2, <1>3 DEF Compare
    <2> HIDE DEF order
    <2>2. StrictTotal(1..n, order)
      <3>1. \A i \in 1..n : key[i] \in Int /\ i \in Int
        BY <1>1
      <3>2. ASSUME NEW x \in 1..n, NEW y \in 1..n, NEW z \in 1..n, <<x, y>> \in order, <<y, z>> \in order
            PROVE  <<x, z>> \in order
        <4>1. key[x] > key[y] \/ (key[x] = key[y] /\ x < y)
          BY ONLY <2>1, <3>2
        <4>2. key[y] > key[z] \/ (key[y] = key[z] /\ y < z)
          BY ONLY <2>1, <3>2
        <4>3. key[x] > key[z] \/ (key[x] = key[z] /\ x < z)
          BY ONLY <3>1, <4>1, <4>2
        <4> QED
          BY ONLY <2>1, <4>3
      <3>3. \A x, y \in 1..n : x # y => <<x, y>> \in order \/ <<y, x>> \in order
        BY ONLY <2>1, <3>1
      <3>4. \A x \in 1..n : <<x, x>> \notin order
        BY ONLY <2>1, <3>1
      <3> QED
        BY <3>2, <3>3, <3>4 DEF StrictTotal
    <2>3. \A i, j \in 1..n : <<i, j>> \in order =>
              Value[column][row[i]] > Value[column][row[j]]
              \/ (Value[column][row[i]] = Value[column][row[j]] /\ i < j)
      BY <1>1, <2>1
    <2> QED
      BY <1>3, <2>2, <2>3 DEF order
  <1>4. CASE ~desc
    <2>1. \A i, j \in 1..n : <<i, j>> \in order <=> key[i] < key[j] \/ (key[i] = key[j] /\ i < j)
      BY <1>1, <1>2, <1>4 DEF Compare
    <2> HIDE DEF order
    <2>2. StrictTotal(1..n, order)
      <3>1. \A i \in 1..n : key[i] \in Int /\ i \in Int
        BY <1>1
      <3>2. ASSUME NEW x \in 1..n, NEW y \in 1..n, NEW z \in 1..n, <<x, y>> \in order, <<y, z>> \in order
            PROVE  <<x, z>> \in order
        <4>1. key[x] < key[y] \/ (key[x] = key[y] /\ x < y)
          BY ONLY <2>1, <3>2
        <4>2. key[y] < key[z] \/ (key[y] = key[z] /\ y < z)
          BY ONLY <2>1, <3>2
        <4>3. key[x] < key[z] \/ (key[x] = key[z] /\ x < z)
          BY ONLY <3>1, <4>1, <4>2
        <4> QED
          BY ONLY <2>1, <4>3
      <3>3. \A x, y \in 1..n : x # y => <<x, y>> \in order \/ <<y, x>> \in order
        BY ONLY <2>1, <3>1
      <3>4. \A x \in 1..n : <<x, x>> \notin order
        BY ONLY <2>1, <3>1
      <3> QED
        BY <3>2, <3>3, <3>4 DEF StrictTotal
    <2>3. \A i, j \in 1..n : <<i, j>> \in order =>
              Value[column][row[i]] < Value[column][row[j]]
              \/ (Value[column][row[i]] = Value[column][row[j]] /\ i < j)
      BY <1>1, <2>1
    <2> QED
      BY <1>4, <2>2, <2>3 DEF order
  <1> QED
    BY <1>3, <1>4

\* The n rows of a table, as the server has them.
ServerRows(row, n) ==
    /\ n \in Nat /\ row \in [1..n -> Tasks]
    /\ \A i, j \in 1..n : i < j => Rank[row[i]] < Rank[row[j]]

\* The same rows, sorted by a column, equal ones as the server has them.
SortedRows(row, before, n, column, desc) ==
    /\ row \in [1..n -> Tasks]
    /\ \A i \in 1..n : \E k \in 1..n : row[i] = before[k]
    /\ \A k \in 1..n : \E i \in 1..n : row[i] = before[k]
    /\ column \notin Columns => row = before
    /\ column \in Columns => \A i, j \in 1..n : i < j =>
          LET a == Value[column][row[i]]
              b == Value[column][row[j]]
          IN  /\ IF desc THEN a >= b ELSE a <= b
              /\ a = b => Rank[row[i]] < Rank[row[j]]

\* Sorted, a table has the rows it had, each once.
LEMMA SortKeepsRows ==
    ASSUME NEW n, NEW before, ServerRows(before, n), NEW column, NEW desc \in BOOLEAN
    PROVE  SortedRows(sortData(before, column, desc), before, n, column, desc)
  <1> DEFINE row == sortData(before, column, desc)
  <1>n. /\ n \in Nat /\ before \in [1..n -> Tasks]
        /\ \A i, j \in 1..n : i < j => Rank[before[i]] < Rank[before[j]]
    BY DEF ServerRows
  <1> DEFINE order == Compare(before, Value[column], desc)
             places == 1..n
             place == Sorted(places, order)
  <1>1. CASE column \notin Columns
    BY <1>n, <1>1 DEF sortData, SortedRows
  <1>2. CASE column \in Columns
    <2>1. DOMAIN before = 1..n
      BY <1>n
    <2>2. row = [i \in 1..n |-> before[place[i]]]
      BY <1>2, <2>1 DEF sortData
    <2>3. IsFiniteSet(1..n) /\ Cardinality(1..n) = n
      BY <1>n, FS_Interval
    <2>4. StrictTotal(1..n, order)
      BY <1>n, <1>2, CompareIsTotal
    <2>5. \A i, j \in 1..n : <<i, j>> \in order =>
              \/ desc /\ Value[column][before[i]] > Value[column][before[j]]
              \/ ~desc /\ Value[column][before[i]] < Value[column][before[j]]
              \/ Value[column][before[i]] = Value[column][before[j]] /\ i < j
      BY <1>n, <1>2, CompareIsTotal
    <2>a. IsFiniteSet(places) /\ Cardinality(places) = n /\ StrictTotal(places, order)
      BY <2>3, <2>4
    <2> HIDE DEF order, places
    <2>b. /\ place \in [1..n -> places] /\ \A x \in places : \E i \in 1..n : place[i] = x
          /\ \A i, j \in 1..n : i < j => <<place[i], place[j]>> \in order
      <3> HIDE DEF place
      <3>1. LET m == Cardinality(places) IN
            /\ m \in Nat /\ place \in [1..m -> places] /\ \A x \in places : \E i \in 1..m : place[i] = x
            /\ \A i, j \in 1..m : i < j => <<place[i], place[j]>> \in order
        BY <2>a, SortedEnumerates DEF place
      <3> QED
        BY <2>a, <3>1
    <2> HIDE DEF place, row
    <2>6. /\ place \in [1..n -> 1..n] /\ \A x \in 1..n : \E i \in 1..n : place[i] = x
          /\ \A i, j \in 1..n : i < j => <<place[i], place[j]>> \in order
      BY <2>b DEF places
    <2>7. row \in [1..n -> Tasks] /\ \A i \in 1..n : row[i] = before[place[i]]
      BY <1>n, <2>2, <2>6
    <2>8. /\ \A i \in 1..n : \E k \in 1..n : row[i] = before[k]
          /\ \A k \in 1..n : \E i \in 1..n : row[i] = before[k]
      <3>1. ASSUME NEW i \in 1..n PROVE \E k \in 1..n : row[i] = before[k]
        <4>1. place[i] \in 1..n
          BY <2>6
        <4> QED
          BY <2>7, <4>1
      <3>2. ASSUME NEW k \in 1..n PROVE \E i \in 1..n : row[i] = before[k]
        <4>1. PICK i \in 1..n : place[i] = k
          BY <2>6
        <4> QED
          BY <2>7, <4>1
      <3> QED
        BY <3>1, <3>2
    <2>9. ASSUME NEW i \in 1..n, NEW j \in 1..n, i < j
          PROVE  LET a == Value[column][row[i]]
                     b == Value[column][row[j]]
                 IN  /\ IF desc THEN a >= b ELSE a <= b
                     /\ a = b => Rank[row[i]] < Rank[row[j]]
      <3> DEFINE a == Value[column][row[i]]
                 b == Value[column][row[j]]
      <3>1. a \in Int /\ b \in Int
        BY <1>n, <1>2, <2>7, RankAssumption
      <3>p. /\ place[i] \in 1..n /\ place[j] \in 1..n /\ <<place[i], place[j]>> \in order
            /\ row[i] = before[place[i]] /\ row[j] = before[place[j]]
        BY <2>6, <2>7, <2>9
      <3>q. PICK u \in 1..n, v \in 1..n : u = place[i] /\ v = place[j]
        BY <3>p
      <3>2. \/ desc /\ a > b
            \/ ~desc /\ a < b
            \/ a = b /\ place[i] < place[j]
        <4>1. /\ <<u, v>> \in order
              /\ a = Value[column][before[u]] /\ b = Value[column][before[v]]
          BY <3>p, <3>q
        <4> HIDE DEF a, b
        <4> QED
          BY <2>5, <3>q, <4>1
      <3>3. place[i] < place[j] => Rank[row[i]] < Rank[row[j]]
        <4>1. u < v => Rank[before[u]] < Rank[before[v]]
          BY <1>n
        <4> QED
          BY <3>p, <3>q, <4>1
      <3> HIDE DEF a, b
      <3>4. IF desc THEN a >= b ELSE a <= b
        <4>1. CASE desc
          BY <3>1, <3>2, <4>1
        <4>2. CASE ~desc
          BY <3>1, <3>2, <4>2
        <4> QED
          BY <4>1, <4>2
      <3>5. a = b => Rank[row[i]] < Rank[row[j]]
        BY <3>1, <3>2, <3>3
      <3> QED
        BY <3>4, <3>5 DEF a, b
    <2> QED
      BY <1>2, <2>7, <2>8, <2>9 DEF SortedRows, row
  <1> QED
    BY <1>1, <1>2

\* Whatever the column and its values, sorting keeps the rows, and rows that are
\* equal in it keep the order of the server in both directions.
THEOREM SortIsStableHolds == Spec => []SortIsStable
  <1>1. ASSUME IInv PROVE SortIsStable
    <2> SUFFICES ASSUME phase = "answered", page = "tasks", NEW f \in UserChoices,
                        NEW column \in Columns \cup {"none"}, NEW desc \in BOOLEAN
                 PROVE  LET row == TasksComponent(f, column, desc)
                            before == TaskRows(f)
                        IN  /\ ToSet(row) = ToSet(before) /\ Len(row) = Len(before)
                            /\ column \notin Columns => row = before
                            /\ \A i, j \in DOMAIN row : i < j /\ column \in Columns =>
                                  LET a == Value[column][row[i]]
                                      b == Value[column][row[j]]
                                  IN  /\ IF desc THEN a >= b ELSE a <= b
                                      /\ a = b => Rank[row[i]] < Rank[row[j]]
      BY DEF SortIsStable
    <2> DEFINE set == {t \in got.tasks : Matches(f.service, ServiceName(t)) /\ Matches(f.stack, StackName(t))}
               n == Cardinality(set)
               before == TaskRows(f)
               row == TasksComponent(f, column, desc)
    <2>1. set \subseteq Tasks
      BY <1>1 DEF IInv, GotOK
    <2>2. /\ n \in Nat /\ before \in [1..n -> set]
          /\ \A i, j \in 1..n : i < j => Rank[before[i]] < Rank[before[j]]
      BY <2>1, InOrderEnumerates DEF TaskRows
    <2> HIDE DEF set, n, before
    <2>3. before \in [1..n -> Tasks]
      BY <2>1, <2>2
    <2>4. row = sortData(before, column, desc)
      BY DEF TasksComponent, before
    <2> HIDE DEF row
    <2>s. ServerRows(before, n)
      BY <2>2, <2>3 DEF ServerRows
    <2>t. SortedRows(row, before, n, column, desc)
      BY <2>4, <2>s, SortKeepsRows
    <2>5. /\ row \in [1..n -> Tasks]
          /\ \A i \in 1..n : \E k \in 1..n : row[i] = before[k]
          /\ \A k \in 1..n : \E i \in 1..n : row[i] = before[k]
          /\ column \notin Columns => row = before
          /\ column \in Columns => \A i, j \in 1..n : i < j =>
                LET a == Value[column][row[i]]
                    b == Value[column][row[j]]
                IN  /\ IF desc THEN a >= b ELSE a <= b
                    /\ a = b => Rank[row[i]] < Rank[row[j]]
      BY ONLY <2>t DEF SortedRows
    <2>6. DOMAIN row = 1..n /\ DOMAIN before = 1..n
      BY <2>3, <2>5
    <2>7. Len(row) = n /\ Len(before) = n
      BY <2>2, <2>3, <2>5, <2>6
    <2>8. ToSet(row) = ToSet(before)
      <3>1. ASSUME NEW x \in ToSet(row) PROVE x \in ToSet(before)
        <4>1. PICK i \in 1..n : x = row[i]
          BY <2>6 DEF ToSet
        <4>2. PICK k \in 1..n : row[i] = before[k]
          BY <2>5
        <4>3. before[k] \in ToSet(before)
          BY <2>6 DEF ToSet
        <4> QED
          BY <4>1, <4>2, <4>3
      <3>2. ASSUME NEW x \in ToSet(before) PROVE x \in ToSet(row)
        <4>1. PICK k \in 1..n : x = before[k]
          BY <2>6 DEF ToSet
        <4>2. PICK i \in 1..n : row[i] = before[k]
          BY <2>5
        <4>3. row[i] \in ToSet(row)
          BY <2>6 DEF ToSet
        <4> QED
          BY <4>1, <4>2, <4>3
      <3> QED
        BY <3>1, <3>2
    <2>9. /\ ToSet(row) = ToSet(before) /\ Len(row) = Len(before)
          /\ column \notin Columns => row = before
      BY <2>5, <2>7, <2>8
    <2>10. ASSUME NEW i \in DOMAIN row, NEW j \in DOMAIN row, i < j, column \in Columns
           PROVE  LET a == Value[column][row[i]]
                      b == Value[column][row[j]]
                  IN  /\ IF desc THEN a >= b ELSE a <= b
                      /\ a = b => Rank[row[i]] < Rank[row[j]]
      <3>1. i \in 1..n /\ j \in 1..n
        BY <2>6
      <3> QED
        BY <2>5, <2>10, <3>1
    <2> QED
      BY <2>9, <2>10 DEF row, before
  <1> QED
    BY <1>1, Inductive, PTL
=============================================================================
