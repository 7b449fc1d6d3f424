---------------------------- MODULE MetricsCharts ----------------------------
(***************************************************************************)
(* The charts of the browser: what the sections of a node, a service and a *)
(* task make of the numbers the server sends (src/app-src/src/components). *)
(* A chart is its labels and one value per label; options that only change *)
(* its looks are left out, and so are the digits after the point, but for  *)
(* those of the CPU section, which rounds shares of a whole.               *)
(*                                                                         *)
(* The state is the last answer a panel has got, which the next one        *)
(* replaces.                                                               *)
(***************************************************************************)
EXTENDS Naturals, Integers, Sequences, SequencesExt

CONSTANT Samples   \* the answers, each with the panel it is `for`

\* What the kernel and Docker measure: no number is negative, what is available,
\* free or in the page cache is part of its total, and what has a limit keeps it.
FilesystemMetrics == {f \in [mountpoint : STRING, size : Nat \ {0}, used : Nat, available : Nat] : f.used + f.available = f.size}
ContainerMetrics  == {c \in [name : STRING, usage : Nat, limit : Nat] : c.limit > 0 => c.usage <= c.limit}

Answers ==
    [cpu        |-> [cpu : Seq([mode : STRING, value : Nat]), numCPUs : Nat, loads : [1..3 -> Nat] \cup {<<>>}],
     memory     |-> {m \in [total : Nat, available : Nat, buffers : Nat, cached : Nat,
                             swapTotal : Nat, swapUsed : Nat, swapFree : Nat] :
                        m.available <= m.total /\ m.swapUsed + m.swapFree = m.swapTotal},
     filesystem |-> [filesystem : Seq(FilesystemMetrics), network : Seq([interface : STRING, received : Nat, sent : Nat])],
     disk       |-> [diskIO : Seq([device : STRING, readBytes : Nat, writtenBytes : Nat, reads : Nat, writes : Nat])],
     system     |-> [alloc : Nat, inuse : Nat, timeWait : Nat, fdAllocated : Nat, fdPercent : Nat],
     service    |-> [containers : Seq(ContainerMetrics)],
     task       |-> [limit : Nat, usage : Nat, workingSet : Nat, memoryCache : Nat, usagePercent : Nat,
                     cpuPercent : Nat, cpuUsage : Nat, userSeconds : Nat, systemSeconds : Nat,
                     rx : Nat, tx : Nat, fsUsage : Nat, fsLimit : Nat],
     percent    |-> {m \in [usagePercent : Nat, cpuPercent : Nat] : m.usagePercent = m.cpuPercent}]

ASSUME SamplesAssumption == \A s \in Samples : s.for \in DOMAIN Answers /\ s.m \in Answers[s.for]

VARIABLE sample

Least(a, b) == IF a < b THEN a ELSE b
Clamp(n) == IF n < 0 THEN 0 ELSE n

\* A share in whole percent, rounded up: it is above a threshold exactly when
\* the share is.
Percent(part, whole) == IF whole > 0 THEN (part * 100 + whole - 1) \div whole ELSE 0

\* A share in units, by toFixed: the nearest, and of two the larger.
Rounded(part, whole, units) == IF whole > 0 THEN (2 * units * part + whole) \div (2 * whole) ELSE 0

Sum(series) ==
    LET sum[n \in 0..Len(series)] == IF n = 0 THEN 0 ELSE sum[n - 1] + series[n]
    IN  sum[Len(series)]
Each(f(_), s) == [i \in DOMAIN s |-> f(s[i])]

Chart(labels, series) == [labels |-> labels, series |-> series]
Alert == Chart(<<>>, <<>>)     \* "No ... available" in place of a chart
Shown(condition, chart) == IF condition THEN chart ELSE Alert

\* Horizontal bars: the categories, and each series over them.
Bars(categories, first, second) == [labels |-> categories, series |-> first, other |-> second]

-----------------------------------------------------------------------------
(* The thresholds, spelled out in each component.                          *)

getStatusColor(p) == IF p > 90 THEN "critical" ELSE IF p > 75 THEN "warning" ELSE "normal"

\* Mutant of ClusterVariant: the boundary itself is critical already.
ClusterVariantFromNinety(p) == IF p >= 90 THEN "critical" ELSE IF p > 75 THEN "warning" ELSE "normal"

ClusterVariant(p) == IF p > 90 THEN "critical" ELSE IF p > 75 THEN "warning" ELSE "normal"
TaskRowClass(p) == IF p > 90 THEN "critical" ELSE IF p > 75 THEN "warning" ELSE "normal"

\* The file descriptors have thresholds of their own (NodeSystemSection).
fdColor(p) == IF p > 80 THEN "critical" ELSE IF p > 60 THEN "warning" ELSE "normal"

\* Memory and CPU of KpiHeader; a badge is there only for a percentage above 0.
KpiHeader(m) ==
    [memory |-> IF m.usagePercent > 0 THEN getStatusColor(m.usagePercent) ELSE "none",
     cpu    |-> IF m.cpuPercent > 0 THEN getStatusColor(m.cpuPercent) ELSE "none"]

-----------------------------------------------------------------------------
(* A node: m is `metrics` of the answer.                                   *)

\* NodeCpuSection: the share of each mode in hundredths of a percent, and the
\* load per CPU in tenths, up to 200 %; without a load there is no gauge.
Hundredths == 10000     \* of a percent: a whole

CpuSeconds(m) == Sum(Each(LAMBDA c : c.value, m.cpu))

CpuDonut(m) ==
    Shown(m.cpu # <<>>, Chart(Each(LAMBDA c : c.mode, m.cpu),
                              Each(LAMBDA c : Rounded(c.value, CpuSeconds(m), Hundredths), m.cpu)))

LoadGauge(m) ==
    LET cpus == IF m.numCPUs = 0 THEN 1 ELSE m.numCPUs
    IN  Shown(m.loads # <<>>, Chart(<<"1m", "5m", "15m">>,
                                    Each(LAMBDA load : Least(Rounded(load, cpus, 1000), 2000), m.loads)))

\* Mutant of MemoryDonut: the cache is not taken out of what is in use.
MemoryDonutCacheTwice(m) ==
    LET cache == m.buffers + m.cached
    IN  Shown(m.total > 0,
              IF cache > 0
              THEN Chart(<<"Active Used", "Buffers/Cache", "Available">>, <<m.total - m.available, cache, m.available>>)
              ELSE Chart(<<"Used", "Available">>, <<m.total - m.available, m.available>>))

\* NodeMemorySection.
MemoryDonut(m) ==
    LET used == m.total - m.available
        cache == m.buffers + m.cached
    IN  Shown(m.total > 0,
              IF cache > 0
              THEN Chart(<<"Active Used", "Buffers/Cache", "Available">>, <<Clamp(used - cache), cache, m.available>>)
              ELSE Chart(<<"Used", "Available">>, <<used, m.available>>))

SwapDonut(m) == Shown(m.swapTotal > 0, Chart(<<"Used", "Free">>, <<m.swapUsed, m.swapFree>>))

\* NodeFilesystemNetworkSection: a stacked bar per filesystem, two per interface.
FilesystemBars(m) ==
    Bars(Each(LAMBDA f : f.mountpoint, m.filesystem),
         Each(LAMBDA f : f.used, m.filesystem), Each(LAMBDA f : f.available, m.filesystem))

NodeFilesystemNetworkSection(m) ==
    <<FilesystemBars(m),
      Bars(Each(LAMBDA n : n.interface, m.network),
           Each(LAMBDA n : n.received, m.network), Each(LAMBDA n : n.sent, m.network))>>

\* NodeDiskIOSection: bytes and operations of each device; a table repeats them.
NodeDiskIOSection(m) ==
    LET devices == Each(LAMBDA d : d.device, m.diskIO)
    IN  <<Bars(devices, Each(LAMBDA d : d.readBytes, m.diskIO), Each(LAMBDA d : d.writtenBytes, m.diskIO)),
          Bars(devices, Each(LAMBDA d : d.reads, m.diskIO), Each(LAMBDA d : d.writes, m.diskIO))>>

\* NodeSystemSection.
TcpDonut(m) ==
    Shown(m.alloc > 0, Chart(<<"In Use", "Time Wait", "Free">>,
                             <<m.inuse, m.timeWait, Clamp(m.alloc - m.inuse - m.timeWait)>>))

NodeSystemSection(m) ==
    [tcp |-> TcpDonut(m),
     fd  |-> Shown(m.fdAllocated > 0, Chart(<<"File Descriptors">>, <<m.fdPercent>>))]

\* NodeResourceBar: the root filesystem if there is one, else the first.
ResourceBar(used, size) == IF size = 0 THEN "N/A" ELSE getStatusColor(Percent(used, size))

MemoryBar(m) == ResourceBar(Clamp(m.total - m.available), m.total)

DiskBar(m) ==
    LET roots == {i \in DOMAIN m.filesystem : m.filesystem[i].mountpoint = "/"}
        root  == m.filesystem[IF roots # {} THEN Min(roots) ELSE 1]
    IN  IF m.filesystem = <<>> THEN "N/A" ELSE ResourceBar(root.used, root.size)

-----------------------------------------------------------------------------
(* A service.                                                              *)

\* The total is of all containers, the limit of those that have one.
TotalUsage(s) == Sum(Each(LAMBDA c : c.usage, s.containers))
TotalLimit(s) == Sum(Each(LAMBDA c : c.limit, s.containers))

ServiceDonut(s) ==
    Shown(TotalUsage(s) > 0,
          IF TotalLimit(s) > 0
          THEN Chart(<<"Used", "Available">>, <<TotalUsage(s), TotalLimit(s) - TotalUsage(s)>>)
          ELSE Chart(<<"Used">>, <<TotalUsage(s)>>))

ContainerBars(s) ==
    Bars(Each(LAMBDA c : c.name, s.containers),
         Each(LAMBDA c : c.usage, s.containers),
         Each(LAMBDA c : IF c.limit > 0 THEN c.limit - c.usage ELSE 0, s.containers))

-----------------------------------------------------------------------------
(* A task.                                                                 *)

calculateMemoryMetrics(m) ==
    [cache |-> m.memoryCache, workingSet |-> m.workingSet,
     other |-> Clamp(m.usage - m.workingSet - m.memoryCache),
     available |-> IF m.limit > 0 THEN Clamp(m.limit - m.usage) ELSE 0]

\* Mutant of TaskMemoryDonut: the labels do not ask for the limit.
TaskMemoryDonutAlwaysLimited(m) ==
    LET c == calculateMemoryMetrics(m)
    IN  Chart(<<"Working Set", "Cache", "Other Used", "Available">>,
              <<c.workingSet, c.cache, c.other>> \o IF m.limit > 0 THEN <<c.available>> ELSE <<>>)

TaskMemoryDonut(m) ==
    LET c == calculateMemoryMetrics(m)
    IN  IF m.limit > 0
        THEN Chart(<<"Working Set", "Cache", "Other Used", "Available">>, <<c.workingSet, c.cache, c.other, c.available>>)
        ELSE Chart(<<"Working Set", "Cache", "Other Used">>, <<c.workingSet, c.cache, c.other>>)

\* The gauge of buildMemoryCharts; without a limit it is empty.
MemoryGauge(m) == Chart(<<"Memory">>, <<IF m.limit > 0 THEN m.usagePercent ELSE 0>>)

\* buildCPUCharts.
CpuGauge(m) ==
    LET hasQuota == m.cpuPercent > 0
    IN  Chart(<<IF hasQuota THEN "CPU Quota" ELSE "CPU Time">>, <<IF hasQuota THEN Least(m.cpuPercent, 100) ELSE 0>>)
CpuPie(m) == Chart(<<"User", "System">>, <<m.userSeconds, m.systemSeconds>>)

buildNetworkChart(m) == Chart(<<"Received", "Transmitted">>, <<m.rx, m.tx>>)

buildFSChart(m) ==
    IF m.fsLimit > 0
    THEN Chart(<<"Used", "Available">>, <<m.fsUsage, Clamp(m.fsLimit - m.fsUsage)>>)
    ELSE Chart(<<"Used">>, <<m.fsUsage>>)

\* TaskMetricsContent: the cards of a task, and the charts on them.
TaskCards(m) ==
    LET cpu == m.cpuUsage > 0 \/ m.userSeconds > 0 \/ m.systemSeconds > 0
        none == <<>>
    IN  <<IF m.usage > 0 \/ m.workingSet > 0 THEN <<MemoryGauge(m), TaskMemoryDonut(m)>> ELSE none,
          IF ~cpu THEN none
          ELSE IF m.userSeconds + m.systemSeconds > 0 THEN <<CpuGauge(m), CpuPie(m)>> ELSE <<CpuGauge(m)>>>>
        \o (IF m.rx + m.tx > 0 THEN <<<<buildNetworkChart(m)>>>> ELSE none)
        \o (IF m.fsUsage > 0 THEN <<<<buildFSChart(m)>>>> ELSE none)

\* MetricGrid: two cards to a row, the last row with what is left.
pairChildren(cards) ==
    [i \in 1..((Len(cards) + 1) \div 2) |-> SubSeq(cards, 2 * i - 1, Least(2 * i, Len(cards)))]

-----------------------------------------------------------------------------

Init == sample \in Samples
Poll == sample' \in {s \in Samples : s.for = sample.for}
Spec == Init /\ [][Poll]_sample

\* The charts of the answer on display.
Charts ==
    LET m == sample.m
        parts(set) == UNION {Range(whole) : whole \in set}
    IN  CASE sample.for = "cpu"        -> {CpuDonut(m), LoadGauge(m)}
          [] sample.for = "memory"     -> {MemoryDonut(m), SwapDonut(m)}
          [] sample.for = "filesystem" -> Range(NodeFilesystemNetworkSection(m))
          [] sample.for = "disk"       -> Range(NodeDiskIOSection(m))
          [] sample.for = "system"     -> {NodeSystemSection(m).tcp, NodeSystemSection(m).fd}
          [] sample.for = "service"    -> {ServiceDonut(m), ContainerBars(m)}
          [] sample.for = "task"       -> parts(parts(Range(pairChildren(TaskCards(m)))))
          [] sample.for = "percent"    -> {}

-----------------------------------------------------------------------------
(* Properties.                                                             *)

\* Some containers of the service have a limit, and others none.
MixedLimits(s) ==
    /\ \E i \in DOMAIN s.containers : s.containers[i].limit > 0
    /\ \E i \in DOMAIN s.containers : s.containers[i].limit = 0

Drawable(labels, series) ==
    /\ DOMAIN series = DOMAIN labels
    /\ \A i \in DOMAIN series : series[i] >= 0

\* Every chart has one value for each label and none below zero, which the charts
\* cannot draw; only a service that mixes containers with and without a limit may
\* be left with less than nothing.
ChartsAreDrawable ==
    \A c \in Charts :
        \/ /\ Drawable(c.labels, c.series)
           /\ "other" \in DOMAIN c => Drawable(c.labels, c.other)
        \/ sample.for = "service" /\ MixedLimits(sample.m)

\* The parts of every donut account for the whole it names: exactly, unless parts
\* the kernel counts overlap, and then they hide nothing.  The shares of the CPU
\* are rounded one by one, so they miss 100 % by half a hundredth of a percent
\* for each mode at most, on either side.  (A service that mixes containers with
\* and without a limit is excepted: its usage may exceed its limits.)
DonutsAddUp ==
    LET m == sample.m
    IN  CASE sample.for = "memory" /\ m.total > 0 ->
                /\ Sum(MemoryDonut(m).series) >= m.total
                /\ m.buffers + m.cached <= m.total - m.available => Sum(MemoryDonut(m).series) = m.total
                /\ m.swapTotal > 0 => Sum(SwapDonut(m).series) = m.swapTotal
          [] sample.for = "task" /\ (m.limit > 0 => m.usage <= m.limit) ->
                LET parts == Sum(TaskMemoryDonut(m).series)
                    whole == IF m.limit > 0 THEN m.limit ELSE m.usage
                IN  /\ parts >= whole
                    /\ m.workingSet + m.memoryCache <= m.usage => parts = whole
          [] sample.for = "service" /\ TotalUsage(m) > 0 /\ ~MixedLimits(m) ->
                Sum(ServiceDonut(m).series) = IF TotalLimit(m) > 0 THEN TotalLimit(m) ELSE TotalUsage(m)
          [] sample.for = "system" -> Sum(TcpDonut(m).series) >= m.alloc
          [] sample.for = "cpu" /\ CpuSeconds(m) > 0 ->
                LET parts == Sum(CpuDonut(m).series)
                IN  2 * parts <= 2 * Hundredths + Len(m.cpu) /\ 2 * Hundredths <= 2 * parts + Len(m.cpu)
          [] OTHER -> TRUE

\* Whether color a is as severe as color b, or more so.
AsSevere(a, b) == b = "normal" \/ a = "critical" \/ a = b

\* One percentage has one severity, whichever component shows it; only the file
\* descriptors warn earlier, never later.  The bars of a node in the table have
\* the color of what the charts of its detail show: the memory that the donut
\* does not call available, and a filesystem among the stacked bars.
SeveritiesAgree ==
    LET m == sample.m
    IN  CASE sample.for = "percent" ->
                LET p == m.usagePercent
                IN  /\ ClusterVariant(p) = getStatusColor(p)
                    /\ TaskRowClass(p) = getStatusColor(p)
                    /\ p > 0 => KpiHeader(m) = [memory |-> getStatusColor(p), cpu |-> getStatusColor(p)]
                    /\ AsSevere(fdColor(p), getStatusColor(p))
          [] sample.for = "memory" /\ m.total > 0 ->
                MemoryBar(m) = getStatusColor(Percent(m.total - Last(MemoryDonut(m).series), m.total))
          [] sample.for = "filesystem" /\ m.filesystem # <<>> ->
                LET bars == FilesystemBars(m)
                IN  \E i \in DOMAIN bars.labels :
                        /\ "/" \in Range(bars.labels) => bars.labels[i] = "/"
                        /\ DiskBar(m) = ResourceBar(bars.series[i], bars.series[i] + bars.other[i])
          [] OTHER -> TRUE
=============================================================================
