--------------------------- MODULE MCMetricsCharts ---------------------------
(* Instances of MetricsCharts for TLC: the answers the server can send, small. *)
EXTENDS MetricsCharts

For(panel, set) == {[for |-> panel, m |-> m] : m \in set}
UpToTwo(set) == {<<>>} \cup {<<a>> : a \in set} \cup {<<a, b>> : a \in set, b \in set}

CpuSamples ==
    [cpu : UpToTwo([mode : {"user", "idle"}, value : 0..2]) \cup
               {[i \in 1..6 |-> [mode |-> "idle", value |-> v]] : v \in 0..1},
     numCPUs : 0..2, loads : {<<>>, <<0, 0, 0>>, <<1, 2, 3>>, <<9, 1, 0>>}]

\* MemAvailable, Buffers + Cached and SwapFree are within their totals.
MemorySamples ==
    {m \in [total : {0, 3}, available : 0..3, buffers : 0..2, cached : 0..2,
            swapTotal : 0..1, swapUsed : 0..1, swapFree : 0..1] :
        /\ m.available <= m.total /\ m.buffers + m.cached <= m.total
        /\ m.swapUsed + m.swapFree = m.swapTotal}

FilesystemSamples ==
    [filesystem : UpToTwo({f \in [mountpoint : {"/", "/data"}, size : 1..2, used : 0..2, available : 0..2] :
                              f.used + f.available = f.size}),
     network : UpToTwo([interface : {"eth0"}, received : 0..1, sent : {1}])]

DiskSamples ==
    [diskIO : UpToTwo([device : {"sda"}, readBytes : 0..1, writtenBytes : {1}, reads : 0..1, writes : {1}])]

SystemSamples == [alloc : 0..2, inuse : 0..2, timeWait : 0..1, fdAllocated : 0..1, fdPercent : {0, 61, 81}]

ServiceSamples ==
    [containers : UpToTwo({c \in [name : {"c"}, usage : 0..2, limit : {0, 2}] : c.limit > 0 => c.usage <= c.limit})]

\* fsUsage follows rx only to keep the set small: no chart shows both.
TaskSamples ==
    {m \in [limit : {0, 3}, usage : 0..2, workingSet : 0..2, memoryCache : 0..1, usagePercent : {0},
            cpuPercent : {0, 120}, cpuUsage : 0..1, userSeconds : 0..1, systemSeconds : {0},
            rx : 0..1, tx : {0}, fsUsage : {0, 1}, fsLimit : {0, 2}] :
        /\ m.fsUsage = m.rx
        /\ m.workingSet <= m.usage /\ (m.limit > 0 => m.usage <= m.limit)}

PercentSamples == {m \in [usagePercent : 0..100, cpuPercent : 0..100] : m.usagePercent = m.cpuPercent}

AllSamples ==
    For("cpu", CpuSamples) \cup For("memory", MemorySamples) \cup For("filesystem", FilesystemSamples)
        \cup For("disk", DiskSamples) \cup For("system", SystemSamples)
        \cup For("service", ServiceSamples) \cup For("task", TaskSamples) \cup For("percent", PercentSamples)
=============================================================================
