-------------------------- MODULE MCMetricsRequest --------------------------
(* MetricsRequest on small instances, for TLC. *)
EXTENDS MetricsRequest

CONSTANTS n1, n2, a1, a2, a3, t1, t2, t3

TwoNodes == {n1, n2}

\* Two agents on the first node, of which one has no address, and one on the
\* second.
ThreeAgents == {a1, a2, a3}
AgentsOn == [a \in ThreeAgents |-> IF a = a3 THEN n2 ELSE n1]
WithAddress == {a1, a3}

\* Two tasks on the first node and one on the second.
ThreeTasks == {t1, t2, t3}
Placed == [t \in ThreeTasks |-> IF t = t3 THEN n2 ELSE n1]
=============================================================================
