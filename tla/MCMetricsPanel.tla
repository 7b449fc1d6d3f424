--------------------------- MODULE MCMetricsPanel ---------------------------
(* Instances of MetricsPanel for TLC. *)
EXTENDS MetricsPanel, TLC

CONSTANTS e1, e2

TwoEntities == {e1, e2}
=============================================================================
