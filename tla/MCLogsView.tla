----------------------------- MODULE MCLogsView -----------------------------
(* Instances of LogsView for TLC. *)
EXTENDS LogsView, TLC

CONSTANTS s1, s2

TwoServices == {s1, s2}
ServiceSymmetry == Permutations(TwoServices)
=============================================================================
