--------------------------- MODULE MCVersionCache ---------------------------
(* VersionCache on small instances, for TLC. *)
EXTENDS VersionCache

CONSTANTS r1, r2

TwoRequests == {r1, r2}
=============================================================================
