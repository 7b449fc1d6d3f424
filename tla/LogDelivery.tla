---------------------------- MODULE LogDelivery ----------------------------
(***************************************************************************)
(* What one logs websocket request promises to the browser, without        *)
(* goroutines, channels or deadlines: a stretch of the service's log, in   *)
(* order and without a gap, then at most one close frame and nothing after *)
(* it.  A follow request starts with the first line Docker returns and is  *)
(* closed normally only after every line read from Docker.                 *)
(* LogStream implements this specification.                                *)
(***************************************************************************)
EXTENDS Naturals, Sequences

CONSTANT Blank    \* the lines without a payload: a one-shot answer skips them

VARIABLES
    follow,       \* TRUE for a follow request, FALSE for a one-shot request
    produced,     \* lines 1..produced have been read from Docker
    delivered,    \* the lines sent to the browser, in the order sent
    closed        \* "none", or the close frame sent: "normal" or "error"

dvars == <<follow, produced, delivered, closed>>

\* n may be sent right after m: every line between them is skipped.
Succeeds(m, n) ==
    /\ m < n
    /\ \A k \in (m + 1)..(n - 1) : ~follow /\ k \in Blank

Init ==
    /\ follow \in BOOLEAN
    /\ produced = 0
    /\ delivered = <<>>
    /\ closed = "none"

Produce ==
    /\ follow => closed # "normal"
    /\ produced' = produced + 1
    /\ UNCHANGED <<follow, delivered, closed>>

Deliver(n) ==
    /\ closed = "none"
    /\ n \in 1..produced
    /\ IF delivered = <<>>
       THEN follow => n = 1
       ELSE Succeeds(delivered[Len(delivered)], n)
    /\ delivered' = Append(delivered, n)
    /\ UNCHANGED <<follow, produced, closed>>

CloseNormally ==
    /\ closed = "none"
    /\ follow => Len(delivered) = produced
    /\ closed' = "normal"
    /\ UNCHANGED <<follow, produced, delivered>>

CloseWithError ==
    /\ closed = "none"
    /\ produced = 0
    /\ closed' = "error"
    /\ UNCHANGED <<follow, produced, delivered>>

Next ==
    \/ Produce
    \/ \E n \in 1..produced : Deliver(n)
    \/ CloseNormally
    \/ CloseWithError

Spec == Init /\ [][Next]_dvars
=============================================================================
