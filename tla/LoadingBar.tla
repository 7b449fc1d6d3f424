----------------------------- MODULE LoadingBar -----------------------------
(***************************************************************************)
(* The counter of requests in flight, which the wrapper of window.fetch in *)
(* src/app-src/src/index.jsx keeps, and the bar at the top of the page     *)
(* that follows it (components/layout/LoadingBar.jsx).                     *)
(*                                                                         *)
(* The wrapper counts in a microtask, before any effect of React can run,  *)
(* so a request and its count are one step.  The bar sees the count only   *)
(* when its effect runs, and its timers fire later still.                  *)
(***************************************************************************)
EXTENDS Naturals

CONSTANTS
    MaxRequests,   \* bound: requests in flight
    MaxHides       \* bound: timeouts of 120 ms running together

ASSUME BarAssumption == MaxRequests \in Nat /\ MaxHides \in Nat \ {0, 1}

VARIABLES
    count,      \* networkRequestsAtom
    bar,        \* the bar is mounted
    seen,       \* the count its effect last ran for
    visible,
    armed,      \* timerRef and finishTimeoutRef, which are set and cleared together
    hides       \* the timeouts of stop() that have not fired

barState == <<bar, seen, visible, armed, hides>>
barVars == <<count, barState>>

BarInit ==
    /\ count = 0
    /\ bar = FALSE /\ seen = 0 /\ visible = FALSE /\ armed = FALSE /\ hides = 0

\* A call of the wrapped fetch, and its end, whatever it is.
BeginRequest == count < MaxRequests /\ count' = count + 1
EndRequest == count' = IF count > 0 THEN count - 1 ELSE 0

-----------------------------------------------------------------------------

Start ==
    /\ visible' = TRUE
    /\ armed' = TRUE
    /\ UNCHANGED hides

\* Mutant of Stop: nothing is left that takes the bar away.
StopForgetsHide ==
    /\ armed' = FALSE
    /\ UNCHANGED <<visible, hides>>

\* stop(): the bar goes 120 ms later, and nothing cancels that.
Stop ==
    /\ hides < MaxHides
    /\ hides' = hides + 1
    /\ armed' = FALSE
    /\ UNCHANGED visible

\* The page mounts the bar; with nothing in flight both effects call stop().
MountBar ==
    /\ ~bar
    /\ bar' = TRUE
    /\ seen' = count
    /\ IF count > 0
       THEN Start
       ELSE hides' = hides + 2 /\ armed' = FALSE /\ UNCHANGED visible
    /\ UNCHANGED count

\* An error of the page takes it down; timeouts that still fire change nothing.
UnmountBar ==
    /\ bar
    /\ bar' = FALSE /\ visible' = FALSE /\ armed' = FALSE /\ hides' = 0
    /\ UNCHANGED <<count, seen>>

\* The effect, which runs only when the count differs from the one before.
Effect ==
    /\ bar /\ seen # count
    /\ seen' = count
    /\ IF count > 0 THEN Start ELSE Stop
    /\ UNCHANGED <<count, bar>>

\* A timeout of 120 ms fires.
HideBar ==
    /\ hides > 0
    /\ hides' = hides - 1
    /\ visible' = FALSE
    /\ UNCHANGED <<count, bar, seen, armed>>

\* The finish timeout of 15 s fires; the short ones set before it have fired.
Finish ==
    /\ armed /\ hides = 0
    /\ Stop
    /\ UNCHANGED <<count, bar, seen>>

BarTimer == Effect \/ HideBar \/ Finish

\* The bar alone: requests of any page come and go.
Request == BeginRequest /\ UNCHANGED barState
Answered == count > 0 /\ EndRequest /\ UNCHANGED barState

BarNext == Request \/ Answered \/ MountBar \/ UnmountBar \/ BarTimer

BarSpec == BarInit /\ [][BarNext]_barVars

-----------------------------------------------------------------------------

BarTypeOK ==
    /\ count \in 0..MaxRequests /\ seen \in 0..MaxRequests
    /\ bar \in BOOLEAN /\ visible \in BOOLEAN /\ armed \in BOOLEAN
    /\ hides \in 0..MaxHides

\* Once the number of requests in flight stays the same, the bar goes away for
\* good: after the last answer, and after 15 s even when none comes.
BarGoesAway == \A n \in 0..MaxRequests : <>[](bar /\ count = n) => <>[]~visible

\* The promise of LoadingBar.jsx:9, "shows a thin progress bar while there are
\* active network requests", of a bar whose effect has seen them.
BarWhilePending == bar /\ seen = count /\ count > 0 => visible
=============================================================================
