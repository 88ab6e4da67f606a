--------------------------- MODULE IncidentLifecycle ---------------------------
(***************************************************************************)
(* What the incident store promises: a component has at most one incident  *)
(* at a time, which keeps its identity for as long as the problem lasts;   *)
(* when it is over the incident closes for good, and the same problem      *)
(* coming back is a new incident (reconcile_incidents).                    *)
(***************************************************************************)
EXTENDS Naturals

CONSTANT Components

VARIABLES
    current,  \* component -> its open incident, if it has one
    used      \* the newest incident so far

Init == current = [c \in Components |-> {}] /\ used = 0

\* Incidents close, and problems get incidents of their own, several at once.
Next ==
    /\ used' >= used
    /\ current' \in [Components -> SUBSET (1..used')]
    /\ \A c \in Components :
           /\ \A x, y \in current'[c] : x = y
           /\ current'[c] \subseteq current[c] \cup (used + 1)..used'
    /\ \A c, d \in Components : c # d => current'[c] \cap current'[d] = {}

Spec == Init /\ [][Next]_<<current, used>>
=============================================================================
