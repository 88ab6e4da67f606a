---------------------------- MODULE LiveCheckout ----------------------------
(***************************************************************************)
(* What the canary deploy promises about the live path, whoever deploys,   *)
(* rolls back, recovers or crashes: a checkout goes up only when it passed *)
(* its build, or when it was live before; the one that comes down is kept; *)
(* and a kept checkout goes away only when the operator prunes.            *)
(***************************************************************************)
CONSTANTS Checkouts, First, None

VARIABLES
    live,       \* the checkout under the live path, or None between two renames
    kept,       \* checkouts that have been live and are still on disk
    candidates  \* staging clones whose build-test command passed

vars == <<live, kept, candidates>>

Init == live = First /\ kept = {} /\ candidates = {}

\* A candidate passes its build.
Verify(c) ==
    /\ c \notin kept \cup {live}
    /\ candidates' = candidates \cup {c}
    /\ UNCHANGED <<live, kept>>

\* A candidate that is not promoted is removed.
Discard(c) ==
    /\ candidates' = candidates \ {c}
    /\ UNCHANGED <<live, kept>>

TakeDown ==
    /\ live # None
    /\ live' = None /\ kept' = kept \cup {live}
    /\ UNCHANGED candidates

PutUp(c) ==
    /\ live = None
    /\ c \in candidates \cup kept
    /\ live' = c
    /\ kept' = kept \ {c} /\ candidates' = candidates \ {c}

Prune ==
    /\ \E gone \in SUBSET kept : kept' = kept \ gone
    /\ UNCHANGED <<live, candidates>>

Next == TakeDown \/ Prune \/ \E c \in Checkouts : Verify(c) \/ Discard(c) \/ PutUp(c)

Spec == Init /\ [][Next]_vars
=============================================================================
