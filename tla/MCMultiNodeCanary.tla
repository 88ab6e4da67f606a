------------------------- MODULE MCMultiNodeCanary -------------------------
(* Instances of MultiNodeCanary for TLC.                                   *)
EXTENDS MultiNodeCanary, TLC

CONSTANTS r1, r2, n1, n2, n3

\* A second rollout for one node of the first one.
Overlapping == (r1 :> <<n1, n2, n3>>) @@ (r2 :> <<n2>>)
=============================================================================
