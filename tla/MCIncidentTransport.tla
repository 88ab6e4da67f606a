------------------------- MODULE MCIncidentTransport -------------------------
(* Instances of IncidentTransport for TLC.                                 *)
EXTENDS IncidentTransport, TLC

CONSTANTS c, t1, t2

OnTimeOrAhead == {0, 1}
Symmetric == Permutations({t1, t2})
=============================================================================
