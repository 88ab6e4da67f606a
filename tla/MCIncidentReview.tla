--------------------------- MODULE MCIncidentReview ---------------------------
(* Instances of IncidentReview for TLC.                                    *)
EXTENDS IncidentReview, TLC

CONSTANTS n1, n2, l, d1, d2, b

SameNames == [n \in {n1, n2} |-> n]
SymmetricDeciders == Permutations({d1, d2})

\* A proposal of n1, one that n2 makes in the name of n1, one that does not keep
\* to the contract, and one that was retained.
FewShapes ==
    {[topic |-> t, source |-> n1, sound |-> TRUE, retained |-> FALSE] : t \in {n1, n2}}
    \cup {[topic |-> n1, source |-> n1, sound |-> s, retained |-> s] : s \in BOOLEAN}
=============================================================================
