--------------------------- MODULE MCCanaryDeploy ---------------------------
(* Instances of CanaryDeploy for TLC: deploys and their sets of options.   *)
EXTENDS CanaryDeploy, TLC

CONSTANTS d1, d2, d3

OneDeploy == {d1}
TwoDeploys == {d1, d2}
ThreeDeploys == {d1, d2, d3}

SymmetricDeploys == Permutations(Deploys)
\* d3 is the one that keeps its local commit.
SymmetricPair == Permutations({d1, d2})
=============================================================================
