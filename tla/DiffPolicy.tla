------------------------------ MODULE DiffPolicy ------------------------------
(***************************************************************************)
(* What a diff may hold and touch: diff_policy.py and deploy_policy.py.  A *)
(* diff changes the text of some files from what it expects to find there; *)
(* it may carry a secret.  The policy of a node is missing or broken, does *)
(* not list the project, or lists it with the paths it allows.             *)
(***************************************************************************)
EXTENDS NodeChecks

CONSTANTS
    Protected,    \* the files that decide how a change is checked or run
    AllowedPaths, \* the sets of paths that a policy may allow the project
    Diffs         \* the diffs that somebody may write

Hunks == {h \in [from : Texts, to : Texts] : h.from # h.to}
AllDiffs == [hunks : UNION {[S -> Hunks] : S \in SUBSET Files \ {{}}}, secret : BOOLEAN]

ASSUME PolicyAssumption ==
    /\ Protected \subseteq Files /\ AllowedPaths \subseteq SUBSET Files /\ Diffs \subseteq AllDiffs

TouchedPaths(d) == DOMAIN d.hunks
ProtectedPathsIn(d) == TouchedPaths(d) \cap Protected

\* `git apply': every hunk finds its text.
Applies(d, tree) == \A f \in TouchedPaths(d) : tree[f] = d.hunks[f].from
Applied(d, tree) == [f \in Files |-> IF f \in TouchedPaths(d) THEN d.hunks[f].to ELSE tree[f]]

\* A policy that cannot be read, or does not list the project, allows nothing.
Policies == [is : {"broken", "unlisted"}, allowed : {{}}] \cup [is : {"listed"}, allowed : AllowedPaths]

\* DeployPolicy.check, with one of the project's own build-test commands.
PolicyAllows(policy, paths) == policy.is = "listed" /\ paths \subseteq policy.allowed
=============================================================================
