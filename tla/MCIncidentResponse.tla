-------------------------- MODULE MCIncidentResponse --------------------------
(* An instance of IncidentResponse for TLC.                                *)
EXTENDS IncidentResponse

CONSTANTS manifest, script

Up == [from |-> "old", to |-> "new"]
Down == [from |-> "new", to |-> "old"]
\* A fix of the manifest, one with a secret in it, one that breaks it again, a change of the
\* script that builds the project, and the fix together with that change.
FewDiffs ==
    {[hunks |-> [f \in {manifest} |-> Up], secret |-> FALSE],
     [hunks |-> [f \in {manifest} |-> Up], secret |-> TRUE],
     [hunks |-> [f \in {manifest} |-> Down], secret |-> FALSE],
     [hunks |-> [f \in {script} |-> Up], secret |-> FALSE],
     [hunks |-> [f \in {manifest, script} |-> Up], secret |-> FALSE]}
=============================================================================
