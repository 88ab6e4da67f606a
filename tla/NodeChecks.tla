------------------------------ MODULE NodeChecks ------------------------------
(***************************************************************************)
(* One component of a node and what the checks of inventory.py and         *)
(* host_health.py say of it: a project's manifest in its git checkout, a   *)
(* systemd unit, a health URL, or a reading of the machine itself.  The    *)
(* same checks serve `edge collect' and `control verify'.                  *)
(***************************************************************************)
EXTENDS Naturals, Sequences, FiniteSets

CONSTANTS
    Files,       \* the tracked files of the project
    Manifest,    \* the one that is its hydra-umc.project.json
    Kinds,       \* the kinds of component that are looked at
    MaxChanges,  \* bound: how often the world around the programs changes
    None

ASSUME ChecksAssumption ==
    /\ Manifest \in Files /\ None \notin Nat /\ MaxChanges \in Nat
    /\ Kinds \subseteq {"manifest", "unit", "url", "disk", "temperature", "throttling", "backups"}

VARIABLES
    commits,    \* commit -> the text of each file in it
    checkout,   \* the live checkout: the commit it is on, the text of each file in it,
                \*   and the files a canary changed without a local commit
    subject,    \* the kind of the component
    condition,  \* how the component is, when it is not a manifest
    systemd,    \* systemctl is there
    changes     \* how often any of this changed

nodeVars == <<commits, checkout, subject, condition, systemd, changes>>

\* A manifest is "new" (all its fields are there), "old" (one is missing) or "gone".
Texts == {"old", "new"}
Trees == [Files -> Texts \cup {"gone"}]
Checkouts == [head : Nat, tree : Trees, pending : SUBSET Files]

Well == [unit |-> "active", url |-> "well", disk |-> "roomy", temperature |-> "cool",
         throttling |-> "off", backups |-> "recent", manifest |-> "new"]
Conditions(kind) ==
    {Well[kind]} \cup CASE kind = "unit" -> {"inactive", "hangs"}
                        [] kind = "url" -> {"unwell", "silent"}
                        [] kind = "manifest" -> {}
                        [] OTHER -> {"ill", "unreadable"}

NodeInit ==
    /\ commits = <<[f \in Files |-> "old"]>>
    /\ checkout = [head |-> 1, tree |-> commits[1], pending |-> {}]
    /\ subject \in Kinds /\ condition \in Conditions(subject) /\ systemd \in BOOLEAN
    /\ changes = 0
-----------------------------------------------------------------------------
(* The checks: "clean", "trouble", or "unchecked" when nothing was learnt. *)

\* check_project_manifest: a manifest that is not there any more is trouble too.
CheckManifest(text) == IF text = "new" THEN "clean" ELSE "trouble"

\* scan_project_manifests: a folder without a manifest is not a project.
ScanManifest(text) == IF text = "gone" THEN "unchecked" ELSE CheckManifest(text)

\* A systemctl that does not answer in time is a unit that is not active.
CheckUnit(c) ==
    IF ~systemd THEN "unchecked" ELSE IF c = Well.unit THEN "clean" ELSE "trouble"

\* A 2xx answer whose body says it is not well is trouble.
CheckUrl(c) == IF c = Well.url THEN "clean" ELSE "trouble"
CheckUrl_status(c) == IF c \in {Well.url, "unwell"} THEN "clean" ELSE "trouble"

\* A disk, a temperature or a throttling flag the machine cannot give tells nothing ...
CheckReading(kind, c) ==
    IF c = "unreadable" THEN "unchecked" ELSE IF c = Well[kind] THEN "clean" ELSE "trouble"

\* ... but a backup folder that cannot be read is a problem of its own.
CheckBackups(c) == IF c = Well.backups THEN "clean" ELSE "trouble"

\* What a collection finds of the component.
Finding ==
    CASE subject = "manifest" -> ScanManifest(checkout.tree[Manifest])
      [] subject = "unit" -> CheckUnit(condition)
      [] subject = "url" -> CheckUrl(condition)
      [] subject = "backups" -> CheckBackups(condition)
      [] OTHER -> CheckReading(subject, condition)

\* `git rev-parse HEAD': it may fail or take too long.
ReadCommit == {checkout.head, None}
-----------------------------------------------------------------------------
(* The world around the programs.                                          *)

Dirty == {f \in Files \ checkout.pending : checkout.tree[f] # commits[checkout.head][f]}

\* The condition of a live component changes, or systemd goes or comes back.
ConditionChanges ==
    /\ \/ condition' \in Conditions(subject) \ {condition} /\ UNCHANGED systemd
       \/ subject = "unit" /\ systemd' = ~systemd /\ UNCHANGED condition
    /\ UNCHANGED <<commits, checkout, subject>>

\* Somebody edits a file in the checkout, or deletes the manifest.
HandEdit ==
    /\ \E f \in Files : \E t \in Texts \cup (IF f = Manifest THEN {"gone"} ELSE {}) :
          checkout.tree[f] # t /\ checkout' = [checkout EXCEPT !.tree[f] = t]
    /\ UNCHANGED <<commits, subject, condition, systemd>>

\* Somebody commits what differs.
HandCommit ==
    /\ Dirty # {}
    /\ commits' = Append(commits, [f \in Files |->
                     IF f \in Dirty THEN checkout.tree[f] ELSE commits[checkout.head][f]])
    /\ checkout' = [checkout EXCEPT !.head = Len(commits')]
    /\ UNCHANGED <<subject, condition, systemd>>

\* The updater brings a commit that changes a file nobody touched.
Update ==
    /\ \E f \in Files \ (Dirty \cup checkout.pending), t \in Texts :
          /\ commits[checkout.head][f] # t
          /\ commits' = Append(commits, [commits[checkout.head] EXCEPT ![f] = t])
          /\ checkout' = [checkout EXCEPT !.head = Len(commits'), !.tree[f] = t]
    /\ UNCHANGED <<subject, condition, systemd>>

\* A commit only takes up an edit, so it needs no bound of its own.
WorldChanges ==
    \/ /\ changes < MaxChanges /\ changes' = changes + 1
       /\ ConditionChanges \/ HandEdit \/ Update
    \/ HandCommit /\ UNCHANGED changes

NodeTypeOK ==
    /\ \A c \in DOMAIN commits : commits[c] \in Trees
    /\ checkout \in Checkouts /\ checkout.head \in DOMAIN commits
    /\ subject \in Kinds /\ condition \in Conditions(subject) /\ systemd \in BOOLEAN
    /\ changes \in 0..MaxChanges
=============================================================================
