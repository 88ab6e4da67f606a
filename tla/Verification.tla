----------------------------- MODULE Verification -----------------------------
(***************************************************************************)
(* `edge collect' for one component and `control verify' for its incident: *)
(* verification.py looks again with the same check, compares a manifest's  *)
(* commit with the one recorded when it was detected, and hands the before *)
(* and after of its verdict to the server (scenario_ingest.py).            *)
(***************************************************************************)
EXTENDS NodeChecks

CONSTANTS
    Stored,   \* the health URL as a snapshot holds it: "plain" or "redacted"
    MaxRuns   \* bound: how many verifications

ASSUME VerificationAssumption == Stored \in {"plain", "redacted"} /\ MaxRuns \in Nat

VARIABLES
    collector,  \* what a running collection found, or None
    snapshot,   \* the incident of the newest snapshot that has one, or None: the node it was
                \*   raised on, and the commit recorded as its evidence, or None
    verifier,   \* the running verification: what it saw, the commit it read, its verdict,
                \*   and the incident it is about
    verdicts,   \* the verdict of each verification, and the incident it is about
    kept,       \* the outcomes the server keeps, each with the run that sent it
    steady      \* nothing around the programs changed since the last verification began

verifyVars == <<collector, snapshot, verifier, verdicts, kept, steady>>

Resting == [pc |-> "idle", saw |-> "unchecked", commit |-> None, incident |-> None]
Incidents == [node : {"here", "elsewhere"}, base : Nat \cup {None}]
Verdicts == [is : {"resolved", "broken", "refused"}, incident : Incidents]
Outcomes == [run : 1..MaxRuns, phase : {"before", "after"},
             outcome : {"reproduced", "not-reproduced"}, print : Nat \cup {None}]

VerifyInit ==
    /\ collector = None /\ snapshot = None
    /\ verifier = Resting /\ verdicts = <<>> /\ kept = <<>> /\ steady = FALSE
-----------------------------------------------------------------------------
(* A collection: the check, then, for a manifest, the commit.              *)

Look ==
    /\ collector = None
    /\ collector' = Finding
    /\ UNCHANGED <<nodeVars, snapshot, verifier, verdicts, kept, steady>>

\* add_manifest_issue: a commit that cannot be read leaves the incident without one.
Evidence == IF subject = "manifest" THEN ReadCommit ELSE {None}

Raise ==
    /\ collector # None
    /\ collector' = None
    /\ IF collector = "trouble"
         THEN \E c \in Evidence : snapshot' = [node |-> "here", base |-> c]
         ELSE UNCHANGED snapshot
    /\ UNCHANGED <<nodeVars, verifier, verdicts, kept, steady>>

-----------------------------------------------------------------------------
(* A verification.                                                         *)

Refuse(s) ==
    /\ verdicts' = Append(verdicts, [is |-> "refused", incident |-> s])
    /\ verifier' = Resting
    /\ UNCHANGED <<nodeVars, collector, snapshot, kept>>

\* A check on this machine says nothing of another node's component; a reading of the
\* machine has no second check; a manifest without a recorded commit has none either.
CanVerify(s) ==
    /\ s.node = "here"
    /\ \/ (subject = "unit" /\ systemd)
       \/ subject = "url"
       \/ (subject = "manifest" /\ s.base # None)

Again_answers == CASE subject = "manifest" -> CheckManifest(checkout.tree[Manifest])
                   [] subject = "unit" -> CheckUnit(condition)
                   [] OTHER -> CheckUrl_status(condition)

\* The check of the incident's kind, made again.
Again == CASE subject = "manifest" -> CheckManifest(checkout.tree[Manifest])
           [] subject = "unit" -> CheckUnit(condition)
           [] OTHER -> CheckUrl(condition)

\* The snapshot may be one that was fetched from another node.  With a redacted URL, only
\* the real one, given by the operator, can be asked.
VerifyBegins ==
    /\ verifier.pc = "idle" /\ snapshot # None /\ Len(verdicts) < MaxRuns
    /\ steady' = TRUE
    /\ \E s \in {snapshot, [snapshot EXCEPT !.node = "elsewhere"]} :
       \/ /\ CanVerify(s)
          /\ verifier' = [pc |-> IF subject = "manifest" THEN "looked" ELSE "before",
                          saw |-> Again, commit |-> None, incident |-> s]
          /\ UNCHANGED <<nodeVars, collector, snapshot, verdicts, kept>>
       \/ ~CanVerify(s) /\ Refuse(s)
       \/ subject = "url" /\ Stored = "redacted" /\ Refuse(s)

\* The commit the checkout is on now, for compare_runs.  The SDK may not be there, the
\* commit may not be readable.
ReadsCommit ==
    /\ verifier.pc = "looked"
    /\ \/ /\ checkout.head \in ReadCommit
          /\ verifier' = [verifier EXCEPT !.pc = "before", !.commit = checkout.head]
          /\ UNCHANGED <<nodeVars, collector, snapshot, verdicts, kept>>
       \/ Refuse(verifier.incident)
    /\ UNCHANGED steady

\* compare_runs: a fix is one that can be seen in a commit that moved.
Promotable(v) == v.saw = "clean" /\ (subject = "manifest" => v.commit # v.incident.base)

Run == Len(verdicts) + 1
\* A live service has no version: its pair names the thing that was looked at.
Before(v) == [run |-> Run, phase |-> "before", outcome |-> "reproduced",
              print |-> IF subject = "manifest" THEN v.incident.base ELSE None]
After_stored(v) == [run |-> Run, phase |-> "after",
                    outcome |-> IF v.saw = "clean" THEN "not-reproduced" ELSE "reproduced",
                    print |-> Before(v).print]
After(v) == [run |-> Run, phase |-> "after",
             outcome |-> IF v.saw = "clean" THEN "not-reproduced" ELSE "reproduced",
             print |-> IF subject = "manifest" THEN v.commit ELSE None]

\* post_scenario_outcome: the server keeps it, or it is off, refuses or is not reached;
\* the verification goes on whatever came of it.
HandsOn(document) == kept' \in {kept, Append(kept, document)}

HandBefore ==
    /\ verifier.pc = "before"
    /\ HandsOn(Before(verifier))
    /\ verifier' = [verifier EXCEPT !.pc = "after"]
    /\ UNCHANGED <<nodeVars, collector, snapshot, verdicts, steady>>

HandAfter ==
    /\ verifier.pc = "after"
    /\ HandsOn(After(verifier))
    /\ verdicts' = Append(verdicts, [is |-> IF Promotable(verifier) THEN "resolved" ELSE "broken",
                                     incident |-> verifier.incident])
    /\ verifier' = Resting
    /\ UNCHANGED <<nodeVars, collector, snapshot, steady>>

Verify == Look \/ Raise \/ VerifyBegins \/ ReadsCommit \/ HandBefore \/ HandAfter

VerifyTypeOK ==
    /\ collector \in {None, "clean", "trouble", "unchecked"}
    /\ snapshot \in {None} \cup Incidents
    /\ verifier.pc \in {"idle", "looked", "before", "after"}
    /\ verifier.saw \in {"clean", "trouble", "unchecked"}
    /\ verifier.commit \in Nat \cup {None} /\ verifier.incident \in {None} \cup Incidents
    /\ subject = "manifest" /\ verifier.pc # "idle" => verifier.incident.base \in Nat
    /\ verdicts \in Seq(Verdicts) /\ Len(verdicts) <= MaxRuns
    /\ kept \in Seq(Outcomes) /\ steady \in BOOLEAN
=============================================================================
