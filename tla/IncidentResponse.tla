--------------------------- MODULE IncidentResponse ---------------------------
(***************************************************************************)
(* From a problem of one component to the verdict that it is over: the     *)
(* collection that raises the incident, the change that a person or a      *)
(* model proposes and the canary deploy puts up, and the verification,     *)
(* while the checkout, the services and the policy change around them.     *)
(***************************************************************************)
EXTENDS Verification, Drafting

vars == <<nodeVars, verifyVars, draftVars>>

Init == NodeInit /\ VerifyInit /\ DraftInit

\* Whatever is not the verification's own step disturbs it.
Disturbs == steady' = FALSE /\ UNCHANGED <<collector, snapshot, verifier, verdicts, kept>>

Next ==
    \/ Verify /\ UNCHANGED draftVars
    \/ WorldChanges /\ Disturbs /\ UNCHANGED draftVars
    \/ PolicyChanges /\ UNCHANGED verifyVars
    \/ Respond /\ IF checkout' = checkout THEN UNCHANGED verifyVars ELSE Disturbs

Spec == Init /\ [][Next]_vars
-----------------------------------------------------------------------------
TypeOK == NodeTypeOK /\ VerifyTypeOK /\ DraftTypeOK

\* "The same real check ... never a second, independently-drifting implementation": as
\* long as nothing around them changed, a verification that says the problem is over is one
\* after which a collection finds the component clean, on this node; one that says a live
\* component is still broken is one after which a collection raises it again.  For a
\* manifest it takes a commit that moved since the detection as well.
VerdictAgrees ==
    steady /\ verifier.pc = "idle" =>
        LET v == verdicts[Len(verdicts)]
        IN  CASE v.is = "resolved" ->
                   /\ v.incident.node = "here" /\ Finding = "clean"
                   /\ subject = "manifest" => checkout.head # v.incident.base
              [] v.is = "broken" ->
                   /\ v.incident.node = "here"
                   /\ \/ Finding = "trouble"
                      \/ /\ subject = "manifest"
                         /\ checkout.head = v.incident.base \/ checkout.tree[Manifest] = "gone"
              [] OTHER -> TRUE

\* What the server keeps is the evidence of the verdict that was given, whatever of it was
\* lost: nothing of a verification that could not be made, and an "after" from which the
\* verdict follows, compared with the commit of the detection.
KeptIsEvidence ==
    \A d \in {kept[i] : i \in DOMAIN kept} : d.run \in DOMAIN verdicts =>
        LET v == verdicts[d.run]
        IN  /\ v.is # "refused"
            /\ d.phase = "after" =>
                 (v.is = "resolved" <=> /\ d.outcome = "not-reproduced"
                                        /\ d.print # None => d.print # v.incident.base)

\* A model's draft is one that the deploy takes: signed for the commit it was checked
\* against, while neither the checkout nor the policy changed, it is not refused, and it
\* needs no allowance for protected paths.
DraftIsDeployable ==
    proposal # None /\ proposal.drafted # None /\ proposal.approved
    /\ proposal.drafted = [policy |-> policy, checkout |-> checkout]
    /\ Dirty = {} /\ checkout.pending = {}
    => Accepted(proposal)

\* What goes up is what was reviewed: the files of the commit that the approval was signed
\* for, with the diff and nothing else changed; and no file of it was in an edit that
\* nobody committed.
ReviewedGoesUp ==
    [][promotions' # promotions =>
         /\ Dirty = {}
         /\ proposal.commit # None =>
              checkout'.tree = Applied(proposal.diff, commits[proposal.commit])]_vars
=============================================================================
