------------------------------- MODULE Drafting -------------------------------
(***************************************************************************)
(* From an incident to a change that is live: a person, or a local model   *)
(* (llm_propose.py), proposes a diff; a person signs it for the commit the *)
(* checkout is on; and the canary deploy checks it against the node's      *)
(* policy and puts it up.  Of the deploy, its checks, its second look and  *)
(* what goes up are modelled here, each as one step; CanaryDeploy has the  *)
(* steps in between, and ChangeProposal has the signature.                 *)
(***************************************************************************)
EXTENDS DiffPolicy

CONSTANTS
    MaxContext,    \* MAX_CONTEXT_FILES
    MaxFiles,      \* llm_propose.max_files
    Changeable,    \* bound: the kinds of incident that somebody proposes a change for
    MaxPromotions  \* bound: how often a clone goes up

ASSUME DraftingAssumption == MaxContext \in Nat \ {0} /\ MaxFiles \in Nat \ {0} /\ MaxPromotions \in Nat

VARIABLES
    policy,    \* the policy file of the node
    context,   \* what the model is being shown, and the policy that was read for it, or None
    proposal,  \* the proposal, or None
    deploy,    \* the running deploy: the commit it was cloned from and the texts it built, or None
    promotions \* how often a clone went up

draftVars == <<policy, context, proposal, deploy, promotions>>

Contexts == [files : SUBSET Files, policy : Policies]
\* `drafted' is what the draft was checked against; None for a person's proposal.  A commit
\* of None is any commit.
Proposals == [diff : Diffs, drafted : {None} \cup [policy : Policies, checkout : Checkouts],
              approved : BOOLEAN, commit : Nat \cup {None}, protected : BOOLEAN]

DraftInit ==
    /\ policy \in Policies
    /\ context = None /\ proposal = None /\ deploy = None /\ promotions = 0

\* `protected' is allow_protected_paths: chosen with the diff, and signed with it.
Pending(d, drafted, protected) ==
    [diff |-> d, drafted |-> drafted, approved |-> FALSE, commit |-> None, protected |-> protected]

\* _validate_diff_text: no secret, and no protected path that nobody asked for.
MayPropose(d, protected) == ~d.secret /\ (ProtectedPathsIn(d) # {} => protected)
-----------------------------------------------------------------------------
(* A draft.                                                                *)

\* collect_context: some files of the checkout, none of them protected, and only such as
\* the policy allows; a project that is not listed is refused later.
Showable(S) ==
    /\ S # {} /\ Cardinality(S) <= MaxContext
    /\ \A f \in S : checkout.tree[f] # "gone"
    /\ S \cap Protected = {}
    /\ policy.is = "listed" => S \subseteq policy.allowed

CollectContext ==
    /\ context = None /\ proposal = None /\ subject \in Changeable
    /\ policy.is # "broken"
    /\ \E S \in SUBSET Files : Showable(S) /\ context' = [files |-> S, policy |-> policy]
    /\ UNCHANGED <<nodeVars, policy, proposal, deploy, promotions>>

Valid_unapplied(d) ==
    /\ Cardinality(TouchedPaths(d)) <= MaxFiles
    /\ TouchedPaths(d) \subseteq context.files
    /\ PolicyAllows(context.policy, TouchedPaths(d))
    /\ MayPropose(d, FALSE)

\* validate_draft, and the rules of propose_change for any proposal; a draft never asks
\* for protected paths.
Valid(d) ==
    /\ Cardinality(TouchedPaths(d)) <= MaxFiles
    /\ TouchedPaths(d) \subseteq context.files
    /\ PolicyAllows(context.policy, TouchedPaths(d))
    /\ Applies(d, checkout.tree)
    /\ MayPropose(d, FALSE)

\* The model answers with any diff, with none, or not at all.
Reply ==
    /\ context # None
    /\ \/ \E d \in Diffs :
             /\ Valid(d)
             /\ proposal' = Pending(d, [policy |-> context.policy, checkout |-> checkout], FALSE)
       \/ UNCHANGED proposal
    /\ context' = None
    /\ UNCHANGED <<nodeVars, policy, deploy, promotions>>

\* `control propose': a person writes the diff, and says whether it may touch protected
\* paths; whether it applies, and what the policy allows, is not asked yet.
Propose ==
    /\ proposal = None /\ context = None /\ subject \in Changeable
    /\ \E d \in Diffs, protected \in BOOLEAN :
          MayPropose(d, protected) /\ proposal' = Pending(d, None, protected)
    /\ UNCHANGED <<nodeVars, policy, context, deploy, promotions>>
-----------------------------------------------------------------------------
(* The approval and the deploy.                                            *)

\* `control approve' signs the proposal as it is, for the commit the checkout is on or for any.
Approve ==
    /\ proposal # None /\ ~proposal.approved
    /\ \E c \in {checkout.head, None} :
          proposal' = [proposal EXCEPT !.approved = TRUE, !.commit = c]
    /\ UNCHANGED <<nodeVars, policy, context, deploy, promotions>>

\* The operator leaves a proposal, rejected or not.
Withdraw ==
    /\ proposal # None /\ deploy = None /\ proposal' = None
    /\ UNCHANGED <<nodeVars, policy, context, deploy, promotions>>

SignedFor_any(p) == TRUE

SignedFor(p) == p.commit \in {None, checkout.head}

\* Whether the deploy of an approved proposal starts, and its diff applies to the clone.
Accepted(p) ==
    /\ SignedFor(p)
    /\ ProtectedPathsIn(p.diff) # {} => p.protected
    /\ PolicyAllows(policy, TouchedPaths(p.diff))
    /\ checkout.pending = {}
    /\ Dirty = {}
    /\ Applies(p.diff, commits[checkout.head])

DeployBegins ==
    /\ deploy = None /\ proposal # None /\ proposal.approved /\ promotions < MaxPromotions
    /\ Accepted(proposal)
    /\ deploy' = [base |-> checkout.head, tree |-> Applied(proposal.diff, commits[checkout.head])]
    /\ UNCHANGED <<nodeVars, policy, context, proposal, promotions>>

\* The build or the health check fails, or the second look finds an edit: the checkout
\* is the one it was.
DeployFails ==
    /\ deploy # None
    /\ deploy' = None
    /\ UNCHANGED <<nodeVars, policy, context, proposal, promotions>>

\* The clone goes up, with a commit of its own or, by default, with the changed files
\* differing from the commit it was cloned from.
GoesUp(keepLocalCommit) ==
    IF keepLocalCommit
      THEN /\ commits' = Append(commits, deploy.tree)
           /\ checkout' = [head |-> Len(commits'), tree |-> deploy.tree, pending |-> {}]
      ELSE /\ checkout' = [head |-> deploy.base, tree |-> deploy.tree,
                           pending |-> TouchedPaths(proposal.diff)]
           /\ UNCHANGED commits

Promote ==
    /\ deploy # None
    /\ Dirty = {}
    /\ \E keep \in BOOLEAN : GoesUp(keep)
    /\ promotions' = promotions + 1
    /\ deploy' = None
    /\ UNCHANGED <<subject, condition, systemd, changes, policy, context, proposal>>

\* `control canary-clear': the changed files go back to what the commit holds.
ClearPending ==
    /\ deploy = None /\ checkout.pending # {}
    /\ checkout' = [checkout EXCEPT !.pending = {},
          !.tree = [f \in Files |-> IF f \in checkout.pending THEN commits[checkout.head][f]
                                    ELSE checkout.tree[f]]]
    /\ UNCHANGED <<commits, subject, condition, systemd, changes, draftVars>>

\* The administrator of the node changes its policy.
PolicyChanges ==
    /\ changes < MaxChanges /\ changes' = changes + 1
    /\ policy' \in Policies \ {policy}
    /\ UNCHANGED <<commits, checkout, subject, condition, systemd, context, proposal, deploy, promotions>>

Respond ==
    \/ CollectContext \/ Reply \/ Propose \/ Approve \/ Withdraw
    \/ DeployBegins \/ DeployFails \/ Promote \/ ClearPending

DraftTypeOK ==
    /\ policy \in Policies /\ context \in {None} \cup Contexts
    /\ proposal \in {None} \cup Proposals
    /\ deploy = None \/ (deploy.base \in DOMAIN commits /\ deploy.tree \in Trees)
    /\ promotions \in 0..MaxPromotions
=============================================================================
