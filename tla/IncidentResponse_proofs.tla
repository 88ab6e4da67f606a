----------------------- MODULE IncidentResponse_proofs -----------------------
(***************************************************************************)
(* What holds of detection, drafts, approvals, deploys and verification    *)
(* for any files, diffs, policies and kinds of component, whatever changes *)
(* around them.                                                            *)
(***************************************************************************)
EXTENDS IncidentResponse, TLAPS

\* The history of commits, and a checkout that is on one of them.
NodeShape ==
    /\ commits \in Seq(Trees) /\ checkout \in Checkouts /\ checkout.head \in DOMAIN commits
    /\ subject \in Kinds /\ condition \in Conditions(subject) /\ systemd \in BOOLEAN
    /\ changes \in 0..MaxChanges

Verifiers == [pc : {"idle", "looked", "before", "after"}, saw : {"clean", "trouble", "unchecked"},
              commit : Nat \cup {None}, incident : {None} \cup Incidents]

VerifyShape ==
    /\ collector \in {None, "clean", "trouble", "unchecked"}
    /\ snapshot \in {None} \cup Incidents
    /\ verifier \in Verifiers
    /\ verdicts \in Seq(Verdicts) /\ kept \in Seq(Outcomes) /\ steady \in BOOLEAN
    /\ Len(verdicts) <= MaxRuns /\ (verifier.pc # "idle" => Len(verdicts) < MaxRuns)

DraftShape ==
    /\ policy \in Policies /\ context \in {None} \cup Contexts
    /\ proposal \in {None} \cup Proposals
    /\ deploy = None \/ (deploy.base \in DOMAIN commits /\ deploy.tree \in Trees)
    /\ promotions \in 0..MaxPromotions /\ (deploy # None => promotions < MaxPromotions)

\* A running verification is about an incident of this node that has a second check.  What
\* it saw and read is what is there, as long as nothing changed.
Verifying ==
    verifier.pc # "idle" =>
        /\ verifier.incident \in Incidents /\ verifier.incident.node = "here"
        /\ subject = "manifest" => verifier.incident.base \in Nat
        /\ steady => CanVerify(verifier.incident) /\ verifier.saw = Again
        /\ subject = "manifest" /\ verifier.pc # "looked" =>
               verifier.commit \in Nat /\ (steady => verifier.commit = checkout.head)

\* What is kept of the run that is not over is its "before".
Evidenced ==
    \A i \in DOMAIN kept :
        \/ kept[i].run \in DOMAIN verdicts
        \/ kept[i].run = Run /\ kept[i].phase = "before" /\ verifier.pc = "after"

\* A draft was checked against a policy and a checkout that was there before; the commit it
\* is signed for came later or is the same.
Drafted(p) ==
    p.drafted # None =>
        /\ p.drafted.checkout.head <= checkout.head
        /\ p.approved /\ p.commit # None => p.drafted.checkout.head <= p.commit
        /\ PolicyAllows(p.drafted.policy, TouchedPaths(p.diff))
        /\ Applies(p.diff, p.drafted.checkout.tree)
        /\ ProtectedPathsIn(p.diff) = {}

\* The deploy builds the approved diff on the commit that it is signed for.
Deploying ==
    deploy # None =>
        /\ proposal # None /\ proposal.approved /\ proposal.commit \in {None, deploy.base}
        /\ proposal.drafted # None => proposal.drafted.checkout.head <= deploy.base
        /\ deploy.tree = Applied(proposal.diff, commits[deploy.base])

Responding ==
    /\ context # None => proposal = None
    /\ proposal # None => Drafted(proposal)
    /\ proposal # None /\ proposal.approved /\ proposal.commit # None =>
           proposal.commit <= checkout.head
    /\ Deploying

IInv ==
    /\ NodeShape /\ VerifyShape /\ DraftShape
    /\ Verifying /\ Evidenced /\ Responding
    /\ VerdictAgrees /\ KeptIsEvidence

-----------------------------------------------------------------------------
LEMMA InitInv == Init => IInv
<1> SUFFICES ASSUME Init PROVE IInv OBVIOUS
<1> USE ChecksAssumption
<1>1. /\ commits = <<[f \in Files |-> "old"]>>
      /\ checkout = [head |-> 1, tree |-> commits[1], pending |-> {}]
      /\ subject \in Kinds /\ condition \in Conditions(subject) /\ systemd \in BOOLEAN
      /\ changes = 0
  BY DEF Init, NodeInit
<1>2. /\ collector = None /\ snapshot = None /\ verifier = Resting
      /\ verdicts = <<>> /\ kept = <<>> /\ steady = FALSE
  BY DEF Init, VerifyInit
<1>3. /\ policy \in Policies
      /\ context = None /\ proposal = None /\ deploy = None /\ promotions = 0
  BY DEF Init, DraftInit
<1>4. NodeShape
  <2>1. [f \in Files |-> "old"] \in Trees BY DEF Trees, Texts
  <2> DEFINE t == [f \in Files |-> "old"]
  <2>2. t \in Trees /\ commits = <<t>> BY <1>1, <2>1
  <2> HIDE DEF t
  <2>3. commits \in Seq(Trees) /\ DOMAIN commits = {1} /\ commits[1] \in Trees BY <2>2
  <2>4. checkout \in Checkouts /\ checkout.head = 1 BY <1>1, <2>3 DEF Checkouts
  <2> QED BY <1>1, <2>3, <2>4 DEF NodeShape
<1>5. VerifyShape
  <2>1. Resting \in Verifiers /\ Resting.pc = "idle" BY DEF Resting, Verifiers
  <2>2. Len(<<>>) = 0 /\ MaxRuns \in Nat BY VerificationAssumption
  <2>3. <<>> \in Seq(Verdicts) /\ <<>> \in Seq(Outcomes) OBVIOUS
  <2>4. Len(verdicts) = 0 /\ verifier.pc = "idle" BY <1>2, <2>1, <2>2
  <2>5. verdicts \in Seq(Verdicts) /\ kept \in Seq(Outcomes) /\ verifier \in Verifiers
    BY <1>2, <2>1, <2>3
  <2>6. steady \in BOOLEAN BY <1>2
  <2> QED BY <1>2, <2>2, <2>4, <2>5, <2>6 DEF VerifyShape
<1>6. DraftShape BY <1>3, DraftingAssumption DEF DraftShape
<1>7. Verifying /\ Evidenced /\ VerdictAgrees /\ KeptIsEvidence
  BY <1>2 DEF Verifying, Evidenced, VerdictAgrees, KeptIsEvidence, Resting
<1>8. Responding BY <1>3 DEF Responding, Deploying
<1> QED BY <1>4, <1>5, <1>6, <1>7, <1>8 DEF IInv

-----------------------------------------------------------------------------
(* Commits and checkouts.                                                  *)

\* A new commit comes behind the others.
LEMMA Committed ==
    ASSUME NEW cs \in Seq(Trees), NEW t \in Trees
    PROVE  /\ Append(cs, t) \in Seq(Trees) /\ Len(cs) \in Nat
           /\ Len(Append(cs, t)) = Len(cs) + 1
           /\ DOMAIN cs = 1..Len(cs) /\ DOMAIN Append(cs, t) = 1..Len(cs) + 1
           /\ Append(cs, t)[Len(cs) + 1] = t
           /\ \A c \in DOMAIN cs : c \in DOMAIN Append(cs, t) /\ Append(cs, t)[c] = cs[c]
OBVIOUS

\* No commit is lost or changed.
Grown ==
    \A c \in DOMAIN commits : c \in DOMAIN commits' /\ commits'[c] = commits[c]

\* What the world, or a deploy, does to the checkout.
LEMMA WorldStep ==
    ASSUME NodeShape, WorldChanges
    PROVE  NodeShape' /\ Grown /\ checkout'.head >= checkout.head /\ subject' = subject
<1> USE ChecksAssumption
<1>1. /\ commits \in Seq(Trees) /\ checkout \in Checkouts /\ checkout.head \in DOMAIN commits
      /\ subject \in Kinds /\ condition \in Conditions(subject) /\ systemd \in BOOLEAN
      /\ changes \in 0..MaxChanges
  BY DEF NodeShape
<1>2. checkout.head \in 1..Len(commits) /\ Len(commits) \in Nat /\ checkout.head \in Nat
      /\ checkout.tree \in Trees /\ checkout.pending \subseteq Files /\ commits[checkout.head] \in Trees
  BY <1>1 DEF Checkouts
<1>3. changes' \in 0..MaxChanges /\ subject' = subject
  <2>1. changes' = changes \/ (changes < MaxChanges /\ changes' = changes + 1) BY DEF WorldChanges
  <2>2. subject' = subject BY DEF WorldChanges, ConditionChanges, HandEdit, Update, HandCommit
  <2>3. MaxChanges \in Nat OBVIOUS
  <2> QED BY <1>1, <2>1, <2>2, <2>3
<1>4. CASE ConditionChanges
  <2>1. condition' \in Conditions(subject) /\ systemd' \in BOOLEAN
        /\ commits' = commits /\ checkout' = checkout
    BY <1>1, <1>4 DEF ConditionChanges
  <2> QED BY <1>1, <1>2, <1>3, <2>1 DEF NodeShape, Grown
<1>5. CASE HandEdit
  <2>1. PICK f \in Files, t \in Texts \cup {"gone"} : checkout' = [checkout EXCEPT !.tree[f] = t]
    BY <1>5 DEF HandEdit
  <2>2. checkout' \in Checkouts /\ checkout'.head = checkout.head
    BY <1>1, <2>1 DEF Checkouts, Trees
  <2> QED BY <1>1, <1>2, <1>3, <1>5, <2>2 DEF HandEdit, NodeShape, Grown
<1>6. CASE Update
  <2>1. PICK f \in Files, t \in Texts :
            /\ commits' = Append(commits, [commits[checkout.head] EXCEPT ![f] = t])
            /\ checkout' = [checkout EXCEPT !.head = Len(commits'), !.tree[f] = t]
    BY <1>6 DEF Update
  <2> DEFINE new == [commits[checkout.head] EXCEPT ![f] = t]
  <2>2. new \in Trees BY <1>2 DEF Trees
  <2>3. commits' = Append(commits, new) BY <2>1
  <2> HIDE DEF new
  <2>4. /\ commits' \in Seq(Trees) /\ Len(commits') = Len(commits) + 1 /\ Len(commits') \in DOMAIN commits'
        /\ Grown
    BY <1>1, <1>2, <2>2, <2>3, Committed DEF Grown
  <2>5. checkout' \in Checkouts /\ checkout'.head = Len(commits')
    <3>1. [checkout.tree EXCEPT ![f] = t] \in Trees BY <1>2 DEF Trees
    <3>2. checkout' = [checkout EXCEPT !.head = Len(commits'), !.tree = [checkout.tree EXCEPT ![f] = t]]
      BY <1>1, <2>1 DEF Checkouts
    <3>3. Len(commits') \in Nat BY <1>2, <2>4
    <3> QED BY <1>1, <3>1, <3>2, <3>3 DEF Checkouts
  <2> QED BY <1>1, <1>2, <1>3, <1>6, <2>4, <2>5 DEF Update, NodeShape
<1>7. CASE HandCommit
  <2> DEFINE new == [f \in Files |-> IF f \in Dirty THEN checkout.tree[f] ELSE commits[checkout.head][f]]
  <2>1. new \in Trees BY <1>2 DEF Trees
  <2>2. commits' = Append(commits, new) /\ checkout' = [checkout EXCEPT !.head = Len(commits')]
    BY <1>7 DEF HandCommit
  <2> HIDE DEF new
  <2>3. /\ commits' \in Seq(Trees) /\ Len(commits') = Len(commits) + 1 /\ Len(commits') \in DOMAIN commits'
        /\ Grown
    BY <1>1, <1>2, <2>1, <2>2, Committed DEF Grown
  <2>4. checkout' \in Checkouts /\ checkout'.head = Len(commits')
    BY <1>1, <1>2, <2>2, <2>3 DEF Checkouts
  <2> QED BY <1>1, <1>2, <1>3, <1>7, <2>3, <2>4 DEF HandCommit, NodeShape
<1> QED BY <1>4, <1>5, <1>6, <1>7 DEF WorldChanges

LEMMA AppliedTree ==
    ASSUME NEW d \in Diffs, NEW t \in Trees
    PROVE  Applied(d, t) \in Trees /\ TouchedPaths(d) \subseteq Files
<1>1. d \in AllDiffs BY PolicyAssumption
<1>2. PICK S \in SUBSET Files \ {{}} : d.hunks \in [S -> Hunks] BY <1>1 DEF AllDiffs
<1>3. TouchedPaths(d) = S /\ \A f \in S : d.hunks[f] \in Hunks BY <1>2 DEF TouchedPaths
<1>4. \A f \in S : d.hunks[f].to \in Texts BY <1>3 DEF Hunks
<1> QED BY <1>2, <1>3, <1>4 DEF Applied, Trees

LEMMA PromoteStep ==
    ASSUME NodeShape, DraftShape, Deploying, Promote
    PROVE  NodeShape' /\ Grown /\ deploy.base \in DOMAIN commits
           /\ checkout'.tree = deploy.tree /\ checkout'.head >= deploy.base
           /\ checkout'.head \in Nat /\ deploy.base \in Nat
<1> USE ChecksAssumption
<1>1. /\ commits \in Seq(Trees) /\ checkout \in Checkouts /\ checkout.head \in DOMAIN commits
      /\ Len(commits) \in Nat /\ DOMAIN commits = 1..Len(commits)
  BY DEF NodeShape
<1>2. deploy # None /\ deploy.base \in DOMAIN commits /\ deploy.tree \in Trees /\ proposal \in Proposals
  BY DEF Promote, DraftShape, Deploying
<1>3. PICK keep \in BOOLEAN : GoesUp(keep) BY DEF Promote
<1>4. NodeShape' = (/\ commits' \in Seq(Trees) /\ checkout' \in Checkouts
                    /\ checkout'.head \in DOMAIN commits')
  BY DEF Promote, NodeShape
<1>5. CASE keep
  <2>1. commits' = Append(commits, deploy.tree)
        /\ checkout' = [head |-> Len(commits'), tree |-> deploy.tree, pending |-> {}]
    BY <1>3, <1>5 DEF GoesUp
  <2>2. commits' \in Seq(Trees) /\ Len(commits') = Len(commits) + 1 /\ Len(commits') \in DOMAIN commits' /\ Grown
    BY <1>1, <1>2, <2>1, Committed DEF Grown
  <2> QED BY <1>1, <1>2, <1>4, <2>1, <2>2 DEF Checkouts
<1>6. CASE ~keep
  <2>1. commits' = commits
        /\ checkout' = [head |-> deploy.base, tree |-> deploy.tree, pending |-> TouchedPaths(proposal.diff)]
    BY <1>3, <1>6 DEF GoesUp
  <2>2. proposal.diff \in Diffs BY <1>2 DEF Proposals
  <2>3. TouchedPaths(proposal.diff) \subseteq Files BY <1>2, <2>2, AppliedTree
  <2> QED BY <1>1, <1>2, <1>4, <2>1, <2>3 DEF Checkouts, Grown
<1> QED BY <1>5, <1>6

LEMMA ClearStep ==
    ASSUME NodeShape, ClearPending
    PROVE  NodeShape' /\ Grown /\ checkout'.head = checkout.head /\ checkout.head \in Nat
<1> USE ChecksAssumption
<1>1. /\ commits \in Seq(Trees) /\ checkout \in Checkouts /\ checkout.head \in DOMAIN commits
      /\ commits[checkout.head] \in Trees /\ checkout.tree \in Trees
  BY DEF NodeShape, Checkouts
<1> DEFINE t == [f \in Files |-> IF f \in checkout.pending THEN commits[checkout.head][f]
                                 ELSE checkout.tree[f]]
<1>2. t \in Trees BY <1>1 DEF Trees
<1>3. checkout' = [checkout EXCEPT !.pending = {}, !.tree = t] /\ commits' = commits BY DEF ClearPending
<1> HIDE DEF t
<1>4. checkout' \in Checkouts /\ checkout'.head = checkout.head /\ checkout.head \in Nat
  BY <1>1, <1>2, <1>3 DEF Checkouts
<1> QED BY <1>1, <1>3, <1>4 DEF ClearPending, NodeShape, Grown

-----------------------------------------------------------------------------
(* Drafts, approvals and deploys.                                          *)

\* Time passes over the drafts: the checkout goes on to a newer commit, or stays.
LEMMA DraftsKept ==
    ASSUME NodeShape, DraftShape, Responding, NodeShape', Grown,
           checkout'.head >= checkout.head,
           UNCHANGED <<context, proposal, deploy, promotions>>, policy' \in Policies
    PROVE  DraftShape' /\ Responding'
<1>1. checkout.head \in Nat /\ checkout'.head \in Nat /\ checkout'.head >= checkout.head
  BY DEF NodeShape, Checkouts
<1>2. DraftShape' BY DEF DraftShape, Grown
<1>3. ASSUME proposal # None PROVE Drafted(proposal)'
  <2>1. Drafted(proposal) /\ proposal \in Proposals BY <1>3 DEF Responding, DraftShape
  <2>2. proposal.drafted # None => proposal.drafted.checkout.head \in Nat
    BY <2>1 DEF Proposals, Checkouts
  <2> QED BY <1>1, <2>1, <2>2 DEF Drafted
<1>4. proposal # None /\ proposal.approved /\ proposal.commit # None => proposal.commit <= checkout'.head
  <2>1. proposal # None /\ proposal.commit # None => proposal.commit \in Nat BY DEF DraftShape, Proposals
  <2> QED BY <1>1, <2>1 DEF Responding
<1>5. Deploying'
  <2>1. deploy # None => deploy.base \in DOMAIN commits /\ commits'[deploy.base] = commits[deploy.base]
    BY DEF DraftShape, Grown
  <2> QED BY <2>1 DEF Responding, Deploying
<1> QED BY <1>2, <1>3, <1>4, <1>5 DEF Responding

LEMMA CollectContextStep ==
    ASSUME NodeShape, DraftShape, Responding, CollectContext
    PROVE  NodeShape' /\ DraftShape' /\ Responding'
<1>1. /\ UNCHANGED <<nodeVars, policy, proposal, deploy, promotions>> /\ proposal = None
      /\ context' \in Contexts
  BY DEF CollectContext, DraftShape, Contexts
<1>2. NodeShape' BY <1>1 DEF NodeShape, nodeVars
<1>3. DraftShape' BY <1>1 DEF DraftShape, nodeVars
<1>4. Responding' BY <1>1 DEF Responding, Deploying
<1> QED BY <1>2, <1>3, <1>4

LEMMA ReplyStep ==
    ASSUME NodeShape, DraftShape, Responding, Reply
    PROVE  NodeShape' /\ DraftShape' /\ Responding'
<1>1. /\ UNCHANGED <<nodeVars, policy, deploy, promotions>> /\ context # None /\ context' = None
      /\ proposal = None /\ deploy = None /\ context \in Contexts /\ context.policy \in Policies
      /\ checkout \in Checkouts /\ checkout.head \in Nat
  BY DEF Reply, DraftShape, Responding, Deploying, Contexts, NodeShape, Checkouts
<1>2. NodeShape' BY <1>1 DEF NodeShape, nodeVars
<1>3. CASE UNCHANGED proposal
  <2>1. DraftShape' BY <1>1, <1>3 DEF DraftShape, nodeVars
  <2>2. Responding' BY <1>1, <1>3 DEF Responding, Deploying
  <2> QED BY <1>2, <2>1, <2>2
<1>4. CASE ~UNCHANGED proposal
  <2>1. PICK d \in Diffs :
            /\ Valid(d)
            /\ proposal' = Pending(d, [policy |-> context.policy, checkout |-> checkout], FALSE)
    BY <1>4 DEF Reply
  <2> DEFINE seen == [policy |-> context.policy, checkout |-> checkout]
  <2>2. seen \in [policy : Policies, checkout : Checkouts] /\ seen.policy = context.policy
        /\ seen.checkout = checkout
    BY <1>1
  <2> HIDE DEF seen
  <2>3. /\ proposal' \in Proposals /\ proposal'.drafted = seen /\ proposal'.diff = d
        /\ proposal'.approved = FALSE
    BY <2>1, <2>2 DEF Pending, Proposals, seen
  <2>4. /\ PolicyAllows(context.policy, TouchedPaths(d)) /\ Applies(d, checkout.tree)
        /\ ProtectedPathsIn(d) = {}
    BY <2>1 DEF Valid, MayPropose
  <2>5. Drafted(proposal)'
    <3>1. checkout' = checkout /\ checkout.head <= checkout.head BY <1>1 DEF nodeVars
    <3> QED BY <2>2, <2>3, <2>4, <3>1 DEF Drafted
  <2>6. DraftShape' BY <1>1, <2>3 DEF DraftShape, nodeVars
  <2>7. Responding' BY <1>1, <2>3, <2>5 DEF Responding, Deploying
  <2> QED BY <1>2, <2>6, <2>7
<1> QED BY <1>3, <1>4

LEMMA ProposeStep ==
    ASSUME NodeShape, DraftShape, Responding, Propose
    PROVE  NodeShape' /\ DraftShape' /\ Responding'
<1>1. /\ UNCHANGED <<nodeVars, policy, context, deploy, promotions>>
      /\ context = None /\ proposal = None /\ deploy = None
  BY DEF Propose, Responding, Deploying
<1>2. PICK d \in Diffs, protected \in BOOLEAN : proposal' = Pending(d, None, protected) BY DEF Propose
<1>3. /\ proposal' \in Proposals /\ proposal'.drafted = None /\ proposal'.approved = FALSE
  BY <1>2 DEF Pending, Proposals
<1>4. NodeShape' BY <1>1 DEF NodeShape, nodeVars
<1>5. DraftShape' BY <1>1, <1>3 DEF DraftShape, nodeVars
<1>6. Responding' BY <1>1, <1>3 DEF Responding, Deploying, Drafted
<1> QED BY <1>4, <1>5, <1>6

LEMMA ApproveStep ==
    ASSUME NodeShape, DraftShape, Responding, Approve
    PROVE  NodeShape' /\ DraftShape' /\ Responding'
<1>1. /\ UNCHANGED <<nodeVars, policy, context, deploy, promotions>>
      /\ proposal # None /\ ~proposal.approved /\ proposal \in Proposals
      /\ context = None /\ deploy = None
      /\ checkout \in Checkouts /\ checkout.head \in Nat
  BY DEF Approve, DraftShape, Responding, Deploying, NodeShape, Checkouts
<1>2. PICK c \in {checkout.head, None} :
          proposal' = [proposal EXCEPT !.approved = TRUE, !.commit = c]
  BY DEF Approve
<1>3. /\ proposal' \in Proposals /\ proposal'.approved /\ proposal'.commit = c
      /\ proposal'.drafted = proposal.drafted /\ proposal'.diff = proposal.diff
  BY <1>1, <1>2 DEF Proposals
<1>4. NodeShape' BY <1>1 DEF NodeShape, nodeVars
<1>5. DraftShape' BY <1>1, <1>3 DEF DraftShape, nodeVars
<1>6. Drafted(proposal)'
  <2>1. Drafted(proposal) BY <1>1 DEF Responding
  <2> QED BY <1>1, <1>2, <1>3, <2>1 DEF Drafted, nodeVars
<1>7. proposal'.commit # None => proposal'.commit <= checkout'.head
  BY <1>1, <1>2, <1>3 DEF nodeVars
<1>8. Responding' BY <1>1, <1>6, <1>7 DEF Responding, Deploying
<1> QED BY <1>4, <1>5, <1>8

LEMMA WithdrawStep ==
    ASSUME NodeShape, DraftShape, Responding, Withdraw
    PROVE  NodeShape' /\ DraftShape' /\ Responding'
<1>1. /\ UNCHANGED <<nodeVars, policy, context, deploy, promotions>>
      /\ proposal' = None /\ deploy = None
  BY DEF Withdraw
<1>2. NodeShape' BY <1>1 DEF NodeShape, nodeVars
<1>3. DraftShape' BY <1>1 DEF DraftShape, nodeVars
<1>4. Responding' BY <1>1 DEF Responding, Deploying
<1> QED BY <1>2, <1>3, <1>4

LEMMA DeployBeginsStep ==
    ASSUME NodeShape, DraftShape, Responding, DeployBegins
    PROVE  NodeShape' /\ DraftShape' /\ Responding'
<1>1. /\ UNCHANGED <<nodeVars, policy, context, proposal, promotions>>
      /\ proposal # None /\ proposal.approved /\ proposal \in Proposals /\ proposal.diff \in Diffs
      /\ proposal.commit \in {None, checkout.head} /\ promotions < MaxPromotions
      /\ checkout.head \in DOMAIN commits /\ commits[checkout.head] \in Trees
      /\ deploy' = [base |-> checkout.head, tree |-> Applied(proposal.diff, commits[checkout.head])]
  BY DEF DeployBegins, DraftShape, Proposals, NodeShape, Accepted, SignedFor
<1>2. deploy'.base = checkout.head /\ deploy'.tree = Applied(proposal.diff, commits[checkout.head])
  BY <1>1
<1>3. deploy'.tree \in Trees BY <1>1, <1>2, AppliedTree
<1>4. NodeShape' BY <1>1 DEF NodeShape, nodeVars
<1>5. DraftShape' BY <1>1, <1>2, <1>3 DEF DraftShape, nodeVars
<1>6. Drafted(proposal) BY <1>1 DEF Responding
<1>7. Deploying' BY <1>1, <1>2, <1>6 DEF Deploying, Drafted, nodeVars
<1>8. Responding' BY <1>1, <1>7 DEF Responding, Drafted, nodeVars
<1> QED BY <1>4, <1>5, <1>8

LEMMA DeployFailsStep ==
    ASSUME NodeShape, DraftShape, Responding, DeployFails
    PROVE  NodeShape' /\ DraftShape' /\ Responding'
<1>1. UNCHANGED <<nodeVars, policy, context, proposal, promotions>> /\ deploy' = None
  BY DEF DeployFails
<1>2. NodeShape' BY <1>1 DEF NodeShape, nodeVars
<1>3. DraftShape' BY <1>1 DEF DraftShape, nodeVars
<1>4. Responding' BY <1>1 DEF Responding, Deploying, Drafted, nodeVars
<1> QED BY <1>2, <1>3, <1>4

\* A clone that goes up was built on the commit the draft saw, or on a newer one.
LEMMA PromoteKeeps ==
    ASSUME NodeShape, DraftShape, Responding, Promote
    PROVE  NodeShape' /\ DraftShape' /\ Responding'
<1> USE DraftingAssumption
<1>1. /\ UNCHANGED <<policy, context, proposal>> /\ deploy # None /\ deploy' = None
      /\ promotions' = promotions + 1 /\ promotions \in 0..MaxPromotions /\ promotions < MaxPromotions
      /\ Deploying /\ proposal # None /\ proposal \in Proposals
  BY DEF Promote, DraftShape, Responding, Deploying
<1>2. /\ NodeShape' /\ checkout'.head >= deploy.base
      /\ checkout'.head \in Nat /\ deploy.base \in Nat
  BY <1>1, PromoteStep
<1>3. DraftShape' BY <1>1, <1>2 DEF DraftShape
<1>4. Drafted(proposal)'
  <2>1. Drafted(proposal) BY <1>1 DEF Responding
  <2>2. proposal.drafted # None =>
            proposal.drafted.checkout.head \in Nat /\ proposal.drafted.checkout.head <= deploy.base
    BY <1>1 DEF Proposals, Checkouts, Deploying
  <2> QED BY <1>1, <1>2, <2>1, <2>2 DEF Drafted
<1>5. proposal'.approved /\ proposal'.commit # None => proposal'.commit <= checkout'.head
  BY <1>1, <1>2 DEF Deploying
<1>6. Responding'
  <2>1. context' # None => proposal' = None BY <1>1 DEF Responding
  <2>2. Deploying' BY <1>1 DEF Deploying
  <2> QED BY <1>4, <1>5, <2>1, <2>2 DEF Responding
<1> QED BY <1>2, <1>3, <1>6

LEMMA ClearKeeps ==
    ASSUME NodeShape, DraftShape, Responding, ClearPending
    PROVE  NodeShape' /\ DraftShape' /\ Responding'
<1>1. UNCHANGED draftVars BY DEF ClearPending
<1>2. NodeShape' /\ Grown /\ checkout'.head >= checkout.head
  <2>1. NodeShape' /\ Grown /\ checkout'.head = checkout.head /\ checkout.head \in Nat BY ClearStep
  <2> QED BY <2>1
<1>3. policy' \in Policies BY <1>1 DEF DraftShape, draftVars
<1> QED BY <1>1, <1>2, <1>3, DraftsKept DEF draftVars

LEMMA PolicyStep ==
    ASSUME NodeShape, DraftShape, Responding, PolicyChanges
    PROVE  NodeShape' /\ DraftShape' /\ Responding'
<1>1. /\ UNCHANGED <<commits, checkout, subject, condition, systemd, context, proposal, deploy, promotions>>
      /\ policy' \in Policies /\ changes < MaxChanges /\ changes' = changes + 1
  BY DEF PolicyChanges
<1>2. NodeShape' BY <1>1, ChecksAssumption DEF NodeShape
<1>3. checkout'.head >= checkout.head /\ Grown
  <2>1. checkout.head \in Nat BY DEF NodeShape, Checkouts
  <2> QED BY <1>1, <2>1 DEF Grown
<1> QED BY <1>1, <1>2, <1>3, DraftsKept

LEMMA RespondStep ==
    ASSUME NodeShape, DraftShape, Responding, Respond
    PROVE  NodeShape' /\ DraftShape' /\ Responding' /\ UNCHANGED <<subject, condition, systemd>>
<1>1. UNCHANGED <<subject, condition, systemd>>
  BY DEF Respond, CollectContext, Reply, Propose, Approve, Withdraw, DeployBegins, DeployFails,
         Promote, ClearPending, nodeVars
<1> QED
  BY <1>1, CollectContextStep, ReplyStep, ProposeStep, ApproveStep, WithdrawStep, DeployBeginsStep,
     DeployFailsStep, PromoteKeeps, ClearKeeps DEF Respond

-----------------------------------------------------------------------------
(* The verification.                                                       *)

Evidence0 == <<verifier, verdicts, kept, steady>>
Sight == <<checkout, subject, condition, systemd>>

LEMMA SightKept ==
    ASSUME UNCHANGED Sight
    PROVE  /\ Again' = Again /\ Finding' = Finding
           /\ \A s : CanVerify(s)' <=> CanVerify(s)
BY DEF Sight, Again, Finding, CanVerify

LEMMA CheckRanges ==
    /\ Finding \in {"clean", "trouble", "unchecked"}
    /\ Again \in {"clean", "trouble", "unchecked"}
<1>1. \A t : CheckManifest(t) \in {"clean", "trouble"} BY DEF CheckManifest
<1>2. \A t : ScanManifest(t) \in {"clean", "trouble", "unchecked"} BY <1>1 DEF ScanManifest
<1>3. \A c : CheckUnit(c) \in {"clean", "trouble", "unchecked"} BY DEF CheckUnit
<1>4. \A c : CheckUrl(c) \in {"clean", "trouble"} BY DEF CheckUrl
<1>5. \A k, c : CheckReading(k, c) \in {"clean", "trouble", "unchecked"} BY DEF CheckReading
<1>6. \A c : CheckBackups(c) \in {"clean", "trouble"} BY DEF CheckBackups
<1> QED BY <1>1, <1>2, <1>3, <1>4, <1>5, <1>6 DEF Finding, Again

\* What a verification may look at says the same to a collection, but for a manifest that
\* is gone.
LEMMA SameCheck ==
    ASSUME NEW s \in Incidents, CanVerify(s)
    PROVE  /\ subject \in {"unit", "url", "manifest"}
           /\ Again = "clean" => Finding = "clean"
           /\ Again # "clean" => \/ Finding = "trouble"
                                 \/ subject = "manifest" /\ checkout.tree[Manifest] = "gone"
BY DEF CanVerify, Again, Finding, CheckManifest, ScanManifest, CheckUnit, CheckUrl

\* Nothing that a verdict is about changed, and no verdict came.
LEMMA VerdictsKept ==
    ASSUME IInv, UNCHANGED Sight, UNCHANGED Evidence0
    PROVE  Verifying' /\ Evidenced' /\ VerdictAgrees' /\ KeptIsEvidence'
<1>1. /\ Again' = Again /\ Finding' = Finding
      /\ \A s : CanVerify(s)' <=> CanVerify(s)
  BY SightKept
<1>2. UNCHANGED <<verifier, verdicts, kept, steady, subject, checkout>> BY DEF Evidence0, Sight
<1>3. Verifying' BY <1>1, <1>2 DEF IInv, Verifying
<1>4. Evidenced' BY <1>2 DEF IInv, Evidenced, Run
<1>5. VerdictAgrees' BY <1>1, <1>2 DEF IInv, VerdictAgrees
<1>6. KeptIsEvidence' BY <1>2 DEF IInv, KeptIsEvidence
<1> QED BY <1>3, <1>4, <1>5, <1>6

LEMMA DisturbedStep ==
    ASSUME IInv, Disturbs, subject' = subject
    PROVE  VerifyShape' /\ Verifying' /\ Evidenced' /\ VerdictAgrees' /\ KeptIsEvidence'
<1>1. steady' = FALSE /\ UNCHANGED <<collector, snapshot, verifier, verdicts, kept, subject>>
  BY DEF Disturbs
<1>2. VerifyShape' BY <1>1 DEF IInv, VerifyShape
<1>3. Verifying' BY <1>1 DEF IInv, Verifying
<1>4. Evidenced' BY <1>1 DEF IInv, Evidenced, Run
<1>5. VerdictAgrees' BY <1>1 DEF VerdictAgrees
<1>6. KeptIsEvidence' BY <1>1 DEF IInv, KeptIsEvidence
<1> QED BY <1>2, <1>3, <1>4, <1>5, <1>6

VerifyInv == VerifyShape /\ Verifying /\ Evidenced /\ VerdictAgrees /\ KeptIsEvidence

LEMMA LookStep ==
    ASSUME IInv, Look
    PROVE  VerifyInv'
<1>1. /\ collector' = Finding
      /\ UNCHANGED <<nodeVars, snapshot, verifier, verdicts, kept, steady>>
  BY DEF Look
<1>2. VerifyShape' BY <1>1, CheckRanges DEF IInv, VerifyShape
<1>3. UNCHANGED Sight /\ UNCHANGED Evidence0 BY <1>1 DEF Sight, Evidence0, nodeVars
<1> QED BY <1>2, <1>3, VerdictsKept DEF VerifyInv

LEMMA RaiseStep ==
    ASSUME IInv, Raise
    PROVE  VerifyInv'
<1>1. /\ collector' = None
      /\ UNCHANGED <<nodeVars, verifier, verdicts, kept, steady>>
      /\ \/ \E c \in Evidence : snapshot' = [node |-> "here", base |-> c]
         \/ UNCHANGED snapshot
  BY DEF Raise
<1>2. \A c \in Evidence : c \in Nat \cup {None}
  BY DEF Evidence, ReadCommit, IInv, NodeShape, Checkouts
<1>3. snapshot' \in {None} \cup Incidents
  BY <1>1, <1>2 DEF IInv, VerifyShape, Incidents
<1>4. VerifyShape' BY <1>1, <1>3 DEF IInv, VerifyShape
<1>5. UNCHANGED Sight /\ UNCHANGED Evidence0 BY <1>1 DEF Sight, Evidence0, nodeVars
<1> QED BY <1>4, <1>5, VerdictsKept DEF VerifyInv

\* One verdict more: the others are as they were.
LEMMA OneMore ==
    ASSUME NEW vs \in Seq(Verdicts), NEW v \in Verdicts
    PROVE  /\ Append(vs, v) \in Seq(Verdicts) /\ Len(vs) \in Nat
           /\ Len(Append(vs, v)) = Len(vs) + 1
           /\ DOMAIN vs = 1..Len(vs) /\ DOMAIN Append(vs, v) = 1..Len(vs) + 1
           /\ Append(vs, v)[Len(vs) + 1] = v
           /\ \A r \in DOMAIN vs : r \in DOMAIN Append(vs, v) /\ Append(vs, v)[r] = vs[r]
OBVIOUS

LEMMA RefuseStep ==
    ASSUME IInv, NEW s \in Incidents, Refuse(s), steady' \in BOOLEAN, Len(verdicts) < MaxRuns,
           verifier.pc # "after"
    PROVE  VerifyInv'
<1> DEFINE v == [is |-> "refused", incident |-> s]
<1>1. /\ verdicts' = Append(verdicts, v) /\ verifier' = Resting
      /\ UNCHANGED <<nodeVars, collector, snapshot, kept>>
  BY DEF Refuse
<1>2. v \in Verdicts /\ v.is = "refused" BY DEF Verdicts
<1>3. verdicts \in Seq(Verdicts) BY DEF IInv, VerifyShape
<1> HIDE DEF v
<1>4. /\ verdicts' \in Seq(Verdicts) /\ Len(verdicts) \in Nat /\ Len(verdicts') = Len(verdicts) + 1
      /\ DOMAIN verdicts = 1..Len(verdicts) /\ DOMAIN verdicts' = 1..Len(verdicts) + 1
      /\ verdicts'[Len(verdicts')] = v
      /\ \A r \in DOMAIN verdicts : r \in DOMAIN verdicts' /\ verdicts'[r] = verdicts[r]
  BY <1>1, <1>2, <1>3, OneMore
<1>5. Resting \in Verifiers /\ Resting.pc = "idle" BY DEF Resting, Verifiers
<1>6. Len(verdicts') <= MaxRuns BY <1>4, VerificationAssumption
<1>7. VerifyShape' BY <1>1, <1>4, <1>5, <1>6 DEF IInv, VerifyShape
<1>8. Verifying' BY <1>1, <1>5 DEF Verifying
<1>9. \A i \in DOMAIN kept : kept[i].run \in DOMAIN verdicts BY DEF IInv, Evidenced
<1>10. Evidenced' BY <1>1, <1>4, <1>9 DEF Evidenced
<1>11. VerdictAgrees' BY <1>2, <1>4 DEF VerdictAgrees
<1>12. KeptIsEvidence' BY <1>1, <1>4, <1>9 DEF IInv, KeptIsEvidence
<1> QED BY <1>7, <1>8, <1>10, <1>11, <1>12 DEF VerifyInv

LEMMA VerifyBeginsStep ==
    ASSUME IInv, VerifyBegins
    PROVE  VerifyInv'
<1>1. /\ verifier.pc = "idle" /\ snapshot \in Incidents /\ Len(verdicts) < MaxRuns /\ steady' = TRUE
  BY DEF VerifyBegins, IInv, VerifyShape
<1>2. PICK s \in {snapshot, [snapshot EXCEPT !.node = "elsewhere"]} :
         \/ /\ CanVerify(s)
            /\ verifier' = [pc |-> IF subject = "manifest" THEN "looked" ELSE "before",
                            saw |-> Again, commit |-> None, incident |-> s]
            /\ UNCHANGED <<nodeVars, collector, snapshot, verdicts, kept>>
         \/ Refuse(s)
  BY DEF VerifyBegins
<1>3. s \in Incidents BY <1>1, <1>2 DEF Incidents
<1>4. CASE Refuse(s) BY <1>1, <1>3, <1>4, RefuseStep
<1>5. CASE /\ CanVerify(s)
           /\ verifier' = [pc |-> IF subject = "manifest" THEN "looked" ELSE "before",
                           saw |-> Again, commit |-> None, incident |-> s]
           /\ UNCHANGED <<nodeVars, collector, snapshot, verdicts, kept>>
  <2>1. /\ verifier'.pc = IF subject = "manifest" THEN "looked" ELSE "before"
        /\ verifier'.saw = Again /\ verifier'.commit = None /\ verifier'.incident = s
        /\ verifier' \in Verifiers
    BY <1>3, <1>5, CheckRanges DEF Verifiers
  <2>2. UNCHANGED Sight BY <1>5 DEF Sight, nodeVars
  <2>3. Again' = Again /\ CanVerify(s)' BY <1>5, <2>2, SightKept
  <2>4. VerifyShape' BY <1>1, <1>5, <2>1 DEF IInv, VerifyShape
  <2>5. Verifying'
    <3>1. s.node = "here" /\ (subject = "manifest" => s.base \in Nat)
      BY <1>3, <1>5 DEF CanVerify, Incidents
    <3> QED BY <1>3, <2>1, <2>2, <2>3, <3>1 DEF Verifying, Sight
  <2>6. Evidenced' BY <1>1, <1>5 DEF IInv, Evidenced
  <2>7. VerdictAgrees' BY <2>1 DEF VerdictAgrees
  <2>8. KeptIsEvidence' BY <1>5 DEF IInv, KeptIsEvidence
  <2> QED BY <2>4, <2>5, <2>6, <2>7, <2>8 DEF VerifyInv
<1> QED BY <1>2, <1>4, <1>5

LEMMA ReadsCommitStep ==
    ASSUME IInv, ReadsCommit
    PROVE  VerifyInv'
<1>1. /\ verifier.pc = "looked" /\ verifier \in Verifiers /\ verifier.incident \in Incidents
      /\ steady' = steady /\ steady \in BOOLEAN /\ Len(verdicts) < MaxRuns /\ checkout.head \in Nat
  BY DEF ReadsCommit, IInv, VerifyShape, Verifying, NodeShape, Checkouts
<1>2. CASE Refuse(verifier.incident) BY <1>1, <1>2, RefuseStep
<1>3. CASE /\ verifier' = [verifier EXCEPT !.pc = "before", !.commit = checkout.head]
           /\ UNCHANGED <<nodeVars, collector, snapshot, verdicts, kept>>
  <2>1. /\ verifier' \in Verifiers /\ verifier'.pc = "before" /\ verifier'.saw = verifier.saw
        /\ verifier'.commit = checkout.head /\ verifier'.incident = verifier.incident
    BY <1>1, <1>3 DEF Verifiers
  <2>2. UNCHANGED Sight BY <1>3 DEF Sight, nodeVars
  <2>3. Again' = Again BY <2>2, SightKept
  <2>4. VerifyShape' BY <1>1, <1>3, <2>1 DEF IInv, VerifyShape
  <2>5. Verifying' BY <1>1, <2>1, <2>2, <2>3 DEF IInv, Verifying, Sight, CanVerify
  <2>6. Evidenced' BY <1>1, <1>3 DEF IInv, Evidenced
  <2>7. VerdictAgrees' BY <2>1 DEF VerdictAgrees
  <2>8. KeptIsEvidence' BY <1>3 DEF IInv, KeptIsEvidence
  <2> QED BY <2>4, <2>5, <2>6, <2>7, <2>8 DEF VerifyInv
<1> QED BY <1>2, <1>3 DEF ReadsCommit

\* What the server keeps more, at the most.
LEMMA HandedOn ==
    ASSUME NEW ks \in Seq(Outcomes), NEW d \in Outcomes, NEW more \in {ks, Append(ks, d)}
    PROVE  /\ more \in Seq(Outcomes)
           /\ \A i \in DOMAIN more : more[i] = d \/ \E j \in DOMAIN ks : more[i] = ks[j]
<1>1. CASE more = ks BY <1>1
<1>2. CASE more = Append(ks, d)
  <2>1. /\ DOMAIN ks = 1..Len(ks) /\ Len(ks) \in Nat /\ DOMAIN more = 1..Len(ks) + 1
        /\ more[Len(ks) + 1] = d /\ \A i \in 1..Len(ks) : more[i] = ks[i]
    BY <1>2
  <2> QED BY <1>2, <2>1
<1> QED BY <1>1, <1>2

LEMMA HandBeforeStep ==
    ASSUME IInv, HandBefore
    PROVE  VerifyInv'
<1>1. /\ verifier.pc = "before" /\ verifier \in Verifiers /\ verifier.incident \in Incidents
      /\ verifier' = [verifier EXCEPT !.pc = "after"]
      /\ kept' \in {kept, Append(kept, Before(verifier))}
      /\ UNCHANGED <<nodeVars, collector, snapshot, verdicts, steady>>
      /\ kept \in Seq(Outcomes) /\ verdicts \in Seq(Verdicts) /\ Len(verdicts) < MaxRuns
      /\ Len(verdicts) \in Nat /\ DOMAIN verdicts = 1..Len(verdicts)
  BY DEF HandBefore, HandsOn, IInv, VerifyShape, Verifying
<1>2. /\ verifier' \in Verifiers /\ verifier'.pc = "after" /\ verifier'.saw = verifier.saw
      /\ verifier'.commit = verifier.commit /\ verifier'.incident = verifier.incident
  BY <1>1 DEF Verifiers
<1>3. /\ Before(verifier) \in Outcomes /\ Before(verifier).run = Len(verdicts) + 1
      /\ Before(verifier).phase = "before"
  <2>1. Len(verdicts) + 1 \in 1..MaxRuns BY <1>1, VerificationAssumption
  <2>2. verifier.incident.base \in Nat \cup {None} BY <1>1 DEF Incidents
  <2> QED BY <2>1, <2>2 DEF Before, Outcomes, Run
<1>4. /\ kept' \in Seq(Outcomes)
      /\ \A i \in DOMAIN kept' : kept'[i] = Before(verifier) \/ \E j \in DOMAIN kept : kept'[i] = kept[j]
  BY <1>1, <1>3, HandedOn
<1>5. UNCHANGED Sight BY <1>1 DEF Sight, nodeVars
<1>6. VerifyShape' BY <1>1, <1>2, <1>4 DEF IInv, VerifyShape
<1>7. Verifying'
  <2>1. Again' = Again BY <1>5, SightKept
  <2> QED BY <1>1, <1>2, <1>5, <2>1 DEF IInv, Verifying, Sight, CanVerify
<1>8. \A j \in DOMAIN kept : kept[j].run \in DOMAIN verdicts BY <1>1 DEF IInv, Evidenced
<1>9. Evidenced' BY <1>1, <1>2, <1>3, <1>4, <1>8 DEF Evidenced, Run
<1>10. VerdictAgrees' BY <1>2 DEF VerdictAgrees
<1>11. KeptIsEvidence'
  <2> SUFFICES ASSUME NEW d \in {kept'[i] : i \in DOMAIN kept'}, d.run \in DOMAIN verdicts
               PROVE  \E j \in DOMAIN kept : d = kept[j]
    BY <1>1 DEF IInv, KeptIsEvidence
  <2>1. Before(verifier).run \notin DOMAIN verdicts BY <1>1, <1>3
  <2> QED BY <1>4, <2>1
<1> QED BY <1>6, <1>7, <1>9, <1>10, <1>11 DEF VerifyInv

LEMMA HandAfterStep ==
    ASSUME IInv, HandAfter
    PROVE  VerifyInv'
<1> DEFINE v == [is |-> IF Promotable(verifier) THEN "resolved" ELSE "broken",
                 incident |-> verifier.incident]
<1>1. /\ verifier.pc = "after" /\ verifier \in Verifiers /\ verifier.incident \in Incidents
      /\ verifier' = Resting /\ verdicts' = Append(verdicts, v)
      /\ kept' \in {kept, Append(kept, After(verifier))}
      /\ UNCHANGED <<nodeVars, collector, snapshot, steady>>
      /\ kept \in Seq(Outcomes) /\ verdicts \in Seq(Verdicts) /\ Len(verdicts) < MaxRuns
      /\ Len(verdicts) \in Nat
  BY DEF HandAfter, HandsOn, IInv, VerifyShape, Verifying
<1>2. /\ v \in Verdicts /\ v.incident = verifier.incident
      /\ v.is = IF Promotable(verifier) THEN "resolved" ELSE "broken"
  BY <1>1 DEF Verdicts
<1> HIDE DEF v
<1>3. /\ verdicts' \in Seq(Verdicts) /\ Len(verdicts') = Len(verdicts) + 1
      /\ DOMAIN verdicts = 1..Len(verdicts) /\ DOMAIN verdicts' = 1..Len(verdicts) + 1
      /\ verdicts'[Len(verdicts) + 1] = v
      /\ \A r \in DOMAIN verdicts : r \in DOMAIN verdicts' /\ verdicts'[r] = verdicts[r]
  BY <1>1, <1>2, OneMore
<1>4. /\ After(verifier) \in Outcomes /\ After(verifier).run = Len(verdicts) + 1
      /\ After(verifier).phase = "after"
      /\ After(verifier).outcome = IF verifier.saw = "clean" THEN "not-reproduced" ELSE "reproduced"
      /\ After(verifier).print = IF subject = "manifest" THEN verifier.commit ELSE None
  <2>1. Len(verdicts) + 1 \in 1..MaxRuns BY <1>1, VerificationAssumption
  <2>2. verifier.commit \in Nat \cup {None} BY <1>1 DEF Verifiers
  <2> QED BY <2>1, <2>2 DEF After, Outcomes, Run
<1>5. /\ kept' \in Seq(Outcomes)
      /\ \A i \in DOMAIN kept' : kept'[i] = After(verifier) \/ \E j \in DOMAIN kept : kept'[i] = kept[j]
  BY <1>1, <1>4, HandedOn
<1>6. Resting \in Verifiers /\ Resting.pc = "idle" BY DEF Resting, Verifiers
<1>7. VerifyShape'
  <2>1. Len(verdicts') <= MaxRuns BY <1>1, <1>3, VerificationAssumption
  <2> QED BY <1>1, <1>3, <1>5, <1>6, <2>1 DEF IInv, VerifyShape
<1>8. Verifying' BY <1>1, <1>6 DEF Verifying
<1>9. \A j \in DOMAIN kept : kept[j].run \in DOMAIN verdicts \/ (kept[j].run = Len(verdicts) + 1 /\ kept[j].phase = "before")
  BY DEF IInv, Evidenced, Run
<1>10. Evidenced'
  <2>1. Len(verdicts) + 1 \in DOMAIN verdicts' BY <1>1, <1>3
  <2> QED BY <1>3, <1>4, <1>5, <1>9, <2>1 DEF Evidenced
<1>11. /\ verifier.incident.node = "here"
       /\ subject = "manifest" => verifier.commit \in Nat /\ verifier.incident.base \in Nat
       /\ steady => /\ CanVerify(verifier.incident) /\ verifier.saw = Again
                    /\ subject = "manifest" => verifier.commit = checkout.head
  BY <1>1 DEF IInv, Verifying
<1>12. VerdictAgrees'
  <2> SUFFICES ASSUME steady
               PROVE  CASE v.is = "resolved" ->
                             /\ v.incident.node = "here" /\ Finding = "clean"
                             /\ subject = "manifest" => checkout.head # v.incident.base
                        [] v.is = "broken" ->
                             /\ v.incident.node = "here"
                             /\ \/ Finding = "trouble"
                                \/ /\ subject = "manifest"
                                   /\ checkout.head = v.incident.base \/ checkout.tree[Manifest] = "gone"
                        [] OTHER -> TRUE
    <3>1. UNCHANGED Sight BY <1>1 DEF Sight, nodeVars
    <3>2. Finding' = Finding BY <3>1, SightKept
    <3> QED BY <1>1, <1>3, <3>1, <3>2 DEF VerdictAgrees, Sight
  <2>1. CanVerify(verifier.incident) /\ verifier.saw = Again
        /\ (subject = "manifest" => verifier.commit = checkout.head)
    BY <1>11
  <2>2. /\ Again = "clean" => Finding = "clean"
        /\ Again # "clean" => \/ Finding = "trouble"
                              \/ subject = "manifest" /\ checkout.tree[Manifest] = "gone"
    BY <1>1, <2>1, SameCheck
  <2>3. CASE Promotable(verifier) BY <1>2, <1>11, <2>1, <2>2, <2>3 DEF Promotable
  <2>4. CASE ~Promotable(verifier) BY <1>2, <1>11, <2>1, <2>2, <2>4 DEF Promotable
  <2> QED BY <2>3, <2>4
<1>13. KeptIsEvidence'
  <2> SUFFICES ASSUME NEW d \in {kept'[i] : i \in DOMAIN kept'}, d.run \in DOMAIN verdicts'
               PROVE  /\ verdicts'[d.run].is # "refused"
                      /\ d.phase = "after" =>
                           (verdicts'[d.run].is = "resolved" <=>
                                /\ d.outcome = "not-reproduced"
                                /\ d.print # None => d.print # verdicts'[d.run].incident.base)
    BY DEF KeptIsEvidence
  <2>1. CASE d = After(verifier)
    <3>1. None \notin Nat BY ChecksAssumption
    <3>2. verdicts'[d.run] = v BY <1>3, <1>4, <2>1
    <3>3. Promotable(verifier) <=> /\ d.outcome = "not-reproduced"
                                   /\ d.print # None => d.print # verifier.incident.base
      BY <1>4, <1>11, <2>1, <3>1 DEF Promotable
    <3> QED BY <1>2, <3>2, <3>3
  <2>2. CASE d # After(verifier)
    <3>1. PICK j \in DOMAIN kept : d = kept[j] BY <1>5, <2>2
    <3>2. CASE d.run \in DOMAIN verdicts BY <1>3, <3>1, <3>2 DEF IInv, KeptIsEvidence
    <3>3. CASE d.run = Len(verdicts) + 1 /\ d.phase = "before" BY <1>2, <1>3, <3>3
    <3> QED BY <1>9, <3>1, <3>2, <3>3
  <2> QED BY <2>1, <2>2
<1> QED BY <1>7, <1>8, <1>10, <1>12, <1>13 DEF VerifyInv

LEMMA VerifyStep ==
    ASSUME IInv, Verify
    PROVE  VerifyInv' /\ UNCHANGED nodeVars
<1>1. UNCHANGED nodeVars
  BY DEF Verify, Look, Raise, VerifyBegins, ReadsCommit, HandBefore, HandAfter, Refuse
<1> QED
  BY <1>1, LookStep, RaiseStep, VerifyBeginsStep, ReadsCommitStep, HandBeforeStep, HandAfterStep
  DEF Verify

-----------------------------------------------------------------------------
LEMMA Inductive == IInv /\ [Next]_vars => IInv'
<1> SUFFICES ASSUME IInv, [Next]_vars PROVE IInv' OBVIOUS
<1>0. NodeShape /\ DraftShape /\ Responding BY DEF IInv
<1>1. CASE Verify /\ UNCHANGED draftVars
  <2>1. VerifyInv' /\ UNCHANGED nodeVars BY <1>1, VerifyStep
  <2>2. NodeShape' /\ Grown BY <1>0, <2>1 DEF NodeShape, Grown, nodeVars
  <2>3. checkout'.head >= checkout.head BY <1>0, <2>1 DEF nodeVars, NodeShape, Checkouts
  <2>4. policy' \in Policies BY <1>0, <1>1 DEF DraftShape, draftVars
  <2>5. DraftShape' /\ Responding' BY <1>0, <1>1, <2>2, <2>3, <2>4, DraftsKept DEF draftVars
  <2> QED BY <2>1, <2>2, <2>5 DEF IInv, VerifyInv
<1>2. CASE WorldChanges /\ Disturbs /\ UNCHANGED draftVars
  <2>1. NodeShape' /\ Grown /\ checkout'.head >= checkout.head /\ subject' = subject
    BY <1>0, <1>2, WorldStep
  <2>2. policy' \in Policies BY <1>0, <1>2 DEF DraftShape, draftVars
  <2>3. DraftShape' /\ Responding' BY <1>0, <1>2, <2>1, <2>2, DraftsKept DEF draftVars
  <2>4. VerifyInv' BY <1>2, <2>1, DisturbedStep DEF VerifyInv
  <2> QED BY <2>1, <2>3, <2>4 DEF IInv, VerifyInv
<1>3. CASE PolicyChanges /\ UNCHANGED verifyVars
  <2>1. NodeShape' /\ DraftShape' /\ Responding' BY <1>0, <1>3, PolicyStep
  <2>2. UNCHANGED Sight /\ UNCHANGED Evidence0
    BY <1>3 DEF PolicyChanges, Sight, Evidence0, verifyVars
  <2>3. VerifyShape' BY <1>3 DEF IInv, VerifyShape, verifyVars
  <2> QED BY <2>1, <2>2, <2>3, VerdictsKept DEF IInv
<1>4. CASE Respond /\ checkout' = checkout /\ UNCHANGED verifyVars
  <2>1. NodeShape' /\ DraftShape' /\ Responding' /\ UNCHANGED <<subject, condition, systemd>>
    BY <1>0, <1>4, RespondStep
  <2>2. UNCHANGED Sight /\ UNCHANGED Evidence0 BY <1>4, <2>1 DEF Sight, Evidence0, verifyVars
  <2>3. VerifyShape' BY <1>4 DEF IInv, VerifyShape, verifyVars
  <2> QED BY <2>1, <2>2, <2>3, VerdictsKept DEF IInv
<1>5. CASE Respond /\ Disturbs
  <2>1. NodeShape' /\ DraftShape' /\ Responding' /\ subject' = subject
    BY <1>0, <1>5, RespondStep
  <2>2. VerifyInv' BY <1>5, <2>1, DisturbedStep DEF VerifyInv
  <2> QED BY <2>1, <2>2 DEF IInv, VerifyInv
<1>6. CASE UNCHANGED vars
  <2>1. UNCHANGED <<nodeVars, verifyVars, draftVars>> BY <1>6 DEF vars
  <2>2. NodeShape' /\ Grown BY <1>0, <2>1 DEF NodeShape, Grown, nodeVars
  <2>3. checkout'.head >= checkout.head BY <1>0, <2>1 DEF nodeVars, NodeShape, Checkouts
  <2>4. policy' \in Policies BY <1>0, <2>1 DEF DraftShape, draftVars
  <2>5. DraftShape' /\ Responding' BY <1>0, <2>1, <2>2, <2>3, <2>4, DraftsKept DEF draftVars
  <2>6. UNCHANGED Sight /\ UNCHANGED Evidence0 BY <2>1 DEF Sight, Evidence0, nodeVars, verifyVars
  <2>7. VerifyShape' BY <2>1 DEF IInv, VerifyShape, verifyVars
  <2> QED BY <2>2, <2>5, <2>6, <2>7, VerdictsKept DEF IInv
<1> QED BY <1>1, <1>2, <1>3, <1>4, <1>5, <1>6 DEF Next

\* The invariant that the theorems below rest on.
THEOREM Invariant == Spec => []IInv
<1> QED BY InitInv, Inductive, PTL DEF Spec

\* Every variable keeps its type.
THEOREM TypeCorrect == Spec => []TypeOK
<1>1. IInv => TypeOK
  <2> SUFFICES ASSUME IInv PROVE TypeOK OBVIOUS
  <2>1. NodeTypeOK
    <3>1. \A c \in DOMAIN commits : commits[c] \in Trees BY DEF IInv, NodeShape
    <3> QED BY <3>1 DEF IInv, NodeShape, NodeTypeOK
  <2>2. VerifyTypeOK BY DEF IInv, VerifyShape, Verifying, VerifyTypeOK, Verifiers
  <2>3. DraftTypeOK BY DEF IInv, DraftShape, DraftTypeOK
  <2> QED BY <2>1, <2>2, <2>3 DEF TypeOK
<1> QED BY <1>1, Invariant, PTL

\* A verdict that the problem is over, or is not, is what a collection says at that moment,
\* whatever ran between the check, the read of the commit and the verdict.
THEOREM VerdictTrue == Spec => []VerdictAgrees
<1>1. IInv => VerdictAgrees BY DEF IInv
<1> QED BY <1>1, Invariant, PTL

\* The evidence that the server keeps leads to the verdict that was given, whichever of the
\* documents were lost.
THEOREM EvidenceTrue == Spec => []KeptIsEvidence
<1>1. IInv => KeptIsEvidence BY DEF IInv
<1> QED BY <1>1, Invariant, PTL

\* A model's draft that was checked against what is there now, and was signed, is taken by
\* the deploy, whatever went up or changed back in between.
THEOREM DraftTaken == Spec => []DraftIsDeployable
<1>1. ASSUME IInv, proposal # None, proposal.drafted # None, proposal.approved,
             proposal.drafted = [policy |-> policy, checkout |-> checkout],
             Dirty = {}, checkout.pending = {}
      PROVE  Accepted(proposal)
  <2>1. /\ proposal \in Proposals /\ proposal.diff \in Diffs
        /\ checkout \in Checkouts /\ checkout.head \in Nat
    BY <1>1 DEF IInv, DraftShape, Proposals, NodeShape, Checkouts
  <2>2. proposal.drafted.policy = policy /\ proposal.drafted.checkout = checkout BY <1>1
  <2>3. /\ proposal.commit # None => proposal.drafted.checkout.head <= proposal.commit
        /\ proposal.commit # None => proposal.commit <= checkout.head
        /\ PolicyAllows(proposal.drafted.policy, TouchedPaths(proposal.diff))
        /\ Applies(proposal.diff, proposal.drafted.checkout.tree)
        /\ ProtectedPathsIn(proposal.diff) = {}
    BY <1>1 DEF IInv, Responding, Drafted
  <2>4. SignedFor(proposal)
    <3>1. proposal.commit \in Nat \cup {None} BY <2>1 DEF Proposals
    <3>2. proposal.commit # None => proposal.commit = checkout.head BY <2>1, <2>2, <2>3, <3>1
    <3> QED BY <3>2 DEF SignedFor
  <2>5. Applies(proposal.diff, commits[checkout.head])
    <3>1. \A f \in Files : checkout.tree[f] = commits[checkout.head][f] BY <1>1 DEF Dirty
    <3>2. TouchedPaths(proposal.diff) \subseteq Files
      <4>1. checkout.tree \in Trees BY <2>1 DEF Checkouts
      <4> QED BY <2>1, <4>1, AppliedTree
    <3> QED BY <2>2, <2>3, <3>1, <3>2 DEF Applies
  <2> QED BY <1>1, <2>2, <2>3, <2>4, <2>5 DEF Accepted
<1>2. IInv => DraftIsDeployable BY <1>1 DEF DraftIsDeployable
<1> QED BY <1>2, Invariant, PTL

\* What goes up is the reviewed diff on the commit that the approval was signed for, and the
\* second look let nobody's edit be overwritten.
THEOREM ReviewedUp == Spec => ReviewedGoesUp
<1>1. ASSUME IInv, [Next]_vars, promotions' # promotions
      PROVE  /\ Dirty = {}
             /\ proposal.commit # None =>
                    checkout'.tree = Applied(proposal.diff, commits[proposal.commit])
  <2>1. Promote
    BY <1>1 DEF Next, vars, WorldChanges, Respond, CollectContext, Reply, Propose, Approve,
           Withdraw, DeployBegins, DeployFails, ClearPending, PolicyChanges, draftVars
  <2>2. NodeShape /\ DraftShape /\ Deploying BY <1>1 DEF IInv, Responding
  <2>3. checkout'.tree = deploy.tree BY <2>1, <2>2, PromoteStep
  <2>4. proposal.commit # None => deploy.tree = Applied(proposal.diff, commits[proposal.commit])
    BY <2>1, <2>2 DEF Promote, Deploying
  <2> QED BY <2>1, <2>3, <2>4 DEF Promote
<1>2. IInv /\ [Next]_vars =>
          [promotions' # promotions =>
             /\ Dirty = {}
             /\ proposal.commit # None =>
                  checkout'.tree = Applied(proposal.diff, commits[proposal.commit])]_vars
  BY <1>1
<1> QED BY <1>2, Invariant, PTL DEF Spec, ReviewedGoesUp
=============================================================================
