----------------------------- MODULE IncidentReview -----------------------------
(***************************************************************************)
(* Proposals and the journal of the same watchdog, side by side: listeners *)
(* and decisions (ProposalIntake) and healing bridges (HealingBridge) work *)
(* on one incident store, under the same component for a node, so that the *)
(* transition back to health closes what a person approved.                *)
(***************************************************************************)
EXTENDS ProposalIntake, HealingBridge

ASSUME ReviewAssumption ==
    /\ Procs = Listeners \cup Deciders \cup Bridges
    /\ Listeners \cap Deciders = {} /\ (Listeners \cup Deciders) \cap Bridges = {}
    /\ Proposers = Nodes

vars == <<storeVars, notifyVars, intakeVars, bridgeVars>>

Init == StoreInit /\ NotifierInit /\ IntakeInit /\ BridgeInit

\* A program is killed between two steps.
Crash(p) ==
    /\ Can("crash") /\ pc[p] # "idle"
    /\ Dies(p) /\ NotifierDies(p) /\ IntakeDies(p) /\ BridgeDies(p)

Run(p) ==
    \/ p \in Listeners /\ Intake(p) /\ UNCHANGED bridgeVars
    \/ p \in Deciders /\ Decide(p) /\ UNCHANGED bridgeVars
    \/ p \in Bridges /\ Ingest(p) /\ UNCHANGED intakeVars
    \/ Send(p) /\ UNCHANGED <<intakeVars, bridgeVars>>

Outside ==
    \/ Publish /\ UNCHANGED bridgeVars
    \/ Watchdog /\ UNCHANGED intakeVars

Next == Outside \/ \E p \in Procs : Run(p) \/ Crash(p)

Spec == Init /\ [][Next]_vars
-----------------------------------------------------------------------------
PcValues == {"idle", "listening", "accepting", "adding", "believing", "opening", "approving",
             "reaching", "recording", "rejecting", "notifying", "read", "applying"}

TypeOK ==
    /\ StoreTypeOK /\ NotifierTypeOK /\ IntakeTypeOK /\ BridgeTypeOK
    /\ pc \in [Procs -> PcValues]

\* "An accepted proposal WAITS FOR A PERSON": it is in the pending file until it is
\* decided, whatever other listeners and decisions write to that file.
AcceptedIsKept ==
    \A e \in accepted : e \in ToSet(pending) \/ \E x \in decided : x[1] = e

\* A proposal is decided once; what was approved has reached the store before, and what
\* was rejected never does, unless the decision that approved it was killed half way.
DecidedOnce ==
    /\ \A x, y \in decided : x[1] = y[1] => x = y
    /\ \A x \in decided : x[2] = "approved" => x[1] \in reached
    /\ crashes = 0 => \A x \in decided : x[2] = "rejected" => x[1] \notin reached

\* "Nothing else happens until an operator approves it": an incident of a proposal is
\* in the store only if a person approved that proposal, or a listener with auto_open took
\* it, and the node that it is about has published it under its own topic.
OnlyApproved ==
    \A r \in store.open \cup store.closed :
        r.id \in {m.id : m \in sent} =>
            /\ r.id \in {e.id : e \in approvals} \cup atOnce
            /\ \E m \in sent : m.id = r.id /\ Redact[m.topic] = r.component /\ m.sound /\ ~m.retained

\* What was opened stays open, whatever else is written into the store at the same time,
\* until a bridge applies a transition that says that its node is well again.
ClosedByHealth ==
    [][\A r \in store.open :
           \/ \E q \in store'.open : q.id = r.id /\ q.component = r.component
           \/ \E b \in Bridges : pc[b] = "applying" /\ \E i \in DOMAIN chunk[b] :
                  chunk[b][i].to = "resolve" /\ Redact[chunk[b][i].node] = r.component]_vars
=============================================================================
