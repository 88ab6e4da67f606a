------------------------------- MODULE Monitoring -------------------------------
(***************************************************************************)
(* One node's monitoring: collectors, healing bridges and their            *)
(* notifications, all on one incident store and one outbox.                *)
(***************************************************************************)
EXTENDS EdgeAgent, HealingBridge

ASSUME MonitoringAssumption ==
    /\ Procs = Collectors \cup Bridges /\ Collectors \cap Bridges = {}
    /\ Nodes \cap ToSet(Checks) = {}

vars == <<storeVars, notifyVars, edgeVars, bridgeVars>>

Init == StoreInit /\ NotifierInit /\ EdgeInit /\ BridgeInit

\* A program is killed between two steps.
Crash(p) ==
    /\ Can("crash") /\ pc[p] # "idle"
    /\ Dies(p) /\ NotifierDies(p) /\ EdgeDies(p) /\ BridgeDies(p)

Run(p) ==
    \/ p \in Collectors /\ Collect(p) /\ UNCHANGED bridgeVars
    \/ p \in Bridges /\ Ingest(p) /\ UNCHANGED edgeVars
    \/ Send(p) /\ UNCHANGED <<edgeVars, bridgeVars>>
    \/ FlushBegin(p) /\ UNCHANGED <<edgeVars, bridgeVars>>
    \/ FlushOne(p) /\ UNCHANGED <<edgeVars, bridgeVars>>
    \/ FlushEnd(p) /\ UNCHANGED <<edgeVars, bridgeVars>>
    \/ OutboxTimeout(p) /\ EdgeDies(p) /\ BridgeDies(p)

Outside ==
    \/ TickStore /\ UNCHANGED <<notifyVars, edgeVars, bridgeVars>>
    \/ BrokerFlips /\ UNCHANGED <<edgeVars, bridgeVars>>
    \/ WorldFlips /\ UNCHANGED bridgeVars
    \/ Watchdog /\ UNCHANGED edgeVars

Next == Outside \/ \E p \in Procs : Run(p) \/ Crash(p)

Spec == Init /\ [][Next]_vars

\* A timer starts the collectors and the bridges again and again, minutes apart, and each
\* run ends.  A lock is polled until it is free and the others hold it for moments, so a
\* program that can go on again and again does (strong fairness).
Fairness == \A p \in Procs : SF_vars(Run(p))
FairSpec == Spec /\ Fairness
-----------------------------------------------------------------------------
PcValues == {"idle", "checking", "reconciling", "flushing", "publishing", "flushed",
             "notifying", "read", "applying"}

TypeOK ==
    /\ StoreTypeOK /\ NotifierTypeOK /\ EdgeTypeOK /\ BridgeTypeOK
    /\ pc \in [Procs -> PcValues]

\* The store implements its promise, whatever overlaps or is killed.
StoredNames == {Redact[n] : n \in ToSet(Checks) \cup Nodes}
Lifecycle == INSTANCE IncidentLifecycle WITH
    Components <- StoredNames, used <- issued,
    current <- [n \in StoredNames |-> {r.id : r \in {q \in store.open : q.component = n}}]
KeepsLifecyclePromise == Lifecycle!Spec

\* "Genuinely re-checked and found clean, not merely unmentioned": an incident leaves the
\* open ones only into the history, unless so many closed in that save that they fill it, and
\* one of a checked component only after a check in the same pass saw that component well.
ClosedWhenSeenWell ==
    [][\A r \in store.open :
          r.id \notin OpenIds(store') =>
              /\ \/ r.id \in ClosedIds(store')
                 \/ Cardinality({q \in store'.closed : q.at = clock}) >= History
              /\ \/ r.component \in {Redact[n] : n \in Nodes}
                 \/ \E k \in Collectors : \E i \in DOMAIN seen[k] :
                        /\ pc[k] = "reconciling" /\ seen[k][i] = "up"
                        /\ Redact[Checks[i]] = r.component]_vars

\* Once every transition was read, and no bridge is in the middle of it, a node has an
\* open incident exactly if the last word on it in the journal was a trigger, also when
\* a bridge was killed and applied some transitions twice.
StoreFollowsJournal ==
    /\ ~missed /\ (\A b \in Bridges : pc[b] = "idle")
    /\ None \notin outdated /\ offset = Len(journal)
    => \A n \in Nodes : OpenAs(store, n) # {} <=> last[n] = "trigger"

\* "A person who was told about the problem is told it is over" (wanted): when nothing is
\* running and nothing was killed, each incident that is open, and severe enough, was
\* announced, and each that was announced and is not open any more was announced as resolved.
\* An event counts that waits in the outbox, or that the outbox had no room for.
Announced(kind) == {e.id : e \in {x \in published \cup ToSet(outbox) \cup dropped : x.kind = kind}}
ToldIsOver ==
    crashes = 0 /\ (\A p \in Procs : pc[p] = "idle")
    => /\ {r.id : r \in {x \in store.open : x.component \notin Minor}} \subseteq Announced("opened")
       /\ Announced("opened") \ OpenIds(store) \subseteq Announced("resolved")

\* Once the world stops changing, and systemd answers, the store comes to agree with it: a
\* component whose check always says something has an open incident exactly if it is down,
\* whatever older passes saved before.
StoreConverges ==
    (<>[]systemd) =>
        <>[](\A c \in ToSet(Checks) \ Host : OpenAs(store, c) # {} <=> c \in down)

\* Once the broker stays reachable, what the outbox holds goes out.
OutboxDrains == (<>[]broker) => []<>(outbox = <<>>)
=============================================================================
