------------------------------- MODULE EdgeAgent -------------------------------
(***************************************************************************)
(* `edge collect' with a store: collect_snapshot of edge_agent.py checks   *)
(* one component after the other (manifests, systemd units, health URLs,   *)
(* the host) with no lock, and then reconciles what it saw under the       *)
(* store's lock.  Around it, collect_with_notification of cli_extra.py     *)
(* reads the store before and after, and sends what changed between the    *)
(* two reads.                                                              *)
(***************************************************************************)
EXTENDS Notifier

CONSTANTS
    Collectors,  \* the programs that run `edge collect'
    Checks,      \* the components of a pass, in the order they are checked
    Units,       \* those that systemd answers for
    Host,        \* readings of the machine itself, which it may not be able to give
    MaxFlips     \* bound: how often a component, or systemd, goes down or comes back

ASSUME EdgeAssumption ==
    /\ Collectors \subseteq Procs /\ Checks \in Seq(Names)
    /\ Units \subseteq Names /\ Host \subseteq Names \ Units /\ MaxFlips \in Nat

VARIABLES
    down,     \* the components that have a problem now
    systemd,  \* systemctl is there and answers
    flips,    \* how often any of this changed
    seen,     \* collector -> what its checks saw so far
    before    \* collector -> the store it read when it began

edgeVars == <<down, systemd, flips, seen, before>>
world == <<down, systemd, flips>>

Readings == {"down", "up", "unchecked"}

EdgeInit ==
    /\ down = {} /\ systemd = TRUE /\ flips = 0
    /\ seen = [k \in Collectors |-> <<>>]
    /\ before = [k \in Collectors |-> EmptyStore]

EdgeDies(p) ==
    /\ seen' = [k \in Collectors |-> IF k = p THEN <<>> ELSE seen[k]]
    /\ before' = [k \in Collectors |-> IF k = p THEN EmptyStore ELSE before[k]]
    /\ UNCHANGED world

-----------------------------------------------------------------------------
(* One pass, by collector k.                                               *)

\* The store is read, without its lock, to tell later what changed.
Begin(k) ==
    /\ pc[k] = "idle"
    /\ before' = [before EXCEPT ![k] = store]
    /\ GoTo(k, "checking")
    /\ UNCHANGED <<store, lock, clock, issued, mem, crashes, notifyVars, world, seen>>

\* SystemdUnavailableError: the units that follow are not asked for either.
NoSystemd(k) == \E i \in DOMAIN seen[k] : Checks[i] \in Units /\ seen[k][i] = "unchecked"

\* What a check of component c can say.
Reading(k, c) ==
    IF c \in Units /\ (~systemd \/ NoSystemd(k)) THEN {"unchecked"}
    ELSE {IF c \in down THEN "down" ELSE "up"}
         \cup (IF c \in Host THEN {"unchecked"} ELSE {})

Check(k) ==
    /\ pc[k] = "checking" /\ Len(seen[k]) < Len(Checks)
    /\ \E r \in Reading(k, Checks[Len(seen[k]) + 1]) : seen' = [seen EXCEPT ![k] = Append(@, r)]
    /\ UNCHANGED <<storeVars, notifyVars, world, before>>

\* IncidentBatch: an incident for each problem, in the order of the checks.
Batch(k) ==
    LET bad == {i \in DOMAIN seen[k] : seen[k][i] = "down"}
        nth(n) == CHOOSE i \in bad : Cardinality({j \in bad : j <= i}) = n
    IN  [n \in 1..Cardinality(bad) |-> [id |-> Fresh(n), component |-> Checks[nth(n)]]]

\* checked_components: what was really looked at, clean or not.
Checked_listed(k) == ToSet(Checks)
Checked_problems(k) == {Checks[i] : i \in {i \in DOMAIN seen[k] : seen[k][i] = "down"}}
Checked(k) == {Checks[i] : i \in {i \in DOMAIN seen[k] : seen[k][i] # "unchecked"}}

CollectLocks(k) ==
    /\ pc[k] = "checking" /\ Len(seen[k]) = Len(Checks)
    /\ Acquire(k) /\ GoTo(k, "reconciling")
    /\ UNCHANGED <<store, clock, issued, crashes, notifyVars, edgeVars>>

CollectTimeout(k) ==
    /\ pc[k] = "checking" /\ Len(seen[k]) = Len(Checks)
    /\ LockTimeout(k) /\ EdgeDies(k)
    /\ UNCHANGED notifyVars

CollectSaves(k) ==
    /\ pc[k] = "reconciling"
    /\ SaveStore(k, Reconcile(mem[k], Batch(k), Checked(k), clock))
    /\ Forget(k) /\ GoTo(k, "flushing")
    /\ seen' = [seen EXCEPT ![k] = <<>>]
    /\ UNCHANGED <<clock, crashes, notifyVars, world, before>>

\* The store is read again, and the difference goes out.
CollectCompares(k) ==
    /\ pc[k] = "flushed"
    /\ outgoing' = [outgoing EXCEPT ![k] = Changes(before[k], store)]
    /\ before' = [before EXCEPT ![k] = EmptyStore]
    /\ GoTo(k, "notifying")
    /\ UNCHANGED <<store, lock, clock, issued, mem, crashes, broker, brokerFlips, outbox,
                   outboxLock, remaining, records, world, seen>>

CollectEnds(k) ==
    /\ pc[k] = "notifying" /\ outgoing[k] = <<>>
    /\ GoTo(k, "idle")
    /\ UNCHANGED <<store, lock, clock, issued, mem, crashes, notifyVars, edgeVars>>

Collect(k) ==
    \/ Begin(k) \/ Check(k) \/ CollectLocks(k) \/ CollectTimeout(k)
    \/ CollectSaves(k) \/ CollectCompares(k) \/ CollectEnds(k)
-----------------------------------------------------------------------------
\* A component gets a problem or loses it; systemd goes away or comes back.
WorldFlips ==
    /\ flips < MaxFlips /\ flips' = flips + 1
    /\ \/ \E c \in ToSet(Checks) : down' = SymDiff(down, {c}) /\ UNCHANGED systemd
       \/ Units # {} /\ systemd' = ~systemd /\ UNCHANGED down
    /\ UNCHANGED <<storeVars, notifyVars, seen, before>>

EdgeTypeOK ==
    /\ down \subseteq Names /\ systemd \in BOOLEAN /\ flips \in 0..MaxFlips
    /\ seen \in [Collectors -> Seq(Readings)]
    /\ before \in [Collectors -> Stores]
=============================================================================
