----------------------------- MODULE HealingBridge -----------------------------
(***************************************************************************)
(* `edge healing-ingest': ingest of healing_bridge.py reads the journal of *)
(* the node watchdog from where it stopped last time, applies each change  *)
(* of state to the incident store, sends what changed, and then writes     *)
(* down how far it has read.  Journal, store and offset are three files;   *)
(* the watchdog appends to the journal, or replaces it, at any time.       *)
(***************************************************************************)
EXTENDS Notifier

CONSTANTS
    Bridges,      \* the programs that run `edge healing-ingest'
    Nodes,        \* the watched nodes, each one the name of its component
    LinesPerRun,  \* MAX_LINES_PER_RUN
    MaxLines      \* bound: transitions the watchdog writes

ASSUME BridgeAssumption ==
    /\ Bridges \subseteq Procs /\ Nodes \subseteq Names
    /\ LinesPerRun \in Nat \ {0} /\ MaxLines \in Nat

\* Into a status that triggers, one that resolves, or another one.
Statuses == {"trigger", "resolve", "other"}
Transitions == [node : Nodes, to : Statuses]

VARIABLES
    journal,   \* the watchdog's journal, its complete lines
    offset,    \* the state file: how much of it has been handled
    chunk,     \* bridge -> the transitions it has read
    upto,      \* bridge -> the offset it will write
    written,   \* how many transitions were ever written
    last,      \* ghost: node -> the last trigger or resolve the watchdog wrote
    outdated,  \* ghost: the bridges, and None for the state file, that count lines of a journal that is gone
    missed     \* ghost: a line was rotated away, or skipped, unread

bridgeVars == <<journal, offset, chunk, upto, written, last, outdated, missed>>
watchdog == <<journal, written, last>>

BridgeInit ==
    /\ journal = <<>> /\ offset = 0
    /\ chunk = [b \in Bridges |-> <<>>]
    /\ upto = [b \in Bridges |-> 0]
    /\ written = 0 /\ last = [n \in Nodes |-> "resolve"]
    /\ outdated = {} /\ missed = FALSE

BridgeDies(p) ==
    /\ chunk' = [b \in Bridges |-> IF b = p THEN <<>> ELSE chunk[b]]
    /\ upto' = [b \in Bridges |-> IF b = p THEN 0 ELSE upto[b]]
    /\ UNCHANGED <<watchdog, offset, outdated, missed>>

-----------------------------------------------------------------------------
(* ingest, by bridge b.                                                    *)

\* A journal that got shorter was rotated or replaced: it is read from its start.
Start_stays == offset
Start == IF Len(journal) < offset THEN 0 ELSE offset

\* read_new_transitions: the first lines of what is new; the offset goes past all of it.
ReadNew(b) ==
    /\ pc[b] = "idle"
    /\ LET new == SubSeq(journal, Start + 1, Len(journal)) IN
       /\ chunk' = [chunk EXCEPT ![b] = SubSeq(new, 1, Min({LinesPerRun, Len(new)}))]
       /\ missed' = (missed \/ Len(new) > LinesPerRun \/ (None \in outdated /\ offset \in 1..Len(journal)))
    /\ outdated' = outdated \ {b}
    /\ upto' = [upto EXCEPT ![b] = Len(journal)]
    /\ GoTo(b, "read")
    /\ UNCHANGED <<store, lock, clock, issued, mem, crashes, notifyVars, watchdog, offset>>

BridgeLocks(b) ==
    /\ pc[b] = "read"
    /\ Acquire(b) /\ GoTo(b, "applying")
    /\ UNCHANGED <<store, clock, issued, crashes, notifyVars, bridgeVars>>

BridgeTimeout(b) ==
    /\ pc[b] = "read" /\ LockTimeout(b) /\ BridgeDies(b)
    /\ UNCHANGED notifyVars

\* What the i-th transition of a chunk does to store s: an incident is opened or
\* counted, or the open one of that node is closed.
Applied(s, t, i) ==
    CASE t.to = "trigger" ->
            Reconcile(s, <<[id |-> Fresh(i), component |-> t.node]>>, {}, clock)
      [] t.to = "resolve" /\ OpenAs(s, t.node) # {} ->
            Reconcile(s, <<>>, {t.node}, clock)
      [] OTHER -> s

\* The store after the first n transitions of bridge b's chunk.
AfterFirst(b) ==
    LET f[n \in 0..Len(chunk[b])] ==
            IF n = 0 THEN mem[b] ELSE Applied(f[n - 1], chunk[b][n], n)
    IN  f

Ingested(b) == AfterFirst(b)[Len(chunk[b])]

\* With no transition nothing is saved and nothing is sent.
BridgeSaves(b) ==
    /\ pc[b] = "applying"
    /\ IF chunk[b] = <<>>
       THEN /\ lock' = IF lock = b THEN None ELSE lock
            /\ UNCHANGED <<store, issued, outgoing>>
       ELSE /\ SaveStore(b, Ingested(b))
            /\ outgoing' = [outgoing EXCEPT ![b] = Changes(mem[b], Ingested(b))]
    /\ Forget(b) /\ GoTo(b, "notifying")
    /\ chunk' = [chunk EXCEPT ![b] = <<>>]
    /\ UNCHANGED <<clock, crashes, broker, brokerFlips, outbox, outboxLock, remaining, records,
                   watchdog, offset, upto, outdated, missed>>

\* Last of all, how far the journal has been handled.
NewOffset(b) == upto[b]
BridgeEnds(b) ==
    /\ pc[b] = "notifying" /\ outgoing[b] = <<>>
    /\ offset' = NewOffset(b)
    /\ upto' = [upto EXCEPT ![b] = 0]
    /\ outdated' = IF b \in outdated THEN outdated \cup {None} ELSE outdated \ {None}
    /\ GoTo(b, "idle")
    /\ UNCHANGED <<store, lock, clock, issued, mem, crashes, notifyVars, watchdog, chunk, missed>>

Ingest(b) == ReadNew(b) \/ BridgeLocks(b) \/ BridgeTimeout(b) \/ BridgeSaves(b) \/ BridgeEnds(b)
-----------------------------------------------------------------------------
(* The watchdog.                                                           *)

WatchdogWrites ==
    /\ written < MaxLines /\ written' = written + 1
    /\ \E n \in Nodes, to \in Statuses :
           /\ journal' = Append(journal, [node |-> n, to |-> to])
           /\ last' = [last EXCEPT ![n] = IF to = "other" THEN @ ELSE to]
    /\ UNCHANGED <<storeVars, notifyVars, offset, chunk, upto, outdated, missed>>

\* The journal is replaced by an empty one; what was not handled is gone.  The shorter
\* journal is only noticed while it is shorter than the offset.
WatchdogRotates ==
    /\ journal # <<>>
    /\ journal' = <<>>
    /\ missed' = (missed \/ offset # Len(journal) \/ None \in outdated)
    /\ outdated' = {None} \cup {b \in Bridges : pc[b] # "idle"}
    /\ UNCHANGED <<storeVars, notifyVars, offset, chunk, upto, written, last>>

Watchdog == WatchdogWrites \/ WatchdogRotates

BridgeTypeOK ==
    /\ journal \in Seq(Transitions) /\ offset \in 0..MaxLines
    /\ chunk \in [Bridges -> Seq(Transitions)] /\ upto \in [Bridges -> 0..MaxLines]
    /\ written \in 0..MaxLines /\ last \in [Nodes -> {"trigger", "resolve"}]
    /\ outdated \subseteq Bridges \cup {None} /\ missed \in BOOLEAN
=============================================================================
