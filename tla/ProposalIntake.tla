----------------------------- MODULE ProposalIntake -----------------------------
(***************************************************************************)
(* Incident proposals of proposal_intake.py.  `edge proposals-ingest'      *)
(* listens to the broker for some time and keeps what it accepts in the    *)
(* pending file, or opens it at once (auto_open); `edge proposals-decide', *)
(* and the edge service, let a person approve an entry, which opens the    *)
(* incident in the store, or reject it.  Two files, each with a lock of    *)
(* its own; a decision holds both and saves the store first.               *)
(***************************************************************************)
EXTENDS Notifier

CONSTANTS
    Listeners,    \* the programs that run `edge proposals-ingest'
    Deciders,     \* the commands and requests that decide
    Proposers,    \* the nodes whose watchdogs propose
    Allowed,      \* proposals.allowed_nodes; the empty set allows all
    AutoOpen,     \* what proposals.auto_open may be set to, {FALSE} by default
    MaxPending,   \* proposals.max_pending
    MaxPerMinute, \* proposals.max_per_minute
    MaxMessages,  \* bound: messages that are published
    Shapes        \* bound: what they look like, see Messages

ASSUME IntakeAssumption ==
    /\ Listeners \subseteq Procs /\ Deciders \subseteq Procs
    /\ AutoOpen \subseteq BOOLEAN /\ Proposers \subseteq Names /\ Allowed \subseteq Proposers
    /\ MaxPending \in Nat \ {0} /\ MaxPerMinute \in Nat \ {0}
    /\ MaxMessages \in Nat
    /\ Shapes \subseteq [topic : Proposers, source : Proposers, sound : BOOLEAN, retained : BOOLEAN]

\* A message: the node of its topic, the node that it names, its incident id.  sound: a
\* JSON object within the limits, each field as the contract says; retained: by the broker.
Messages == [id : Nat, topic : Proposers, source : Proposers, sound : BOOLEAN, retained : BOOLEAN]

\* An entry of the pending file; nth: ghost, which of all accepted proposals it is.
Entries == [id : Nat, node : Proposers, nth : Nat]
Decisions == {"approved", "rejected"}

VARIABLES
    pending,     \* the entries of the pending file that wait
    pendingLock, \* who holds the lock of that file
    loaded,      \* program -> the entries as it loaded them
    socket,      \* listener -> the messages that reached it and are not read yet
    handling,    \* listener -> the message it has acknowledged and is handling
    auto,        \* listener -> proposals.auto_open, in this run
    window,      \* listener -> the messages it looked at in the last minute, in this run
    asked,       \* decider -> the entries it was asked to decide, and how
    sent,        \* the messages published so far
    sendings,    \* how many, repetitions counted
    accepted,    \* ghost: the proposals accepted, but those that a repetition replaced
    approvals,   \* ghost: the entries that a person was found to approve
    reached,     \* ghost: the entries whose incident was saved into the store
    atOnce,      \* ghost: the incident ids that auto_open saved into the store
    decided      \* ghost: <<entry, decision>>, all that `decided' of the file ever held

proposers == <<sent, sendings>>
ghosts == <<accepted, approvals, reached, atOnce, decided>>
held == <<loaded, socket, handling, auto, window, asked>>
intakeVars == <<pending, pendingLock, held, proposers, ghosts>>

IntakeInit ==
    /\ pending = <<>> /\ pendingLock = None
    /\ loaded = [p \in Listeners \cup Deciders |-> <<>>]
    /\ socket = [l \in Listeners |-> <<>>] /\ handling = [l \in Listeners |-> {}]
    /\ auto = [l \in Listeners |-> FALSE]
    /\ window = [l \in Listeners |-> 0] /\ asked = [d \in Deciders |-> {}]
    /\ sent = {} /\ sendings = 0
    /\ accepted = {} /\ approvals = {} /\ reached = {} /\ atOnce = {} /\ decided = {}

\* What a program that dies held here.  Each run of a listener is a session of its own:
\* a message it had acknowledged, or not read, does not come back.
IntakeDies(p) ==
    /\ pendingLock' = IF pendingLock = p THEN None ELSE pendingLock
    /\ loaded' = [q \in DOMAIN loaded |-> IF q = p THEN <<>> ELSE loaded[q]]
    /\ socket' = [l \in Listeners |-> IF l = p THEN <<>> ELSE socket[l]]
    /\ handling' = [l \in Listeners |-> IF l = p THEN {} ELSE handling[l]]
    /\ auto' = [l \in Listeners |-> IF l = p THEN FALSE ELSE auto[l]]
    /\ window' = [l \in Listeners |-> IF l = p THEN 0 ELSE window[l]]
    /\ asked' = [d \in Deciders |-> IF d = p THEN {} ELSE asked[d]]
    /\ UNCHANGED <<pending, proposers, ghosts>>
-----------------------------------------------------------------------------
(* The broker.                                                             *)

\* A proposal with an identity of its own is published, or one is published again.
Publish ==
    /\ sendings < MaxMessages /\ sendings' = sendings + 1
    /\ \E m \in sent \cup {[id |-> issued + 1, topic |-> x.topic, source |-> x.source,
                            sound |-> x.sound, retained |-> x.retained] : x \in Shapes} :
           /\ sent' = sent \cup {m} /\ issued' = Max({issued, m.id})
           /\ socket' = [l \in Listeners |-> IF pc[l] = "idle" THEN <<>> ELSE Append(socket[l], m)]
    /\ UNCHANGED <<store, lock, clock, pc, mem, crashes, notifyVars, pending, pendingLock, loaded,
                   handling, auto, window, asked, ghosts>>
-----------------------------------------------------------------------------
(* A listener l: MqttSubscriber.listen and ProposalIntake.handle.          *)

Listen(l) ==
    /\ pc[l] = "idle" /\ GoTo(l, "listening")
    /\ \E open \in AutoOpen : auto' = [auto EXCEPT ![l] = open]
    /\ UNCHANGED <<store, lock, clock, issued, mem, crashes, notifyVars, pending, pendingLock, loaded,
                   socket, handling, window, asked, proposers, ghosts>>

\* listen_seconds are over, or max_messages were delivered.
StopListening(l) ==
    /\ pc[l] = "listening" /\ GoTo(l, "idle")
    /\ socket' = [socket EXCEPT ![l] = <<>>]
    /\ auto' = [auto EXCEPT ![l] = FALSE]
    /\ window' = [window EXCEPT ![l] = 0]
    /\ UNCHANGED <<store, lock, clock, issued, mem, crashes, notifyVars, pending, pendingLock, loaded,
                   handling, asked, proposers, ghosts>>

\* parse_proposal: no other node may be spoken for, and only those that are allowed speak.
Believed_anyone(m) == m.sound /\ (Allowed = {} \/ m.source \in Allowed)
Believed(m) == m.sound /\ m.source = m.topic /\ (Allowed = {} \/ m.source \in Allowed)

\* The next message is acknowledged, and then it is looked at.  Of the messages of the
\* last minute (_within_rate), any number may have grown older by now.
Read(l) ==
    /\ pc[l] = "listening" /\ socket[l] # <<>>
    /\ socket' = [socket EXCEPT ![l] = Tail(@)]
    /\ LET m == Head(socket[l]) IN
       \/ m.retained /\ UNCHANGED <<pc, handling, window>>
       \/ ~m.retained /\ \E n \in 0..window[l] :
             \/ /\ n >= MaxPerMinute
                /\ window' = [window EXCEPT ![l] = n]
                /\ UNCHANGED <<pc, handling>>
             \/ /\ n < MaxPerMinute
                /\ window' = [window EXCEPT ![l] = n + 1]
                /\ \/ ~Believed(m) /\ UNCHANGED <<pc, handling>>
                   \/ /\ Believed(m)
                      /\ handling' = [handling EXCEPT ![l] = {m}]
                      /\ GoTo(l, IF auto[l] THEN "believing" ELSE "accepting")
    /\ UNCHANGED <<store, lock, clock, issued, mem, crashes, notifyVars, pending, pendingLock, loaded,
                   auto, asked, proposers, ghosts>>

\* The lock of the pending file, and load_pending.
LockPending_unlocked(p) ==
    /\ pendingLock' = p
    /\ loaded' = [loaded EXCEPT ![p] = pending]
LockPending(p) ==
    /\ pendingLock = None /\ pendingLock' = p
    /\ loaded' = [loaded EXCEPT ![p] = pending]

\* _save_pending, and the lock is released.
SavePending(p, entries) ==
    /\ pending' = entries
    /\ loaded' = [loaded EXCEPT ![p] = <<>>]
    /\ pendingLock' = IF pendingLock = p THEN None ELSE pendingLock

AddLoads(l) ==
    /\ pc[l] = "accepting" /\ LockPending(l) /\ GoTo(l, "adding")
    /\ UNCHANGED <<store, lock, clock, issued, mem, crashes, notifyVars, pending, socket, handling,
                   auto, window, asked, proposers, ghosts>>

\* add_pending: the entry with the same incident id is replaced, a new one goes to the
\* end unless the list is full.
Added(entries, e) ==
    IF \E i \in DOMAIN entries : entries[i].id = e.id
    THEN [i \in DOMAIN entries |-> IF entries[i].id = e.id THEN e ELSE entries[i]]
    ELSE IF Len(entries) < MaxPending THEN Append(entries, e) ELSE entries

AddSaves(l) ==
    /\ pc[l] = "adding"
    /\ \E m \in handling[l] :
           LET e == [id |-> m.id, node |-> m.source, nth |-> 1 + Max({0} \cup {x.nth : x \in accepted})]
               entries == Added(loaded[l], e)
           IN  /\ SavePending(l, entries)
               /\ accepted' = (accepted \ ToSet(loaded[l])) \cup ToSet(entries)
    /\ handling' = [handling EXCEPT ![l] = {}]
    /\ GoTo(l, "listening")
    /\ UNCHANGED <<store, lock, clock, issued, mem, crashes, notifyVars, socket, auto, window, asked, proposers,
                   approvals, reached, atOnce, decided>>

\* TimeoutError goes through listen, which ends: the message is lost.
AddTimeout(l) ==
    /\ Can("timeout") /\ pc[l] = "accepting" /\ pendingLock \notin {None, l}
    /\ Dies(l) /\ IntakeDies(l)
    /\ UNCHANGED notifyVars

\* auto_open: the incident goes into the store at once, and out to whoever is notified.
OpenLocks(l) ==
    /\ pc[l] = "believing" /\ Acquire(l) /\ GoTo(l, "opening")
    /\ UNCHANGED <<store, clock, issued, crashes, notifyVars, intakeVars>>

OpenTimeout(l) ==
    /\ pc[l] = "believing" /\ LockTimeout(l) /\ IntakeDies(l)
    /\ UNCHANGED notifyVars

\* reconcile_incidents with the one incident, and nothing else looked at.
Opened(s, id, node) == Reconcile(s, <<[id |-> id, component |-> node]>>, {}, clock)

OpenSaves(l) ==
    /\ pc[l] = "opening"
    /\ \E m \in handling[l] :
           /\ SaveStore(l, Opened(mem[l], m.id, m.source))
           /\ atOnce' = atOnce \cup {m.id}
           /\ outgoing' = [outgoing EXCEPT ![l] = Changes(mem[l], Opened(mem[l], m.id, m.source))]
    /\ handling' = [handling EXCEPT ![l] = {}]
    /\ Forget(l) /\ GoTo(l, "notifying")
    /\ UNCHANGED <<clock, crashes, broker, brokerFlips, outbox, outboxLock, remaining, records,
                   pending, pendingLock, loaded, socket, auto, window, asked, proposers, accepted, approvals,
                   reached, decided>>

OpenEnds(l) ==
    /\ pc[l] = "notifying" /\ outgoing[l] = <<>> /\ GoTo(l, "listening")
    /\ UNCHANGED <<store, lock, clock, issued, mem, crashes, notifyVars, intakeVars>>

Intake(l) ==
    \/ Listen(l) \/ StopListening(l) \/ Read(l) \/ AddLoads(l) \/ AddSaves(l) \/ AddTimeout(l)
    \/ OpenLocks(l) \/ OpenTimeout(l) \/ OpenSaves(l) \/ OpenEnds(l)
-----------------------------------------------------------------------------
(* A decision, by d: decide_pending.                                       *)

\* The entry is found by its incident id, under the lock of the pending file; an id that
\* is not there is refused ("not-pending").
Found(entries, id) == {e \in ToSet(entries) : e.id = id}

DecideLoads(d) ==
    /\ pc[d] = "idle"
    /\ \E m \in sent, decision \in Decisions :
           LET found == Found(pending, m.id) IN
           /\ found # {} /\ LockPending(d)
           /\ asked' = [asked EXCEPT ![d] = found]
           /\ approvals' = IF decision = "approved"
                           THEN approvals \cup {e \in accepted : e.id = m.id /\ e \in ToSet(pending)}
                           ELSE approvals
           /\ GoTo(d, IF decision = "approved" THEN "approving" ELSE "rejecting")
    /\ UNCHANGED <<store, lock, clock, issued, mem, crashes, notifyVars, pending, socket, handling,
                   auto, window, proposers, accepted, reached, atOnce, decided>>

DecideTimeout(d) ==
    /\ Can("timeout") /\ pc[d] = "idle" /\ pendingLock \notin {None, d}
    /\ Dies(d) /\ IntakeDies(d)
    /\ UNCHANGED notifyVars

ApproveLocks(d) ==
    /\ pc[d] = "approving" /\ Acquire(d) /\ GoTo(d, "reaching")
    /\ UNCHANGED <<store, clock, issued, crashes, notifyVars, intakeVars>>

\* The store was locked for too long: nothing is decided.
ApproveTimeout(d) ==
    /\ pc[d] = "approving" /\ LockTimeout(d) /\ IntakeDies(d)
    /\ UNCHANGED notifyVars

\* The incident is saved into the store; what changed is sent when all is recorded.
ApproveSaves(d) ==
    /\ pc[d] = "reaching"
    /\ \E e \in asked[d] :
           /\ SaveStore(d, Opened(mem[d], e.id, e.node))
           /\ outgoing' = [outgoing EXCEPT ![d] = Changes(mem[d], Opened(mem[d], e.id, e.node))]
           /\ reached' = reached \cup {e}
    /\ Forget(d) /\ GoTo(d, "recording")
    /\ UNCHANGED <<clock, crashes, broker, brokerFlips, outbox, outboxLock, remaining, records,
                   pending, pendingLock, held, proposers, accepted, approvals, atOnce, decided>>

\* The entry leaves the pending ones, and the decision is recorded.
Recorded(d, decision) ==
    \E i \in DOMAIN loaded[d] :
        /\ loaded[d][i] \in asked[d]
        /\ SavePending(d, RemoveAt(loaded[d], i))
        /\ decided' = decided \cup {<<loaded[d][i], decision>>}

DecideSaves(d) ==
    /\ \/ pc[d] = "recording" /\ Recorded(d, "approved") /\ GoTo(d, "notifying")
       \/ pc[d] = "rejecting" /\ Recorded(d, "rejected") /\ GoTo(d, "idle")
    /\ asked' = [asked EXCEPT ![d] = {}]
    /\ UNCHANGED <<store, lock, clock, issued, mem, crashes, notifyVars, socket, handling, auto,
                   window, proposers, accepted, approvals, reached, atOnce>>

DecideEnds(d) ==
    /\ pc[d] = "notifying" /\ outgoing[d] = <<>> /\ GoTo(d, "idle")
    /\ UNCHANGED <<store, lock, clock, issued, mem, crashes, notifyVars, intakeVars>>

Decide(d) ==
    \/ DecideLoads(d) \/ DecideTimeout(d) \/ ApproveLocks(d) \/ ApproveTimeout(d)
    \/ ApproveSaves(d) \/ DecideSaves(d) \/ DecideEnds(d)
-----------------------------------------------------------------------------
IntakeTypeOK ==
    /\ pending \in Seq(Entries) /\ Len(pending) <= MaxPending
    /\ pendingLock \in Listeners \cup Deciders \cup {None}
    /\ loaded \in [Listeners \cup Deciders -> Seq(Entries)]
    /\ socket \in [Listeners -> Seq(Messages)]
    /\ handling \in [Listeners -> SUBSET Messages]
    /\ auto \in [Listeners -> BOOLEAN] /\ window \in [Listeners -> 0..MaxPerMinute]
    /\ asked \in [Deciders -> SUBSET Entries]
    /\ sent \subseteq Messages /\ sendings \in 0..MaxMessages
    /\ accepted \subseteq Entries /\ approvals \subseteq Entries /\ reached \subseteq Entries
    /\ atOnce \subseteq Nat
    /\ decided \subseteq Entries \X Decisions
=============================================================================
