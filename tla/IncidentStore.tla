---------------------------- MODULE IncidentStore ----------------------------
(***************************************************************************)
(* The incident store of incident_store.py: one JSON file with the         *)
(* incidents that are open and the newest of those that closed.  Several   *)
(* programs write it (the edge agent, the healing bridge, the proposal     *)
(* intake), each under the lock of _atomic.exclusive_lock as one load,     *)
(* reconcile, save; readers take no lock and see the file before or after  *)
(* a save, which replaces it at once (atomic_write_text).                  *)
(*                                                                         *)
(* This module has the operators on a store and the steps every writer     *)
(* takes; the writers' own modules extend it.                              *)
(***************************************************************************)
EXTENDS Naturals, FiniteSets, Sequences, FiniteSetsExt

CONSTANTS
    Procs,      \* the programs that use the store
    Names,      \* the names of components, raw or as stored
    Redact,     \* name -> the name once redact_secrets has been over it
    None,       \* no holder of the lock
    History,    \* MAX_RESOLVED_INCIDENTS
    MaxCount,   \* bound: occurrences are counted up to it
    MaxTime,    \* bound: the clock
    MaxCrashes, \* bound: programs killed or ended by an exception
    Faults      \* what may go wrong: see FaultKinds

\* crash: a program is killed; timeout: a lock is held for longer than its timeout.
FaultKinds == {"crash", "timeout"}

\* redact_secrets is idempotent ("applying it to an already-stored component changes
\* nothing", incident_key).
ASSUME RedactAssumption ==
    Redact \in [Names -> Names] /\ \A n \in Names : Redact[Redact[n]] = Redact[n]
ASSUME StoreAssumption ==
    /\ None \notin Procs /\ Faults \subseteq FaultKinds
    /\ History \in Nat \ {0} /\ MaxCount \in Nat \ {0} /\ MaxTime \in Nat
    /\ MaxCrashes \in Nat

\* TrackedIncident, open and resolved.  nth: its place in the stored list.
OpenRecords == [id : Nat, component : Names, count : 1..MaxCount]
ClosedRecords == [id : Nat, component : Names, at : 0..MaxTime, nth : Nat]
Stores == [open : SUBSET OpenRecords, closed : SUBSET ClosedRecords]
EmptyStore == [open |-> {}, closed |-> {}]

VARIABLES
    store,   \* the file
    lock,    \* who holds the lock of the file
    clock,   \* in the units of resolvedAt, seconds
    issued,  \* the newest incident id that is in use
    pc,      \* program -> where it is
    mem,     \* program -> the store as it loaded it
    crashes  \* how many programs were killed or gave up

storeVars == <<store, lock, clock, issued, pc, mem, crashes>>

StoreInit ==
    /\ store = EmptyStore /\ lock = None
    /\ clock = 0 /\ issued = 0
    /\ pc = [p \in Procs |-> "idle"]
    /\ mem = [p \in Procs |-> EmptyStore]
    /\ crashes = 0

Can(fault) == fault \in Faults
GoTo(p, where) == pc' = [pc EXCEPT ![p] = where]
-----------------------------------------------------------------------------
(* reconcile_incidents                                                     *)

\* incident_key: by the name as it is stored.
Key(name) == Redact[name]

OpenAs(s, name) == {r \in s.open : Key(r.component) = Key(name)}

Counted(n) == IF n < MaxCount THEN n + 1 ELSE n

\* Only the newest are kept, by the second they closed and then by their place.
Later(q, r) == q.at > r.at \/ (q.at = r.at /\ q.nth > r.nth)
Newest(closed) == {r \in closed : Cardinality({q \in closed : Later(q, r)}) < History}

\* They go behind those that are already there, the first opened first.
ClosedAt(closed, closing, t) ==
    LET last == Max({0} \cup {r.nth : r \in closed})
    IN  {[id |-> r.id, component |-> r.component, at |-> t,
          nth |-> last + Cardinality({q \in closing : q.id <= r.id})] : r \in closing}

\* `new' is the list of incidents observed, `checked' the components looked at.  An
\* open incident that was observed again is counted; one whose component was looked at
\* and is clean is closed; one that nobody looked at stays.  A component observed twice
\* is one incident, the first.
Reconcile(s, new, checked, t) ==
    LET seen == {Key(new[i].component) : i \in DOMAIN new}
        looked == {Key(c) : c \in checked}
        known == {Key(r.component) : r \in s.open}
        first == {new[i] : i \in {i \in DOMAIN new :
                      \A j \in 1..(i - 1) : Key(new[j].component) # Key(new[i].component)}}
        again == {r \in s.open : Key(r.component) \in seen}
        closing == {r \in s.open : Key(r.component) \in looked \ seen}
    IN  [open |-> ((s.open \ again) \ closing)
                  \cup {[r EXCEPT !.count = Counted(@)] : r \in again}
                  \cup {[id |-> n.id, component |-> Redact[n.component], count |-> 1] :
                            n \in {n \in first : Key(n.component) \notin known}},
         closed |-> Newest(s.closed \cup ClosedAt(s.closed, closing, t))]

\* A fresh identity for the i-th incident of a batch (uuid4).
Fresh(i) == issued + i
\* Identities that were made and not stored are never seen again.
Issue(s) == issued' = Max({issued} \cup {r.id : r \in s.open} \cup {r.id : r \in s.closed})
-----------------------------------------------------------------------------
(* The steps of a writer.                                                  *)

\* The lock, and load_incident_store.
Acquire_unlocked(p) ==
    /\ lock' = p
    /\ mem' = [mem EXCEPT ![p] = store]
Acquire(p) ==
    /\ lock = None /\ lock' = p
    /\ mem' = [mem EXCEPT ![p] = store]

\* save_incident_store, and the lock is released.
SaveStore(p, s) ==
    /\ store' = s /\ Issue(s)
    /\ lock' = IF lock = p THEN None ELSE lock

\* The program forgets what it had loaded.
Forget(p) == mem' = [mem EXCEPT ![p] = EmptyStore]

\* Killed, or ended by an exception: the lock goes with it.
Dies(p) ==
    /\ crashes < MaxCrashes /\ crashes' = crashes + 1
    /\ GoTo(p, "idle") /\ Forget(p)
    /\ lock' = IF lock = p THEN None ELSE lock
    /\ UNCHANGED <<store, clock, issued>>

\* exclusive_lock gives up after its timeout.
LockTimeout(p) == Can("timeout") /\ lock \notin {None, p} /\ Dies(p)

\* Time goes on.
TickStore ==
    /\ clock < MaxTime /\ clock' = clock + 1
    /\ UNCHANGED <<store, lock, issued, pc, mem, crashes>>

StoreTypeOK ==
    /\ store \in Stores
    /\ lock \in Procs \cup {None}
    /\ clock \in 0..MaxTime
    /\ issued \in Nat /\ crashes \in 0..MaxCrashes
    /\ mem \in [Procs -> Stores]
=============================================================================
