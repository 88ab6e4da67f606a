---------------------------- MODULE CanaryDeploy ----------------------------
(***************************************************************************)
(* The canary deploy of canary_deploy.py: how a staged, built candidate    *)
(* replaces the live checkout, and how it is put back.                     *)
(*                                                                         *)
(* A checkout directory has an identity that a rename does not change:     *)
(* `Original` is the checkout found at the live path at the beginning, and *)
(* d is the staging clone deploy d makes.  `at' is the file system (which  *)
(* directory is found under which path), `dir' what each directory holds.  *)
(* A deploy runs once and advances through `pc', one value for each place  *)
(* of _deploy_canary where another process, an operator or a crash can     *)
(* come in between.  No lock is held over the live path, so `Overlapping'  *)
(* names the commands that may start while another one is running; when it *)
(* is empty, commands are run one at a time.                               *)
(***************************************************************************)
EXTENDS Naturals, FiniteSets

CONSTANTS
    Deploys,      \* the deploys of this checkout, each one run at most once
    Original,     \* the checkout that is live at the beginning
    NoDir,        \* "there is no directory under this path"
    NoApproval,   \* the proposal is not approved
    AnyCommit,    \* approved with --any-commit
    KeepCommit,   \* the deploys run with --keep-local-commit
    ServiceUnit,  \* deploys name a service unit (--service-unit)
    HealthUrl,    \* deploys name a health URL (--health-url)
    HasJournal,   \* the SDK's promotion journal is installed
    NamedRollback,\* the operator may name the backup to roll back to
    Offered,      \* commands that are run
    Overlapping,  \* those of them that may start while another one is running
    Faults,       \* what may fail: see FaultKinds
    Environment,  \* what happens to the checkout from outside: see EnvKinds
    PruneKeep,    \* prune-backups --keep N
    MaxUp,        \* bound: upstream commits the updater brings
    MaxData       \* bound: versions of the local data

\* crash: a process is killed; io: a file operation raises OSError; build: the clone,
\* the diff or the build-test command fails; stop, start: systemctl fails; late_stop:
\* systemctl times out but the unit stops; health: the new checkout does not get
\* healthy; audit: the audit journal cannot be written.
FaultKinds == {"crash", "io", "build", "stop", "late_stop", "start", "health", "audit"}
EnvKinds == {"edit", "update", "write"}
Commands == {"deploy", "recover", "rollback", "prune", "clear"}
Ids == Deploys \cup {Original}

ASSUME OriginalAssumption == Original \notin Deploys /\ NoDir \notin Ids
ASSUME FlagsAssumption ==
    /\ ServiceUnit \in BOOLEAN /\ HealthUrl \in BOOLEAN
    /\ HasJournal \in BOOLEAN /\ NamedRollback \in BOOLEAN
ASSUME SetsAssumption ==
    /\ KeepCommit \subseteq Deploys
    /\ Offered \subseteq Commands
    /\ Overlapping \subseteq Commands
    /\ Faults \subseteq FaultKinds
    /\ Environment \subseteq EnvKinds
ASSUME BoundsAssumption == PruneKeep \in Nat /\ MaxUp \in Nat /\ MaxData \in Nat \ {0}

\* The paths next to each other in the projects root.
Live       == <<"live", Original>>
Staging(d) == <<"staging", d>>   \* .ops-agent-canary-<id>
Backup(d)  == <<"backup", d>>    \* <name>.backup-<id>
Failed(d)  == <<"failed", d>>    \* <name>.failed-<id>
Aside(d)   == <<"aside", d>>     \* <name>.rolledback-<id>, by a rollback to Backup(d)
Paths == {Live} \cup ({"staging", "backup", "failed", "aside"} \X Deploys)

\* A commit of the checkout: how far it follows upstream, and the canary
\* commits on top of that (--keep-local-commit).
Commits == [up : 0..MaxUp, kept : SUBSET Deploys]

\* commit: HEAD; pending: the marker of a canary without a local commit;
\* dirty: `git status' shows an edited tracked file; verified: the build-test
\* command passed here; data: version of the untracked local data (0: none);
\* mtime: the modification time of the directory itself.
Checkouts == [commit : Commits, pending : BOOLEAN, dirty : BOOLEAN,
              verified : BOOLEAN, data : 0..MaxData, mtime : Nat]

Running == {"authorised", "checked", "staged", "built", "stopped", "rechecked",
            "carried", "journalled", "swapped_out", "heal", "swapped_in", "started",
            "healthy", "unhealthy", "set_aside", "put_back", "raising", "raising_keep"}
Ended == {"refused", "build_failed", "promoted", "rolled_back", "escaped", "crashed"}

VARIABLES
    at,         \* path -> directory
    dir,        \* directory -> its contents
    pc,         \* deploy -> where it is
    approval,   \* deploy -> the commit its proposal is approved for
    service,    \* "running" or "stopped"
    stoppedBy,  \* the deploys whose service_stopped flag is set
    promoted,   \* the deploys whose stage_reached is "promoted"
    journal,    \* the promotions the journal holds as not completed
    audit,      \* deploy -> its last record in the audit journal
    rolling,    \* backups an operator's rollback is putting back
    pruned,     \* directories prune-backups removed
    clock       \* the time directories are stamped with

vars == <<at, dir, pc, approval, service, stoppedBy, promoted, journal, audit,
          rolling, pruned, clock>>
\* Groups of variables that actions leave alone together.
files    == <<at, dir, clock>>
promises == <<approval, rolling, pruned>>

-----------------------------------------------------------------------------
TypeOK ==
    /\ at \in [Paths -> Ids \cup {NoDir}]
    /\ dir \in [Ids -> Checkouts]
    /\ pc \in [Deploys -> {"idle"} \cup Running \cup Ended]
    /\ approval \in [Deploys -> Commits \cup {NoApproval, AnyCommit}]
    /\ service \in {"running", "stopped"}
    /\ stoppedBy \subseteq Deploys
    /\ promoted \subseteq Deploys
    /\ journal \subseteq Deploys
    /\ audit \in [Deploys -> {"none", "started", "refused", "finished"}]
    /\ rolling \subseteq Deploys
    /\ pruned \subseteq Ids
    /\ clock \in Nat

FirstCheckout == [commit |-> [up |-> 0, kept |-> {}], pending |-> FALSE, dirty |-> FALSE,
                  verified |-> TRUE, data |-> 1, mtime |-> 0]
NotCloned == [commit |-> [up |-> 0, kept |-> {}], pending |-> FALSE, dirty |-> FALSE,
              verified |-> FALSE, data |-> 0, mtime |-> 0]

Init ==
    /\ at = [p \in Paths |-> IF p = Live THEN Original ELSE NoDir]
    /\ dir = [i \in Ids |-> IF i = Original THEN FirstCheckout ELSE NotCloned]
    /\ pc = [d \in Deploys |-> "idle"]
    /\ approval = [d \in Deploys |-> NoApproval]
    /\ service = "running"
    /\ stoppedBy = {}
    /\ promoted = {}
    /\ journal = {}
    /\ audit = [d \in Deploys |-> "none"]
    /\ rolling = {}
    /\ pruned = {}
    /\ clock = 0

-----------------------------------------------------------------------------
Present(p) == at[p] # NoDir
LiveDir == dir[at[Live]]          \* used only where Present(Live)
Can(fault) == fault \in Faults

Busy == rolling # {} \/ \E d \in Deploys : pc[d] \in Running
MayRun(command) == command \in Offered /\ (command \in Overlapping \/ ~Busy)

\* os.rename of a directory: it fails when the source is not there or when the
\* target is (a checkout is never an empty directory).
CanRename_overwrites(from, to) == Present(from)
CanRename(from, to) == Present(from) /\ ~Present(to)
Renamed_copies(from, to) == [at EXCEPT ![to] = at[from]]
Renamed(from, to) == [at EXCEPT ![from] = NoDir, ![to] = at[from]]
RenameMayFail(from, to) == ~CanRename(from, to) \/ Can("io")

GoTo(d, place) == pc' = [pc EXCEPT ![d] = place]
WriteAudit(d, record) == audit' = [audit EXCEPT ![d] = record]
\* The record of an outcome is best effort.
TryAudit(d, record) == WriteAudit(d, record) \/ (Can("audit") /\ UNCHANGED audit)
\* _rmtree_best_effort(staging_path): a clone that cannot be removed stays.
StagingRemoved(d) == [at EXCEPT ![Staging(d)] = NoDir]
Discard(d) == at' = StagingRemoved(d) \/ (Can("io") /\ UNCHANGED at)
\* An OSError that nothing in _deploy_canary or deploy_canary catches: only the
\* `finally' runs, which keeps the clone of a deploy that reached "promoted".
Escape(d) ==
    /\ IF d \in promoted THEN UNCHANGED at ELSE Discard(d)
    /\ GoTo(d, "escaped")
\* The promotion journal is a file too: writing it may raise OSError.
JournalFails(d) == HasJournal /\ Can("io") /\ Escape(d)

-----------------------------------------------------------------------------
(* What happens to the checkout from outside.                              *)

\* The person who approves signs for the commit the checkout is on, or for any.
Approve(d) ==
    /\ pc[d] = "idle" /\ approval[d] = NoApproval
    /\ Present(Live)
    /\ \E c \in {LiveDir.commit, AnyCommit} : approval' = [approval EXCEPT ![d] = c]
    /\ UNCHANGED <<files, pc, service, stoppedBy, promoted, journal, audit, rolling, pruned>>

ChangeLive(contents) ==
    /\ dir' = [dir EXCEPT ![at[Live]] = contents]
    /\ UNCHANGED <<at, pc, service, stoppedBy, promoted, journal, audit, promises>>

\* A tracked file is edited in the live checkout, or the edit is committed
\* away, stashed or discarded.
Edit ==
    /\ "edit" \in Environment /\ Present(Live)
    /\ ChangeLive([LiveDir EXCEPT !.dirty = ~@])
    /\ UNCHANGED clock

\* HYDRA-UMC-UPDATER fast-forwards a clean checkout without a local commit; a
\* pending canary stays in place unless the update brings the same files.
Update ==
    /\ "update" \in Environment /\ Present(Live)
    /\ LiveDir.commit.kept = {} /\ ~LiveDir.dirty /\ LiveDir.commit.up < MaxUp
    /\ \E p \in {LiveDir.pending, FALSE} :
           ChangeLive([LiveDir EXCEPT !.commit.up = @ + 1, !.pending = p, !.mtime = clock + 1])
    /\ clock' = clock + 1

\* The service writes its own data inside the checkout it runs from.
ServiceWrite ==
    /\ "write" \in Environment /\ service = "running" /\ Present(Live)
    /\ LiveDir.data \in 1..(MaxData - 1)
    /\ ChangeLive([LiveDir EXCEPT !.data = @ + 1])
    /\ UNCHANGED clock

-----------------------------------------------------------------------------
(* A deploy, up to the swap.                                               *)

\* verify_signed_approval, for the commit the live checkout is on now.
ApprovalHolds_unchecked(d) == Present(Live)
ApprovalHolds_anycommit(d) == Present(Live) /\ approval[d] # NoApproval
ApprovalHolds(d) ==
    /\ Present(Live)
    /\ approval[d] # NoApproval /\ approval[d] \in {LiveDir.commit, AnyCommit}

\* Not approved, no live checkout, or approved for another commit: refused
\* before anything is written; otherwise the deploy goes on.
Authorise(d) ==
    /\ pc[d] = "idle" /\ MayRun("deploy")
    /\ GoTo(d, IF ApprovalHolds(d) THEN "authorised" ELSE "raising")
    /\ UNCHANGED <<files, service, stoppedBy, promoted, journal, audit, promises>>

\* pending_canary and _tracked_dirty_paths: no canary left uncommitted, no edited
\* tracked file (git cannot look at a checkout that is not there).
Clean == Present(Live) /\ ~LiveDir.pending /\ ~LiveDir.dirty

\* A checkout that is not clean, or an audit journal that cannot be written,
\* stops the deploy here.
CheckClean(d) ==
    /\ pc[d] = "authorised"
    /\ \/ Clean /\ GoTo(d, "checked") /\ WriteAudit(d, "started")
       \/ (~Clean \/ Can("audit")) /\ GoTo(d, "raising") /\ UNCHANGED audit
    /\ UNCHANGED <<files, service, stoppedBy, promoted, journal, promises>>

\* git clone copies what is committed, and nothing else, of whatever checkout is
\* live by now.
StageClone(d) ==
    /\ pc[d] = "checked"
    /\ \/ /\ Present(Live)
          /\ at' = [at EXCEPT ![Staging(d)] = d]
          /\ dir' = [dir EXCEPT ![d] = [NotCloned EXCEPT !.commit = LiveDir.commit]]
          /\ GoTo(d, "staged")
       \/ /\ Can("build") \/ ~Present(Live)
          /\ GoTo(d, "raising") /\ UNCHANGED <<at, dir>>
    /\ UNCHANGED <<clock, service, stoppedBy, promoted, journal, audit, promises>>

\* A clone that passed its build-test command: the local data is copied in, and the
\* change is kept as a commit, or taken back out of it as a pending canary.
BuiltCandidate(d) ==
    [commit   |-> [up |-> dir[d].commit.up, kept |-> dir[d].commit.kept \cup ({d} \cap KeepCommit)],
     pending  |-> d \notin KeepCommit,
     dirty    |-> FALSE,
     verified |-> TRUE,
     data     |-> LiveDir.data,
     mtime    |-> clock + 1]

\* The diff is applied, the local data copied in and the build-test command run.
Build(d) ==
    /\ pc[d] = "staged"
    /\ \/ /\ Present(Live)
          /\ dir' = [dir EXCEPT ![d] = BuiltCandidate(d)]
          /\ clock' = clock + 1
          /\ GoTo(d, "built")
          /\ UNCHANGED <<at, audit>>
       \/ \* the build-test command fails: a result, the clone is removed
          /\ Can("build") /\ Present(Live)
          /\ Discard(d)
          /\ GoTo(d, "build_failed") /\ TryAudit(d, "finished")
          /\ UNCHANGED <<dir, clock>>
       \/ \* the diff does not apply, or the live checkout cannot be read
          /\ Can("build") \/ ~Present(Live)
          /\ GoTo(d, "raising")
          /\ UNCHANGED <<at, dir, clock, audit>>
       \/ \* copying the local data raises OSError
          Can("io") /\ Escape(d) /\ UNCHANGED <<dir, clock, audit>>
    /\ UNCHANGED <<service, stoppedBy, promoted, journal, promises>>

\* systemctl stop.  A stop that times out is reported as failed ("nothing was
\* changed") although systemd carries it out.
StopService(d) ==
    /\ ServiceUnit /\ pc[d] = "built"
    /\ \/ /\ service' = "stopped" /\ stoppedBy' = stoppedBy \cup {d}
          /\ GoTo(d, "stopped")
       \/ /\ \/ Can("stop") /\ UNCHANGED service
             \/ Can("late_stop") /\ service' = "stopped"
          /\ GoTo(d, "raising") /\ UNCHANGED stoppedBy
    /\ UNCHANGED <<files, promoted, journal, audit, promises>>

\* The second look at the live checkout: only edited tracked files stop it now.
Recheck(d) ==
    /\ pc[d] = IF ServiceUnit THEN "stopped" ELSE "built"
    /\ GoTo(d, IF Present(Live) /\ ~LiveDir.dirty THEN "rechecked" ELSE "raising")
    /\ UNCHANGED <<files, service, stoppedBy, promoted, journal, audit, promises>>

\* _carry_over_local_data
Refreshed_not(d) == dir
Refreshed(d) == [dir EXCEPT ![d].data = LiveDir.data]

\* The local data is copied once more.
CarryOver(d) ==
    /\ pc[d] = "rechecked"
    /\ \/ /\ Present(Live)
          /\ dir' = Refreshed(d)
          /\ GoTo(d, "carried") /\ UNCHANGED at
       \/ ~Present(Live) /\ GoTo(d, "raising") /\ UNCHANGED <<at, dir>>
       \/ Can("io") /\ Escape(d) /\ UNCHANGED dir
    /\ UNCHANGED <<clock, service, stoppedBy, promoted, journal, audit, promises>>

-----------------------------------------------------------------------------
(* The swap.                                                               *)

\* journal.complete, and on to `place'; a journal that cannot be written keeps the
\* promotion open, and nothing catches its OSError.
Closed(d, place) ==
    \/ journal' = journal \ {d} /\ GoTo(d, place)
    \/ HasJournal /\ Can("io") /\ GoTo(d, "escaped") /\ UNCHANGED journal

JournalBegin_forgets(d) ==
    /\ HasJournal /\ pc[d] = "carried"
    /\ GoTo(d, "journalled")
    /\ UNCHANGED <<files, service, stoppedBy, promoted, journal, audit, promises>>
JournalBegin(d) ==
    /\ HasJournal /\ pc[d] = "carried"
    /\ \/ journal' = journal \cup {d} /\ GoTo(d, "journalled") /\ UNCHANGED at
       \/ JournalFails(d) /\ UNCHANGED journal
    /\ UNCHANGED <<dir, clock, service, stoppedBy, promoted, audit, promises>>

\* live_root.rename(backup_path)
SwapOut(d) ==
    /\ pc[d] = IF HasJournal THEN "journalled" ELSE "carried"
    /\ \/ /\ CanRename(Live, Backup(d))
          /\ at' = Renamed(Live, Backup(d))
          /\ GoTo(d, "swapped_out")
       \/ RenameMayFail(Live, Backup(d)) /\ Escape(d)
    /\ UNCHANGED <<dir, clock, service, stoppedBy, promoted, journal, audit, promises>>

\* The journal is told that the backup is there, and staging_path.rename(live_root).
SwapIn(d) ==
    /\ pc[d] = "swapped_out"
    /\ \/ /\ CanRename(Staging(d), Live)
          /\ at' = Renamed(Staging(d), Live)
          /\ promoted' = promoted \cup {d}
          /\ GoTo(d, "swapped_in")
       \/ /\ RenameMayFail(Staging(d), Live)
          /\ GoTo(d, "heal") /\ UNCHANGED <<at, promoted>>
       \/ JournalFails(d) /\ UNCHANGED promoted
    /\ UNCHANGED <<dir, clock, service, stoppedBy, journal, audit, promises>>

\* The second rename failed: the previous checkout goes back, the candidate is
\* kept for inspection.  If that fails too the promotion stays in the journal.
SelfHeal_closes(d) ==
    /\ pc[d] = "heal"
    /\ GoTo(d, "raising_keep")
    /\ journal' = journal \ {d}
    /\ \/ CanRename(Backup(d), Live) /\ at' = Renamed(Backup(d), Live)
       \/ RenameMayFail(Backup(d), Live) /\ UNCHANGED at
    /\ UNCHANGED <<dir, clock, service, stoppedBy, promoted, audit, promises>>
SelfHeal(d) ==
    /\ pc[d] = "heal"
    /\ \/ /\ CanRename(Backup(d), Live)
          /\ at' = Renamed(Backup(d), Live)
          /\ Closed(d, "raising_keep")
       \/ /\ RenameMayFail(Backup(d), Live)
          /\ GoTo(d, "raising_keep") /\ UNCHANGED <<at, journal>>
    /\ UNCHANGED <<dir, clock, service, stoppedBy, promoted, audit, promises>>

-----------------------------------------------------------------------------
(* After the swap.                                                         *)

\* The journal is told that the candidate is live, and systemctl start; service_stopped
\* is cleared whether that worked or not.
StartService(d) ==
    /\ ServiceUnit /\ pc[d] = "swapped_in"
    /\ \/ /\ stoppedBy' = stoppedBy \ {d}
          /\ \/ service' = "running" /\ GoTo(d, "started")
             \/ Can("start") /\ UNCHANGED service /\ GoTo(d, "unhealthy")
          /\ UNCHANGED at
       \/ JournalFails(d) /\ UNCHANGED <<service, stoppedBy>>
    /\ UNCHANGED <<dir, clock, promoted, journal, audit, promises>>

\* _wait_until_healthy: without a unit and a URL there is nothing to wait for.
AwaitHealth(d) ==
    /\ pc[d] = IF ServiceUnit THEN "started" ELSE "swapped_in"
    /\ \/ GoTo(d, "healthy") /\ UNCHANGED at
       \/ Can("health") /\ (ServiceUnit \/ HealthUrl) /\ GoTo(d, "unhealthy") /\ UNCHANGED at
       \/ pc[d] = "swapped_in" /\ JournalFails(d)
    /\ UNCHANGED <<dir, clock, service, stoppedBy, promoted, journal, audit, promises>>

Finish(d) ==
    /\ pc[d] = "healthy"
    /\ \/ journal' = journal \ {d} /\ GoTo(d, "promoted") /\ TryAudit(d, "finished")
       \/ HasJournal /\ Can("io") /\ GoTo(d, "escaped") /\ UNCHANGED <<journal, audit>>
    /\ UNCHANGED <<files, service, stoppedBy, promoted, promises>>

\* The automatic rollback: whatever is live now is set aside as failed ...
SetAside(d) ==
    /\ pc[d] = "unhealthy"
    /\ \/ /\ CanRename(Live, Failed(d))
          /\ at' = Renamed(Live, Failed(d))
          /\ GoTo(d, "set_aside")
       \/ RenameMayFail(Live, Failed(d)) /\ Escape(d)
    /\ UNCHANGED <<dir, clock, service, stoppedBy, promoted, journal, audit, promises>>

\* ... and the backup goes back to the live path,
PutBack(d) ==
    /\ pc[d] = "set_aside"
    /\ \/ /\ CanRename(Backup(d), Live)
          /\ at' = Renamed(Backup(d), Live)
          /\ Closed(d, "put_back")
       \/ RenameMayFail(Backup(d), Live) /\ Escape(d) /\ UNCHANGED journal
    /\ UNCHANGED <<dir, clock, service, stoppedBy, promoted, audit, promises>>

\* then the service is started again, with no look at the result.
ReportRolledBack(d) ==
    /\ pc[d] = "put_back"
    /\ \/ service' = IF ServiceUnit THEN "running" ELSE service
       \/ Can("start") /\ ServiceUnit /\ UNCHANGED service
    /\ GoTo(d, "rolled_back") /\ TryAudit(d, "finished")
    /\ UNCHANGED <<files, stoppedBy, promoted, journal, promises>>

\* systemctl start of a service this deploy has stopped
Restarted_not(d) == service
Restarted(d) == IF d \in stoppedBy THEN "running" ELSE service

\* except CanaryDeployError: a service this deploy stopped is started, the
\* clone removed (unless it is kept for inspection), the refusal recorded.
Unwind(d) ==
    /\ pc[d] \in {"raising", "raising_keep"}
    /\ \/ service' = Restarted(d)
       \/ Can("start") /\ d \in stoppedBy /\ UNCHANGED service
    /\ stoppedBy' = stoppedBy \ {d}
    /\ IF pc[d] = "raising" THEN Discard(d) ELSE UNCHANGED at
    /\ GoTo(d, "refused") /\ TryAudit(d, "refused")
    /\ UNCHANGED <<dir, clock, promoted, journal, promises>>

\* The process is killed; nothing is cleaned up.
Crash(d) ==
    /\ Can("crash") /\ pc[d] \in Running
    /\ GoTo(d, "crashed")
    /\ UNCHANGED <<files, service, stoppedBy, promoted, journal, audit, promises>>

-----------------------------------------------------------------------------
(* The operator's commands.                                                *)

Backups == {d \in Deploys : Present(Backup(d))}
Newer(b, d) == dir[at[Backup(b)]].mtime > dir[at[Backup(d)]].mtime
\* list_backups()[0]: the order is that of the directories' modification times.
NewestBackups_oldest == {d \in Backups : \A b \in Backups : ~Newer(d, b)}
NewestBackups == {d \in Backups : \A b \in Backups : ~Newer(b, d)}

\* control recover, which deploy-canary also does first: a promotion whose live
\* path is missing gets its backup back, and every promotion is closed.
Recover(d) ==
    /\ MayRun("recover") /\ d \in journal
    /\ journal' = journal \ {d}
    /\ at' = IF CanRename(Backup(d), Live) THEN Renamed(Backup(d), Live) ELSE at
    /\ UNCHANGED <<dir, clock, pc, service, stoppedBy, promoted, audit, promises>>

\* control rollback, first rename: the live checkout, if there is one, is set
\* aside.  (The model gives each backup one set-aside path.)
RollbackAside(d) ==
    /\ MayRun("rollback") /\ d \notin rolling
    /\ d \in IF NamedRollback THEN Backups ELSE NewestBackups
    /\ ~Present(Aside(d))
    /\ at' = IF Present(Live) THEN Renamed(Live, Aside(d)) ELSE at
    /\ rolling' = rolling \cup {d}
    /\ UNCHANGED <<dir, clock, pc, approval, service, stoppedBy, promoted, journal, audit, pruned>>

\* Second rename: it may fail, and then nothing puts the live checkout back; a
\* command killed in between leaves the same files.
RollbackPut(d) ==
    /\ d \in rolling
    /\ rolling' = rolling \ {d}
    /\ \/ CanRename(Backup(d), Live) /\ at' = Renamed(Backup(d), Live)
       \/ (RenameMayFail(Backup(d), Live) \/ Can("crash")) /\ UNCHANGED at
    /\ UNCHANGED <<dir, clock, pc, approval, service, stoppedBy, promoted, journal, audit, pruned>>

\* list_backups()[keep:]
OldBackups_onemore == {d \in Backups : Cardinality({b \in Backups : Newer(b, d)}) >= PruneKeep - 1}
OldBackups == {d \in Backups : Cardinality({b \in Backups : Newer(b, d)}) >= PruneKeep}

\* control prune-backups: all but the newest PruneKeep backups are removed, those
\* that can be, and until the command is killed.
Prune ==
    /\ MayRun("prune")
    /\ \E old \in (SUBSET OldBackups) \ {{}} :
           /\ old = OldBackups \/ Can("io") \/ Can("crash")
           /\ at' = [p \in Paths |-> IF \E d \in old : p = Backup(d) THEN NoDir ELSE at[p]]
           /\ pruned' = pruned \cup {at[Backup(d)] : d \in old}
    /\ UNCHANGED <<dir, clock, pc, approval, service, stoppedBy, promoted, journal, audit, rolling>>

\* control canary-clear: the pending change is taken out of the live checkout.
ClearPending ==
    /\ MayRun("clear") /\ Present(Live) /\ LiveDir.pending
    /\ ChangeLive([LiveDir EXCEPT !.pending = FALSE])
    /\ UNCHANGED clock

-----------------------------------------------------------------------------
Step(d) ==
    \/ Authorise(d) \/ CheckClean(d) \/ StageClone(d) \/ Build(d) \/ StopService(d)
    \/ Recheck(d) \/ CarryOver(d) \/ JournalBegin(d) \/ SwapOut(d) \/ SwapIn(d)
    \/ SelfHeal(d) \/ StartService(d) \/ AwaitHealth(d) \/ Finish(d) \/ SetAside(d)
    \/ PutBack(d) \/ ReportRolledBack(d) \/ Unwind(d)

Outside == Edit \/ Update \/ ServiceWrite
Operator == Prune \/ ClearPending \/ \E d \in Deploys :
                Approve(d) \/ Recover(d) \/ RollbackAside(d) \/ RollbackPut(d)

Next == Outside \/ Operator \/ \E d \in Deploys : Step(d) \/ Crash(d)

Spec == Init /\ [][Next]_vars

\* A process that runs goes on: every subprocess it waits for has a timeout.
\* The operator runs the recovery after a failed promotion.
Fairness == \A d \in Deploys :
    /\ WF_vars(pc[d] # "idle" /\ Step(d))
    /\ WF_vars(Recover(d))
    /\ WF_vars(RollbackPut(d))
FairSpec == Spec /\ Fairness

-----------------------------------------------------------------------------
(* Correctness.                                                            *)

\* A checkout is under one path at most: no sequence of renames by deploys,
\* rollbacks and recoveries leaves two paths naming the same directory.
OnePlace == \A p, q \in Paths : Present(p) /\ at[p] = at[q] => p = q

\* "Nothing is deleted": a checkout that has ever been live is still somewhere
\* under the projects root, unless prune-backups was asked to remove it.
NothingLost ==
    \A i \in {Original} \cup promoted : i \in pruned \/ \E p \in Paths : at[p] = i

\* Whatever has left its staging path is a candidate that its own build-test
\* command passed, of a proposal that was approved.
OnlyVerified ==
    \A d \in Deploys : \A p \in Paths \ {Staging(d)} :
        at[p] = d => dir[d].verified /\ approval[d] # NoApproval

\* A service that is down is down because a deploy that stopped it is still
\* running, or was killed or escaped by an uncaught OSError before starting it:
\* no deploy that ends with a result or a refusal leaves the service stopped.
ServiceOwed ==
    service = "stopped" => \E d \in stoppedBy : pc[d] \in Running \cup {"crashed", "escaped"}

\* While the live path is missing, the journal holds a promotion whose backup is
\* there, so that `control recover' can put it back (one command at a time, no
\* manual rollback).
Recoverable == ~Present(Live) => \E d \in journal : Present(Backup(d))

\* From the first rename until the health check has decided, the backup the
\* automatic rollback needs is there, whatever prune-backups does meanwhile.
BackupForRollback ==
    \A d \in Deploys : pc[d] \in {"swapped_out", "heal", "swapped_in", "started", "unhealthy", "set_aside"}
        => Present(Backup(d))

\* The backup that rollback takes by default is the one the checkout that is
\* live now replaced: rollback undoes the last promotion.
DefaultRollbackUndoesLast ==
    at[Live] \in Deploys /\ Present(Backup(at[Live])) => NewestBackups = {at[Live]}

\* The staging clone of d becomes the live checkout.
Promotes(d) == at[Live] = NoDir /\ at'[Live] = d /\ at[Staging(d)] = d

\* With a service unit, a promoted checkout holds all the local data of the one it
\* replaced, however late the service wrote it.
PromotionKeepsData ==
    [][\A d \in Deploys : Promotes(d) /\ Present(Backup(d))
           => dir[d].data = dir[at[Backup(d)]].data]_vars

\* A change is promoted only onto the commit its approval was given for.
PromotedOnApprovedCommit ==
    [][\A d \in Deploys : Promotes(d) /\ Present(Backup(d))
           => approval[d] \in {dir[at[Backup(d)]].commit, AnyCommit}]_vars

\* A missing live checkout comes back.
LiveComesBack == ~Present(Live) ~> Present(Live)

\* The abstract view: which checkout is live, which ones that have been live are
\* kept beside it, which staging clones passed their build.
LC == INSTANCE LiveCheckout WITH
    Checkouts  <- Ids,
    First      <- Original,
    None       <- NoDir,
    live       <- at[Live],
    kept       <- {at[p] : p \in {"backup", "failed", "aside"} \X Deploys} \ {NoDir},
    candidates <- {d \in Deploys : at[Staging(d)] = d /\ dir[d].verified}

\* Any number of overlapping deploys, rollbacks, recoveries, prunes and crashes
\* keep the promise of LiveCheckout.
KeepsLiveCheckoutPromise == LC!Spec
=============================================================================
