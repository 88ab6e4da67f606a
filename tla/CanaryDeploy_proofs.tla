------------------------ MODULE CanaryDeploy_proofs ------------------------
(* Theorems about CanaryDeploy, for every set of deploys, every choice of  *)
(* options and every combination of faults and overlapping commands.       *)
EXTENDS CanaryDeploy, FiniteSetTheorems, TLAPS

-----------------------------------------------------------------------------
(* Facts about the file system operators.                                  *)

\* The paths a deploy uses are different paths of the file system.
LEMMA PathFacts ==
    /\ Live \in Paths
    /\ \A d \in Deploys : /\ Staging(d) \in Paths /\ Backup(d) \in Paths
                          /\ Failed(d) \in Paths /\ Aside(d) \in Paths
    /\ \A d \in Deploys : /\ Live # Staging(d) /\ Live # Backup(d)
                          /\ Live # Failed(d) /\ Live # Aside(d)
BY DEF Live, Paths, Staging, Backup, Failed, Aside

\* A rename between two paths leaves the file system a file system.
LEMMA RenamedType ==
    ASSUME at \in [Paths -> Ids \cup {NoDir}],
           NEW from \in Paths, NEW to \in Paths
    PROVE  Renamed(from, to) \in [Paths -> Ids \cup {NoDir}]
BY DEF Renamed

LEMMA RemovedType ==
    ASSUME at \in [Paths -> Ids \cup {NoDir}], NEW d \in Deploys, Discard(d)
    PROVE  at' \in [Paths -> Ids \cup {NoDir}]
BY DEF Discard, StagingRemoved

\* Where there is a live checkout, its contents are those of a checkout.
LEMMA LiveDirType ==
    ASSUME TypeOK, Present(Live)
    PROVE  at[Live] \in Ids /\ LiveDir \in Checkouts
BY PathFacts DEF TypeOK, Present, LiveDir

-----------------------------------------------------------------------------
(* Type correctness.                                                       *)

\* A deploy only goes to places of the type.
LEMMA PlaceType ==
    ASSUME pc \in [Deploys -> {"idle"} \cup Running \cup Ended],
           NEW d \in Deploys, NEW place \in Running \cup Ended, GoTo(d, place)
    PROVE  pc' \in [Deploys -> {"idle"} \cup Running \cup Ended]
BY DEF GoTo

LEMMA AuditType ==
    ASSUME audit \in [Deploys -> {"none", "started", "refused", "finished"}],
           NEW d \in Deploys, NEW record \in {"started", "refused", "finished"},
           WriteAudit(d, record) \/ TryAudit(d, record)
    PROVE  audit' \in [Deploys -> {"none", "started", "refused", "finished"}]
BY DEF WriteAudit, TryAudit

LEMMA Places ==
    /\ Running = {"authorised", "checked", "staged", "built", "stopped", "rechecked",
                  "carried", "journalled", "swapped_out", "heal", "swapped_in", "started",
                  "healthy", "unhealthy", "set_aside", "put_back", "raising", "raising_keep"}
    /\ Ended = {"refused", "build_failed", "promoted", "rolled_back", "escaped", "crashed"}
BY DEF Running, Ended

LEMMA EscapeType ==
    ASSUME TypeOK, NEW d \in Deploys, Escape(d)
    PROVE  /\ at' \in [Paths -> Ids \cup {NoDir}]
           /\ pc' \in [Deploys -> {"idle"} \cup Running \cup Ended]
<1>1. at' \in [Paths -> Ids \cup {NoDir}]
  BY RemovedType DEF Escape, TypeOK
<1>2. GoTo(d, "escaped") /\ "escaped" \in Running \cup Ended
  BY Places DEF Escape
<1> QED BY <1>1, <1>2, PlaceType DEF TypeOK

LEMMA CheckoutTypes == FirstCheckout \in Checkouts /\ NotCloned \in Checkouts
BY BoundsAssumption DEF FirstCheckout, NotCloned, Checkouts, Commits

LEMMA InitType == Init => TypeOK
BY CheckoutTypes, PathFacts DEF Init, TypeOK, Ids

\* Every step of a deploy keeps the types.
LEMMA StepType ==
    ASSUME TypeOK, NEW d \in Deploys, Step(d)
    PROVE  TypeOK'
<1> USE PlaceType, AuditType, Places DEF TypeOK, files, promises
<1>1. CASE Authorise(d)
  BY <1>1 DEF Authorise
<1>2. CASE CheckClean(d)
  BY <1>2 DEF CheckClean
<1>3. CASE StageClone(d)
  <2>1. CASE Present(Live)
    <3>1. LiveDir.commit \in Commits
      BY <2>1, LiveDirType DEF Checkouts
    <3>2. [NotCloned EXCEPT !.commit = LiveDir.commit] \in Checkouts
      BY <3>1, CheckoutTypes DEF Checkouts
    <3> QED BY <1>3, <2>1, <3>2, PathFacts DEF StageClone, Ids
  <2>2. CASE ~Present(Live)
    BY <1>3, <2>2 DEF StageClone
  <2> QED BY <2>1, <2>2
<1>4. CASE Build(d)
  <2>1. Present(Live) => [dir EXCEPT ![d] = BuiltCandidate(d)] \in [Ids -> Checkouts]
    <3>1. dir[d] \in Checkouts /\ (Present(Live) => LiveDir.data \in 0..MaxData)
      BY LiveDirType DEF Checkouts, Ids
    <3>2. Present(Live) => BuiltCandidate(d) \in Checkouts
      BY <3>1 DEF BuiltCandidate, Checkouts, Commits
    <3> QED BY <3>2
  <2> QED BY <1>4, <2>1, RemovedType, EscapeType DEF Build
<1>5. CASE StopService(d)
  BY <1>5 DEF StopService
<1>6. CASE Recheck(d)
  BY <1>6 DEF Recheck
<1>7. CASE CarryOver(d)
  <2>1. Present(Live) => Refreshed(d) \in [Ids -> Checkouts]
    BY LiveDirType DEF Refreshed, Checkouts, Ids
  <2> QED BY <1>7, <2>1, EscapeType DEF CarryOver
<1>8. CASE JournalBegin(d)
  BY <1>8, EscapeType DEF JournalBegin, JournalFails
<1>9. CASE SwapOut(d)
  BY <1>9, PathFacts, RenamedType, EscapeType DEF SwapOut
<1>10. CASE SwapIn(d)
  <2>1. CASE CanRename(Staging(d), Live) /\ at' = Renamed(Staging(d), Live) /\ GoTo(d, "swapped_in")
    <3>1. at' \in [Paths -> Ids \cup {NoDir}] BY <2>1, PathFacts, RenamedType
    <3> QED BY <1>10, <2>1, <3>1 DEF SwapIn
  <2>2. CASE UNCHANGED <<at, promoted>> /\ GoTo(d, "heal")
    BY <1>10, <2>2 DEF SwapIn
  <2>3. CASE JournalFails(d) /\ UNCHANGED promoted
    BY <1>10, <2>3, EscapeType DEF SwapIn, JournalFails
  <2> QED BY <1>10, <2>1, <2>2, <2>3 DEF SwapIn
<1>11. CASE SelfHeal(d)
  <2>1. at' \in [Paths -> Ids \cup {NoDir}]
    BY <1>11, PathFacts, RenamedType DEF SelfHeal
  <2>2. pc' \in [Deploys -> {"idle"} \cup Running \cup Ended] /\ journal' \subseteq Deploys
    BY <1>11 DEF SelfHeal, Closed
  <2> QED BY <1>11, <2>1, <2>2 DEF SelfHeal
<1>12. CASE StartService(d)
  BY <1>12, EscapeType DEF StartService, JournalFails
<1>13. CASE AwaitHealth(d)
  BY <1>13, EscapeType DEF AwaitHealth, JournalFails
<1>14. CASE Finish(d)
  BY <1>14 DEF Finish
<1>15. CASE SetAside(d)
  BY <1>15, PathFacts, RenamedType, EscapeType DEF SetAside
<1>16. CASE PutBack(d)
  <2>1. at' \in [Paths -> Ids \cup {NoDir}]
    BY <1>16, PathFacts, RenamedType, EscapeType DEF PutBack
  <2>2. pc' \in [Deploys -> {"idle"} \cup Running \cup Ended] /\ journal' \subseteq Deploys
    BY <1>16, EscapeType DEF PutBack, Closed
  <2> QED BY <1>16, <2>1, <2>2 DEF PutBack
<1>17. CASE ReportRolledBack(d)
  BY <1>17 DEF ReportRolledBack
<1>18. CASE Unwind(d)
  BY <1>18, RemovedType DEF Unwind, Restarted
<1> QED
  BY <1>1, <1>2, <1>3, <1>4, <1>5, <1>6, <1>7, <1>8, <1>9, <1>10, <1>11, <1>12,
     <1>13, <1>14, <1>15, <1>16, <1>17, <1>18 DEF Step

\* What an outside change writes into the live checkout is a checkout.
LEMMA ChangeLiveType ==
    ASSUME TypeOK, Present(Live), NEW contents \in Checkouts, ChangeLive(contents),
           clock' \in Nat
    PROVE  TypeOK'
BY LiveDirType DEF ChangeLive, TypeOK, promises

LEMMA OutsideType ==
    ASSUME TypeOK, Outside
    PROVE  TypeOK'
<1>0. ASSUME Present(Live) PROVE LiveDir \in Checkouts
  BY <1>0, LiveDirType
<1>1. CASE Edit
  <2>1. [LiveDir EXCEPT !.dirty = ~@] \in Checkouts
    BY <1>0, <1>1 DEF Edit, Checkouts
  <2> QED BY <1>1, <2>1, ChangeLiveType DEF Edit, TypeOK
<1>2. CASE Update
  <2>1. PICK p \in {LiveDir.pending, FALSE} :
          ChangeLive([LiveDir EXCEPT !.commit.up = @ + 1, !.pending = p, !.mtime = clock + 1])
    BY <1>2 DEF Update
  <2>2. clock + 1 \in Nat /\ clock' = clock + 1
    BY <1>2 DEF Update, TypeOK
  <2>3. LiveDir.commit \in Commits /\ LiveDir.commit.up + 1 \in 0..MaxUp
    BY <1>0, <1>2, BoundsAssumption DEF Update, Checkouts, Commits
  <2>4. p \in BOOLEAN
    BY <1>0, <1>2 DEF Update, Checkouts
  <2>5. [LiveDir EXCEPT !.commit.up = @ + 1, !.pending = p, !.mtime = clock + 1] \in Checkouts
    BY <1>0, <1>2, <2>2, <2>3, <2>4 DEF Update, Checkouts, Commits
  <2> QED BY <1>2, <2>1, <2>2, <2>5, ChangeLiveType DEF Update
<1>3. CASE ServiceWrite
  <2>1. [LiveDir EXCEPT !.data = @ + 1] \in Checkouts
    BY <1>0, <1>3, BoundsAssumption DEF ServiceWrite, Checkouts
  <2> QED BY <1>3, <2>1, ChangeLiveType DEF ServiceWrite, TypeOK
<1> QED BY <1>1, <1>2, <1>3 DEF Outside

LEMMA OperatorType ==
    ASSUME TypeOK, Operator
    PROVE  TypeOK'
<1>1. CASE Prune
  <2>1. PICK old \in SUBSET OldBackups :
          /\ at' = [p \in Paths |-> IF \E d \in old : p = Backup(d) THEN NoDir ELSE at[p]]
          /\ pruned' = pruned \cup {at[Backup(d)] : d \in old}
    BY <1>1 DEF Prune
  <2>2. \A d \in old : d \in Deploys /\ at[Backup(d)] # NoDir
    BY DEF OldBackups, Backups, Present
  <2>3. \A d \in old : at[Backup(d)] \in Ids
    BY <2>2, PathFacts DEF TypeOK
  <2> QED BY <1>1, <2>1, <2>3 DEF Prune, TypeOK
<1>2. CASE ClearPending
  <2>1. [LiveDir EXCEPT !.pending = FALSE] \in Checkouts
    BY <1>2, LiveDirType DEF ClearPending, Checkouts
  <2> QED BY <1>2, <2>1, ChangeLiveType DEF ClearPending, TypeOK
<1>3. ASSUME NEW d \in Deploys, Approve(d) PROVE TypeOK'
  <2>1. LiveDir.commit \in Commits
    BY <1>3, LiveDirType DEF Approve, Checkouts
  <2> QED BY <1>3, <2>1 DEF Approve, TypeOK, files
<1>4. ASSUME NEW d \in Deploys, Recover(d) PROVE TypeOK'
  BY <1>4, PathFacts, RenamedType DEF Recover, TypeOK, promises
<1>5. ASSUME NEW d \in Deploys, RollbackAside(d) PROVE TypeOK'
  BY <1>5, PathFacts, RenamedType DEF RollbackAside, TypeOK
<1>6. ASSUME NEW d \in Deploys, RollbackPut(d) PROVE TypeOK'
  BY <1>6, PathFacts, RenamedType DEF RollbackPut, TypeOK
<1> QED BY <1>1, <1>2, <1>3, <1>4, <1>5, <1>6 DEF Operator

LEMMA NextType == TypeOK /\ [Next]_vars => TypeOK'
<1> SUFFICES ASSUME TypeOK, [Next]_vars PROVE TypeOK'
  OBVIOUS
<1>1. CASE Outside
  BY <1>1, OutsideType
<1>2. CASE Operator
  BY <1>2, OperatorType
<1>3. ASSUME NEW d \in Deploys, Step(d) PROVE TypeOK'
  BY <1>3, StepType
<1>4. ASSUME NEW d \in Deploys, Crash(d) PROVE TypeOK'
  BY <1>4, PlaceType, Places DEF Crash, TypeOK, files, promises
<1>5. CASE UNCHANGED vars
  BY <1>5 DEF vars, TypeOK
<1> QED BY <1>1, <1>2, <1>3, <1>4, <1>5 DEF Next

\* Every reachable state of any instance has the declared types.
THEOREM TypeCorrect == Spec => []TypeOK
<1>1. Init => TypeOK
  BY InitType
<1>2. TypeOK /\ [Next]_vars => TypeOK'
  BY NextType
<1> QED BY <1>1, <1>2, PTL DEF Spec

-----------------------------------------------------------------------------
(* The inductive invariant behind the safety theorems.                     *)

NotClonedYet == {"idle", "authorised", "checked"}
NotBuiltYet  == {"authorised", "checked", "staged"}
NotSwappedYet == {"built", "stopped", "rechecked", "carried", "journalled", "swapped_out"}

\* A staging path holds the clone of its own deploy, until that is promoted.
StagingOwn ==
    \A d \in Deploys : /\ at[Staging(d)] \in {d, NoDir}
                       /\ d \in promoted => at[Staging(d)] = NoDir

\* A candidate found anywhere else has been promoted.
OutsideStaging ==
    \A d \in Deploys : \A p \in Paths \ {Staging(d)} : at[p] = d => d \in promoted

\* The clone of a deploy that has not made it is nowhere.
Fresh ==
    \A d \in Deploys : pc[d] \in NotClonedYet
        => d \notin promoted /\ \A p \in Paths : at[p] # d

\* What a deploy has behind it when it is at a place, or has promoted.
Progress ==
    \A d \in Deploys :
        /\ pc[d] \in NotBuiltYet \cup NotSwappedYet \/ d \in promoted => approval[d] # NoApproval
        /\ pc[d] \in NotSwappedYet \/ d \in promoted => dir[d].verified

Files == OnePlace /\ StagingOwn /\ NothingLost /\ OutsideStaging

IInv == TypeOK /\ Files /\ Fresh /\ Progress

\* The paths of different deploys, and of different kinds, are different.
LEMMA PathsApart ==
    \A d, e \in Deploys :
        /\ Live # Staging(d)
        /\ Staging(d) # Backup(e) /\ Staging(d) # Failed(e) /\ Staging(d) # Aside(e)
        /\ Live # Backup(e) /\ Live # Failed(e) /\ Live # Aside(e)
        /\ Staging(d) = Staging(e) => d = e
        /\ Backup(d) # Failed(e) /\ Backup(d) # Aside(e)
        /\ Backup(d) = Backup(e) => d = e
BY DEF Live, Staging, Backup, Failed, Aside

\* Renaming a checkout to a free path, neither of them a staging path, keeps
\* every directory in one place and loses none.
LEMMA RenameKeepsFiles ==
    ASSUME TypeOK, Files,
           NEW from \in Paths, NEW to \in Paths,
           \A d \in Deploys : from # Staging(d) /\ to # Staging(d),
           CanRename(from, to), at' = Renamed(from, to),
           promoted' = promoted, pruned' = pruned
    PROVE  Files'
<1> USE DEF TypeOK, Files, CanRename, Renamed, Present
<1>1. from # to
  OBVIOUS
<1>2. /\ at'[from] = NoDir /\ at'[to] = at[from]
      /\ \A p \in Paths \ {from, to} : at'[p] = at[p]
  BY <1>1
<1>3. OnePlace'
  BY <1>2 DEF OnePlace
<1>4. StagingOwn'
  BY <1>2, PathFacts DEF StagingOwn
<1>5. NothingLost'
  <2> SUFFICES ASSUME NEW i \in {Original} \cup promoted, i \notin pruned
               PROVE  \E p \in Paths : at'[p] = i
    BY DEF NothingLost
  <2>1. PICK p \in Paths : at[p] = i
    BY DEF NothingLost
  <2>2. i # NoDir
    BY OriginalAssumption DEF Ids
  <2> QED BY <1>2, <2>1, <2>2
<1>6. OutsideStaging'
  <2> SUFFICES ASSUME NEW d \in Deploys, NEW p \in Paths \ {Staging(d)}, at'[p] = d
               PROVE  d \in promoted
    BY DEF OutsideStaging
  <2>1. d # NoDir
    BY OriginalAssumption DEF Ids
  <2>2. CASE p = to
    BY <1>2, <2>2 DEF OutsideStaging
  <2>3. CASE p # to
    BY <1>2, <2>1, <2>3 DEF OutsideStaging
  <2> QED BY <2>2, <2>3
<1> QED BY <1>3, <1>4, <1>5, <1>6

\* Removing a staging path loses nothing that has been live.
LEMMA RemoveKeepsFiles ==
    ASSUME TypeOK, Files, NEW d \in Deploys,
           at' = StagingRemoved(d), promoted' = promoted, pruned' = pruned
    PROVE  Files'
<1> USE DEF TypeOK, Files, StagingRemoved, Present
<1>1. /\ at'[Staging(d)] = NoDir
      /\ \A p \in Paths \ {Staging(d)} : at'[p] = at[p]
  BY PathFacts
<1>2. OnePlace'
  BY <1>1 DEF OnePlace
<1>3. StagingOwn'
  BY <1>1, PathFacts DEF StagingOwn
<1>4. NothingLost'
  <2> SUFFICES ASSUME NEW i \in {Original} \cup promoted, i \notin pruned
               PROVE  \E p \in Paths : at'[p] = i
    BY DEF NothingLost
  <2>1. PICK p \in Paths : at[p] = i
    BY DEF NothingLost
  <2>2. i # NoDir
    BY OriginalAssumption DEF Ids
  <2>3. p # Staging(d)
    BY <2>1, <2>2, OriginalAssumption DEF StagingOwn
  <2> QED BY <1>1, <2>1, <2>3
<1>5. OutsideStaging'
  <2>1. \A e \in Deploys : e # NoDir
    BY OriginalAssumption DEF Ids
  <2> QED BY <1>1, <2>1 DEF OutsideStaging
<1> QED BY <1>2, <1>3, <1>4, <1>5

LEMMA SameKeepsFiles ==
    ASSUME Files, at' = at, promoted' = promoted, pruned' = pruned
    PROVE  Files'
BY DEF Files, OnePlace, StagingOwn, NothingLost, OutsideStaging, Present

LEMMA DiscardKeepsFiles ==
    ASSUME TypeOK, Files, NEW d \in Deploys, Discard(d), promoted' = promoted, pruned' = pruned
    PROVE  Files'
BY RemoveKeepsFiles, SameKeepsFiles DEF Discard

\* An escaping OSError removes the clone, or nothing.
LEMMA EscapeKeepsFiles ==
    ASSUME TypeOK, Files, NEW d \in Deploys, Escape(d), promoted' = promoted, pruned' = pruned
    PROVE  Files'
BY DiscardKeepsFiles, SameKeepsFiles DEF Escape

LEMMA StepFiles ==
    ASSUME IInv, NEW d \in Deploys, Step(d)
    PROVE  Files'
<1> USE DEF IInv, files, promises
<1>1. CASE \/ Authorise(d) \/ CheckClean(d) \/ StopService(d) \/ Recheck(d)
           \/ JournalBegin(d) \/ StartService(d) \/ AwaitHealth(d) \/ Finish(d)
           \/ ReportRolledBack(d)
  BY <1>1, SameKeepsFiles, EscapeKeepsFiles DEF Authorise, CheckClean, StopService, Recheck,
     JournalBegin, StartService, AwaitHealth, Finish, ReportRolledBack, JournalFails
<1>2. CASE StageClone(d)
  <2>1. CASE at' = [at EXCEPT ![Staging(d)] = d]
    <3>1. /\ at'[Staging(d)] = d
          /\ \A p \in Paths \ {Staging(d)} : at'[p] = at[p]
      BY <2>1, PathFacts DEF TypeOK
    <3>2. d \notin promoted /\ \A p \in Paths : at[p] # d
      BY <1>2 DEF StageClone, Fresh, NotClonedYet
    <3>3. promoted' = promoted /\ pruned' = pruned
      BY <1>2 DEF StageClone
    <3>4. OnePlace'
      BY <3>1, <3>2 DEF Files, OnePlace, Present
    <3>5. StagingOwn'
      BY <3>1, <3>2, <3>3, PathFacts, PathsApart DEF Files, StagingOwn
    <3>6. NothingLost'
      <4> SUFFICES ASSUME NEW i \in {Original} \cup promoted, i \notin pruned
                   PROVE  \E p \in Paths : at'[p] = i
        BY <3>3 DEF NothingLost
      <4>1. PICK p \in Paths : at[p] = i
        BY DEF Files, NothingLost
      <4>2. p # Staging(d)
        BY <3>2, <4>1, OriginalAssumption DEF Files, StagingOwn, Ids, TypeOK
      <4> QED BY <3>1, <4>1, <4>2
    <3>7. OutsideStaging'
      BY <3>1, <3>3 DEF Files, OutsideStaging
    <3> QED BY <3>4, <3>5, <3>6, <3>7 DEF Files
  <2>2. CASE at' = at
    BY <1>2, <2>2, SameKeepsFiles DEF StageClone
  <2> QED BY <1>2, <2>1, <2>2 DEF StageClone
<1>3. CASE Build(d)
  BY <1>3, SameKeepsFiles, DiscardKeepsFiles, EscapeKeepsFiles DEF Build
<1>4. CASE CarryOver(d)
  BY <1>4, SameKeepsFiles, EscapeKeepsFiles DEF CarryOver
<1>5. CASE SwapOut(d)
  BY <1>5, PathFacts, PathsApart, RenameKeepsFiles, EscapeKeepsFiles DEF SwapOut
<1>6. CASE SwapIn(d)
  <2>1. CASE at' = at /\ promoted' = promoted
    BY <1>6, <2>1, SameKeepsFiles DEF SwapIn
  <2>2. CASE /\ CanRename(Staging(d), Live)
             /\ at' = Renamed(Staging(d), Live)
             /\ promoted' = promoted \cup {d}
    <3>1. /\ at'[Staging(d)] = NoDir /\ at'[Live] = at[Staging(d)]
          /\ \A p \in Paths \ {Staging(d), Live} : at'[p] = at[p]
      BY <2>2, PathFacts DEF Renamed, TypeOK
    <3>2. at[Staging(d)] = d /\ at[Live] = NoDir /\ d # NoDir
      BY <2>2, OriginalAssumption DEF CanRename, Present, Files, StagingOwn, Ids
    <3>3. promoted' = promoted \cup {d} /\ pruned' = pruned
      BY <1>6, <2>2 DEF SwapIn
    <3>4. OnePlace'
      <4> SUFFICES ASSUME NEW p \in Paths, NEW q \in Paths, at'[p] # NoDir, at'[p] = at'[q]
                   PROVE  p = q
        BY DEF OnePlace, Present
      <4>1. \A r \in Paths : at[r] = d => r = Staging(d)
        BY <3>2, PathFacts DEF Files, OnePlace, Present
      <4>2. p # Staging(d) /\ q # Staging(d)
        BY <3>1
      <4>3. CASE p = Live \/ q = Live
        BY <3>1, <3>2, <4>1, <4>2, <4>3
      <4>4. CASE p # Live /\ q # Live
        BY <3>1, <4>2, <4>4 DEF Files, OnePlace, Present
      <4> QED BY <4>3, <4>4
    <3>5. StagingOwn'
      BY <3>1, <3>3, PathFacts, PathsApart DEF Files, StagingOwn
    <3>6. NothingLost'
      <4> SUFFICES ASSUME NEW i \in {Original} \cup promoted', i \notin pruned
                   PROVE  \E p \in Paths : at'[p] = i
        BY <3>3 DEF NothingLost
      <4>1. CASE i = d
        BY <3>1, <3>2, <4>1, PathFacts
      <4>2. CASE i # d
        <5>1. PICK p \in Paths : at[p] = i
          BY <3>3, <4>2 DEF Files, NothingLost
        <5>2. i # NoDir
          BY <3>3, OriginalAssumption DEF Ids, TypeOK
        <5> QED BY <3>1, <3>2, <4>2, <5>1, <5>2
      <4> QED BY <4>1, <4>2
    <3>7. OutsideStaging'
      <4> SUFFICES ASSUME NEW e \in Deploys, NEW p \in Paths \ {Staging(e)}, at'[p] = e
                   PROVE  e \in promoted'
        BY DEF OutsideStaging
      <4>1. e # NoDir
        BY OriginalAssumption DEF Ids
      <4>2. CASE p = Live
        BY <3>1, <3>2, <3>3, <4>2
      <4>3. CASE p # Live
        BY <3>1, <3>3, <4>1, <4>3 DEF Files, OutsideStaging
      <4> QED BY <4>2, <4>3
    <3> QED BY <3>4, <3>5, <3>6, <3>7 DEF Files
  <2>3. CASE JournalFails(d) /\ promoted' = promoted
    BY <1>6, <2>3, EscapeKeepsFiles DEF SwapIn, JournalFails
  <2> QED BY <1>6, <2>1, <2>2, <2>3 DEF SwapIn
<1>7. CASE SelfHeal(d)
  BY <1>7, PathFacts, PathsApart, RenameKeepsFiles, SameKeepsFiles DEF SelfHeal
<1>8. CASE SetAside(d)
  BY <1>8, PathFacts, PathsApart, RenameKeepsFiles, EscapeKeepsFiles DEF SetAside
<1>9. CASE PutBack(d)
  BY <1>9, PathFacts, PathsApart, RenameKeepsFiles, EscapeKeepsFiles DEF PutBack
<1>10. CASE Unwind(d)
  BY <1>10, SameKeepsFiles, DiscardKeepsFiles DEF Unwind
<1> QED
  BY <1>1, <1>2, <1>3, <1>4, <1>5, <1>6, <1>7, <1>8, <1>9, <1>10 DEF Step

LEMMA NextFiles ==
    ASSUME IInv, [Next]_vars
    PROVE  Files'
<1>1. CASE Outside
  BY <1>1, SameKeepsFiles DEF IInv, Outside, Edit, Update, ServiceWrite, ChangeLive, promises
<1>2. CASE Prune
  <2>1. /\ \A p \in Paths : at'[p] \in {at[p], NoDir}
        /\ \A d \in Deploys : at'[Staging(d)] = at[Staging(d)]
        /\ \A p \in Paths : at'[p] # at[p] => at[p] \in pruned'
        /\ promoted' = promoted /\ pruned \subseteq pruned'
    BY <1>2, PathFacts, PathsApart DEF Prune, OldBackups, Backups
  <2>2. OnePlace'
    BY <2>1 DEF IInv, Files, OnePlace, Present
  <2>3. StagingOwn'
    BY <2>1 DEF IInv, Files, StagingOwn
  <2>4. NothingLost'
    BY <2>1 DEF IInv, Files, NothingLost
  <2>5. OutsideStaging'
    BY <2>1, OriginalAssumption DEF IInv, Files, OutsideStaging, Ids
  <2> QED BY <2>2, <2>3, <2>4, <2>5 DEF Files
<1>3. CASE ClearPending
  BY <1>3, SameKeepsFiles DEF IInv, ClearPending, ChangeLive, promises
<1>4. ASSUME NEW d \in Deploys, Approve(d) PROVE Files'
  BY <1>4, SameKeepsFiles DEF IInv, Approve, files
<1>5. ASSUME NEW d \in Deploys, Recover(d) PROVE Files'
  BY <1>5, PathFacts, PathsApart, RenameKeepsFiles, SameKeepsFiles DEF IInv, Recover, promises
<1>6. ASSUME NEW d \in Deploys, RollbackAside(d) PROVE Files'
  BY <1>6, PathFacts, PathsApart, RenameKeepsFiles, SameKeepsFiles
  DEF IInv, RollbackAside, CanRename
<1>7. ASSUME NEW d \in Deploys, RollbackPut(d) PROVE Files'
  BY <1>7, PathFacts, PathsApart, RenameKeepsFiles, SameKeepsFiles DEF IInv, RollbackPut
<1>8. ASSUME NEW d \in Deploys, Step(d) PROVE Files'
  BY <1>8, StepFiles
<1>9. ASSUME NEW d \in Deploys, Crash(d) PROVE Files'
  BY <1>9, SameKeepsFiles DEF IInv, Crash, files, promises
<1>10. CASE UNCHANGED vars
  BY <1>10, SameKeepsFiles DEF IInv, vars
<1> QED
  BY <1>1, <1>2, <1>3, <1>4, <1>5, <1>6, <1>7, <1>8, <1>9, <1>10 DEF Next, Operator

\* Except for the clone that StageClone makes, no step puts a directory
\* anywhere that was not somewhere before.
LEMMA NextFresh ==
    ASSUME IInv, [Next]_vars
    PROVE  Fresh'
<1> USE PathFacts DEF IInv, Fresh, NotClonedYet
<1> DEFINE Moved == \A p \in Paths : at'[p] = NoDir \/ \E q \in Paths : at'[p] = at[q]
<1>0. ASSUME Moved, promoted' = promoted,
             \A d \in Deploys : pc'[d] \in NotClonedYet => pc[d] \in NotClonedYet
      PROVE  Fresh'
  BY <1>0, OriginalAssumption DEF Ids
<1>1. ASSUME NEW from \in Paths, NEW to \in Paths, at' = Renamed(from, to) PROVE Moved
  BY <1>1 DEF Renamed, TypeOK
<1>2. ASSUME NEW d \in Deploys, Discard(d) PROVE Moved
  BY <1>2 DEF Discard, StagingRemoved, TypeOK
<1>3. at' = at => Moved
  OBVIOUS
<1>4. ASSUME NEW d \in Deploys, NEW place, GoTo(d, place),
             place \notin NotClonedYet \/ pc[d] \in NotClonedYet
      PROVE  \A e \in Deploys : pc'[e] \in NotClonedYet => pc[e] \in NotClonedYet
  BY <1>4 DEF GoTo, TypeOK
<1> HIDE DEF Moved
<1>5. ASSUME NEW d \in Deploys, Step(d) PROVE Fresh'
  <2> USE DEF files, promises
  <2>1. CASE StageClone(d)
    <3>1. pc[d] = "checked" /\ pc'[d] \notin NotClonedYet
          /\ \A e \in Deploys \ {d} : pc'[e] = pc[e]
      BY <2>1 DEF StageClone, GoTo, TypeOK
    <3>2. \A p \in Paths : at'[p] \in {at[p], d}
      BY <2>1 DEF StageClone, TypeOK
    <3>3. promoted' = promoted
      BY <2>1 DEF StageClone
    <3> QED BY <3>1, <3>2, <3>3
  <2>2. CASE SwapIn(d)
    <3>1. Moved
      BY <2>2, <1>1, <1>2, <1>3 DEF SwapIn, JournalFails, Escape
    <3>2. promoted' \subseteq promoted \cup {d} /\ pc[d] = "swapped_out"
      BY <2>2 DEF SwapIn
    <3>3. \A e \in Deploys : pc'[e] \in NotClonedYet => pc[e] \in NotClonedYet /\ e # d
      BY <2>2 DEF SwapIn, GoTo, TypeOK, JournalFails, Escape
    <3> QED BY <3>1, <3>2, <3>3, OriginalAssumption DEF Ids, Moved
  <2>3. CASE Authorise(d) \/ CheckClean(d) \/ StopService(d) \/ Recheck(d)
             \/ Finish(d) \/ ReportRolledBack(d)
    <3>1. at' = at /\ promoted' = promoted
      BY <2>3 DEF Authorise, CheckClean, StopService, Recheck, Finish, ReportRolledBack
    <3>2. \A e \in Deploys : pc'[e] \in NotClonedYet => pc[e] \in NotClonedYet
      BY <2>3, <1>4 DEF Authorise, CheckClean, StopService, Recheck, Finish, ReportRolledBack
    <3> QED BY <1>0, <1>3, <3>1, <3>2
  <2>5. CASE JournalBegin(d) \/ StartService(d) \/ AwaitHealth(d)
    <3>1. Moved
      BY <2>5, <1>2, <1>3 DEF JournalBegin, StartService, AwaitHealth, JournalFails, Escape
    <3>2. promoted' = promoted
      BY <2>5 DEF JournalBegin, StartService, AwaitHealth
    <3>3. \A e \in Deploys : pc'[e] \in NotClonedYet => pc[e] \in NotClonedYet
      BY <2>5, <1>4 DEF JournalBegin, StartService, AwaitHealth, JournalFails, Escape
    <3> QED BY <1>0, <3>1, <3>2, <3>3
  <2>4. CASE Build(d) \/ CarryOver(d) \/ SwapOut(d) \/ SelfHeal(d) \/ SetAside(d)
             \/ PutBack(d) \/ Unwind(d)
    <3>1. Moved
      BY <2>4, <1>1, <1>2, <1>3
      DEF Build, CarryOver, SwapOut, SelfHeal, SetAside, PutBack, Unwind, Escape
    <3>2. promoted' = promoted
      BY <2>4 DEF Build, CarryOver, SwapOut, SelfHeal, SetAside, PutBack, Unwind
    <3>3. \A e \in Deploys : pc'[e] \in NotClonedYet => pc[e] \in NotClonedYet
      BY <2>4, <1>4
      DEF Build, CarryOver, SwapOut, SelfHeal, SetAside, PutBack, Unwind, Escape, Closed
    <3> QED BY <1>0, <3>1, <3>2, <3>3
  <2> QED BY <1>5, <2>1, <2>2, <2>3, <2>4, <2>5 DEF Step
<1>6. CASE Outside \/ ClearPending
  BY <1>0, <1>3, <1>6 DEF Outside, Edit, Update, ServiceWrite, ClearPending, ChangeLive, promises
<1>7. CASE Prune
  <2>1. Moved
    BY <1>7 DEF Prune, Moved, TypeOK
  <2> QED BY <1>0, <1>7, <2>1 DEF Prune
<1>8. ASSUME NEW d \in Deploys, Approve(d) PROVE Fresh'
  BY <1>0, <1>3, <1>8 DEF Approve, files
<1>9. ASSUME NEW d \in Deploys, Recover(d) PROVE Fresh'
  BY <1>0, <1>1, <1>3, <1>9 DEF Recover, promises
<1>10. ASSUME NEW d \in Deploys, RollbackAside(d) PROVE Fresh'
  BY <1>0, <1>1, <1>3, <1>10 DEF RollbackAside
<1>11. ASSUME NEW d \in Deploys, RollbackPut(d) PROVE Fresh'
  BY <1>0, <1>1, <1>3, <1>11 DEF RollbackPut
<1>12. ASSUME NEW d \in Deploys, Crash(d) PROVE Fresh'
  <2>1. \A e \in Deploys : pc'[e] \in NotClonedYet => pc[e] \in NotClonedYet
    BY <1>4, <1>12 DEF Crash
  <2> QED BY <1>0, <1>3, <1>12, <2>1 DEF Crash, files, promises
<1>13. CASE UNCHANGED vars
  BY <1>0, <1>3, <1>13 DEF vars
<1> QED
  BY <1>5, <1>6, <1>7, <1>8, <1>9, <1>10, <1>11, <1>12, <1>13 DEF Next, Operator

\* A change of the live checkout from outside does not touch what was verified.
LEMMA ChangeLiveVerified ==
    ASSUME TypeOK, Present(Live), NEW contents, ChangeLive(contents),
           contents.verified = LiveDir.verified
    PROVE  \A i \in Ids : dir'[i].verified = dir[i].verified
BY LiveDirType DEF ChangeLive, LiveDir, TypeOK

LEMMA NextProgress ==
    ASSUME IInv, [Next]_vars
    PROVE  Progress'
<1> USE DEF IInv, NotBuiltYet, NotSwappedYet
<1>0. ASSUME \A i \in Ids : dir'[i].verified = dir[i].verified,
             approval' = approval, promoted' = promoted, pc' = pc
      PROVE  Progress'
  BY <1>0 DEF Progress, Ids
<1>1. ASSUME NEW d \in Deploys, Step(d) PROVE Progress'
  <2> USE DEF files, promises
  <2>0. ASSUME NEW place, GoTo(d, place), approval' = approval,
               \A i \in Ids : dir'[i].verified = dir[i].verified,
               promoted' = promoted,
               place \in NotBuiltYet \cup NotSwappedYet => approval[d] # NoApproval,
               place \in NotSwappedYet => dir[d].verified
        PROVE  Progress'
    BY <2>0 DEF Progress, GoTo, TypeOK, Ids
  <2>1. CASE Authorise(d)
    BY <2>0, <2>1 DEF Authorise, ApprovalHolds
  <2>2. CASE CheckClean(d)
    BY <2>0, <2>2 DEF CheckClean, Progress
  <2>3. CASE StageClone(d)
    <3>1. d \notin promoted /\ pc[d] = "checked"
      BY <2>3 DEF StageClone, Fresh, NotClonedYet
    <3>2. pc' = [pc EXCEPT ![d] = "staged"] \/ pc' = [pc EXCEPT ![d] = "raising"]
      BY <2>3 DEF StageClone, GoTo
    <3>3. \A e \in Deploys \ {d} : dir'[e] = dir[e]
      BY <2>3 DEF StageClone, TypeOK, Ids
    <3>4. approval' = approval /\ promoted' = promoted
      BY <2>3 DEF StageClone
    <3> QED BY <3>1, <3>2, <3>3, <3>4 DEF Progress, TypeOK
  <2>4. CASE Build(d)
    <3>1. CASE dir' = dir /\ (GoTo(d, "build_failed") \/ GoTo(d, "raising") \/ GoTo(d, "escaped"))
      BY <2>0, <2>4, <3>1 DEF Build
    <3>2. CASE dir' = [dir EXCEPT ![d] = BuiltCandidate(d)] /\ GoTo(d, "built")
      <4>1. dir'[d].verified /\ \A e \in Deploys \ {d} : dir'[e] = dir[e]
        BY <3>2 DEF BuiltCandidate, TypeOK, Ids
      <4>2. approval' = approval /\ promoted' = promoted /\ pc[d] = "staged"
        BY <2>4 DEF Build
      <4> QED BY <3>2, <4>1, <4>2 DEF Progress, GoTo, TypeOK
    <3> QED BY <2>4, <3>1, <3>2 DEF Build, Escape
  <2>5. CASE StopService(d)
    BY <2>0, <2>5 DEF StopService, Progress
  <2>6. CASE Recheck(d)
    BY <2>0, <2>6 DEF Recheck, Progress
  <2>7. CASE CarryOver(d)
    <3>1. \A i \in Ids : dir'[i].verified = dir[i].verified
      BY <2>7 DEF CarryOver, Refreshed, TypeOK, Checkouts
    <3> QED BY <2>0, <2>7, <3>1 DEF CarryOver, Escape, Progress
  <2>8. CASE JournalBegin(d)
    BY <2>0, <2>8 DEF JournalBegin, JournalFails, Escape, Progress
  <2>9. CASE SwapOut(d)
    BY <2>0, <2>9 DEF SwapOut, Escape, Progress
  <2>10. CASE SwapIn(d)
    BY <2>10 DEF SwapIn, JournalFails, Escape, GoTo, Progress, TypeOK
  <2>11. CASE SelfHeal(d) \/ StartService(d) \/ AwaitHealth(d) \/ Finish(d)
    BY <2>0, <2>11 DEF SelfHeal, Closed, StartService, AwaitHealth, Finish, JournalFails, Escape
  <2>12. CASE SetAside(d) \/ PutBack(d) \/ ReportRolledBack(d) \/ Unwind(d)
    BY <2>0, <2>12 DEF SetAside, PutBack, Closed, ReportRolledBack, Unwind, Escape
  <2> QED
    BY <1>1, <2>1, <2>2, <2>3, <2>4, <2>5, <2>6, <2>7, <2>8, <2>9, <2>10, <2>11, <2>12 DEF Step
<1>2. CASE Outside \/ ClearPending
  <2>1. \A i \in Ids : dir'[i].verified = dir[i].verified
    <3>1. CASE Edit
      BY <3>1, ChangeLiveVerified, LiveDirType DEF Edit, Checkouts
    <3>2. CASE Update
      <4>1. PICK p \in {LiveDir.pending, FALSE} :
              ChangeLive([LiveDir EXCEPT !.commit.up = @ + 1, !.pending = p, !.mtime = clock + 1])
        BY <3>2 DEF Update
      <4> QED BY <3>2, <4>1, ChangeLiveVerified, LiveDirType DEF Update, Checkouts
    <3>3. CASE ServiceWrite
      BY <3>3, ChangeLiveVerified, LiveDirType DEF ServiceWrite, Checkouts
    <3>4. CASE ClearPending
      BY <3>4, ChangeLiveVerified, LiveDirType DEF ClearPending, Checkouts
    <3> QED BY <1>2, <3>1, <3>2, <3>3, <3>4 DEF Outside
  <2> QED BY <1>0, <1>2, <2>1 DEF Outside, Edit, Update, ServiceWrite, ClearPending, ChangeLive, promises
<1>3. ASSUME NEW d \in Deploys, Approve(d) PROVE Progress'
  <2>1. pc[d] = "idle" /\ d \notin promoted
    BY <1>3 DEF Approve, Fresh, NotClonedYet
  <2>2. \A e \in Deploys \ {d} : approval'[e] = approval[e]
    BY <1>3 DEF Approve, TypeOK
  <2> QED BY <1>3, <2>1, <2>2 DEF Approve, Progress, files
<1>4. CASE Prune \/ \E d \in Deploys : Recover(d) \/ RollbackAside(d) \/ RollbackPut(d)
  BY <1>0, <1>4 DEF Prune, Recover, RollbackAside, RollbackPut, promises
<1>5. ASSUME NEW d \in Deploys, Crash(d) PROVE Progress'
  BY <1>5 DEF Crash, GoTo, Progress, TypeOK, files, promises
<1>6. CASE UNCHANGED vars
  BY <1>0, <1>6 DEF vars
<1> QED
  BY <1>1, <1>2, <1>3, <1>4, <1>5, <1>6 DEF Next, Operator

LEMMA InitIInv == Init => IInv
<1> SUFFICES ASSUME Init PROVE IInv
  OBVIOUS
<1>1. TypeOK
  BY InitType
<1>2. /\ at \in [Paths -> Ids \cup {NoDir}] /\ at[Live] = Original
      /\ \A p \in Paths : p # Live => at[p] = NoDir
      /\ promoted = {} /\ pruned = {}
      /\ Original \notin Deploys /\ NoDir \notin Deploys /\ Original # NoDir
  BY <1>1, PathFacts, OriginalAssumption DEF Init, TypeOK, Ids
<1>3. OnePlace /\ StagingOwn /\ NothingLost /\ OutsideStaging /\ Fresh
  BY <1>2, PathFacts, PathsApart
  DEF OnePlace, StagingOwn, NothingLost, OutsideStaging, Fresh, Present
<1>4. Progress
  BY <1>2 DEF Init, Progress, NotBuiltYet, NotSwappedYet
<1> QED BY <1>1, <1>3, <1>4 DEF IInv, Files

LEMMA NextIInv == IInv /\ [Next]_vars => IInv'
BY NextType, NextFiles, NextFresh, NextProgress DEF IInv

LEMMA Inductive == Spec => []IInv
BY InitIInv, NextIInv, PTL DEF Spec

\* No interleaving of deploys, rollbacks, recoveries and crashes puts one
\* checkout directory under two paths.
THEOREM OnePlaceHolds == Spec => []OnePlace
<1>1. IInv => OnePlace
  BY DEF IInv, Files
<1> QED BY <1>1, Inductive, PTL

\* Whatever fails and whatever overlaps, a checkout that has been live is still
\* on disk unless the operator pruned it.
THEOREM NothingLostHolds == Spec => []NothingLost
<1>1. IInv => NothingLost
  BY DEF IInv, Files
<1> QED BY <1>1, Inductive, PTL

\* Only a candidate of an approved proposal whose build-test command passed is
\* ever found under the live path, or under the path of a backup.
THEOREM OnlyVerifiedHolds == Spec => []OnlyVerified
<1>1. IInv => OnlyVerified
  BY DEF IInv, Files, OutsideStaging, Progress, OnlyVerified
<1> QED BY <1>1, Inductive, PTL

-----------------------------------------------------------------------------
(* The service, as long as systemctl does what it reports.                 *)

SystemctlIsReliable == "start" \notin Faults /\ "late_stop" \notin Faults

\* Where a deploy is whose service_stopped flag is set.
AfterStop == {"stopped", "rechecked", "carried", "journalled", "swapped_out", "heal",
              "swapped_in", "raising", "raising_keep", "crashed", "escaped"}

ServiceInv ==
    /\ service = "stopped" => stoppedBy # {}
    /\ stoppedBy # {} => ServiceUnit
    /\ \A d \in stoppedBy : pc[d] \in AfterStop

LEMMA StepService ==
    ASSUME SystemctlIsReliable, TypeOK, ServiceInv, NEW d \in Deploys, Step(d)
    PROVE  ServiceInv'
<1> USE DEF promises, files, ServiceInv
\* A deploy that goes on, with its flag as it is, to a place where that is in order.
<1>0. ASSUME NEW place, GoTo(d, place), service' = service, stoppedBy' = stoppedBy,
             place \in AfterStop \/ d \notin stoppedBy
      PROVE  ServiceInv'
  BY <1>0 DEF GoTo, TypeOK
<1>1. CASE Authorise(d) \/ CheckClean(d) \/ StageClone(d) \/ Build(d)
  <2>1. d \notin stoppedBy
    BY <1>1 DEF Authorise, CheckClean, StageClone, Build, AfterStop
  <2> QED BY <1>0, <1>1, <2>1 DEF Authorise, CheckClean, StageClone, Build, Escape
<1>2. CASE StopService(d)
  <2>1. CASE stoppedBy' = stoppedBy \cup {d} /\ GoTo(d, "stopped")
    BY <1>2, <2>1 DEF StopService, GoTo, AfterStop, TypeOK
  <2>2. CASE service' = service /\ stoppedBy' = stoppedBy /\ GoTo(d, "raising")
    BY <1>0, <2>2 DEF AfterStop
  <2> QED BY <1>2, <2>1, <2>2 DEF StopService, SystemctlIsReliable, Can
<1>3. CASE Recheck(d) \/ CarryOver(d) \/ JournalBegin(d) \/ SwapOut(d) \/ SwapIn(d) \/ SelfHeal(d)
  BY <1>0, <1>3 DEF Recheck, CarryOver, JournalBegin, SwapOut, SwapIn, SelfHeal, Closed,
     JournalFails, Escape, AfterStop
<1>4. CASE StartService(d)
  <2>1. CASE stoppedBy' = stoppedBy \ {d} /\ service' = "running" /\ GoTo(d, "started")
    BY <2>1 DEF GoTo, TypeOK
  <2>2. CASE JournalFails(d) /\ service' = service /\ stoppedBy' = stoppedBy
    BY <1>0, <2>2 DEF JournalFails, Escape, AfterStop
  <2> QED BY <1>4, <2>1, <2>2 DEF StartService, SystemctlIsReliable, Can
<1>5. CASE AwaitHealth(d) \/ Finish(d) \/ SetAside(d) \/ PutBack(d)
  <2>1. d \notin stoppedBy
    BY <1>5 DEF AwaitHealth, Finish, SetAside, PutBack, AfterStop
  <2> QED BY <1>0, <1>5, <2>1 DEF AwaitHealth, Finish, SetAside, PutBack, Closed,
          JournalFails, Escape
<1>6. CASE ReportRolledBack(d)
  <2>1. d \notin stoppedBy /\ stoppedBy' = stoppedBy /\ GoTo(d, "rolled_back")
    BY <1>6 DEF ReportRolledBack, AfterStop
  <2>2. service' \in {"running", service}
    BY <1>6 DEF ReportRolledBack
  <2> QED BY <2>1, <2>2 DEF GoTo, TypeOK
<1>7. CASE Unwind(d)
  <2>1. service' = Restarted(d) /\ stoppedBy' = stoppedBy \ {d} /\ GoTo(d, "refused")
    BY <1>7 DEF Unwind, SystemctlIsReliable, Can
  <2>2. CASE d \in stoppedBy
    BY <2>1, <2>2 DEF Restarted, GoTo, TypeOK
  <2>3. CASE d \notin stoppedBy
    BY <2>1, <2>3 DEF Restarted, GoTo, TypeOK
  <2> QED BY <2>2, <2>3
<1> QED BY <1>1, <1>2, <1>3, <1>4, <1>5, <1>6, <1>7 DEF Step

LEMMA NextService ==
    ASSUME SystemctlIsReliable, TypeOK, ServiceInv, [Next]_vars
    PROVE  ServiceInv'
<1> USE DEF promises, files, ServiceInv
<1>1. ASSUME NEW d \in Deploys, Crash(d) PROVE ServiceInv'
  BY <1>1 DEF Crash, GoTo, AfterStop, TypeOK
<1>2. ASSUME service' = service, stoppedBy' = stoppedBy, pc' = pc PROVE ServiceInv'
  BY <1>2
<1>3. CASE Outside \/ Operator
  BY <1>2, <1>3 DEF Outside, Edit, Update, ServiceWrite, ChangeLive, Operator, Prune,
     ClearPending, Approve, Recover, RollbackAside, RollbackPut
<1>4. CASE UNCHANGED vars
  BY <1>2, <1>4 DEF vars
<1> QED BY <1>1, <1>3, <1>4, StepService DEF Next

\* However deploys fail, overlap and unwind: a deploy that ends with a result or a
\* refusal does not leave the service stopped that it has stopped.
THEOREM ServiceIsOwed == SystemctlIsReliable => (Spec => []ServiceOwed)
<1> SUFFICES ASSUME SystemctlIsReliable PROVE Spec => []ServiceOwed
  OBVIOUS
<1>1. Init => ServiceInv
  BY DEF Init, ServiceInv
<1>2. TypeOK /\ ServiceInv /\ [Next]_vars => ServiceInv'
  BY NextService
<1>3. ServiceInv => ServiceOwed
  BY Places DEF ServiceInv, ServiceOwed, AfterStop
<1> QED BY <1>1, <1>2, <1>3, TypeCorrect, PTL DEF Spec

-----------------------------------------------------------------------------
(***************************************************************************)
(* Every step of CanaryDeploy is a step of LiveCheckout, or changes nothing *)
(* of what LiveCheckout sees: which checkout is live, which ones that have  *)
(* been live are kept beside it, which staging clones passed their build.   *)
(***************************************************************************)

\* The paths at which a checkout that has been live is kept, and the values
\* that the variables of LiveCheckout have in a state of CanaryDeploy.
KeptPaths  == {"backup", "failed", "aside"} \X Deploys
Kept       == {at[p] : p \in KeptPaths} \ {NoDir}
Candidates == {d \in Deploys : at[Staging(d)] = d /\ dir[d].verified}

SeesNothing == at[Live]' = at[Live] /\ Kept' = Kept /\ Candidates' = Candidates
Promised == LC!Next \/ SeesNothing

LEMMA KeptPathFacts ==
    /\ KeptPaths \subseteq Paths
    /\ Live \notin KeptPaths
    /\ \A d \in Deploys : /\ Staging(d) \notin KeptPaths
                          /\ Backup(d) \in KeptPaths
                          /\ Failed(d) \in KeptPaths
                          /\ Aside(d) \in KeptPaths
BY DEF KeptPaths, Paths, Live, Staging, Backup, Failed, Aside

\* The abstract step that is taken, in terms of Kept and Candidates.
LEMMA SeenAs ==
    /\ (/\ at[Live] # NoDir
        /\ at[Live]' = NoDir /\ Kept' = Kept \cup {at[Live]} /\ Candidates' = Candidates)
       => LC!Next
    /\ \A c \in Ids :
          (/\ at[Live] = NoDir /\ c \in Candidates \cup Kept
           /\ at[Live]' = c /\ Kept' = Kept \ {c} /\ Candidates' = Candidates \ {c})
          => LC!Next
    /\ \A c \in Ids :
          (/\ c \notin Kept \cup {at[Live]}
           /\ Candidates' = Candidates \cup {c} /\ at[Live]' = at[Live] /\ Kept' = Kept)
          => LC!Next
    /\ \A c \in Ids :
          (/\ Candidates' = Candidates \ {c} /\ at[Live]' = at[Live] /\ Kept' = Kept)
          => LC!Next
    /\ \A gone \in SUBSET Kept :
          (Kept' = Kept \ gone /\ at[Live]' = at[Live] /\ Candidates' = Candidates)
          => LC!Next
BY DEF LC!Next, LC!TakeDown, LC!PutUp, LC!Verify, LC!Discard, LC!Prune,
       Kept, Candidates, KeptPaths

\* The same directories at the same paths, and none with another verdict.
LEMMA SameIsUnseen ==
    ASSUME at' = at, \A i \in Ids : dir'[i].verified = dir[i].verified
    PROVE  SeesNothing
BY DEF SeesNothing, Kept, Candidates, Ids

\* The live checkout is renamed to a free path of a kept one.
LEMMA TakesDown ==
    ASSUME IInv, NEW to \in KeptPaths, CanRename(Live, to),
           at' = Renamed(Live, to), dir' = dir
    PROVE  Promised
<1> USE KeptPathFacts, PathFacts
<1>1. /\ at'[Live] = NoDir /\ at'[to] = at[Live] /\ at[Live] # NoDir /\ at[to] = NoDir
      /\ \A p \in Paths \ {Live, to} : at'[p] = at[p]
  BY DEF IInv, TypeOK, Renamed, CanRename, Present
<1>2. Kept' = Kept \cup {at[Live]}
  BY <1>1 DEF Kept
<1>3. Candidates' = Candidates
  BY <1>1 DEF Candidates
<1> QED BY <1>1, <1>2, <1>3, SeenAs DEF Promised

\* A kept checkout is renamed to the free live path.
LEMMA PutsBack ==
    ASSUME IInv, NEW from \in KeptPaths, CanRename(from, Live),
           at' = Renamed(from, Live), dir' = dir
    PROVE  Promised
<1> USE KeptPathFacts, PathFacts
<1> DEFINE c == at[from]
<1>1. /\ at'[Live] = c /\ at'[from] = NoDir /\ at[Live] = NoDir
      /\ c # NoDir /\ c \in Ids
      /\ \A p \in Paths \ {Live, from} : at'[p] = at[p] /\ at[p] # c
  <2>1. OnePlace /\ at \in [Paths -> Ids \cup {NoDir}] /\ Present(from) /\ ~Present(Live)
    BY DEF IInv, Files, TypeOK, CanRename
  <2> QED BY <2>1 DEF OnePlace, Renamed, Present
<1>2. c \in Kept
  BY <1>1 DEF Kept
<1>3. Kept' = Kept \ {c}
  BY <1>1 DEF Kept
<1>4. Candidates' = Candidates \ {c}
  BY <1>1 DEF Candidates
<1> QED BY <1>1, <1>2, <1>3, <1>4, SeenAs DEF Promised

\* A verified staging clone is renamed to the free live path.
LEMMA PutsUp ==
    ASSUME IInv, NEW d \in Deploys, CanRename(Staging(d), Live), dir[d].verified,
           at' = Renamed(Staging(d), Live), dir' = dir
    PROVE  Promised
<1> USE KeptPathFacts, PathFacts
<1>1. /\ at[Staging(d)] = d /\ at'[Live] = d /\ at'[Staging(d)] = NoDir /\ at[Live] = NoDir
      /\ d # NoDir /\ d \in Ids
      /\ \A p \in Paths \ {Live, Staging(d)} : at'[p] = at[p] /\ at[p] # d
  <2>1. OnePlace /\ at \in [Paths -> Ids \cup {NoDir}] /\ Present(Staging(d)) /\ ~Present(Live)
    BY DEF IInv, Files, TypeOK, CanRename
  <2>2. at[Staging(d)] = d /\ d # NoDir /\ d \in Ids
    BY <2>1, OriginalAssumption DEF IInv, Files, StagingOwn, Present, Ids
  <2> QED BY <2>1, <2>2 DEF OnePlace, Renamed, Present
<1>2. d \in Candidates
  BY <1>1 DEF Candidates
<1>3. Kept' = Kept \ {d}
  BY <1>1 DEF Kept
<1>4. Candidates' = Candidates \ {d}
  <2>1. \A e \in Deploys \ {d} : at'[Staging(e)] = at[Staging(e)]
    BY <1>1, PathsApart
  <2> QED BY <1>1, <2>1 DEF Candidates
<1> QED BY <1>1, <1>2, <1>3, <1>4, SeenAs DEF Promised

\* A clone is removed, or cannot be.
LEMMA Discards ==
    ASSUME IInv, NEW d \in Deploys, Discard(d), dir' = dir
    PROVE  Promised
<1> USE KeptPathFacts, PathFacts
<1>1. CASE at' = StagingRemoved(d)
  <2>1. at'[Staging(d)] = NoDir /\ \A p \in Paths \ {Staging(d)} : at'[p] = at[p]
    BY <1>1 DEF IInv, TypeOK, StagingRemoved
  <2>2. Kept' = Kept
    BY <2>1 DEF Kept
  <2>3. Candidates' = Candidates \ {d}
    <3>1. \A e \in Deploys \ {d} : at'[Staging(e)] = at[Staging(e)]
      BY <2>1, PathsApart
    <3>2. d # NoDir BY OriginalAssumption DEF Ids
    <3> QED BY <2>1, <3>1, <3>2 DEF Candidates
  <2> QED BY <2>1, <2>2, <2>3, SeenAs DEF Promised, Ids
<1>2. CASE at' = at
  BY <1>2, SameIsUnseen DEF Promised
<1> QED BY <1>1, <1>2 DEF Discard

LEMMA EscapeSeen ==
    ASSUME IInv, NEW d \in Deploys, Escape(d), dir' = dir
    PROVE  Promised
BY Discards, SameIsUnseen DEF Escape, Promised

-----------------------------------------------------------------------------
\* A step that leaves directories where they are, with what they hold.
LEMMA SameSeen == at' = at /\ dir' = dir => Promised
BY SameIsUnseen DEF Promised

LEMMA StepSeen ==
    ASSUME IInv, NEW d \in Deploys, Step(d)
    PROVE  Promised
<1> USE SameSeen DEF files, promises
<1>1. CASE \/ Authorise(d) \/ CheckClean(d) \/ StopService(d) \/ Recheck(d)
           \/ JournalBegin(d) \/ StartService(d) \/ AwaitHealth(d) \/ Finish(d)
           \/ ReportRolledBack(d)
  BY <1>1, EscapeSeen DEF Authorise, CheckClean, StopService, Recheck, JournalBegin,
     JournalFails, StartService, AwaitHealth, Finish, ReportRolledBack
<1>2. CASE StageClone(d)
  <2>1. CASE at' = at /\ dir' = dir
    BY <2>1
  <2>2. CASE /\ at' = [at EXCEPT ![Staging(d)] = d]
             /\ dir' = [dir EXCEPT ![d] = [NotCloned EXCEPT !.commit = LiveDir.commit]]
    <3>1. \A p \in Paths : at[p] # d
      BY <1>2 DEF StageClone, IInv, Fresh, NotClonedYet
    <3>2. \A p \in Paths \ {Staging(d)} : at'[p] = at[p]
      BY <2>2 DEF IInv, TypeOK
    <3>3. ~dir'[d].verified /\ \A e \in Deploys \ {d} : dir'[e] = dir[e]
      BY <2>2 DEF IInv, TypeOK, NotCloned, Ids
    <3>4. at[Staging(d)] = NoDir
      BY <3>1, PathFacts DEF IInv, Files, StagingOwn
    <3>5. Kept' = Kept /\ at'[Live] = at[Live]
      BY <3>2, KeptPathFacts, PathFacts DEF Kept
    <3>6. Candidates' = Candidates
      <4>1. \A e \in Deploys \ {d} : at'[Staging(e)] = at[Staging(e)]
        BY <3>2, PathsApart, PathFacts
      <4> QED BY <3>1, <3>3, <4>1, PathFacts DEF Candidates
    <3> QED BY <3>5, <3>6 DEF Promised, SeesNothing
  <2> QED BY <1>2, <2>1, <2>2 DEF StageClone
<1>3. CASE Build(d)
  <2>1. CASE at' = at /\ dir' = [dir EXCEPT ![d] = BuiltCandidate(d)]
    <3>1. dir'[d].verified /\ \A e \in Deploys \ {d} : dir'[e] = dir[e]
      BY <2>1 DEF BuiltCandidate, IInv, TypeOK, Ids
    <3>2. Kept' = Kept /\ at'[Live] = at[Live]
      BY <2>1 DEF Kept
    <3>3. CASE at[Staging(d)] = d
      <4>1. Candidates' = Candidates \cup {d}
        BY <2>1, <3>1, <3>3 DEF Candidates
      <4>2. d # NoDir BY OriginalAssumption DEF Ids
      <4>3. d \notin Kept \cup {at[Live]}
        BY <3>3, <4>2, KeptPathFacts, PathFacts DEF IInv, Files, OnePlace, Present, Kept
      <4> QED BY <3>2, <4>1, <4>3, SeenAs DEF Promised, Ids
    <3>4. CASE at[Staging(d)] # d
      <4>1. Candidates' = Candidates
        BY <2>1, <3>1, <3>4 DEF Candidates
      <4> QED BY <3>2, <4>1 DEF Promised, SeesNothing
    <3> QED BY <3>3, <3>4
  <2>2. CASE Discard(d) /\ dir' = dir
    BY <2>2, Discards
  <2>3. CASE Escape(d) /\ dir' = dir
    BY <2>3, EscapeSeen
  <2> QED BY <1>3, <2>1, <2>2, <2>3 DEF Build
<1>4. CASE CarryOver(d)
  <2>1. CASE at' = at /\ dir' = Refreshed(d)
    <3>1. \A i \in Ids : dir'[i].verified = dir[i].verified
      BY <2>1 DEF Refreshed, IInv, TypeOK, Checkouts
    <3> QED BY <2>1, <3>1, SameIsUnseen DEF Promised
  <2> QED BY <1>4, <2>1, EscapeSeen DEF CarryOver
<1>5. CASE SwapOut(d)
  BY <1>5, TakesDown, EscapeSeen, KeptPathFacts DEF SwapOut
<1>6. CASE SwapIn(d)
  <2>1. dir[d].verified
    BY <1>6 DEF SwapIn, IInv, Progress, NotSwappedYet
  <2> QED BY <1>6, <2>1, PutsUp, EscapeSeen DEF SwapIn, JournalFails
<1>7. CASE SelfHeal(d)
  BY <1>7, PutsBack, KeptPathFacts DEF SelfHeal
<1>8. CASE SetAside(d)
  BY <1>8, TakesDown, EscapeSeen, KeptPathFacts DEF SetAside
<1>9. CASE PutBack(d)
  BY <1>9, PutsBack, EscapeSeen, KeptPathFacts DEF PutBack
<1>10. CASE Unwind(d)
  BY <1>10, Discards DEF Unwind
<1> QED BY <1>1, <1>2, <1>3, <1>4, <1>5, <1>6, <1>7, <1>8, <1>9, <1>10 DEF Step

\* Every step, of anybody, is one that LiveCheckout allows, or cannot see.
LEMMA NextSeen ==
    ASSUME IInv, [Next]_vars
    PROVE  Promised
<1> USE SameSeen DEF files, promises
<1>1. ASSUME NEW d \in Deploys, Step(d) PROVE Promised
  BY <1>1, StepSeen
<1>2. ASSUME NEW d \in Deploys, Crash(d) \/ Approve(d) PROVE Promised
  BY <1>2 DEF Crash, Approve
<1>3. CASE Outside \/ ClearPending
  <2>1. at' = at /\ \A i \in Ids : dir'[i].verified = dir[i].verified
    <3> USE LiveDirType DEF IInv, Checkouts
    <3>1. CASE Edit
      BY <3>1, ChangeLiveVerified DEF Edit, ChangeLive
    <3>2. CASE Update
      <4>1. PICK p \in {LiveDir.pending, FALSE} :
              ChangeLive([LiveDir EXCEPT !.commit.up = @ + 1, !.pending = p, !.mtime = clock + 1])
        BY <3>2 DEF Update
      <4> QED BY <3>2, <4>1, ChangeLiveVerified DEF Update, ChangeLive
    <3>3. CASE ServiceWrite
      BY <3>3, ChangeLiveVerified DEF ServiceWrite, ChangeLive
    <3>4. CASE ClearPending
      BY <3>4, ChangeLiveVerified DEF ClearPending, ChangeLive
    <3> QED BY <1>3, <3>1, <3>2, <3>3, <3>4 DEF Outside
  <2> QED BY <2>1, SameIsUnseen DEF Promised
<1>4. ASSUME NEW d \in Deploys, Recover(d) \/ RollbackPut(d) PROVE Promised
  BY <1>4, PutsBack, KeptPathFacts DEF Recover, RollbackPut
<1>5. ASSUME NEW d \in Deploys, RollbackAside(d) PROVE Promised
  BY <1>5, TakesDown, KeptPathFacts DEF RollbackAside, CanRename
<1>6. CASE Prune
  <2>1. PICK old \in SUBSET Deploys :
           at' = [p \in Paths |-> IF \E d \in old : p = Backup(d) THEN NoDir ELSE at[p]]
    BY <1>6 DEF Prune, OldBackups, Backups
  <2> DEFINE gone == {at[Backup(d)] : d \in old} \ {NoDir}
  <2>2. gone \in SUBSET Kept
    BY KeptPathFacts DEF Kept
  <2>3. at'[Live] = at[Live] /\ \A d \in Deploys : at'[Staging(d)] = at[Staging(d)]
    BY <2>1, PathsApart, PathFacts
  <2>4. Candidates' = Candidates
    BY <1>6, <2>3 DEF Candidates, Prune
  <2>5. Kept' = Kept \ gone
    <3>1. \A p \in KeptPaths : at'[p] = IF \E d \in old : p = Backup(d) THEN NoDir ELSE at[p]
      BY <2>1, KeptPathFacts
    <3>2. \A p \in KeptPaths, d \in old : at[p] # NoDir /\ at[p] = at[Backup(d)] => p = Backup(d)
      BY KeptPathFacts DEF IInv, Files, OnePlace, Present
    <3> QED BY <3>1, <3>2 DEF Kept
  <2> HIDE DEF gone
  <2> QED BY <2>2, <2>3, <2>4, <2>5, SeenAs DEF Promised
<1>7. CASE UNCHANGED vars
  BY <1>7 DEF vars
<1> QED
  BY <1>1, <1>2, <1>3, <1>4, <1>5, <1>6, <1>7 DEF Next, Operator

LEMMA InitSeen == Init => LC!Init
<1> SUFFICES ASSUME Init PROVE LC!Init
  OBVIOUS
<1>1. at[Live] = Original /\ \A p \in Paths \ {Live} : at[p] = NoDir
  BY PathFacts DEF Init
<1>2. Kept = {} /\ Candidates = {}
  BY <1>1, KeptPathFacts, PathFacts, OriginalAssumption DEF Kept, Candidates, Ids
<1> QED BY <1>1, <1>2 DEF LC!Init, Kept, KeptPaths, Candidates

\* Whatever runs, fails, overlaps or is killed, the deploys keep the promise of
\* LiveCheckout: what goes live passed its build or was live before, what comes
\* down is kept, and kept checkouts go away by prune-backups only.
THEOREM KeepsThePromise == Spec => KeepsLiveCheckoutPromise
<1>1. Promised => [LC!Next]_LC!vars
  BY DEF Promised, SeesNothing, Kept, KeptPaths, Candidates, LC!vars
<1>2. IInv /\ [Next]_vars => [LC!Next]_LC!vars
  BY <1>1, NextSeen
<1> QED BY <1>2, InitSeen, Inductive, PTL DEF Spec, KeepsLiveCheckoutPromise, LC!Spec
-----------------------------------------------------------------------------
(* Commands that do not overlap.                                           *)

\* One deploy or rollback at a time: prune-backups, canary-clear and recover may come
\* in between.
OneMover == Overlapping \subseteq {"prune", "clear", "recover"}

\* The same with no recovery while another command runs.
OneAtATime == Overlapping \subseteq {"prune", "clear"}

\* One deploy, or one rollback, at a time.
Solo ==
    /\ \A d, e \in Deploys : pc[d] \in Running /\ pc[e] \in Running => d = e
    /\ \A d \in Deploys : pc[d] \in Running => rolling = {}
    /\ \A b, c \in rolling : b = c

\* A deploy that has not come as far as the second rename has not been live.
BeforeSwap == {"authorised", "checked", "staged", "built", "stopped", "rechecked",
               "carried", "journalled"}
Unpromoted ==
    \A d \in Deploys : pc[d] \in {"idle", "swapped_out", "heal"} \cup BeforeSwap => d \notin promoted

SoloInv == IInv /\ Solo /\ Unpromoted

\* What is not Step of a deploy, nor started by a command that waits for its turn.
Interferes ==
    Outside \/ Prune \/ ClearPending \/ (\E e \in Deploys : Approve(e)) \/ UNCHANGED vars

\* A deploy steps on its own behalf only, and only while it runs or as it starts.
LEMMA StepPlace ==
    ASSUME TypeOK, NEW d \in Deploys, Step(d) \/ Crash(d)
    PROVE  /\ \A e \in Deploys \ {d} : pc'[e] = pc[e]
           /\ pc[d] \in Running \/ Authorise(d)
           /\ rolling' = rolling /\ approval' = approval /\ pruned' = pruned
           /\ promoted' = promoted \/ SwapIn(d)
<1> USE Places DEF GoTo, promises, TypeOK
<1>1. CASE Crash(d)
  BY <1>1 DEF Crash
<1>2. CASE Authorise(d) \/ CheckClean(d) \/ StageClone(d) \/ StopService(d) \/ Recheck(d)
  BY <1>2 DEF Authorise, CheckClean, StageClone, StopService, Recheck
<1>3. CASE Build(d) \/ CarryOver(d) \/ JournalBegin(d)
  BY <1>3 DEF Build, CarryOver, JournalBegin, JournalFails, Escape
<1>4. CASE SwapOut(d) \/ SwapIn(d) \/ SelfHeal(d) \/ StartService(d)
  BY <1>4 DEF SwapOut, SwapIn, SelfHeal, StartService, JournalFails, Escape, Closed
<1>5. CASE AwaitHealth(d) \/ Finish(d) \/ SetAside(d) \/ PutBack(d)
  BY <1>5 DEF AwaitHealth, Finish, SetAside, PutBack, JournalFails, Escape, Closed
<1>6. CASE ReportRolledBack(d) \/ Unwind(d)
  BY <1>6 DEF ReportRolledBack, Unwind
<1> QED BY <1>1, <1>2, <1>3, <1>4, <1>5, <1>6 DEF Step

\* What outside changes and the operator's commands leave alone.
LEMMA OtherPlace ==
    ASSUME Outside \/ Operator \/ UNCHANGED vars
    PROVE  pc' = pc /\ promoted' = promoted
BY DEF Outside, Edit, Update, ServiceWrite, ChangeLive, Operator, Prune, ClearPending,
       Approve, Recover, RollbackAside, RollbackPut, vars, promises

LEMMA OtherRolling ==
    ASSUME [Next]_vars, NEW e \in rolling', e \notin rolling, TypeOK
    PROVE  RollbackAside(e)
<1>1. ASSUME NEW d \in Deploys, Step(d) \/ Crash(d) PROVE FALSE
  BY <1>1, StepPlace
<1> QED
  BY <1>1 DEF Next, Outside, Edit, Update, ServiceWrite, ChangeLive, Operator, Prune, ClearPending,
     Approve, Recover, RollbackAside, RollbackPut, vars, promises

LEMMA NextSolo ==
    ASSUME OneMover, TypeOK, Solo, [Next]_vars
    PROVE  Solo'
<1>1. ASSUME NEW d \in Deploys, pc'[d] \in Running, pc[d] \notin Running
      PROVE  /\ ~Busy /\ rolling' = rolling
             /\ \A e \in Deploys \ {d} : pc'[e] = pc[e]
  <2>1. PICK e \in Deploys : Step(e) \/ Crash(e)
    BY <1>1, OtherPlace DEF Next
  <2>2. e = d
    BY <1>1, <2>1, StepPlace
  <2> QED BY <1>1, <2>1, <2>2, StepPlace DEF Authorise, MayRun, OneMover
<1>2. ASSUME NEW d \in rolling', d \notin rolling
      PROVE  ~Busy /\ pc' = pc /\ rolling' = rolling \cup {d}
  BY <1>2, OtherRolling DEF RollbackAside, MayRun, OneMover
<1>3. \A d \in rolling' : d \in Deploys
  BY NextType DEF TypeOK
<1> QED BY <1>1, <1>2, <1>3 DEF Solo, Busy

LEMMA NextUnpromoted ==
    ASSUME TypeOK, Unpromoted, [Next]_vars
    PROVE  Unpromoted'
<1> USE DEF Unpromoted, BeforeSwap
<1>1. ASSUME NEW d \in Deploys, Step(d) \/ Crash(d) PROVE Unpromoted'
  <2>1. CASE SwapIn(d)
    BY <2>1 DEF SwapIn, GoTo, JournalFails, Escape, TypeOK
  <2>2. CASE ~SwapIn(d)
    <3>1. promoted' = promoted /\ \A e \in Deploys \ {d} : pc'[e] = pc[e]
      BY <1>1, <2>2, StepPlace
    <3>2. pc'[d] \in {"idle", "swapped_out", "heal"} \cup BeforeSwap =>
            pc[d] \in {"idle", "swapped_out", "heal"} \cup BeforeSwap
      <4> USE DEF GoTo, TypeOK, Escape, JournalFails, Closed
      <4>1. CASE Crash(d)
        BY <4>1 DEF Crash
      <4>2. CASE Step(d)
        BY <4>2, <2>2 DEF Step, Authorise, CheckClean, StageClone, Build, StopService, Recheck,
           CarryOver, JournalBegin, SwapOut, SelfHeal, StartService, AwaitHealth, Finish,
           SetAside, PutBack, ReportRolledBack, Unwind
      <4> QED BY <1>1, <4>1, <4>2
    <3> QED BY <3>1, <3>2
  <2> QED BY <2>1, <2>2
<1> QED BY <1>1, OtherPlace DEF Next

LEMMA InitSolo == Init => SoloInv
<1> SUFFICES ASSUME Init PROVE Solo /\ Unpromoted
  BY InitIInv DEF SoloInv
<1> QED BY Places DEF Init, Solo, Unpromoted

LEMMA NextSoloInv == OneMover => (SoloInv /\ [Next]_vars => SoloInv')
BY NextIInv, NextSolo, NextUnpromoted DEF SoloInv, IInv

\* While a deploy runs, the other steps are its own, a recovery, or changes from
\* outside, an approval, a prune or a clear.
LEMMA Alone ==
    ASSUME OneMover, SoloInv, [Next]_vars, NEW d \in Deploys, pc[d] \in Running
    PROVE  Step(d) \/ Crash(d) \/ Interferes \/ \E e \in Deploys : Recover(e)
<1>1. Busy /\ rolling = {} /\ \A e \in Deploys : pc[e] \in Running => e = d
  BY DEF SoloInv, Solo, Busy
<1>2. ASSUME NEW e \in Deploys, Step(e) \/ Crash(e) PROVE e = d
  BY <1>1, <1>2, StepPlace DEF Authorise, MayRun, OneMover, SoloInv, IInv
<1>3. ASSUME NEW e \in Deploys PROVE ~RollbackAside(e) /\ ~RollbackPut(e)
  BY <1>1 DEF RollbackAside, RollbackPut, MayRun, OneMover
<1> QED BY <1>2, <1>3 DEF Next, Operator, Interferes

\* A deploy that runs after a step ran before it, or starts with it while no other
\* command runs.
LEMMA Started ==
    ASSUME OneMover, TypeOK, [Next]_vars, NEW d \in Deploys,
           pc'[d] \in Running, pc[d] \notin Running
    PROVE  Authorise(d) /\ ~Busy
<1>1. PICK e \in Deploys : Step(e) \/ Crash(e)
  BY OtherPlace DEF Next
<1>2. e = d
  BY <1>1, StepPlace
<1> QED BY <1>1, <1>2, StepPlace DEF Authorise, MayRun, OneMover

\* The only step that makes the staging clone of d the live checkout is the second
\* rename of d.
LEMMA PromotesBySwapIn ==
    ASSUME IInv, [Next]_vars, NEW d \in Deploys, Promotes(d)
    PROVE  pc[d] = "swapped_out" /\ dir' = dir
<1> USE PathFacts, PathsApart
<1>1. /\ OnePlace /\ at \in [Paths -> Ids \cup {NoDir}]
      /\ at[Live] = NoDir /\ at'[Live] = d /\ at[Staging(d)] = d /\ d # NoDir
  BY OriginalAssumption DEF IInv, Files, TypeOK, Promotes, Ids
<1>2. \A p \in Paths : at[p] = d => p = Staging(d)
  BY <1>1 DEF OnePlace, Present
<1>3. ASSUME NEW from \in Paths, NEW to \in Paths, at' = Renamed(from, to), from # Staging(d)
      PROVE  FALSE
  BY <1>1, <1>2, <1>3 DEF Renamed
<1>4. ASSUME NEW e \in Deploys, Discard(e) PROVE FALSE
  BY <1>1, <1>4 DEF Discard, StagingRemoved
<1>5. at' # at
  BY <1>1
<1> USE DEF files, promises
<1>6. ASSUME NEW e \in Deploys, Step(e) PROVE pc[d] = "swapped_out" /\ dir' = dir
  <2>1. CASE SwapIn(e)
    <3>1. e = d
      BY <1>3, <1>4, <1>5, <2>1 DEF SwapIn, JournalFails, Escape
    <3> QED BY <2>1, <3>1 DEF SwapIn
  <2>2. CASE StageClone(e)
    BY <1>1, <1>5, <2>2 DEF StageClone
  <2>3. CASE Build(e) \/ CarryOver(e) \/ JournalBegin(e) \/ SwapOut(e) \/ SelfHeal(e)
    BY <1>3, <1>4, <1>5, <2>3 DEF Build, CarryOver, JournalBegin, SwapOut, SelfHeal, JournalFails, Escape
  <2>4. CASE StartService(e) \/ AwaitHealth(e) \/ SetAside(e) \/ PutBack(e) \/ Unwind(e)
    BY <1>3, <1>4, <1>5, <2>4 DEF StartService, AwaitHealth, SetAside, PutBack, Unwind, JournalFails, Escape
  <2>5. CASE \/ Authorise(e) \/ CheckClean(e) \/ StopService(e) \/ Recheck(e)
             \/ Finish(e) \/ ReportRolledBack(e)
    BY <1>5, <2>5 DEF Authorise, CheckClean, StopService, Recheck, Finish, ReportRolledBack
  <2> QED BY <1>6, <2>1, <2>2, <2>3, <2>4, <2>5 DEF Step
<1>7. ASSUME NEW e \in Deploys, Recover(e) \/ RollbackAside(e) \/ RollbackPut(e) PROVE FALSE
  BY <1>3, <1>5, <1>7 DEF Recover, RollbackAside, RollbackPut
<1>8. ASSUME NEW e \in Deploys, Crash(e) \/ Approve(e) PROVE FALSE
  BY <1>5, <1>8 DEF Crash, Approve
<1>9. ~Prune
  BY <1>1 DEF Prune
<1>10. ~Outside /\ ~ClearPending /\ ~UNCHANGED vars
  BY <1>5 DEF Outside, Edit, Update, ServiceWrite, ClearPending, ChangeLive, vars
<1> QED BY <1>6, <1>7, <1>8, <1>9, <1>10 DEF Next, Operator

\* What the changes from outside leave alone: where directories are, and every
\* directory but the live one, of which they keep the commit, unless it is updated,
\* and the data, unless the service writes it.
LEMMA OutsideKeeps ==
    ASSUME TypeOK, Outside
    PROVE  /\ Present(Live) /\ at' = at
           /\ \A i \in Ids \ {at[Live]} : dir'[i] = dir[i]
           /\ Edit \/ Update \/ ServiceWrite
           /\ ~Update => LiveDir'.commit = LiveDir.commit
           /\ ~ServiceWrite => LiveDir'.data = LiveDir.data
           /\ ~Update => \A i \in Ids : dir'[i].mtime = dir[i].mtime
           /\ service' = service /\ approval' = approval /\ rolling' = rolling /\ journal' = journal
<1> USE DEF TypeOK
<1>0. Present(Live)
  BY DEF Outside, Edit, Update, ServiceWrite
<1>1. at[Live] \in Ids /\ LiveDir \in Checkouts
  BY <1>0, LiveDirType
<1>2. ASSUME NEW contents, ChangeLive(contents)
      PROVE  /\ at' = at /\ LiveDir' = contents /\ \A i \in Ids \ {at[Live]} : dir'[i] = dir[i]
             /\ service' = service /\ approval' = approval /\ rolling' = rolling /\ journal' = journal
  BY <1>1, <1>2 DEF ChangeLive, LiveDir, promises
<1>3. dir[at[Live]] = LiveDir /\ (at' = at => dir'[at[Live]] = LiveDir')
  BY DEF LiveDir
<1>4. CASE Edit
  BY <1>0, <1>1, <1>2, <1>3, <1>4 DEF Edit, Checkouts
<1>5. CASE ServiceWrite
  BY <1>0, <1>1, <1>2, <1>3, <1>5 DEF ServiceWrite, Checkouts
<1>6. CASE Update
  <2>1. PICK p \in {LiveDir.pending, FALSE} :
          ChangeLive([LiveDir EXCEPT !.commit.up = @ + 1, !.pending = p, !.mtime = clock + 1])
    BY <1>6 DEF Update
  <2>2. [LiveDir EXCEPT !.commit.up = @ + 1, !.pending = p, !.mtime = clock + 1].data = LiveDir.data
    BY <1>1 DEF Checkouts
  <2> QED BY <1>0, <1>1, <1>2, <1>6, <2>1, <2>2
<1> QED BY <1>4, <1>5, <1>6 DEF Outside

\* What changes the live checkout in place: outside, and canary-clear, which keeps
\* its commit and its data.
LEMMA InPlaceKeeps ==
    ASSUME TypeOK, Outside \/ ClearPending
    PROVE  /\ Present(Live) /\ at' = at /\ pc' = pc /\ promoted' = promoted
           /\ \A i \in Ids \ {at[Live]} : dir'[i] = dir[i]
           /\ ~Update => LiveDir'.commit = LiveDir.commit
           /\ ~ServiceWrite => LiveDir'.data = LiveDir.data
           /\ service' = service /\ approval' = approval /\ rolling' = rolling /\ journal' = journal
<1>1. CASE Outside
  BY <1>1, OutsideKeeps, OtherPlace
<1>2. CASE ClearPending
  <2>1. /\ Present(Live) /\ at' = at /\ pc' = pc /\ promoted' = promoted
        /\ dir' = [dir EXCEPT ![at[Live]] = [LiveDir EXCEPT !.pending = FALSE]]
        /\ service' = service /\ approval' = approval /\ rolling' = rolling /\ journal' = journal
    BY <1>2 DEF ClearPending, ChangeLive, promises
  <2>2. at[Live] \in Ids /\ LiveDir \in Checkouts
    BY <2>1, LiveDirType
  <2>3. LiveDir' = [LiveDir EXCEPT !.pending = FALSE]
    BY <2>1, <2>2 DEF TypeOK, LiveDir
  <2>4. LiveDir'.commit = LiveDir.commit /\ LiveDir'.data = LiveDir.data
    BY <2>2, <2>3 DEF Checkouts
  <2>5. \A i \in Ids \ {at[Live]} : dir'[i] = dir[i]
    BY <2>1 DEF TypeOK
  <2> QED BY <2>1, <2>4, <2>5
<1> QED BY <1>1, <1>2

\* What does not belong to a running deploy leaves it where it is, and moves no
\* directory but the backups that prune removes.
LEMMA InterferesKeeps ==
    ASSUME TypeOK, Interferes
    PROVE  /\ pc' = pc /\ promoted' = promoted /\ service' = service /\ journal' = journal
           /\ rolling' = rolling
           /\ at'[Live] = at[Live]
           /\ \A b \in Deploys : /\ at'[Staging(b)] = at[Staging(b)]
                                 /\ at'[Backup(b)] \in {at[Backup(b)], NoDir}
           /\ \A i \in Ids : dir'[i] = dir[i] \/ ((Outside \/ ClearPending) /\ i = at[Live])
           /\ \A d \in Deploys : pc[d] # "idle" => approval'[d] = approval[d]
           /\ ~Prune => at' = at
<1> USE PathFacts, PathsApart DEF TypeOK
<1>1. CASE Outside \/ ClearPending
  BY <1>1, InPlaceKeeps
<1>2. CASE Prune
  <2>1. PICK old \in SUBSET OldBackups :
           at' = [p \in Paths |-> IF \E d \in old : p = Backup(d) THEN NoDir ELSE at[p]]
    BY <1>2 DEF Prune
  <2>2. \A d \in old : d \in Deploys
    BY DEF OldBackups, Backups
  <2> QED BY <1>2, <2>1, <2>2 DEF Prune
<1>3. ASSUME NEW e \in Deploys, Approve(e)
      PROVE  /\ UNCHANGED <<at, dir, pc, promoted, service, journal, rolling>>
             /\ \A d \in Deploys : pc[d] # "idle" => approval'[d] = approval[d]
  BY <1>3 DEF Approve, files
<1>4. CASE UNCHANGED vars
  BY <1>4 DEF vars
<1> QED BY <1>1, <1>2, <1>3, <1>4 DEF Interferes

LEMMA RenamedAt ==
    ASSUME TypeOK, NEW from \in Paths, NEW to \in Paths, from # to, at' = Renamed(from, to)
    PROVE  /\ at'[from] = NoDir /\ at'[to] = at[from]
           /\ \A p \in Paths \ {from, to} : at'[p] = at[p]
BY DEF TypeOK, Renamed

\* A recovery moves a backup to an empty live path, or nothing.
LEMMA RecoverKeeps ==
    ASSUME TypeOK, NEW e \in Deploys, Recover(e)
    PROVE  /\ pc' = pc /\ dir' = dir /\ service' = service /\ approval' = approval
           /\ at' = at \/ (~Present(Live) /\ Present(Live)')
<1>1. CASE CanRename(Backup(e), Live)
  <2>1. at' = Renamed(Backup(e), Live)
    BY <1>1 DEF Recover
  <2>2. at'[Live] = at[Backup(e)]
    BY <2>1, RenamedAt, PathFacts, PathsApart
  <2> QED BY <1>1, <2>2 DEF Recover, CanRename, Present, promises
<1>2. CASE ~CanRename(Backup(e), Live)
  BY <1>2 DEF Recover, promises
<1> QED BY <1>1, <1>2

\* A deploy that escapes leaves everything but its own clone where it is.
LEMMA DiscardKeeps ==
    ASSUME TypeOK, NEW d \in Deploys, Discard(d)
    PROVE  at'[Live] = at[Live] /\ \A b \in Deploys : at'[Backup(b)] = at[Backup(b)]
BY PathFacts, PathsApart DEF TypeOK, Discard, StagingRemoved

LEMMA EscapeKeeps ==
    ASSUME TypeOK, NEW d \in Deploys, Escape(d)
    PROVE  /\ at'[Live] = at[Live] /\ \A b \in Deploys : at'[Backup(b)] = at[Backup(b)]
           /\ pc'[d] = "escaped"
BY DiscardKeeps DEF Escape, GoTo, TypeOK

\* A clone that is still at its staging path is not live and not a backup.
LEMMA CloneApart ==
    ASSUME SoloInv, NEW d \in Deploys,
           pc[d] \in {"idle", "swapped_out", "heal"} \cup BeforeSwap
    PROVE  at[Live] # d /\ \A b \in Deploys : at[Backup(b)] # d
BY PathFacts, PathsApart DEF SoloInv, Unpromoted, IInv, Files, OutsideStaging

-----------------------------------------------------------------------------
(* The commit a change is promoted onto.                                   *)

\* As long as nothing but the deploy itself takes the live checkout away, it is the
\* one that was approved, and then the backup is, until a recovery puts it back.
OnItsCommit ==
    \A d \in Deploys :
        /\ pc[d] \in BeforeSwap => Present(Live) /\ approval[d] \in {LiveDir.commit, AnyCommit}
        /\ pc[d] = "swapped_out" /\ ~Present(Live) /\ Present(Backup(d)) =>
               approval[d] \in {dir[at[Backup(d)]].commit, AnyCommit}

LEMMA NextOnItsCommit ==
    ASSUME OneMover, "update" \notin Environment, SoloInv, OnItsCommit, [Next]_vars
    PROVE  OnItsCommit'
<1> SUFFICES ASSUME NEW d \in Deploys, pc'[d] \in BeforeSwap \cup {"swapped_out"}
             PROVE  /\ pc'[d] \in BeforeSwap =>
                          Present(Live)' /\ approval'[d] \in {LiveDir'.commit, AnyCommit}
                    /\ pc'[d] = "swapped_out" /\ ~Present(Live)' /\ Present(Backup(d))' =>
                          approval'[d] \in {dir'[at'[Backup(d)]].commit, AnyCommit}
  BY DEF OnItsCommit
<1> USE Places, PathFacts, PathsApart DEF BeforeSwap, GoTo, files, promises
<1>0. TypeOK /\ TypeOK'
  BY NextType DEF SoloInv, IInv
<1>1. CASE pc[d] \notin Running
  <2>1. Authorise(d) /\ ~Busy
    BY <1>0, <1>1, Started
  <2> QED BY <1>0, <2>1 DEF Authorise, ApprovalHolds, LiveDir, Present, TypeOK
<1>2. CASE pc[d] \in Running /\ Interferes
  <2>1. /\ pc' = pc /\ approval'[d] = approval[d] /\ at'[Live] = at[Live]
        /\ at'[Backup(d)] \in {at[Backup(d)], NoDir}
        /\ \A i \in Ids : dir'[i] = dir[i] \/ ((Outside \/ ClearPending) /\ i = at[Live])
    BY <1>0, <1>2, InterferesKeeps
  <2>2. Outside \/ ClearPending => Present(Live) /\ LiveDir'.commit = LiveDir.commit
    BY <1>0, InPlaceKeeps DEF Update
  <2>3. Present(Live) => LiveDir'.commit = LiveDir.commit
    BY <1>0, <2>1, <2>2, LiveDirType DEF LiveDir
  <2>4. Present(Live)' <=> Present(Live)
    BY <2>1 DEF Present
  <2>5. CASE pc[d] = "swapped_out"
    <3>1. SUFFICES ASSUME ~Present(Live), Present(Backup(d))'
                   PROVE  approval'[d] \in {dir'[at'[Backup(d)]].commit, AnyCommit}
      BY <2>1, <2>4, <2>5
    <3>2. at'[Backup(d)] = at[Backup(d)] /\ Present(Backup(d)) /\ at[Backup(d)] \in Ids
      BY <1>0, <2>1, <3>1 DEF Present, TypeOK
    <3>3. dir'[at[Backup(d)]] = dir[at[Backup(d)]]
      BY <2>1, <2>2, <3>1, <3>2
    <3> QED BY <2>1, <2>5, <3>1, <3>2, <3>3 DEF OnItsCommit
  <2>6. CASE pc[d] \in BeforeSwap
    BY <2>1, <2>3, <2>4, <2>6 DEF OnItsCommit
  <2> QED BY <2>1, <2>5, <2>6
<1>3. CASE pc[d] \in Running /\ Step(d)
  <2>0. approval'[d] = approval[d]
    BY <1>0, <1>3, StepPlace
  <2>1. ASSUME pc[d] \in BeforeSwap, at'[Live] = at[Live],
               \A i \in Ids \ {d} : dir'[i].commit = dir[i].commit, pc'[d] \in BeforeSwap
        PROVE  Present(Live)' /\ approval'[d] \in {LiveDir'.commit, AnyCommit}
    <3>1. at[Live] # d
      BY <2>1, CloneApart
    <3>2. Present(Live) /\ at[Live] \in Ids
      BY <1>0, <2>1 DEF OnItsCommit, Present, TypeOK
    <3> QED BY <2>0, <2>1, <3>1, <3>2 DEF OnItsCommit, Present, LiveDir
  <2>2. CASE SwapOut(d)
    <3>1. at' = Renamed(Live, Backup(d)) /\ CanRename(Live, Backup(d)) /\ dir' = dir
          /\ pc[d] \in BeforeSwap
      BY <1>0, <2>2, EscapeKeeps DEF SwapOut
    <3>2. at'[Live] = NoDir /\ at'[Backup(d)] = at[Live] /\ pc'[d] = "swapped_out"
      BY <1>0, <2>2, <3>1, EscapeKeeps DEF Renamed, TypeOK, SwapOut
    <3>3. approval[d] \in {LiveDir.commit, AnyCommit}
      BY <3>1 DEF OnItsCommit, CanRename
    <3> QED BY <2>0, <3>1, <3>2, <3>3 DEF Present, LiveDir
  <2>3. CASE StageClone(d)
    <3>1. pc[d] \in BeforeSwap /\ at'[Live] = at[Live] /\ pc'[d] # "swapped_out"
      BY <1>0, <2>3 DEF StageClone, TypeOK
    <3>2. \A i \in Ids \ {d} : dir'[i] = dir[i]
      BY <1>0, <2>3 DEF StageClone, TypeOK
    <3> QED BY <2>1, <3>1, <3>2
  <2>4. CASE Build(d)
    <3>1. pc[d] \in BeforeSwap /\ at'[Live] = at[Live] /\ pc'[d] # "swapped_out"
      BY <1>0, <2>4, DiscardKeeps, EscapeKeeps DEF Build, TypeOK
    <3>2. \A i \in Ids \ {d} : dir'[i] = dir[i]
      BY <1>0, <2>4 DEF Build, TypeOK
    <3> QED BY <2>1, <3>1, <3>2
  <2>5. CASE CarryOver(d)
    <3>1. pc[d] \in BeforeSwap /\ at'[Live] = at[Live] /\ pc'[d] # "swapped_out"
      BY <1>0, <2>5, EscapeKeeps DEF CarryOver, TypeOK
    <3>2. \A i \in Ids \ {d} : dir'[i] = dir[i]
      BY <1>0, <2>5 DEF CarryOver, TypeOK, Refreshed
    <3> QED BY <2>1, <3>1, <3>2
  <2>6. CASE CheckClean(d) \/ StopService(d) \/ Recheck(d) \/ JournalBegin(d)
    <3>1. pc[d] \in BeforeSwap /\ at'[Live] = at[Live] /\ pc'[d] # "swapped_out" /\ dir' = dir
      BY <1>0, <2>6, EscapeKeeps DEF CheckClean, StopService, Recheck, JournalBegin, JournalFails, TypeOK
    <3> QED BY <2>1, <3>1
  <2>7. CASE \/ Authorise(d) \/ SwapIn(d) \/ SelfHeal(d) \/ StartService(d) \/ AwaitHealth(d)
             \/ Finish(d) \/ SetAside(d) \/ PutBack(d) \/ ReportRolledBack(d) \/ Unwind(d)
    <3>1. pc'[d] \notin BeforeSwap \cup {"swapped_out"}
      BY <1>0, <1>3, <2>7 DEF Authorise, SwapIn, SelfHeal, StartService, AwaitHealth, Finish, SetAside,
         PutBack, ReportRolledBack, Unwind, JournalFails, Escape, Closed, TypeOK
    <3> QED BY <3>1
  <2> QED BY <1>3, <2>2, <2>3, <2>4, <2>5, <2>6, <2>7 DEF Step
<1>4. CASE Crash(d)
  BY <1>0, <1>4 DEF Crash, TypeOK
<1>5. ASSUME pc[d] \in Running, NEW e \in Deploys, Recover(e)
      PROVE  /\ pc'[d] \in BeforeSwap =>
                   Present(Live)' /\ approval'[d] \in {LiveDir'.commit, AnyCommit}
             /\ pc'[d] = "swapped_out" /\ ~Present(Live)' /\ Present(Backup(d))' =>
                   approval'[d] \in {dir'[at'[Backup(d)]].commit, AnyCommit}
  <2>1. /\ pc' = pc /\ dir' = dir /\ approval' = approval
        /\ at' = at \/ (~Present(Live) /\ Present(Live)')
    BY <1>0, <1>5, RecoverKeeps
  <2>2. CASE at' = at
    BY <2>1, <2>2 DEF OnItsCommit, Present, LiveDir
  <2>3. CASE at' # at
    BY <2>1, <2>3 DEF OnItsCommit
  <2> QED BY <2>2, <2>3
<1> QED BY <1>1, <1>2, <1>3, <1>4, <1>5, Alone

\* With one deploy or rollback at a time and a checkout that nobody updates between
\* two looks at it, a change goes live only onto the commit its approval was given
\* for, or with an approval for any commit: whatever fails, crashes, is edited,
\* cleared, recovered or pruned in the middle of the deploy.
THEOREM ApprovedCommitHolds ==
    OneMover /\ "update" \notin Environment => (Spec => PromotedOnApprovedCommit)
<1> SUFFICES ASSUME OneMover, "update" \notin Environment
             PROVE  Spec => PromotedOnApprovedCommit
  OBVIOUS
<1> DEFINE Inv == SoloInv /\ OnItsCommit
           Onto == \A d \in Deploys : Promotes(d) /\ Present(Backup(d))
                       => approval[d] \in {dir[at[Backup(d)]].commit, AnyCommit}
<1>1. Init => Inv
  BY InitSolo DEF Init, OnItsCommit, BeforeSwap
<1>2. Inv /\ [Next]_vars => Inv'
  BY NextSoloInv, NextOnItsCommit
<1>3. ASSUME Inv, [Next]_vars, NEW d \in Deploys, Promotes(d), Present(Backup(d))
      PROVE  approval[d] \in {dir[at[Backup(d)]].commit, AnyCommit}
  <2>1. pc[d] = "swapped_out"
    BY <1>3, PromotesBySwapIn DEF SoloInv
  <2>2. ~Present(Live)
    BY <1>3 DEF Promotes, Present
  <2> QED BY <1>3, <2>1, <2>2 DEF OnItsCommit
<1>4. Inv /\ [Next]_vars => [Onto]_vars
  BY <1>3
<1> QED BY <1>1, <1>2, <1>4, PTL DEF Spec, PromotedOnApprovedCommit

-----------------------------------------------------------------------------
(* The local data a promotion brings along.                                *)

\* From the stop of the service to the first rename the live data does not change;
\* from the second copy on, the candidate holds it.
WithServiceDown == {"stopped", "rechecked", "carried", "journalled", "swapped_out"}
HasItsData ==
    \A d \in Deploys :
        /\ pc[d] \in WithServiceDown => service = "stopped"
        /\ pc[d] \in {"carried", "journalled"} => Present(Live) /\ dir[d].data = LiveDir.data
        /\ pc[d] = "swapped_out" /\ ~Present(Live) /\ Present(Backup(d)) =>
               dir[d].data = dir[at[Backup(d)]].data

LEMMA NextHasItsData ==
    ASSUME OneMover, ServiceUnit, SoloInv, HasItsData, [Next]_vars
    PROVE  HasItsData'
<1> USE Places, PathFacts, PathsApart DEF BeforeSwap, GoTo, files, promises, WithServiceDown
<1> SUFFICES ASSUME NEW d \in Deploys, pc'[d] \in WithServiceDown
             PROVE  /\ service' = "stopped"
                    /\ pc'[d] \in {"carried", "journalled"} =>
                          Present(Live)' /\ dir'[d].data = LiveDir'.data
                    /\ pc'[d] = "swapped_out" /\ ~Present(Live)' /\ Present(Backup(d))' =>
                          dir'[d].data = dir'[at'[Backup(d)]].data
  BY DEF HasItsData
<1>0. TypeOK /\ TypeOK'
  BY NextType DEF SoloInv, IInv
<1>1. CASE pc[d] \notin Running
  <2>1. Authorise(d)
    BY <1>0, <1>1, Started
  <2> QED BY <1>0, <2>1 DEF Authorise, TypeOK
<1>2. CASE pc[d] \in Running /\ Interferes
  <2>1. /\ pc' = pc /\ service' = service /\ at'[Live] = at[Live]
        /\ at'[Backup(d)] \in {at[Backup(d)], NoDir}
        /\ \A i \in Ids : dir'[i] = dir[i] \/ ((Outside \/ ClearPending) /\ i = at[Live])
    BY <1>0, <1>2, InterferesKeeps
  <2>2. service = "stopped" /\ service' = "stopped"
    BY <2>1 DEF HasItsData
  <2>3. Outside \/ ClearPending => Present(Live) /\ LiveDir'.data = LiveDir.data
    BY <1>0, <2>2, InPlaceKeeps DEF ServiceWrite
  <2>4. Present(Live) => LiveDir'.data = LiveDir.data
    BY <1>0, <2>1, <2>3, LiveDirType DEF LiveDir
  <2>5. dir'[d] = dir[d] /\ (Present(Live)' <=> Present(Live))
    BY <2>1, CloneApart DEF Ids, Present
  <2>6. CASE pc[d] = "swapped_out"
    <3>1. SUFFICES ASSUME ~Present(Live), Present(Backup(d))'
                   PROVE  dir'[d].data = dir'[at'[Backup(d)]].data
      BY <2>1, <2>2, <2>5, <2>6
    <3>2. at'[Backup(d)] = at[Backup(d)] /\ Present(Backup(d)) /\ at[Backup(d)] \in Ids
      BY <1>0, <2>1, <3>1 DEF Present, TypeOK
    <3>3. dir'[at[Backup(d)]] = dir[at[Backup(d)]]
      BY <2>1, <2>3, <3>1, <3>2
    <3> QED BY <2>5, <2>6, <3>1, <3>2, <3>3 DEF HasItsData
  <2>7. CASE pc[d] # "swapped_out"
    BY <2>1, <2>2, <2>4, <2>5, <2>7 DEF HasItsData
  <2> QED BY <2>6, <2>7
<1>3. CASE pc[d] \in Running /\ Step(d)
  <2>1. CASE StopService(d)
    BY <1>0, <2>1 DEF StopService, TypeOK
  <2>2. CASE Recheck(d)
    BY <1>0, <2>2 DEF Recheck, HasItsData, TypeOK
  <2>3. CASE CarryOver(d)
    <3>1. pc[d] = "rechecked" /\ service' = service
      BY <2>3 DEF CarryOver
    <3>2. dir' = Refreshed(d) /\ at' = at /\ Present(Live) /\ pc'[d] = "carried"
      BY <1>0, <2>3, EscapeKeeps DEF CarryOver, TypeOK
    <3>3. at[Live] # d /\ at[Live] \in Ids /\ d \in Ids
      BY <1>0, <3>1, <3>2, CloneApart, LiveDirType DEF Ids
    <3>4. dir[d] \in Checkouts /\ dir \in [Ids -> Checkouts]
      BY <1>0 DEF TypeOK, Ids
    <3>5. dir'[d] = [dir[d] EXCEPT !.data = LiveDir.data] /\ dir'[at[Live]] = dir[at[Live]]
      BY <3>2, <3>3, <3>4 DEF Refreshed
    <3>6. dir'[d].data = LiveDir.data
      BY <3>4, <3>5 DEF Checkouts
    <3>7. service' = "stopped"
      BY <3>1 DEF HasItsData
    <3>8. LiveDir' = LiveDir /\ Present(Live)'
      BY <3>2, <3>5 DEF LiveDir, Present
    <3> QED BY <3>2, <3>6, <3>7, <3>8
  <2>4. CASE JournalBegin(d)
    BY <1>0, <2>4, EscapeKeeps DEF JournalBegin, JournalFails, HasItsData, TypeOK, LiveDir, Present
  <2>5. CASE SwapOut(d)
    <3>1. at' = Renamed(Live, Backup(d)) /\ CanRename(Live, Backup(d)) /\ dir' = dir
          /\ pc[d] \in {"carried", "journalled"} /\ service' = service
      BY <1>0, <2>5, EscapeKeeps DEF SwapOut
    <3>2. at'[Live] = NoDir /\ at'[Backup(d)] = at[Live] /\ pc'[d] = "swapped_out"
      BY <1>0, <2>5, <3>1, EscapeKeeps DEF Renamed, TypeOK, SwapOut
    <3>3. dir[d].data = LiveDir.data /\ service = "stopped"
      BY <3>1 DEF HasItsData, CanRename
    <3> QED BY <3>1, <3>2, <3>3 DEF Present, LiveDir
  <2>6. CASE \/ Authorise(d) \/ CheckClean(d) \/ StageClone(d) \/ Build(d)
    BY <1>0, <2>6 DEF Authorise, CheckClean, StageClone, Build, Escape, TypeOK
  <2>7. CASE \/ SwapIn(d) \/ SelfHeal(d) \/ StartService(d) \/ AwaitHealth(d)
             \/ Finish(d) \/ SetAside(d) \/ PutBack(d) \/ ReportRolledBack(d) \/ Unwind(d)
    BY <1>0, <2>7 DEF SwapIn, SelfHeal, StartService, AwaitHealth, Finish, SetAside,
         PutBack, ReportRolledBack, Unwind, JournalFails, Escape, Closed, TypeOK
  <2> QED BY <1>3, <2>1, <2>2, <2>3, <2>4, <2>5, <2>6, <2>7 DEF Step
<1>4. CASE Crash(d)
  BY <1>0, <1>4 DEF Crash, TypeOK
<1>5. ASSUME pc[d] \in Running, NEW e \in Deploys, Recover(e)
      PROVE  /\ service' = "stopped"
             /\ pc'[d] \in {"carried", "journalled"} =>
                   Present(Live)' /\ dir'[d].data = LiveDir'.data
             /\ pc'[d] = "swapped_out" /\ ~Present(Live)' /\ Present(Backup(d))' =>
                   dir'[d].data = dir'[at'[Backup(d)]].data
  <2>1. /\ pc' = pc /\ dir' = dir /\ service' = service
        /\ at' = at \/ (~Present(Live) /\ Present(Live)')
    BY <1>0, <1>5, RecoverKeeps
  <2>2. CASE at' = at
    BY <2>1, <2>2 DEF HasItsData, Present, LiveDir
  <2>3. CASE at' # at
    BY <2>1, <2>3 DEF HasItsData
  <2> QED BY <2>2, <2>3
<1> QED BY <1>1, <1>2, <1>3, <1>4, <1>5, Alone

\* With a service unit and one deploy or rollback at a time, the checkout that goes
\* live holds all the data of the one it replaces: whatever the service writes during
\* the build, and whatever fails, crashes, is cleared, recovered or pruned meanwhile.
THEOREM DataIsKept == OneMover /\ ServiceUnit => (Spec => PromotionKeepsData)
<1> SUFFICES ASSUME OneMover, ServiceUnit PROVE Spec => PromotionKeepsData
  OBVIOUS
<1> DEFINE Inv == SoloInv /\ HasItsData
           Onto == \A d \in Deploys : Promotes(d) /\ Present(Backup(d))
                       => dir[d].data = dir[at[Backup(d)]].data
<1>1. Init => Inv
  BY InitSolo DEF Init, HasItsData, WithServiceDown
<1>2. Inv /\ [Next]_vars => Inv'
  BY NextSoloInv, NextHasItsData
<1>3. ASSUME Inv, [Next]_vars, NEW d \in Deploys, Promotes(d), Present(Backup(d))
      PROVE  dir[d].data = dir[at[Backup(d)]].data
  <2>1. pc[d] = "swapped_out"
    BY <1>3, PromotesBySwapIn DEF SoloInv
  <2>2. ~Present(Live)
    BY <1>3 DEF Promotes, Present
  <2> QED BY <1>3, <2>1, <2>2 DEF HasItsData
<1>4. Inv /\ [Next]_vars => [Onto]_vars
  BY <1>3
<1> QED BY <1>1, <1>2, <1>4, PTL DEF Spec, PromotionKeepsData

-----------------------------------------------------------------------------
(* Recovery from a crash during the swap.                                  *)

\* Where a deploy is while the live path is missing on its account, and where its
\* candidate is live.
Down == {"swapped_out", "heal", "set_aside"}
Up == {"swapped_in", "started", "healthy", "unhealthy"}

\* A deploy that is in the middle of its swap is in the journal, its backup there.
Journalled ==
    \A d \in Deploys :
        /\ pc[d] \in {"journalled"} \cup Up \cup Down => d \in journal
        /\ pc[d] \in Up \cup Down => Present(Backup(d))
        /\ pc[d] \in Up => Present(Live)

RecoverInv == SoloInv /\ Recoverable /\ Journalled /\ rolling = {}

\* The steps of a deploy, one command at a time, keep what the recovery needs.
LEMMA StepRecovers ==
    ASSUME HasJournal, RecoverInv, NEW d \in Deploys, pc[d] \in Running \/ ~Busy, Step(d)
    PROVE  Recoverable' /\ Journalled'
<1> USE Places, PathFacts, PathsApart DEF BeforeSwap, GoTo, files, promises, Up, Down
<1>0. TypeOK
  BY DEF RecoverInv, SoloInv, IInv
<1>1. \A e \in Deploys \ {d} : pc'[e] = pc[e] /\ pc[e] \notin Running
  BY <1>0, StepPlace DEF RecoverInv, SoloInv, Solo, Busy
<1>2. ASSUME /\ pc'[d] \in {"journalled"} \cup Up \cup Down => d \in journal'
             /\ pc'[d] \in Up \cup Down => Present(Backup(d))'
             /\ pc'[d] \in Up => Present(Live)'
      PROVE  Journalled'
  BY <1>1, <1>2 DEF Journalled
<1>3. ASSUME at'[Live] = at[Live], \A b \in Deploys : at'[Backup(b)] = at[Backup(b)],
             journal \subseteq journal' \/ (Present(Live) /\ journal' \subseteq Deploys)
      PROVE  Recoverable'
  BY <1>0, <1>3 DEF Recoverable, Present, RecoverInv, TypeOK
<1>4. ASSUME Present(Live)' PROVE Recoverable'
  BY <1>4 DEF Recoverable
<1>5. CASE \/ Authorise(d) \/ CheckClean(d) \/ StopService(d) \/ Recheck(d) \/ ReportRolledBack(d)
  <2>1. at' = at /\ journal' = journal /\ pc'[d] \notin {"journalled"} \cup Up \cup Down
    BY <1>0, <1>5 DEF Authorise, CheckClean, StopService, Recheck, ReportRolledBack, TypeOK
  <2> QED BY <1>2, <1>3, <2>1
<1>6. CASE StageClone(d) \/ Build(d) \/ CarryOver(d) \/ Unwind(d)
  <2>1. /\ at'[Live] = at[Live] /\ \A b \in Deploys : at'[Backup(b)] = at[Backup(b)]
        /\ pc'[d] \notin {"journalled"} \cup Up \cup Down /\ journal' = journal
    <3>1. CASE StageClone(d)
      BY <1>0, <3>1 DEF StageClone, TypeOK
    <3>2. CASE Build(d)
      BY <1>0, <3>2, EscapeKeeps, DiscardKeeps DEF Build, TypeOK
    <3>3. CASE CarryOver(d) \/ Unwind(d)
      BY <1>0, <3>3, EscapeKeeps, DiscardKeeps DEF CarryOver, Unwind, TypeOK
    <3> QED BY <1>6, <3>1, <3>2, <3>3
  <2> QED BY <1>2, <1>3, <2>1
<1>7. CASE JournalBegin(d)
  <2>1. /\ at'[Live] = at[Live] /\ \A b \in Deploys : at'[Backup(b)] = at[Backup(b)]
        /\ journal \subseteq journal' /\ pc'[d] \notin Up \cup Down
        /\ pc'[d] = "journalled" => d \in journal'
    BY <1>0, <1>7, EscapeKeeps DEF JournalBegin, JournalFails, TypeOK
  <2> QED BY <1>2, <1>3, <2>1
<1>8. CASE SwapOut(d)
  <2>1. pc[d] = "journalled" /\ d \in journal /\ journal' = journal
    BY <1>8 DEF SwapOut, RecoverInv, Journalled
  <2>2. CASE Escape(d)
    BY <1>0, <1>2, <1>3, <2>1, <2>2, EscapeKeeps
  <2>3. CASE CanRename(Live, Backup(d)) /\ at' = Renamed(Live, Backup(d)) /\ GoTo(d, "swapped_out")
    <3>1. Present(Backup(d))'
      BY <1>0, <2>3, RenamedAt DEF CanRename, Present
    <3>2. pc'[d] = "swapped_out"
      BY <1>0, <2>3 DEF TypeOK
    <3> QED BY <1>2, <2>1, <3>1, <3>2 DEF Recoverable
  <2> QED BY <1>8, <2>2, <2>3 DEF SwapOut
<1>9. CASE SwapIn(d)
  <2>1. pc[d] = "swapped_out" /\ d \in journal /\ journal' = journal /\ Present(Backup(d))
    BY <1>9 DEF SwapIn, RecoverInv, Journalled
  <2>2. CASE Escape(d)
    BY <1>0, <1>2, <1>3, <2>1, <2>2, EscapeKeeps
  <2>3. CASE CanRename(Staging(d), Live) /\ at' = Renamed(Staging(d), Live) /\ GoTo(d, "swapped_in")
    <3>1. Present(Backup(d))' /\ Present(Live)'
      BY <1>0, <2>1, <2>3, RenamedAt DEF CanRename, Present
    <3> QED BY <1>2, <1>4, <2>1, <3>1
  <2>4. CASE at' = at /\ GoTo(d, "heal")
    <3>1. pc'[d] = "heal"
      BY <1>0, <2>4 DEF TypeOK
    <3>2. Recoverable'
      BY <1>3, <2>1, <2>4
    <3> QED BY <1>2, <2>1, <2>4, <3>1, <3>2 DEF Present
  <2> QED BY <1>9, <2>2, <2>3, <2>4 DEF SwapIn, JournalFails
<1>10. CASE SelfHeal(d) \/ PutBack(d)
  <2>1. pc'[d] \notin {"journalled"} \cup Up \cup Down
    BY <1>0, <1>10 DEF SelfHeal, PutBack, Closed, Escape, TypeOK
  <2>2. CASE CanRename(Backup(d), Live) /\ at' = Renamed(Backup(d), Live)
    BY <1>0, <1>2, <1>4, <2>1, <2>2, RenamedAt DEF CanRename, Present
  <2>3. CASE (at' = at \/ Escape(d)) /\ journal' = journal
    BY <1>0, <1>2, <1>3, <2>1, <2>3, EscapeKeeps
  <2> QED BY <1>10, <2>2, <2>3 DEF SelfHeal, PutBack
<1>11. CASE StartService(d) \/ AwaitHealth(d) \/ Finish(d)
  <2>1. /\ pc[d] \in Up /\ d \in journal /\ Present(Live) /\ Present(Backup(d))
        /\ journal' = journal \/ (journal' = journal \ {d} /\ pc'[d] = "promoted")
        /\ pc'[d] \in Up \cup {"promoted", "escaped"}
    BY <1>0, <1>11 DEF StartService, AwaitHealth, Finish, JournalFails, Escape, RecoverInv, Journalled, TypeOK
  <2>2. at'[Live] = at[Live] /\ \A b \in Deploys : at'[Backup(b)] = at[Backup(b)]
    BY <1>0, <1>11, EscapeKeeps DEF StartService, AwaitHealth, Finish, JournalFails
  <2> QED BY <1>0, <1>2, <1>3, <2>1, <2>2 DEF Present, TypeOK
<1>12. CASE SetAside(d)
  <2>1. pc[d] = "unhealthy" /\ d \in journal /\ journal' = journal /\ Present(Backup(d)) /\ Present(Live)
    BY <1>12 DEF SetAside, RecoverInv, Journalled
  <2>2. CASE Escape(d)
    BY <1>0, <1>2, <1>3, <2>1, <2>2, EscapeKeeps
  <2>3. CASE CanRename(Live, Failed(d)) /\ at' = Renamed(Live, Failed(d)) /\ GoTo(d, "set_aside")
    <3>1. Present(Backup(d))'
      BY <1>0, <2>1, <2>3, RenamedAt DEF CanRename, Present
    <3>2. pc'[d] = "set_aside"
      BY <1>0, <2>3 DEF TypeOK
    <3> QED BY <1>2, <2>1, <3>1, <3>2 DEF Recoverable
  <2> QED BY <1>12, <2>2, <2>3 DEF SetAside
<1> QED
  BY <1>5, <1>6, <1>7, <1>8, <1>9, <1>10, <1>11, <1>12 DEF Step

LEMMA NextRecovers ==
    ASSUME OneAtATime, HasJournal, "rollback" \notin Offered, "prune" \notin Offered,
           RecoverInv, [Next]_vars
    PROVE  RecoverInv'
<1>0. TypeOK /\ SoloInv'
  BY NextSoloInv DEF RecoverInv, SoloInv, IInv, OneAtATime, OneMover
<1>1. ASSUME at' = at, journal' = journal, pc' = pc PROVE Recoverable' /\ Journalled'
  BY <1>1 DEF RecoverInv, Recoverable, Journalled, Present
<1>2. rolling' = {}
  BY <1>0, OtherRolling DEF RecoverInv, RollbackAside, MayRun, SoloInv, IInv, TypeOK
<1>3. ASSUME NEW d \in Deploys, Step(d) PROVE Recoverable' /\ Journalled'
  <2>1. pc[d] \in Running \/ ~Busy
    BY <1>0, <1>3, StepPlace DEF Authorise, MayRun, OneAtATime
  <2> QED BY <1>3, <2>1, StepRecovers
<1>4. ASSUME NEW d \in Deploys, Crash(d) PROVE Recoverable' /\ Journalled'
  BY <1>0, <1>4 DEF Up, Down, Crash, GoTo, TypeOK, RecoverInv, Recoverable, Journalled, Present, files, promises
<1>5. ASSUME NEW d \in Deploys, Recover(d) PROVE Recoverable' /\ Journalled'
  <2>1. \A e \in Deploys : pc'[e] \notin Running
    BY <1>5 DEF Recover, MayRun, OneAtATime, Busy
  <2>2. Journalled'
    BY <2>1, Places DEF Journalled, Up, Down
  <2>3. CASE CanRename(Backup(d), Live)
    <3>1. at' = Renamed(Backup(d), Live)
      BY <1>5, <2>3 DEF Recover
    <3>2. Present(Live)'
      BY <1>0, <2>3, <3>1, RenamedAt, PathFacts DEF CanRename, Present
    <3> QED BY <2>2, <3>2 DEF Recoverable
  <2>4. CASE ~CanRename(Backup(d), Live)
    <3>1. at' = at /\ journal' = journal \ {d}
      BY <1>5, <2>4 DEF Recover
    <3>2. Present(Live) \/ ~Present(Backup(d))
      BY <2>4 DEF CanRename
    <3>3. Present(Live) \/ \E e \in journal : Present(Backup(e))
      BY DEF RecoverInv, Recoverable
    <3> QED BY <2>2, <3>1, <3>2, <3>3 DEF Recoverable, Present
  <2> QED BY <2>2, <2>3, <2>4
<1>6. ASSUME NEW d \in Deploys, RollbackAside(d) \/ RollbackPut(d) PROVE FALSE
  BY <1>6 DEF RollbackAside, RollbackPut, RecoverInv, MayRun
<1>7. ~Prune
  BY DEF Prune, MayRun
<1>8. ASSUME Outside \/ ClearPending \/ (\E d \in Deploys : Approve(d)) \/ UNCHANGED vars
      PROVE  Recoverable' /\ Journalled'
  <2>1. at' = at /\ journal' = journal /\ pc' = pc
    BY <1>8 DEF Outside, Edit, Update, ServiceWrite, ClearPending, ChangeLive, Approve, vars, files, promises
  <2> QED BY <1>1, <2>1
<1>9. Recoverable' /\ Journalled'
  BY <1>3, <1>4, <1>5, <1>6, <1>7, <1>8 DEF Next, Operator
<1> QED BY <1>0, <1>2, <1>9 DEF RecoverInv

\* With the promotion journal, one command at a time but for canary-clear, and nobody
\* who rolls back or prunes by hand: whatever fails and wherever a deploy is killed, while the live
\* path is missing the journal names a promotion whose backup is there.
THEOREM RecoverableHolds ==
    OneAtATime /\ HasJournal /\ "rollback" \notin Offered /\ "prune" \notin Offered
        => (Spec => []Recoverable)
<1> SUFFICES ASSUME OneAtATime, HasJournal, "rollback" \notin Offered, "prune" \notin Offered
             PROVE  Spec => []Recoverable
  OBVIOUS
<1>1. Init => RecoverInv
  <2> SUFFICES ASSUME Init PROVE Recoverable /\ Journalled /\ rolling = {}
    BY InitSolo DEF RecoverInv
  <2>1. at[Live] = Original /\ Original # NoDir
    BY PathFacts, OriginalAssumption DEF Init, Ids
  <2> QED BY <2>1 DEF Init, Recoverable, Journalled, Present, Up, Down
<1>2. RecoverInv /\ [Next]_vars => RecoverInv'
  BY NextRecovers
<1>3. RecoverInv => Recoverable
  BY DEF RecoverInv
<1> QED BY <1>1, <1>2, <1>3, PTL DEF Spec

-----------------------------------------------------------------------------
(***************************************************************************)
(* The order of the backups.  list_backups sorts by the modification times  *)
(* of the directories, and a directory keeps its own when it is renamed: a  *)
(* backup is dated by the checkout in it, not by the promotion that made    *)
(* it.  That this is the order of the promotions is what InOrder says: the  *)
(* candidate of d is younger than the checkout it replaced, and older, or   *)
(* as old, as whatever the promotions after it replaced.                    *)
(***************************************************************************)

Mtime(i) == dir[i].mtime
MtimeOfBackup(b) == Mtime(at[Backup(b)])

Building == {"built", "stopped", "rechecked", "carried", "journalled", "swapped_out", "heal"}

\* Nothing is dated in the future, and the candidate of the deploy that runs is
\* the youngest checkout there is.
Dated ==
    /\ \A i \in Ids : Mtime(i) <= clock
    /\ \A d \in Deploys : pc[d] \in Building => \A i \in Ids \ {d} : Mtime(i) < Mtime(d)

\* All other backups were made before the checkout in the backup of c was live.
IsLatest(c) ==
    /\ Present(Backup(c))
    /\ \A b \in Backups \ {c} : Mtime(b) <= MtimeOfBackup(c)

InOrder ==
    /\ \A b \in Backups : pc[b] \notin {"idle"} \cup BeforeSwap /\ MtimeOfBackup(b) < Mtime(b)
    /\ \A b, c \in Backups : b # c => Mtime(b) <= MtimeOfBackup(c) \/ Mtime(c) <= MtimeOfBackup(b)
    /\ Present(Live) => \A b \in Backups : Mtime(b) <= Mtime(at[Live])

\* The candidate of a deploy after its swap is live, its backup there; while the
\* live path is empty, the one command that runs is about to fill it, from the
\* latest backup if need be.
InFlight ==
    /\ \A c \in Deploys : pc[c] \in Up => at[Live] = c /\ Present(Backup(c))
    /\ \A c \in Deploys : c \in rolling \/ pc[c] \in Down => ~Present(Live) /\ IsLatest(c)
    /\ ~Present(Live) => rolling # {} \/ \E d \in Deploys : pc[d] \in Down

OrderInv == SoloInv /\ Dated /\ InOrder /\ InFlight

\* The circumstances in which the order can be relied on: one command at a time but
\* for prune-backups and canary-clear, nobody touches the modification time of the
\* live checkout, no command is killed or meets an OSError halfway, no backup is
\* rolled back out of turn, and prune keeps the newest one.
Orderly ==
    /\ OneAtATime
    /\ "update" \notin Environment
    /\ ~Can("crash") /\ ~Can("io")
    /\ ~NamedRollback
    /\ PruneKeep >= 1

\* Times are numbers.
LEMMA Times ==
    ASSUME TypeOK
    PROVE  /\ clock \in Nat /\ \A i \in Ids : Mtime(i) \in Nat
           /\ \A b \in Backups : at[Backup(b)] \in Ids /\ MtimeOfBackup(b) \in Nat /\ b \in Deploys
           /\ Present(Live) => at[Live] \in Ids
BY PathFacts DEF TypeOK, Mtime, MtimeOfBackup, Checkouts, Backups, Present

\* Of two backups the older checkout is in the one that was made first; so the one
\* that no other is newer than is the latest, and so is the one of the checkout that
\* is live.
LEMMA NewestIsLatest ==
    ASSUME TypeOK, InOrder, NEW c \in NewestBackups
    PROVE  IsLatest(c)
<1>1. c \in Backups /\ \A b \in Backups : ~(MtimeOfBackup(b) > MtimeOfBackup(c))
  BY DEF NewestBackups, Newer, MtimeOfBackup, Mtime
<1>2. ASSUME NEW b \in Backups, b # c PROVE Mtime(b) <= MtimeOfBackup(c)
  BY <1>1, <1>2, Times DEF InOrder, Ids
<1> QED BY <1>1, <1>2 DEF IsLatest, Backups

LEMMA LiveIsLatest ==
    ASSUME TypeOK, InOrder, at[Live] \in Deploys, Present(Backup(at[Live]))
    PROVE  IsLatest(at[Live])
<1> DEFINE c == at[Live]
<1>1. c \in Backups /\ Present(Live)
  BY OriginalAssumption DEF Backups, Present, Ids
<1>2. ASSUME NEW b \in Backups, b # c PROVE Mtime(b) <= MtimeOfBackup(c)
  BY <1>1, <1>2, Times DEF InOrder, Ids
<1> QED BY <1>1, <1>2 DEF IsLatest, Backups

LEMMA LatestIsNewest ==
    ASSUME TypeOK, InOrder, NEW c \in Deploys, IsLatest(c)
    PROVE  NewestBackups = {c} /\ \A b \in Backups : ~Newer(b, c)
<1>1. c \in Backups
  BY DEF IsLatest, Backups
<1>2. \A b \in Backups \ {c} : MtimeOfBackup(b) < MtimeOfBackup(c)
  BY <1>1, Times DEF IsLatest, InOrder, Ids
<1>3. \A b, e \in Backups : Newer(b, e) <=> MtimeOfBackup(b) > MtimeOfBackup(e)
  BY DEF Newer, MtimeOfBackup, Mtime
<1> QED BY <1>1, <1>2, <1>3, Times DEF NewestBackups

-----------------------------------------------------------------------------
(* Steps that leave the order alone.                                       *)

\* What the order is about: the live checkout, the backups, and their times.
SameOrder ==
    /\ at'[Live] = at[Live]
    /\ \A b \in Deploys : at'[Backup(b)] = at[Backup(b)]
    /\ rolling' = rolling
SameTimes == clock' = clock /\ \A i \in Ids : dir'[i].mtime = dir[i].mtime

LEMMA KeepsDated ==
    ASSUME TypeOK, Dated, SameTimes,
           \A d \in Deploys : pc'[d] \in Building => pc[d] \in Building
    PROVE  Dated'
BY DEF Dated, SameTimes, Mtime, Ids

LEMMA KeepsInOrder ==
    ASSUME TypeOK, InOrder, SameOrder, SameTimes,
           \A d \in Deploys : pc'[d] \in {"idle"} \cup BeforeSwap => pc[d] \in {"idle"} \cup BeforeSwap
    PROVE  InOrder'
<1>1. Backups' = Backups
  BY DEF SameOrder, Backups, Present
<1>2. \A i \in Ids : Mtime(i)' = Mtime(i)
  BY DEF SameTimes, Mtime
<1>3. \A b \in Backups : MtimeOfBackup(b)' = MtimeOfBackup(b)
  BY <1>2, Times DEF SameOrder, MtimeOfBackup, Mtime
<1>4. Present(Live)' <=> Present(Live)
  BY DEF SameOrder, Present
<1>5. Present(Live) => Mtime(at[Live])' = Mtime(at[Live])
  BY <1>2, Times DEF SameOrder, Mtime
<1>6. \A b \in Backups : b \in Ids /\ b \in Deploys
  BY DEF Backups, Ids
<1> QED BY <1>1, <1>2, <1>3, <1>4, <1>5, <1>6 DEF InOrder

LEMMA KeepsInFlight ==
    ASSUME TypeOK, InFlight, SameOrder, SameTimes,
           \A d \in Deploys : /\ pc'[d] \in Up => pc[d] \in Up
                              /\ pc'[d] \in Down <=> pc[d] \in Down
    PROVE  InFlight'
<1>1. Backups' = Backups /\ \A b \in Deploys : Present(Backup(b))' <=> Present(Backup(b))
  BY DEF SameOrder, Backups, Present
<1>2. \A i \in Ids : Mtime(i)' = Mtime(i)
  BY DEF SameTimes, Mtime
<1>3. \A b \in Backups : MtimeOfBackup(b)' = MtimeOfBackup(b)
  BY <1>2, Times DEF SameOrder, MtimeOfBackup, Mtime
<1>4. Present(Live)' <=> Present(Live)
  BY DEF SameOrder, Present
<1>5. \A c \in Deploys : IsLatest(c) => IsLatest(c)'
  BY <1>1, <1>2, <1>3 DEF IsLatest, Backups, Ids
<1>6. rolling' = rolling /\ at'[Live] = at[Live] /\ rolling \subseteq Deploys
  BY DEF SameOrder, TypeOK
<1> QED BY <1>1, <1>4, <1>5, <1>6 DEF InFlight

-----------------------------------------------------------------------------
(* Steps that move a checkout.                                             *)

\* No deploy goes back to before its swap.
NoneGoesBack ==
    \A d \in Deploys : pc'[d] \in {"idle"} \cup BeforeSwap => pc[d] \in {"idle"} \cup BeforeSwap

\* The checkout in the latest backup goes back to the live path.
LEMMA PutsBackInOrder ==
    ASSUME OrderInv, NEW c \in Deploys, IsLatest(c), ~Present(Live),
           at' = Renamed(Backup(c), Live), dir' = dir, NoneGoesBack,
           rolling' = {}, \A d \in Deploys : pc'[d] \notin Up \cup Down
    PROVE  InOrder' /\ InFlight'
<1>0. TypeOK /\ InOrder
  BY DEF OrderInv, SoloInv, IInv
<1>1. /\ at'[Live] = at[Backup(c)] /\ at'[Backup(c)] = NoDir /\ at[Backup(c)] # NoDir
      /\ \A b \in Deploys \ {c} : at'[Backup(b)] = at[Backup(b)]
  BY <1>0, RenamedAt, PathFacts, PathsApart DEF IsLatest, Present
<1>2. Backups' = Backups \ {c} /\ Present(Live)'
  BY <1>1 DEF Backups, Present
<1>3. /\ \A b \in Backups' : MtimeOfBackup(b)' = MtimeOfBackup(b)
      /\ \A i \in Ids : Mtime(i)' = Mtime(i)
      /\ Mtime(at[Live])' = MtimeOfBackup(c)
  BY <1>1, <1>2 DEF MtimeOfBackup, Mtime, Backups
<1>4. InOrder'
  BY <1>0, <1>2, <1>3, Times DEF InOrder, NoneGoesBack, IsLatest, Ids
<1>5. InFlight'
  BY <1>2 DEF InFlight
<1> QED BY <1>4, <1>5

\* The live checkout becomes the backup of the deploy that runs.
LEMMA BacksUpInOrder ==
    ASSUME OrderInv, NEW d \in Deploys, pc[d] \in Building, pc'[d] = "swapped_out",
           CanRename(Live, Backup(d)), at' = Renamed(Live, Backup(d)), dir' = dir,
           NoneGoesBack, \A e \in Deploys \ {d} : pc'[e] \notin Up \cup Down, rolling' = {}
    PROVE  InOrder' /\ InFlight'
<1>0. TypeOK /\ InOrder /\ Dated
  BY DEF OrderInv, SoloInv, IInv
<1>1. /\ at'[Live] = NoDir /\ at'[Backup(d)] = at[Live] /\ at[Live] # NoDir /\ at[Backup(d)] = NoDir
      /\ \A b \in Deploys \ {d} : at'[Backup(b)] = at[Backup(b)]
  BY <1>0, RenamedAt, PathFacts, PathsApart DEF CanRename, Present
<1>2. Backups' = Backups \cup {d} /\ ~Present(Live)' /\ d \notin Backups /\ Present(Live)
  BY <1>1 DEF Backups, Present
<1>3. /\ \A b \in Backups : MtimeOfBackup(b)' = MtimeOfBackup(b)
      /\ MtimeOfBackup(d)' = Mtime(at[Live])
      /\ \A i \in Ids : Mtime(i)' = Mtime(i)
  BY <1>1, <1>2 DEF MtimeOfBackup, Mtime, Backups
<1>4. at[Live] \in Ids /\ at[Live] # d
  BY <1>0, <1>2, Times, CloneApart DEF OrderInv, Building, BeforeSwap
<1>5. Mtime(at[Live]) < Mtime(d) /\ \A b \in Backups : Mtime(b) <= Mtime(at[Live])
  BY <1>0, <1>2, <1>4 DEF Dated, InOrder
<1>6. InOrder'
  <2>1. \A b \in Backups : b \in Ids
    BY DEF Backups, Ids
  <2>2. \A b \in Backups' : pc'[b] \notin {"idle"} \cup BeforeSwap
    BY <1>0, <1>2 DEF InOrder, NoneGoesBack, BeforeSwap, Backups
  <2>3. \A b \in Backups' : MtimeOfBackup(b)' < Mtime(b)'
    BY <1>0, <1>2, <1>3, <1>5, <2>1 DEF InOrder, Ids
  <2>4. \A b, c \in Backups' : b # c => Mtime(b)' <= MtimeOfBackup(c)' \/ Mtime(c)' <= MtimeOfBackup(b)'
    BY <1>0, <1>2, <1>3, <1>5, <2>1 DEF InOrder
  <2> QED BY <1>2, <2>2, <2>3, <2>4 DEF InOrder
<1>7. IsLatest(d)'
  BY <1>1, <1>2, <1>3, <1>5 DEF IsLatest, Present, Backups, Ids
<1> QED BY <1>2, <1>6, <1>7 DEF InFlight, Up, Down

\* The live checkout is set aside, under a path that is not a backup's, while the
\* latest backup is there to replace it.
LEMMA SetsAsideInOrder ==
    ASSUME OrderInv, NEW c \in Deploys, IsLatest(c),
           NEW to \in Paths, to # Live, \A b \in Deploys : to # Backup(b),
           at' = Renamed(Live, to), dir' = dir, NoneGoesBack,
           \A d \in Deploys : /\ pc'[d] \notin Up
                              /\ d \in rolling' \/ pc'[d] \in Down <=> d = c
    PROVE  InOrder' /\ InFlight'
<1>0. TypeOK /\ InOrder
  BY DEF OrderInv, SoloInv, IInv
<1>1. at'[Live] = NoDir /\ \A b \in Deploys : at'[Backup(b)] = at[Backup(b)]
  BY <1>0, RenamedAt, PathFacts, PathsApart
<1>2. Backups' = Backups /\ ~Present(Live)'
  BY <1>1 DEF Backups, Present
<1>3. /\ \A b \in Backups : MtimeOfBackup(b)' = MtimeOfBackup(b)
      /\ \A i \in Ids : Mtime(i)' = Mtime(i)
  BY <1>1 DEF MtimeOfBackup, Mtime, Backups
<1>4. InOrder'
  BY <1>0, <1>2, <1>3 DEF InOrder, NoneGoesBack, Backups, Ids
<1>5. IsLatest(c)'
  BY <1>1, <1>2, <1>3 DEF IsLatest, Present, Backups, Ids
<1> QED BY <1>2, <1>4, <1>5 DEF InFlight

\* The candidate goes live.
LEMMA GoesLiveInOrder ==
    ASSUME OrderInv, NEW d \in Deploys, pc[d] = "swapped_out", pc'[d] = "swapped_in",
           CanRename(Staging(d), Live), at' = Renamed(Staging(d), Live), dir' = dir,
           NoneGoesBack, \A e \in Deploys \ {d} : pc'[e] \notin Up \cup Down, rolling' = {}
    PROVE  InOrder' /\ InFlight'
<1>0. TypeOK /\ InOrder /\ Dated /\ InFlight /\ StagingOwn
  BY DEF OrderInv, SoloInv, IInv, Files
<1>1. /\ at'[Live] = d /\ d # NoDir
      /\ \A b \in Deploys : at'[Backup(b)] = at[Backup(b)]
  BY <1>0, RenamedAt, PathFacts, PathsApart, OriginalAssumption DEF CanRename, Present, StagingOwn, Ids
<1>2. Backups' = Backups /\ Present(Live)'
  BY <1>1 DEF Backups, Present
<1>3. /\ \A b \in Backups : MtimeOfBackup(b)' = MtimeOfBackup(b)
      /\ \A i \in Ids : Mtime(i)' = Mtime(i)
      /\ Mtime(at[Live])' = Mtime(d)
  BY <1>1 DEF MtimeOfBackup, Mtime, Backups
<1>4. \A b \in Backups : Mtime(b) <= Mtime(d)
  BY <1>0, Times DEF Dated, Building, Backups, Ids
<1>5. InOrder'
  BY <1>0, <1>2, <1>3, <1>4 DEF InOrder, NoneGoesBack, Backups, Ids
<1>6. Present(Backup(d))'
  BY <1>0, <1>1 DEF InFlight, Down, IsLatest, Present
<1> QED BY <1>1, <1>2, <1>5, <1>6 DEF InFlight, Up, Down

\* The clone of the deploy that runs is made, or built: no other directory changes,
\* and this one is neither live nor a backup.
LEMMA BuildsInOrder ==
    ASSUME OrderInv, NEW d \in Deploys, pc[d] \in BeforeSwap, SameOrder,
           \A i \in Ids \ {d} : dir'[i] = dir[i], NoneGoesBack,
           \A e \in Deploys : pc'[e] \notin Up \cup Down /\ pc[e] \notin Up \cup Down
    PROVE  InOrder' /\ InFlight'
<1>0. TypeOK /\ InOrder /\ InFlight /\ SoloInv
  BY DEF OrderInv, SoloInv, IInv
<1>1. d \notin Backups /\ at[Live] # d /\ \A b \in Deploys : at[Backup(b)] # d
  BY <1>0, CloneApart DEF InOrder
<1>2. Backups' = Backups /\ (Present(Live)' <=> Present(Live))
  BY DEF SameOrder, Backups, Present
<1>3. /\ \A b \in Backups : MtimeOfBackup(b)' = MtimeOfBackup(b)
      /\ \A i \in Ids \ {d} : Mtime(i)' = Mtime(i)
      /\ Present(Live) => Mtime(at[Live])' = Mtime(at[Live])
  <2>1. \A b \in Backups : b \in Deploys /\ at[Backup(b)] \in Ids \ {d}
    BY <1>0, <1>1, Times DEF Backups
  <2>2. Present(Live) => at[Live] \in Ids \ {d}
    BY <1>0, <1>1, Times
  <2> QED BY <2>1, <2>2 DEF SameOrder, MtimeOfBackup, Mtime
<1>4. \A b \in Backups : b \in Ids \ {d} /\ b \in Deploys
  BY <1>1 DEF Backups, Ids
<1>5. InOrder'
  BY <1>0, <1>2, <1>3, <1>4 DEF InOrder, NoneGoesBack
<1>6. rolling' = rolling /\ rolling \subseteq Deploys
  BY <1>0 DEF SameOrder, TypeOK
<1>7. \A c \in rolling : IsLatest(c)'
  <2> SUFFICES ASSUME NEW c \in rolling PROVE IsLatest(c)'
    OBVIOUS
  <2>1. IsLatest(c) /\ c \in Backups
    BY <1>0, <1>6 DEF InFlight, IsLatest, Backups
  <2>2. Present(Backup(c))'
    BY <1>6, <2>1 DEF IsLatest, SameOrder, Present
  <2> QED BY <1>2, <1>3, <1>4, <2>1, <2>2 DEF IsLatest
<1> QED BY <1>0, <1>2, <1>5, <1>6, <1>7 DEF InFlight

\* Prune keeps the latest backup, so that a deploy or a rollback that overlaps with
\* it finds the one that it needs.
LEMMA PruneInOrder ==
    ASSUME Orderly, OrderInv, Prune
    PROVE  Dated' /\ InOrder' /\ InFlight'
<1> USE PathFacts, PathsApart
<1>0. TypeOK /\ Dated /\ InOrder /\ InFlight
  BY DEF OrderInv, SoloInv, IInv
<1>1. PICK old \in SUBSET OldBackups :
         at' = [p \in Paths |-> IF \E d \in old : p = Backup(d) THEN NoDir ELSE at[p]]
  BY DEF Prune
<1>2. dir' = dir /\ pc' = pc /\ rolling' = rolling /\ clock' = clock
  BY DEF Prune
<1>3. old \subseteq Deploys
  BY DEF OldBackups, Backups
<1>4. /\ at'[Live] = at[Live]
      /\ \A b \in Deploys : at'[Backup(b)] = IF b \in old THEN NoDir ELSE at[Backup(b)]
  BY <1>1, <1>3
<1>5. Backups' = Backups \ old /\ (Present(Live)' <=> Present(Live))
  BY <1>4 DEF Backups, Present
<1>6. /\ \A b \in Backups' : MtimeOfBackup(b)' = MtimeOfBackup(b)
      /\ \A i : Mtime(i)' = Mtime(i) /\ Mtime(at[Live])' = Mtime(at[Live])
  BY <1>2, <1>4, <1>5 DEF MtimeOfBackup, Mtime, Backups
<1>7. Dated' /\ InOrder'
  BY <1>0, <1>2, <1>4, <1>5, <1>6 DEF Dated, InOrder
<1>8. ASSUME NEW c \in Deploys, IsLatest(c) PROVE c \notin old /\ IsLatest(c)'
  <2>1. {b \in Backups : Newer(b, c)} = {}
    BY <1>0, <1>8, LatestIsNewest
  <2>2. Cardinality({b \in Backups : Newer(b, c)}) = 0
    BY <2>1, FS_EmptySet
  <2>3. c \notin OldBackups
    BY <2>2, BoundsAssumption DEF OldBackups, Orderly
  <2>4. c \notin old
    BY <2>3
  <2>5. c \in Backups'
    BY <1>5, <1>8, <2>4 DEF IsLatest, Backups
  <2>6. Present(Backup(c))'
    BY <1>4, <1>8, <2>4 DEF IsLatest, Present
  <2> QED BY <1>5, <1>6, <1>8, <2>4, <2>5, <2>6 DEF IsLatest
<1>9. InFlight'
  <2>1. ASSUME NEW c \in Deploys, pc'[c] \in Up PROVE at'[Live] = c /\ Present(Backup(c))'
    <3>1. at[Live] = c /\ Present(Backup(c))
      BY <1>0, <1>2, <2>1 DEF InFlight
    <3>2. c \notin old
      BY <1>0, <1>8, <3>1, LiveIsLatest
    <3> QED BY <1>4, <3>1, <3>2 DEF Present
  <2>2. ASSUME NEW c \in Deploys, c \in rolling' \/ pc'[c] \in Down
        PROVE  ~Present(Live)' /\ IsLatest(c)'
    BY <1>0, <1>2, <1>5, <1>8, <2>2 DEF InFlight
  <2> QED BY <1>0, <1>2, <1>5, <2>1, <2>2 DEF InFlight
<1> QED BY <1>7, <1>9

\* The steps of a deploy that runs alone.
LEMMA StepOrder ==
    ASSUME Orderly, OrderInv, NEW d \in Deploys, pc[d] \in Running \/ ~Busy, Step(d)
    PROVE  Dated' /\ InOrder' /\ InFlight'
<1> USE DEF GoTo
<1>0. TypeOK /\ Dated /\ InOrder /\ InFlight /\ SoloInv
  BY DEF OrderInv, SoloInv, IInv
<1>1. /\ \A e \in Deploys \ {d} : pc'[e] = pc[e] /\ pc[e] \notin Running
      /\ rolling = {} /\ rolling' = {}
  BY <1>0, StepPlace DEF SoloInv, Solo, Busy
<1>2. \A e \in Deploys \ {d} : /\ pc'[e] \notin Up \cup Down \cup Building
                               /\ pc[e] \notin Up \cup Down \cup Building
  BY <1>1, Places DEF Up, Down, Building
<1>3. ASSUME SameOrder, SameTimes,
             pc'[d] \in Building => pc[d] \in Building,
             pc'[d] \in {"idle"} \cup BeforeSwap => pc[d] \in {"idle"} \cup BeforeSwap,
             pc'[d] \in Up => pc[d] \in Up,
             pc'[d] \in Down <=> pc[d] \in Down
      PROVE  Dated' /\ InOrder' /\ InFlight'
  <2>1. Dated'
    BY <1>0, <1>2, <1>3, KeepsDated
  <2>2. InOrder'
    BY <1>0, <1>1, <1>3, KeepsInOrder
  <2>3. InFlight'
    BY <1>0, <1>2, <1>3, KeepsInFlight
  <2> QED BY <2>1, <2>2, <2>3
<1>4. ASSUME SameTimes, pc'[d] \in Building => pc[d] \in Building PROVE Dated'
  BY <1>0, <1>2, <1>4, KeepsDated
<1>5. ASSUME pc'[d] \in {"idle"} \cup BeforeSwap => pc[d] \in {"idle"} \cup BeforeSwap
      PROVE  NoneGoesBack
  BY <1>1, <1>5 DEF NoneGoesBack
<1>6. ASSUME at'[Live] = at[Live], \A b \in Deploys : at'[Backup(b)] = at[Backup(b)]
      PROVE  SameOrder
  BY <1>1, <1>6 DEF SameOrder
<1>7. dir' = dir /\ clock' = clock => SameTimes
  BY DEF SameTimes
<1> USE DEF Up, Down, Building, BeforeSwap, files, promises
<1>8. ~JournalFails(d)
  BY DEF JournalFails, Orderly
<1>9. CASE \/ Authorise(d) \/ CheckClean(d) \/ StopService(d) \/ Recheck(d) \/ JournalBegin(d)
           \/ StartService(d) \/ AwaitHealth(d) \/ Finish(d) \/ ReportRolledBack(d)
  <2>1. at' = at /\ dir' = dir /\ clock' = clock
    BY <1>8, <1>9 DEF Authorise, CheckClean, StopService, Recheck, JournalBegin, StartService,
       AwaitHealth, Finish, ReportRolledBack
  <2>2. /\ pc'[d] \in Building => pc[d] \in Building
        /\ pc'[d] \in {"idle"} \cup BeforeSwap => pc[d] \in {"idle"} \cup BeforeSwap
        /\ pc'[d] \in Up => pc[d] \in Up
        /\ pc'[d] \notin Down /\ pc[d] \notin Down
    BY <1>0, <1>8, <1>9 DEF Authorise, CheckClean, StopService, Recheck, JournalBegin, StartService,
       AwaitHealth, Finish, ReportRolledBack, TypeOK
  <2> QED BY <1>3, <1>6, <1>7, <2>1, <2>2
<1>10. CASE StageClone(d)
  <2>1. pc[d] = "checked" /\ pc'[d] \in {"staged", "raising"} /\ clock' = clock
    BY <1>0, <1>10 DEF StageClone, TypeOK
  <2>2. /\ at'[Live] = at[Live] /\ \A b \in Deploys : at'[Backup(b)] = at[Backup(b)]
        /\ \A i \in Ids \ {d} : dir'[i] = dir[i]
        /\ dir'[d].mtime \in {0, dir[d].mtime}
    BY <1>0, <1>10, PathFacts, PathsApart DEF StageClone, TypeOK, NotCloned, Ids
  <2>3. Dated'
    BY <1>0, <1>2, <2>1, <2>2 DEF Dated, Mtime, TypeOK
  <2> QED BY <1>2, <1>5, <1>6, <2>1, <2>2, <2>3, BuildsInOrder
<1>11. CASE Build(d)
  <2>1. pc[d] = "staged" /\ pc'[d] \in {"built", "build_failed", "raising"}
    BY <1>0, <1>11 DEF Build, TypeOK, Orderly
  <2>2. /\ at'[Live] = at[Live] /\ \A b \in Deploys : at'[Backup(b)] = at[Backup(b)]
        /\ \A i \in Ids \ {d} : dir'[i] = dir[i]
    BY <1>0, <1>11, DiscardKeeps DEF Build, TypeOK, Orderly
  <2>3. \/ clock' = clock /\ dir' = dir /\ pc'[d] # "built"
        \/ clock' = clock + 1 /\ dir'[d].mtime = clock + 1
    BY <1>0, <1>11 DEF Build, BuiltCandidate, TypeOK, Ids, Orderly
  <2>4. Dated'
    BY <1>0, <1>2, <2>1, <2>2, <2>3, Times DEF Dated, Mtime
  <2> QED BY <1>2, <1>5, <1>6, <2>1, <2>2, <2>4, BuildsInOrder
<1>12. CASE CarryOver(d)
  <2>1. at' = at /\ clock' = clock /\ pc[d] = "rechecked" /\ pc'[d] \in {"carried", "raising"}
    BY <1>0, <1>12 DEF CarryOver, TypeOK, Orderly
  <2>2. \A i \in Ids : dir'[i].mtime = dir[i].mtime
    BY <1>0, <1>12 DEF CarryOver, Refreshed, TypeOK, Checkouts, Orderly
  <2> QED BY <1>3, <1>6, <2>1, <2>2 DEF SameTimes
<1>13. CASE Unwind(d)
  <2>1. /\ at'[Live] = at[Live] /\ \A b \in Deploys : at'[Backup(b)] = at[Backup(b)]
        /\ dir' = dir /\ clock' = clock
    BY <1>0, <1>13, DiscardKeeps DEF Unwind
  <2>2. pc[d] \in {"raising", "raising_keep"} /\ pc'[d] = "refused"
    BY <1>0, <1>13 DEF Unwind, TypeOK
  <2> QED BY <1>3, <1>6, <1>7, <2>1, <2>2
<1>14. ASSUME Escape(d), dir' = dir, clock' = clock, pc[d] \notin Down
       PROVE  Dated' /\ InOrder' /\ InFlight'
  BY <1>0, <1>3, <1>6, <1>7, <1>14, EscapeKeeps
<1>15. CASE SwapOut(d)
  <2>1. dir' = dir /\ clock' = clock /\ pc[d] \in {"carried", "journalled"}
    BY <1>15 DEF SwapOut
  <2>2. CASE Escape(d)
    BY <1>14, <2>1, <2>2
  <2>3. CASE CanRename(Live, Backup(d)) /\ at' = Renamed(Live, Backup(d)) /\ GoTo(d, "swapped_out")
    <3>1. pc'[d] = "swapped_out"
      BY <1>0, <2>3 DEF TypeOK
    <3>2. Dated' /\ NoneGoesBack
      BY <1>4, <1>5, <1>7, <2>1, <3>1
    <3> QED BY <1>1, <1>2, <2>1, <2>3, <3>1, <3>2, BacksUpInOrder
  <2> QED BY <1>15, <2>2, <2>3 DEF SwapOut
<1>16. CASE SwapIn(d)
  <2>1. dir' = dir /\ clock' = clock /\ pc[d] = "swapped_out"
    BY <1>16 DEF SwapIn
  <2>2. CASE CanRename(Staging(d), Live) /\ at' = Renamed(Staging(d), Live) /\ GoTo(d, "swapped_in")
    <3>1. pc'[d] = "swapped_in"
      BY <1>0, <2>2 DEF TypeOK
    <3>2. Dated' /\ NoneGoesBack
      BY <1>4, <1>5, <1>7, <2>1, <3>1
    <3> QED BY <1>1, <1>2, <2>1, <2>2, <3>1, <3>2, GoesLiveInOrder
  <2>3. CASE at' = at /\ GoTo(d, "heal")
    <3>1. pc'[d] = "heal"
      BY <1>0, <2>3 DEF TypeOK
    <3> QED BY <1>3, <1>6, <1>7, <2>1, <2>3, <3>1
  <2> QED BY <1>8, <1>16, <2>2, <2>3 DEF SwapIn
<1>17. CASE SelfHeal(d) \/ PutBack(d)
  <2>1. dir' = dir /\ clock' = clock /\ pc[d] \in Down
    BY <1>17 DEF SelfHeal, PutBack
  <2>2. ~Present(Live) /\ IsLatest(d)
    BY <1>0, <2>1 DEF InFlight
  <2>3. ~RenameMayFail(Backup(d), Live)
    BY <2>2 DEF RenameMayFail, CanRename, IsLatest, Orderly
  <2>4. at' = Renamed(Backup(d), Live) /\ pc'[d] \in {"raising_keep", "put_back"}
    BY <1>0, <1>17, <2>3 DEF SelfHeal, PutBack, Closed, TypeOK, Orderly
  <2>5. Dated' /\ NoneGoesBack
    BY <1>4, <1>5, <1>7, <2>1, <2>4
  <2>6. \A e \in Deploys : pc'[e] \notin Up \cup Down
    BY <1>2, <2>4
  <2> QED BY <1>1, <2>1, <2>2, <2>4, <2>5, <2>6, PutsBackInOrder
<1>18. CASE SetAside(d)
  <2>1. dir' = dir /\ clock' = clock /\ pc[d] = "unhealthy"
    BY <1>18 DEF SetAside
  <2>2. CASE Escape(d)
    BY <1>14, <2>1, <2>2
  <2>3. CASE at' = Renamed(Live, Failed(d)) /\ GoTo(d, "set_aside")
    <3>1. pc'[d] = "set_aside"
      BY <1>0, <2>3 DEF TypeOK
    <3>2. Dated' /\ NoneGoesBack
      BY <1>4, <1>5, <1>7, <2>1, <3>1
    <3>3. IsLatest(d)
      BY <1>0, <2>1, LiveIsLatest DEF InFlight
    <3>4. Failed(d) \in Paths /\ Failed(d) # Live /\ \A b \in Deploys : Failed(d) # Backup(b)
      BY PathFacts, PathsApart
    <3>5. \A e \in Deploys : pc'[e] \notin Up /\ (e \in rolling' \/ pc'[e] \in Down <=> e = d)
      BY <1>1, <1>2, <3>1
    <3> HIDE DEF Up, Down
    <3> QED BY <2>1, <2>3, <3>2, <3>3, <3>4, <3>5, SetsAsideInOrder
  <2> QED BY <1>18, <2>2, <2>3 DEF SetAside
<1> QED
  BY <1>9, <1>10, <1>11, <1>12, <1>13, <1>15, <1>16, <1>17, <1>18 DEF Step

LEMMA NextOrder ==
    ASSUME Orderly, OrderInv, [Next]_vars
    PROVE  OrderInv'
<1>0. TypeOK /\ Dated /\ InOrder /\ InFlight /\ SoloInv /\ OneAtATime
  BY DEF OrderInv, SoloInv, IInv, Orderly
<1>1. SoloInv'
  BY <1>0, NextSoloInv DEF OneAtATime, OneMover
<1>2. ASSUME SameOrder, SameTimes, pc' = pc PROVE Dated' /\ InOrder' /\ InFlight'
  BY <1>0, <1>2, KeepsDated, KeepsInOrder, KeepsInFlight
<1>3. ASSUME NEW d \in Deploys, Step(d) PROVE Dated' /\ InOrder' /\ InFlight'
  <2>1. pc[d] \in Running \/ ~Busy
    BY <1>0, <1>3, StepPlace DEF Authorise, MayRun, OneAtATime
  <2> QED BY <1>3, <2>1, StepOrder
<1>4. ASSUME NEW d \in Deploys, Crash(d) PROVE FALSE
  BY <1>4 DEF Crash, Orderly
<1>5. ASSUME Prune PROVE Dated' /\ InOrder' /\ InFlight'
  BY <1>5, PruneInOrder
<1>6. ASSUME Outside PROVE Dated' /\ InOrder' /\ InFlight'
  <2>1. clock' = clock
    BY <1>6 DEF Outside, Edit, ServiceWrite, Update, Orderly
  <2>2. ~Update
    BY DEF Update, Orderly
  <2> QED BY <1>0, <1>2, <1>6, <2>1, <2>2, OutsideKeeps, OtherPlace DEF SameOrder, SameTimes
<1>7. ASSUME ClearPending PROVE Dated' /\ InOrder' /\ InFlight'
  <2>1. at' = at /\ pc' = pc /\ rolling' = rolling /\ clock' = clock
    BY <1>7 DEF ClearPending, ChangeLive, promises
  <2>2. dir' = [dir EXCEPT ![at[Live]] = [LiveDir EXCEPT !.pending = FALSE]]
    BY <1>7 DEF ClearPending, ChangeLive
  <2>3. LiveDir = dir[at[Live]] /\ LiveDir \in Checkouts
    BY <1>0, <1>7, LiveDirType DEF ClearPending, LiveDir
  <2>4. [LiveDir EXCEPT !.pending = FALSE].mtime = LiveDir.mtime
    BY <2>3 DEF Checkouts
  <2>5. \A i \in Ids : dir'[i].mtime = dir[i].mtime
    BY <1>0, <2>2, <2>3, <2>4 DEF TypeOK
  <2> QED BY <1>2, <2>1, <2>5 DEF SameOrder, SameTimes
<1>8. ASSUME NEW d \in Deploys, Approve(d) PROVE Dated' /\ InOrder' /\ InFlight'
  BY <1>2, <1>8 DEF Approve, files, SameOrder, SameTimes
<1>9. ASSUME NEW d \in Deploys, Recover(d) PROVE Dated' /\ InOrder' /\ InFlight'
  <2>1. ~Busy
    BY <1>0, <1>9 DEF Recover, MayRun, OneAtATime
  <2>2. Present(Live)
    BY <1>0, <2>1, Places DEF InFlight, Busy, Down
  <2> QED BY <1>2, <1>9, <2>2 DEF Recover, CanRename, SameOrder, SameTimes, promises
<1>10. ASSUME NEW d \in Deploys, RollbackAside(d) PROVE Dated' /\ InOrder' /\ InFlight'
  <2>1. ~Busy /\ rolling = {} /\ \A e \in Deploys : pc[e] \notin Running
    BY <1>0, <1>10 DEF RollbackAside, MayRun, OneAtATime, Busy
  <2>2. \A e \in Deploys : pc[e] \notin Up \cup Down
    BY <2>1, Places DEF Up, Down
  <2>3. Present(Live)
    BY <1>0, <2>1, <2>2 DEF InFlight
  <2>4. /\ at' = Renamed(Live, Aside(d)) /\ rolling' = {d}
        /\ dir' = dir /\ clock' = clock /\ pc' = pc
    BY <1>10, <2>1, <2>3 DEF RollbackAside
  <2>5. IsLatest(d)
    BY <1>0, <1>10, NewestIsLatest DEF RollbackAside, Orderly
  <2>6. Aside(d) \in Paths /\ Aside(d) # Live /\ \A b \in Deploys : Aside(d) # Backup(b)
    BY PathFacts, PathsApart
  <2>7. Dated'
    BY <1>0, <2>4, KeepsDated DEF SameTimes
  <2>8. \A e \in Deploys : pc'[e] \notin Up /\ (e \in rolling' \/ pc'[e] \in Down <=> e = d)
    BY <2>2, <2>4
  <2> QED BY <2>4, <2>5, <2>6, <2>7, <2>8, SetsAsideInOrder DEF NoneGoesBack
<1>11. ASSUME NEW d \in Deploys, RollbackPut(d) PROVE Dated' /\ InOrder' /\ InFlight'
  <2>1. d \in rolling /\ rolling' = {} /\ \A e \in Deploys : pc[e] \notin Running
    BY <1>0, <1>11 DEF RollbackPut, SoloInv, Solo
  <2>2. ~Present(Live) /\ IsLatest(d)
    BY <1>0, <2>1 DEF InFlight
  <2>3. ~RenameMayFail(Backup(d), Live)
    BY <2>2 DEF RenameMayFail, CanRename, IsLatest, Orderly
  <2>4. at' = Renamed(Backup(d), Live) /\ dir' = dir /\ clock' = clock /\ pc' = pc
    BY <1>11, <2>3 DEF RollbackPut, Orderly
  <2>5. \A e \in Deploys : pc'[e] \notin Up \cup Down
    BY <2>1, <2>4, Places DEF Up, Down
  <2>6. Dated'
    BY <1>0, <2>4, KeepsDated DEF SameTimes
  <2> QED BY <2>1, <2>2, <2>4, <2>5, <2>6, PutsBackInOrder DEF NoneGoesBack
<1>12. ASSUME UNCHANGED vars PROVE Dated' /\ InOrder' /\ InFlight'
  BY <1>2, <1>12 DEF vars, SameOrder, SameTimes
<1>13. Dated' /\ InOrder' /\ InFlight'
  BY <1>3, <1>4, <1>5, <1>6, <1>7, <1>8, <1>9, <1>10, <1>11, <1>12 DEF Next, Operator
<1> QED BY <1>1, <1>13 DEF OrderInv

LEMMA InitOrder == Init => OrderInv
<1> SUFFICES ASSUME Init PROVE Dated /\ InOrder /\ InFlight
  BY InitSolo DEF OrderInv
<1>1. Present(Live) /\ Backups = {}
  BY PathFacts, OriginalAssumption DEF Init, Present, Backups, Ids
<1>2. \A i \in Ids : Mtime(i) = 0
  BY DEF Init, Mtime, FirstCheckout, NotCloned
<1> QED BY <1>1, <1>2 DEF Init, Dated, InOrder, InFlight, Building, Up, Down

LEMMA OrderKept == Orderly => (Spec => []OrderInv)
<1> SUFFICES ASSUME Orderly PROVE Spec => []OrderInv
  OBVIOUS
<1>1. OrderInv /\ [Next]_vars => OrderInv'
  BY NextOrder
<1> QED BY <1>1, InitOrder, PTL DEF Spec

\* In orderly circumstances, whatever is deployed, found unhealthy, rolled back,
\* recovered and pruned: the backup that `control rollback' takes by default, the
\* newest by date, is the one that the checkout which is live now replaced.
THEOREM DefaultIsLast == Orderly => (Spec => []DefaultRollbackUndoesLast)
<1> SUFFICES ASSUME Orderly PROVE Spec => []DefaultRollbackUndoesLast
  OBVIOUS
<1>1. OrderInv => DefaultRollbackUndoesLast
  BY LiveIsLatest, LatestIsNewest DEF OrderInv, SoloInv, IInv, DefaultRollbackUndoesLast
<1> QED BY <1>1, OrderKept, PTL

\* In the same circumstances a prune in the middle of a deploy leaves it the backup
\* that it may yet have to put back.
THEOREM BackupIsThere == Orderly => (Spec => []BackupForRollback)
<1> SUFFICES ASSUME Orderly PROVE Spec => []BackupForRollback
  OBVIOUS
<1>1. OrderInv => BackupForRollback
  BY DEF OrderInv, InFlight, IsLatest, BackupForRollback, Up, Down
<1> QED BY <1>1, OrderKept, PTL
=============================================================================
