------------------------- MODULE IncidentReview_proofs -------------------------
(***************************************************************************)
(* What holds of incident proposals for any listeners, deciders, messages  *)
(* and limits, with kills and lock timeouts anywhere.                      *)
(***************************************************************************)
EXTENDS IncidentReview, WellFoundedInduction, TLAPS

People == Listeners \cup Deciders

\* The places at which a program holds the lock of the pending file.
Deciding == {"approving", "reaching", "recording", "rejecting"}
Holding == {"adding"} \cup Deciding

\* Each accepted proposal has a number of its own, and there is a last one.
Numbered ==
    /\ \A e \in accepted : e.nth \in Nat
    /\ \E last0 \in Nat : \A e \in accepted : e.nth <= last0

\* The pending file holds what was accepted and not decided, one entry for each incident id.
PendingFile ==
    /\ pending \in Seq(accepted)
    /\ \A i, j \in DOMAIN pending : pending[i].id = pending[j].id => i = j
    /\ \A e \in accepted : e \in ToSet(pending) \/ \E x \in decided : x[1] = e
    /\ \A x \in decided : x[1] \in accepted /\ x[1] \notin ToSet(pending)

\* Who holds the lock has the file as it is; a decider the one entry it was asked to decide.
Held(p) ==
    pc[p] \in Holding =>
        /\ pendingLock = p /\ loaded[p] = pending
        /\ p \in Deciders /\ pc[p] # "adding" =>
               \E e \in ToSet(pending) : asked[p] = {e}

\* What was approved has reached the store, and nothing else has, but for what is being
\* recorded, or was when a program died.
Decided ==
    /\ \A x, y \in decided : x[1] = y[1] => x = y
    /\ \A x \in decided : x[2] = "approved" => x[1] \in reached
    /\ \A d \in Deciders : pc[d] = "recording" => asked[d] \subseteq reached
    /\ crashes = 0 =>
           \A e \in reached :
               <<e, "approved">> \in decided \/ \E d \in Deciders : pc[d] = "recording" /\ e \in asked[d]

Shape ==
    /\ pc \in [Procs -> PcValues] /\ crashes \in Nat
    /\ loaded = [p \in People |-> loaded[p]] /\ asked = [d \in Deciders |-> asked[d]]
    /\ \A p \in Deciders : pc[p] # "adding"
    /\ \A p \in Listeners : pc[p] \notin Deciding

IInv ==
    /\ Shape /\ Numbered /\ PendingFile /\ Decided
    /\ \A p \in People : Held(p)

-----------------------------------------------------------------------------
(* Numbers and sequences.                                                  *)

LEMMA LeastMember ==
    ASSUME NEW S \in SUBSET Nat, S # {}
    PROVE  \E k \in S : \A m \in S : k <= m
<1> DEFINE less == OpToRel(<, Nat)
<1>1. IsWellFoundedOn(less, Nat) BY NatLessThanWellFounded
<1>2. \A x, y \in Nat : <<x, y>> \in less <=> x < y BY DEF OpToRel
<1> HIDE DEF less
<1>3. PICK k \in S : \A m \in S : <<m, k>> \notin less BY <1>1, WFMin, Zenon
<1>4. \A m \in S : m \in Nat /\ k \in Nat /\ ~(m < k) BY <1>2, <1>3
<1>5. \A m \in S : k <= m BY <1>4
<1> QED BY <1>5

LEMMA GreatestMember ==
    ASSUME NEW S \in SUBSET Nat, S # {}, NEW b \in Nat, \A s \in S : s <= b
    PROVE  Max(S) \in S /\ \A s \in S : s <= Max(S)
<1> DEFINE down == {b - s : s \in S}
<1>1. down \in SUBSET Nat /\ down # {}
  <2>1. \A s \in S : b - s \in Nat OBVIOUS
  <2> QED BY <2>1
<1>2. PICK k \in down : \A m \in down : k <= m BY <1>1, LeastMember
<1>3. PICK g \in S : k = b - g BY <1>2
<1>4. \A s \in S : g >= s BY <1>2, <1>3
<1> QED BY <1>3, <1>4 DEF Max

LEMMA AppendedSet ==
    ASSUME NEW S, NEW s \in Seq(S), NEW e
    PROVE  /\ DOMAIN Append(s, e) = 1..Len(s) + 1 /\ DOMAIN s = 1..Len(s) /\ Len(s) \in Nat
           /\ \A i \in 1..Len(s) : Append(s, e)[i] = s[i]
           /\ Append(s, e)[Len(s) + 1] = e
           /\ ToSet(Append(s, e)) = ToSet(s) \cup {e}
<1> DEFINE T == S \cup {e}
<1>0. s \in Seq(T) /\ e \in T OBVIOUS
<1> HIDE DEF T
<1>1. Len(s) \in Nat /\ DOMAIN s = 1..Len(s) /\ DOMAIN Append(s, e) = 1..Len(s) + 1 BY <1>0
<1>2. \A i \in 1..Len(s) : i \in 1..Len(s) + 1 /\ Append(s, e)[i] = s[i] BY <1>0
<1>3. Append(s, e)[Len(s) + 1] = e /\ Len(s) + 1 \in 1..Len(s) + 1 BY <1>0, <1>1
<1>4. 1..Len(s) + 1 = 1..Len(s) \cup {Len(s) + 1} BY <1>1
<1> QED BY <1>1, <1>2, <1>3, <1>4 DEF ToSet

\* What is left of a list without its i-th element.
LEMMA Removed ==
    ASSUME NEW S, NEW s \in Seq(S), NEW i \in DOMAIN s
    PROVE  /\ RemoveAt(s, i) \in Seq(S)
           /\ DOMAIN RemoveAt(s, i) = 1..Len(s) - 1 /\ DOMAIN s = 1..Len(s) /\ Len(s) \in Nat
           /\ \A j \in 1..Len(s) - 1 :
                  RemoveAt(s, i)[j] = IF j < i THEN s[j] ELSE s[j + 1]
<1> DEFINE front == SubSeq(s, 1, i - 1)
           back == SubSeq(s, i + 1, Len(s))
<1>1. Len(s) \in Nat /\ DOMAIN s = 1..Len(s) /\ i \in 1..Len(s) /\ i \in Nat OBVIOUS
<1>2. /\ front \in Seq(S) /\ Len(front) = i - 1
      /\ \A j \in 1..i - 1 : front[j] = s[j]
  BY <1>1
<1>3. /\ back \in Seq(S) /\ Len(back) = Len(s) - i
      /\ \A j \in 1..Len(s) - i : back[j] = s[i + j]
  BY <1>1
<1>4. RemoveAt(s, i) = front \o back BY DEF RemoveAt
<1> HIDE DEF front, back
<1>5. front \o back \in Seq(S) /\ Len(front \o back) = Len(s) - 1
  <2>1. front \o back \in Seq(S) BY <1>2, <1>3
  <2>2. Len(front \o back) = Len(front) + Len(back)
    <3>1. front \in Seq(S) /\ back \in Seq(S) BY <1>2, <1>3
    <3> QED BY <3>1
  <2> QED BY <1>1, <1>2, <1>3, <2>1, <2>2
<1>6. DOMAIN (front \o back) = 1..Len(s) - 1 BY <1>5
<1>7. ASSUME NEW j \in 1..Len(s) - 1
      PROVE  (front \o back)[j] = IF j < i THEN s[j] ELSE s[j + 1]
  <2>1. CASE j < i BY <1>1, <1>2, <1>3, <2>1
  <2>2. CASE ~(j < i)
    <3>1. (front \o back)[j] = back[j - (i - 1)] BY <1>1, <1>2, <1>3, <2>2
    <3>2. j - (i - 1) \in 1..Len(s) - i /\ i + (j - (i - 1)) = j + 1 BY <1>1, <2>2
    <3> QED BY <1>3, <2>2, <3>1, <3>2
  <2> QED BY <2>1, <2>2
<1> QED BY <1>1, <1>4, <1>5, <1>6, <1>7

-----------------------------------------------------------------------------
LEMMA InitInv == Init => IInv
<1> SUFFICES ASSUME Init PROVE IInv OBVIOUS
<1>1. /\ pc = [p \in Procs |-> "idle"] /\ crashes = 0 /\ pending = <<>>
      /\ loaded = [p \in People |-> <<>>] /\ asked = [d \in Deciders |-> {}]
      /\ accepted = {} /\ reached = {} /\ decided = {}
  BY DEF Init, StoreInit, IntakeInit, People
<1>2. People \subseteq Procs BY ReviewAssumption DEF People
<1>3. Shape BY <1>1, <1>2 DEF Shape, PcValues, People, Deciding
<1>4. Numbered BY <1>1 DEF Numbered
<1>5. PendingFile BY <1>1 DEF PendingFile
<1>6. Decided BY <1>1 DEF Decided
<1>7. \A p \in People : Held(p) BY <1>1, <1>2 DEF Held, Holding, Deciding
<1> QED BY <1>3, <1>4, <1>5, <1>6, <1>7 DEF IInv

-----------------------------------------------------------------------------
(* Steps that leave the pending file, and who holds it, alone.             *)

Files == <<pending, pendingLock, loaded, asked, accepted, reached, decided>>

LEMMA QuietStep ==
    ASSUME IInv, UNCHANGED Files, pc' \in [Procs -> PcValues],
           \/ crashes' = crashes
           \/ crashes' = crashes + 1,
           \A p \in People : \/ pc'[p] = pc[p]
                             \/ pc[p] \notin Holding /\ pc'[p] \notin Holding
                             \/ pc[p] = "approving" /\ pc'[p] = "reaching"
    PROVE  IInv'
<1> USE DEF Files
<1>1. Shape'
  <2>1. \A p \in People : pc'[p] \in Deciding => pc[p] \in Deciding BY DEF Holding, Deciding
  <2>2. \A p \in People : pc'[p] = "adding" => pc[p] = "adding" BY DEF Holding
  <2> QED BY <2>1, <2>2 DEF IInv, Shape, People
<1>2. Numbered' BY DEF IInv, Numbered
<1>3. PendingFile' BY DEF IInv, PendingFile
<1>4. Decided'
  <2>1. \A d \in Deciders : pc'[d] = "recording" <=> pc[d] = "recording"
    BY DEF People, Holding, Deciding
  <2>2. crashes' = 0 => crashes = 0 BY DEF IInv, Shape
  <2> QED BY <2>1, <2>2 DEF IInv, Decided
<1>5. ASSUME NEW p \in People PROVE Held(p)'
  <2>1. pc'[p] \in Holding => pc[p] \in Holding BY DEF Holding, Deciding
  <2>2. pc'[p] = "adding" <=> pc[p] = "adding" BY DEF Holding, Deciding
  <2> QED BY <2>1, <2>2 DEF IInv, Held
<1> QED BY <1>1, <1>2, <1>3, <1>4, <1>5 DEF IInv

\* A program goes on, where it neither takes nor gives back the lock of the pending file.
LEMMA GoesOn ==
    ASSUME IInv, UNCHANGED Files, UNCHANGED crashes, NEW p \in Procs, NEW where \in PcValues,
           GoTo(p, where),
           \/ p \notin People
           \/ pc[p] \notin Holding /\ where \notin Holding
           \/ pc[p] = "approving" /\ where = "reaching"
    PROVE  IInv'
<1>1. pc' = [pc EXCEPT ![p] = where] /\ pc \in [Procs -> PcValues] BY DEF GoTo, IInv, Shape
<1>2. \A q \in Procs : pc'[q] = IF q = p THEN where ELSE pc[q] BY <1>1
<1>3. pc' \in [Procs -> PcValues] BY <1>1
<1>4. People \subseteq Procs BY ReviewAssumption DEF People
<1> QED BY <1>2, <1>3, <1>4, QuietStep

-----------------------------------------------------------------------------
(* A program dies.                                                         *)

LEMMA DiesStep ==
    ASSUME IInv, NEW p \in Procs, Dies(p), IntakeDies(p)
    PROVE  IInv'
<1>1. /\ pc' = [pc EXCEPT ![p] = "idle"] /\ crashes' = crashes + 1
      /\ pendingLock' = IF pendingLock = p THEN None ELSE pendingLock
      /\ loaded' = [q \in DOMAIN loaded |-> IF q = p THEN <<>> ELSE loaded[q]]
      /\ asked' = [d \in Deciders |-> IF d = p THEN {} ELSE asked[d]]
      /\ UNCHANGED <<pending, accepted, reached, decided>>
  BY DEF Dies, GoTo, IntakeDies, ghosts
<1>2. /\ People \subseteq Procs /\ Shape /\ Deciders \subseteq People
  BY ReviewAssumption DEF People, IInv
<1>3. /\ \A q \in Procs : pc'[q] = IF q = p THEN "idle" ELSE pc[q]
      /\ pc' \in [Procs -> PcValues] /\ crashes' \in Nat /\ crashes' # 0
  BY <1>1, <1>2 DEF Shape, PcValues
<1>4. DOMAIN loaded = People BY <1>2 DEF Shape
<1>5. /\ loaded' = [q \in People |-> loaded'[q]] /\ asked' = [d \in Deciders |-> asked'[d]]
      /\ \A q \in People \ {p} : loaded'[q] = loaded[q]
      /\ \A d \in Deciders \ {p} : asked'[d] = asked[d]
  BY <1>1, <1>4
<1>6. Shape' BY <1>2, <1>3, <1>5 DEF Shape, Deciding, People
<1>7. Numbered' BY <1>1 DEF IInv, Numbered
<1>8. PendingFile' BY <1>1 DEF IInv, PendingFile
<1>9. Decided'
  <2>1. \A d \in Deciders : pc'[d] = "recording" => pc[d] = "recording" /\ asked'[d] = asked[d]
    BY <1>2, <1>3, <1>5
  <2> QED BY <1>1, <1>3, <2>1 DEF IInv, Decided
<1>10. ASSUME NEW q \in People PROVE Held(q)'
  <2>1. CASE q = p BY <1>2, <1>3, <2>1 DEF Held, Holding, Deciding
  <2>2. CASE q # p
    <3>1. pc'[q] = pc[q] /\ loaded'[q] = loaded[q] /\ Held(q) /\ (q \in Deciders => asked'[q] = asked[q])
      BY <1>2, <1>3, <1>5, <2>2 DEF IInv
    <3>2. pendingLock = q => pendingLock' = q BY <1>1, <2>2
    <3> QED BY <1>1, <3>1, <3>2 DEF Held
  <2> QED BY <2>1, <2>2
<1> QED BY <1>6, <1>7, <1>8, <1>9, <1>10 DEF IInv

-----------------------------------------------------------------------------
(* The lock is taken.                                                      *)

LEMMA AddLoadsKeeps ==
    ASSUME IInv, NEW l \in Listeners, AddLoads(l)
    PROVE  IInv'
<1>1. /\ pendingLock = None /\ pendingLock' = l
      /\ loaded' = [loaded EXCEPT ![l] = pending] /\ pc' = [pc EXCEPT ![l] = "adding"]
      /\ UNCHANGED <<pending, asked, accepted, reached, decided, crashes>>
  BY DEF AddLoads, LockPending, GoTo, ghosts
<1>2. Shape /\ People \subseteq Procs /\ l \in People /\ l \notin Deciders /\ None \notin Procs
  BY ReviewAssumption, StoreAssumption DEF IInv, People
<1>3. /\ \A q \in Procs : pc'[q] = IF q = l THEN "adding" ELSE pc[q]
      /\ pc' \in [Procs -> PcValues]
      /\ \A q \in People : loaded'[q] = IF q = l THEN pending ELSE loaded[q]
      /\ loaded' = [q \in People |-> loaded'[q]]
  BY <1>1, <1>2 DEF Shape, PcValues
<1>4. \A q \in People : pc[q] \notin Holding BY <1>1, <1>2 DEF IInv, Held
<1>5. Shape' BY <1>1, <1>2, <1>3 DEF Shape, Deciding, People
<1>6. Numbered' /\ PendingFile' BY <1>1 DEF IInv, Numbered, PendingFile
<1>7. \A d \in Deciders : d \in Procs /\ (pc'[d] = "recording" <=> pc[d] = "recording")
  BY <1>2, <1>3 DEF People
<1>8. Decided' BY <1>1, <1>7 DEF IInv, Decided
<1>9. \A q \in People : Held(q)' BY <1>1, <1>2, <1>3, <1>4 DEF Held
<1> QED BY <1>5, <1>6, <1>8, <1>9 DEF IInv

LEMMA DecideLoadsKeeps ==
    ASSUME IInv, NEW d \in Deciders, DecideLoads(d)
    PROVE  IInv'
<1>1. PICK m \in sent, where \in {"approving", "rejecting"} :
        /\ Found(pending, m.id) # {} /\ pc' = [pc EXCEPT ![d] = where]
        /\ asked' = [asked EXCEPT ![d] = Found(pending, m.id)]
  BY DEF DecideLoads, GoTo
<1>2. /\ pendingLock = None /\ pendingLock' = d
      /\ loaded' = [loaded EXCEPT ![d] = pending]
      /\ UNCHANGED <<pending, accepted, reached, decided, crashes>>
  BY DEF DecideLoads, LockPending
<1>3. /\ Shape /\ People \subseteq Procs /\ d \in People /\ d \notin Listeners /\ None \notin Procs
      /\ Deciders \subseteq People
  BY ReviewAssumption, StoreAssumption DEF IInv, People
<1>4. /\ \A q \in Procs : pc'[q] = IF q = d THEN where ELSE pc[q]
      /\ pc' \in [Procs -> PcValues]
      /\ \A q \in People : loaded'[q] = IF q = d THEN pending ELSE loaded[q]
      /\ loaded' = [q \in People |-> loaded'[q]]
      /\ \A q \in Deciders : asked'[q] = IF q = d THEN Found(pending, m.id) ELSE asked[q]
      /\ asked' = [q \in Deciders |-> asked'[q]]
  BY <1>1, <1>2, <1>3 DEF Shape, PcValues
<1>5. \A q \in People : pc[q] \notin Holding BY <1>2, <1>3 DEF IInv, Held
<1>6. \E e \in ToSet(pending) : Found(pending, m.id) = {e}
  <2>1. PICK e \in ToSet(pending) : e.id = m.id BY <1>1 DEF Found
  <2>2. \A f \in ToSet(pending) : f.id = m.id => f = e
    BY <2>1 DEF IInv, PendingFile, ToSet
  <2> QED BY <2>1, <2>2 DEF Found
<1>7. Shape' BY <1>2, <1>3, <1>4 DEF Shape, Deciding, People
<1>8. Numbered' /\ PendingFile' BY <1>2 DEF IInv, Numbered, PendingFile
<1>9. \A q \in Deciders : pc'[q] # "recording" /\ pc[q] # "recording"
  BY <1>3, <1>4, <1>5 DEF Holding, Deciding
<1>10. Decided' BY <1>2, <1>9 DEF IInv, Decided
<1>11. \A q \in People : Held(q)' BY <1>2, <1>3, <1>4, <1>5, <1>6 DEF Held
<1> QED BY <1>7, <1>8, <1>10, <1>11 DEF IInv

-----------------------------------------------------------------------------
(* The file is saved, and the lock given back.                             *)

\* No other program is past its lock while p is.
LEMMA OneHolder ==
    ASSUME IInv, NEW p \in People, pc[p] \in Holding, NEW q \in People \ {p}
    PROVE  pc[q] \notin Holding
BY DEF IInv, Held

\* What p saves, with the lock it holds, leaves the rest of what the programs hold in order.
LEMMA SavedHeld ==
    ASSUME IInv, NEW p \in People, pc[p] \in Holding,
           NEW where \in PcValues \ Holding, pc' = [pc EXCEPT ![p] = where],
           NEW entries, SavePending(p, entries), UNCHANGED crashes,
           asked' \in {asked, [asked EXCEPT ![p] = {}]}
    PROVE  Shape' /\ (\A q \in People : Held(q)') /\ pending' = entries
           /\ \A q \in Deciders : pc'[q] # "recording"
<1>1. Shape /\ People \subseteq Procs /\ Deciders \subseteq People
  BY ReviewAssumption DEF IInv, People
<1>2. /\ \A q \in Procs : pc'[q] = IF q = p THEN where ELSE pc[q]
      /\ pc' \in [Procs -> PcValues]
  BY <1>1 DEF Shape
<1>3. \A q \in People : pc'[q] \notin Holding BY <1>1, <1>2, OneHolder
<1>4. loaded' = [q \in People |-> loaded'[q]] BY <1>1 DEF Shape, SavePending
<1>5. asked' = [q \in Deciders |-> asked'[q]] BY <1>1 DEF Shape
<1>6. Shape' BY <1>1, <1>2, <1>3, <1>4, <1>5 DEF Shape, Holding, People
<1>7. \A q \in People : Held(q)' BY <1>3 DEF Held
<1>8. \A q \in Deciders : pc'[q] # "recording" BY <1>1, <1>3 DEF Holding, Deciding
<1> QED BY <1>6, <1>7, <1>8 DEF SavePending

\* The new entry takes the place of the one with its id, or goes to the end, or there is no
\* room for it.
LEMMA AddedEntries ==
    ASSUME NEW S, NEW entries \in Seq(S), NEW e,
           \A i, j \in DOMAIN entries : entries[i].id = entries[j].id => i = j
    PROVE  /\ Added(entries, e) \in Seq(ToSet(Added(entries, e)))
           /\ ToSet(Added(entries, e)) \subseteq ToSet(entries) \cup {e}
           /\ \A i, j \in DOMAIN Added(entries, e) :
                  Added(entries, e)[i].id = Added(entries, e)[j].id => i = j
<1> DEFINE new == Added(entries, e)
<1>1. Len(entries) \in Nat /\ DOMAIN entries = 1..Len(entries)
      /\ entries = [i \in 1..Len(entries) |-> entries[i]]
  OBVIOUS
<1>2. \A i \in DOMAIN entries : entries[i] \in ToSet(entries) BY DEF ToSet
<1>3. CASE \E i \in DOMAIN entries : entries[i].id = e.id
  <2>1. new = [i \in 1..Len(entries) |-> IF entries[i].id = e.id THEN e ELSE entries[i]]
    BY <1>1, <1>3 DEF Added
  <2> HIDE DEF new
  <2>2. DOMAIN new = 1..Len(entries) /\ \A i \in 1..Len(entries) : new[i] \in ToSet(new)
    BY <2>1 DEF ToSet
  <2>3. new \in Seq(ToSet(new)) BY <1>1, <2>1, <2>2
  <2>4. \A i \in 1..Len(entries) : new[i].id = entries[i].id BY <2>1
  <2>5. ToSet(new) \subseteq ToSet(entries) \cup {e} BY <1>1, <1>2, <2>1, <2>2 DEF ToSet
  <2> QED BY <1>1, <2>2, <2>3, <2>4, <2>5 DEF new
<1>4. CASE ~(\E i \in DOMAIN entries : entries[i].id = e.id) /\ Len(entries) < MaxPending
  <2>1. new = Append(entries, e) BY <1>4 DEF Added
  <2> HIDE DEF new
  <2>2. /\ DOMAIN new = 1..Len(entries) + 1 /\ new[Len(entries) + 1] = e
        /\ \A i \in 1..Len(entries) : new[i] = entries[i]
        /\ ToSet(new) = ToSet(entries) \cup {e}
    BY <2>1, AppendedSet
  <2>3. entries \in Seq(ToSet(new)) /\ e \in ToSet(new) BY <1>1, <1>2, <2>2
  <2>4. new \in Seq(ToSet(new)) BY <2>1, <2>3
  <2>5. \A i, j \in DOMAIN new : new[i].id = new[j].id => i = j
    BY <1>1, <1>4, <2>2
  <2> QED BY <2>2, <2>4, <2>5 DEF new
<1>5. CASE ~(\E i \in DOMAIN entries : entries[i].id = e.id) /\ ~(Len(entries) < MaxPending)
  <2>1. new = entries BY <1>5 DEF Added
  <2> HIDE DEF new
  <2>2. entries \in Seq(ToSet(entries)) BY <1>1, <1>2
  <2> QED BY <2>1, <2>2 DEF new
<1> QED BY <1>3, <1>4, <1>5

LEMMA AddSavesKeeps ==
    ASSUME IInv, NEW l \in Listeners, AddSaves(l)
    PROVE  IInv'
<1> DEFINE numbers == {0} \cup {x.nth : x \in accepted}
<1>0. PICK m \in handling[l] :
        LET entry == [id |-> m.id, node |-> m.source, nth |-> 1 + Max(numbers)]
        IN  /\ SavePending(l, Added(loaded[l], entry))
            /\ accepted' = (accepted \ ToSet(loaded[l])) \cup ToSet(Added(loaded[l], entry))
  BY DEF AddSaves
<1>1. PICK e :
        /\ e = [id |-> m.id, node |-> m.source, nth |-> 1 + Max(numbers)]
        /\ SavePending(l, Added(loaded[l], e))
        /\ accepted' = (accepted \ ToSet(loaded[l])) \cup ToSet(Added(loaded[l], e))
  BY <1>0
<1>2. /\ pc[l] = "adding" /\ pc' = [pc EXCEPT ![l] = "listening"]
      /\ UNCHANGED <<crashes, asked, reached, decided>>
  BY DEF AddSaves, GoTo
<1>3. l \in People /\ "listening" \in PcValues \ Holding /\ pc[l] \in Holding
  BY <1>2 DEF People, PcValues, Holding, Deciding
<1>4. loaded[l] = pending BY <1>3 DEF IInv, Held
<1>5. /\ Shape' /\ (\A q \in People : Held(q)') /\ pending' = Added(pending, e)
      /\ \A q \in Deciders : pc'[q] # "recording"
  BY <1>1, <1>2, <1>3, <1>4, SavedHeld
<1>6. /\ \A x \in accepted : x.nth \in Nat /\ x.nth < e.nth
      /\ e.nth \in Nat
  <2>1. PICK b \in Nat : \A x \in accepted : x.nth <= b BY DEF IInv, Numbered
  <2>2. numbers \in SUBSET Nat /\ numbers # {} BY DEF IInv, Numbered
  <2>3. \A k \in numbers : k <= b BY <2>1
  <2> HIDE DEF numbers
  <2>4. Max(numbers) \in numbers /\ \A k \in numbers : k <= Max(numbers)
    BY <2>1, <2>2, <2>3, GreatestMember
  <2>5. e.nth = 1 + Max(numbers) /\ Max(numbers) \in Nat BY <1>1, <2>2, <2>4
  <2>6. \A x \in accepted : x.nth \in numbers BY DEF numbers
  <2> QED BY <2>2, <2>4, <2>5, <2>6
<1> HIDE DEF numbers
<1>7. e \notin accepted BY <1>6
<1>8. /\ pending' \in Seq(ToSet(pending')) /\ ToSet(pending') \subseteq ToSet(pending) \cup {e}
      /\ \A i, j \in DOMAIN pending' : pending'[i].id = pending'[j].id => i = j
  BY <1>5, AddedEntries DEF IInv, PendingFile
<1>9. accepted' = (accepted \ ToSet(pending)) \cup ToSet(pending') BY <1>1, <1>4, <1>5
<1>10. ToSet(pending) \subseteq accepted BY DEF IInv, PendingFile, ToSet
<1>11. Numbered'
  <2>1. \A x \in accepted' : x \in accepted \/ x = e BY <1>8, <1>9, <1>10
  <2>2. \A x \in accepted' : x.nth \in Nat /\ x.nth <= e.nth BY <1>6, <2>1
  <2> QED BY <1>6, <2>2 DEF Numbered
<1>12. PendingFile'
  <2>1. pending' \in Seq(accepted') BY <1>8, <1>9
  <2>2. \A x \in accepted' : x \in ToSet(pending') \/ \E y \in decided : y[1] = x
    BY <1>9 DEF IInv, PendingFile
  <2>3. \A x \in decided : x[1] \in accepted' /\ x[1] \notin ToSet(pending')
    BY <1>7, <1>8, <1>9 DEF IInv, PendingFile
  <2> QED BY <1>2, <1>8, <2>1, <2>2, <2>3 DEF PendingFile
<1>13. \A q \in Deciders : pc[q] # "recording"
  <2>1. \A q \in Deciders : q \in People \ {l} BY ReviewAssumption DEF People
  <2> QED BY <1>3, <2>1, OneHolder DEF Holding, Deciding
<1>14. Decided' BY <1>2, <1>5, <1>13 DEF IInv, Decided
<1> QED BY <1>5, <1>11, <1>12, <1>14 DEF IInv

LEMMA ApproveSavesKeeps ==
    ASSUME IInv, NEW d \in Deciders, ApproveSaves(d)
    PROVE  IInv'
<1>1. PICK e \in asked[d] : reached' = reached \cup {e} BY DEF ApproveSaves
<1>2. /\ pc[d] = "reaching" /\ pc' = [pc EXCEPT ![d] = "recording"]
      /\ UNCHANGED <<crashes, pending, pendingLock, loaded, asked, accepted, decided>>
  BY DEF ApproveSaves, GoTo, held
<1>3. /\ Shape /\ People \subseteq Procs /\ Deciders \subseteq People /\ d \notin Listeners
  BY ReviewAssumption DEF IInv, People
<1>4. /\ \A q \in Procs : pc'[q] = IF q = d THEN "recording" ELSE pc[q]
      /\ pc' \in [Procs -> PcValues]
  BY <1>2, <1>3 DEF Shape, PcValues
<1>5. Held(d) /\ pc[d] \in Holding BY <1>2, <1>3 DEF IInv, Holding, Deciding
<1>6. asked[d] = {e} BY <1>1, <1>2, <1>5 DEF Held
<1>7. Shape' BY <1>2, <1>3, <1>4 DEF Shape, Deciding, People
<1>8. Numbered' /\ PendingFile' BY <1>2 DEF IInv, Numbered, PendingFile
<1>9. \A q \in Deciders : pc[q] # "recording"
  BY <1>2, <1>3, <1>5, OneHolder DEF Holding, Deciding
<1>10. Decided'
  <2>1. \A q \in Deciders : pc'[q] = "recording" => q = d BY <1>3, <1>4, <1>9
  <2>2. pc'[d] = "recording" BY <1>3, <1>4
  <2> QED BY <1>1, <1>2, <1>6, <1>9, <2>1, <2>2 DEF IInv, Decided
<1>11. ASSUME NEW q \in People PROVE Held(q)'
  <2>1. CASE q = d BY <1>2, <1>3, <1>4, <1>5, <2>1 DEF Held, Holding, Deciding
  <2>2. CASE q # d
    <3>1. pc'[q] = pc[q] BY <1>3, <1>4, <2>2
    <3> QED BY <1>2, <3>1 DEF IInv, Held
  <2> QED BY <2>1, <2>2
<1> QED BY <1>7, <1>8, <1>10, <1>11 DEF IInv

LEMMA DecideSavesKeeps ==
    ASSUME IInv, NEW d \in Deciders, DecideSaves(d)
    PROVE  IInv'
<1>1. PICK decision \in Decisions, where \in {"notifying", "idle"} :
        /\ Recorded(d, decision) /\ pc' = [pc EXCEPT ![d] = where]
        /\ pc[d] = IF decision = "approved" THEN "recording" ELSE "rejecting"
  BY DEF DecideSaves, GoTo, Decisions
<1>2. /\ asked' = [asked EXCEPT ![d] = {}] /\ UNCHANGED <<crashes, accepted, reached>>
  BY DEF DecideSaves
<1>3. PICK i \in DOMAIN loaded[d] :
        /\ loaded[d][i] \in asked[d]
        /\ SavePending(d, RemoveAt(loaded[d], i))
        /\ decided' = decided \cup {<<loaded[d][i], decision>>}
  BY <1>1 DEF Recorded
<1>4. d \in People /\ d \in Deciders /\ pc[d] \in Holding /\ where \in PcValues \ Holding
  BY <1>1 DEF People, PcValues, Holding, Deciding, Decisions
<1>5. loaded[d] = pending BY <1>4 DEF IInv, Held
<1> DEFINE e == pending[i]
<1>6. /\ i \in DOMAIN pending /\ asked[d] = {e} /\ decided' = decided \cup {<<e, decision>>}
  <2>1. pc[d] # "adding" BY <1>1
  <2>2. \E f \in ToSet(pending) : asked[d] = {f} BY <1>4, <2>1 DEF IInv, Held
  <2> QED BY <1>3, <1>5, <2>2
<1>7. /\ Shape' /\ (\A q \in People : Held(q)') /\ pending' = RemoveAt(pending, i)
      /\ \A q \in Deciders : pc'[q] # "recording"
  BY <1>1, <1>2, <1>3, <1>4, <1>5, SavedHeld
<1>8. pending \in Seq(accepted) /\ e \in accepted /\ e \in ToSet(pending)
  BY <1>6 DEF IInv, PendingFile, ToSet
<1>9. /\ pending' \in Seq(accepted)
      /\ DOMAIN pending' = 1..Len(pending) - 1 /\ DOMAIN pending = 1..Len(pending) /\ Len(pending) \in Nat
      /\ \A j \in 1..Len(pending) - 1 : pending'[j] = IF j < i THEN pending[j] ELSE pending[j + 1]
  BY <1>6, <1>7, <1>8, Removed
<1>10. \A j, k \in DOMAIN pending : pending[j].id = pending[k].id => j = k
  BY DEF IInv, PendingFile
<1>11. /\ \A j, k \in DOMAIN pending' : pending'[j].id = pending'[k].id => j = k
       /\ e \notin ToSet(pending') /\ ToSet(pending') \subseteq ToSet(pending)
       /\ ToSet(pending) \subseteq ToSet(pending') \cup {e}
  <2> DEFINE from == [j \in 1..Len(pending) - 1 |-> IF j < i THEN j ELSE j + 1]
  <2>1. /\ \A j \in 1..Len(pending) - 1 : from[j] \in DOMAIN pending /\ from[j] # i /\ pending'[j] = pending[from[j]]
        /\ \A j, k \in 1..Len(pending) - 1 : from[j] = from[k] => j = k
    BY <1>6, <1>9
  <2>2. \A k \in DOMAIN pending \ {i} : \E j \in 1..Len(pending) - 1 : from[j] = k
    <3>1. SUFFICES ASSUME NEW k \in DOMAIN pending \ {i}
                   PROVE  \E j \in 1..Len(pending) - 1 : from[j] = k
      OBVIOUS
    <3>2. CASE k < i BY <1>6, <1>9, <3>2
    <3>3. CASE k > i
      <4>1. k - 1 \in 1..Len(pending) - 1 /\ ~(k - 1 < i) /\ (k - 1) + 1 = k BY <1>6, <1>9, <3>3
      <4> QED BY <4>1
    <3> QED BY <1>6, <1>9, <3>2, <3>3
  <2> HIDE DEF from
  <2>3. \A j, k \in DOMAIN pending' : pending'[j].id = pending'[k].id => j = k
    BY <1>9, <1>10, <2>1
  <2>4. e \notin ToSet(pending')
    <3>1. \A j \in DOMAIN pending' : pending'[j] # e BY <1>6, <1>9, <1>10, <2>1
    <3> QED BY <3>1 DEF ToSet
  <2>5. ToSet(pending') \subseteq ToSet(pending) BY <1>9, <2>1 DEF ToSet
  <2>6. ToSet(pending) \subseteq ToSet(pending') \cup {e}
    <3>1. ASSUME NEW k \in DOMAIN pending, k # i PROVE pending[k] \in ToSet(pending')
      <4>1. PICK j \in 1..Len(pending) - 1 : from[j] = k BY <2>2, <3>1
      <4>2. j \in DOMAIN pending' /\ pending'[j] = pending[from[j]] BY <1>9, <2>1
      <4>3. pending'[j] = pending[k] BY <4>1, <4>2
      <4> QED BY <4>2, <4>3 DEF ToSet
    <3> QED BY <3>1 DEF ToSet
  <2> QED BY <2>3, <2>4, <2>5, <2>6
<1> HIDE DEF e
<1>12. Numbered' BY <1>2 DEF IInv, Numbered
<1>13. PendingFile'
  <2>1. ASSUME NEW x \in accepted PROVE x \in ToSet(pending') \/ \E y \in decided' : y[1] = x
    <3>1. CASE x \in ToSet(pending)
      <4>1. <<e, decision>> \in decided' /\ <<e, decision>>[1] = e BY <1>6
      <4>2. x \in ToSet(pending') \/ x = e BY <1>11, <3>1
      <4> QED BY <4>1, <4>2
    <3>2. CASE \E y \in decided : y[1] = x BY <1>6, <3>2
    <3> QED BY <3>1, <3>2 DEF IInv, PendingFile
  <2>2. \A x \in decided' : x[1] \in accepted' /\ x[1] \notin ToSet(pending')
    BY <1>2, <1>6, <1>8, <1>11 DEF IInv, PendingFile
  <2> QED BY <1>2, <1>9, <1>11, <2>1, <2>2 DEF PendingFile
<1>14. Decided'
  <2>1. \A x \in decided : x[1] # e BY <1>8 DEF IInv, PendingFile
  <2>2. \A x, y \in decided' : x[1] = y[1] => x = y BY <1>6, <2>1 DEF IInv, Decided
  <2>3. \A x \in decided' : x[2] = "approved" => x[1] \in reached'
    BY <1>1, <1>2, <1>6 DEF IInv, Decided
  <2>4. crashes' = 0 => \A x \in reached' : <<x, "approved">> \in decided'
    <3>1. SUFFICES ASSUME crashes = 0, NEW x \in reached PROVE <<x, "approved">> \in decided'
      BY <1>2
    <3>2. CASE <<x, "approved">> \in decided BY <1>6, <3>2
    <3>3. CASE \E q \in Deciders : pc[q] = "recording" /\ x \in asked[q]
      <4>1. PICK q \in Deciders : pc[q] = "recording" /\ x \in asked[q] BY <3>3
      <4>2. q = d BY <1>4, <4>1, OneHolder DEF People, Holding, Deciding
      <4>3. decision = "approved" /\ x = e BY <1>1, <1>6, <4>1, <4>2
      <4> QED BY <1>6, <4>3
    <3> QED BY <3>1, <3>2, <3>3 DEF IInv, Decided
  <2> QED BY <1>7, <2>2, <2>3, <2>4 DEF Decided
<1> QED BY <1>7, <1>12, <1>13, <1>14 DEF IInv

-----------------------------------------------------------------------------
(* All the steps.                                                          *)

LEMMA IntakeKeeps ==
    ASSUME IInv, NEW l \in Listeners, Intake(l)
    PROVE  IInv'
<1>1. l \in People /\ l \in Procs BY ReviewAssumption DEF People
<1>2. {"idle", "listening", "accepting", "believing", "opening", "notifying"} \subseteq PcValues \ Holding
  BY DEF PcValues, Holding, Deciding
<1>3. CASE Listen(l)
  BY <1>1, <1>2, <1>3, GoesOn DEF Listen, ghosts, Files
<1>4. CASE StopListening(l)
  BY <1>1, <1>2, <1>4, GoesOn DEF StopListening, ghosts, Files
<1>5. CASE Read(l)
  <2>1. UNCHANGED Files /\ UNCHANGED crashes /\ pc[l] = "listening"
    BY <1>5 DEF Read, ghosts, Files
  <2>2. \/ UNCHANGED pc
        \/ \E where \in {"believing", "accepting"} : GoTo(l, where)
    BY <1>5 DEF Read
  <2>3. CASE UNCHANGED pc
    <3>1. pc' \in [Procs -> PcValues] BY <2>3 DEF IInv, Shape
    <3> QED BY <2>1, <2>3, <3>1, QuietStep
  <2>4. CASE \E where \in {"believing", "accepting"} : GoTo(l, where)
    BY <1>1, <1>2, <2>1, <2>4, GoesOn
  <2> QED BY <2>2, <2>3, <2>4
<1>6. CASE AddLoads(l) BY <1>6, AddLoadsKeeps
<1>7. CASE AddSaves(l) BY <1>7, AddSavesKeeps
<1>8. CASE AddTimeout(l) BY <1>1, <1>8, DiesStep DEF AddTimeout
<1>9. CASE OpenLocks(l)
  BY <1>1, <1>2, <1>9, GoesOn DEF OpenLocks, intakeVars, held, ghosts, Files
<1>10. CASE OpenTimeout(l) BY <1>1, <1>10, DiesStep DEF OpenTimeout, LockTimeout
<1>11. CASE OpenSaves(l)
  BY <1>1, <1>2, <1>11, GoesOn DEF OpenSaves, Files
<1>12. CASE OpenEnds(l)
  BY <1>1, <1>2, <1>12, GoesOn DEF OpenEnds, intakeVars, held, ghosts, Files
<1> QED BY <1>3, <1>4, <1>5, <1>6, <1>7, <1>8, <1>9, <1>10, <1>11, <1>12 DEF Intake

LEMMA DecideKeeps ==
    ASSUME IInv, NEW d \in Deciders, Decide(d)
    PROVE  IInv'
<1>1. d \in People /\ d \in Procs BY ReviewAssumption DEF People
<1>2. {"idle", "notifying"} \subseteq PcValues \ Holding /\ "reaching" \in PcValues
  BY DEF PcValues, Holding, Deciding
<1>3. CASE DecideLoads(d) BY <1>3, DecideLoadsKeeps
<1>4. CASE DecideTimeout(d) BY <1>1, <1>4, DiesStep DEF DecideTimeout
<1>5. CASE ApproveLocks(d)
  BY <1>1, <1>2, <1>5, GoesOn DEF ApproveLocks, intakeVars, held, ghosts, Files
<1>6. CASE ApproveTimeout(d) BY <1>1, <1>6, DiesStep DEF ApproveTimeout, LockTimeout
<1>7. CASE ApproveSaves(d) BY <1>7, ApproveSavesKeeps
<1>8. CASE DecideSaves(d) BY <1>8, DecideSavesKeeps
<1>9. CASE DecideEnds(d)
  BY <1>1, <1>2, <1>9, GoesOn DEF DecideEnds, intakeVars, held, ghosts, Files
<1> QED BY <1>3, <1>4, <1>5, <1>6, <1>7, <1>8, <1>9 DEF Decide

LEMMA IngestKeeps ==
    ASSUME IInv, NEW b \in Bridges, Ingest(b), UNCHANGED intakeVars
    PROVE  IInv'
<1>1. b \in Procs /\ b \notin People BY ReviewAssumption DEF People
<1>2. UNCHANGED Files BY DEF intakeVars, held, ghosts, Files
<1>3. {"read", "applying", "notifying", "idle"} \subseteq PcValues BY DEF PcValues
<1>4. CASE ReadNew(b) BY <1>1, <1>2, <1>3, <1>4, GoesOn DEF ReadNew
<1>5. CASE BridgeLocks(b) BY <1>1, <1>2, <1>3, <1>5, GoesOn DEF BridgeLocks
<1>6. CASE BridgeSaves(b) BY <1>1, <1>2, <1>3, <1>6, GoesOn DEF BridgeSaves
<1>7. CASE BridgeEnds(b) BY <1>1, <1>2, <1>3, <1>7, GoesOn DEF BridgeEnds
<1>8. CASE BridgeTimeout(b)
  <2>1. pc' = [pc EXCEPT ![b] = "idle"] /\ crashes' = crashes + 1
    BY <1>8 DEF BridgeTimeout, LockTimeout, Dies, GoTo
  <2>2. pc \in [Procs -> PcValues] /\ People \subseteq Procs
    BY ReviewAssumption DEF IInv, Shape, People
  <2>3. pc' \in [Procs -> PcValues] /\ \A p \in People : pc'[p] = pc[p]
    BY <1>1, <1>3, <2>1, <2>2
  <2> QED BY <1>2, <2>1, <2>3, QuietStep
<1> QED BY <1>4, <1>5, <1>6, <1>7, <1>8 DEF Ingest

LEMMA CrashKeeps ==
    ASSUME IInv, NEW p \in Procs, Crash(p)
    PROVE  IInv'
BY DiesStep DEF Crash

\* What changes neither the intake's state nor where a program is.
LEMMA AsideKeeps ==
    ASSUME IInv, UNCHANGED <<Files, pc, crashes>>
    PROVE  IInv'
<1>1. pc' \in [Procs -> PcValues] BY DEF IInv, Shape
<1> QED BY <1>1, QuietStep

LEMMA OutsideKeeps ==
    ASSUME IInv, Outside
    PROVE  IInv'
<1>1. CASE Publish BY <1>1, AsideKeeps DEF Publish, ghosts, Files
<1>2. CASE Watchdog /\ UNCHANGED intakeVars
  <2>1. UNCHANGED <<pc, crashes>> BY <1>2 DEF Watchdog, WatchdogWrites, WatchdogRotates, storeVars
  <2> QED BY <1>2, <2>1, AsideKeeps DEF intakeVars, held, ghosts, Files
<1> QED BY <1>1, <1>2 DEF Outside

LEMMA SendKeeps ==
    ASSUME IInv, NEW p \in Procs, Send(p), UNCHANGED intakeVars
    PROVE  IInv'
<1>1. UNCHANGED <<pc, crashes>> BY DEF Send, storeVars
<1> QED BY <1>1, AsideKeeps DEF intakeVars, held, ghosts, Files

LEMMA NextInv == IInv /\ [Next]_vars => IInv'
<1> SUFFICES ASSUME IInv, [Next]_vars PROVE IInv' OBVIOUS
<1>1. CASE Outside BY <1>1, OutsideKeeps
<1>2. ASSUME NEW p \in Procs, Run(p) PROVE IInv'
  <2>1. CASE p \in Listeners /\ Intake(p) BY <2>1, IntakeKeeps
  <2>2. CASE p \in Deciders /\ Decide(p) BY <2>2, DecideKeeps
  <2>3. CASE p \in Bridges /\ Ingest(p) /\ UNCHANGED intakeVars BY <2>3, IngestKeeps
  <2>4. CASE Send(p) /\ UNCHANGED intakeVars BY <2>4, SendKeeps
  <2> QED BY <1>2, <2>1, <2>2, <2>3, <2>4 DEF Run
<1>3. ASSUME NEW p \in Procs, Crash(p) PROVE IInv' BY <1>3, CrashKeeps
<1>4. CASE UNCHANGED vars
  BY <1>4, AsideKeeps DEF vars, storeVars, intakeVars, held, ghosts, Files
<1> QED BY <1>1, <1>2, <1>3, <1>4 DEF Next

LEMMA Invariance == Spec => []IInv
BY InitInv, NextInv, PTL DEF Spec

\* "An accepted proposal WAITS FOR A PERSON": what the listeners accepted is in the pending
\* file until it is decided, whoever else writes to that file or dies in the middle.
THEOREM AcceptedWaits == Spec => []AcceptedIsKept
<1>1. IInv => AcceptedIsKept BY DEF IInv, PendingFile, AcceptedIsKept
<1> QED BY <1>1, Invariance, PTL

\* A proposal is decided once, however many people decide at once; what was approved has
\* reached the store first, and what was rejected never does unless a program died.
THEOREM OneDecision == Spec => []DecidedOnce
<1>1. IInv => DecidedOnce
  <2> SUFFICES ASSUME IInv PROVE DecidedOnce OBVIOUS
  <2>1. \A x, y \in decided : x[1] = y[1] => x = y BY DEF IInv, Decided
  <2>2. \A x \in decided : x[2] = "approved" => x[1] \in reached BY DEF IInv, Decided
  <2>3. ASSUME crashes = 0, NEW x \in decided, x[2] = "rejected", x[1] \in reached
        PROVE  FALSE
    <3>1. CASE <<x[1], "approved">> \in decided
      <4>1. <<x[1], "approved">>[1] = x[1] /\ <<x[1], "approved">>[2] = "approved" OBVIOUS
      <4>2. x = <<x[1], "approved">> BY <2>1, <2>3, <3>1, <4>1
      <4>3. x[2] = "approved" BY <4>1, <4>2
      <4> QED BY <2>3, <4>3
    <3>2. CASE \E d \in Deciders : pc[d] = "recording" /\ x[1] \in asked[d]
      <4>1. PICK d \in Deciders : pc[d] = "recording" /\ x[1] \in asked[d] BY <3>2
      <4>2. Held(d) BY DEF IInv, People
      <4>3. x[1] \in ToSet(pending) BY <4>1, <4>2 DEF Held, Holding, Deciding
      <4> QED BY <2>3, <4>3 DEF IInv, PendingFile
    <3> QED BY <2>3, <3>1, <3>2 DEF IInv, Decided
  <2> QED BY <2>1, <2>2, <2>3 DEF DecidedOnce
<1> QED BY <1>1, Invariance, PTL

-----------------------------------------------------------------------------
(* Where the incidents of the store come from.                             *)

Records(s) == s.open \cup s.closed
Alike(q, r) == q.id = r.id /\ q.component = r.component

\* An incident with the identity of a proposal: that was approved or taken at once, and the
\* node it is about has published it.
Vouched(r, msgs, taken) ==
    r.id \in {m.id : m \in msgs} =>
        /\ r.id \in taken
        /\ \E m \in msgs : m.id = r.id /\ Redact[m.topic] = r.component /\ m.sound /\ ~m.retained

OpenShape(s) == \A r \in s.open : r = [id |-> r.id, component |-> r.component, count |-> r.count]

Traced(s, newest, msgs, taken) ==
    /\ OpenShape(s)
    /\ \A r \in Records(s) : r.id \in 1..newest /\ Vouched(r, msgs, taken)

Taken == {e.id : e \in approvals} \cup atOnce

\* In the file and in what the programs have loaded of it.
StoreTraced ==
    /\ issued \in Nat /\ \A m \in sent : m.id \in 1..issued
    /\ Traced(store, issued, sent, Taken)
    /\ mem = [p \in Procs |-> mem[p]] /\ \A p \in Procs : Traced(mem[p], issued, sent, Taken)

\* What the listeners received was published, and what they handle is believed.
Heard ==
    /\ socket \in [Listeners -> Seq(sent)] /\ handling = [l \in Listeners |-> handling[l]]
    /\ \A l \in Listeners : \A m \in handling[l] : m \in sent /\ Believed(m) /\ ~m.retained

\* What was accepted was published by the node it is about.
Proposed ==
    \A e \in accepted : \E m \in sent : m.id = e.id /\ m.topic = e.node /\ m.sound /\ ~m.retained

\* What is on its way into the store a person was found to approve.
Confirmed == \A d \in Deciders : pc[d] \in {"approving", "reaching"} => asked[d] \subseteq approvals

\* What the bridges have read.
ReadInv ==
    /\ journal \in Seq(Transitions) /\ chunk \in [Bridges -> Seq(Transitions)]
    /\ offset \in Nat /\ upto \in [Bridges -> Nat]

Origin == StoreTraced /\ Heard /\ Proposed /\ Confirmed

OInv == Origin /\ ReadInv

\* With more messages, all of them newer than the store, and more approvals.
LEMMA StillTraced ==
    ASSUME NEW s, NEW newest \in Nat, NEW newest2 \in Nat, newest <= newest2,
           NEW msgs, NEW msgs2, msgs \subseteq msgs2, \A m \in msgs2 \ msgs : m.id > newest,
           NEW taken, NEW taken2, taken \subseteq taken2,
           Traced(s, newest, msgs, taken)
    PROVE  Traced(s, newest2, msgs2, taken2)
<1>1. OpenShape(s) BY DEF Traced
<1>2. ASSUME NEW r \in Records(s) PROVE r.id \in 1..newest2 /\ Vouched(r, msgs2, taken2)
  <2>1. r.id \in 1..newest /\ Vouched(r, msgs, taken) BY DEF Traced
  <2>2. r.id \in 1..newest2 BY <2>1
  <2>3. ASSUME r.id \in {m.id : m \in msgs2} PROVE r.id \in {m.id : m \in msgs}
    <3>1. PICK m \in msgs2 : r.id = m.id BY <2>3
    <3>2. ~(m.id > newest) BY <2>1, <3>1
    <3> QED BY <3>1, <3>2
  <2> QED BY <2>1, <2>2, <2>3 DEF Vouched
<1> QED BY <1>1, <1>2 DEF Traced

LEMMA EmptyTraced == \A newest, msgs, taken : Traced(EmptyStore, newest, msgs, taken)
BY DEF Traced, EmptyStore, OpenShape, Records

\* Each incident of s2 is one of s, or of the new ones that were observed.
Stems(s2, s, new) ==
    /\ OpenShape(s2)
    /\ \A r \in Records(s2) :
           \/ \E q \in Records(s) : Alike(q, r)
           \/ \E i \in DOMAIN new : r.id = new[i].id /\ r.component = Redact[new[i].component]

LEMMA ReconcileStems ==
    ASSUME NEW s, NEW new, NEW checked, NEW t, OpenShape(s)
    PROVE  Stems(Reconcile(s, new, checked, t), s, new)
<1> DEFINE s2 == Reconcile(s, new, checked, t)
<1>1. ASSUME NEW r \in s2.open
      PROVE  \/ r \in s.open
             \/ \E q \in s.open : r = [q EXCEPT !.count = Counted(@)]
             \/ \E i \in DOMAIN new :
                    r = [id |-> new[i].id, component |-> Redact[new[i].component], count |-> 1]
  BY DEF Reconcile
<1>2. ASSUME NEW r \in s2.closed
      PROVE  r \in s.closed \/ \E q \in s.open : q.id = r.id /\ q.component = r.component
  <2> DEFINE closing == {q \in s.open : Key(q.component) \in {Key(c) : c \in checked}
                                                         \ {Key(new[i].component) : i \in DOMAIN new}}
  <2>1. s2.closed = Newest(s.closed \cup ClosedAt(s.closed, closing, t)) BY DEF Reconcile
  <2>2. closing \subseteq s.open OBVIOUS
  <2> HIDE DEF closing, s2
  <2>3. r \in s.closed \/ r \in ClosedAt(s.closed, closing, t) BY <1>2, <2>1 DEF Newest
  <2>4. ASSUME r \in ClosedAt(s.closed, closing, t)
        PROVE  \E q \in closing : r.id = q.id /\ r.component = q.component
    <3>1. PICK q \in closing :
            r = [id |-> q.id, component |-> q.component, at |-> t,
                 nth |-> Max({0} \cup {x.nth : x \in s.closed})
                         + Cardinality({x \in closing : x.id <= q.id})]
      BY <2>4 DEF ClosedAt
    <3> QED BY <3>1
  <2> QED BY <2>2, <2>3, <2>4
<1> HIDE DEF s2
<1>3. ASSUME NEW q \in s.open, NEW r, r = [q EXCEPT !.count = Counted(@)]
      PROVE  r.id = q.id /\ r.component = q.component
             /\ r = [id |-> r.id, component |-> r.component, count |-> r.count]
  <2>1. q = [id |-> q.id, component |-> q.component, count |-> q.count] BY DEF OpenShape
  <2>2. r = [id |-> q.id, component |-> q.component, count |-> Counted(q.count)] BY <1>3, <2>1
  <2> QED BY <2>2
<1>4. OpenShape(s2) BY <1>1, <1>3 DEF OpenShape
<1>5. ASSUME NEW r \in Records(s2)
      PROVE  \/ \E q \in Records(s) : Alike(q, r)
             \/ \E i \in DOMAIN new : r.id = new[i].id /\ r.component = Redact[new[i].component]
  <2>1. CASE r \in s2.open BY <1>1, <1>3, <2>1 DEF Records, Alike
  <2>2. CASE r \in s2.closed BY <1>2, <2>2 DEF Records, Alike
  <2> QED BY <2>1, <2>2 DEF Records
<1>6. Stems(s2, s, new) BY <1>4, <1>5 DEF Stems
<1> QED BY <1>6 DEF s2

\* One incident is opened.
LEMMA OpenedStems ==
    ASSUME NEW s, NEW id, NEW node, OpenShape(s)
    PROVE  /\ OpenShape(Opened(s, id, node))
           /\ \A r \in Records(Opened(s, id, node)) :
                  (\E q \in Records(s) : Alike(q, r)) \/ (r.id = id /\ r.component = Redact[node])
<1> DEFINE new == <<[id |-> id, component |-> node]>>
<1>1. DOMAIN new = {1} /\ new[1].id = id /\ new[1].component = node OBVIOUS
<1>2. Opened(s, id, node) = Reconcile(s, new, {}, clock) BY DEF Opened
<1> HIDE DEF new
<1>3. Stems(Opened(s, id, node), s, new) BY <1>2, ReconcileStems
<1> QED BY <1>1, <1>3 DEF Stems

\* The recursive function that AfterFirst names: it has the values that its definition says.
LEMMA AfterFirstIs ==
    ASSUME NEW b, chunk[b] \in Seq(Transitions)
    PROVE  /\ AfterFirst(b)[0] = mem[b]
           /\ \A n \in 1..Len(chunk[b]) :
                  AfterFirst(b)[n] = Applied(AfterFirst(b)[n - 1], chunk[b][n], n)
<1> DEFINE L == Len(chunk[b])
           value(g, n) == IF n = 0 THEN mem[b] ELSE Applied(g[n - 1], chunk[b][n], n)
           is(g, m) == g = [n \in 0..m |-> value(g, n)]
           bad == {m \in 0..L : ~ \E g : is(g, m)}
<1>1. L \in Nat OBVIOUS
<1>2. bad = {}
  <2> SUFFICES ASSUME bad # {} PROVE FALSE OBVIOUS
  <2>1. bad \in SUBSET Nat BY <1>1
  <2>2. PICK k \in bad : \A m \in bad : k <= m BY <2>1, LeastMember
  <2>3. k \in 0..L /\ k \in Nat /\ ~ \E g : is(g, k) BY <1>1
  <2>4. CASE k = 0
    <3> DEFINE g == [n \in 0..0 |-> mem[b]]
    <3>1. is(g, 0) OBVIOUS
    <3> QED BY <2>3, <2>4, <3>1
  <2>5. CASE k # 0
    <3>1. k - 1 \in 0..L /\ k - 1 \in Nat /\ ~(k <= k - 1) BY <1>1, <2>3, <2>5
    <3>2. k - 1 \notin bad BY <2>2, <3>1
    <3>3. PICK g : is(g, k - 1) BY <3>1, <3>2
    <3> DEFINE h == [n \in 0..k |-> IF n = k THEN value(g, k) ELSE g[n]]
    <3>4. \A n \in 0..k : h[n] = value(h, n)
      <4> SUFFICES ASSUME NEW n \in 0..k PROVE h[n] = value(h, n) OBVIOUS
      <4>1. CASE n = k
        <5>1. k - 1 \in 0..k /\ h[k - 1] = g[k - 1] BY <2>3, <3>1
        <5>2. h[n] = value(g, k) BY <4>1
        <5> HIDE DEF h
        <5> QED BY <2>5, <4>1, <5>1, <5>2
      <4>2. CASE n # k
        <5>1. n \in 0..(k - 1) BY <2>3, <4>2
        <5>2. h[n] = g[n] BY <4>2
        <5>3. g[n] = value(g, n) BY <3>3, <5>1
        <5>4. n # 0 => n - 1 \in 0..k /\ n - 1 # k /\ h[n - 1] = g[n - 1] BY <2>3, <5>1
        <5> HIDE DEF h
        <5> QED BY <5>2, <5>3, <5>4
      <4> QED BY <4>1, <4>2
    <3>5. h = [n \in 0..k |-> h[n]] OBVIOUS
    <3> HIDE DEF h
    <3>6. is(h, k) BY <3>4, <3>5
    <3> QED BY <2>3, <3>6
  <2> QED BY <2>4, <2>5
<1>3. \E g : is(g, L)
  <2>1. L \in 0..L /\ L \notin bad BY <1>1, <1>2
  <2> QED BY <2>1
<1> DEFINE f == CHOOSE g : g = [n \in 0..L |-> IF n = 0 THEN mem[b]
                                             ELSE Applied(g[n - 1], chunk[b][n], n)]
<1>4. AfterFirst(b) = f BY DEF AfterFirst
<1>5. f = [n \in 0..L |-> value(f, n)] BY <1>3
<1> HIDE DEF f
<1>6. f[0] = value(f, 0) BY <1>1, <1>5
<1>7. \A n \in 1..L : n \in 0..L /\ n # 0 /\ f[n] = value(f, n) BY <1>1, <1>5
<1> QED BY <1>4, <1>6, <1>7


\* What a bridge saves are incidents that it loaded, and new ones.
LEMMA IngestedStems ==
    ASSUME NEW b, chunk[b] \in Seq(Transitions), OpenShape(mem[b]), issued \in Nat
    PROVE  /\ OpenShape(Ingested(b))
           /\ \A r \in Records(Ingested(b)) :
                  (\E q \in Records(mem[b]) : Alike(q, r)) \/ r.id \in (issued + 1)..(issued + Len(chunk[b]))
<1> DEFINE L == Len(chunk[b])
           f == AfterFirst(b)
           good(n) == /\ OpenShape(f[n])
                      /\ \A r \in Records(f[n]) :
                             (\E q \in Records(mem[b]) : Alike(q, r)) \/ r.id \in (issued + 1)..(issued + n)
           bad == {n \in 0..L : ~good(n)}
<1>1. L \in Nat OBVIOUS
<1>2. f[0] = mem[b] /\ \A n \in 1..L : f[n] = Applied(f[n - 1], chunk[b][n], n) BY AfterFirstIs
<1> HIDE DEF f
<1>3. bad = {}
  <2> SUFFICES ASSUME bad # {} PROVE FALSE OBVIOUS
  <2>1. bad \in SUBSET Nat BY <1>1
  <2>2. PICK k \in bad : \A m \in bad : k <= m BY <2>1, LeastMember
  <2>3. k \in 0..L /\ k \in Nat /\ ~good(k) BY <1>1
  <2>4. CASE k = 0
    <3>1. good(0) BY <1>2 DEF Alike
    <3> QED BY <2>3, <2>4, <3>1
  <2>5. CASE k # 0
    <3>1. k \in 1..L /\ k - 1 \in 0..L /\ ~(k <= k - 1) BY <1>1, <2>3, <2>5
    <3>2. k - 1 \notin bad BY <2>2, <3>1
    <3>3. good(k - 1) BY <3>1, <3>2
    <3> DEFINE s == f[k - 1]
               t == chunk[b][k]
    <3>4. f[k] = Applied(s, t, k) /\ OpenShape(s) BY <1>2, <3>1, <3>3
    <3>5. ASSUME NEW r \in Records(s)
          PROVE  (\E q \in Records(mem[b]) : Alike(q, r)) \/ r.id \in (issued + 1)..(issued + k)
      <4>1. (\E q \in Records(mem[b]) : Alike(q, r)) \/ r.id \in (issued + 1)..(issued + (k - 1))
        BY <3>3
      <4> QED BY <2>3, <4>1
    <3>6. /\ OpenShape(f[k])
          /\ \A r \in Records(f[k]) : (\E q \in Records(s) : Alike(q, r)) \/ r.id = issued + k
      <4> HIDE DEF s, t
      <4>1. CASE t.to = "trigger"
        <5> DEFINE new == <<[id |-> Fresh(k), component |-> t.node]>>
        <5>1. DOMAIN new = {1} /\ new[1].id = issued + k BY DEF Fresh
        <5>2. f[k] = Reconcile(s, new, {}, clock) BY <3>4, <4>1 DEF Applied
        <5> HIDE DEF new
        <5>3. Stems(f[k], s, new) BY <3>4, <5>2, ReconcileStems
        <5> QED BY <5>1, <5>3 DEF Stems
      <4>2. CASE t.to = "resolve" /\ OpenAs(s, t.node) # {}
        <5> DEFINE new == <<>>
        <5>1. DOMAIN new = {} OBVIOUS
        <5>2. f[k] = Reconcile(s, new, {t.node}, clock) BY <3>4, <4>2 DEF Applied
        <5> HIDE DEF new
        <5>3. Stems(f[k], s, new) BY <3>4, <5>2, ReconcileStems
        <5> QED BY <5>1, <5>3 DEF Stems
      <4>3. CASE t.to # "trigger" /\ ~(t.to = "resolve" /\ OpenAs(s, t.node) # {})
        <5>1. f[k] = s BY <3>4, <4>3 DEF Applied
        <5> QED BY <3>4, <5>1 DEF Alike
      <4> QED BY <4>1, <4>2, <4>3
    <3> HIDE DEF s, t
    <3>7. issued + k \in (issued + 1)..(issued + k) BY <2>3, <2>5
    <3>8. good(k) BY <3>5, <3>6, <3>7 DEF Alike
    <3> QED BY <2>3, <3>8
  <2> QED BY <2>4, <2>5
<1>4. L \in 0..L /\ L \notin bad BY <1>1, <1>3
<1>5. good(L) BY <1>4
<1>6. Ingested(b) = f[L] BY DEF Ingested, f
<1> QED BY <1>5, <1>6

-----------------------------------------------------------------------------
(* The steps.                                                              *)

\* What p has of the store is what the file has, or nothing.
Loads(p) == mem' \in {[mem EXCEPT ![p] = store], [mem EXCEPT ![p] = EmptyStore]}

LEMMA StoreQuiet ==
    ASSUME Origin, NEW p, UNCHANGED <<store, issued, sent>>,
           approvals \subseteq approvals', atOnce \subseteq atOnce',
           UNCHANGED mem \/ Loads(p)
    PROVE  StoreTraced'
<1>1. /\ issued \in Nat /\ \A m \in sent : m.id \in 1..issued
      /\ Traced(store, issued, sent, Taken)
      /\ mem = [q \in Procs |-> mem[q]] /\ \A q \in Procs : Traced(mem[q], issued, sent, Taken)
  BY DEF Origin, StoreTraced
<1>2. Taken \subseteq Taken' BY DEF Taken
<1>3. issued <= issued BY <1>1
<1>4. \A s : Traced(s, issued, sent, Taken) => Traced(s, issued, sent, Taken')
  <2> SUFFICES ASSUME NEW s, Traced(s, issued, sent, Taken) PROVE Traced(s, issued, sent, Taken')
    OBVIOUS
  <2>1. \A m \in sent \ sent : m.id > issued OBVIOUS
  <2> QED BY <1>1, <1>2, <1>3, <2>1, StillTraced
<1>5. Traced(store', issued', sent', Taken') BY <1>1, <1>4
<1>6. mem' = [q \in Procs |-> mem'[q]] BY <1>1 DEF Loads
<1>7. \A q \in Procs : mem'[q] \in {mem[q], store, EmptyStore} BY <1>1 DEF Loads
<1>8. \A q \in Procs : Traced(mem'[q], issued', sent', Taken') BY <1>1, <1>4, <1>7, EmptyTraced
<1> QED BY <1>1, <1>5, <1>6, <1>8 DEF StoreTraced

LEMMA StoreSaved ==
    ASSUME Origin, NEW p \in Procs, NEW s2, SaveStore(p, s2), Forget(p), UNCHANGED sent,
           approvals \subseteq approvals', atOnce \subseteq atOnce',
           OpenShape(s2), NEW bound \in Nat,
           \A r \in Records(s2) : \/ \E q \in Records(mem[p]) : Alike(q, r)
                                  \/ r.id \in (issued + 1)..bound
                                  \/ r.id \in 1..issued /\ Vouched(r, sent, Taken')
    PROVE  StoreTraced'
<1>1. /\ issued \in Nat /\ \A m \in sent : m.id \in 1..issued
      /\ mem = [q \in Procs |-> mem[q]] /\ \A q \in Procs : Traced(mem[q], issued, sent, Taken)
  BY DEF Origin, StoreTraced
<1>2. Taken \subseteq Taken' BY DEF Taken
<1>3. \A m \in sent \ sent : m.id > issued OBVIOUS
<1> DEFINE ids == {issued} \cup {r.id : r \in s2.open} \cup {r.id : r \in s2.closed}
<1>4. ASSUME NEW r \in Records(s2)
      PROVE  \/ r.id \in 1..issued /\ Vouched(r, sent, Taken')
             \/ r.id \in (issued + 1)..bound
  <2>1. ASSUME NEW q \in Records(mem[p]), Alike(q, r)
        PROVE  r.id \in 1..issued /\ Vouched(r, sent, Taken')
    <3>1. q.id \in 1..issued /\ Vouched(q, sent, Taken) BY <1>1 DEF Traced
    <3> QED BY <1>2, <2>1, <3>1 DEF Alike, Vouched
  <2> QED BY <2>1
<1>5. issued' = Max(ids) /\ store' = s2 /\ mem' = [mem EXCEPT ![p] = EmptyStore]
  BY DEF SaveStore, Issue, Forget
<1>6. /\ ids \in SUBSET Nat /\ ids # {} /\ issued \in ids
      /\ \A r \in Records(s2) : r.id \in ids
      /\ \A i \in ids : i <= issued \/ i <= bound
  BY <1>1, <1>4 DEF Records
<1>7. issued' \in ids /\ \A i \in ids : i <= issued'
  <2>1. PICK top \in Nat : top >= issued /\ top >= bound
    <3>1. issued + bound \in Nat /\ issued + bound >= issued /\ issued + bound >= bound BY <1>1
    <3> QED BY <3>1
  <2> HIDE DEF ids
  <2>2. \A i \in ids : i <= top BY <1>1, <1>6, <2>1
  <2> QED BY <1>5, <1>6, <2>1, <2>2, GreatestMember
<1> HIDE DEF ids
<1>8. issued' \in Nat /\ issued <= issued' BY <1>6, <1>7
<1>9. ASSUME NEW r \in Records(s2) PROVE r.id \in 1..issued' /\ Vouched(r, sent, Taken')
  <2>1. r.id <= issued' BY <1>6, <1>7
  <2>2. CASE r.id \in 1..issued /\ Vouched(r, sent, Taken') BY <1>8, <2>1, <2>2
  <2>3. CASE r.id \in (issued + 1)..bound
    <3>1. r.id \notin {m.id : m \in sent}
      <4> SUFFICES ASSUME NEW m \in sent, m.id = r.id PROVE FALSE OBVIOUS
      <4> QED BY <1>1, <2>3
    <3>2. r.id \in 1..issued' BY <1>1, <1>8, <2>1, <2>3
    <3> QED BY <3>1, <3>2 DEF Vouched
  <2> QED BY <1>4, <2>2, <2>3
<1>10. Traced(store', issued', sent', Taken') BY <1>5, <1>9 DEF Traced
<1>11. mem' = [q \in Procs |-> mem'[q]] /\ \A q \in Procs : mem'[q] \in {mem[q], EmptyStore}
  BY <1>1, <1>5
<1>12. \A q \in Procs : Traced(mem[q], issued', sent, Taken')
  BY <1>1, <1>2, <1>3, <1>8, StillTraced
<1>13. \A q \in Procs : Traced(mem'[q], issued', sent', Taken') BY <1>11, <1>12, EmptyTraced
<1>14. \A m \in sent' : m.id \in 1..issued' BY <1>1, <1>8
<1> QED BY <1>8, <1>10, <1>11, <1>13, <1>14 DEF StoreTraced

LEMMA HeardQuiet ==
    ASSUME Origin, UNCHANGED <<socket, handling>>, sent \subseteq sent'
    PROVE  Heard'
<1>1. socket' \in [Listeners -> Seq(sent')]
  <2>1. \A l \in Listeners : socket[l] \in Seq(sent') BY DEF Origin, Heard
  <2> QED BY <2>1 DEF Origin, Heard
<1> QED BY <1>1 DEF Origin, Heard, Believed

LEMMA ProposedQuiet ==
    ASSUME Origin, UNCHANGED accepted, sent \subseteq sent'
    PROVE  Proposed'
BY DEF Origin, Proposed

LEMMA ConfirmedQuiet ==
    ASSUME IInv, Origin, NEW p, NEW where, UNCHANGED asked, approvals \subseteq approvals',
           \/ UNCHANGED pc
           \/ GoTo(p, where) /\ (where \notin {"approving", "reaching"} \/ pc[p] = "approving")
    PROVE  Confirmed'
<1>1. pc \in [Procs -> PcValues] /\ Deciders \subseteq Procs
  BY ReviewAssumption DEF IInv, Shape
<1>2. \A d \in Deciders : pc'[d] \in {"approving", "reaching"} => pc[d] \in {"approving", "reaching"}
  BY <1>1 DEF GoTo
<1> QED BY <1>2 DEF Origin, Confirmed

LEMMA DiesOrigin ==
    ASSUME IInv, Origin, NEW p \in Procs, Dies(p), IntakeDies(p)
    PROVE  Origin'
<1>1. /\ mem' = [mem EXCEPT ![p] = EmptyStore] /\ UNCHANGED <<store, issued>>
      /\ pc' = [pc EXCEPT ![p] = "idle"]
  BY DEF Dies, Forget, GoTo
<1>2. /\ socket' = [l \in Listeners |-> IF l = p THEN <<>> ELSE socket[l]]
      /\ handling' = [l \in Listeners |-> IF l = p THEN {} ELSE handling[l]]
      /\ asked' = [d \in Deciders |-> IF d = p THEN {} ELSE asked[d]]
      /\ UNCHANGED <<sent, accepted, approvals, atOnce>>
  BY DEF IntakeDies, proposers, ghosts
<1>3. StoreTraced'
  <2>1. Loads(p) BY <1>1 DEF Loads
  <2> QED BY <1>1, <1>2, <2>1, StoreQuiet
<1>4. Heard'
  <2>1. socket' \in [Listeners -> Seq(sent')] BY <1>2 DEF Origin, Heard
  <2>2. handling' = [l \in Listeners |-> handling'[l]] BY <1>2
  <2>3. \A l \in Listeners : handling'[l] \subseteq handling[l] BY <1>2
  <2> QED BY <1>2, <2>1, <2>2, <2>3 DEF Origin, Heard, Believed
<1>5. Proposed' BY <1>2, ProposedQuiet
<1>6. Confirmed'
  <2>1. pc \in [Procs -> PcValues] /\ Deciders \subseteq Procs
    BY ReviewAssumption DEF IInv, Shape
  <2>2. \A d \in Deciders : pc'[d] \in {"approving", "reaching"} =>
            pc[d] \in {"approving", "reaching"} /\ asked'[d] = asked[d]
    BY <1>1, <1>2, <2>1
  <2> QED BY <1>2, <2>2 DEF Origin, Confirmed
<1> QED BY <1>3, <1>4, <1>5, <1>6 DEF Origin

LEMMA PublishOrigin ==
    ASSUME IInv, Origin, Publish
    PROVE  Origin'
<1>1. PICK m : /\ m \in sent \/ m.id = issued + 1
               /\ sent' = sent \cup {m} /\ issued' = Max({issued, m.id})
               /\ socket' = [l \in Listeners |-> IF pc[l] = "idle" THEN <<>> ELSE Append(socket[l], m)]
  BY DEF Publish
<1>2. UNCHANGED <<store, pc, mem, handling, asked, accepted, approvals, atOnce>>
  BY DEF Publish, ghosts
<1>3. /\ issued \in Nat /\ \A x \in sent : x.id \in 1..issued
      /\ Traced(store, issued, sent, Taken)
      /\ mem = [q \in Procs |-> mem[q]] /\ \A q \in Procs : Traced(mem[q], issued, sent, Taken)
  BY DEF Origin, StoreTraced
<1>4. m.id \in Nat /\ m.id >= 1 /\ (m \notin sent => m.id > issued) BY <1>1, <1>3
<1>5. issued' \in Nat /\ issued <= issued' /\ m.id <= issued'
  <2> DEFINE ids == {issued, m.id}
  <2>1. ids \in SUBSET Nat /\ ids # {} BY <1>3, <1>4
  <2>2. issued + m.id \in Nat /\ \A i \in ids : i <= issued + m.id BY <1>3, <1>4
  <2>3. Max(ids) \in ids /\ \A i \in ids : i <= Max(ids) BY <2>1, <2>2, GreatestMember
  <2>4. issued' = Max(ids) BY <1>1
  <2>5. issued' \in ids /\ issued <= issued' /\ m.id <= issued' BY <2>3, <2>4
  <2> QED BY <2>1, <2>5
<1>6. StoreTraced'
  <2>1. \A x \in sent' \ sent : x.id > issued BY <1>1, <1>4
  <2>2. Taken' = Taken BY <1>2 DEF Taken
  <2>3. sent \subseteq sent' BY <1>1
  <2>4. \A s : Traced(s, issued, sent, Taken) => Traced(s, issued', sent', Taken')
    BY <1>3, <1>5, <2>1, <2>2, <2>3, StillTraced
  <2>5. \A x \in sent' : x.id \in 1..issued' BY <1>1, <1>3, <1>4, <1>5
  <2> QED BY <1>2, <1>3, <1>5, <2>4, <2>5 DEF StoreTraced
<1>7. Heard'
  <2>1. \A l \in Listeners : socket'[l] \in Seq(sent')
    <3> SUFFICES ASSUME NEW l \in Listeners PROVE socket'[l] \in Seq(sent') OBVIOUS
    <3>1. socket[l] \in Seq(sent') /\ m \in sent' BY <1>1 DEF Origin, Heard
    <3>2. Append(socket[l], m) \in Seq(sent') /\ <<>> \in Seq(sent') BY <3>1
    <3> QED BY <1>1, <3>2
  <2>2. socket' \in [Listeners -> Seq(sent')] BY <1>1, <2>1
  <2> QED BY <1>1, <1>2, <2>2 DEF Origin, Heard, Believed
<1>8. Proposed' BY <1>1, <1>2, ProposedQuiet
<1>9. Confirmed' BY <1>2, ConfirmedQuiet
<1> QED BY <1>6, <1>7, <1>8, <1>9 DEF Origin

LEMMA ReadOrigin ==
    ASSUME IInv, Origin, NEW l \in Listeners, Read(l)
    PROVE  Origin'
<1>1. /\ socket[l] # <<>> /\ socket' = [socket EXCEPT ![l] = Tail(@)]
      /\ UNCHANGED <<store, issued, mem, asked, sent, accepted, approvals, atOnce>>
  BY DEF Read, ghosts, proposers
<1>2. \/ UNCHANGED <<pc, handling>>
      \/ /\ ~Head(socket[l]).retained /\ Believed(Head(socket[l]))
         /\ handling' = [handling EXCEPT ![l] = {Head(socket[l])}]
         /\ \E where \in {"believing", "accepting"} : GoTo(l, where)
  BY DEF Read
<1>3. socket[l] \in Seq(sent) BY DEF Origin, Heard
<1>4. Head(socket[l]) \in sent /\ Tail(socket[l]) \in Seq(sent) BY <1>1, <1>3
<1>5. StoreTraced' BY <1>1, StoreQuiet
<1>6. Heard'
  <2>1. socket' \in [Listeners -> Seq(sent')] BY <1>1, <1>4 DEF Origin, Heard
  <2>2. handling' = [k \in Listeners |-> handling'[k]] BY <1>2 DEF Origin, Heard
  <2>3. \A k \in Listeners : \A m \in handling'[k] : m \in sent /\ Believed(m) /\ ~m.retained
    BY <1>2, <1>4 DEF Origin, Heard
  <2> QED BY <1>1, <2>1, <2>2, <2>3 DEF Heard, Believed
<1>7. Proposed' BY <1>1, ProposedQuiet
<1>8. Confirmed'
  <2>1. UNCHANGED pc \/ \E where \in {"believing", "accepting"} : GoTo(l, where) BY <1>2
  <2> QED BY <1>1, <2>1, ConfirmedQuiet
<1> QED BY <1>5, <1>6, <1>7, <1>8 DEF Origin

LEMMA StopListeningOrigin ==
    ASSUME IInv, Origin, NEW l \in Listeners, StopListening(l)
    PROVE  Origin'
<1>1. /\ socket' = [socket EXCEPT ![l] = <<>>] /\ GoTo(l, "idle")
      /\ UNCHANGED <<store, issued, mem, handling, asked, sent, accepted, approvals, atOnce>>
  BY DEF StopListening, ghosts, proposers
<1>2. <<>> \in Seq(sent) OBVIOUS
<1>3. Heard' BY <1>1, <1>2 DEF Origin, Heard, Believed
<1> QED BY <1>1, <1>3, StoreQuiet, ProposedQuiet, ConfirmedQuiet DEF Origin

LEMMA AddSavesOrigin ==
    ASSUME IInv, Origin, NEW l \in Listeners, AddSaves(l)
    PROVE  Origin'
<1> DEFINE entry(m) == [id |-> m.id, node |-> m.source,
                        nth |-> 1 + Max({0} \cup {x.nth : x \in accepted})]
<1>1. PICK m \in handling[l] :
        accepted' = (accepted \ ToSet(loaded[l])) \cup ToSet(Added(loaded[l], entry(m)))
  BY DEF AddSaves
<1>2. PICK e : e = entry(m) OBVIOUS
<1>3. e.id = m.id /\ e.node = m.source BY <1>2
<1> HIDE DEF entry
<1>4. /\ pc[l] = "adding" /\ GoTo(l, "listening")
      /\ handling' = [handling EXCEPT ![l] = {}]
      /\ UNCHANGED <<store, issued, mem, socket, asked, sent, approvals, atOnce>>
  BY DEF AddSaves, proposers
<1>5. m \in sent /\ Believed(m) /\ ~m.retained BY DEF Origin, Heard
<1>6. loaded[l] = pending BY <1>4 DEF IInv, Held, People, Holding
<1>7. ToSet(Added(loaded[l], e)) \subseteq ToSet(pending) \cup {e}
  BY <1>6, AddedEntries DEF IInv, PendingFile
<1>8. ToSet(pending) \subseteq accepted BY DEF IInv, PendingFile, ToSet
<1>9. Proposed'
  <2>1. \A x \in accepted' : x \in accepted \/ x = e BY <1>1, <1>2, <1>7, <1>8
  <2>2. m.id = e.id /\ m.topic = e.node /\ m.sound /\ ~m.retained BY <1>3, <1>5 DEF Believed
  <2> QED BY <1>4, <1>5, <2>1, <2>2 DEF Origin, Proposed
<1>10. Heard' BY <1>4 DEF Origin, Heard, Believed
<1>11. StoreTraced' BY <1>4, StoreQuiet
<1>12. Confirmed' BY <1>4, ConfirmedQuiet
<1> QED BY <1>9, <1>10, <1>11, <1>12 DEF Origin

\* An incident that is opened at once is one of a message that is believed.
LEMMA OpenSavesOrigin ==
    ASSUME IInv, Origin, NEW l \in Listeners, OpenSaves(l)
    PROVE  Origin'
<1>1. PICK m \in handling[l] :
        SaveStore(l, Opened(mem[l], m.id, m.source)) /\ atOnce' = atOnce \cup {m.id}
  BY DEF OpenSaves
<1>2. /\ handling' = [handling EXCEPT ![l] = {}] /\ Forget(l) /\ GoTo(l, "notifying")
      /\ UNCHANGED <<socket, asked, sent, accepted, approvals>>
  BY DEF OpenSaves, proposers
<1>3. m \in sent /\ Believed(m) /\ ~m.retained BY DEF Origin, Heard
<1>4. l \in Procs BY ReviewAssumption
<1>5. Traced(mem[l], issued, sent, Taken) /\ m.id \in 1..issued /\ issued \in Nat
  BY <1>3, <1>4 DEF Origin, StoreTraced
<1> DEFINE s2 == Opened(mem[l], m.id, m.source)
<1>6. /\ OpenShape(s2)
      /\ \A r \in Records(s2) :
             (\E q \in Records(mem[l]) : Alike(q, r)) \/ (r.id = m.id /\ r.component = Redact[m.source])
  BY <1>5, OpenedStems DEF Traced
<1> HIDE DEF s2
<1>7. ASSUME NEW r, r.id = m.id, r.component = Redact[m.source]
      PROVE  r.id \in 1..issued /\ Vouched(r, sent, Taken')
  BY <1>1, <1>3, <1>5, <1>7 DEF Vouched, Taken, Believed
<1>8. StoreTraced'
  <2>1. \A r \in Records(s2) : \/ \E q \in Records(mem[l]) : Alike(q, r)
                               \/ r.id \in (issued + 1)..issued
                               \/ r.id \in 1..issued /\ Vouched(r, sent, Taken')
    BY <1>6, <1>7
  <2>2. SaveStore(l, s2) BY <1>1 DEF s2
  <2> QED BY <1>1, <1>2, <1>4, <1>5, <1>6, <2>1, <2>2, StoreSaved
<1>9. Heard' BY <1>2 DEF Origin, Heard, Believed
<1>10. Proposed' BY <1>2, ProposedQuiet
<1>11. Confirmed' BY <1>2, ConfirmedQuiet
<1> QED BY <1>8, <1>9, <1>10, <1>11 DEF Origin

\* What a person decides on is in the pending file, and so it was accepted.
LEMMA DecideLoadsOrigin ==
    ASSUME IInv, Origin, NEW d \in Deciders, DecideLoads(d)
    PROVE  Origin'
<1>1. PICK m \in sent, decision \in Decisions :
        /\ asked' = [asked EXCEPT ![d] = Found(pending, m.id)]
        /\ approvals' = IF decision = "approved"
                        THEN approvals \cup {e \in accepted : e.id = m.id /\ e \in ToSet(pending)}
                        ELSE approvals
        /\ GoTo(d, IF decision = "approved" THEN "approving" ELSE "rejecting")
  BY DEF DecideLoads
<1>2. UNCHANGED <<store, issued, mem, socket, handling, sent, accepted, atOnce>>
  BY DEF DecideLoads, proposers
<1>3. Found(pending, m.id) = {e \in accepted : e.id = m.id /\ e \in ToSet(pending)}
  BY DEF Found, IInv, PendingFile, ToSet
<1>4. /\ pc \in [Procs -> PcValues] /\ Deciders \subseteq Procs
      /\ asked = [q \in Deciders |-> asked[q]]
  BY ReviewAssumption DEF IInv, Shape
<1>5. approvals \subseteq approvals' BY <1>1
<1>6. Confirmed'
  <2>1. ASSUME NEW q \in Deciders, pc'[q] \in {"approving", "reaching"}
        PROVE  asked'[q] \subseteq approvals'
    <3>1. CASE q = d BY <1>1, <1>3, <1>4, <2>1, <3>1 DEF GoTo
    <3>2. CASE q # d
      <4>1. pc'[q] = pc[q] /\ asked'[q] = asked[q] BY <1>1, <1>4, <3>2 DEF GoTo
      <4> QED BY <1>5, <2>1, <4>1 DEF Origin, Confirmed
    <3> QED BY <3>1, <3>2
  <2> QED BY <2>1 DEF Confirmed
<1> QED BY <1>2, <1>5, <1>6, StoreQuiet, HeardQuiet, ProposedQuiet DEF Origin

\* What reaches the store by a decision was approved, and accepted before.
LEMMA ApproveSavesOrigin ==
    ASSUME IInv, Origin, NEW d \in Deciders, ApproveSaves(d)
    PROVE  Origin'
<1>1. PICK e \in asked[d] : SaveStore(d, Opened(mem[d], e.id, e.node)) BY DEF ApproveSaves
<1>2. /\ pc[d] = "reaching" /\ Forget(d) /\ GoTo(d, "recording")
      /\ UNCHANGED <<socket, handling, asked, sent, accepted, approvals, atOnce>>
  BY DEF ApproveSaves, proposers, held
<1>3. e \in approvals BY <1>2 DEF Origin, Confirmed
<1>4. e \in accepted
  <2>1. d \in People /\ pc[d] \in Holding /\ pc[d] # "adding" BY <1>2 DEF People, Holding, Deciding
  <2>2. PICK f \in ToSet(pending) : asked[d] = {f} BY <2>1 DEF IInv, Held
  <2> QED BY <2>2 DEF IInv, PendingFile, ToSet
<1>5. PICK m \in sent : m.id = e.id /\ m.topic = e.node /\ m.sound /\ ~m.retained
  BY <1>4 DEF Origin, Proposed
<1>6. d \in Procs BY ReviewAssumption
<1>7. Traced(mem[d], issued, sent, Taken) /\ m.id \in 1..issued /\ issued \in Nat
  BY <1>6 DEF Origin, StoreTraced
<1> DEFINE s2 == Opened(mem[d], e.id, e.node)
<1>8. /\ OpenShape(s2)
      /\ \A r \in Records(s2) :
             (\E q \in Records(mem[d]) : Alike(q, r)) \/ (r.id = e.id /\ r.component = Redact[e.node])
  BY <1>7, OpenedStems DEF Traced
<1> HIDE DEF s2
<1>9. ASSUME NEW r, r.id = e.id, r.component = Redact[e.node]
      PROVE  r.id \in 1..issued /\ Vouched(r, sent, Taken')
  <2>1. r.id \in Taken' BY <1>2, <1>3, <1>9 DEF Taken
  <2> QED BY <1>5, <1>7, <1>9, <2>1 DEF Vouched
<1>10. StoreTraced'
  <2>1. \A r \in Records(s2) : \/ \E q \in Records(mem[d]) : Alike(q, r)
                               \/ r.id \in (issued + 1)..issued
                               \/ r.id \in 1..issued /\ Vouched(r, sent, Taken')
    BY <1>8, <1>9
  <2>2. SaveStore(d, s2) BY <1>1 DEF s2
  <2> QED BY <1>2, <1>6, <1>7, <1>8, <2>1, <2>2, StoreSaved
<1> QED BY <1>2, <1>10, HeardQuiet, ProposedQuiet, ConfirmedQuiet DEF Origin

\* A decision that is recorded: the decider has nothing in its hands any more.
LEMMA DecideSavesOrigin ==
    ASSUME IInv, Origin, NEW d \in Deciders, DecideSaves(d)
    PROVE  Origin'
<1>1. /\ asked' = [asked EXCEPT ![d] = {}]
      /\ UNCHANGED <<store, issued, mem, socket, handling, sent, accepted, approvals, atOnce>>
  BY DEF DecideSaves, proposers
<1>2. PICK where \in {"notifying", "idle"} : GoTo(d, where) BY DEF DecideSaves
<1>3. /\ pc \in [Procs -> PcValues] /\ Deciders \subseteq Procs
      /\ asked = [q \in Deciders |-> asked[q]]
  BY ReviewAssumption DEF IInv, Shape
<1>4. \A q \in Deciders : pc'[q] \in {"approving", "reaching"} =>
          pc[q] \in {"approving", "reaching"} /\ asked'[q] = asked[q]
  BY <1>1, <1>2, <1>3 DEF GoTo
<1>5. Confirmed' BY <1>1, <1>4 DEF Origin, Confirmed
<1> QED BY <1>1, <1>5, StoreQuiet, HeardQuiet, ProposedQuiet DEF Origin

\* A step that is none of the intake's, and saves nothing.
LEMMA AsideOrigin ==
    ASSUME IInv, Origin, NEW p, NEW where, UNCHANGED <<store, issued, intakeVars>>,
           UNCHANGED mem \/ Loads(p),
           \/ UNCHANGED pc
           \/ GoTo(p, where) /\ (where \notin {"approving", "reaching"} \/ pc[p] = "approving")
    PROVE  Origin'
<1>1. UNCHANGED <<socket, handling, asked, sent, accepted, approvals, atOnce>>
  BY DEF intakeVars, held, proposers, ghosts
<1>2. StoreTraced' BY <1>1, StoreQuiet
<1> QED BY <1>1, <1>2, HeardQuiet, ProposedQuiet, ConfirmedQuiet DEF Origin

\* The watchdog's incidents have identities of their own, which no proposal has.
LEMMA BridgeSavesOrigin ==
    ASSUME IInv, Origin, ReadInv, NEW b \in Bridges, BridgeSaves(b), UNCHANGED intakeVars
    PROVE  Origin'
<1>1. Forget(b) /\ GoTo(b, "notifying") BY DEF BridgeSaves
<1>2. CASE chunk[b] = <<>>
  <2>1. UNCHANGED <<store, issued>> BY <1>2 DEF BridgeSaves
  <2>2. Loads(b) BY <1>1 DEF Forget, Loads
  <2> QED BY <1>1, <2>1, <2>2, AsideOrigin
<1>3. CASE chunk[b] # <<>>
  <2>1. SaveStore(b, Ingested(b)) BY <1>3 DEF BridgeSaves
  <2>2. b \in Procs BY ReviewAssumption
  <2>3. Traced(mem[b], issued, sent, Taken) /\ issued \in Nat BY <2>2 DEF Origin, StoreTraced
  <2>4. chunk[b] \in Seq(Transitions) BY DEF ReadInv
  <2>5. /\ OpenShape(Ingested(b))
        /\ \A r \in Records(Ingested(b)) :
               (\E q \in Records(mem[b]) : Alike(q, r)) \/ r.id \in (issued + 1)..(issued + Len(chunk[b]))
    BY <2>3, <2>4, IngestedStems DEF Traced
  <2>6. issued + Len(chunk[b]) \in Nat BY <2>3, <2>4
  <2>7. UNCHANGED <<socket, handling, asked, sent, accepted, approvals, atOnce>>
    BY DEF intakeVars, held, proposers, ghosts
  <2>8. StoreTraced'
    <3> DEFINE s2 == Ingested(b)
               bound == issued + Len(chunk[b])
    <3>1. /\ SaveStore(b, s2) /\ OpenShape(s2) /\ bound \in Nat
          /\ \A r \in Records(s2) : (\E q \in Records(mem[b]) : Alike(q, r)) \/ r.id \in (issued + 1)..bound
      BY <2>1, <2>5, <2>6
    <3> HIDE DEF s2, bound
    <3> QED BY <1>1, <2>2, <2>7, <3>1, StoreSaved
  <2> QED BY <1>1, <2>7, <2>8, HeardQuiet, ProposedQuiet, ConfirmedQuiet DEF Origin
<1> QED BY <1>2, <1>3

LEMMA NextOrigin ==
    ASSUME IInv, Origin, ReadInv, [Next]_vars
    PROVE  Origin'
<1>1. ASSUME NEW l \in Listeners, Intake(l) PROVE Origin'
  <2>1. l \in Procs BY ReviewAssumption
  <2>2. CASE Listen(l)
    BY <2>2, StoreQuiet, HeardQuiet, ProposedQuiet, ConfirmedQuiet DEF Listen, Origin, ghosts, proposers
  <2>3. CASE AddLoads(l)
    BY <2>3, StoreQuiet, HeardQuiet, ProposedQuiet, ConfirmedQuiet DEF AddLoads, Origin, ghosts, proposers
  <2>4. CASE AddTimeout(l) BY <2>1, <2>4, DiesOrigin DEF AddTimeout
  <2>5. CASE OpenTimeout(l) BY <2>1, <2>5, DiesOrigin DEF OpenTimeout, LockTimeout
  <2>6. CASE OpenLocks(l)
    <3>1. /\ Loads(l) /\ GoTo(l, "opening")
          /\ UNCHANGED <<store, issued, intakeVars>>
      BY <2>6 DEF OpenLocks, Acquire, Loads
    <3> QED BY <3>1, AsideOrigin
  <2>7. CASE OpenEnds(l) BY <2>7, AsideOrigin DEF OpenEnds
  <2> QED BY <1>1, <2>2, <2>3, <2>4, <2>5, <2>6, <2>7, ReadOrigin, StopListeningOrigin,
             AddSavesOrigin, OpenSavesOrigin DEF Intake
<1>2. ASSUME NEW d \in Deciders, Decide(d) PROVE Origin'
  <2>1. d \in Procs BY ReviewAssumption
  <2>2. CASE DecideTimeout(d) BY <2>1, <2>2, DiesOrigin DEF DecideTimeout
  <2>3. CASE ApproveTimeout(d) BY <2>1, <2>3, DiesOrigin DEF ApproveTimeout, LockTimeout
  <2>4. CASE ApproveLocks(d)
    <3>1. Loads(d) /\ GoTo(d, "reaching") /\ pc[d] = "approving" /\ UNCHANGED <<store, issued, intakeVars>>
      BY <2>4 DEF ApproveLocks, Acquire, Loads
    <3> QED BY <3>1, AsideOrigin
  <2>5. CASE DecideEnds(d) BY <2>5, AsideOrigin DEF DecideEnds
  <2> QED BY <1>2, <2>2, <2>3, <2>4, <2>5, DecideLoadsOrigin, ApproveSavesOrigin, DecideSavesOrigin
          DEF Decide
<1>3. ASSUME NEW b \in Bridges, Ingest(b), UNCHANGED intakeVars PROVE Origin'
  <2>1. CASE ReadNew(b) BY <1>3, <2>1, AsideOrigin DEF ReadNew
  <2>2. CASE BridgeLocks(b)
    <3>1. /\ Loads(b) /\ GoTo(b, "applying") /\ UNCHANGED <<store, issued>>
      BY <2>2 DEF BridgeLocks, Acquire, Loads
    <3> QED BY <1>3, <3>1, AsideOrigin
  <2>3. CASE BridgeTimeout(b)
    <3>1. /\ Loads(b) /\ GoTo(b, "idle") /\ UNCHANGED <<store, issued>>
      BY <2>3 DEF BridgeTimeout, LockTimeout, Dies, Forget, Loads
    <3> QED BY <1>3, <3>1, AsideOrigin
  <2>4. CASE BridgeEnds(b) BY <1>3, <2>4, AsideOrigin DEF BridgeEnds
  <2> QED BY <1>3, <2>1, <2>2, <2>3, <2>4, BridgeSavesOrigin DEF Ingest
<1>4. ASSUME NEW p \in Procs, Send(p), UNCHANGED intakeVars PROVE Origin'
  BY <1>4, AsideOrigin DEF Send, storeVars
<1>5. ASSUME NEW p \in Procs, Crash(p) PROVE Origin' BY <1>5, DiesOrigin DEF Crash
<1>6. CASE Outside
  <2>1. CASE Publish BY <2>1, PublishOrigin
  <2>2. CASE Watchdog /\ UNCHANGED intakeVars
    BY <2>2, AsideOrigin DEF Watchdog, WatchdogWrites, WatchdogRotates, storeVars
  <2> QED BY <1>6, <2>1, <2>2 DEF Outside
<1>7. CASE UNCHANGED vars BY <1>7, AsideOrigin DEF vars, storeVars
<1> QED BY <1>1, <1>2, <1>3, <1>4, <1>5, <1>6, <1>7 DEF Next, Run

LEMMA PartOf ==
    ASSUME NEW S, NEW q \in Seq(S), NEW from \in Nat \ {0}, NEW to \in Nat, to <= Len(q)
    PROVE  SubSeq(q, from, to) \in Seq(S)
<1>1. \A i \in from..to : q[i] \in S OBVIOUS
<1> QED BY <1>1

LEMMA SmallerOf == \A a, b \in Nat : Min({a, b}) \in {a, b} /\ Min({a, b}) <= a /\ Min({a, b}) <= b
<1> SUFFICES ASSUME NEW a \in Nat, NEW b \in Nat
             PROVE  Min({a, b}) \in {a, b} /\ Min({a, b}) <= a /\ Min({a, b}) <= b
  OBVIOUS
<1>1. \E x \in {a, b} : \A y \in {a, b} : x <= y OBVIOUS
<1> QED BY <1>1 DEF Min

LEMMA NextRead == ReadInv /\ [Next]_vars => ReadInv'
<1> SUFFICES ASSUME ReadInv, [Next]_vars PROVE ReadInv' OBVIOUS
<1> USE DEF ReadInv
<1>1. ASSUME NEW p, BridgeDies(p) PROVE ReadInv'
  <2>1. /\ chunk' = [b \in Bridges |-> IF b = p THEN <<>> ELSE chunk[b]]
        /\ upto' = [b \in Bridges |-> IF b = p THEN 0 ELSE upto[b]]
        /\ journal' = journal /\ offset' = offset
    BY <1>1 DEF BridgeDies, watchdog
  <2> QED BY <2>1
<1>2. ASSUME UNCHANGED bridgeVars PROVE ReadInv' BY <1>2 DEF bridgeVars
<1>3. ASSUME NEW b \in Bridges, Ingest(b) PROVE ReadInv'
  <2>1. CASE ReadNew(b)
    <3> DEFINE new == SubSeq(journal, Start + 1, Len(journal))
               part == SubSeq(new, 1, Min({LinesPerRun, Len(new)}))
    <3>1. new \in Seq(Transitions)
      <4>1. Start \in Nat /\ Start + 1 \in Nat \ {0} BY DEF Start
      <4>2. Len(journal) \in Nat /\ Len(journal) <= Len(journal) OBVIOUS
      <4> QED BY <4>1, <4>2, PartOf
    <3>2. chunk' = [chunk EXCEPT ![b] = part] /\ upto' = [upto EXCEPT ![b] = Len(journal)]
          /\ UNCHANGED <<journal, offset>>
      BY <2>1 DEF ReadNew, watchdog
    <3> HIDE DEF new
    <3>3. part \in Seq(Transitions)
      <4>1. Len(new) \in Nat /\ LinesPerRun \in Nat BY <3>1, BridgeAssumption
      <4>2. Min({LinesPerRun, Len(new)}) \in Nat /\ Min({LinesPerRun, Len(new)}) <= Len(new)
        BY <4>1, SmallerOf
      <4>3. 1 \in Nat \ {0} OBVIOUS
      <4> QED BY <3>1, <4>2, <4>3, PartOf
    <3> HIDE DEF part
    <3>4. Len(journal) \in Nat OBVIOUS
    <3> QED BY <3>2, <3>3, <3>4
  <2>2. CASE BridgeTimeout(b) BY <1>1, <2>2 DEF BridgeTimeout
  <2>3. CASE BridgeSaves(b)
    <3>1. chunk' = [chunk EXCEPT ![b] = <<>>] /\ UNCHANGED <<journal, offset, upto>>
      BY <2>3 DEF BridgeSaves, watchdog
    <3> QED BY <3>1
  <2>4. CASE BridgeEnds(b)
    <3>1. offset' = upto[b] /\ upto' = [upto EXCEPT ![b] = 0] /\ UNCHANGED <<journal, chunk>>
      BY <2>4 DEF BridgeEnds, NewOffset, watchdog
    <3> QED BY <3>1
  <2>5. CASE BridgeLocks(b) BY <1>2, <2>5 DEF BridgeLocks
  <2> QED BY <1>3, <2>1, <2>2, <2>3, <2>4, <2>5 DEF Ingest
<1>4. CASE Outside
  <2>1. CASE WatchdogWrites
    <3>1. PICK n \in Nodes, to \in Statuses : journal' = Append(journal, [node |-> n, to |-> to])
      BY <2>1 DEF WatchdogWrites
    <3>2. [node |-> n, to |-> to] \in Transitions BY DEF Transitions
    <3>3. journal' \in Seq(Transitions) BY <3>1, <3>2
    <3> QED BY <2>1, <3>3 DEF WatchdogWrites
  <2>2. CASE WatchdogRotates
    <3>1. journal' = <<>> /\ UNCHANGED <<chunk, offset, upto>> BY <2>2 DEF WatchdogRotates
    <3> QED BY <3>1
  <2> QED BY <1>2, <1>4, <2>1, <2>2 DEF Outside, Watchdog
<1>5. ASSUME NEW p \in Procs, Run(p) PROVE ReadInv' BY <1>2, <1>3, <1>5 DEF Run
<1>6. ASSUME NEW p \in Procs, Crash(p) PROVE ReadInv' BY <1>1, <1>6 DEF Crash
<1>7. CASE UNCHANGED vars BY <1>2, <1>7 DEF vars
<1> QED BY <1>4, <1>5, <1>6, <1>7 DEF Next

LEMMA InitOrigin == Init => OInv
<1> SUFFICES ASSUME Init PROVE OInv OBVIOUS
<1>1. /\ store = EmptyStore /\ issued = 0 /\ mem = [p \in Procs |-> EmptyStore]
      /\ pc = [p \in Procs |-> "idle"] /\ sent = {} /\ accepted = {}
      /\ socket = [l \in Listeners |-> <<>>] /\ handling = [l \in Listeners |-> {}]
  BY DEF Init, StoreInit, IntakeInit
<1>2. StoreTraced BY <1>1, EmptyTraced DEF StoreTraced
<1>3. Heard
  <2>1. socket \in [Listeners -> Seq(sent)] BY <1>1
  <2> QED BY <1>1, <2>1 DEF Heard
<1>4. Proposed BY <1>1 DEF Proposed
<1>5. Deciders \subseteq Procs BY ReviewAssumption
<1>6. Confirmed BY <1>1, <1>5 DEF Confirmed
<1>7. ReadInv
  <2>1. /\ journal = <<>> /\ offset = 0
        /\ chunk = [b \in Bridges |-> <<>>] /\ upto = [b \in Bridges |-> 0]
    BY DEF Init, BridgeInit
  <2> QED BY <2>1 DEF ReadInv
<1> QED BY <1>2, <1>3, <1>4, <1>6, <1>7 DEF OInv, Origin

\* "Nothing else happens until an operator approves it": the incident of a proposal is in
\* the store only after an approval, or where auto_open took it, and it is of the node that
\* published the proposal; no other program's incident is ever taken for one.
THEOREM OnlyWhatWasApproved == Spec => []OnlyApproved
<1>1. OInv => OnlyApproved
  BY DEF OInv, Origin, StoreTraced, Traced, Records, Vouched, Taken, OnlyApproved
<1>2. IInv /\ OInv /\ [Next]_vars => OInv' BY NextOrigin, NextRead DEF OInv
<1> QED BY <1>1, <1>2, InitOrigin, Invariance, PTL DEF Spec

-----------------------------------------------------------------------------
(* What the programs do to each other's incidents.                         *)

\* The places at which a program holds the lock of the store and has loaded it.
Writing == {"opening", "reaching", "applying"}

\* Who writes has the store as it is.
StoreHeld == \A p \in Procs : pc[p] \in Writing => lock = p /\ mem[p] = store

\* A store as a writer leaves it: one open incident for each component, under its stored name,
\* and one component for each identity.
Each(s) ==
    /\ \A r \in s.open : Redact[r.component] = r.component
    /\ \A q, r \in s.open : q.component = r.component => q = r
    /\ \A q, r \in Records(s) : q.id = r.id => q.component = r.component

\* A message has an identity of its own, however often it is sent.
OneMessageEach ==
    /\ \A m, x \in sent : m.id = x.id => m = x
    /\ \A m \in sent : m.topic \in Names

WInv == StoreHeld /\ OneMessageEach /\ Each(store) /\ \A p \in Procs : Each(mem[p])

\* The four ways in which a step touches the store, its lock and what is loaded of it.
Locks(p) == Acquire(p) /\ UNCHANGED store /\ \E where \in Writing : GoTo(p, where)
Saves(p) ==
    /\ pc[p] \in Writing /\ Forget(p) /\ lock' = IF lock = p THEN None ELSE lock
    /\ \E where \in PcValues \ Writing : GoTo(p, where)
Stops(p) ==
    /\ UNCHANGED store /\ Forget(p) /\ lock' = IF lock = p THEN None ELSE lock
    /\ GoTo(p, "idle")
Passes(p) ==
    /\ UNCHANGED <<store, lock, mem>>
    /\ \/ UNCHANGED pc
       \/ pc[p] \notin Writing /\ \E where \in PcValues \ Writing : GoTo(p, where)

\* A step that saves is one of these three, or saves nothing.
SavesWhat(p) ==
    \/ UNCHANGED store
    \/ p \in Listeners /\ \E m \in handling[p] : store' = Opened(mem[p], m.id, m.source)
    \/ p \in Deciders /\ \E e \in asked[p] : pc[p] = "reaching" /\ store' = Opened(mem[p], e.id, e.node)
    \/ p \in Bridges /\ pc[p] = "applying" /\ store' = Ingested(p)

LEMMA IntakeTouches ==
    ASSUME IInv, NEW l \in Listeners, Intake(l)
    PROVE  /\ Locks(l) \/ Saves(l) \/ Stops(l) \/ Passes(l)
           /\ SavesWhat(l) /\ UNCHANGED sent
<1> USE DEF PcValues, Writing
<1>1. CASE OpenSaves(l)
  <2>1. PICK m \in handling[l] : SaveStore(l, Opened(mem[l], m.id, m.source)) BY <1>1 DEF OpenSaves
  <2>2. /\ pc[l] = "opening" /\ Forget(l) /\ GoTo(l, "notifying") /\ UNCHANGED sent
        /\ lock' = (IF lock = l THEN None ELSE lock) /\ store' = Opened(mem[l], m.id, m.source)
    BY <1>1, <2>1 DEF OpenSaves, SaveStore, proposers
  <2> QED BY <2>2 DEF Saves, SavesWhat
<1>2. CASE OpenLocks(l)
  BY <1>2 DEF OpenLocks, Locks, SavesWhat, intakeVars, proposers
<1>3. CASE OpenTimeout(l) \/ AddTimeout(l)
  BY <1>3 DEF OpenTimeout, AddTimeout, LockTimeout, Dies, IntakeDies, Stops, SavesWhat, proposers
<1>4. CASE Listen(l) \/ StopListening(l)
  BY <1>4 DEF Listen, StopListening, Passes, SavesWhat, proposers
<1>5. CASE Read(l)
  <2>1. /\ pc[l] = "listening" /\ UNCHANGED <<store, lock, mem, sent>>
        /\ \/ UNCHANGED pc
           \/ GoTo(l, IF auto[l] THEN "believing" ELSE "accepting")
    BY <1>5 DEF Read, proposers
  <2> QED BY <2>1 DEF Passes, SavesWhat
<1>6. CASE AddLoads(l) \/ AddSaves(l) \/ OpenEnds(l)
  BY <1>6 DEF AddLoads, AddSaves, OpenEnds, Passes, SavesWhat, proposers, intakeVars
<1> QED BY <1>1, <1>2, <1>3, <1>4, <1>5, <1>6 DEF Intake

LEMMA DecideTouches ==
    ASSUME IInv, NEW d \in Deciders, Decide(d)
    PROVE  /\ Locks(d) \/ Saves(d) \/ Stops(d) \/ Passes(d)
           /\ SavesWhat(d) /\ UNCHANGED sent
<1> USE DEF PcValues, Writing
<1>1. CASE ApproveSaves(d)
  <2>1. PICK e \in asked[d] : SaveStore(d, Opened(mem[d], e.id, e.node)) BY <1>1 DEF ApproveSaves
  <2>2. /\ pc[d] = "reaching" /\ Forget(d) /\ GoTo(d, "recording") /\ UNCHANGED sent
        /\ lock' = (IF lock = d THEN None ELSE lock) /\ store' = Opened(mem[d], e.id, e.node)
    BY <1>1, <2>1 DEF ApproveSaves, SaveStore, proposers
  <2> QED BY <2>2 DEF Saves, SavesWhat
<1>2. CASE ApproveLocks(d)
  BY <1>2 DEF ApproveLocks, Locks, SavesWhat, intakeVars, proposers
<1>3. CASE ApproveTimeout(d) \/ DecideTimeout(d)
  BY <1>3 DEF ApproveTimeout, DecideTimeout, LockTimeout, Dies, IntakeDies, Stops, SavesWhat, proposers
<1>4. CASE DecideLoads(d)
  <2>1. /\ pc[d] = "idle" /\ UNCHANGED <<store, lock, mem, sent>>
        /\ \E where \in {"approving", "rejecting"} : GoTo(d, where)
    BY <1>4 DEF DecideLoads, proposers
  <2> QED BY <2>1 DEF Passes, SavesWhat
<1>5. CASE DecideSaves(d)
  <2>1. /\ pc[d] \in {"recording", "rejecting"} /\ UNCHANGED <<store, lock, mem, sent>>
        /\ \E where \in {"notifying", "idle"} : GoTo(d, where)
    BY <1>5 DEF DecideSaves, proposers
  <2> QED BY <2>1 DEF Passes, SavesWhat
<1>6. CASE DecideEnds(d)
  BY <1>6 DEF DecideEnds, Passes, SavesWhat, proposers, intakeVars
<1> QED BY <1>1, <1>2, <1>3, <1>4, <1>5, <1>6 DEF Decide

LEMMA IngestTouches ==
    ASSUME IInv, NEW b \in Bridges, Ingest(b), UNCHANGED intakeVars
    PROVE  /\ Locks(b) \/ Saves(b) \/ Stops(b) \/ Passes(b)
           /\ SavesWhat(b) /\ UNCHANGED sent
<1> USE DEF PcValues, Writing
<1>0. UNCHANGED sent BY DEF intakeVars, proposers
<1>1. CASE BridgeSaves(b)
  <2>1. /\ pc[b] = "applying" /\ Forget(b) /\ GoTo(b, "notifying")
        /\ lock' = (IF lock = b THEN None ELSE lock) /\ store' \in {store, Ingested(b)}
    BY <1>1 DEF BridgeSaves, SaveStore
  <2> QED BY <1>0, <2>1 DEF Saves, SavesWhat
<1>2. CASE BridgeLocks(b) BY <1>0, <1>2 DEF BridgeLocks, Locks, SavesWhat
<1>3. CASE BridgeTimeout(b)
  BY <1>0, <1>3 DEF BridgeTimeout, LockTimeout, Dies, Stops, SavesWhat
<1>4. CASE ReadNew(b) \/ BridgeEnds(b)
  BY <1>0, <1>4 DEF ReadNew, BridgeEnds, Passes, SavesWhat
<1> QED BY <1>1, <1>2, <1>3, <1>4 DEF Ingest

LEMMA NextTouches ==
    ASSUME IInv, [Next]_vars
    PROVE  \/ UNCHANGED <<store, lock, mem, pc>>
           \/ \E p \in Procs : /\ Locks(p) \/ Saves(p) \/ Stops(p) \/ Passes(p)
                               /\ SavesWhat(p) /\ UNCHANGED sent
<1>1. ASSUME NEW l \in Listeners, Intake(l)
      PROVE  \E p \in Procs : (Locks(p) \/ Saves(p) \/ Stops(p) \/ Passes(p)) /\ SavesWhat(p) /\ UNCHANGED sent
  BY <1>1, IntakeTouches, ReviewAssumption
<1>2. ASSUME NEW d \in Deciders, Decide(d)
      PROVE  \E p \in Procs : (Locks(p) \/ Saves(p) \/ Stops(p) \/ Passes(p)) /\ SavesWhat(p) /\ UNCHANGED sent
  BY <1>2, DecideTouches, ReviewAssumption
<1>3. ASSUME NEW b \in Bridges, Ingest(b), UNCHANGED intakeVars
      PROVE  \E p \in Procs : (Locks(p) \/ Saves(p) \/ Stops(p) \/ Passes(p)) /\ SavesWhat(p) /\ UNCHANGED sent
  BY <1>3, IngestTouches, ReviewAssumption
<1>4. ASSUME NEW p \in Procs, Crash(p)
      PROVE  Stops(p) /\ SavesWhat(p) /\ UNCHANGED sent
  BY <1>4 DEF Crash, Dies, IntakeDies, proposers, Stops, SavesWhat
<1>5. ASSUME NEW p \in Procs, Send(p) PROVE UNCHANGED <<store, lock, mem, pc>>
  BY <1>5 DEF Send, storeVars
<1>6. CASE Outside
  BY <1>6 DEF Outside, Publish, Watchdog, WatchdogWrites, WatchdogRotates, storeVars
<1>7. CASE UNCHANGED vars BY <1>7 DEF vars, storeVars
<1> QED BY <1>1, <1>2, <1>3, <1>4, <1>5, <1>6, <1>7 DEF Next, Run

\* A new message has a number of its own.
LEMMA NextMessages ==
    ASSUME IInv, Origin, OneMessageEach, [Next]_vars
    PROVE  OneMessageEach'
<1>1. CASE Publish
  <2>1. PICK m : /\ \/ m \in sent
                    \/ \E x \in Shapes : m = [id |-> issued + 1, topic |-> x.topic, source |-> x.source,
                                              sound |-> x.sound, retained |-> x.retained]
                 /\ sent' = sent \cup {m}
    BY <1>1 DEF Publish
  <2>2. m \in sent \/ (m.id = issued + 1 /\ m.topic \in Names)
    BY <2>1, IntakeAssumption
  <2>3. \A x \in sent : x.id \in 1..issued /\ x.id # issued + 1 BY DEF Origin, StoreTraced
  <2> QED BY <2>1, <2>2, <2>3 DEF OneMessageEach
<1>2. CASE ~Publish
  <2>1. UNCHANGED sent
    <3>1. CASE \E p \in Procs : Send(p) /\ UNCHANGED intakeVars
      BY <3>1 DEF intakeVars, proposers
    <3>2. CASE \E p \in Procs : Crash(p) BY <3>2 DEF Crash, IntakeDies, proposers
    <3>3. CASE Outside \/ UNCHANGED vars
      BY <1>2, <3>3 DEF Outside, intakeVars, proposers, vars
    <3> QED BY <3>1, <3>2, <3>3, IntakeTouches, DecideTouches, IngestTouches DEF Next, Run
  <2> QED BY <2>1 DEF OneMessageEach
<1> QED BY <1>1, <1>2

LEMMA HeldKept ==
    ASSUME IInv, Origin, StoreHeld, [Next]_vars
    PROVE  StoreHeld'
<1>1. pc \in [Procs -> PcValues] BY DEF IInv, Shape
<1>2. CASE UNCHANGED <<store, lock, mem, pc>> BY <1>2 DEF StoreHeld
<1>3. ASSUME NEW p \in Procs, Locks(p) PROVE StoreHeld'
  <2>1. \A q \in Procs : pc[q] \notin Writing BY <1>3, StoreAssumption DEF Locks, Acquire, StoreHeld
  <2>2. \A q \in Procs \ {p} : pc'[q] = pc[q] BY <1>1, <1>3 DEF Locks, GoTo
  <2>3. mem = [q \in Procs |-> mem[q]] BY DEF Origin, StoreTraced
  <2>4. lock' = p /\ mem'[p] = store /\ store' = store BY <1>3, <2>3 DEF Locks, Acquire
  <2> QED BY <2>1, <2>2, <2>4 DEF StoreHeld
<1>4. ASSUME NEW p \in Procs, Saves(p) PROVE StoreHeld'
  <2>1. \A q \in Procs \ {p} : pc'[q] = pc[q] /\ pc[q] \notin Writing
    BY <1>1, <1>4 DEF Saves, GoTo, StoreHeld
  <2>2. pc'[p] \notin Writing BY <1>1, <1>4 DEF Saves, GoTo
  <2> QED BY <2>1, <2>2 DEF StoreHeld
<1>5. ASSUME NEW p \in Procs, Stops(p) PROVE StoreHeld'
  <2>1. pc'[p] = "idle" /\ \A q \in Procs \ {p} : pc'[q] = pc[q] BY <1>1, <1>5 DEF Stops, GoTo
  <2>2. store' = store /\ \A q \in Procs \ {p} : lock = q => lock' = q BY <1>5 DEF Stops
  <2>3. \A q \in Procs \ {p} : mem'[q] = mem[q]
    <3>1. mem' = [mem EXCEPT ![p] = EmptyStore] BY <1>5 DEF Stops, Forget
    <3> QED BY <3>1
  <2> QED BY <2>1, <2>2, <2>3 DEF StoreHeld, Writing
<1>6. ASSUME NEW p \in Procs, Passes(p) PROVE StoreHeld'
  <2>1. \A q \in Procs : pc'[q] \in Writing => pc[q] \in Writing BY <1>1, <1>6 DEF Passes, GoTo
  <2> QED BY <1>6, <2>1 DEF StoreHeld, Passes
<1> QED BY <1>2, <1>3, <1>4, <1>5, <1>6, NextTouches

\* What one reconciliation with at most one incident makes of a store: the incidents of the
\* components that were not looked at stay, and the new one gets its place only when its
\* component has none.
LEMMA ReconcileEach ==
    ASSUME NEW s, NEW new, NEW checked, NEW t, OpenShape(s), Each(s),
           DOMAIN new \subseteq {1}, \A i \in DOMAIN new : new[i].component \in Names,
           \A i \in DOMAIN new, r \in Records(s) :
               r.id = new[i].id => r.component = Redact[new[i].component]
    PROVE  Each(Reconcile(s, new, checked, t))
<1> DEFINE s2 == Reconcile(s, new, checked, t)
           again == {r \in s.open : Key(r.component) \in {Key(new[i].component) : i \in DOMAIN new}}
           old(q) == IF q \in again THEN [q EXCEPT !.count = Counted(@)] ELSE q
           opened(r) == \E i \in DOMAIN new :
                            /\ r = [id |-> new[i].id, component |-> Redact[new[i].component], count |-> 1]
                            /\ \A q \in s.open : Key(q.component) # Key(new[i].component)
<1>1. ASSUME NEW r \in s2.open PROVE (\E q \in s.open : r = old(q)) \/ opened(r)
  <2> DEFINE known == {Key(q.component) : q \in s.open}
             first == {new[i] : i \in {i \in DOMAIN new :
                          \A j \in 1..(i - 1) : Key(new[j].component) # Key(new[i].component)}}
  <2>1. \/ r \in s.open /\ r \notin again
        \/ \E q \in again : r = [q EXCEPT !.count = Counted(@)]
        \/ \E n \in first : /\ Key(n.component) \notin known
                            /\ r = [id |-> n.id, component |-> Redact[n.component], count |-> 1]
    BY DEF Reconcile
  <2>2. \A n \in first : \E i \in DOMAIN new : n = new[i] OBVIOUS
  <2> HIDE DEF first
  <2>3. again \subseteq s.open OBVIOUS
  <2>4. (\E q \in again : r = [q EXCEPT !.count = Counted(@)]) => \E q \in s.open : r = old(q) OBVIOUS
  <2>5. r \in s.open /\ r \notin again => \E q \in s.open : r = old(q) OBVIOUS
  <2> QED BY <2>1, <2>2, <2>4, <2>5
<1>2. Stems(s2, s, new) BY ReconcileStems
<1> HIDE DEF s2
<1>3. ASSUME NEW q \in s.open PROVE old(q).id = q.id /\ old(q).component = q.component
  <2>1. q = [id |-> q.id, component |-> q.component, count |-> q.count] BY DEF OpenShape
  <2>2. [q EXCEPT !.count = Counted(@)]
            = [id |-> q.id, component |-> q.component, count |-> Counted(q.count)]
    BY <2>1
  <2> QED BY <2>2
<1> HIDE DEF old
<1>4. \A i \in DOMAIN new : Redact[Redact[new[i].component]] = Redact[new[i].component]
  BY RedactAssumption
<1>5. \A q \in s.open : Redact[q.component] = q.component BY DEF Each
<1>6. ASSUME NEW r \in s2.open PROVE Redact[r.component] = r.component
  BY <1>1, <1>3, <1>4, <1>5
<1>7. ASSUME NEW r \in s2.open, NEW p \in s2.open, r.component = p.component PROVE r = p
  <2>1. ASSUME NEW x \in s.open, NEW y \in s2.open, opened(y), y.component = x.component PROVE FALSE
    BY <1>5, <2>1 DEF Key
  <2>2. CASE \E x \in s.open : r = old(x)
    <3>1. PICK x \in s.open : r = old(x) BY <2>2
    <3>2. CASE opened(p) BY <1>3, <1>7, <2>1, <3>1, <3>2
    <3>3. CASE \E y \in s.open : p = old(y)
      <4>1. PICK y \in s.open : p = old(y) BY <3>3
      <4>2. x.component = y.component BY <1>3, <1>7, <3>1, <4>1
      <4>3. x = y BY <4>2 DEF Each
      <4> QED BY <3>1, <4>1, <4>3
    <3> QED BY <1>1, <3>2, <3>3
  <2>3. CASE opened(r)
    <3>1. CASE \E y \in s.open : p = old(y)
      <4>1. PICK y \in s.open : p = old(y) BY <3>1
      <4>2. p.component = y.component BY <1>3, <4>1
      <4> QED BY <1>7, <2>1, <2>3, <4>2
    <3>2. CASE opened(p) BY <2>3, <3>2
    <3> QED BY <1>1, <3>1, <3>2
  <2> QED BY <1>1, <2>2, <2>3
<1>8. ASSUME NEW r \in Records(s2), NEW p \in Records(s2), r.id = p.id PROVE r.component = p.component
  <2>1. \A x \in Records(s2) :
            \/ \E q \in Records(s) : Alike(q, x)
            \/ \E i \in DOMAIN new : x.id = new[i].id /\ x.component = Redact[new[i].component]
    BY <1>2 DEF Stems
  <2>2. \A x, y \in Records(s) : x.id = y.id => x.component = y.component BY DEF Each
  <2> QED BY <1>8, <2>1, <2>2 DEF Alike
<1>9. Each(s2) BY <1>6, <1>7, <1>8 DEF Each
<1> QED BY <1>9 DEF s2

LEMMA EmptyEach == Each(EmptyStore)
BY DEF Each, EmptyStore, Records

\* A proposal that is opened: its identity is that of no other component's incident.
LEMMA OpenedEach ==
    ASSUME NEW s, OpenShape(s), Each(s), NEW id, NEW node \in Names,
           \A r \in Records(s) : r.id = id => r.component = Redact[node]
    PROVE  Each(Opened(s, id, node))
<1> DEFINE new == <<[id |-> id, component |-> node]>>
<1>1. DOMAIN new = {1} /\ new[1].id = id /\ new[1].component = node OBVIOUS
<1>2. Opened(s, id, node) = Reconcile(s, new, {}, clock) BY DEF Opened
<1> HIDE DEF new
<1> QED BY <1>1, <1>2, ReconcileEach

\* What a component has stays, but for the components that were looked at.
LEMMA ReconcileKeeps ==
    ASSUME NEW s, NEW new, NEW checked, NEW t, OpenShape(s), NEW r \in s.open
    PROVE  \/ \E q \in Reconcile(s, new, checked, t).open : q.id = r.id /\ q.component = r.component
           \/ \E c \in checked : Key(r.component) = Key(c)
<1> DEFINE seen == {Key(new[i].component) : i \in DOMAIN new}
           looked == {Key(c) : c \in checked}
           again == {q \in s.open : Key(q.component) \in seen}
           closing == {q \in s.open : Key(q.component) \in looked \ seen}
<1>1. CASE r \in again
  <2> DEFINE q == [r EXCEPT !.count = Counted(@)]
  <2>1. q \in Reconcile(s, new, checked, t).open BY <1>1 DEF Reconcile
  <2>2. r = [id |-> r.id, component |-> r.component, count |-> r.count] BY DEF OpenShape
  <2>3. q = [id |-> r.id, component |-> r.component, count |-> Counted(r.count)] BY <2>2
  <2> HIDE DEF q
  <2> QED BY <2>1, <2>3
<1>2. CASE r \notin again /\ r \notin closing
  <2>1. r \in Reconcile(s, new, checked, t).open BY <1>2 DEF Reconcile
  <2> QED BY <2>1
<1>3. CASE r \in closing BY <1>3
<1> QED BY <1>1, <1>2, <1>3

\* What a bridge makes of the store it loaded: one incident for each component still, and no
\* open incident lost but of a node that it read was well again.
LEMMA IngestedEach ==
    ASSUME NEW b, chunk[b] \in Seq(Transitions), issued \in Nat,
           OpenShape(mem[b]), Each(mem[b]), \A r \in Records(mem[b]) : r.id \in 1..issued
    PROVE  /\ Each(Ingested(b))
           /\ \A r \in mem[b].open :
                  \/ \E q \in Ingested(b).open : q.id = r.id /\ q.component = r.component
                  \/ \E i \in DOMAIN chunk[b] :
                         chunk[b][i].to = "resolve" /\ Redact[chunk[b][i].node] = r.component
<1> DEFINE L == Len(chunk[b])
           f == AfterFirst(b)
           well(n, r) == \E i \in 1..n : chunk[b][i].to = "resolve" /\ Redact[chunk[b][i].node] = r.component
           good(n) == /\ OpenShape(f[n]) /\ Each(f[n])
                      /\ \A r \in Records(f[n]) : r.id \in 1..(issued + n)
                      /\ \A r \in mem[b].open :
                             (\E q \in f[n].open : q.id = r.id /\ q.component = r.component) \/ well(n, r)
           bad == {n \in 0..L : ~good(n)}
<1>1. L \in Nat /\ DOMAIN chunk[b] = 1..L OBVIOUS
<1>2. f[0] = mem[b] /\ \A n \in 1..L : f[n] = Applied(f[n - 1], chunk[b][n], n) BY AfterFirstIs
<1>3. \A n \in 1..L : chunk[b][n] \in Transitions OBVIOUS
<1> HIDE DEF f
<1>4. bad = {}
  <2> SUFFICES ASSUME bad # {} PROVE FALSE OBVIOUS
  <2>1. bad \in SUBSET Nat BY <1>1
  <2>2. PICK k \in bad : \A m \in bad : k <= m BY <2>1, LeastMember
  <2>3. k \in 0..L /\ k \in Nat /\ ~good(k) BY <1>1
  <2>4. CASE k = 0
    <3>1. good(0) BY <1>2
    <3> QED BY <2>3, <2>4, <3>1
  <2>5. CASE k # 0
    <3>1. k \in 1..L /\ k - 1 \in 0..L /\ k - 1 \in Nat /\ ~(k <= k - 1) BY <1>1, <2>3, <2>5
    <3>2. k - 1 \notin bad BY <2>2, <3>1
    <3>3. good(k - 1) BY <3>1, <3>2
    <3> DEFINE s == f[k - 1]
               t == chunk[b][k]
    <3>4. f[k] = Applied(s, t, k) /\ OpenShape(s) /\ Each(s) BY <1>2, <3>1, <3>3
    <3>5. t \in Transitions /\ t.node \in Names BY <1>3, <3>1, BridgeAssumption DEF Transitions
    <3>6. \A r \in Records(s) : r.id \in 1..(issued + (k - 1)) BY <3>3
    <3> HIDE DEF s, t
    <3>7. /\ OpenShape(f[k]) /\ Each(f[k])
          /\ \A r \in Records(f[k]) : (\E q \in Records(s) : Alike(q, r)) \/ r.id = issued + k
          /\ \A r \in s.open :
                 \/ \E q \in f[k].open : q.id = r.id /\ q.component = r.component
                 \/ t.to = "resolve" /\ Redact[t.node] = r.component
      <4>1. CASE t.to = "trigger"
        <5> DEFINE new == <<[id |-> Fresh(k), component |-> t.node]>>
        <5>1. DOMAIN new = {1} /\ new[1].id = issued + k /\ new[1].component = t.node BY DEF Fresh
        <5>2. f[k] = Reconcile(s, new, {}, clock) BY <3>4, <4>1 DEF Applied
        <5> HIDE DEF new
        <5>3. Stems(f[k], s, new) BY <3>4, <5>2, ReconcileStems
        <5>4. \A r \in Records(s) : r.id # issued + k BY <3>1, <3>6
        <5>5. Each(f[k]) BY <3>4, <3>5, <5>1, <5>2, <5>4, ReconcileEach
        <5>6. \A r \in s.open : \E q \in f[k].open : q.id = r.id /\ q.component = r.component
          BY <3>4, <5>2, ReconcileKeeps
        <5> QED BY <5>1, <5>3, <5>5, <5>6 DEF Stems
      <4>2. CASE t.to = "resolve" /\ OpenAs(s, t.node) # {}
        <5> DEFINE new == <<>>
        <5>1. DOMAIN new = {} OBVIOUS
        <5>2. f[k] = Reconcile(s, new, {t.node}, clock) BY <3>4, <4>2 DEF Applied
        <5> HIDE DEF new
        <5>3. Stems(f[k], s, new) BY <3>4, <5>2, ReconcileStems
        <5>4. Each(f[k]) BY <3>4, <5>1, <5>2, ReconcileEach
        <5>5. ASSUME NEW r \in s.open
              PROVE  \/ \E q \in f[k].open : q.id = r.id /\ q.component = r.component
                     \/ Redact[t.node] = r.component
          <6>1. Redact[r.component] = r.component BY <3>4 DEF Each
          <6> QED BY <3>4, <5>2, <6>1, ReconcileKeeps DEF Key
        <5> QED BY <4>2, <5>1, <5>3, <5>4, <5>5 DEF Stems
      <4>3. CASE t.to # "trigger" /\ ~(t.to = "resolve" /\ OpenAs(s, t.node) # {})
        <5>1. f[k] = s BY <3>4, <4>3 DEF Applied
        <5> QED BY <3>4, <5>1 DEF Alike
      <4> QED BY <4>1, <4>2, <4>3
    <3>8. ASSUME NEW r \in Records(f[k]) PROVE r.id \in 1..(issued + k)
      <4>1. CASE r.id = issued + k BY <3>1, <4>1
      <4>2. CASE \E q \in Records(s) : Alike(q, r)
        <5>1. r.id \in 1..(issued + (k - 1)) BY <3>6, <4>2 DEF Alike
        <5> QED BY <3>1, <5>1
      <4> QED BY <3>7, <4>1, <4>2
    <3>9. ASSUME NEW r \in mem[b].open
          PROVE  (\E q \in f[k].open : q.id = r.id /\ q.component = r.component) \/ well(k, r)
      <4>1. (\E q \in s.open : q.id = r.id /\ q.component = r.component) \/ well(k - 1, r)
        BY <3>3 DEF s
      <4>2. CASE well(k - 1, r)
        <5>1. 1..(k - 1) \subseteq 1..k BY <3>1
        <5> QED BY <4>2, <5>1
      <4>3. CASE \E q \in s.open : q.id = r.id /\ q.component = r.component
        <5>1. PICK q \in s.open : q.id = r.id /\ q.component = r.component BY <4>3
        <5>2. CASE t.to = "resolve" /\ Redact[t.node] = q.component
          <6>1. k \in 1..k BY <3>1
          <6>2. well(k, r) BY <5>1, <5>2, <6>1 DEF t
          <6> QED BY <6>2
        <5>3. CASE \E p \in f[k].open : p.id = q.id /\ p.component = q.component BY <5>1, <5>3
        <5> QED BY <3>7, <5>1, <5>2, <5>3
      <4> QED BY <4>1, <4>2, <4>3
    <3>10. good(k) BY <3>7, <3>8, <3>9
    <3> QED BY <2>3, <3>10
  <2> QED BY <2>4, <2>5
<1>5. L \in 0..L /\ L \notin bad BY <1>1, <1>4
<1>6. good(L) BY <1>5
<1>7. Ingested(b) = f[L] BY DEF Ingested, f
<1> QED BY <1>1, <1>6, <1>7

\* An incident that has the identity of a message is of the component of its node.
LEMMA SameComponent ==
    ASSUME Origin, OneMessageEach, NEW p \in Procs, NEW m \in sent
    PROVE  \A r \in Records(mem[p]) : r.id = m.id => r.component = Redact[m.topic]
<1> SUFFICES ASSUME NEW r \in Records(mem[p]), r.id = m.id PROVE r.component = Redact[m.topic] OBVIOUS
<1>1. Vouched(r, sent, Taken) BY DEF Origin, StoreTraced, Traced
<1>2. PICK x \in sent : x.id = r.id /\ Redact[x.topic] = r.component BY <1>1 DEF Vouched
<1>3. x = m BY <1>2 DEF OneMessageEach
<1> QED BY <1>2, <1>3

LEMMA SavedEach ==
    ASSUME IInv, Origin, ReadInv, WInv, NEW p \in Procs, SavesWhat(p)
    PROVE  Each(store')
<1>1. OpenShape(mem[p]) /\ Each(mem[p]) /\ OneMessageEach
  BY DEF Origin, StoreTraced, Traced, WInv
<1>2. CASE UNCHANGED store BY <1>2 DEF WInv
<1>3. ASSUME NEW m \in handling[p], p \in Listeners, store' = Opened(mem[p], m.id, m.source)
      PROVE  Each(store')
  <2>1. m \in sent /\ m.source = m.topic BY <1>3 DEF Origin, Heard, Believed
  <2>2. m.source \in Names BY <1>1, <2>1 DEF OneMessageEach
  <2>3. \A r \in Records(mem[p]) : r.id = m.id => r.component = Redact[m.source]
    BY <1>1, <2>1, SameComponent
  <2> QED BY <1>1, <1>3, <2>2, <2>3, OpenedEach
<1>4. ASSUME NEW e \in asked[p], p \in Deciders, pc[p] = "reaching", store' = Opened(mem[p], e.id, e.node)
      PROVE  Each(store')
  <2>1. e \in accepted
    <3>1. p \in People /\ pc[p] \in Holding /\ pc[p] # "adding" BY <1>4 DEF People, Holding, Deciding
    <3>2. PICK f \in ToSet(pending) : asked[p] = {f} BY <1>4, <3>1 DEF IInv, Held
    <3> QED BY <3>2 DEF IInv, PendingFile, ToSet
  <2>2. PICK m \in sent : m.id = e.id /\ m.topic = e.node BY <2>1 DEF Origin, Proposed
  <2>3. e.node \in Names BY <1>1, <2>2 DEF OneMessageEach
  <2>4. \A r \in Records(mem[p]) : r.id = e.id => r.component = Redact[e.node]
    BY <1>1, <2>2, SameComponent
  <2> QED BY <1>1, <1>4, <2>3, <2>4, OpenedEach
<1>5. ASSUME p \in Bridges, store' = Ingested(p) PROVE Each(store')
  <2>1. chunk[p] \in Seq(Transitions) BY <1>5 DEF ReadInv
  <2>2. issued \in Nat /\ \A r \in Records(mem[p]) : r.id \in 1..issued
    BY DEF Origin, StoreTraced, Traced
  <2> QED BY <1>1, <1>5, <2>1, <2>2, IngestedEach
<1> QED BY <1>2, <1>3, <1>4, <1>5 DEF SavesWhat

LEMMA InitWriters == Init => WInv
<1> SUFFICES ASSUME Init PROVE WInv OBVIOUS
<1>1. /\ store = EmptyStore /\ mem = [p \in Procs |-> EmptyStore]
      /\ pc = [p \in Procs |-> "idle"] /\ sent = {}
  BY DEF Init, StoreInit, IntakeInit
<1>2. StoreHeld BY <1>1 DEF StoreHeld, Writing
<1>3. OneMessageEach BY <1>1 DEF OneMessageEach
<1> QED BY <1>1, <1>2, <1>3, EmptyEach DEF WInv

LEMMA NextWriters ==
    ASSUME IInv, Origin, ReadInv, WInv, [Next]_vars
    PROVE  WInv'
<1>1. StoreHeld' /\ OneMessageEach' BY HeldKept, NextMessages DEF WInv
<1>2. Each(store) /\ \A q \in Procs : Each(mem[q]) BY DEF WInv
<1>3. mem = [q \in Procs |-> mem[q]] BY DEF Origin, StoreTraced
<1>4. CASE UNCHANGED <<store, lock, mem, pc>> BY <1>1, <1>2, <1>4 DEF WInv
<1>5. ASSUME NEW p \in Procs, Locks(p) \/ Saves(p) \/ Stops(p) \/ Passes(p), SavesWhat(p)
      PROVE  WInv'
  <2>1. Each(store') BY <1>5, SavedEach
  <2>2. mem' \in {mem, [mem EXCEPT ![p] = store], [mem EXCEPT ![p] = EmptyStore]}
    BY <1>5 DEF Locks, Acquire, Saves, Stops, Forget, Passes
  <2>3. \A q \in Procs : mem'[q] \in {mem[q], store, EmptyStore} BY <1>3, <2>2
  <2>4. \A q \in Procs : Each(mem'[q]) BY <1>2, <2>3, EmptyEach
  <2> QED BY <1>1, <2>1, <2>4 DEF WInv
<1> QED BY <1>4, <1>5, NextTouches

\* The incidents that the three kinds of writers find and leave in the file.
OneIncidentEach ==
    /\ \A q, r \in store.open : q.component = r.component \/ q.id = r.id => q = r
    /\ \A q, r \in store.open \cup store.closed : q.id = r.id => q.component = r.component

\* reconcile_incidents matches by component: however listeners, decisions and bridges take
\* turns, and wherever they are killed, a component has one open incident, and an identity
\* is never that of two components, open or resolved.
THEOREM OneIncident == Spec => []OneIncidentEach
<1>1. Each(store) => OneIncidentEach
  <2> SUFFICES ASSUME Each(store) PROVE OneIncidentEach OBVIOUS
  <2>1. \A q, r \in store.open : q.component = r.component => q = r BY DEF Each
  <2>2. \A q, r \in store.open \cup store.closed : q.id = r.id => q.component = r.component
    BY DEF Each, Records
  <2> QED BY <2>1, <2>2 DEF OneIncidentEach
<1>2. WInv => Each(store) BY DEF WInv
<1>3. IInv /\ OInv /\ WInv /\ [Next]_vars => WInv' BY NextWriters DEF OInv
<1>4. IInv /\ OInv /\ [Next]_vars => OInv' BY NextOrigin, NextRead DEF OInv
<1> QED BY <1>1, <1>2, <1>3, <1>4, InitOrigin, InitWriters, Invariance, PTL DEF Spec

\* No writer undoes what another one opened: an open incident stays, with its identity and
\* its component, until a bridge applies a transition of its node back to health.
THEOREM OnlyHealthCloses == Spec => ClosedByHealth
<1> DEFINE stays(r) ==
      \/ \E q \in store'.open : q.id = r.id /\ q.component = r.component
      \/ \E b \in Bridges : pc[b] = "applying" /\ \E i \in DOMAIN chunk[b] :
             chunk[b][i].to = "resolve" /\ Redact[chunk[b][i].node] = r.component
<1>1. ASSUME IInv, Origin, ReadInv, WInv, [Next]_vars PROVE \A r \in store.open : stays(r)
  <2>1. CASE UNCHANGED store BY <2>1
  <2>2. ASSUME NEW p \in Procs, Locks(p) \/ Saves(p) \/ Stops(p) \/ Passes(p), SavesWhat(p),
               store' # store, NEW r \in store.open
        PROVE  stays(r)
    <3>1. pc[p] \in Writing BY <2>2 DEF Locks, Saves, Stops, Passes
    <3>2. mem[p] = store /\ OpenShape(mem[p]) /\ Each(mem[p])
      BY <1>1, <3>1 DEF WInv, StoreHeld, Origin, StoreTraced, Traced
    <3>3. ASSUME NEW id, NEW node, store' = Opened(mem[p], id, node) PROVE stays(r)
      <4>1. \E q \in store'.open : q.id = r.id /\ q.component = r.component
        BY <2>2, <3>2, <3>3, ReconcileKeeps DEF Opened
      <4> QED BY <4>1
    <3>4. ASSUME p \in Bridges, pc[p] = "applying", store' = Ingested(p) PROVE stays(r)
      <4>1. chunk[p] \in Seq(Transitions) BY <1>1, <3>4 DEF ReadInv
      <4>2. issued \in Nat /\ \A q \in Records(mem[p]) : q.id \in 1..issued
        BY <1>1 DEF Origin, StoreTraced, Traced
      <4>3. \/ \E q \in store'.open : q.id = r.id /\ q.component = r.component
            \/ \E i \in DOMAIN chunk[p] :
                   chunk[p][i].to = "resolve" /\ Redact[chunk[p][i].node] = r.component
        BY <2>2, <3>2, <3>4, <4>1, <4>2, IngestedEach
      <4> QED BY <3>4, <4>3
    <3> QED BY <2>2, <3>3, <3>4 DEF SavesWhat
  <2> QED BY <1>1, <2>1, <2>2, NextTouches
<1>2. IInv /\ OInv /\ WInv /\ [Next]_vars => [\A r \in store.open : stays(r)]_vars
  BY <1>1 DEF OInv
<1>3. IInv /\ OInv /\ WInv /\ [Next]_vars => WInv' BY NextWriters DEF OInv
<1>4. IInv /\ OInv /\ [Next]_vars => OInv' BY NextOrigin, NextRead DEF OInv
<1> QED BY <1>2, <1>3, <1>4, InitOrigin, InitWriters, Invariance, PTL DEF Spec, ClosedByHealth

-----------------------------------------------------------------------------
(* Types and limits of the proposals.                                      *)

\* A saved file has no more entries than the limit, unless there were more before.
LEMMA AddedFits ==
    ASSUME NEW entries \in Seq(Entries), Len(entries) <= MaxPending, NEW e \in Entries
    PROVE  Added(entries, e) \in Seq(Entries) /\ Len(Added(entries, e)) <= MaxPending
<1>1. Len(entries) \in Nat /\ DOMAIN entries = 1..Len(entries) /\ MaxPending \in Nat
      /\ \A i \in 1..Len(entries) : entries[i] \in Entries
  BY IntakeAssumption
<1>2. CASE \E i \in DOMAIN entries : entries[i].id = e.id
  <2> DEFINE new == [i \in 1..Len(entries) |-> IF entries[i].id = e.id THEN e ELSE entries[i]]
  <2>1. Added(entries, e) = new BY <1>1, <1>2 DEF Added
  <2>2. new \in [1..Len(entries) -> Entries] BY <1>1
  <2>3. new \in Seq(Entries) /\ Len(new) = Len(entries) BY <1>1, <2>2
  <2> QED BY <2>1, <2>3
<1>3. CASE ~(\E i \in DOMAIN entries : entries[i].id = e.id) /\ Len(entries) < MaxPending
  <2>1. Added(entries, e) = Append(entries, e) BY <1>3 DEF Added
  <2>2. Append(entries, e) \in Seq(Entries) /\ Len(Append(entries, e)) = Len(entries) + 1 OBVIOUS
  <2> QED BY <1>1, <1>3, <2>1, <2>2
<1>4. CASE ~(\E i \in DOMAIN entries : entries[i].id = e.id) /\ ~(Len(entries) < MaxPending)
  BY <1>4 DEF Added
<1> QED BY <1>2, <1>3, <1>4

LEMMA RemovedFits ==
    ASSUME NEW s \in Seq(Entries), Len(s) <= MaxPending, NEW i \in DOMAIN s
    PROVE  RemoveAt(s, i) \in Seq(Entries) /\ Len(RemoveAt(s, i)) <= MaxPending
<1> DEFINE rest == RemoveAt(s, i)
<1>1. /\ rest \in Seq(Entries) /\ DOMAIN rest = 1..Len(s) - 1
      /\ DOMAIN s = 1..Len(s) /\ Len(s) \in Nat
  BY Removed
<1> HIDE DEF rest
<1>2. Len(rest) \in Nat /\ DOMAIN rest = 1..Len(rest)
  <2>1. rest \in Seq(Entries) BY <1>1
  <2> QED BY <2>1
<1>3. Len(rest) <= Len(s)
  <2>1. CASE Len(rest) = 0 BY <1>1, <2>1
  <2>2. CASE Len(rest) # 0
    <3>1. Len(rest) \in 1..Len(s) - 1 BY <1>1, <1>2, <2>2
    <3> QED BY <1>1, <3>1
  <2> QED BY <2>1, <2>2
<1>4. MaxPending \in Nat BY IntakeAssumption
<1> QED BY <1>1, <1>2, <1>3, <1>4 DEF rest

LEMMA IntakeInitType == Init => IntakeTypeOK
<1> SUFFICES ASSUME Init PROVE IntakeTypeOK OBVIOUS
<1>1. /\ pending = <<>> /\ pendingLock = None /\ loaded = [p \in Listeners \cup Deciders |-> <<>>]
      /\ socket = [l \in Listeners |-> <<>>] /\ handling = [l \in Listeners |-> {}]
      /\ auto = [l \in Listeners |-> FALSE] /\ window = [l \in Listeners |-> 0]
      /\ asked = [d \in Deciders |-> {}] /\ sent = {} /\ sendings = 0
      /\ accepted = {} /\ approvals = {} /\ reached = {} /\ atOnce = {} /\ decided = {}
  BY DEF Init, IntakeInit
<1>2. /\ <<>> \in Seq(Entries) /\ <<>> \in Seq(Messages) /\ Len(<<>>) = 0
      /\ MaxPending \in Nat /\ 0 \in 0..MaxPerMinute /\ 0 \in 0..MaxMessages
  BY IntakeAssumption
<1>3. pending \in Seq(Entries) /\ Len(pending) <= MaxPending BY <1>1, <1>2
<1>4. loaded \in [Listeners \cup Deciders -> Seq(Entries)] /\ socket \in [Listeners -> Seq(Messages)]
  BY <1>1, <1>2
<1>5. window \in [Listeners -> 0..MaxPerMinute] /\ sendings \in 0..MaxMessages BY <1>1, <1>2
<1>6. /\ handling \in [Listeners -> SUBSET Messages] /\ auto \in [Listeners -> BOOLEAN]
      /\ asked \in [Deciders -> SUBSET Entries]
  BY <1>1
<1> QED BY <1>1, <1>3, <1>4, <1>5, <1>6 DEF IntakeTypeOK

\* The parts of IntakeTypeOK: the file and its copies; what listeners hold; the ghosts.
FileTyped ==
    /\ pending \in Seq(Entries) /\ Len(pending) <= MaxPending
    /\ pendingLock \in Listeners \cup Deciders \cup {None}
    /\ loaded \in [Listeners \cup Deciders -> Seq(Entries)]
HeldTyped ==
    /\ socket \in [Listeners -> Seq(Messages)]
    /\ handling \in [Listeners -> SUBSET Messages]
    /\ auto \in [Listeners -> BOOLEAN] /\ window \in [Listeners -> 0..MaxPerMinute]
    /\ sent \subseteq Messages /\ sendings \in 0..MaxMessages
DecidedTyped ==
    /\ asked \in [Deciders -> SUBSET Entries]
    /\ accepted \subseteq Entries /\ approvals \subseteq Entries /\ reached \subseteq Entries
    /\ atOnce \subseteq Nat
    /\ decided \subseteq Entries \X Decisions

LEMMA PartsTyped == IntakeTypeOK <=> FileTyped /\ HeldTyped /\ DecidedTyped
BY DEF IntakeTypeOK, FileTyped, HeldTyped, DecidedTyped

LEMMA FileQuiet == FileTyped /\ UNCHANGED <<pending, pendingLock, loaded>> => FileTyped'
BY DEF FileTyped

LEMMA HeldQuiet ==
    HeldTyped /\ UNCHANGED <<socket, handling, auto, window, sent, sendings>> => HeldTyped'
BY DEF HeldTyped

LEMMA DecidedQuiet ==
    DecidedTyped /\ UNCHANGED <<asked, accepted, approvals, reached, atOnce, decided>> => DecidedTyped'
BY DEF DecidedTyped

LEMMA DiesTyped ==
    ASSUME IntakeTypeOK, NEW p, IntakeDies(p)
    PROVE  IntakeTypeOK'
<1>1. FileTyped /\ HeldTyped /\ DecidedTyped BY PartsTyped
<1>2. <<>> \in Seq(Entries) /\ <<>> \in Seq(Messages) /\ 0 \in 0..MaxPerMinute
  BY IntakeAssumption
<1>3. FileTyped' BY <1>1, <1>2 DEF FileTyped, IntakeDies
<1>4. HeldTyped'
  <2>1. /\ socket' = [l \in Listeners |-> IF l = p THEN <<>> ELSE socket[l]]
        /\ handling' = [l \in Listeners |-> IF l = p THEN {} ELSE handling[l]]
        /\ auto' = [l \in Listeners |-> IF l = p THEN FALSE ELSE auto[l]]
        /\ window' = [l \in Listeners |-> IF l = p THEN 0 ELSE window[l]]
        /\ UNCHANGED <<sent, sendings>>
    BY DEF IntakeDies, proposers
  <2>2. socket' \in [Listeners -> Seq(Messages)] BY <1>1, <1>2, <2>1 DEF HeldTyped
  <2>3. handling' \in [Listeners -> SUBSET Messages] BY <1>1, <2>1 DEF HeldTyped
  <2>4. auto' \in [Listeners -> BOOLEAN] BY <1>1, <2>1 DEF HeldTyped
  <2>5. window' \in [Listeners -> 0..MaxPerMinute] BY <1>1, <1>2, <2>1 DEF HeldTyped
  <2> QED BY <1>1, <2>1, <2>2, <2>3, <2>4, <2>5 DEF HeldTyped
<1>5. DecidedTyped'
  <2>1. asked' \in [Deciders -> SUBSET Entries] BY <1>1 DEF DecidedTyped, IntakeDies
  <2> QED BY <1>1, <2>1 DEF DecidedTyped, IntakeDies, ghosts
<1> QED BY <1>3, <1>4, <1>5 DEF IntakeTypeOK, FileTyped, HeldTyped, DecidedTyped

LEMMA PublishTyped ==
    ASSUME IntakeTypeOK, Origin, Publish
    PROVE  IntakeTypeOK'
<1>1. FileTyped /\ HeldTyped /\ DecidedTyped BY PartsTyped
<1>2. PICK m \in sent \cup {[id |-> issued + 1, topic |-> x.topic, source |-> x.source,
                             sound |-> x.sound, retained |-> x.retained] : x \in Shapes} :
         /\ sent' = sent \cup {m}
         /\ socket' = [l \in Listeners |-> IF pc[l] = "idle" THEN <<>> ELSE Append(socket[l], m)]
  BY DEF Publish
<1>3. m \in Messages
  <2>1. issued + 1 \in Nat BY DEF Origin, StoreTraced
  <2>2. \A x \in Shapes : x.topic \in Proposers /\ x.source \in Proposers
                          /\ x.sound \in BOOLEAN /\ x.retained \in BOOLEAN
    BY IntakeAssumption
  <2> QED BY <1>1, <2>1, <2>2 DEF Messages, HeldTyped
<1>4. socket' \in [Listeners -> Seq(Messages)]
  <2>1. \A l \in Listeners : Append(socket[l], m) \in Seq(Messages) BY <1>1, <1>3 DEF HeldTyped
  <2>2. <<>> \in Seq(Messages) OBVIOUS
  <2> QED BY <1>2, <2>1, <2>2
<1>5. sendings' \in 0..MaxMessages
  BY <1>1, IntakeAssumption DEF Publish, HeldTyped
<1>6. HeldTyped' BY <1>1, <1>2, <1>3, <1>4, <1>5 DEF Publish, HeldTyped
<1>7. FileTyped' /\ DecidedTyped'
  BY <1>1, FileQuiet, DecidedQuiet DEF Publish, ghosts
<1> QED BY <1>6, <1>7 DEF IntakeTypeOK, FileTyped, HeldTyped, DecidedTyped

LEMMA ReadTyped ==
    ASSUME HeldTyped, NEW l \in Listeners, Read(l)
    PROVE  HeldTyped'
<1> DEFINE m == Head(socket[l])
<1>1. /\ socket \in [Listeners -> Seq(Messages)] /\ handling \in [Listeners -> SUBSET Messages]
      /\ window \in [Listeners -> 0..MaxPerMinute] /\ MaxPerMinute \in Nat
  BY IntakeAssumption DEF HeldTyped
<1>2. socket[l] # <<>> /\ socket' = [socket EXCEPT ![l] = Tail(@)] /\ UNCHANGED <<auto, sent, sendings>>
  BY DEF Read, proposers
<1>3. m \in Messages /\ Tail(socket[l]) \in Seq(Messages) BY <1>1, <1>2
<1>4. socket' \in [Listeners -> Seq(Messages)] BY <1>1, <1>2, <1>3
<1>5. handling' \in {handling, [handling EXCEPT ![l] = {m}]}
      /\ (window' = window \/ \E n \in 0..window[l] : \/ window' = [window EXCEPT ![l] = n]
                                                      \/ n < MaxPerMinute /\ window' = [window EXCEPT ![l] = n + 1])
  <2>1. CASE UNCHANGED <<handling, window>> BY <2>1
  <2>2. ASSUME NEW n \in 0..window[l], window' = [window EXCEPT ![l] = n], UNCHANGED handling
        PROVE  <1>5
    BY <2>2
  <2>3. ASSUME NEW n \in 0..window[l], n < MaxPerMinute, window' = [window EXCEPT ![l] = n + 1],
               UNCHANGED handling \/ handling' = [handling EXCEPT ![l] = {m}]
        PROVE  <1>5
    BY <2>3
  <2> QED BY <2>1, <2>2, <2>3 DEF Read
<1>6. handling' \in [Listeners -> SUBSET Messages] BY <1>1, <1>3, <1>5
<1>7. window' \in [Listeners -> 0..MaxPerMinute]
  <2>1. ASSUME NEW k \in 0..MaxPerMinute, window' = [window EXCEPT ![l] = k]
        PROVE  window' \in [Listeners -> 0..MaxPerMinute]
    BY <1>1, <2>1
  <2>2. \A n \in 0..window[l] : n \in 0..MaxPerMinute /\ (n < MaxPerMinute => n + 1 \in 0..MaxPerMinute)
    BY <1>1
  <2> QED BY <1>1, <1>5, <2>1, <2>2
<1> QED BY <1>2, <1>4, <1>6, <1>7 DEF HeldTyped

\* The file is only saved by who has it as it is, with one entry more or less.
LEMMA AddSavesTyped ==
    ASSUME IInv, IntakeTypeOK, NEW l \in Listeners, AddSaves(l)
    PROVE  IntakeTypeOK'
<1> DEFINE numbers == {0} \cup {x.nth : x \in accepted}
<1>1. FileTyped /\ HeldTyped /\ DecidedTyped BY PartsTyped
<1>0. PICK m \in handling[l] :
        \E e : /\ e = [id |-> m.id, node |-> m.source, nth |-> 1 + Max(numbers)]
              /\ SavePending(l, Added(loaded[l], e))
              /\ accepted' = (accepted \ ToSet(loaded[l])) \cup ToSet(Added(loaded[l], e))
  BY DEF AddSaves
<1>2. PICK e :
        /\ e = [id |-> m.id, node |-> m.source, nth |-> 1 + Max(numbers)]
        /\ SavePending(l, Added(loaded[l], e))
        /\ accepted' = (accepted \ ToSet(loaded[l])) \cup ToSet(Added(loaded[l], e))
  BY <1>0
<1>3. /\ pc[l] = "adding" /\ handling' = [handling EXCEPT ![l] = {}]
      /\ UNCHANGED <<asked, approvals, reached, atOnce, decided, socket, auto, window, sent, sendings>>
  BY DEF AddSaves, proposers
<1>4. Max(numbers) \in Nat
  <2>1. PICK b \in Nat : \A x \in accepted : x.nth <= b BY DEF IInv, Numbered
  <2>2. numbers \in SUBSET Nat /\ numbers # {} BY DEF IInv, Numbered
  <2>3. \A k \in numbers : k <= b BY <2>1
  <2> HIDE DEF numbers
  <2> QED BY <2>2, <2>3, GreatestMember
<1> HIDE DEF numbers
<1>5. e \in Entries
  <2>1. m \in Messages BY <1>1 DEF HeldTyped
  <2>2. 1 + Max(numbers) \in Nat BY <1>4
  <2> QED BY <1>2, <2>1, <2>2 DEF Messages, Entries
<1>6. l \in People /\ loaded[l] = pending BY <1>3 DEF IInv, Held, Holding, People
<1>7. Added(pending, e) \in Seq(Entries) /\ Len(Added(pending, e)) <= MaxPending
  BY <1>1, <1>5, AddedFits DEF FileTyped
<1>8. FileTyped'
  <2>1. /\ pending' = Added(pending, e) /\ loaded' = [loaded EXCEPT ![l] = <<>>]
        /\ pendingLock' \in {pendingLock, None}
    BY <1>2, <1>6 DEF SavePending
  <2>2. loaded' \in [Listeners \cup Deciders -> Seq(Entries)]
    <3>1. <<>> \in Seq(Entries) OBVIOUS
    <3> QED BY <1>1, <2>1, <3>1 DEF FileTyped
  <2> QED BY <1>1, <1>7, <2>1, <2>2 DEF FileTyped
<1>9. HeldTyped'
  <2>1. handling' \in [Listeners -> SUBSET Messages] BY <1>1, <1>3 DEF HeldTyped
  <2> QED BY <1>1, <1>3, <2>1 DEF HeldTyped
<1>10. DecidedTyped'
  <2>1. ToSet(Added(pending, e)) \subseteq Entries BY <1>7 DEF ToSet
  <2>2. accepted' \subseteq Entries BY <1>1, <1>2, <1>6, <2>1 DEF DecidedTyped
  <2> QED BY <1>1, <1>3, <2>2 DEF DecidedTyped
<1> QED BY <1>8, <1>9, <1>10 DEF IntakeTypeOK, FileTyped, HeldTyped, DecidedTyped

LEMMA IntakeTypes ==
    ASSUME IInv, Origin, IntakeTypeOK, NEW l \in Listeners, Intake(l)
    PROVE  IntakeTypeOK'
<1>1. FileTyped /\ HeldTyped /\ DecidedTyped BY PartsTyped
<1>2. CASE Listen(l) \/ StopListening(l)
  <2>1. <<>> \in Seq(Messages) /\ 0 \in 0..MaxPerMinute /\ AutoOpen \subseteq BOOLEAN
    BY IntakeAssumption
  <2>2. HeldTyped'
    <3>1. CASE Listen(l)
      <4>1. PICK open \in AutoOpen : auto' = [auto EXCEPT ![l] = open] BY <3>1 DEF Listen
      <4> QED BY <1>1, <2>1, <3>1, <4>1 DEF Listen, proposers, HeldTyped
    <3>2. CASE StopListening(l)
      BY <1>1, <2>1, <3>2 DEF StopListening, proposers, HeldTyped
    <3> QED BY <1>2, <3>1, <3>2
  <2>3. FileTyped' /\ DecidedTyped'
    BY <1>1, <1>2, FileQuiet, DecidedQuiet DEF Listen, StopListening, ghosts
  <2> QED BY <2>2, <2>3 DEF IntakeTypeOK, FileTyped, HeldTyped, DecidedTyped
<1>3. CASE Read(l)
  <2>1. HeldTyped' BY <1>1, <1>3, ReadTyped
  <2>2. FileTyped' /\ DecidedTyped' BY <1>1, <1>3, FileQuiet, DecidedQuiet DEF Read, ghosts
  <2> QED BY <2>1, <2>2 DEF IntakeTypeOK, FileTyped, HeldTyped, DecidedTyped
<1>4. CASE AddLoads(l)
  <2>1. FileTyped'
    <3>1. l \in Listeners \cup Deciders /\ pendingLock' = l /\ pending' = pending
          /\ loaded' = [loaded EXCEPT ![l] = pending]
      BY <1>4 DEF AddLoads, LockPending
    <3> QED BY <1>1, <3>1 DEF FileTyped
  <2>2. HeldTyped' /\ DecidedTyped'
    BY <1>1, <1>4, HeldQuiet, DecidedQuiet DEF AddLoads, proposers, ghosts
  <2> QED BY <2>1, <2>2 DEF IntakeTypeOK, FileTyped, HeldTyped, DecidedTyped
<1>5. CASE AddSaves(l) BY <1>5, AddSavesTyped
<1>6. CASE AddTimeout(l) \/ OpenTimeout(l) BY <1>6, DiesTyped DEF AddTimeout, OpenTimeout
<1>7. CASE OpenLocks(l) \/ OpenEnds(l)
  <2>1. UNCHANGED intakeVars BY <1>7 DEF OpenLocks, OpenEnds
  <2> QED BY <2>1 DEF intakeVars, held, proposers, ghosts, IntakeTypeOK
<1>8. CASE OpenSaves(l)
  <2>1. PICK m \in handling[l] : atOnce' = atOnce \cup {m.id} BY <1>8 DEF OpenSaves
  <2>2. m \in Messages BY <1>1 DEF HeldTyped
  <2>3. /\ handling' = [handling EXCEPT ![l] = {}]
        /\ UNCHANGED <<pending, pendingLock, loaded, socket, auto, window, asked, sent, sendings,
                       accepted, approvals, reached, decided>>
    BY <1>8 DEF OpenSaves, proposers
  <2>4. HeldTyped'
    <3>1. handling' \in [Listeners -> SUBSET Messages] BY <1>1, <2>3 DEF HeldTyped
    <3> QED BY <1>1, <2>3, <3>1 DEF HeldTyped
  <2>5. DecidedTyped'
    <3>1. m.id \in Nat BY <2>2 DEF Messages
    <3>2. atOnce' \subseteq Nat BY <1>1, <2>1, <3>1 DEF DecidedTyped
    <3> QED BY <1>1, <2>3, <3>2 DEF DecidedTyped
  <2>6. FileTyped' BY <1>1, <2>3, FileQuiet
  <2> QED BY <2>4, <2>5, <2>6 DEF IntakeTypeOK, FileTyped, HeldTyped, DecidedTyped
<1> QED BY <1>2, <1>3, <1>4, <1>5, <1>6, <1>7, <1>8 DEF Intake

LEMMA DecideTypes ==
    ASSUME IInv, IntakeTypeOK, NEW d \in Deciders, Decide(d)
    PROVE  IntakeTypeOK'
<1>1. FileTyped /\ HeldTyped /\ DecidedTyped BY PartsTyped
<1>2. CASE DecideLoads(d)
  <2>1. PICK m \in sent, decision \in Decisions :
          /\ LockPending(d) /\ asked' = [asked EXCEPT ![d] = Found(pending, m.id)]
          /\ approvals' = IF decision = "approved"
                          THEN approvals \cup {e \in accepted : e.id = m.id /\ e \in ToSet(pending)}
                          ELSE approvals
    BY <1>2 DEF DecideLoads
  <2>2. UNCHANGED <<pending, socket, handling, auto, window, sent, sendings, accepted, reached, atOnce, decided>>
    BY <1>2 DEF DecideLoads, proposers
  <2>3. FileTyped'
    <3>1. d \in Listeners \cup Deciders /\ pendingLock' = d /\ loaded' = [loaded EXCEPT ![d] = pending]
      BY <2>1 DEF LockPending
    <3> QED BY <1>1, <2>2, <3>1 DEF FileTyped
  <2>4. Found(pending, m.id) \subseteq Entries BY <1>1 DEF Found, ToSet, FileTyped
  <2>5. asked' \in [Deciders -> SUBSET Entries] BY <1>1, <2>1, <2>4 DEF DecidedTyped
  <2>6. approvals' \subseteq Entries BY <1>1, <2>1 DEF DecidedTyped
  <2>7. DecidedTyped' BY <1>1, <2>2, <2>5, <2>6 DEF DecidedTyped
  <2>8. HeldTyped' BY <1>1, <2>2, HeldQuiet
  <2> QED BY <2>3, <2>7, <2>8 DEF IntakeTypeOK, FileTyped, HeldTyped, DecidedTyped
<1>3. CASE DecideTimeout(d) \/ ApproveTimeout(d)
  BY <1>3, DiesTyped DEF DecideTimeout, ApproveTimeout
<1>4. CASE ApproveLocks(d) \/ DecideEnds(d)
  <2>1. UNCHANGED intakeVars BY <1>4 DEF ApproveLocks, DecideEnds
  <2> QED BY <2>1 DEF intakeVars, held, proposers, ghosts, IntakeTypeOK
<1>5. CASE ApproveSaves(d)
  <2>1. PICK e \in asked[d] : reached' = reached \cup {e} BY <1>5 DEF ApproveSaves
  <2>2. UNCHANGED <<pending, pendingLock, held, proposers, accepted, approvals, atOnce, decided>>
    BY <1>5 DEF ApproveSaves
  <2>3. e \in Entries BY <1>1 DEF DecidedTyped
  <2>4. DecidedTyped' BY <1>1, <2>1, <2>2, <2>3 DEF DecidedTyped, held
  <2>5. FileTyped' /\ HeldTyped' BY <1>1, <2>2, FileQuiet, HeldQuiet DEF held, proposers
  <2> QED BY <2>4, <2>5 DEF IntakeTypeOK, FileTyped, HeldTyped, DecidedTyped
<1>6. CASE DecideSaves(d)
  <2>1. PICK decision \in Decisions : Recorded(d, decision) BY <1>6 DEF DecideSaves, Decisions
  <2>2. PICK i \in DOMAIN loaded[d] :
          /\ SavePending(d, RemoveAt(loaded[d], i))
          /\ decided' = decided \cup {<<loaded[d][i], decision>>}
    BY <2>1 DEF Recorded
  <2>3. /\ asked' = [asked EXCEPT ![d] = {}]
        /\ UNCHANGED <<socket, handling, auto, window, sent, sendings, accepted, approvals, reached, atOnce>>
    BY <1>6 DEF DecideSaves, proposers
  <2>4. d \in People /\ loaded[d] = pending
    BY <1>6 DEF DecideSaves, IInv, Held, Holding, Deciding, People
  <2>5. RemoveAt(pending, i) \in Seq(Entries) /\ Len(RemoveAt(pending, i)) <= MaxPending
    BY <1>1, <2>2, <2>4, RemovedFits DEF FileTyped
  <2>6. FileTyped'
    <3>1. /\ pending' = RemoveAt(pending, i) /\ loaded' = [loaded EXCEPT ![d] = <<>>]
          /\ pendingLock' \in {pendingLock, None}
      BY <2>2, <2>4 DEF SavePending
    <3>2. <<>> \in Seq(Entries) OBVIOUS
    <3>3. loaded' \in [Listeners \cup Deciders -> Seq(Entries)] BY <1>1, <3>1, <3>2 DEF FileTyped
    <3> QED BY <1>1, <2>5, <3>1, <3>3 DEF FileTyped
  <2>7. pending[i] \in Entries BY <1>1, <2>2, <2>4 DEF FileTyped
  <2>8. decided' \subseteq Entries \X Decisions BY <1>1, <2>2, <2>4, <2>7 DEF DecidedTyped
  <2>9. asked' \in [Deciders -> SUBSET Entries] BY <1>1, <2>3 DEF DecidedTyped
  <2>10. DecidedTyped' BY <1>1, <2>3, <2>8, <2>9 DEF DecidedTyped
  <2>11. HeldTyped' BY <1>1, <2>3, HeldQuiet
  <2> QED BY <2>6, <2>10, <2>11 DEF IntakeTypeOK, FileTyped, HeldTyped, DecidedTyped
<1> QED BY <1>2, <1>3, <1>4, <1>5, <1>6 DEF Decide

\* IntakeTypeOK: whoever listens, decides or is killed, the pending file never holds more than
\* max_pending entries, and no listener counts more than max_per_minute messages in its window.
THEOREM IntakeTyped == Spec => []IntakeTypeOK
<1>1. IInv /\ OInv /\ IntakeTypeOK /\ [Next]_vars => IntakeTypeOK'
  <2> SUFFICES ASSUME IInv, Origin, IntakeTypeOK, [Next]_vars PROVE IntakeTypeOK' BY DEF OInv
  <2>1. CASE UNCHANGED intakeVars
    BY <2>1 DEF intakeVars, held, proposers, ghosts, IntakeTypeOK
  <2>2. CASE UNCHANGED vars BY <2>1, <2>2 DEF vars
  <2>3. CASE Outside BY <2>1, <2>3, PublishTyped DEF Outside
  <2>4. ASSUME NEW p \in Procs, Run(p) PROVE IntakeTypeOK'
    BY <2>1, <2>4, IntakeTypes, DecideTypes DEF Run
  <2>5. ASSUME NEW p \in Procs, Crash(p) PROVE IntakeTypeOK' BY <2>5, DiesTyped DEF Crash
  <2> QED BY <2>2, <2>3, <2>4, <2>5 DEF Next
<1>2. IInv /\ OInv /\ [Next]_vars => OInv' BY NextOrigin, NextRead DEF OInv
<1> QED BY <1>1, <1>2, IntakeInitType, InitOrigin, Invariance, PTL DEF Spec
=============================================================================
