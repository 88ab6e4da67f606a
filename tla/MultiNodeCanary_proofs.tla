------------------------ MODULE MultiNodeCanary_proofs ------------------------
(***************************************************************************)
(* What holds of rollouts for any number of rollouts, nodes and targets,   *)
(* any size of the canary and of the waves, and any of the faults.         *)
(***************************************************************************)
EXTENDS MultiNodeCanary, WellFoundedInduction, FiniteSetTheorems, TLAPS

AskedNodes(r) == {Targets[r][i] : i \in 1..next[r]}
Took(r, n) == state[r][n] \in {"deployed", "rolled-back", "rollback-failed"}

\* Where a rollout is in its list of targets, and whether it waits for an answer.
Progress(r) ==
    /\ next[r] <= Len(Targets[r])
    /\ pc[r] = "rolling" => next[r] < Len(Targets[r])
    /\ pc[r] = "waiting" => next[r] >= 1 /\ state[r][Asked(r)] = "pending"
    /\ outcome[r] = "running" <=> pc[r] # "ended"
    /\ answer[r] # "none" => pc[r] = "waiting" /\ <<r, Asked(r)>> \notin deploying

\* What it has noted of a node.
Noted(r, n) ==
    /\ state[r][n] # "pending" => n \in AskedNodes(r)
    /\ n \in ToSet(taken[r]) <=> Took(r, n)
    /\ state[r][n] \in {"unknown", "refused", "rolled-back", "rollback-failed"}
           => pc[r] \in {"undoing", "ended"}

\* What it says in the end.
Told(r) ==
    outcome[r] \in {"rolled-back", "aborted", "rollback-incomplete"} =>
        /\ \A n \in Nodes : state[r][n] # "deployed"
        /\ outcome[r] = "rolled-back" => ~Incomplete(r)

\* The node has the change, and the rollout knows it or is about to know it.
Has(r, n) ==
    \/ state[r][n] = "deployed"
    \/ pc[r] = "waiting" /\ n = Asked(r) /\ answer[r] = "promoted"

\* A node at a deploy was asked, and the rollout waits for it or has given up.
AtIt(r, n) ==
    <<r, n>> \in deploying =>
        /\ n \in AskedNodes(r)
        /\ \/ state[r][n] = "unknown"
           \/ /\ state[r][n] = "pending"
              /\ \/ pc[r] = "waiting" /\ n = Asked(r) /\ answer[r] = "none"
                 \/ outcome[r] = "gone"

\* Before its deploy a change is nowhere on the node.
NotYet(r, n) ==
    n \notin AskedNodes(r) \/ <<r, n>> \in deploying =>
        live[n] # r /\ r \notin ToSet(backups[n])

\* What the rollout deployed is live with what it replaced behind it, and what it has rolled
\* back is the one before, unless others changed the checkout.
InPlace(r, n) ==
    /\ replaced[r][n] # r
    /\ <<r, n>> \notin foreign =>
           /\ Has(r, n) => /\ live[n] = r /\ backups[n] # <<>>
                           /\ Head(backups[n]) = replaced[r][n]
           /\ state[r][n] = "rolled-back" => live[n] = replaced[r][n]

\* A change that is live is known to be, or its rollout is gone.
Accounted(r, n) ==
    live[n] = r /\ <<r, n>> \notin foreign \cup late =>
        \/ state[r][n] \in {"deployed", "unknown", "rollback-failed"}
        \/ state[r][n] = "pending" /\ (Has(r, n) \/ outcome[r] = "gone")

PlaceInv(r, n) == AtIt(r, n) /\ NotYet(r, n) /\ InPlace(r, n) /\ Accounted(r, n)

\* The waves: a rollout goes on only when every node it has asked took the change, and
\* starts the next wave when all of them were probed well.
WaveInv(r) ==
    /\ pc[r] \in {"rolling", "observing"} =>
           \A i \in 1..next[r] : state[r][Targets[r][i]] = "deployed"
    /\ pc[r] = "waiting" =>
           \A i \in 1..next[r] - 1 : state[r][Targets[r][i]] = "deployed"
    /\ MaxFailedProbes = 1 =>
           /\ pc[r] = "rolling" =>
                  \A i \in 1..next[r] : WaveEnd(r, i) <= next[r] => Targets[r][i] \in probed[r]
           /\ pc[r] = "observing" =>
                  /\ probing[r] <= Len(taken[r])
                  /\ \A k \in 1..probing[r] : taken[r][k] \in probed[r]
           /\ \A i, j \in 1..next[r] : WaveEnd(r, i) < j =>
                  /\ Targets[r][i] \in probed[r]
                  /\ state[r][Targets[r][i]] \notin {"pending", "refused", "unknown"}

Whole(r) ==
    /\ Progress(r) /\ Told(r)
    /\ \A n \in Nodes : Noted(r, n) /\ PlaceInv(r, n)
    /\ WaveInv(r)

IInv == TypeOK /\ \A r \in Rollouts : Whole(r)
-----------------------------------------------------------------------------
(* Where the waves end.                                                    *)

LEMMA SmallerOfTwo ==
    ASSUME NEW a \in Int, NEW b \in Int
    PROVE  Min({a, b}) \in {a, b} /\ Min({a, b}) <= a /\ Min({a, b}) <= b
<1>1. \E x \in {a, b} : \A y \in {a, b} : x <= y
  <2>1. CASE a <= b BY <2>1
  <2>2. CASE b <= a BY <2>2
  <2> QED BY <2>1, <2>2
<1> QED BY <1>1 DEF Min

LEMMA FactorsCompare ==
    ASSUME NEW w \in Nat \ {0}, NEW p \in Nat, NEW q \in Nat, w * p < w * q
    PROVE  p < q
<1>1. SUFFICES ASSUME q <= p PROVE FALSE OBVIOUS
<1>2. w * p = w * q + w * (p - q) OBVIOUS
<1>3. w * (p - q) >= 0 BY <1>1
<1> QED BY <1>2, <1>3

LEMMA Quotient ==
    ASSUME NEW w \in Nat \ {0}, NEW a \in Nat
    PROVE  /\ a \div w \in Nat
           /\ w * (a \div w) <= a /\ a < w * (a \div w) + w
<1> QED OBVIOUS

LEMMA WholeWaves ==
    ASSUME NEW w \in Nat \ {0}, NEW k \in Nat
    PROVE  (w * k + w - 1) \div w = k
<1> DEFINE a == w * k + w - 1
           q == a \div w
<1>1. a \in Nat /\ w * k \in Nat OBVIOUS
<1>2. q \in Nat /\ w * q <= a /\ a < w * q + w BY <1>1, Quotient
<1> HIDE DEF a, q
<1>3. w * q < w * (k + 1)
  <2>1. w * (k + 1) = w * k + w OBVIOUS
  <2> QED BY <1>1, <1>2, <2>1 DEF a
<1>4. w * k < w * (q + 1)
  <2>1. w * (q + 1) = w * q + w BY <1>2
  <2> QED BY <1>1, <1>2, <2>1 DEF a
<1>5. q < k + 1 BY <1>2, <1>3, FactorsCompare
<1>6. k < q + 1 BY <1>2, <1>4, FactorsCompare
<1>7. q = k BY <1>2, <1>5, <1>6
<1> QED BY <1>7 DEF q, a

\* The number of the wave of target i, counted after the canary.
Number(i) == (i - CanaryNodes + WaveSize - 1) \div WaveSize

LEMMA NumberCovers ==
    ASSUME WaveSize \in Nat \ {0}, CanaryNodes \in Nat, NEW i \in Nat, i > CanaryNodes
    PROVE  /\ Number(i) \in Nat \ {0}
           /\ CanaryNodes + WaveSize * Number(i) \in Nat
           /\ CanaryNodes + WaveSize * Number(i) >= i
<1> DEFINE a == i - CanaryNodes + WaveSize - 1
           k == a \div WaveSize
<1>1. a \in Nat /\ a = i - CanaryNodes + WaveSize - 1 OBVIOUS
<1>2. k \in Nat /\ a < WaveSize * k + WaveSize BY <1>1, Quotient
<1>3. Number(i) = k BY DEF Number
<1> HIDE DEF a, k
<1>4. WaveSize * k \in Nat BY <1>2
<1>5. CanaryNodes + WaveSize * k >= i BY <1>1, <1>2, <1>4
<1>6. k # 0
  <2>1. SUFFICES ASSUME k = 0 PROVE FALSE OBVIOUS
  <2>2. WaveSize * k = 0 BY <2>1
  <2> QED BY <1>5, <2>2
<1> QED BY <1>2, <1>3, <1>4, <1>5, <1>6

\* A wave ends within the targets, not before the target it is the wave of, and there it
\* ends for its last target as well.
LEMMA WaveEnds ==
    ASSUME NEW r \in Rollouts, NEW i \in 1..Len(Targets[r])
    PROVE  /\ WaveEnd(r, i) \in i..Len(Targets[r])
           /\ WaveEnd(r, WaveEnd(r, i)) = WaveEnd(r, i)
<1> DEFINE all == Len(Targets[r])
<1>1. all \in Nat /\ i \in Nat /\ 1 <= i /\ i <= all /\ CanaryNodes \in Nat \ {0} /\ WaveSize \in Nat
  BY RolloutAssumption
<1> HIDE DEF all
<1>2. \A j : WaveEnd(r, j) = IF j <= CanaryNodes THEN Min({CanaryNodes, all})
                 ELSE IF WaveSize = 0 THEN all
                 ELSE Min({all, CanaryNodes + WaveSize * Number(j)})
  BY DEF WaveEnd, Number, all
<1>3. Min({CanaryNodes, all}) \in {CanaryNodes, all} /\ Min({CanaryNodes, all}) <= CanaryNodes
      /\ Min({CanaryNodes, all}) <= all
  <2>1. CanaryNodes \in Int /\ all \in Int BY <1>1
  <2> QED BY <2>1, SmallerOfTwo, Zenon
<1>4. CASE i <= CanaryNodes
  <2> DEFINE end == Min({CanaryNodes, all})
  <2>1. WaveEnd(r, i) = end BY <1>2, <1>4
  <2>2. end <= CanaryNodes /\ end \in i..all BY <1>1, <1>3, <1>4
  <2>3. WaveEnd(r, end) = end BY <1>2, <2>2
  <2> QED BY <2>1, <2>2, <2>3 DEF all
<1>5. CASE i > CanaryNodes /\ WaveSize = 0
  <2>1. WaveEnd(r, i) = all BY <1>1, <1>2, <1>5
  <2>2. WaveEnd(r, all) = all BY <1>1, <1>2, <1>5
  <2> QED BY <1>1, <2>1, <2>2 DEF all
<1>6. CASE i > CanaryNodes /\ WaveSize # 0
  <2> DEFINE end == CanaryNodes + WaveSize * Number(i)
             last == CanaryNodes + WaveSize * Number(all)
  <2>1. Number(i) \in Nat \ {0} /\ end \in Nat /\ end >= i BY <1>1, <1>6, NumberCovers
  <2>2. last \in Nat /\ last >= all
    <3>1. WaveSize \in Nat \ {0} /\ CanaryNodes \in Nat /\ all \in Nat /\ all > CanaryNodes
      BY <1>1, <1>6
    <3> QED BY <3>1, NumberCovers
  <2>3. ~(all <= CanaryNodes) /\ ~(i <= CanaryNodes) BY <1>1, <1>6
  <2>4. WaveEnd(r, i) = Min({all, end}) BY <1>2, <1>6, <2>3
  <2>5. WaveEnd(r, all) = Min({all, last}) BY <1>2, <1>6, <2>3
  <2> HIDE DEF last
  <2>6. WaveEnd(r, all) = all
    <3>1. Min({all, last}) \in {all, last} /\ Min({all, last}) <= all
      <4>1. all \in Int /\ last \in Int BY <1>1, <2>2
      <4> QED BY <4>1, SmallerOfTwo, Zenon
    <3> QED BY <1>1, <2>2, <2>5, <3>1
  <2>7. WaveEnd(r, end) = WaveEnd(r, i) /\ end > CanaryNodes
    <3>1. WaveSize * Number(i) \in Nat \ {0} BY <1>1, <1>6, <2>1
    <3>2. end - CanaryNodes + WaveSize - 1 = WaveSize * Number(i) + WaveSize - 1
      BY <1>1, <3>1
    <3>3. Number(end) = Number(i)
      <4>1. Number(end) = (WaveSize * Number(i) + WaveSize - 1) \div WaveSize
        BY <3>2 DEF Number
      <4>2. WaveSize \in Nat \ {0} /\ Number(i) \in Nat BY <1>1, <1>6, <2>1
      <4> QED BY <4>1, <4>2, WholeWaves
    <3>4. end > CanaryNodes BY <1>1, <3>1
    <3>5. ~(end <= CanaryNodes) BY <1>1, <2>1, <3>4
    <3>6. WaveEnd(r, end) = Min({all, CanaryNodes + WaveSize * Number(end)})
      BY <1>2, <1>6, <3>5
    <3> QED BY <2>4, <3>3, <3>4, <3>6
  <2> HIDE DEF end
  <2>8. Min({all, end}) \in {all, end} /\ Min({all, end}) <= all /\ Min({all, end}) <= end
    <3>1. all \in Int /\ end \in Int BY <1>1, <2>1
    <3> QED BY <3>1, SmallerOfTwo, Zenon
  <2>9. WaveEnd(r, i) \in i..all BY <1>1, <2>1, <2>4, <2>8
  <2>10. WaveEnd(r, WaveEnd(r, i)) = WaveEnd(r, i) BY <2>4, <2>6, <2>7, <2>8
  <2> QED BY <2>9, <2>10 DEF all
<1> QED
  <2>1. i <= CanaryNodes \/ i > CanaryNodes BY <1>1
  <2> QED BY <2>1, <1>4, <1>5, <1>6

LEMMA LastWaveEnds ==
    ASSUME NEW r \in Rollouts
    PROVE  WaveEnd(r, Len(Targets[r])) = Len(Targets[r])
<1>1. Len(Targets[r]) \in Nat /\ Len(Targets[r]) > 0 BY RolloutAssumption
<1> QED BY <1>1, WaveEnds
-----------------------------------------------------------------------------
(* What a step leaves alone.                                               *)

\* Nothing of what q keeps is changed.
Apart(q) ==
    /\ pc'[q] = pc[q] /\ next'[q] = next[q] /\ taken'[q] = taken[q]
    /\ probing'[q] = probing[q] /\ state'[q] = state[q] /\ outcome'[q] = outcome[q]
    /\ probed'[q] = probed[q] /\ answer'[q] = answer[q] /\ replaced'[q] = replaced[q]
    /\ \A n \in Nodes : <<q, n>> \in deploying' <=> <<q, n>> \in deploying

\* Nothing of n is changed, as far as it concerns q.
AtRest(q, n) ==
    /\ live'[n] = live[n] /\ backups'[n] = backups[n]
    /\ <<q, n>> \in foreign => <<q, n>> \in foreign'
    /\ <<q, n>> \in late => <<q, n>> \in late'

LEMMA AskedIsTarget ==
    ASSUME TypeOK, NEW r \in Rollouts, next[r] <= Len(Targets[r])
    PROVE  /\ \A i \in 1..next[r] : i \in 1..Len(Targets[r]) /\ Targets[r][i] \in Nodes
           /\ AskedNodes(r) \subseteq Nodes
<1>1. Targets[r] \in Seq(Nodes) BY RolloutAssumption
<1>2. next[r] \in Nat BY DEF TypeOK
<1> QED BY <1>1, <1>2 DEF AskedNodes

LEMMA Unmoved ==
    ASSUME IInv, NEW q \in Rollouts, Apart(q),
           \A n \in Nodes : AtRest(q, n) \/ (<<q, n>> \in foreign' /\ NotYet(q, n)')
    PROVE  Whole(q)'
<1>1. Whole(q) /\ TypeOK BY DEF IInv
<1>2. Asked(q)' = Asked(q) /\ AskedNodes(q)' = AskedNodes(q) BY DEF Asked, AskedNodes, Apart
<1>3. pc[q] = "waiting" => Asked(q) \in Nodes
  <2>1. pc[q] = "waiting" => next[q] \in 1..next[q] /\ next[q] <= Len(Targets[q])
    BY <1>1 DEF Whole, Progress, TypeOK
  <2> QED BY <1>1, <2>1, AskedIsTarget DEF Asked
<1>4. Progress(q)' BY <1>1, <1>2, <1>3 DEF Whole, Progress, Apart
<1>5. Told(q)' BY <1>1 DEF Whole, Told, Incomplete, Apart
<1>6. ASSUME NEW n \in Nodes PROVE Noted(q, n)'
  BY <1>1, <1>2 DEF Whole, Noted, Took, Apart
<1>7. ASSUME NEW n \in Nodes PROVE PlaceInv(q, n)'
  <2>1. PlaceInv(q, n) /\ (Has(q, n)' <=> Has(q, n)) BY <1>1, <1>2 DEF Whole, Has, Apart
  <2>2. AtIt(q, n)' BY <2>1, <1>2 DEF PlaceInv, AtIt, Apart
  <2>3. CASE AtRest(q, n)
    <3>1. NotYet(q, n)' BY <2>1, <2>3, <1>2 DEF PlaceInv, NotYet, Apart, AtRest
    <3>2. InPlace(q, n)' BY <2>1, <2>3 DEF PlaceInv, InPlace, Apart, AtRest
    <3>3. Accounted(q, n)' BY <2>1, <2>3 DEF PlaceInv, Accounted, Apart, AtRest
    <3> QED BY <2>2, <3>1, <3>2, <3>3 DEF PlaceInv
  <2>4. CASE <<q, n>> \in foreign' /\ NotYet(q, n)'
    <3>1. InPlace(q, n)' BY <2>1, <2>4 DEF PlaceInv, InPlace, Apart
    <3>2. Accounted(q, n)' BY <2>4 DEF Accounted
    <3> QED BY <2>2, <2>4, <3>1, <3>2 DEF PlaceInv
  <2> QED BY <2>3, <2>4
<1>8. WaveInv(q)' BY <1>1 DEF Whole, WaveInv, WaveEnd, Apart
<1> QED BY <1>4, <1>5, <1>6, <1>7, <1>8 DEF Whole

\* A rollout r works on what it keeps itself: the other ones are as they were.
LEMMA OwnStep ==
    ASSUME IInv, NEW r \in Rollouts, TypeOK', Whole(r)',
           \A q \in Rollouts \ {r} : Apart(q) /\ \A n \in Nodes : AtRest(q, n)
    PROVE  IInv'
<1>1. ASSUME NEW q \in Rollouts \ {r} PROVE Whole(q)'
  <2>1. Apart(q) /\ \A n \in Nodes : AtRest(q, n) OBVIOUS
  <2>2. q \in Rollouts OBVIOUS
  <2>3. \A n \in Nodes : AtRest(q, n) \/ (<<q, n>> \in foreign' /\ NotYet(q, n)') BY <2>1
  <2> QED BY <2>1, <2>2, <2>3, Unmoved, Zenon
<1> QED BY <1>1 DEF IInv

LEMMA LeastMember ==
    ASSUME NEW S \in SUBSET Nat, S # {}
    PROVE  \E k \in S : \A m \in S : k <= m
<1> DEFINE less == OpToRel(<, Nat)
<1>1. IsWellFoundedOn(less, Nat) BY NatLessThanWellFounded
<1>2. \A x, y \in Nat : <<x, y>> \in less <=> x < y BY DEF OpToRel
<1> HIDE DEF less
<1>3. PICK k \in S : \A m \in S : <<m, k>> \notin less BY <1>1, WFMin, Zenon
<1>4. \A m \in S : m \in Nat /\ k \in Nat /\ ~(m < k) BY <1>2, <1>3
<1>5. \A m \in S : k <= m BY <1>4
<1> QED BY <1>5

LEMMA FartherIsLess ==
    ASSUME NEW len \in Nat, NEW j \in Nat, NEW m \in j + 1..len
    PROVE  ~(len - j <= len - m)
OBVIOUS

\* While something is deployed, there is something to undo.
LEMMA UndoFinds ==
    ASSUME TypeOK, NEW r \in Rollouts, NEW n \in Nodes, Noted(r, n), state[r][n] = "deployed"
    PROVE  ToUndo(r) # {}
<1> DEFINE at == {k \in Nat : \E i \in DOMAIN taken[r] :
                     k = Len(taken[r]) - i /\ state[r][taken[r][i]] = "deployed"}
<1>1. /\ taken[r] \in Seq(Nodes) /\ Len(taken[r]) \in Nat
      /\ DOMAIN taken[r] = 1..Len(taken[r])
  BY DEF TypeOK
<1>2. \A i \in DOMAIN taken[r] : i \in 1..Len(taken[r]) /\ Len(taken[r]) - i \in Nat /\ taken[r][i] \in Nodes
  BY <1>1
<1>3. PICK i \in DOMAIN taken[r] : taken[r][i] = n
  BY DEF Noted, Took, ToSet
<1>4. Len(taken[r]) - i \in at BY <1>2, <1>3
<1> HIDE DEF at
<1>5. PICK k \in at : \A m \in at : k <= m
  <2>1. at \in SUBSET Nat BY DEF at
  <2> QED BY <1>4, <2>1, LeastMember
<1>6. PICK j \in DOMAIN taken[r] : k = Len(taken[r]) - j /\ state[r][taken[r][j]] = "deployed"
  BY <1>5 DEF at
<1>7. \A m \in j + 1..Len(taken[r]) : state[r][taken[r][m]] # "deployed"
  <2>1. SUFFICES ASSUME NEW m \in j + 1..Len(taken[r]), state[r][taken[r][m]] = "deployed"
                 PROVE  FALSE
    OBVIOUS
  <2> DEFINE len == Len(taken[r])
  <2>2. /\ len \in Nat /\ j \in Nat /\ m \in j + 1..len
        /\ m \in DOMAIN taken[r]
    <3>1. len \in Nat /\ j \in 1..len /\ m \in j + 1..len BY <1>1, <1>6, <2>1
    <3> HIDE DEF len
    <3>2. j \in Nat /\ m \in 1..len BY <3>1
    <3> QED BY <1>1, <3>1, <3>2 DEF len
  <2> HIDE DEF len
  <2>3. len - m \in at BY <1>2, <2>1, <2>2 DEF at, len
  <2>4. k <= len - m /\ k = len - j BY <1>5, <1>6, <2>3 DEF len
  <2>5. ~(len - j <= len - m) BY <2>2, FartherIsLess
  <2> QED BY <2>4, <2>5
<1>8. taken[r][j] \in ToUndo(r) BY <1>2, <1>6, <1>7 DEF ToUndo
<1> QED BY <1>8
-----------------------------------------------------------------------------
LEMMA InitInv == Init => IInv
<1> SUFFICES ASSUME Init PROVE IInv OBVIOUS
<1>1. TypeOK BY RolloutAssumption DEF Init, TypeOK, Checkouts, States, Outcomes
<1>2. ASSUME NEW r \in Rollouts PROVE Whole(r)
  <2>1. AskedNodes(r) = {} BY DEF Init, AskedNodes
  <2>2. Len(Targets[r]) > 0 /\ Len(Targets[r]) \in Nat BY RolloutAssumption
  <2>3. Progress(r) /\ Told(r) BY <2>2 DEF Init, Progress, Told
  <2>4. ASSUME NEW n \in Nodes PROVE Noted(r, n)
    <3>1. ToSet(taken[r]) = {} BY DEF Init, ToSet
    <3> QED BY <3>1 DEF Init, Noted, Took
  <2>5. ASSUME NEW n \in Nodes PROVE PlaceInv(r, n)
    <3>1. live[n] # r /\ ToSet(backups[n]) = {} BY RolloutAssumption DEF Init, ToSet
    <3>2. ~Has(r, n) /\ replaced[r][n] # r BY RolloutAssumption DEF Init, Has
    <3> QED BY <3>1, <3>2 DEF Init, PlaceInv, AtIt, NotYet, InPlace, Accounted
  <2>6. WaveInv(r) BY DEF Init, WaveInv
  <2> QED BY <2>3, <2>4, <2>5, <2>6 DEF Whole
<1> QED BY <1>1, <1>2 DEF IInv

-----------------------------------------------------------------------------
(* The requests and their answers.                                         *)

LEMMA AppendedSet ==
    ASSUME NEW S, NEW s \in Seq(S), NEW e \in S
    PROVE  ToSet(Append(s, e)) = ToSet(s) \cup {e}
<1>1. Len(s) \in Nat /\ DOMAIN s = 1..Len(s) /\ DOMAIN Append(s, e) = 1..Len(s) + 1 OBVIOUS
<1>2. \A i \in 1..Len(s) : i \in 1..Len(s) + 1 /\ Append(s, e)[i] = s[i] OBVIOUS
<1>3. Append(s, e)[Len(s) + 1] = e /\ Len(s) + 1 \in 1..Len(s) + 1 BY <1>1
<1>4. 1..Len(s) + 1 = 1..Len(s) \cup {Len(s) + 1} BY <1>1
<1> QED BY <1>1, <1>2, <1>3, <1>4 DEF ToSet

LEMMA AskDeployKeeps ==
    ASSUME IInv, NEW r \in Rollouts, AskDeploy(r)
    PROVE  IInv'
<1> DEFINE n0 == Targets[r][next[r] + 1]
<1>1. TypeOK /\ Whole(r) BY DEF IInv
<1>2. /\ Targets[r] \in Seq(Nodes) /\ Len(Targets[r]) \in Nat /\ IsInjective(Targets[r])
      /\ next[r] \in Nat /\ next[r] < Len(Targets[r]) /\ pc[r] = "rolling"
  BY <1>1, RolloutAssumption DEF TypeOK, Whole, Progress, AskDeploy
<1>3. n0 \in Nodes /\ next[r] + 1 \in DOMAIN Targets[r] BY <1>2
<1>4. /\ next' = [next EXCEPT ![r] = @ + 1] /\ pc' = [pc EXCEPT ![r] = "waiting"]
      /\ deploying' \in {deploying, deploying \cup {<<r, n0>>}}
      /\ UNCHANGED <<live, backups, taken, probing, rounds, failures, state, outcome, probed, answer,
                     late, foreign, replaced>>
  BY DEF AskDeploy, GoTo
<1>5. TypeOK'
  <2>1. next' \in [Rollouts -> Nat] BY <1>1, <1>2, <1>4 DEF TypeOK
  <2>2. pc' \in [Rollouts -> {"rolling", "waiting", "observing", "undoing", "ended"}]
    BY <1>1, <1>4 DEF TypeOK
  <2>3. deploying' \subseteq Rollouts \X Nodes BY <1>1, <1>3, <1>4 DEF TypeOK
  <2> QED BY <1>1, <1>4, <2>1, <2>2, <2>3 DEF TypeOK
<1>6. \A q \in Rollouts \ {r} : Apart(q) /\ \A n \in Nodes : AtRest(q, n)
  BY <1>1, <1>4 DEF TypeOK, Apart, AtRest
<1>7. next'[r] = next[r] + 1 /\ pc'[r] = "waiting" /\ Asked(r)' = n0
  BY <1>1, <1>4 DEF TypeOK, Asked
<1>8. AskedNodes(r)' = AskedNodes(r) \cup {n0} /\ n0 \notin AskedNodes(r)
  <2>1. \A i \in 1..next[r] + 1 : i \in DOMAIN Targets[r] /\ i \in Nat BY <1>2
  <2>2. \A i \in 1..next[r] : Targets[r][i] # n0 BY <1>2, <1>3, <2>1 DEF IsInjective
  <2>3. 1..next[r] + 1 = 1..next[r] \cup {next[r] + 1} BY <1>2
  <2> QED BY <1>7, <2>2, <2>3 DEF AskedNodes
<1> HIDE DEF n0
<1>9. state[r][n0] = "pending" /\ answer[r] = "none" /\ outcome[r] = "running"
  BY <1>1, <1>2, <1>3, <1>8 DEF Whole, Noted, Progress
<1>10. Progress(r)' /\ Told(r)'
  BY <1>1, <1>2, <1>4, <1>7, <1>9 DEF Whole, Progress, Told
<1>11. ASSUME NEW n \in Nodes PROVE Noted(r, n)' /\ PlaceInv(r, n)'
  <2>1. Noted(r, n) /\ AtIt(r, n) /\ NotYet(r, n) /\ InPlace(r, n) /\ Accounted(r, n)
    BY <1>1 DEF Whole, PlaceInv
  <2>2. Noted(r, n)' BY <1>2, <1>4, <1>7, <1>8, <2>1 DEF Noted, Took
  <2>3. Has(r, n)' <=> Has(r, n) BY <1>2, <1>4, <1>9 DEF Has
  <2>4. AtIt(r, n)' BY <1>2, <1>4, <1>7, <1>8, <1>9, <2>1 DEF AtIt
  <2>5. NotYet(r, n)' BY <1>4, <1>8, <2>1 DEF NotYet
  <2>6. InPlace(r, n)' BY <1>4, <2>1, <2>3 DEF InPlace
  <2>7. Accounted(r, n)' BY <1>4, <2>1, <2>3 DEF Accounted
  <2> QED BY <2>2, <2>4, <2>5, <2>6, <2>7 DEF PlaceInv
<1>12. WaveInv(r)'
  <2>2. \A i \in 1..next[r] : state[r][Targets[r][i]] = "deployed"
    BY <1>1, <1>2 DEF Whole, WaveInv
  <2>3. ASSUME MaxFailedProbes = 1, NEW i \in 1..next[r] + 1, NEW j \in 1..next[r] + 1,
               WaveEnd(r, i) < j
        PROVE  Targets[r][i] \in probed[r] /\ state[r][Targets[r][i]] = "deployed"
    <3>1. i \in 1..Len(Targets[r]) BY <1>2
    <3>2. WaveEnd(r, i) \in i..Len(Targets[r]) BY <3>1, WaveEnds
    <3>3. i \in 1..next[r] /\ WaveEnd(r, i) <= next[r] BY <1>2, <2>3, <3>1, <3>2
    <3> QED BY <1>1, <1>2, <2>2, <2>3, <3>3 DEF Whole, WaveInv
  <2>4. \A i \in Nat : WaveEnd(r, i)' = WaveEnd(r, i) BY DEF WaveEnd
  <2>5. \A i \in 1..next'[r] - 1 : state'[r][Targets[r][i]] = "deployed"
    <3>1. next'[r] - 1 = next[r] BY <1>2, <1>7
    <3> QED BY <1>4, <2>2, <3>1
  <2>6. MaxFailedProbes = 1 =>
            \A i, j \in 1..next'[r] : WaveEnd(r, i)' < j =>
                /\ Targets[r][i] \in probed'[r]
                /\ state'[r][Targets[r][i]] \notin {"pending", "refused", "unknown"}
    BY <1>2, <1>4, <1>7, <2>3, <2>4
  <2> QED BY <1>7, <2>5, <2>6 DEF WaveInv
<1>13. Whole(r)' BY <1>10, <1>11, <1>12 DEF Whole
<1> QED BY <1>5, <1>6, <1>13, OwnStep

\* An answer is taken: what the node did is noted, and the wave goes on, is observed, or the
\* rollout is undone.
LEMMA TakeAnswerKeeps ==
    ASSUME IInv, NEW r \in Rollouts, TakeAnswer(r)
    PROVE  IInv'
<1> DEFINE n0 == Asked(r)
<1>1. TypeOK /\ Whole(r) BY DEF IInv
<1>2. /\ Targets[r] \in Seq(Nodes) /\ Len(Targets[r]) \in Nat /\ IsInjective(Targets[r])
      /\ next[r] \in 1..Len(Targets[r]) /\ pc[r] = "waiting" /\ outcome[r] = "running"
  BY <1>1, RolloutAssumption DEF TypeOK, Whole, Progress, TakeAnswer
<1>3. n0 \in Nodes /\ n0 \in AskedNodes(r) /\ state[r][n0] = "pending" /\ <<r, n0>> \notin deploying
  BY <1>1, <1>2 DEF Whole, Progress, Asked, AskedNodes, TakeAnswer, Deployed, Refused
<1>4. /\ answer' = [answer EXCEPT ![r] = "none"]
      /\ UNCHANGED <<live, backups, deploying, late, foreign, replaced, next, outcome, probed>>
  BY DEF TakeAnswer, fleet
<1>5. /\ \A q \in Rollouts \ {r} :
             /\ pc'[q] = pc[q] /\ state'[q] = state[q] /\ taken'[q] = taken[q]
             /\ probing'[q] = probing[q]
      /\ TypeOK'
  <2>1. CASE Deployed(r)
    <3>1. taken'[r] \in Seq(Nodes) /\ taken' = [taken EXCEPT ![r] = Append(@, n0)]
      BY <1>1, <1>3, <2>1 DEF TypeOK, Deployed
    <3>2. state' = [state EXCEPT ![r][n0] = "deployed"] BY <2>1 DEF Deployed, Note
    <3>3. state' \in [Rollouts -> [Nodes -> States]] BY <1>1, <1>3, <3>2 DEF TypeOK, States
    <3>4. /\ pc' \in [Rollouts -> {"rolling", "waiting", "observing", "undoing", "ended"}]
          /\ probing' \in [Rollouts -> Nat] /\ rounds' \in [Rollouts -> 0..MaxRounds]
          /\ failures' \in [Rollouts -> [Nodes -> Nat]]
          /\ \A q \in Rollouts \ {r} : pc'[q] = pc[q] /\ probing'[q] = probing[q]
      <4>1. CASE next[r] = WaveEnd(r, next[r])
        <5>1. /\ pc' = [pc EXCEPT ![r] = "observing"]
              /\ probing' = [probing EXCEPT ![r] = 0] /\ rounds' = [rounds EXCEPT ![r] = 0]
              /\ failures' = [failures EXCEPT ![r] = [n \in Nodes |-> 0]]
          BY <2>1, <4>1 DEF Deployed, GoTo
        <5> QED BY <1>1, <5>1, RolloutAssumption DEF TypeOK
      <4>2. CASE next[r] # WaveEnd(r, next[r])
        <5>1. pc' = [pc EXCEPT ![r] = "rolling"] /\ UNCHANGED <<probing, rounds, failures>>
          BY <2>1, <4>2 DEF Deployed, GoTo
        <5> QED BY <1>1, <5>1 DEF TypeOK
      <4> QED BY <4>1, <4>2
    <3>5. \A q \in Rollouts \ {r} : state'[q] = state[q] /\ taken'[q] = taken[q]
      BY <1>1, <3>1, <3>2 DEF TypeOK
    <3>6. taken' \in [Rollouts -> Seq(Nodes)] /\ answer' \in [Rollouts -> {"none", "promoted", "refused"}]
      BY <1>1, <1>4, <3>1 DEF TypeOK
    <3> QED BY <1>1, <1>4, <3>3, <3>4, <3>5, <3>6 DEF TypeOK
  <2>2. CASE Refused(r)
    BY <1>1, <1>3, <1>4, <2>2 DEF TypeOK, Refused, Note, Problem, GoTo, States
  <2> QED BY <2>1, <2>2 DEF TakeAnswer
<1>6. \A q \in Rollouts \ {r} : Apart(q) /\ \A n \in Nodes : AtRest(q, n)
  BY <1>1, <1>4, <1>5 DEF TypeOK, Apart, AtRest
<1>7. AskedNodes(r)' = AskedNodes(r) /\ answer'[r] = "none" /\ next'[r] = next[r]
  BY <1>1, <1>4 DEF TypeOK, AskedNodes
<1>8. \A i \in Nat : WaveEnd(r, i)' = WaveEnd(r, i) BY DEF WaveEnd
<1>9. \A i \in 1..next[r] : /\ Targets[r][i] \in Nodes
                            /\ i # next[r] => i \in 1..next[r] - 1 /\ Targets[r][i] # n0
  BY <1>2 DEF Asked, IsInjective
<1>10. \A i \in 1..next[r] - 1 : i \in 1..next[r] /\ state[r][Targets[r][i]] = "deployed"
  BY <1>1, <1>2 DEF Whole, WaveInv
<1>11. ASSUME Deployed(r) PROVE Whole(r)'
  <2>1. /\ answer[r] = "promoted" /\ state' = [state EXCEPT ![r][n0] = "deployed"]
        /\ taken' = [taken EXCEPT ![r] = Append(@, n0)]
        /\ \/ pc'[r] = "observing" /\ probing'[r] = 0
           \/ pc'[r] = "rolling" /\ next[r] # WaveEnd(r, next[r])
    <3>1. CASE next[r] = WaveEnd(r, next[r])
      BY <1>1, <1>11, <3>1 DEF TypeOK, Deployed, Note, GoTo
    <3>2. CASE next[r] # WaveEnd(r, next[r])
      BY <1>1, <1>11, <3>2 DEF TypeOK, Deployed, Note, GoTo
    <3> QED BY <3>1, <3>2
  <2> HIDE DEF n0
  <2>2. /\ state'[r] = [state[r] EXCEPT ![n0] = "deployed"] /\ taken'[r] = Append(taken[r], n0)
        /\ taken[r] \in Seq(Nodes)
    BY <1>1, <2>1 DEF TypeOK
  <2>3. WaveEnd(r, next[r]) \in next[r]..Len(Targets[r]) BY <1>2, WaveEnds
  <2>4. Progress(r)' /\ Told(r)'
    <3>1. pc'[r] = "rolling" => next[r] < Len(Targets[r]) BY <1>2, <2>1, <2>3
    <3> QED BY <1>1, <1>2, <1>4, <1>7, <2>1, <3>1 DEF Whole, Progress, Told
  <2>5. ASSUME NEW n \in Nodes PROVE Noted(r, n)' /\ PlaceInv(r, n)'
    <3>1. Noted(r, n) /\ AtIt(r, n) /\ NotYet(r, n) /\ InPlace(r, n) /\ Accounted(r, n)
      BY <1>1 DEF Whole, PlaceInv
    <3>2. state'[r][n] = IF n = n0 THEN "deployed" ELSE state[r][n]
      BY <1>1, <2>2 DEF TypeOK
    <3>3. ToSet(taken'[r]) = ToSet(taken[r]) \cup {n0} BY <1>3, <2>2, AppendedSet
    <3>4. Noted(r, n)' BY <1>2, <1>3, <1>7, <2>1, <3>1, <3>2, <3>3 DEF Noted, Took
    <3>5. Has(r, n)' <=> Has(r, n)
      BY <1>2, <1>3, <2>1, <3>2 DEF Has, n0
    <3>6. AtIt(r, n)' BY <1>2, <1>3, <1>4, <1>7, <2>1, <3>1, <3>2 DEF AtIt, n0
    <3>7. NotYet(r, n)' BY <1>4, <1>7, <3>1 DEF NotYet
    <3>8. InPlace(r, n)' BY <1>3, <1>4, <3>1, <3>2, <3>5 DEF InPlace
    <3>9. Accounted(r, n)' BY <1>2, <1>3, <1>4, <3>1, <3>2, <3>5 DEF Accounted
    <3> QED BY <3>4, <3>6, <3>7, <3>8, <3>9 DEF PlaceInv
  <2>6. WaveInv(r)'
    <3>1. ASSUME NEW i \in 1..next[r] PROVE state'[r][Targets[r][i]] = "deployed"
      <4>1. \A n \in Nodes : state'[r][n] = IF n = n0 THEN "deployed" ELSE state[r][n]
        BY <1>1, <2>2 DEF TypeOK
      <4>2. Targets[r][i] \in Nodes BY <1>9
      <4>3. CASE i = next[r] BY <4>1, <4>2, <4>3 DEF Asked, n0
      <4>4. CASE i # next[r] BY <1>9, <1>10, <4>1, <4>2, <4>4
      <4> QED BY <4>3, <4>4
    <3>2. ASSUME MaxFailedProbes = 1, pc'[r] = "rolling", NEW i \in 1..next[r], WaveEnd(r, i) <= next[r]
          PROVE  Targets[r][i] \in probed'[r]
      <4>1. i \in 1..Len(Targets[r]) BY <1>2
      <4>2. WaveEnd(r, i) \in i..Len(Targets[r]) /\ WaveEnd(r, WaveEnd(r, i)) = WaveEnd(r, i)
        BY <4>1, WaveEnds
      <4>3. WaveEnd(r, i) # next[r] BY <2>1, <3>2, <4>2
      <4>4. WaveEnd(r, i) < next[r] /\ next[r] \in 1..next[r] BY <1>2, <3>2, <4>2, <4>3
      <4> QED BY <1>1, <1>4, <3>2, <4>4 DEF Whole, WaveInv
    <3>3. pc'[r] = "observing" => /\ probing'[r] <= Len(taken'[r])
                                  /\ \A k \in 1..probing'[r] : taken'[r][k] \in probed'[r]
      <4>1. Len(taken'[r]) \in Nat BY <1>3, <2>2
      <4> QED BY <2>1, <4>1
    <3>4. MaxFailedProbes = 1 =>
              \A i, j \in 1..next[r] : WaveEnd(r, i) < j => Targets[r][i] \in probed'[r]
      BY <1>1, <1>4 DEF Whole, WaveInv
    <3>5. /\ MaxFailedProbes = 1 /\ pc'[r] = "rolling" =>
               \A i \in 1..next'[r] : WaveEnd(r, i)' <= next'[r] => Targets[r][i] \in probed'[r]
          /\ MaxFailedProbes = 1 =>
               \A i, j \in 1..next'[r] : WaveEnd(r, i)' < j =>
                   /\ Targets[r][i] \in probed'[r]
                   /\ state'[r][Targets[r][i]] \notin {"pending", "refused", "unknown"}
      BY <1>2, <1>7, <1>8, <3>1, <3>2, <3>4
    <3> QED BY <1>7, <2>1, <3>1, <3>3, <3>5 DEF WaveInv
  <2> QED BY <2>4, <2>5, <2>6 DEF Whole
<1>12. ASSUME Refused(r) PROVE Whole(r)'
  <2>1. /\ answer[r] = "refused" /\ state' = [state EXCEPT ![r][n0] = "refused"]
        /\ pc'[r] = "undoing" /\ UNCHANGED <<taken, probing>>
    BY <1>1, <1>12 DEF TypeOK, Refused, Note, Problem, GoTo
  <2> HIDE DEF n0
  <2>2. state'[r] = [state[r] EXCEPT ![n0] = "refused"] BY <1>1, <2>1 DEF TypeOK
  <2>3. Progress(r)' /\ Told(r)' BY <1>1, <1>2, <1>4, <1>7, <2>1 DEF Whole, Progress, Told
  <2>4. ASSUME NEW n \in Nodes PROVE Noted(r, n)' /\ PlaceInv(r, n)'
    <3>1. Noted(r, n) /\ AtIt(r, n) /\ NotYet(r, n) /\ InPlace(r, n) /\ Accounted(r, n)
      BY <1>1 DEF Whole, PlaceInv
    <3>2. state'[r][n] = IF n = n0 THEN "refused" ELSE state[r][n]
      BY <1>1, <2>2 DEF TypeOK
    <3>3. Noted(r, n)' BY <1>2, <1>3, <1>7, <2>1, <3>1, <3>2 DEF Noted, Took
    <3>4. Has(r, n)' <=> Has(r, n)
      BY <1>2, <1>3, <2>1, <3>2 DEF Has
    <3>5. AtIt(r, n)' BY <1>2, <1>3, <1>4, <1>7, <2>1, <3>1, <3>2 DEF AtIt, n0
    <3>6. NotYet(r, n)' BY <1>4, <1>7, <3>1 DEF NotYet
    <3>7. InPlace(r, n)' BY <1>3, <1>4, <3>1, <3>2, <3>4 DEF InPlace
    <3>8. Accounted(r, n)'
      <4>1. n = n0 => ~Has(r, n) BY <1>3, <2>1 DEF Has, n0
      <4> QED BY <1>2, <1>3, <1>4, <3>1, <3>2, <3>4, <4>1 DEF Accounted
    <3> QED BY <3>3, <3>5, <3>6, <3>7, <3>8 DEF PlaceInv
  <2>5. WaveInv(r)'
    <3>1. ASSUME MaxFailedProbes = 1, NEW i \in 1..next[r], NEW j \in 1..next[r], WaveEnd(r, i) < j
          PROVE  /\ Targets[r][i] \in probed'[r]
                 /\ state'[r][Targets[r][i]] \notin {"pending", "refused", "unknown"}
      <4>1. WaveEnd(r, i) \in i..Len(Targets[r]) BY <1>2, WaveEnds
      <4>2. i # next[r] BY <1>2, <3>1, <4>1
      <4>3. state'[r][Targets[r][i]] = state[r][Targets[r][i]] BY <1>1, <1>9, <2>2, <4>2 DEF TypeOK
      <4> QED BY <1>1, <1>4, <3>1, <4>3 DEF Whole, WaveInv
    <3> QED BY <1>2, <1>7, <1>8, <2>1, <3>1 DEF WaveInv
  <2> QED BY <2>3, <2>4, <2>5 DEF Whole
<1>13. Whole(r)' BY <1>11, <1>12 DEF TakeAnswer
<1> QED BY <1>5, <1>6, <1>13, OwnStep

\* No answer comes: what the node does is not known, and the rollout is undone.
LEMMA NoAnswerKeeps ==
    ASSUME IInv, NEW r \in Rollouts, NoAnswer(r)
    PROVE  IInv'
<1> DEFINE n0 == Asked(r)
<1>1. TypeOK /\ Whole(r) BY DEF IInv
<1>2. /\ Targets[r] \in Seq(Nodes) /\ Len(Targets[r]) \in Nat /\ IsInjective(Targets[r])
      /\ next[r] \in 1..Len(Targets[r]) /\ pc[r] = "waiting" /\ outcome[r] = "running"
  BY <1>1, RolloutAssumption DEF TypeOK, Whole, Progress, NoAnswer
<1>3. n0 \in Nodes /\ n0 \in AskedNodes(r) /\ state[r][n0] = "pending"
  BY <1>1, <1>2 DEF Whole, Progress, Asked, AskedNodes
<1>4. /\ answer' = [answer EXCEPT ![r] = "none"] /\ pc' = [pc EXCEPT ![r] = "undoing"]
      /\ state' = [state EXCEPT ![r][n0] = "unknown"]
      /\ UNCHANGED <<live, backups, deploying, late, foreign, replaced, next, taken, probing, rounds,
                     failures, outcome, probed>>
  BY DEF NoAnswer, fleet, Note, Problem, GoTo
<1>5. TypeOK' BY <1>1, <1>3, <1>4 DEF TypeOK, States
<1>6. \A q \in Rollouts \ {r} : Apart(q) /\ \A n \in Nodes : AtRest(q, n)
  BY <1>1, <1>4 DEF TypeOK, Apart, AtRest
<1>7. /\ AskedNodes(r)' = AskedNodes(r) /\ answer'[r] = "none" /\ pc'[r] = "undoing"
      /\ next'[r] = next[r]
  BY <1>1, <1>4 DEF TypeOK, AskedNodes
<1>8. \A n \in Nodes : state'[r][n] = IF n = n0 THEN "unknown" ELSE state[r][n]
  BY <1>1, <1>4 DEF TypeOK
<1>9. \A i \in 1..next[r] : Targets[r][i] \in Nodes /\ (i # next[r] => Targets[r][i] # n0)
  BY <1>2 DEF Asked, IsInjective
<1> HIDE DEF n0
<1>10. Progress(r)' /\ Told(r)' BY <1>1, <1>2, <1>4, <1>7 DEF Whole, Progress, Told
<1>11. ASSUME NEW n \in Nodes PROVE Noted(r, n)' /\ PlaceInv(r, n)'
  <2>1. Noted(r, n) /\ AtIt(r, n) /\ NotYet(r, n) /\ InPlace(r, n) /\ Accounted(r, n)
    BY <1>1 DEF Whole, PlaceInv
  <2>2. Noted(r, n)' BY <1>3, <1>4, <1>7, <1>8, <2>1 DEF Noted, Took
  <2>3. Has(r, n)' => Has(r, n) BY <1>7, <1>8 DEF Has
  <2>4. n # n0 => (Has(r, n)' <=> Has(r, n)) BY <1>7, <1>8 DEF Has, n0
  <2>5. AtIt(r, n)' BY <1>2, <1>4, <1>7, <1>8, <2>1 DEF AtIt, n0
  <2>6. NotYet(r, n)' BY <1>4, <1>7, <2>1 DEF NotYet
  <2>7. InPlace(r, n)' BY <1>4, <1>8, <2>1, <2>3 DEF InPlace
  <2>8. Accounted(r, n)' BY <1>2, <1>4, <1>8, <2>1, <2>4 DEF Accounted
  <2> QED BY <2>2, <2>5, <2>6, <2>7, <2>8 DEF PlaceInv
<1>12. WaveInv(r)'
  <2>1. ASSUME MaxFailedProbes = 1, NEW i \in 1..next[r], NEW j \in 1..next[r], WaveEnd(r, i) < j
        PROVE  /\ Targets[r][i] \in probed'[r]
               /\ state'[r][Targets[r][i]] \notin {"pending", "refused", "unknown"}
    <3>1. WaveEnd(r, i) \in i..Len(Targets[r]) BY <1>2, WaveEnds
    <3>2. i # next[r] BY <1>2, <2>1, <3>1
    <3>3. state'[r][Targets[r][i]] = state[r][Targets[r][i]] BY <1>8, <1>9, <3>2
    <3> QED BY <1>1, <1>4, <2>1, <3>3 DEF Whole, WaveInv
  <2>2. \A i \in Nat : WaveEnd(r, i)' = WaveEnd(r, i) BY DEF WaveEnd
  <2> QED BY <1>2, <1>7, <2>1, <2>2 DEF WaveInv
<1>13. Whole(r)' BY <1>10, <1>11, <1>12 DEF Whole
<1> QED BY <1>5, <1>6, <1>13, OwnStep

-----------------------------------------------------------------------------
(* The rounds of probes, and the end.                                      *)

\* What a step leaves alone that is neither of a request nor of a node.
Quiet == UNCHANGED <<live, backups, deploying, late, foreign, replaced, next, taken, state>>

\* Such a step changes nothing of the places of a rollout that waits for no answer, or that
\* is gone after it.
LEMMA PlacesKept ==
    ASSUME IInv, NEW r \in Rollouts, NEW n \in Nodes, Quiet,
           pc[r] \in {"undoing", "ended"} => pc'[r] \in {"undoing", "ended"},
           \/ pc[r] # "waiting" /\ pc'[r] # "waiting" /\ outcome[r] = "running"
           \/ pc'[r] = "ended" /\ outcome'[r] = "gone"
    PROVE  Noted(r, n)' /\ PlaceInv(r, n)'
<1>1. Noted(r, n) /\ AtIt(r, n) /\ NotYet(r, n) /\ InPlace(r, n) /\ Accounted(r, n)
  BY DEF IInv, Whole, PlaceInv
<1>2. AskedNodes(r)' = AskedNodes(r) BY DEF Quiet, AskedNodes
<1>3. Noted(r, n)' BY <1>1, <1>2 DEF Noted, Took, Quiet
<1>4. Has(r, n)' <=> state[r][n] = "deployed" BY DEF Has, Quiet
<1>5. AtIt(r, n)' BY <1>1, <1>2 DEF AtIt, Quiet
<1>6. NotYet(r, n)' BY <1>1, <1>2 DEF NotYet, Quiet
<1>7. InPlace(r, n)' BY <1>1, <1>4 DEF InPlace, Quiet, Has
<1>8. Accounted(r, n)' BY <1>1, <1>4 DEF Accounted, Quiet, Has
<1> QED BY <1>3, <1>5, <1>6, <1>7, <1>8 DEF PlaceInv

LEMMA ProbeKeeps ==
    ASSUME IInv, NEW r \in Rollouts, Probe(r)
    PROVE  IInv'
<1> DEFINE n0 == taken[r][probing[r] + 1]
<1>1. TypeOK /\ Whole(r) BY DEF IInv
<1>2. /\ taken[r] \in Seq(Nodes) /\ Len(taken[r]) \in Nat /\ probing[r] \in Nat
      /\ probing[r] < Len(taken[r]) /\ pc[r] = "observing" /\ outcome[r] = "running"
  BY <1>1 DEF TypeOK, Whole, Progress, Probe, Watched
<1>3. n0 \in Nodes BY <1>2
<1>4. PICK healthy \in BOOLEAN :
        /\ failures' = [failures EXCEPT ![r][n0] = IF healthy THEN @ ELSE @ + 1]
        /\ probed' = [probed EXCEPT ![r] = IF healthy THEN @ \cup {n0} ELSE @]
        /\ IF ~healthy /\ Enough(r, n0) THEN Problem(r) ELSE UNCHANGED pc
  BY DEF Probe, Watched
<1>5. /\ probing' = [probing EXCEPT ![r] = @ + 1]
      /\ UNCHANGED <<live, backups, deploying, late, foreign, replaced, next, taken, rounds, state,
                     outcome, answer>>
  BY DEF Probe, fleet
<1> HIDE DEF n0
<1>6. /\ pc' \in [Rollouts -> {"rolling", "waiting", "observing", "undoing", "ended"}]
      /\ pc'[r] \in {"observing", "undoing"}
      /\ \A q \in Rollouts \ {r} : pc'[q] = pc[q]
  <2>1. CASE pc' = pc BY <1>1, <1>2, <2>1 DEF TypeOK
  <2>2. CASE Problem(r) BY <1>1, <2>2 DEF TypeOK, Problem, GoTo
  <2> QED BY <1>4, <2>1, <2>2
<1>7. TypeOK'
  <2>1. failures' \in [Rollouts -> [Nodes -> Nat]] BY <1>1, <1>3, <1>4 DEF TypeOK
  <2>2. probing' \in [Rollouts -> Nat] BY <1>1, <1>5 DEF TypeOK
  <2>3. probed' \in [Rollouts -> SUBSET Nodes] BY <1>1, <1>3, <1>4 DEF TypeOK
  <2> QED BY <1>1, <1>5, <1>6, <2>1, <2>2, <2>3 DEF TypeOK
<1>8. \A q \in Rollouts \ {r} : Apart(q) /\ \A n \in Nodes : AtRest(q, n)
  BY <1>1, <1>4, <1>5, <1>6 DEF TypeOK, Apart, AtRest
<1>9. Progress(r)' /\ Told(r)' BY <1>1, <1>2, <1>5, <1>6 DEF Whole, Progress, Told, Asked
<1>10. \A n \in Nodes : Noted(r, n)' /\ PlaceInv(r, n)'
  BY <1>2, <1>5, <1>6, PlacesKept DEF Quiet
<1>11. probed[r] \subseteq probed'[r] BY <1>1, <1>4 DEF TypeOK
<1>12. ASSUME MaxFailedProbes = 1, pc'[r] = "observing" PROVE n0 \in probed'[r]
  <2>1. healthy
    <3>1. SUFFICES ASSUME ~healthy PROVE FALSE OBVIOUS
    <3>2. Enough(r, n0) BY <1>1, <1>3, <1>12 DEF TypeOK, Enough
    <3>3. pc'[r] = "undoing" BY <1>1, <1>4, <3>1, <3>2 DEF TypeOK, Problem, GoTo
    <3> QED BY <1>12, <3>3
  <2> QED BY <1>1, <1>4, <2>1 DEF TypeOK
<1>13. WaveInv(r)'
  <2>1. \A i \in Nat : WaveEnd(r, i)' = WaveEnd(r, i) BY DEF WaveEnd
  <2>2. probing'[r] = probing[r] + 1 BY <1>1, <1>5 DEF TypeOK
  <2>3. ASSUME MaxFailedProbes = 1, pc'[r] = "observing"
        PROVE  /\ probing'[r] <= Len(taken'[r])
               /\ \A k \in 1..probing'[r] : taken'[r][k] \in probed'[r]
    <3>1. probing'[r] <= Len(taken'[r]) BY <1>2, <1>5, <2>2
    <3>2. ASSUME NEW k \in 1..probing[r] + 1 PROVE taken[r][k] \in probed'[r]
      <4>1. CASE k = probing[r] + 1 BY <1>12, <2>3, <4>1 DEF n0
      <4>2. CASE k # probing[r] + 1
        <5>1. k \in 1..probing[r] BY <1>2, <4>2
        <5> QED BY <1>1, <1>2, <1>11, <2>3, <5>1 DEF Whole, WaveInv
      <4> QED BY <4>1, <4>2
    <3> QED BY <1>5, <2>2, <3>1, <3>2
  <2>4. next[r] \in Nat BY <1>1 DEF TypeOK
  <2>5. /\ \A i \in 1..next[r] : state[r][Targets[r][i]] = "deployed"
        /\ MaxFailedProbes = 1 =>
               \A i, j \in 1..next[r] : WaveEnd(r, i) < j =>
                   /\ Targets[r][i] \in probed'[r]
                   /\ state[r][Targets[r][i]] \notin {"pending", "refused", "unknown"}
    BY <1>1, <1>2, <1>11 DEF Whole, WaveInv
  <2> QED BY <1>5, <1>6, <2>1, <2>3, <2>4, <2>5 DEF WaveInv
<1>14. Whole(r)' BY <1>9, <1>10, <1>13 DEF Whole
<1> QED BY <1>7, <1>8, <1>14, OwnStep

LEMMA RoundEndsKeeps ==
    ASSUME IInv, NEW r \in Rollouts, RoundEnds(r)
    PROVE  IInv'
<1>1. TypeOK /\ Whole(r) BY DEF IInv
<1>2. /\ taken[r] \in Seq(Nodes) /\ Len(taken[r]) \in Nat /\ probing[r] = Len(taken[r])
      /\ next[r] \in Nat /\ next[r] <= Len(Targets[r]) /\ Len(Targets[r]) \in Nat
      /\ pc[r] = "observing" /\ outcome[r] = "running" /\ answer[r] = "none"
  BY <1>1, RolloutAssumption DEF TypeOK, Whole, Progress, RoundEnds, Watched
<1>3. /\ probing' = [probing EXCEPT ![r] = 0]
      /\ UNCHANGED <<live, backups, deploying, late, foreign, replaced, next, taken, failures, state,
                     probed, answer>>
  BY DEF RoundEnds, fleet
<1>4. /\ rounds' \in [Rollouts -> 0..MaxRounds]
      /\ \/ pc' = pc /\ outcome' = outcome
         \/ /\ next[r] < Len(Targets[r])
            /\ pc' = [pc EXCEPT ![r] = "rolling"] /\ outcome' = outcome
         \/ pc' = [pc EXCEPT ![r] = "ended"] /\ outcome' = [outcome EXCEPT ![r] = "promoted"]
  <2>1. CASE rounds[r] + 1 < MaxRounds /\ rounds' = Waited(r) /\ UNCHANGED <<pc, outcome>>
    BY <1>1, <2>1, RolloutAssumption DEF TypeOK, Waited
  <2>2. CASE next[r] < Len(Targets[r]) /\ GoTo(r, "rolling") /\ UNCHANGED <<rounds, outcome>>
    BY <1>1, <2>2 DEF TypeOK, GoTo
  <2>3. CASE GoTo(r, "ended") /\ outcome' = [outcome EXCEPT ![r] = "promoted"] /\ UNCHANGED rounds
    BY <1>1, <2>3 DEF TypeOK, GoTo
  <2> QED BY <2>1, <2>2, <2>3 DEF RoundEnds
<1>5. TypeOK' BY <1>1, <1>3, <1>4 DEF TypeOK, Outcomes
<1>6. \A q \in Rollouts \ {r} : Apart(q) /\ \A n \in Nodes : AtRest(q, n)
  BY <1>1, <1>3, <1>4 DEF TypeOK, Apart, AtRest
<1>7. /\ pc'[r] \in {"observing", "rolling", "ended"}
      /\ pc'[r] = "rolling" => next[r] < Len(Targets[r])
      /\ outcome'[r] \in {"running", "promoted"} /\ (outcome'[r] = "running" <=> pc'[r] # "ended")
      /\ probing'[r] = 0
  BY <1>1, <1>2, <1>3, <1>4 DEF TypeOK
<1>8. Progress(r)' /\ Told(r)' BY <1>2, <1>3, <1>7 DEF Progress, Told
<1>9. \A n \in Nodes : Noted(r, n)' /\ PlaceInv(r, n)'
  BY <1>2, <1>3, <1>7, PlacesKept DEF Quiet
<1>10. WaveInv(r)'
  <2>1. \A i \in Nat : WaveEnd(r, i)' = WaveEnd(r, i) BY DEF WaveEnd
  <2>2. \A i \in 1..next[r] : Targets[r][i] \in Nodes /\ state[r][Targets[r][i]] = "deployed"
    BY <1>1, <1>2, AskedIsTarget DEF Whole, WaveInv
  <2>3. ASSUME MaxFailedProbes = 1, NEW i \in 1..next[r] PROVE Targets[r][i] \in probed[r]
    <3>1. Targets[r][i] \in ToSet(taken[r]) BY <1>1, <2>2 DEF Whole, Noted, Took
    <3>2. PICK k \in DOMAIN taken[r] : taken[r][k] = Targets[r][i] BY <3>1 DEF ToSet
    <3>3. k \in 1..probing[r] BY <1>2, <3>2
    <3> QED BY <1>1, <1>2, <2>3, <3>2, <3>3 DEF Whole, WaveInv
  <2>4. Len(taken'[r]) \in Nat /\ 1..0 = {} BY <1>2, <1>3
  <2> QED BY <1>2, <1>3, <1>7, <2>1, <2>2, <2>3, <2>4 DEF WaveInv
<1>11. Whole(r)' BY <1>8, <1>9, <1>10 DEF Whole
<1> QED BY <1>5, <1>6, <1>11, OwnStep

LEMMA EndKeeps ==
    ASSUME IInv, NEW r \in Rollouts, Finish(r) \/ Crash(r)
    PROVE  IInv'
<1>1. TypeOK /\ Whole(r) BY DEF IInv
<1>2. PICK o \in {"aborted", "rollback-incomplete", "rolled-back", "gone"} :
          outcome' = [outcome EXCEPT ![r] = o]
  BY DEF Finish, Crash
<1>3. /\ pc' = [pc EXCEPT ![r] = "ended"]
      /\ UNCHANGED <<live, backups, deploying, late, foreign, replaced, next, taken, probing, rounds,
                     failures, state, probed>>
      /\ answer' \in {answer, [answer EXCEPT ![r] = "none"]}
  BY DEF Finish, Crash, fleet, GoTo
<1>4. TypeOK' BY <1>1, <1>2, <1>3 DEF TypeOK, Outcomes
<1>5. \A q \in Rollouts \ {r} : Apart(q) /\ \A n \in Nodes : AtRest(q, n)
  BY <1>1, <1>2, <1>3 DEF TypeOK, Apart, AtRest
<1>6. pc'[r] = "ended" /\ outcome'[r] = o BY <1>1, <1>2, <1>3 DEF TypeOK
<1>7. answer'[r] = "none"
  <2>1. CASE Crash(r) BY <1>1, <2>1 DEF TypeOK, Crash
  <2>2. CASE Finish(r) BY <1>1, <2>2 DEF TypeOK, Finish, Whole, Progress
  <2> QED BY <2>1, <2>2
<1>8. Progress(r)' BY <1>1, <1>3, <1>6, <1>7 DEF Whole, Progress
<1>9. Told(r)'
  <2>1. SUFFICES ASSUME o # "gone"
                 PROVE  /\ \A n \in Nodes : state[r][n] # "deployed"
                        /\ o = "rolled-back" => ~Incomplete(r)
    BY <1>3, <1>6 DEF Told, Incomplete
  <2>2. Finish(r)
    <3>1. Crash(r) => outcome'[r] = "gone" BY <1>1 DEF TypeOK, Crash
    <3> QED BY <1>6, <2>1, <3>1
  <2>3. \A n \in Nodes : state[r][n] # "deployed" BY <1>1, <2>2, UndoFinds DEF Whole, Finish
  <2>4. o = "rolled-back" => ~Incomplete(r) BY <1>1, <1>6, <2>2 DEF TypeOK, Finish
  <2> QED BY <2>3, <2>4
<1>10. \A n \in Nodes : Noted(r, n)' /\ PlaceInv(r, n)'
  <2>1. \/ pc[r] # "waiting" /\ outcome[r] = "running"
        \/ outcome'[r] = "gone"
    <3>1. CASE Finish(r) BY <1>1, <3>1 DEF Finish, Whole, Progress
    <3>2. CASE Crash(r) BY <1>1, <3>2 DEF TypeOK, Crash
    <3> QED BY <3>1, <3>2
  <2> QED BY <1>3, <1>6, <2>1, PlacesKept DEF Quiet
<1>11. WaveInv(r)' BY <1>1, <1>3, <1>6 DEF Whole, WaveInv, WaveEnd
<1>12. Whole(r)' BY <1>8, <1>9, <1>10, <1>11 DEF Whole
<1> QED BY <1>4, <1>5, <1>12, OwnStep

-----------------------------------------------------------------------------
(* The nodes change: an undo, and the edge.                                *)

LEMMA RollbackParts ==
    ASSUME NEW S, NEW s \in Seq(S), s # <<>>
    PROVE  /\ Head(s) \in S /\ Tail(s) \in Seq(S)
           /\ Head(s) \in ToSet(s) /\ ToSet(Tail(s)) \subseteq ToSet(s)
<1>1. Len(s) \in Nat \ {0} /\ DOMAIN s = 1..Len(s) /\ 1 \in 1..Len(s) OBVIOUS
<1>2. Head(s) = s[1] /\ Head(s) \in S /\ Tail(s) \in Seq(S) /\ Len(Tail(s)) = Len(s) - 1
  BY <1>1
<1>3. DOMAIN Tail(s) = 1..Len(s) - 1 BY <1>2
<1>4. \A i \in 1..Len(s) - 1 : Tail(s)[i] = s[i + 1] /\ i + 1 \in 1..Len(s) BY <1>1
<1> QED BY <1>1, <1>2, <1>3, <1>4 DEF ToSet

LEMMA PushParts ==
    ASSUME NEW S, NEW s \in Seq(S), NEW e \in S
    PROVE  /\ <<e>> \o s \in Seq(S) /\ <<e>> \o s # <<>> /\ Head(<<e>> \o s) = e
           /\ ToSet(<<e>> \o s) \subseteq ToSet(s) \cup {e}
<1> DEFINE t == <<e>> \o s
<1>1. Len(s) \in Nat /\ DOMAIN s = 1..Len(s) OBVIOUS
<1>2. t \in Seq(S) /\ Len(t) = Len(s) + 1 /\ DOMAIN t = 1..Len(s) + 1 BY <1>1
<1>3. \A i \in 1..Len(s) + 1 : t[i] = IF i = 1 THEN e ELSE s[i - 1] BY <1>1
<1>4. \A i \in 1..Len(s) + 1 : i # 1 => i - 1 \in 1..Len(s) BY <1>1
<1>5. Len(t) # 0 /\ 1 \in 1..Len(s) + 1 BY <1>1, <1>2
<1> HIDE DEF t
<1>6. t # <<>> BY <1>2, <1>5
<1>7. Head(t) = e BY <1>2, <1>3, <1>5, <1>6
<1>8. ToSet(t) \subseteq ToSet(s) \cup {e} BY <1>1, <1>2, <1>3, <1>4 DEF ToSet
<1> QED BY <1>2, <1>6, <1>7, <1>8 DEF t

LEMMA UndoKeeps ==
    ASSUME IInv, NEW r \in Rollouts, Undo(r)
    PROVE  IInv'
<1>1. TypeOK /\ Whole(r) BY DEF IInv
<1>2. PICK n0 \in ToUndo(r) :
        \/ /\ RollsBack(n0) /\ foreign' = foreign \cup Disturbed(r, n0)
           /\ Note(r, n0, "rolled-back") \/ Note(r, n0, "rollback-failed")
        \/ Note(r, n0, "rollback-failed") /\ UNCHANGED <<live, backups, foreign>>
        \/ /\ foreign' = foreign \cup Disturbed(r, n0) /\ Note(r, n0, "rollback-failed")
           /\ live' = [live EXCEPT ![n0] = Missing] /\ UNCHANGED backups
  BY DEF Undo
<1>3. /\ n0 \in Nodes /\ state[r][n0] = "deployed" /\ pc[r] = "undoing" /\ outcome[r] = "running"
      /\ answer[r] = "none"
  BY <1>1 DEF ToUndo, Undo, Whole, Progress
<1>4. UNCHANGED <<next, taken, probing, rounds, failures, outcome, probed, pc, answer, deploying,
                  late, replaced>>
  BY DEF Undo
<1>5. PICK what \in {"rolled-back", "rollback-failed"} :
        /\ state' = [state EXCEPT ![r][n0] = what]
        /\ what = "rolled-back" => RollsBack(n0)
  BY <1>2 DEF Note
<1>6. /\ \A q \in Rollouts \ {r} : state'[q] = state[q]
      /\ \A n \in Nodes : state'[r][n] = IF n = n0 THEN what ELSE state[r][n]
      /\ state' \in [Rollouts -> [Nodes -> States]]
  BY <1>1, <1>3, <1>5 DEF TypeOK, States
\* What happens to the node.
<1>7. /\ live' \in [Nodes -> Checkouts] /\ backups' \in [Nodes -> Seq(Checkouts)]
      /\ \A n \in Nodes \ {n0} : live'[n] = live[n] /\ backups'[n] = backups[n]
      /\ ToSet(backups'[n0]) \subseteq ToSet(backups[n0])
      /\ live'[n0] \in ToSet(backups[n0]) \cup {live[n0], Missing}
      /\ RollsBack(n0) => backups[n0] # <<>> /\ live'[n0] = Head(backups[n0])
  <2>1. backups[n0] \in Seq(Checkouts) BY <1>1, <1>3 DEF TypeOK
  <2>2. CASE RollsBack(n0)
    <3>1. /\ backups[n0] # <<>> /\ live' = [live EXCEPT ![n0] = Head(backups[n0])]
          /\ backups' = [backups EXCEPT ![n0] = Tail(@)]
      BY <2>2 DEF RollsBack
    <3>2. /\ Head(backups[n0]) \in Checkouts /\ Tail(backups[n0]) \in Seq(Checkouts)
          /\ Head(backups[n0]) \in ToSet(backups[n0])
          /\ ToSet(Tail(backups[n0])) \subseteq ToSet(backups[n0])
      BY <2>1, <3>1, RollbackParts
    <3> QED BY <1>1, <1>3, <3>1, <3>2 DEF TypeOK
  <2>3. CASE ~RollsBack(n0)
    <3>1. backups' = backups /\ live' \in {live, [live EXCEPT ![n0] = Missing]} BY <1>2, <2>3
    <3> QED BY <1>1, <1>3, <2>3, <3>1 DEF TypeOK, Checkouts
  <2> QED BY <2>2, <2>3
<1>8. /\ foreign' \in {foreign, foreign \cup Disturbed(r, n0)}
      /\ foreign' = foreign => \/ live' = live /\ backups' = backups
                               \/ \A q \in Rollouts \ {r} : <<q, n0>> \in foreign
  BY <1>2, <1>3 DEF Disturbed
<1>9. TypeOK'
  <2>1. foreign' \subseteq Rollouts \X Nodes BY <1>1, <1>3, <1>8 DEF TypeOK, Disturbed
  <2> QED BY <1>1, <1>4, <1>6, <1>7, <2>1 DEF TypeOK
<1>10. ASSUME NEW q \in Rollouts \ {r} PROVE Whole(q)'
  <2>1. Apart(q) BY <1>4, <1>6 DEF Apart
  <2>2. ASSUME NEW n \in Nodes
        PROVE  AtRest(q, n) \/ (<<q, n>> \in foreign' /\ NotYet(q, n)')
    <3>1. NotYet(q, n) BY DEF IInv, Whole, PlaceInv
    <3>2. AskedNodes(q)' = AskedNodes(q) BY <1>4 DEF AskedNodes
    <3>3. CASE n # n0 BY <1>4, <1>7, <1>8, <3>3 DEF AtRest
    <3>4. CASE n = n0
      <4>1. NotYet(q, n)' BY <1>4, <1>7, <3>1, <3>2, <3>4, RolloutAssumption DEF NotYet
      <4>2. AtRest(q, n) \/ <<q, n>> \in foreign' BY <1>4, <1>8, <3>4 DEF AtRest, Disturbed
      <4> QED BY <4>1, <4>2
    <3> QED BY <3>3, <3>4
  <2> QED BY <2>1, <2>2, Unmoved, Zenon
<1>11. Progress(r)' /\ Told(r)' BY <1>3, <1>4, <1>1 DEF Whole, Progress, Told
<1>12. ASSUME NEW n \in Nodes PROVE Noted(r, n)' /\ PlaceInv(r, n)'
  <2>1. Noted(r, n) /\ AtIt(r, n) /\ NotYet(r, n) /\ InPlace(r, n) /\ Accounted(r, n)
    BY <1>1 DEF Whole, PlaceInv
  <2>2. AskedNodes(r)' = AskedNodes(r) BY <1>4 DEF AskedNodes
  <2>3. Noted(r, n)' BY <1>3, <1>4, <1>6, <2>1, <2>2 DEF Noted, Took
  <2>4. AtIt(r, n)' BY <1>3, <1>4, <1>6, <2>1, <2>2 DEF AtIt
  <2>5. <<r, n>> \in foreign' <=> <<r, n>> \in foreign BY <1>8 DEF Disturbed
  <2>6. CASE n # n0
    <3>1. NotYet(r, n)' BY <1>4, <1>7, <2>1, <2>2, <2>6 DEF NotYet
    <3>2. Has(r, n)' <=> Has(r, n) BY <1>3, <1>4, <1>6, <2>6 DEF Has
    <3>3. InPlace(r, n)' BY <1>4, <1>6, <1>7, <2>1, <2>5, <2>6, <3>2 DEF InPlace
    <3>4. Accounted(r, n)' BY <1>4, <1>6, <1>7, <2>1, <2>5, <2>6, <3>2 DEF Accounted
    <3> QED BY <2>3, <2>4, <3>1, <3>3, <3>4 DEF PlaceInv
  <2>7. CASE n = n0
    <3>1. <<r, n>> \notin deploying /\ n \in AskedNodes(r) BY <1>3, <2>1, <2>7 DEF AtIt, Noted
    <3>2. NotYet(r, n)' BY <1>4, <2>2, <3>1 DEF NotYet
    <3>3. ~Has(r, n)' /\ Has(r, n) /\ state'[r][n] = what BY <1>3, <1>4, <1>6, <2>7 DEF Has
    <3>4. InPlace(r, n)' BY <1>4, <1>5, <1>7, <2>1, <2>5, <2>7, <3>3 DEF InPlace
    <3>5. Accounted(r, n)' BY <1>4, <2>1, <2>5, <3>3, <3>4 DEF Accounted, InPlace
    <3> QED BY <2>3, <2>4, <3>2, <3>4, <3>5 DEF PlaceInv
  <2> QED BY <2>6, <2>7
<1>13. WaveInv(r)'
  <2>1. \A i \in Nat : WaveEnd(r, i)' = WaveEnd(r, i) BY DEF WaveEnd
  <2>2. \A i \in 1..next[r] : Targets[r][i] \in Nodes
    BY <1>1, AskedIsTarget DEF Whole, Progress
  <2>3. next[r] \in Nat BY <1>1 DEF TypeOK
  <2>4. MaxFailedProbes = 1 =>
            \A i, j \in 1..next[r] : WaveEnd(r, i) < j =>
                /\ Targets[r][i] \in probed[r]
                /\ state'[r][Targets[r][i]] \notin {"pending", "refused", "unknown"}
    BY <1>1, <1>6, <2>2 DEF Whole, WaveInv
  <2> QED BY <1>3, <1>4, <2>1, <2>3, <2>4 DEF WaveInv
<1>14. Whole(r)' BY <1>11, <1>12, <1>13 DEF Whole
<1> QED BY <1>9, <1>10, <1>14 DEF IInv

\* While a node is at a deploy, its rollout waits for it, or has given up or is gone.
LEMMA EdgeBegins ==
    ASSUME IInv, NEW r \in Rollouts, NEW n \in Nodes, <<r, n>> \in deploying
    PROVE  /\ n \in AskedNodes(r) /\ state[r][n] \in {"unknown", "pending"}
           /\ pc[r] = "waiting" => n = Asked(r) /\ answer[r] = "none"
           /\ state[r][n] = "pending" => pc[r] = "waiting" \/ outcome[r] = "gone"
           /\ live[n] # r /\ r \notin ToSet(backups[n]) /\ ~Has(r, n)
<1>1. Noted(r, n) /\ AtIt(r, n) /\ NotYet(r, n) /\ Progress(r) BY DEF IInv, Whole, PlaceInv
<1> QED BY <1>1 DEF Noted, AtIt, NotYet, Progress, Has

\* Whatever it does, what the rollout keeps is as it was, but for the answer.
LEMMA EdgeKeepsControl ==
    ASSUME IInv, NEW r \in Rollouts, NEW n \in Nodes, <<r, n>> \in deploying,
           NEW what \in {"promoted", "refused"}, Answers(r, what),
           deploying' = deploying \ {<<r, n>>}, UNCHANGED <<control, pc>>
    PROVE  /\ Progress(r)' /\ Told(r)' /\ WaveInv(r)'
           /\ answer' \in [Rollouts -> {"none", "promoted", "refused"}]
           /\ answer'[r] = IF pc[r] = "waiting" THEN what ELSE "none"
           /\ \A q \in Rollouts \ {r} : answer'[q] = answer[q]
           /\ \A m \in Nodes : Noted(r, m)' /\ AtIt(r, m)'
<1>1. TypeOK /\ Whole(r) BY DEF IInv
<1>2. UNCHANGED <<next, taken, probing, rounds, failures, state, outcome, probed, pc>> BY DEF control
<1>3. answer' = IF pc[r] = "waiting" THEN [answer EXCEPT ![r] = what] ELSE answer BY DEF Answers
<1>4. /\ answer' \in [Rollouts -> {"none", "promoted", "refused"}]
      /\ answer'[r] = IF pc[r] = "waiting" THEN what ELSE "none"
      /\ \A q \in Rollouts \ {r} : answer'[q] = answer[q]
  BY <1>1, <1>3 DEF TypeOK, Whole, Progress
<1>5. Asked(r)' = Asked(r) /\ AskedNodes(r)' = AskedNodes(r) BY <1>2 DEF Asked, AskedNodes
<1>6. pc[r] = "waiting" => n = Asked(r) BY EdgeBegins
<1>7. Progress(r)' BY <1>1, <1>2, <1>4, <1>5, <1>6 DEF Whole, Progress
<1>8. Told(r)' BY <1>1, <1>2 DEF Whole, Told, Incomplete
<1>9. WaveInv(r)' BY <1>1, <1>2 DEF Whole, WaveInv, WaveEnd
<1>10. ASSUME NEW m \in Nodes PROVE Noted(r, m)' /\ AtIt(r, m)'
  <2>1. Noted(r, m) /\ AtIt(r, m) BY <1>1 DEF Whole, PlaceInv
  <2>2. Noted(r, m)' BY <1>2, <1>5, <2>1 DEF Noted, Took
  <2>3. AtIt(r, m)' BY <1>2, <1>4, <1>5, <1>6, <2>1 DEF AtIt
  <2> QED BY <2>2, <2>3
<1> QED BY <1>4, <1>7, <1>8, <1>9, <1>10

LEMMA EdgeRefusesKeeps ==
    ASSUME IInv, NEW r \in Rollouts, NEW n0 \in Nodes, EdgeRefuses(r, n0)
    PROVE  IInv'
<1>1. TypeOK /\ Whole(r) BY DEF IInv
<1>2. /\ <<r, n0>> \in deploying /\ deploying' = deploying \ {<<r, n0>>} /\ Answers(r, "refused")
      /\ UNCHANGED <<live, backups, control, pc, late, foreign, replaced>>
  BY DEF EdgeRefuses
<1>3. UNCHANGED <<next, taken, probing, rounds, failures, state, outcome, probed, pc>>
  BY <1>2 DEF control
<1>4. /\ Progress(r)' /\ Told(r)' /\ WaveInv(r)'
      /\ answer' \in [Rollouts -> {"none", "promoted", "refused"}]
      /\ answer'[r] = IF pc[r] = "waiting" THEN "refused" ELSE "none"
      /\ \A q \in Rollouts \ {r} : answer'[q] = answer[q]
      /\ \A m \in Nodes : Noted(r, m)' /\ AtIt(r, m)'
  BY <1>2, EdgeKeepsControl
<1>5. TypeOK' BY <1>1, <1>2, <1>3, <1>4 DEF TypeOK
<1>6. \A q \in Rollouts \ {r} : Apart(q) /\ \A n \in Nodes : AtRest(q, n)
  BY <1>2, <1>3, <1>4 DEF Apart, AtRest
<1>7. ASSUME NEW n \in Nodes PROVE PlaceInv(r, n)'
  <2>1. NotYet(r, n) /\ InPlace(r, n) /\ Accounted(r, n) BY <1>1 DEF Whole, PlaceInv
  <2>2. /\ Asked(r)' = Asked(r) /\ AskedNodes(r)' = AskedNodes(r)
        /\ pc[r] = "waiting" => Asked(r) = n0 /\ answer[r] = "none"
        /\ n0 \in AskedNodes(r) /\ live[n0] # r
    BY <1>2, <1>3, EdgeBegins DEF Asked, AskedNodes
  <2>3. NotYet(r, n)' BY <1>2, <1>3, <2>1, <2>2 DEF NotYet
  <2>4. Has(r, n)' <=> Has(r, n) BY <1>3, <1>4, <2>2 DEF Has
  <2>5. InPlace(r, n)' BY <1>2, <1>3, <2>1, <2>4 DEF InPlace
  <2>6. Accounted(r, n)' BY <1>2, <1>3, <2>1, <2>4 DEF Accounted
  <2> QED BY <1>4, <2>3, <2>5, <2>6 DEF PlaceInv
<1>8. Whole(r)' BY <1>4, <1>7 DEF Whole, PlaceInv
<1> QED BY <1>5, <1>6, <1>8, OwnStep

\* A deploy that moves the checkout away is promoted, or fails late.
LEMMA EdgeMovesKeeps ==
    ASSUME IInv, NEW r \in Rollouts, NEW n0 \in Nodes,
           EdgePromotes(r, n0) \/ EdgeFailsLate(r, n0)
    PROVE  IInv'
<1>1. TypeOK /\ Whole(r) BY DEF IInv
<1>2. PICK left \in {r, Missing}, what \in {"promoted", "refused"} :
        /\ live' = [live EXCEPT ![n0] = left] /\ Answers(r, what)
        /\ what = "promoted" => left = r /\ late' = late
        /\ what = "refused" => late' = late \cup {<<r, n0>>}
  BY DEF EdgePromotes, EdgeFailsLate
<1>3. /\ <<r, n0>> \in deploying /\ deploying' = deploying \ {<<r, n0>>}
      /\ backups' = [backups EXCEPT ![n0] = <<live[n0]>> \o @]
      /\ replaced' = [replaced EXCEPT ![r][n0] = live[n0]]
      /\ foreign' = (foreign \ {<<r, n0>>}) \cup Disturbed(r, n0)
      /\ UNCHANGED <<control, pc>>
  BY DEF EdgePromotes, EdgeFailsLate
<1>4. UNCHANGED <<next, taken, probing, rounds, failures, state, outcome, probed, pc>>
  BY <1>3 DEF control
<1>5. /\ Progress(r)' /\ Told(r)' /\ WaveInv(r)'
      /\ answer' \in [Rollouts -> {"none", "promoted", "refused"}]
      /\ answer'[r] = IF pc[r] = "waiting" THEN what ELSE "none"
      /\ \A q \in Rollouts \ {r} : answer'[q] = answer[q]
      /\ \A m \in Nodes : Noted(r, m)' /\ AtIt(r, m)'
  BY <1>2, <1>3, EdgeKeepsControl
<1>6. /\ live[n0] \in Checkouts /\ backups[n0] \in Seq(Checkouts)
      /\ backups'[n0] \in Seq(Checkouts) /\ backups'[n0] # <<>> /\ Head(backups'[n0]) = live[n0]
      /\ ToSet(backups'[n0]) \subseteq ToSet(backups[n0]) \cup {live[n0]}
      /\ live'[n0] = left
  <2>1. live[n0] \in Checkouts /\ backups[n0] \in Seq(Checkouts) BY <1>1 DEF TypeOK
  <2>2. backups'[n0] = <<live[n0]>> \o backups[n0] BY <1>1, <1>3 DEF TypeOK
  <2>3. live'[n0] = left BY <1>1, <1>2 DEF TypeOK
  <2> QED BY <2>1, <2>2, <2>3, PushParts
<1>7. \A n \in Nodes \ {n0} :
          /\ live'[n] = live[n] /\ backups'[n] = backups[n]
          /\ replaced'[r][n] = replaced[r][n]
          /\ \A q \in Rollouts : <<q, n>> \in foreign' <=> <<q, n>> \in foreign
          /\ \A q \in Rollouts : <<q, n>> \in late' <=> <<q, n>> \in late
  BY <1>1, <1>2, <1>3 DEF TypeOK, Disturbed
<1>8. /\ replaced'[r][n0] = live[n0] /\ \A q \in Rollouts \ {r} : replaced'[q] = replaced[q]
      /\ replaced' \in [Rollouts -> [Nodes -> Checkouts]]
  BY <1>1, <1>3, <1>6 DEF TypeOK
<1>9. TypeOK'
  <2>1. live' \in [Nodes -> Checkouts] BY <1>1, <1>2 DEF TypeOK, Checkouts
  <2>2. backups' \in [Nodes -> Seq(Checkouts)]
    <3>1. \A n \in Nodes : backups'[n] \in Seq(Checkouts) BY <1>1, <1>6, <1>7 DEF TypeOK
    <3>2. backups' = [n \in Nodes |-> backups'[n]] BY <1>1, <1>3 DEF TypeOK
    <3> QED BY <3>1, <3>2
  <2>3. foreign' \subseteq Rollouts \X Nodes BY <1>1, <1>3 DEF TypeOK, Disturbed
  <2>4. late' \subseteq Rollouts \X Nodes BY <1>1, <1>2 DEF TypeOK
  <2>5. deploying' \subseteq Rollouts \X Nodes BY <1>1, <1>3 DEF TypeOK
  <2> QED BY <1>1, <1>4, <1>5, <1>8, <2>1, <2>2, <2>3, <2>4, <2>5 DEF TypeOK
<1>10. ASSUME NEW q \in Rollouts \ {r} PROVE Whole(q)'
  <2>1. Apart(q) BY <1>3, <1>4, <1>5, <1>8 DEF Apart
  <2>2. ASSUME NEW n \in Nodes
        PROVE  AtRest(q, n) \/ (<<q, n>> \in foreign' /\ NotYet(q, n)')
    <3>1. NotYet(q, n) BY DEF IInv, Whole, PlaceInv
    <3>2. AskedNodes(q)' = AskedNodes(q) BY <1>4 DEF AskedNodes
    <3>3. CASE n # n0 BY <1>7, <3>3 DEF AtRest
    <3>4. CASE n = n0
      <4>1. left # q BY RolloutAssumption
      <4>2. NotYet(q, n)' BY <1>3, <1>6, <3>1, <3>2, <3>4, <4>1 DEF NotYet
      <4>3. <<q, n>> \in foreign' BY <1>3, <3>4 DEF Disturbed
      <4> QED BY <4>2, <4>3
    <3> QED BY <3>3, <3>4
  <2> QED BY <2>1, <2>2, Unmoved, Zenon
<1>11. ASSUME NEW n \in Nodes PROVE PlaceInv(r, n)'
  <2>1. NotYet(r, n) /\ InPlace(r, n) /\ Accounted(r, n) BY <1>1 DEF Whole, PlaceInv
  <2>2. /\ n0 \in AskedNodes(r) /\ state[r][n0] \in {"unknown", "pending"}
        /\ pc[r] = "waiting" => n0 = Asked(r) /\ answer[r] = "none"
        /\ state[r][n0] = "pending" => pc[r] = "waiting" \/ outcome[r] = "gone"
        /\ live[n0] # r
    BY <1>3, EdgeBegins
  <2>3. Asked(r)' = Asked(r) /\ AskedNodes(r)' = AskedNodes(r) BY <1>4 DEF Asked, AskedNodes
  <2>4. CASE n # n0
    <3>1. NotYet(r, n)' BY <1>3, <1>7, <2>1, <2>3, <2>4 DEF NotYet
    <3>2. Has(r, n)' <=> Has(r, n) BY <1>4, <2>2, <2>3, <2>4 DEF Has
    <3>3. InPlace(r, n)' BY <1>4, <1>7, <2>1, <2>4, <3>2 DEF InPlace
    <3>4. Accounted(r, n)' BY <1>4, <1>7, <2>1, <2>4, <3>2 DEF Accounted
    <3> QED BY <1>5, <3>1, <3>3, <3>4 DEF PlaceInv
  <2>5. CASE n = n0
    <3>1. NotYet(r, n)' BY <1>3, <2>2, <2>3, <2>5 DEF NotYet
    <3>2. Has(r, n)' => what = "promoted" BY <1>4, <1>5, <2>2, <2>5 DEF Has
    <3>3. InPlace(r, n)' BY <1>2, <1>4, <1>6, <1>8, <2>2, <2>5, <3>2 DEF InPlace
    <3>4. Accounted(r, n)'
      <4>1. CASE what = "refused" BY <1>2, <2>5, <4>1 DEF Accounted
      <4>2. CASE what = "promoted"
        <5>1. pc[r] = "waiting" => Has(r, n)' BY <1>4, <1>5, <2>2, <2>3, <2>5, <4>2 DEF Has
        <5> QED BY <1>4, <2>2, <2>5, <5>1 DEF Accounted
      <4> QED BY <4>1, <4>2
    <3> QED BY <1>5, <3>1, <3>3, <3>4 DEF PlaceInv
  <2> QED BY <2>4, <2>5
<1>12. Whole(r)' BY <1>5, <1>11 DEF Whole
<1> QED BY <1>9, <1>10, <1>12 DEF IInv

-----------------------------------------------------------------------------
LEMMA StutterKeeps ==
    ASSUME IInv, UNCHANGED vars
    PROVE  IInv'
<1>1. UNCHANGED <<live, backups, deploying, late, foreign, replaced, next, taken, probing, rounds,
                  failures, state, outcome, probed, pc, answer>>
  BY DEF vars, fleet, control
<1>2. TypeOK' BY <1>1 DEF IInv, TypeOK
<1>3. ASSUME NEW q \in Rollouts PROVE Whole(q)'
  <2>1. Apart(q) BY <1>1 DEF Apart
  <2>2. \A n \in Nodes : AtRest(q, n) \/ (<<q, n>> \in foreign' /\ NotYet(q, n)')
    BY <1>1 DEF AtRest
  <2> QED BY <2>1, <2>2, Unmoved, Zenon
<1> QED BY <1>2, <1>3 DEF IInv

LEMMA NextInv == IInv /\ [Next]_vars => IInv'
<1> SUFFICES ASSUME IInv, [Next]_vars PROVE IInv' OBVIOUS
<1>1. ASSUME NEW r \in Rollouts, Rollout(r) \/ Crash(r) PROVE IInv'
  BY <1>1, AskDeployKeeps, TakeAnswerKeeps, NoAnswerKeeps, ProbeKeeps, RoundEndsKeeps, UndoKeeps,
     EndKeeps DEF Rollout
<1>2. ASSUME NEW r \in Rollouts, NEW n \in Nodes, Edge(r, n) PROVE IInv'
  BY <1>2, EdgeRefusesKeeps, EdgeMovesKeeps DEF Edge
<1> QED BY <1>1, <1>2, StutterKeeps DEF Next

LEMMA Invariance == Spec => []IInv
BY InitInv, NextInv, PTL DEF Spec

-----------------------------------------------------------------------------
(* What a refusal leaves.                                                  *)

\* Only a rollback that failed, or a deploy that failed late, leaves a node without a checkout,
\* and none is ever set aside as a backup.
GoneInv ==
    /\ late # {} => Can("late")
    /\ \A n \in Nodes : Missing \notin ToSet(backups[n])
    /\ \A r \in Rollouts, n \in Nodes :
           live[n] = Missing /\ <<r, n>> \notin foreign \cup late => state[r][n] = "rollback-failed"

\* Of another rollout's steps on n nothing is seen, or it counts as foreign.
LEMMA EdgeKeepsGone ==
    ASSUME IInv, GoneInv, NEW r \in Rollouts, NEW n0 \in Nodes, Edge(r, n0)
    PROVE  GoneInv'
<1>1. TypeOK BY DEF IInv
<1>2. UNCHANGED state BY DEF Edge, EdgePromotes, EdgeRefuses, EdgeFailsLate, control
<1>3. CASE EdgeRefuses(r, n0)
  BY <1>2, <1>3 DEF GoneInv, EdgeRefuses, Can
<1>4. CASE EdgePromotes(r, n0) \/ EdgeFailsLate(r, n0)
  <2>1. PICK left \in {r, Missing} :
          /\ live' = [live EXCEPT ![n0] = left]
          /\ backups' = [backups EXCEPT ![n0] = <<live[n0]>> \o @] /\ live[n0] # Missing
          /\ foreign' = (foreign \ {<<r, n0>>}) \cup Disturbed(r, n0)
          /\ \/ left = r /\ late' = late
             \/ Can("late") /\ late' = late \cup {<<r, n0>>}
    BY <1>4 DEF EdgePromotes, EdgeFailsLate
  <2>2. /\ live[n0] \in Checkouts /\ backups[n0] \in Seq(Checkouts)
        /\ live'[n0] = left /\ backups'[n0] = <<live[n0]>> \o backups[n0]
        /\ \A n \in Nodes \ {n0} : live'[n] = live[n] /\ backups'[n] = backups[n]
    BY <1>1, <2>1 DEF TypeOK
  <2>3. ToSet(backups'[n0]) \subseteq ToSet(backups[n0]) \cup {live[n0]} BY <2>2, PushParts
  <2>4. \A n \in Nodes : Missing \notin ToSet(backups'[n]) BY <2>1, <2>2, <2>3 DEF GoneInv
  <2>5. late' # {} => Can("late")' BY <2>1 DEF GoneInv, Can
  <2>6. ASSUME NEW q \in Rollouts, NEW n \in Nodes, live'[n] = Missing,
               <<q, n>> \notin foreign' \cup late'
        PROVE  state'[q][n] = "rollback-failed"
    <3>1. CASE n # n0
      <4>1. <<q, n>> \notin foreign \cup late BY <2>1, <2>6, <3>1
      <4> QED BY <1>2, <2>2, <2>6, <3>1, <4>1 DEF GoneInv
    <3>2. CASE n = n0 /\ q # r BY <2>1, <2>6, <3>2 DEF Disturbed
    <3>3. CASE n = n0 /\ q = r BY <2>1, <2>2, <2>6, <3>3, RolloutAssumption
    <3> QED BY <3>1, <3>2, <3>3
  <2> QED BY <2>4, <2>5, <2>6 DEF GoneInv
<1> QED BY <1>3, <1>4 DEF Edge

\* A state that says that a rollback failed stays.
LEMMA FailedStays ==
    ASSUME IInv, NEW r \in Rollouts, Rollout(r) \/ Crash(r)
    PROVE  \A q \in Rollouts, n \in Nodes :
               state[q][n] = "rollback-failed" => state'[q][n] = "rollback-failed"
<1>1. TypeOK /\ Progress(r) BY DEF IInv, Whole
<1>2. CASE TakeAnswer(r) \/ NoAnswer(r)
  <2>1. Asked(r) \in Nodes /\ state[r][Asked(r)] = "pending"
    <3>1. pc[r] = "waiting" /\ next[r] \in 1..next[r] /\ next[r] <= Len(Targets[r])
      BY <1>1, <1>2 DEF TakeAnswer, NoAnswer, Progress, TypeOK
    <3> QED BY <1>1, <3>1, AskedIsTarget DEF Asked, Progress
  <2>2. PICK what : state' = [state EXCEPT ![r][Asked(r)] = what]
    BY <1>2 DEF TakeAnswer, NoAnswer, Deployed, Refused, Note
  <2> QED BY <1>1, <2>1, <2>2 DEF TypeOK
<1>3. CASE Undo(r)
  <2>1. PICK n0 \in ToUndo(r) : \E what : state' = [state EXCEPT ![r][n0] = what]
    BY <1>3 DEF Undo, Note
  <2>2. n0 \in Nodes /\ state[r][n0] = "deployed" BY DEF ToUndo
  <2> QED BY <1>1, <2>1, <2>2 DEF TypeOK
<1>4. CASE AskDeploy(r) \/ Probe(r) \/ RoundEnds(r) \/ Finish(r) \/ Crash(r)
  <2>1. UNCHANGED state BY <1>4 DEF AskDeploy, Probe, RoundEnds, Finish, Crash
  <2> QED BY <2>1
<1> QED BY <1>2, <1>3, <1>4 DEF Rollout

LEMMA RolloutKeepsGone ==
    ASSUME IInv, GoneInv, NEW r \in Rollouts, Rollout(r) \/ Crash(r)
    PROVE  GoneInv'
<1>1. TypeOK BY DEF IInv
<1>2. late' = late
  BY DEF Rollout, AskDeploy, TakeAnswer, NoAnswer, Probe, RoundEnds, Undo, Finish, Crash, fleet
<1>3. CASE Undo(r)
  <2>1. PICK n0 \in ToUndo(r) :
          /\ foreign' \in {foreign, foreign \cup Disturbed(r, n0)}
          /\ \/ RollsBack(n0)
             \/ UNCHANGED <<live, backups>>
             \/ /\ live' = [live EXCEPT ![n0] = Missing] /\ UNCHANGED backups
                /\ foreign' = foreign \cup Disturbed(r, n0) /\ Note(r, n0, "rollback-failed")
    BY <1>3 DEF Undo
  <2>2. n0 \in Nodes /\ backups[n0] \in Seq(Checkouts) BY <1>1 DEF ToUndo, TypeOK
  <2>3. CASE RollsBack(n0)
    <3>1. /\ live'[n0] \in ToSet(backups[n0]) /\ ToSet(backups'[n0]) \subseteq ToSet(backups[n0])
          /\ \A n \in Nodes \ {n0} : live'[n] = live[n] /\ backups'[n] = backups[n]
      BY <1>1, <2>2, <2>3, RollbackParts DEF RollsBack, TypeOK
    <3>2. \A n \in Nodes : live'[n] = Missing => live[n] = Missing BY <2>2, <3>1 DEF GoneInv
    <3>3. \A n \in Nodes : Missing \notin ToSet(backups'[n]) BY <3>1 DEF GoneInv
    <3>4. foreign \subseteq foreign' BY <2>1
    <3> QED BY <1>2, <3>2, <3>3, <3>4, FailedStays DEF GoneInv, Can
  <2>4. CASE UNCHANGED <<live, backups>>
    <3>1. foreign \subseteq foreign' BY <2>1
    <3> QED BY <1>2, <2>4, <3>1, FailedStays DEF GoneInv, Can
  <2>5. CASE /\ live' = [live EXCEPT ![n0] = Missing] /\ UNCHANGED backups
             /\ foreign' = foreign \cup Disturbed(r, n0) /\ Note(r, n0, "rollback-failed")
    <3>1. \A n \in Nodes \ {n0} : live'[n] = live[n] BY <1>1, <2>5 DEF TypeOK
    <3>2. state'[r][n0] = "rollback-failed" BY <1>1, <2>2, <2>5 DEF TypeOK, Note
    <3>3. \A q \in Rollouts \ {r} : <<q, n0>> \in foreign' BY <2>5 DEF Disturbed
    <3>4. ASSUME NEW q \in Rollouts, NEW n \in Nodes, live'[n] = Missing,
                 <<q, n>> \notin foreign' \cup late'
          PROVE  state'[q][n] = "rollback-failed"
      <4>1. <<q, n>> \notin foreign \cup late BY <1>2, <2>5, <3>4
      <4>2. CASE n # n0 BY <3>1, <3>4, <4>1, <4>2, FailedStays DEF GoneInv
      <4>3. CASE n = n0 BY <3>2, <3>3, <3>4, <4>3
      <4> QED BY <4>2, <4>3
    <3> QED BY <1>2, <2>5, <3>4 DEF GoneInv, Can
  <2> QED BY <2>1, <2>3, <2>4, <2>5
<1>4. CASE ~Undo(r)
  <2>1. UNCHANGED <<live, backups, foreign>>
    BY <1>4 DEF Rollout, AskDeploy, TakeAnswer, NoAnswer, Probe, RoundEnds, Finish, Crash, fleet
  <2> QED BY <1>2, <2>1, FailedStays DEF GoneInv, Can
<1> QED BY <1>3, <1>4

LEMMA NextGone == IInv /\ GoneInv /\ [Next]_vars => GoneInv'
<1> SUFFICES ASSUME IInv, GoneInv, [Next]_vars PROVE GoneInv' OBVIOUS
<1>1. CASE UNCHANGED vars BY <1>1 DEF vars, fleet, control, GoneInv, Can
<1> QED BY <1>1, EdgeKeepsGone, RolloutKeepsGone DEF Next

LEMMA GoneInvariance == Spec => []GoneInv
<1>1. Init => GoneInv BY RolloutAssumption DEF Init, GoneInv, ToSet
<1> QED BY <1>1, NextGone, Invariance, PTL DEF Spec

\* A node that refused has the checkout it had, unless its deploy had already begun to move.
RefusedButLate ==
    \A r \in Rollouts, n \in Nodes :
        state[r][n] = "refused" /\ <<r, n>> \notin foreign \cup late => live[n] \notin {r, Missing}

LEMMA RefusedParts == IInv /\ GoneInv => RefusedButLate
BY DEF IInv, Whole, PlaceInv, Accounted, Has, GoneInv, RefusedButLate

-----------------------------------------------------------------------------
(* A rollout comes to its end.                                             *)

\* How far a rollout is: what it took of what it asked, and where it is in the rounds of probes.
Paced(r) ==
    /\ pc[r] \in {"rolling", "observing"} => Len(taken[r]) = next[r]
    /\ pc[r] = "waiting" => Len(taken[r]) + 1 = next[r]
    /\ Len(taken[r]) <= next[r]
    /\ pc[r] = "observing" => probing[r] <= Len(taken[r]) /\ rounds[r] < MaxRounds

\* What a step of another rollout, or of a node, leaves as it is.
LEMMA OneMoves ==
    ASSUME TypeOK, [Next]_vars, NEW q \in Rollouts
    PROVE  Rollout(q) \/ Crash(q) \/ Own(q)' = Own(q)
<1>1. CASE UNCHANGED vars BY <1>1 DEF vars, control, Own
<1>2. ASSUME NEW r \in Rollouts, NEW n \in Nodes, Edge(r, n) PROVE Own(q)' = Own(q)
  BY <1>2 DEF Edge, EdgePromotes, EdgeRefuses, EdgeFailsLate, control, Own
<1>3. ASSUME NEW r \in Rollouts \ {q}, Rollout(r) \/ Crash(r) PROVE Own(q)' = Own(q)
  <2>1. CASE AskDeploy(r) BY <2>1 DEF TypeOK, AskDeploy, GoTo, Own
  <2>2. CASE TakeAnswer(r)
    BY <2>2 DEF TypeOK, TakeAnswer, Deployed, Refused, Note, Problem, GoTo, Own
  <2>3. CASE NoAnswer(r) BY <2>3 DEF TypeOK, NoAnswer, Note, Problem, GoTo, Own
  <2>4. CASE Probe(r) BY <2>4 DEF TypeOK, Probe, Problem, GoTo, Own
  <2>5. CASE RoundEnds(r) BY <2>5 DEF TypeOK, RoundEnds, Waited, GoTo, Own
  <2>6. CASE Undo(r)
    <3>1. PICK n0 \in ToUndo(r) : \E what : state' = [state EXCEPT ![r][n0] = what]
      BY <2>6 DEF Undo, Note
    <3> QED BY <2>6, <3>1 DEF TypeOK, Undo, Own
  <2>7. CASE Finish(r) \/ Crash(r) BY <2>7 DEF TypeOK, Finish, Crash, GoTo, Own
  <2> QED BY <1>3, <2>1, <2>2, <2>3, <2>4, <2>5, <2>6, <2>7 DEF Rollout
<1> QED BY <1>1, <1>2, <1>3 DEF Next

\* The nodes to put back are no more than the nodes that took the change.
LEMMA PutBackBound ==
    ASSUME NEW S, NEW s \in Seq(S), NEW T \in SUBSET ToSet(s)
    PROVE  IsFiniteSet(T) /\ Cardinality(T) \in Nat /\ Cardinality(T) <= Len(s)
<1>1. Len(s) \in Nat /\ DOMAIN s = 1..Len(s) OBVIOUS
<1>2. IsFiniteSet(1..Len(s)) /\ Cardinality(1..Len(s)) = Len(s)
  <2>1. 1 \in Int /\ Len(s) \in Int BY <1>1
  <2>2. Cardinality(1..Len(s)) = IF 1 > Len(s) THEN 0 ELSE Len(s) - 1 + 1 BY <2>1, FS_Interval
  <2> QED BY <1>1, <2>1, <2>2, FS_Interval
<1>3. s \in Surjection(1..Len(s), ToSet(s))
  <2>1. s \in [1..Len(s) -> ToSet(s)] BY <1>1 DEF ToSet
  <2> QED BY <1>1, <2>1 DEF Surjection, ToSet
<1>4. IsFiniteSet(ToSet(s)) /\ Cardinality(ToSet(s)) <= Len(s) BY <1>2, <1>3, FS_Surjection
<1>5. Cardinality(ToSet(s)) \in Nat BY <1>4, FS_CardinalityType
<1>6. IsFiniteSet(T) /\ Cardinality(T) <= Cardinality(ToSet(s)) BY <1>4, FS_Subset
<1>7. Cardinality(T) \in Nat BY <1>6, FS_CardinalityType
<1> QED BY <1>1, <1>4, <1>5, <1>6, <1>7

\* The numbers that the measure is made of.
LEMMA Products ==
    ASSUME NEW a \in Nat, NEW w \in Nat
    PROVE  a * w \in Nat /\ (a > 0 => (a - 1) * w = a * w - w)
OBVIOUS

\* The measure, in the terms of its parts: `ahead' for the nodes not asked yet, `again' for the
\* rounds of probes that are left.
LEMMA Measure ==
    ASSUME IInv, NEW r \in Rollouts, Paced(r)
    PROVE  /\ Len(Targets[r]) \in Nat /\ next[r] \in Nat /\ next[r] <= Len(Targets[r])
           /\ Observation(r) \in Nat /\ Observation(r) = (MaxRounds - 1) * (Len(Targets[r]) + 1) + Len(Targets[r]) + 1
           /\ (Len(Targets[r]) - next[r]) * (Observation(r) + 2) \in Nat
           /\ pc[r] = "observing" =>
                  (MaxRounds - rounds[r] - 1) * (Len(Targets[r]) + 1) \in Nat
           /\ Cardinality(ToPutBack(r)) \in Nat /\ Cardinality(ToPutBack(r)) <= Len(Targets[r])
           /\ IsFiniteSet(ToPutBack(r))
<1>1. TypeOK /\ Progress(r) BY DEF IInv, Whole
<1>2. /\ Len(Targets[r]) \in Nat /\ next[r] \in Nat /\ next[r] <= Len(Targets[r])
      /\ MaxRounds \in Nat \ {0} /\ taken[r] \in Seq(Nodes) /\ Len(taken[r]) \in Nat
      /\ rounds[r] \in 0..MaxRounds
  BY <1>1, RolloutAssumption DEF TypeOK, Progress
<1> DEFINE all == Len(Targets[r])
           obs == Observation(r)
<1> HIDE DEF all
<1>3. all \in Nat /\ next[r] <= all BY <1>2 DEF all
<1>4. MaxRounds * (all + 1) \in Nat
      /\ (MaxRounds - 1) * (all + 1) = MaxRounds * (all + 1) - (all + 1)
  <2>1. MaxRounds \in Nat /\ all + 1 \in Nat /\ MaxRounds > 0 BY <1>2, <1>3
  <2> HIDE DEF obs
  <2> QED BY <2>1, Products
<1>5. obs = MaxRounds * (all + 1) BY DEF Observation, all
<1> HIDE DEF obs
<1>6. obs \in Nat /\ obs = (MaxRounds - 1) * (all + 1) + all + 1
  <2>1. (MaxRounds - 1) * (all + 1) = obs - (all + 1) /\ obs \in Nat BY <1>4, <1>5
  <2> DEFINE p == (MaxRounds - 1) * (all + 1)
  <2> HIDE DEF p
  <2>2. p = obs - (all + 1) BY <2>1 DEF p
  <2>3. obs = p + all + 1 BY <1>3, <2>1, <2>2
  <2> QED BY <2>1, <2>3 DEF p
<1>7. (all - next[r]) * (obs + 2) \in Nat
  <2>1. all - next[r] \in Nat /\ obs + 2 \in Nat BY <1>2, <1>3, <1>6
  <2> QED BY <2>1, Products
<1>8. pc[r] = "observing" => (MaxRounds - rounds[r] - 1) * (all + 1) \in Nat
  <2>1. pc[r] = "observing" => MaxRounds - rounds[r] - 1 \in Nat BY <1>2 DEF Paced
  <2>2. all + 1 \in Nat BY <1>3
  <2> QED BY <2>1, <2>2, Products
<1>9. /\ IsFiniteSet(ToPutBack(r)) /\ Cardinality(ToPutBack(r)) \in Nat
      /\ Cardinality(ToPutBack(r)) <= Len(taken[r])
  <2>1. ToPutBack(r) \in SUBSET ToSet(taken[r]) BY DEF ToPutBack
  <2> QED BY <1>2, <2>1, PutBackBound
<1>10. Cardinality(ToPutBack(r)) <= all BY <1>2, <1>3, <1>9 DEF Paced
<1> QED BY <1>2, <1>6, <1>7, <1>8, <1>9, <1>10 DEF all, obs

Ahead(r) == 2 + Len(Targets[r]) + (Len(Targets[r]) - next[r]) * (Observation(r) + 2)
Again(r) == (MaxRounds - rounds[r] - 1) * (Len(Targets[r]) + 1)

LEMMA LeftParts ==
    ASSUME NEW r \in Rollouts
    PROVE  /\ pc[r] = "ended" => Left(r) = 0
           /\ pc[r] = "undoing" => Left(r) = 1 + Cardinality(ToPutBack(r))
           /\ pc[r] = "rolling" => Left(r) = Ahead(r)
           /\ pc[r] = "waiting" => Left(r) = Ahead(r) + Observation(r) + 1
           /\ pc[r] = "observing" =>
                  Left(r) = Ahead(r) + Again(r) + Len(Targets[r]) - probing[r] + 1
           /\ pc'[r] = "ended" => Left(r)' = 0
           /\ pc'[r] = "undoing" => Left(r)' = 1 + Cardinality(ToPutBack(r))'
           /\ pc'[r] = "rolling" => Left(r)' = Ahead(r)'
           /\ pc'[r] = "waiting" => Left(r)' = Ahead(r)' + Observation(r) + 1
           /\ pc'[r] = "observing" =>
                  Left(r)' = Ahead(r)' + Again(r)' + Len(Targets[r]) - probing'[r] + 1
           /\ Observation(r)' = Observation(r)
<1>1. pc[r] = "observing" => Left(r) = Ahead(r) + Again(r) + Len(Targets[r]) - probing[r] + 1
  BY Zenon DEF Left, Ahead, Again
<1>2. pc'[r] = "observing" => Left(r)' = Ahead(r)' + Again(r)' + Len(Targets[r]) - probing'[r] + 1
  BY Zenon DEF Left, Ahead, Again, Observation
<1> QED BY <1>1, <1>2, Zenon DEF Left, Ahead, Again, Observation

\* What a rollout that goes on to ask has left is more than what one has that undoes.
LEMMA AheadIsMore ==
    ASSUME IInv, NEW r \in Rollouts, Paced(r)
    PROVE  /\ Ahead(r) \in Nat /\ Ahead(r) >= 2 + Len(Targets[r]) /\ Len(Targets[r]) \in Nat
           /\ Observation(r) \in Nat
           /\ pc[r] # "ended" => Left(r) \in Nat \ {0}
           /\ pc[r] \in {"rolling", "waiting", "observing"} => Left(r) >= 2 + Len(Targets[r])
<1> DEFINE all == Len(Targets[r])
           obs == Observation(r)
           ahead == (all - next[r]) * (obs + 2)
           again == Again(r)
           back == Cardinality(ToPutBack(r))
<1>1. /\ all \in Nat /\ obs \in Nat /\ ahead \in Nat /\ back \in Nat
      /\ pc[r] = "observing" => again \in Nat
  BY Measure DEF Again
<1>2. Ahead(r) = 2 + all + ahead BY DEF Ahead
<1>3. pc[r] = "observing" => probing[r] \in Nat /\ probing[r] <= all
  <2>1. next[r] \in Nat /\ next[r] <= Len(Targets[r]) /\ Len(Targets[r]) \in Nat BY Measure
  <2>2. TypeOK BY DEF IInv
  <2>3. probing[r] \in Nat /\ taken[r] \in Seq(Nodes) /\ Len(taken[r]) \in Nat BY <2>2 DEF TypeOK
  <2>4. pc[r] = "observing" => probing[r] <= Len(taken[r]) /\ Len(taken[r]) <= next[r] BY DEF Paced
  <2> QED BY <2>1, <2>3, <2>4
<1>4. pc[r] \in {"rolling", "waiting", "observing", "undoing", "ended"} BY DEF IInv, TypeOK
<1>5. /\ pc[r] = "undoing" => Left(r) = 1 + back
      /\ pc[r] = "rolling" => Left(r) = Ahead(r)
      /\ pc[r] = "waiting" => Left(r) = Ahead(r) + obs + 1
      /\ pc[r] = "observing" => Left(r) = Ahead(r) + again + all - probing[r] + 1
  BY LeftParts
<1> HIDE DEF all, obs, ahead, again, back
<1>6. Ahead(r) \in Nat /\ Ahead(r) >= 2 + all BY <1>1, <1>2
<1>7. CASE pc[r] = "observing"
  <2>1. again \in Nat /\ probing[r] \in Nat /\ probing[r] <= all BY <1>1, <1>3, <1>7
  <2>2. Left(r) = Ahead(r) + again + all - probing[r] + 1 BY <1>5, <1>7
  <2>3. Left(r) \in Nat \ {0} /\ Left(r) >= 2 + all BY <1>1, <1>6, <2>1, <2>2
  <2> QED BY <1>1, <1>6, <1>7, <2>3 DEF all, obs
<1>8. CASE pc[r] # "observing"
  <2>1. pc[r] # "ended" => Left(r) \in Nat \ {0} BY <1>1, <1>4, <1>5, <1>6, <1>8
  <2>2. pc[r] \in {"rolling", "waiting", "observing"} => Left(r) >= 2 + all
    BY <1>1, <1>5, <1>6, <1>8
  <2> QED BY <1>1, <1>6, <1>8, <2>1, <2>2 DEF all, obs
<1> QED BY <1>7, <1>8

\* A problem: the rollout begins to undo.
LEMMA ProblemIsNearer ==
    ASSUME IInv, NEW r \in Rollouts, Paced(r), pc[r] \in {"rolling", "waiting", "observing"},
           pc'[r] = "undoing", UNCHANGED <<taken, next>>,
           \A n \in Nodes : state'[r][n] = "deployed" => state[r][n] = "deployed"
    PROVE  Paced(r)' /\ Left(r)' < Left(r)
<1>1. /\ IsFiniteSet(ToPutBack(r)) /\ Cardinality(ToPutBack(r)) <= Len(Targets[r])
      /\ Cardinality(ToPutBack(r)) \in Nat
  BY Measure
<1>2. ToPutBack(r)' \in SUBSET ToPutBack(r)
  <2>1. ToSet(taken[r]) \subseteq Nodes BY DEF IInv, TypeOK, ToSet
  <2> QED BY <2>1 DEF ToPutBack
<1>3. /\ Cardinality(ToPutBack(r)') <= Cardinality(ToPutBack(r))
      /\ Cardinality(ToPutBack(r)') \in Nat
  BY <1>1, <1>2, FS_Subset, FS_CardinalityType
<1>4. Left(r)' = 1 + Cardinality(ToPutBack(r)') BY LeftParts
<1>5. Left(r) >= 2 + Len(Targets[r]) /\ Left(r) \in Nat /\ Len(Targets[r]) \in Nat BY AheadIsMore
<1>6. Paced(r)'
  <2>1. taken'[r] = taken[r] /\ next'[r] = next[r] OBVIOUS
  <2> QED BY <2>1 DEF Paced
<1> QED BY <1>1, <1>3, <1>4, <1>5, <1>6

LEMMA AskIsNearer ==
    ASSUME IInv, NEW r \in Rollouts, Paced(r), AskDeploy(r)
    PROVE  Paced(r)' /\ Left(r)' < Left(r)
<1>1. TypeOK /\ Progress(r) /\ TypeOK' BY AskDeployKeeps DEF IInv, Whole
<1>2. /\ pc[r] = "rolling" /\ pc'[r] = "waiting" /\ next'[r] = next[r] + 1 /\ taken' = taken
      /\ next[r] < Len(Targets[r])
  BY <1>1 DEF TypeOK, AskDeploy, GoTo, Progress
<1> DEFINE a == Len(Targets[r]) - next[r]
           w == Observation(r) + 2
<1>3. next[r] \in Nat /\ Len(Targets[r]) \in Nat /\ Observation(r) \in Nat /\ Len(taken[r]) \in Nat
  BY <1>1, Measure DEF TypeOK
<1>4. a \in Nat /\ a > 0 /\ w \in Nat BY <1>2, <1>3
<1>5. Len(Targets[r]) - next'[r] = a - 1 BY <1>2, <1>3
<1>6. /\ Left(r) = 2 + Len(Targets[r]) + a * w
      /\ Left(r)' = 2 + Len(Targets[r]) + (a - 1) * w + Observation(r) + 1
  BY <1>2, <1>5, LeftParts DEF Ahead
<1>7. w = Observation(r) + 2 OBVIOUS
<1> HIDE DEF a, w
<1>8. a * w \in Nat /\ (a - 1) * w = a * w - w BY <1>4, Products
<1> DEFINE p == a * w
           q == (a - 1) * w
<1> HIDE DEF p, q
<1>9. Left(r) = 2 + Len(Targets[r]) + p /\ Left(r)' = 2 + Len(Targets[r]) + q + Observation(r) + 1
  BY <1>6 DEF p, q
<1>10. p \in Nat /\ q = p - w BY <1>8 DEF p, q
<1>11. Left(r)' < Left(r)
  <2> DEFINE obs == Observation(r)
             all == Len(Targets[r])
  <2>1. obs \in Nat /\ all \in Nat /\ w = obs + 2 BY <1>3, <1>7
  <2>2. Left(r) = 2 + all + p /\ Left(r)' = 2 + all + q + obs + 1 BY <1>9
  <2> HIDE DEF obs, all
  <2>3. q + obs + 1 = p - 1 BY <1>10, <2>1
  <2>4. q \in Int BY <1>10, <2>1
  <2>5. 2 + all + q + obs + 1 < 2 + all + p BY <1>10, <2>1, <2>3, <2>4
  <2> QED BY <2>2, <2>5
<1>12. Len(taken'[r]) + 1 = next'[r] /\ Len(taken'[r]) <= next'[r]
  <2>1. Len(taken[r]) = next[r] BY <1>2 DEF Paced
  <2> QED BY <1>2, <1>3, <2>1
<1> QED BY <1>2, <1>11, <1>12 DEF Paced

LEMMA AnswerIsNearer ==
    ASSUME IInv, NEW r \in Rollouts, Paced(r), TakeAnswer(r)
    PROVE  Paced(r)' /\ Left(r)' < Left(r)
<1>1. TypeOK /\ Progress(r) BY DEF IInv, Whole
<1>2. pc[r] = "waiting" /\ next' = next /\ next[r] \in Nat BY <1>1 DEF TakeAnswer, TypeOK
<1>3. Asked(r) \in Nodes
  <2>1. next[r] \in 1..next[r] /\ next[r] <= Len(Targets[r]) BY <1>1, <1>2 DEF Progress
  <2> QED BY <1>1, <2>1, AskedIsTarget DEF Asked
<1>4. /\ Ahead(r) \in Nat /\ Observation(r) \in Nat /\ Len(Targets[r]) \in Nat
      /\ Left(r) = Ahead(r) + Observation(r) + 1 /\ Ahead(r)' = Ahead(r)
  BY <1>2, AheadIsMore, LeftParts DEF Ahead, Observation
<1>5. CASE Refused(r)
  <2>1. pc'[r] = "undoing" /\ taken' = taken
    BY <1>1, <1>5 DEF Refused, Problem, GoTo, TypeOK
  <2>2. \A n \in Nodes : state'[r][n] = "deployed" => state[r][n] = "deployed"
    BY <1>1, <1>3, <1>5 DEF Refused, Note, TypeOK
  <2> QED BY <1>2, <2>1, <2>2, ProblemIsNearer
<1>6. CASE Deployed(r)
  <2>1. taken'[r] = Append(taken[r], Asked(r)) /\ taken[r] \in Seq(Nodes)
    BY <1>1, <1>6 DEF Deployed, TypeOK
  <2>2. Len(taken'[r]) = Len(taken[r]) + 1 /\ Len(taken[r]) \in Nat BY <1>3, <2>1
  <2>3. Len(taken'[r]) = next[r] BY <1>2, <2>2 DEF Paced
  <2>4. CASE next[r] # WaveEnd(r, next[r])
    <3>1. pc'[r] = "rolling" BY <1>1, <1>6, <2>4 DEF Deployed, GoTo, TypeOK
    <3>2. Left(r)' = Ahead(r) BY <1>4, <3>1, LeftParts
    <3> QED BY <1>2, <1>4, <2>3, <3>1, <3>2 DEF Paced
  <2>5. CASE next[r] = WaveEnd(r, next[r])
    <3>1. pc'[r] = "observing" /\ probing'[r] = 0 /\ rounds'[r] = 0
      BY <1>1, <1>6, <2>5 DEF Deployed, GoTo, TypeOK
    <3>2. Left(r)' = Ahead(r) + Again(r)' + Len(Targets[r]) - 0 + 1 BY <1>4, <3>1, LeftParts
    <3>3. MaxRounds \in Nat \ {0} BY RolloutAssumption
    <3>4. Again(r)' = (MaxRounds - 1) * (Len(Targets[r]) + 1)
      <4>1. MaxRounds - rounds'[r] - 1 = MaxRounds - 1 BY <3>1, <3>3
      <4> QED BY <4>1 DEF Again
    <3>5. Observation(r) = Again(r)' + Len(Targets[r]) + 1 BY <3>4, Measure
    <3>6. Again(r)' \in Nat
      <4>1. MaxRounds - 1 \in Nat /\ Len(Targets[r]) + 1 \in Nat BY <1>4, <3>3
      <4> QED BY <3>4, <4>1, Products
    <3>7. Left(r)' < Left(r) BY <1>4, <3>2, <3>5, <3>6
    <3>8. probing'[r] <= Len(taken'[r]) /\ rounds'[r] < MaxRounds BY <1>2, <2>2, <3>1, <3>3
    <3>9. next'[r] = next[r] BY <1>2
    <3> QED BY <1>2, <2>3, <3>1, <3>7, <3>8, <3>9 DEF Paced
  <2> QED BY <2>4, <2>5
<1> QED BY <1>5, <1>6 DEF TakeAnswer

LEMMA NoAnswerIsNearer ==
    ASSUME IInv, NEW r \in Rollouts, Paced(r), NoAnswer(r)
    PROVE  Paced(r)' /\ Left(r)' < Left(r)
<1>1. TypeOK /\ Progress(r) BY DEF IInv, Whole
<1>2. pc[r] = "waiting" /\ pc'[r] = "undoing" /\ UNCHANGED <<next, taken>>
  BY <1>1 DEF NoAnswer, Problem, GoTo, TypeOK
<1>3. Asked(r) \in Nodes
  <2>1. next[r] \in 1..next[r] /\ next[r] <= Len(Targets[r]) BY <1>1, <1>2 DEF Progress, TypeOK
  <2> QED BY <1>1, <2>1, AskedIsTarget DEF Asked
<1>4. \A n \in Nodes : state'[r][n] = "deployed" => state[r][n] = "deployed"
  BY <1>1, <1>3 DEF NoAnswer, Note, TypeOK
<1> QED BY <1>2, <1>4, ProblemIsNearer

LEMMA ProbeIsNearer ==
    ASSUME IInv, NEW r \in Rollouts, Paced(r), Probe(r)
    PROVE  Paced(r)' /\ Left(r)' < Left(r)
<1>1. TypeOK BY DEF IInv
<1>2. /\ pc[r] = "observing" /\ probing[r] < Len(taken[r]) /\ probing'[r] = probing[r] + 1
      /\ UNCHANGED <<next, taken, rounds, state>>
      /\ pc'[r] = "undoing" \/ pc'[r] = pc[r]
  BY <1>1 DEF Probe, Watched, Problem, GoTo, TypeOK
<1>3. CASE pc'[r] = "undoing" BY <1>2, <1>3, ProblemIsNearer
<1>4. CASE pc'[r] = pc[r]
  <2>1. Ahead(r)' = Ahead(r) /\ Again(r)' = Again(r) BY <1>2 DEF Ahead, Again, Observation
  <2>2. /\ Left(r) = Ahead(r) + Again(r) + Len(Targets[r]) - probing[r] + 1
        /\ Left(r)' = Ahead(r) + Again(r) + Len(Targets[r]) - probing'[r] + 1
    BY <1>2, <1>4, <2>1, LeftParts
  <2>3. /\ Ahead(r) \in Nat /\ Again(r) \in Nat /\ Len(Targets[r]) \in Nat /\ probing[r] \in Nat
        /\ Len(taken[r]) \in Nat
    BY <1>1, <1>2, AheadIsMore, Measure DEF Again, TypeOK
  <2>4. Left(r)' < Left(r) BY <1>2, <2>2, <2>3
  <2>5. probing'[r] <= Len(taken[r]) BY <1>2, <2>3
  <2> QED BY <1>2, <1>4, <2>4, <2>5 DEF Paced
<1> QED BY <1>2, <1>3, <1>4

LEMMA RoundIsNearer ==
    ASSUME IInv, NEW r \in Rollouts, Paced(r), RoundEnds(r)
    PROVE  Paced(r)' /\ Left(r)' < Left(r)
<1>1. TypeOK BY DEF IInv
<1>2. /\ pc[r] = "observing" /\ probing[r] = Len(taken[r]) /\ probing'[r] = 0
      /\ UNCHANGED <<next, taken, state>>
      /\ \/ rounds[r] + 1 < MaxRounds /\ rounds'[r] = rounds[r] + 1 /\ pc'[r] = "observing"
         \/ pc'[r] = "rolling" /\ rounds' = rounds
         \/ pc'[r] = "ended" /\ rounds' = rounds
  BY <1>1 DEF RoundEnds, Watched, Waited, GoTo, TypeOK
<1>3. /\ Ahead(r) \in Nat /\ Again(r) \in Nat /\ Len(Targets[r]) \in Nat /\ probing[r] \in Nat
      /\ Len(taken[r]) \in Nat /\ rounds[r] \in Nat /\ probing[r] <= Len(Targets[r])
      /\ MaxRounds \in Nat
  <2>1. /\ taken[r] \in Seq(Nodes) /\ Len(taken[r]) \in Nat /\ probing[r] \in Nat /\ rounds[r] \in Nat
        /\ MaxRounds \in Nat
    BY <1>1, RolloutAssumption DEF TypeOK
  <2>2. next[r] \in Nat /\ next[r] <= Len(Targets[r]) /\ Len(Targets[r]) \in Nat BY Measure
  <2>3. Again(r) \in Nat /\ Ahead(r) \in Nat BY <1>2, AheadIsMore, Measure DEF Again
  <2>4. probing[r] <= Len(taken[r]) /\ Len(taken[r]) <= next[r] BY <1>2 DEF Paced
  <2> QED BY <2>1, <2>2, <2>3, <2>4
<1>4. /\ Left(r) = Ahead(r) + Again(r) + Len(Targets[r]) - probing[r] + 1
      /\ Ahead(r)' = Ahead(r)
  BY <1>2, LeftParts DEF Ahead, Observation
<1>5. CASE pc'[r] = "ended"
  <2>1. Left(r)' = 0 BY <1>5, LeftParts
  <2>2. Left(r)' < Left(r) BY <1>3, <1>4, <2>1
  <2>3. Paced(r)' BY <1>2, <1>5 DEF Paced
  <2> QED BY <2>2, <2>3
<1>6. CASE pc'[r] = "rolling"
  <2>1. Left(r)' = Ahead(r) BY <1>4, <1>6, LeftParts
  <2>2. Left(r)' < Left(r) BY <1>3, <1>4, <2>1
  <2>3. Paced(r)' BY <1>2, <1>6 DEF Paced
  <2> QED BY <2>2, <2>3
<1>7. CASE rounds[r] + 1 < MaxRounds /\ rounds'[r] = rounds[r] + 1 /\ pc'[r] = "observing"
  <2> DEFINE a == MaxRounds - rounds[r] - 1
             w == Len(Targets[r]) + 1
  <2>1. a \in Nat /\ a > 0 /\ w \in Nat /\ MaxRounds - rounds'[r] - 1 = a - 1 BY <1>3, <1>7
  <2>2. Again(r) = a * w /\ Again(r)' = (a - 1) * w BY <2>1 DEF Again
  <2>3. w = Len(Targets[r]) + 1 OBVIOUS
  <2> HIDE DEF a, w
  <2>4. Again(r)' = Again(r) - w BY <2>1, <2>2, Products
  <2>5. Left(r)' = Ahead(r) + Again(r)' + Len(Targets[r]) - 0 + 1 BY <1>2, <1>4, <1>7, LeftParts
  <2>6. Left(r)' < Left(r) BY <1>3, <1>4, <2>3, <2>4, <2>5
  <2>7. probing'[r] <= Len(taken[r]) /\ rounds'[r] < MaxRounds BY <1>2, <1>3, <1>7
  <2> QED BY <1>2, <1>7, <2>6, <2>7 DEF Paced
<1> QED BY <1>2, <1>5, <1>6, <1>7

LEMMA UndoIsNearer ==
    ASSUME IInv, NEW r \in Rollouts, Paced(r), Undo(r)
    PROVE  Paced(r)' /\ Left(r)' < Left(r)
<1>1. TypeOK BY DEF IInv
<1>2. PICK n0 \in ToUndo(r) :
          \E what \in {"rolled-back", "rollback-failed"} : state' = [state EXCEPT ![r][n0] = what]
  BY DEF Undo, Note
<1>3. pc[r] = "undoing" /\ UNCHANGED <<next, taken, pc>> BY DEF Undo
<1>4. n0 \in Nodes /\ n0 \in ToPutBack(r)
  <2>1. PICK i \in DOMAIN taken[r] : taken[r][i] = n0 BY DEF ToUndo
  <2> QED BY <2>1 DEF ToUndo, ToPutBack, ToSet
<1>5. ToPutBack(r)' = ToPutBack(r) \ {n0}
  <2>1. ToSet(taken[r]) \subseteq Nodes BY <1>1 DEF TypeOK, ToSet
  <2>2. \A n \in Nodes : state'[r][n] = "deployed" <=> state[r][n] = "deployed" /\ n # n0
    BY <1>1, <1>2, <1>4 DEF TypeOK
  <2> QED BY <1>3, <2>1, <2>2 DEF ToPutBack
<1>6. IsFiniteSet(ToPutBack(r)) /\ Cardinality(ToPutBack(r)) \in Nat BY Measure
<1>7. Cardinality(ToPutBack(r) \ {n0}) = Cardinality(ToPutBack(r)) - 1
  BY <1>4, <1>6, FS_RemoveElement
<1>8. Left(r) = 1 + Cardinality(ToPutBack(r)) /\ Left(r)' = 1 + Cardinality(ToPutBack(r))'
  BY <1>3, LeftParts
<1>9. Left(r)' < Left(r) BY <1>5, <1>6, <1>7, <1>8
<1> QED BY <1>3, <1>9 DEF Paced

LEMMA EndIsNearer ==
    ASSUME IInv, NEW r \in Rollouts, Paced(r), Finish(r) \/ Crash(r)
    PROVE  Paced(r)' /\ Left(r)' < Left(r)
<1>1. TypeOK BY DEF IInv
<1>2. pc[r] # "ended" /\ pc'[r] = "ended" /\ UNCHANGED <<next, taken>>
  BY <1>1 DEF Finish, Crash, GoTo, TypeOK
<1>3. Left(r)' = 0 /\ Left(r) \in Nat \ {0} BY <1>2, LeftParts, AheadIsMore
<1> QED BY <1>2, <1>3 DEF Paced

LEMMA OwnIsNearer ==
    ASSUME IInv, NEW r \in Rollouts, Paced(r), Rollout(r) \/ Crash(r)
    PROVE  Paced(r)' /\ Left(r)' < Left(r)
BY AskIsNearer, AnswerIsNearer, NoAnswerIsNearer, ProbeIsNearer, RoundIsNearer, UndoIsNearer,
   EndIsNearer DEF Rollout

\* What of a rollout nobody touches is as far as it was.
LEMMA OthersKeepPace ==
    ASSUME NEW r \in Rollouts, Own(r)' = Own(r)
    PROVE  Left(r)' = Left(r) /\ (Paced(r) => Paced(r)')
<1>1. /\ pc'[r] = pc[r] /\ next'[r] = next[r] /\ taken'[r] = taken[r] /\ probing'[r] = probing[r]
      /\ rounds'[r] = rounds[r] /\ state'[r] = state[r]
  BY DEF Own
<1>2. ToPutBack(r)' = ToPutBack(r) BY <1>1 DEF ToPutBack
<1>3. Left(r)' = Left(r) BY <1>1, <1>2, Zenon DEF Left, Observation
<1> QED BY <1>1, <1>3 DEF Paced

PaceInv == \A r \in Rollouts : Paced(r)
LeftIsNat == \A r \in Rollouts : Left(r) \in Nat

LEMMA Counted == IInv /\ PaceInv => LeftIsNat
<1> SUFFICES ASSUME IInv, PaceInv, NEW r \in Rollouts PROVE Left(r) \in Nat BY DEF LeftIsNat
<1> QED BY AheadIsMore, LeftParts DEF PaceInv

LEMMA NextPaced == IInv /\ PaceInv /\ [Next]_vars => PaceInv'
<1> SUFFICES ASSUME IInv, PaceInv, [Next]_vars, NEW r \in Rollouts PROVE Paced(r)' BY DEF PaceInv
<1> QED BY OneMoves, OwnIsNearer, OthersKeepPace DEF IInv, PaceInv

LEMMA NextNearer ==
    ASSUME IInv, PaceInv, LeftIsNat, LeftIsNat', [Next]_vars, NEW r \in Rollouts
    PROVE  Left(r)' <= Left(r) /\ (Own(r)' # Own(r) => Left(r)' < Left(r))
<1>1. TypeOK /\ Paced(r) /\ Left(r) \in Nat /\ Left(r)' \in Nat BY DEF IInv, PaceInv, LeftIsNat
<1>2. CASE Rollout(r) \/ Crash(r)
  <2>1. Left(r)' < Left(r) BY <1>1, <1>2, OwnIsNearer
  <2> QED BY <1>1, <2>1
<1>3. CASE Own(r)' = Own(r) BY <1>1, <1>3, OthersKeepPace
<1> QED BY <1>1, <1>2, <1>3, OneMoves

LEMMA PaceInvariance == Spec => []PaceInv
<1>1. Init => PaceInv BY RolloutAssumption DEF Init, PaceInv, Paced
<1> QED BY <1>1, NextPaced, Invariance, PTL DEF Spec

\* A rollout that waits has an answer, or the node is still at it, or answers may be lost.
NeverStuck ==
    \A r \in Rollouts :
        pc[r] = "waiting" => answer[r] # "none" \/ <<r, Asked(r)>> \in deploying \/ Can("lost")

LEMMA NextNeverStuck == IInv /\ NeverStuck /\ [Next]_vars => NeverStuck'
<1> SUFFICES ASSUME IInv, NeverStuck, [Next]_vars, NEW q \in Rollouts, pc'[q] = "waiting", ~Can("lost")
             PROVE  answer'[q] # "none" \/ <<q, Asked(q)'>> \in deploying'
  BY DEF NeverStuck, Can
<1>1. TypeOK /\ Progress(q) BY DEF IInv, Whole
<1>2. CASE UNCHANGED vars
  BY <1>2 DEF vars, fleet, control, NeverStuck, Asked
<1>3. ASSUME NEW r \in Rollouts, NEW n \in Nodes, Edge(r, n)
      PROVE  answer'[q] # "none" \/ <<q, Asked(q)'>> \in deploying'
  <2>1. /\ deploying' = deploying \ {<<r, n>>} /\ UNCHANGED <<control, pc>>
        /\ Answers(r, "promoted") \/ Answers(r, "refused")
    BY <1>3 DEF Edge, EdgePromotes, EdgeRefuses, EdgeFailsLate
  <2>2. Asked(q)' = Asked(q) /\ pc[q] = "waiting" BY <2>1 DEF Asked, control
  <2>3. CASE r = q
    <3>1. answer'[q] # "none" BY <1>1, <2>1, <2>2, <2>3 DEF Answers, TypeOK
    <3> QED BY <3>1
  <2>4. CASE r # q
    <3>1. answer'[q] = answer[q] BY <1>1, <2>1, <2>4 DEF Answers, TypeOK
    <3> QED BY <2>1, <2>2, <2>4, <3>1 DEF NeverStuck
  <2> QED BY <2>3, <2>4
<1>4. ASSUME NEW r \in Rollouts \ {q}, Rollout(r) \/ Crash(r)
      PROVE  answer'[q] # "none" \/ <<q, Asked(q)'>> \in deploying'
  <2>1. deploying \subseteq deploying' /\ answer'[q] = answer[q]
    BY <1>1, <1>4 DEF Rollout, AskDeploy, TakeAnswer, NoAnswer, Probe, RoundEnds, Undo, Finish,
                      Crash, fleet, TypeOK
  <2>2. pc'[q] = pc[q] /\ next'[q] = next[q]
    BY <1>1, <1>4 DEF Rollout, AskDeploy, TakeAnswer, Deployed, Refused, NoAnswer, Probe,
                      RoundEnds, Undo, Finish, Crash, GoTo, Problem, TypeOK
  <2> QED BY <2>1, <2>2 DEF NeverStuck, Asked
<1>5. ASSUME Rollout(q) \/ Crash(q)
      PROVE  answer'[q] # "none" \/ <<q, Asked(q)'>> \in deploying'
  <2>1. AskDeploy(q)
    BY <1>1, <1>5 DEF Rollout, TakeAnswer, Deployed, Refused, NoAnswer, Probe, RoundEnds, Undo,
                      Finish, Crash, GoTo, Problem, TypeOK
  <2>2. deploying' = deploying \cup {<<q, Targets[q][next[q] + 1]>>} BY <2>1 DEF AskDeploy, Can
  <2>3. Asked(q)' = Targets[q][next[q] + 1] BY <1>1, <2>1 DEF AskDeploy, Asked, TypeOK
  <2> QED BY <2>2, <2>3
<1> QED BY <1>2, <1>3, <1>4, <1>5 DEF Next

-----------------------------------------------------------------------------
\* Every variable of a rollout and of a node stays in its range: no target is asked beyond
\* the list, and no node that is put back has had nothing set aside.
THEOREM TypeCorrect == Spec => []TypeOK
<1>1. IInv => TypeOK BY DEF IInv
<1> QED BY <1>1, Invariance, PTL

\* A node that a rollout reports as rolled back has again what the rollout's deploy replaced,
\* unless others changed its checkout since.
THEOREM UndoRestores == Spec => []UndoneIsRestored
<1>1. IInv => UndoneIsRestored BY DEF IInv, Whole, Noted, Took, PlaceInv, InPlace, UndoneIsRestored
<1> QED BY <1>1, Invariance, PTL

\* Whatever faults there are and however many rollouts overlap, a change that is left on a
\* node, or may still get there, is reported by a rollout that did not promote it.
THEOREM NothingHidden == Spec => []LeftIsReported
<1>1. ASSUME IInv, NEW r \in Rollouts, NEW n \in Nodes,
             outcome[r] \in {"rolled-back", "aborted", "rollback-incomplete"},
             live[n] = r \/ <<r, n>> \in deploying, <<r, n>> \notin foreign \cup late
      PROVE  /\ state[r][n] \in {"unknown", "rollback-failed"}
             /\ outcome[r] # "rolled-back"
  <2>1. Progress(r) /\ Told(r) /\ AtIt(r, n) /\ Accounted(r, n) BY <1>1 DEF IInv, Whole, PlaceInv
  <2>2. state[r][n] # "deployed" /\ pc[r] # "waiting" BY <1>1, <2>1 DEF Told, Progress
  <2>3. state[r][n] \in {"unknown", "rollback-failed"}
    BY <1>1, <2>1, <2>2 DEF AtIt, Accounted, Has
  <2>4. Incomplete(r) BY <2>3 DEF Incomplete
  <2> QED BY <1>1, <2>1, <2>3, <2>4 DEF Told
<1>2. IInv => LeftIsReported BY <1>1 DEF LeftIsReported
<1> QED BY <1>2, Invariance, PTL

\* With one failed probe being enough, no node of a later wave is asked before every node of
\* the earlier ones took the change and was probed well, for any sizes of the canary and of
\* the waves.
THEOREM FewFirst == Spec => []WatchedFirst
<1>1. IInv => WatchedFirst BY DEF IInv, Whole, WaveInv, WatchedFirst
<1> QED BY <1>1, Invariance, PTL

\* "The edge answered with a refusal: nothing changed" is true of every node whose deploy had
\* not begun to move the checkouts, whatever else fails and however the rollouts overlap.
THEOREM RefusedOnlyLate == Spec => []RefusedButLate
BY RefusedParts, Invariance, GoneInvariance, PTL

\* So the sentence holds as it stands wherever no deploy fails after its first move: the fault
\* that run v_refused_unchanged has is the only one that breaks it.
THEOREM RefusalIsHarmless == "late" \notin Faults => (Spec => []RefusedIsUnchanged)
<1> SUFFICES ASSUME "late" \notin Faults PROVE Spec => []RefusedIsUnchanged OBVIOUS
<1>1. IInv /\ GoneInv => RefusedIsUnchanged
  <2>1. GoneInv => late = {} BY DEF GoneInv, Can
  <2> QED BY <2>1, RefusedParts DEF RefusedButLate, RefusedIsUnchanged
<1> QED BY <1>1, Invariance, GoneInvariance, PTL

\* Every step of a rollout takes it nearer to its end, and no step of a node or of another
\* rollout takes it away from it; what is left is a natural number, so that with any number of
\* nodes a rollout takes only so many steps.
THEOREM RolloutsComeToAnEnd == Spec => []LeftIsNat /\ ComesToAnEnd
<1>1. IInv /\ PaceInv /\ LeftIsNat /\ LeftIsNat' /\ [Next]_vars =>
          [\A r \in Rollouts : Left(r)' <= Left(r) /\ (Own(r)' # Own(r) => Left(r)' < Left(r))]_vars
  BY NextNearer
<1> QED BY <1>1, Counted, Invariance, PaceInvariance, PTL DEF Spec, ComesToAnEnd

\* And as long as a rollout waits there is something to wait for: no request is forgotten,
\* unless answers may be lost, when the timeout of the request ends it.
THEOREM NoRequestForgotten == Spec => []NeverStuck
<1>1. Init => NeverStuck BY DEF Init, NeverStuck
<1> QED BY <1>1, NextNeverStuck, Invariance, PTL DEF Spec
=============================================================================
