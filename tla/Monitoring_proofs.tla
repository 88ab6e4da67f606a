-------------------------- MODULE Monitoring_proofs --------------------------
(***************************************************************************)
(* What holds of the incident store for any collectors, bridges, checks,   *)
(* nodes and sizes, with kills and lock timeouts anywhere.                 *)
(***************************************************************************)
EXTENDS Monitoring, FiniteSetTheorems, WellFoundedInduction, TLAPS

-----------------------------------------------------------------------------
(* Numbers and finite sets.                                                *)

LEMMA LeastMember ==
    ASSUME NEW S \in SUBSET Nat, S # {}
    PROVE  \E k \in S : \A m \in S : k <= m
<1> DEFINE less == OpToRel(<, Nat)
<1>1. IsWellFoundedOn(less, Nat) BY NatLessThanWellFounded
<1>2. \A x, y \in Nat : <<x, y>> \in less <=> x < y BY DEF OpToRel
<1> HIDE DEF less
<1>3. PICK k \in S : \A m \in S : <<m, k>> \notin less BY <1>1, WFMin, Zenon
<1>4. \A m \in S : m \in Nat /\ k \in Nat /\ ~(m < k) BY <1>2, <1>3
<1>5. \A m \in S : k <= m BY <1>4
<1> QED BY <1>5

LEMMA GreatestMember ==
    ASSUME NEW S \in SUBSET Nat, S # {}, NEW b \in Nat, \A s \in S : s <= b
    PROVE  Max(S) \in S /\ \A s \in S : s <= Max(S)
<1> DEFINE below == {b - s : s \in S}
<1>1. below \in SUBSET Nat /\ below # {}
  <2>1. \A s \in S : b - s \in Nat OBVIOUS
  <2> QED BY <2>1
<1>2. PICK k \in below : \A m \in below : k <= m BY <1>1, LeastMember
<1>3. PICK g \in S : k = b - g BY <1>2
<1>4. \A s \in S : g >= s BY <1>2, <1>3
<1> QED BY <1>3, <1>4 DEF Max

\* What a function makes of a finite set is finite.
LEMMA FiniteImage ==
    ASSUME NEW S, IsFiniteSet(S), NEW f
    PROVE  IsFiniteSet({f[x] : x \in S})
<1> DEFINE T == {f[x] : x \in S}
           g == [x \in S |-> f[x]]
<1>1. g \in Surjection(S, T) BY DEF Surjection
<1> HIDE DEF g
<1>2. IsFiniteSet(T) BY <1>1, FS_Surjection
<1> QED BY <1>2

\* The place of i among the members of S.
RankIn(S, i) == Cardinality({j \in S : j <= i})

\* The members of a finite set of numbers are its first, its second, and so on to its last.
LEMMA Ranks ==
    ASSUME NEW S \in SUBSET Nat, IsFiniteSet(S)
    PROVE  /\ Cardinality(S) \in Nat
           /\ \A i \in S : RankIn(S, i) \in 1..Cardinality(S)
           /\ \A i, j \in S : RankIn(S, i) = RankIn(S, j) => i = j
           /\ \A n \in 1..Cardinality(S) : \E i \in S : RankIn(S, i) = n
<1> DEFINE upTo(i) == {j \in S : j <= i}
<1>1. Cardinality(S) \in Nat BY FS_CardinalityType
<1>2. ASSUME NEW i \in S PROVE IsFiniteSet(upTo(i)) /\ Cardinality(upTo(i)) \in 1..Cardinality(S)
  <2>1. upTo(i) \in SUBSET S /\ i \in upTo(i) OBVIOUS
  <2>2. IsFiniteSet(upTo(i)) /\ Cardinality(upTo(i)) <= Cardinality(S) BY <2>1, FS_Subset
  <2>3. Cardinality(upTo(i)) \in Nat BY <2>2, FS_CardinalityType
  <2>4. Cardinality(upTo(i)) # 0 BY <2>1, <2>2, FS_EmptySet
  <2> QED BY <1>1, <2>2, <2>3, <2>4
<1>3. ASSUME NEW i \in S, NEW j \in S, i < j PROVE Cardinality(upTo(i)) < Cardinality(upTo(j))
  <2>0. \A x \in S : x <= i => x <= j
    <3>1. \A x \in S : x \in Nat /\ i \in Nat /\ j \in Nat OBVIOUS
    <3> QED BY <1>3, <3>1
  <2>1. upTo(i) \in SUBSET upTo(j) /\ j \in upTo(j) /\ j \notin upTo(i)
    <3>1. i \in Nat /\ j \in Nat /\ j <= j /\ ~(j <= i) BY <1>3
    <3> QED BY <2>0, <3>1
  <2>2. IsFiniteSet(upTo(j)) /\ Cardinality(upTo(i)) \in Nat /\ Cardinality(upTo(j)) \in Nat BY <1>2
  <2>3. Cardinality(upTo(i)) <= Cardinality(upTo(j)) BY <2>1, <2>2, FS_Subset
  <2>4. Cardinality(upTo(i)) # Cardinality(upTo(j)) BY <2>1, <2>2, FS_Subset
  <2> QED BY <2>2, <2>3, <2>4
<1>4. \A i \in S : RankIn(S, i) = Cardinality(upTo(i)) BY DEF RankIn
<1> HIDE DEF upTo
<1>5. \A i \in S : RankIn(S, i) \in 1..Cardinality(S) BY <1>2, <1>4
<1>6. \A i, j \in S : RankIn(S, i) = RankIn(S, j) => i = j
  <2> SUFFICES ASSUME NEW i \in S, NEW j \in S, RankIn(S, i) = RankIn(S, j), i # j PROVE FALSE
    OBVIOUS
  <2>1. i < j \/ j < i OBVIOUS
  <2>2. Cardinality(upTo(i)) \in Nat /\ Cardinality(upTo(j)) \in Nat BY <1>2
  <2> QED BY <1>3, <1>4, <2>1, <2>2
<1> DEFINE rank == [i \in S |-> RankIn(S, i)]
<1>7. rank \in Injection(S, 1..Cardinality(S))
  <2>1. rank \in [S -> 1..Cardinality(S)] BY <1>5
  <2>2. \A i, j \in S : rank[i] = rank[j] => i = j BY <1>6
  <2> QED BY <2>1, <2>2 DEF Injection, IsInjective
<1>8. IsFiniteSet(1..Cardinality(S)) /\ Cardinality(1..Cardinality(S)) = Cardinality(S)
  BY <1>1, FS_Interval
<1> HIDE DEF rank
<1>9. rank \in Surjection(S, 1..Cardinality(S)) BY <1>7, <1>8, FS_Injection
<1>10. \A n \in 1..Cardinality(S) : \E i \in S : rank[i] = n BY <1>9 DEF Surjection
<1> QED BY <1>1, <1>5, <1>6, <1>10 DEF rank

\* The same of things that are told apart by a number.
Ranked(S, f) ==
    LET place(x) == Cardinality({q \in S : f[q] <= f[x]})
    IN  /\ Cardinality(S) \in Nat
        /\ \A x \in S : place(x) \in 1..Cardinality(S)
        /\ \A x, y \in S : place(x) = place(y) => x = y
        /\ \A n \in 1..Cardinality(S) : \E x \in S : place(x) = n

LEMMA RanksBy ==
    ASSUME NEW S, IsFiniteSet(S), NEW f, \A x \in S : f[x] \in Nat,
           \A x, y \in S : f[x] = f[y] => x = y
    PROVE  Ranked(S, f)
<1> DEFINE T == {f[x] : x \in S}
           upTo(x) == {q \in S : f[q] <= f[x]}
<1>1. IsFiniteSet(T) /\ T \in SUBSET Nat BY FiniteImage
<1>2. Cardinality(T) = Cardinality(S)
  <2> DEFINE g == [x \in S |-> f[x]]
  <2>1. g \in Bijection(S, T) BY DEF Bijection, Injection, Surjection, IsInjective
  <2> HIDE DEF g, T
  <2> QED BY <2>1, FS_Bijection DEF ExistsBijection
<1>3. ASSUME NEW x \in S PROVE Cardinality(upTo(x)) = RankIn(T, f[x])
  <2> DEFINE low == {j \in T : j <= f[x]}
             g == [q \in upTo(x) |-> f[q]]
  <2>1. g \in Bijection(upTo(x), low) BY DEF Bijection, Injection, Surjection, IsInjective
  <2>2. upTo(x) \in SUBSET S OBVIOUS
  <2>3. IsFiniteSet(upTo(x)) BY <2>2, FS_Subset
  <2> HIDE DEF g, upTo, low, T
  <2>4. Cardinality(upTo(x)) = Cardinality(low) BY <2>1, <2>3, FS_Bijection DEF ExistsBijection
  <2> QED BY <2>4 DEF RankIn, low
<1>4. \A x \in S : f[x] \in T OBVIOUS
<1>5. \A i \in T : \E x \in S : f[x] = i OBVIOUS
<1>6. \A x, y \in S : f[x] = f[y] => x = y OBVIOUS
<1>7. /\ Cardinality(T) \in Nat
      /\ \A i \in T : RankIn(T, i) \in 1..Cardinality(T)
      /\ \A i, j \in T : RankIn(T, i) = RankIn(T, j) => i = j
      /\ \A n \in 1..Cardinality(T) : \E i \in T : RankIn(T, i) = n
  <2> HIDE DEF T
  <2> QED BY <1>1, Ranks
<1> HIDE DEF T
<1>8. \A x \in S : Cardinality(upTo(x)) \in 1..Cardinality(S) BY <1>2, <1>3, <1>4, <1>7
<1>9. \A x, y \in S : Cardinality(upTo(x)) = Cardinality(upTo(y)) => x = y
  <2> SUFFICES ASSUME NEW x \in S, NEW y \in S, Cardinality(upTo(x)) = Cardinality(upTo(y))
               PROVE  x = y
    OBVIOUS
  <2>1. RankIn(T, f[x]) = RankIn(T, f[y]) BY <1>3
  <2> QED BY <1>4, <1>6, <1>7, <2>1
<1>10. \A n \in 1..Cardinality(S) : \E x \in S : Cardinality(upTo(x)) = n
  <2> SUFFICES ASSUME NEW n \in 1..Cardinality(S) PROVE \E x \in S : Cardinality(upTo(x)) = n
    OBVIOUS
  <2>1. PICK i \in T : RankIn(T, i) = n BY <1>2, <1>7
  <2>2. PICK x \in S : f[x] = i BY <1>5
  <2> QED BY <1>3, <2>1, <2>2
<1> QED BY <1>2, <1>7, <1>8, <1>9, <1>10 DEF Ranked

-----------------------------------------------------------------------------
(* A store.                                                                *)

\* Each name is kept as it is stored, and belongs to one open incident at the most; each
\* identity is in use once, none is later than `newest', and nothing closed after t; each
\* place in the history is taken once.
WellKept(s, newest, t) ==
    /\ s \in Stores /\ IsFiniteSet(s.open) /\ IsFiniteSet(s.closed)
    /\ \A r \in s.open : r.id \in 1..newest /\ Redact[r.component] = r.component
    /\ \A q, r \in s.open : q.id = r.id \/ q.component = r.component => q = r
    /\ \A r \in s.closed : r.id \in 1..newest /\ r.at <= t
    /\ \A q \in s.open, r \in s.closed : q.id # r.id
    /\ \A q, r \in s.closed : q.nth = r.nth => q = r
    /\ \E b \in Nat : \A r \in s.closed : r.nth <= b

\* New incidents, each with an identity of its own that nobody has used.
NewBatch(new, newest, bound) ==
    /\ \E m \in Nat : DOMAIN new = 1..m
    /\ \A i \in DOMAIN new : new[i].id \in (newest + 1)..bound /\ new[i].component \in Names
    /\ \A i, j \in DOMAIN new : new[i].id = new[j].id => i = j

Alike(q, r) == q.id = r.id /\ q.component = r.component

LEMMA Counts == \A n \in 1..MaxCount : Counted(n) \in 1..MaxCount
BY StoreAssumption DEF Counted

\* The parts of Reconcile.
Seen(new) == {Key(new[i].component) : i \in DOMAIN new}
LookedAt(checked) == {Key(c) : c \in checked}
First(new) == {new[i] : i \in {i \in DOMAIN new :
                   \A j \in 1..(i - 1) : Key(new[j].component) # Key(new[i].component)}}
Again(s, new) == {r \in s.open : Key(r.component) \in Seen(new)}
Closing(s, new, checked) == {r \in s.open : Key(r.component) \in LookedAt(checked) \ Seen(new)}
Opening(s, new) == {n \in First(new) : Key(n.component) \notin {Key(r.component) : r \in s.open}}
Recounted(s, new) == {[r EXCEPT !.count = Counted(@)] : r \in Again(s, new)}
Opened(s, new) == {[id |-> n.id, component |-> Redact[n.component], count |-> 1] : n \in Opening(s, new)}

LEMMA ReconcileParts ==
    ASSUME NEW s, NEW new, NEW checked, NEW t
    PROVE  /\ Reconcile(s, new, checked, t).open =
                 ((s.open \ Again(s, new)) \ Closing(s, new, checked))
                 \cup Recounted(s, new) \cup Opened(s, new)
           /\ Reconcile(s, new, checked, t).closed =
                 Newest(s.closed \cup ClosedAt(s.closed, Closing(s, new, checked), t))
BY DEF Reconcile, Seen, LookedAt, First, Again, Closing, Opening, Recounted, Opened

\* What opens is new: of a component that had no incident, with an identity nobody had.
OpenedAreNew(s, new, newest, bound) ==
    /\ Opened(s, new) \subseteq OpenRecords /\ IsFiniteSet(Opened(s, new))
    /\ \A r \in Opened(s, new) :
           /\ r.id \in (newest + 1)..bound /\ Redact[r.component] = r.component
           /\ r.component \in Seen(new)
           /\ \A q \in s.open : q.component # r.component
    /\ \A q, r \in Opened(s, new) : q.id = r.id \/ q.component = r.component => q = r

LEMMA NewOnes ==
    ASSUME NEW s, NEW newest \in Nat, NEW bound \in Nat, NEW t, NEW new,
           WellKept(s, newest, t), NewBatch(new, newest, bound)
    PROVE  OpenedAreNew(s, new, newest, bound)
<1>1. PICK m \in Nat : DOMAIN new = 1..m BY DEF NewBatch
<1>2. \A i \in DOMAIN new : new[i].id \in (newest + 1)..bound /\ new[i].component \in Names
  BY DEF NewBatch
<1> DEFINE firsts == {i \in DOMAIN new :
                         \A j \in 1..(i - 1) : Key(new[j].component) # Key(new[i].component)}
           record(n) == [id |-> n.id, component |-> Redact[n.component], count |-> 1]
<1>3. First(new) = {new[i] : i \in firsts} BY DEF First
<1>4. IsFiniteSet(First(new))
  <2>1. IsFiniteSet(DOMAIN new) BY <1>1, FS_Interval
  <2>2. IsFiniteSet(firsts) BY <2>1, FS_Subset
  <2> QED BY <1>3, <2>2, FiniteImage
<1>5. IsFiniteSet(Opened(s, new))
  <2>1. IsFiniteSet(Opening(s, new)) BY <1>4, FS_Subset DEF Opening
  <2> DEFINE f == [n \in Opening(s, new) |-> record(n)]
  <2>2. Opened(s, new) = {f[n] : n \in Opening(s, new)} BY DEF Opened
  <2> HIDE DEF f
  <2> QED BY <2>1, <2>2, FiniteImage
<1>6. ASSUME NEW r \in Opened(s, new)
      PROVE  \E i \in firsts : /\ r = record(new[i]) /\ new[i] \in Opening(s, new)
  BY <1>3 DEF Opened, Opening
<1>7. ASSUME NEW r \in Opened(s, new)
      PROVE  /\ r \in OpenRecords
             /\ r.id \in (newest + 1)..bound /\ Redact[r.component] = r.component
             /\ r.component \in Seen(new)
             /\ \A q \in s.open : q.component # r.component
  <2>1. PICK i \in firsts : r = record(new[i]) /\ new[i] \in Opening(s, new) BY <1>6
  <2>2. r.id = new[i].id /\ r.component = Redact[new[i].component] /\ r.count = 1 BY <2>1
  <2>3. Redact[r.component] = r.component /\ r.component \in Names
    BY <1>2, <2>2, RedactAssumption
  <2>4. r \in OpenRecords
    <3>1. 1 \in 1..MaxCount BY StoreAssumption
    <3>2. r.id \in Nat BY <1>2, <2>2
    <3> QED BY <2>1, <2>2, <2>3, <3>1, <3>2 DEF OpenRecords
  <2>5. r.component \in Seen(new) BY <2>2 DEF Seen, Key
  <2>6. \A q \in s.open : q.component # r.component
    BY <2>1, <2>2, <2>3 DEF Opening, Key
  <2> QED BY <1>2, <2>2, <2>3, <2>4, <2>5, <2>6
<1>8. ASSUME NEW q \in Opened(s, new), NEW r \in Opened(s, new), q.id = r.id \/ q.component = r.component
      PROVE  q = r
  <2>1. PICK i \in firsts : q = record(new[i]) BY <1>6
  <2>2. PICK j \in firsts : r = record(new[j]) BY <1>6
  <2>3. CASE q.id = r.id
    <3>1. new[i].id = new[j].id BY <2>1, <2>2, <2>3
    <3> QED BY <2>1, <2>2, <3>1 DEF NewBatch
  <2>4. CASE q.component = r.component
    <3>1. Key(new[i].component) = Key(new[j].component) BY <2>1, <2>2, <2>4 DEF Key
    <3>2. i \in 1..m /\ j \in 1..m BY <1>1
    <3>3. ~(i < j) /\ ~(j < i) BY <3>1, <3>2
    <3>4. i = j BY <3>2, <3>3
    <3> QED BY <2>1, <2>2, <3>4
  <2> QED BY <1>8, <2>3, <2>4
<1> QED BY <1>5, <1>7, <1>8 DEF OpenedAreNew

\* What stays open keeps its identity and its component.
LEMMA OldOnes ==
    ASSUME NEW s, NEW newest \in Nat, NEW t, NEW new, NEW checked, WellKept(s, newest, t)
    PROVE  LET left == (s.open \ Again(s, new)) \ Closing(s, new, checked)
               stay == left \cup Recounted(s, new)
           IN  /\ stay \subseteq OpenRecords /\ IsFiniteSet(stay)
               /\ \A r \in stay : \E q \in s.open \ Closing(s, new, checked) : Alike(q, r)
               /\ \A q, r \in stay : q.id = r.id \/ q.component = r.component => q = r
               /\ \A q \in s.open \ Closing(s, new, checked) : \E r \in stay : Alike(q, r)
<1> DEFINE left == (s.open \ Again(s, new)) \ Closing(s, new, checked)
           stay == left \cup Recounted(s, new)
           again(r) == [r EXCEPT !.count = Counted(@)]
<1>1. s.open \subseteq OpenRecords /\ IsFiniteSet(s.open) BY DEF WellKept, Stores
<1>2. Again(s, new) \subseteq s.open /\ Again(s, new) \cap Closing(s, new, checked) = {}
  BY DEF Again, Closing
<1>3. ASSUME NEW r \in Again(s, new)
      PROVE  again(r) \in OpenRecords /\ again(r).id = r.id /\ again(r).component = r.component
  <2>1. r \in OpenRecords BY <1>1, <1>2
  <2> QED BY <2>1, Counts DEF OpenRecords
<1>4. Recounted(s, new) = {again(r) : r \in Again(s, new)} BY DEF Recounted
<1>5. stay \subseteq OpenRecords BY <1>1, <1>3, <1>4
<1>6. IsFiniteSet(stay)
  <2>1. IsFiniteSet(left) BY <1>1, FS_Subset
  <2>2. IsFiniteSet(Again(s, new)) BY <1>1, <1>2, FS_Subset
  <2> DEFINE f == [r \in Again(s, new) |-> again(r)]
  <2>3. Recounted(s, new) = {f[r] : r \in Again(s, new)} BY <1>4
  <2> HIDE DEF f
  <2>4. IsFiniteSet(Recounted(s, new)) BY <2>2, <2>3, FiniteImage
  <2> QED BY <2>1, <2>4, FS_Union
<1>7. ASSUME NEW r \in stay
      PROVE  \E q \in s.open \ Closing(s, new, checked) :
                 /\ Alike(q, r) /\ r = IF q \in Again(s, new) THEN again(q) ELSE q
  <2>1. CASE r \in left BY <2>1 DEF Alike
  <2>2. CASE r \in Recounted(s, new)
    <3>1. PICK q \in Again(s, new) : r = again(q) BY <1>4, <2>2
    <3> QED BY <1>2, <1>3, <3>1 DEF Alike
  <2> QED BY <2>1, <2>2
<1>8. ASSUME NEW q \in stay, NEW r \in stay, q.id = r.id \/ q.component = r.component
      PROVE  q = r
  <2>1. PICK q0 \in s.open : Alike(q0, q) /\ q = IF q0 \in Again(s, new) THEN again(q0) ELSE q0
    BY <1>7
  <2>2. PICK r0 \in s.open : Alike(r0, r) /\ r = IF r0 \in Again(s, new) THEN again(r0) ELSE r0
    BY <1>7
  <2>3. q0.id = r0.id \/ q0.component = r0.component BY <1>8, <2>1, <2>2 DEF Alike
  <2>4. q0 = r0 BY <2>3 DEF WellKept
  <2> QED BY <2>1, <2>2, <2>4
<1>9. ASSUME NEW q \in s.open \ Closing(s, new, checked)
      PROVE  \E r \in stay : Alike(q, r)
  <2>1. CASE q \in Again(s, new) BY <1>3, <1>4, <2>1 DEF Alike
  <2>2. CASE q \notin Again(s, new) BY <2>2 DEF Alike
  <2> QED BY <2>1, <2>2
<1> QED BY <1>5, <1>6, <1>7, <1>8, <1>9

\* What closes goes behind what is in the history.
HistoryGrows(s, closing, newest, t) ==
    LET all == s.closed \cup ClosedAt(s.closed, closing, t)
    IN  /\ all \subseteq ClosedRecords /\ IsFiniteSet(all)
        /\ \A r \in all : /\ r.id \in 1..newest /\ r.at <= t
                          /\ r \in s.closed \/ \E q \in closing : r.id = q.id
        /\ \A q \in closing : \E r \in all : r.id = q.id /\ r.at = t
        /\ \A q, r \in all : q.nth = r.nth => q = r
        /\ \E b \in Nat : \A r \in all : r.nth <= b

LEMMA ClosedOnes ==
    ASSUME NEW s, NEW newest \in Nat, NEW t \in 0..MaxTime, NEW closing \in SUBSET s.open,
           WellKept(s, newest, t)
    PROVE  HistoryGrows(s, closing, newest, t)
<1> DEFINE nths == {0} \cup {r.nth : r \in s.closed}
           last0 == Max(nths)
           rank(r) == Cardinality({q \in closing : q.id <= r.id})
           record(r) == [id |-> r.id, component |-> r.component, at |-> t, nth |-> last0 + rank(r)]
           fresh == {record(r) : r \in closing}
<1>1. /\ s.open \subseteq OpenRecords /\ s.closed \subseteq ClosedRecords
      /\ IsFiniteSet(s.open) /\ IsFiniteSet(s.closed)
  BY DEF WellKept, Stores
<1>2. PICK b \in Nat : \A r \in s.closed : r.nth <= b BY DEF WellKept
<1>3. last0 \in Nat /\ last0 <= b /\ \A r \in s.closed : r.nth <= last0
  <2>1. nths \in SUBSET Nat /\ nths # {} /\ \A n \in nths : n <= b BY <1>1, <1>2 DEF ClosedRecords
  <2> HIDE DEF nths
  <2>2. last0 \in nths /\ \A n \in nths : n <= last0 BY <2>1, GreatestMember
  <2>3. \A r \in s.closed : r.nth \in nths BY DEF nths
  <2> QED BY <2>1, <2>2, <2>3
<1>4. IsFiniteSet(closing) /\ Cardinality(closing) \in Nat
  <2>1. IsFiniteSet(closing) BY <1>1, FS_Subset
  <2> QED BY <2>1, FS_CardinalityType
<1>5. /\ \A r \in closing : rank(r) \in 1..Cardinality(closing)
      /\ \A q, r \in closing : rank(q) = rank(r) => q = r
  <2> DEFINE f == [r \in closing |-> r.id]
  <2>1. \A r \in closing : f[r] = r.id /\ f[r] \in Nat BY <1>1 DEF OpenRecords
  <2>2. \A q, r \in closing : f[q] = f[r] => q = r BY <2>1 DEF WellKept
  <2>3. \A r \in closing : {q \in closing : f[q] <= f[r]} = {q \in closing : q.id <= r.id}
    BY <2>1
  <2> HIDE DEF f
  <2>4. Ranked(closing, f) BY <1>4, <2>1, <2>2, RanksBy
  <2>5. /\ \A x \in closing : Cardinality({q \in closing : f[q] <= f[x]}) \in 1..Cardinality(closing)
        /\ \A x, y \in closing : Cardinality({q \in closing : f[q] <= f[x]})
                               = Cardinality({q \in closing : f[q] <= f[y]}) => x = y
    BY <2>4 DEF Ranked
  <2>6. \A r \in closing : rank(r) = Cardinality({q \in closing : f[q] <= f[r]}) BY <2>3
  <2> HIDE DEF rank, nths, last0, record, fresh
  <2>7. \A r \in closing : rank(r) \in 1..Cardinality(closing) BY <2>5, <2>6
  <2>8. \A q, r \in closing : rank(q) = rank(r) => q = r BY <2>5, <2>6
  <2> QED BY <2>7, <2>8
<1>6. ClosedAt(s.closed, closing, t) = fresh BY DEF ClosedAt
<1> HIDE DEF nths, last0, rank
<1>7. ASSUME NEW r \in fresh
      PROVE  /\ r \in ClosedRecords /\ r.id \in 1..newest /\ r.at <= t
             /\ \E q \in closing : r.id = q.id
             /\ r.nth <= b + Cardinality(closing) /\ r.nth > last0
  <2>1. PICK q \in closing : r = record(q) OBVIOUS
  <2>2. q \in OpenRecords /\ q.id \in 1..newest BY <1>1 DEF WellKept
  <2>3. /\ last0 + rank(q) \in Nat /\ last0 + rank(q) <= b + Cardinality(closing)
        /\ last0 + rank(q) > last0
    BY <1>3, <1>4, <1>5
  <2>4. r \in ClosedRecords BY <2>1, <2>2, <2>3 DEF ClosedRecords, OpenRecords
  <2>5. t <= t OBVIOUS
  <2> QED BY <2>1, <2>2, <2>3, <2>4, <2>5
<1>8. IsFiniteSet(fresh)
  <2> DEFINE f == [r \in closing |-> record(r)]
  <2>1. fresh = {f[r] : r \in closing} OBVIOUS
  <2> HIDE DEF f, fresh
  <2> QED BY <1>4, <2>1, FiniteImage
<1>9. ASSUME NEW q \in closing PROVE \E r \in fresh : r.id = q.id /\ r.at = t
  <2>1. record(q) \in fresh /\ record(q).id = q.id /\ record(q).at = t OBVIOUS
  <2> QED BY <2>1
<1>9a. \A q, r \in fresh : q.nth = r.nth => q = r
  <2> SUFFICES ASSUME NEW x \in closing, NEW y \in closing, record(x).nth = record(y).nth
               PROVE  record(x) = record(y)
    OBVIOUS
  <2>1. rank(x) = rank(y) BY <1>3, <1>5
  <2> QED BY <1>5, <2>1
<1> HIDE DEF fresh
<1>9b. \A q, r \in s.closed \cup fresh : q.nth = r.nth => q = r
  <2>1. \A q, r \in s.closed : q.nth = r.nth => q = r BY DEF WellKept
  <2>2. \A r \in s.closed : r.nth \in Nat /\ r.nth <= last0 BY <1>1, <1>3 DEF ClosedRecords
  <2> QED BY <1>3, <1>7, <1>9a, <2>1, <2>2
<1>10. IsFiniteSet(s.closed \cup fresh) BY <1>1, <1>8, FS_Union
<1>11. \A r \in s.closed \cup fresh : r.nth <= b + Cardinality(closing)
  <2>1. \A r \in s.closed : r.nth \in Nat BY <1>1 DEF ClosedRecords
  <2> QED BY <1>2, <1>4, <1>7, <2>1
<1>12. b + Cardinality(closing) \in Nat BY <1>4
<1>13. \A r \in s.closed : r.id \in 1..newest /\ r.at <= t BY DEF WellKept
<1> QED BY <1>1, <1>6, <1>7, <1>9, <1>9b, <1>10, <1>11, <1>12, <1>13 DEF HistoryGrows

\* Of the history, the newest that closed at time t stay, or as many of them as it holds.
LEMMA CutKeeps ==
    ASSUME NEW S \in SUBSET ClosedRecords, IsFiniteSet(S), NEW t \in Nat,
           \A x \in S : x.at <= t, NEW q \in S, q.at = t
    PROVE  q \in Newest(S) \/ Cardinality({x \in Newest(S) : x.at = t}) >= History
<1> SUFFICES ASSUME q \notin Newest(S)
             PROVE  Cardinality({x \in Newest(S) : x.at = t}) >= History
  OBVIOUS
<1> DEFINE behind(r) == {x \in S : Later(x, r)}
           out == {r \in S : r.at = t /\ r \notin Newest(S)}
           sizes == {Cardinality(behind(r)) : r \in out}
<1>1. \A r \in S : r.at \in Nat /\ r.nth \in Nat BY DEF ClosedRecords
<1>2. ASSUME NEW r \in S PROVE IsFiniteSet(behind(r)) /\ Cardinality(behind(r)) \in Nat
  <2>1. behind(r) \in SUBSET S OBVIOUS
  <2>2. IsFiniteSet(behind(r)) BY <2>1, FS_Subset
  <2> QED BY <2>2, FS_CardinalityType
<1>3. sizes \in SUBSET Nat /\ sizes # {} BY <1>2
<1>4. PICK k \in sizes : \A m \in sizes : k <= m BY <1>3, LeastMember
<1>5. PICK r0 \in out : k = Cardinality(behind(r0)) BY <1>4
<1>6. r0 \in S /\ r0.at = t /\ r0 \notin Newest(S) OBVIOUS
<1>7. ASSUME NEW x \in behind(r0)
      PROVE  x \in Newest(S) /\ x.at = t
  <2>1. x \in S /\ Later(x, r0) OBVIOUS
  <2>2. x.at = t /\ x.nth > r0.nth BY <1>1, <1>6, <2>1 DEF Later
  <2>3. behind(x) \in SUBSET behind(r0)
    <3> SUFFICES ASSUME NEW y \in behind(x) PROVE y \in behind(r0) OBVIOUS
    <3>1. y \in S /\ Later(y, x) OBVIOUS
    <3> QED BY <1>1, <1>6, <2>1, <2>2, <3>1 DEF Later
  <2>4. x \notin behind(x) BY <1>1, <2>1 DEF Later
  <2>5. Cardinality(behind(x)) < Cardinality(behind(r0))
    <3>1. Cardinality(behind(x)) <= Cardinality(behind(r0)) BY <1>2, <1>6, <2>3, FS_Subset
    <3>2. behind(x) # behind(r0) BY <2>4
    <3>3. Cardinality(behind(x)) # Cardinality(behind(r0)) BY <1>2, <1>6, <2>3, <3>2, FS_Subset
    <3>4. Cardinality(behind(x)) \in Nat /\ Cardinality(behind(r0)) \in Nat BY <1>2, <1>6, <2>1
    <3> HIDE DEF behind
    <3> QED BY <3>1, <3>3, <3>4
  <2>6. x \notin out
    <3> SUFFICES ASSUME x \in out PROVE FALSE OBVIOUS
    <3>1. Cardinality(behind(x)) \in Nat /\ Cardinality(behind(r0)) \in Nat BY <1>2, <1>6, <2>1
    <3>2. Cardinality(behind(x)) \in sizes OBVIOUS
    <3>3. Cardinality(behind(r0)) <= Cardinality(behind(x)) BY <1>4, <1>5, <3>2
    <3> HIDE DEF behind, out, sizes
    <3> QED BY <2>5, <3>1, <3>3
  <2> QED BY <2>1, <2>2, <2>6
<1>8. ~(Cardinality(behind(r0)) < History) BY <1>6 DEF Newest
<1> DEFINE kept0 == {x \in Newest(S) : x.at = t}
<1>9. behind(r0) \in SUBSET kept0 BY <1>7
<1>10. kept0 \in SUBSET S BY DEF Newest
<1>11. IsFiniteSet(kept0) BY <1>10, FS_Subset
<1>12. Cardinality(behind(r0)) <= Cardinality(kept0) BY <1>9, <1>11, FS_Subset
<1>13. Cardinality(kept0) \in Nat /\ Cardinality(behind(r0)) \in Nat /\ History \in Nat
  BY <1>2, <1>6, <1>11, FS_CardinalityType, StoreAssumption
<1> QED BY <1>8, <1>12, <1>13

\* An incident of s is open in s2, or in its history with the time at which it closed, or so
\* many closed at that time that they fill the history.
Followed(r, s2, t) ==
    \/ \E q \in s2.open : Alike(q, r)
    \/ \E q \in s2.closed : q.id = r.id /\ q.at = t
    \/ Cardinality({q \in s2.closed : q.at = t}) >= History

\* Whatever is reconciled, the store stays well kept; an open incident is an old one, or one
\* of the new batch of a component that had none; and one that is not open any more was of
\* a component that was looked at and not observed.
Reconciled(s, newest, bound, new, checked, t) ==
    LET s2 == Reconcile(s, new, checked, t)
        filled == Cardinality({q \in s2.closed : q.at = t}) >= History
    IN  /\ WellKept(s2, bound, t)
        /\ \A r \in s2.open : \/ \E q \in s.open : Alike(q, r)
                              \/ r.id \in (newest + 1)..bound /\ r.component \in Seen(new)
        /\ \A q \in s.open : q \in Closing(s, new, checked) \/ \E r \in s2.open : Alike(q, r)
        /\ \A r \in Closing(s, new, checked) :
               (\E q \in s2.closed : q.id = r.id /\ q.at = t) \/ filled
        /\ \A r \in s.closed : r.at = t => r \in s2.closed \/ filled

LEMMA ReconcileKeeps ==
    ASSUME NEW s, NEW newest \in Nat, NEW bound \in Nat, newest <= bound,
           NEW t \in 0..MaxTime, NEW new, NEW checked,
           WellKept(s, newest, t), NewBatch(new, newest, bound)
    PROVE  Reconciled(s, newest, bound, new, checked, t)
<1>0a. OpenedAreNew(s, new, newest, bound) BY NewOnes
<1>0. /\ Opened(s, new) \subseteq OpenRecords /\ IsFiniteSet(Opened(s, new))
      /\ \A r \in Opened(s, new) :
             /\ r.id \in (newest + 1)..bound /\ Redact[r.component] = r.component
             /\ r.component \in Seen(new)
             /\ \A q \in s.open : q.component # r.component
      /\ \A q, r \in Opened(s, new) : q.id = r.id \/ q.component = r.component => q = r
  BY <1>0a DEF OpenedAreNew
<1> DEFINE s2 == Reconcile(s, new, checked, t)
           closing == Closing(s, new, checked)
           left == (s.open \ Again(s, new)) \ closing
           stay == left \cup Recounted(s, new)
           all == s.closed \cup ClosedAt(s.closed, closing, t)
<1>1. s2.open = stay \cup Opened(s, new) /\ s2.closed = Newest(all) BY ReconcileParts
<1>2. /\ stay \subseteq OpenRecords /\ IsFiniteSet(stay)
      /\ \A r \in stay : \E q \in s.open \ closing : Alike(q, r)
      /\ \A q, r \in stay : q.id = r.id \/ q.component = r.component => q = r
      /\ \A q \in s.open \ closing : \E r \in stay : Alike(q, r)
  BY OldOnes
<1>4. closing \in SUBSET s.open BY DEF Closing
<1>5. /\ all \subseteq ClosedRecords /\ IsFiniteSet(all)
      /\ \A r \in all : /\ r.id \in 1..newest /\ r.at <= t
                        /\ r \in s.closed \/ \E q \in closing : r.id = q.id
      /\ \A q \in closing : \E r \in all : r.id = q.id /\ r.at = t
      /\ \A q, r \in all : q.nth = r.nth => q = r
      /\ \E b \in Nat : \A r \in all : r.nth <= b
  <2>1. HistoryGrows(s, closing, newest, t) BY <1>4, ClosedOnes
  <2> QED BY <2>1 DEF HistoryGrows
<1>6. /\ \A r \in s.open : r.id \in 1..newest /\ Redact[r.component] = r.component
      /\ \A q, r \in s.open : q.id = r.id \/ q.component = r.component => q = r
      /\ \A q \in s.open, r \in s.closed : q.id # r.id
  BY DEF WellKept
<1>7. s.closed \subseteq all OBVIOUS
<1>8. s2 = [open |-> s2.open, closed |-> s2.closed] BY DEF Reconcile
<1> HIDE DEF s2, closing, left, stay, all
<1>9. Newest(all) \subseteq all BY DEF Newest
<1>10. s2 \in Stores
  <2>1. s2.open \subseteq OpenRecords /\ s2.closed \subseteq ClosedRecords
    BY <1>1, <1>2, <1>0, <1>5, <1>9
  <2> QED BY <1>8, <2>1 DEF Stores
<1>11. IsFiniteSet(s2.open) /\ IsFiniteSet(s2.closed)
  <2>1. IsFiniteSet(stay \cup Opened(s, new)) BY <1>2, <1>0, FS_Union
  <2>2. IsFiniteSet(Newest(all)) BY <1>5, <1>9, FS_Subset
  <2> QED BY <1>1, <2>1, <2>2
<1>12. \A r \in stay : r.id \in 1..newest /\ Redact[r.component] = r.component
  BY <1>2, <1>6 DEF Alike
<1>13. \A r \in s2.open : r.id \in 1..bound /\ Redact[r.component] = r.component
  <2>1. \A r \in stay : r.id \in 1..bound BY <1>12
  <2>2. \A r \in Opened(s, new) : r.id \in 1..bound BY <1>0
  <2> QED BY <1>1, <1>0, <1>12, <2>1, <2>2
<1>14. \A q \in stay, r \in Opened(s, new) : q.id # r.id /\ q.component # r.component
  <2> SUFFICES ASSUME NEW q \in stay, NEW r \in Opened(s, new)
               PROVE  q.id # r.id /\ q.component # r.component
    OBVIOUS
  <2>1. q.id \in 1..newest /\ r.id \in (newest + 1)..bound BY <1>0, <1>12
  <2>2. PICK q0 \in s.open : Alike(q0, q) BY <1>2
  <2>3. q0.component # r.component BY <1>0
  <2> QED BY <2>1, <2>2, <2>3 DEF Alike
<1>15. \A q, r \in s2.open : q.id = r.id \/ q.component = r.component => q = r
  BY <1>1, <1>2, <1>0, <1>14
<1>16. \A r \in s2.closed : r.id \in 1..bound /\ r.at <= t
  <2>1. \A r \in all : r.id \in 1..bound BY <1>5
  <2> QED BY <1>1, <1>5, <1>9, <2>1
<1>17. \A q \in s2.open, r \in s2.closed : q.id # r.id
  <2> SUFFICES ASSUME NEW q \in s2.open, NEW r \in all PROVE q.id # r.id BY <1>1, <1>9
  <2>1. CASE q \in Opened(s, new)
    <3>1. q.id \in (newest + 1)..bound /\ r.id \in 1..newest BY <1>0, <1>5, <2>1
    <3> QED BY <3>1
  <2>2. CASE q \in stay
    <3>1. PICK q0 \in s.open \ closing : Alike(q0, q) BY <1>2, <2>2
    <3>2. CASE r \in s.closed BY <1>6, <3>1, <3>2 DEF Alike
    <3>3. CASE \E x \in closing : r.id = x.id BY <1>4, <1>6, <3>1, <3>3 DEF Alike
    <3> QED BY <1>5, <3>2, <3>3
  <2> QED BY <1>1, <2>1, <2>2
<1>18. WellKept(s2, bound, t)
  BY <1>1, <1>5, <1>9, <1>10, <1>11, <1>13, <1>15, <1>16, <1>17 DEF WellKept
<1>19. \A r \in s2.open : \/ \E q \in s.open : Alike(q, r)
                          \/ r.id \in (newest + 1)..bound /\ r.component \in Seen(new)
  BY <1>1, <1>2, <1>0
<1>20. \A q \in s.open : q \in closing \/ \E r \in s2.open : Alike(q, r) BY <1>1, <1>2
<1>21. ASSUME NEW q \in all, q.at = t
       PROVE  q \in s2.closed \/ Cardinality({x \in s2.closed : x.at = t}) >= History
  BY <1>1, <1>5, <1>21, CutKeeps
<1>22. \A r \in closing : \/ \E q \in s2.closed : q.id = r.id /\ q.at = t
                          \/ Cardinality({q \in s2.closed : q.at = t}) >= History
  BY <1>5, <1>21
<1>23. \A r \in s.closed : r.at = t =>
           r \in s2.closed \/ Cardinality({q \in s2.closed : q.at = t}) >= History
  BY <1>7, <1>21
<1> QED BY <1>18, <1>19, <1>20, <1>22, <1>23 DEF s2, closing, Reconciled

\* A store that is well kept stays so as identities are used up and time goes on.
LEMMA WellKeptOn ==
    ASSUME NEW s, NEW newest \in Nat, NEW bound \in Nat, newest <= bound,
           NEW t \in Nat, NEW u \in Nat, t <= u, WellKept(s, newest, t)
    PROVE  WellKept(s, bound, u)
<1>1. \A r \in s.open : r.id \in 1..bound BY DEF WellKept
<1>2. \A r \in s.closed : r.id \in 1..bound /\ r.at <= u
  <2>1. \A r \in s.closed : r.at \in Nat BY DEF WellKept, Stores, ClosedRecords
  <2> QED BY <2>1 DEF WellKept
<1> QED BY <1>1, <1>2 DEF WellKept

\* What one reconciliation does to the incidents that an earlier one left.
LEMMA FollowedOn ==
    ASSUME NEW s, NEW s2, NEW newest \in Nat, NEW t \in Nat, WellKept(s2, newest, t),
           NEW r, Followed(r, s, t),
           \A q \in s.open : Followed(q, s2, t),
           \A q \in s.closed : q.at = t =>
               q \in s2.closed \/ Cardinality({x \in s2.closed : x.at = t}) >= History,
           IsFiniteSet(s.closed)
    PROVE  Followed(r, s2, t)
<1> DEFINE now(x) == {q \in x.closed : q.at = t}
<1>1. CASE \E q \in s.open : Alike(q, r)
  <2>1. PICK q \in s.open : Alike(q, r) BY <1>1
  <2>2. Followed(q, s2, t) OBVIOUS
  <2> QED BY <2>1, <2>2 DEF Followed, Alike
<1>2. CASE \E q \in s.closed : q.id = r.id /\ q.at = t BY <1>2 DEF Followed
<1>3. CASE Cardinality(now(s)) >= History
  <2>1. CASE Cardinality(now(s2)) >= History BY <2>1 DEF Followed
  <2>2. CASE ~(Cardinality(now(s2)) >= History)
    <3>1. now(s) \in SUBSET now(s2) BY <2>2
    <3>2. IsFiniteSet(s2.closed) BY DEF WellKept
    <3>3. now(s2) \in SUBSET s2.closed /\ now(s) \in SUBSET s.closed OBVIOUS
    <3>4. IsFiniteSet(now(s2)) /\ IsFiniteSet(now(s)) BY <3>2, <3>3, FS_Subset
    <3>5. /\ Cardinality(now(s)) <= Cardinality(now(s2))
          /\ Cardinality(now(s)) \in Nat /\ Cardinality(now(s2)) \in Nat
      BY <3>1, <3>4, FS_Subset, FS_CardinalityType
    <3>6. History \in Nat BY StoreAssumption
    <3> HIDE DEF now
    <3> QED BY <1>3, <2>2, <3>5, <3>6
  <2> QED BY <2>1, <2>2
<1> QED BY <1>1, <1>2, <1>3 DEF Followed

\* The step of one transition.
LEMMA AppliedKeeps ==
    ASSUME NEW s, NEW i \in Nat, NEW t \in Transitions, issued \in Nat, clock \in 0..MaxTime,
           WellKept(s, issued + i, clock)
    PROVE  LET s2 == Applied(s, t, i + 1)
           IN  /\ WellKept(s2, issued + (i + 1), clock)
               /\ \A r \in s2.open : \/ \E q \in s.open : Alike(q, r)
                                     \/ r.id > issued /\ r.component = Redact[t.node]
               /\ \A r \in s.open : Followed(r, s2, clock)
               /\ \A r \in s.open : (\E q \in s2.open : Alike(q, r)) \/ r.component = Redact[t.node]
               /\ \A r \in s.closed : r.at = clock =>
                      r \in s2.closed \/ Cardinality({x \in s2.closed : x.at = clock}) >= History
<1> DEFINE s2 == Applied(s, t, i + 1)
           newest == issued + i
           bound == issued + (i + 1)
<1>1. /\ newest \in Nat /\ bound \in Nat /\ newest <= bound /\ clock \in Nat
      /\ WellKept(s, newest, clock)
  OBVIOUS
<1>2. t.node \in Names /\ t.to \in Statuses BY BridgeAssumption DEF Transitions
<1>3. CASE t.to = "trigger"
  <2> DEFINE new == <<[id |-> Fresh(i + 1), component |-> t.node]>>
  <2>1. s2 = Reconcile(s, new, {}, clock) BY <1>3 DEF Applied
  <2>2. DOMAIN new = 1..1 /\ new[1].id = bound /\ new[1].component = t.node BY DEF Fresh
  <2>3. NewBatch(new, newest, bound)
    <3>1. bound \in (newest + 1)..bound OBVIOUS
    <3> HIDE DEF new, bound, newest
    <3>2. \A j \in DOMAIN new : j = 1 BY <2>2
    <3> QED BY <1>2, <2>2, <3>1, <3>2 DEF NewBatch
  <2>4. Closing(s, new, {}) = {} BY DEF Closing, LookedAt
  <2> HIDE DEF new
  <2>5. /\ WellKept(s2, bound, clock)
        /\ \A r \in s2.open : \/ \E q \in s.open : Alike(q, r)
                              \/ r.id \in (newest + 1)..bound /\ r.component \in Seen(new)
        /\ \A q \in s.open : q \in Closing(s, new, {}) \/ \E r \in s2.open : Alike(q, r)
        /\ \A r \in s.closed : r.at = clock =>
               r \in s2.closed \/ Cardinality({q \in s2.closed : q.at = clock}) >= History
    <3>1. Reconciled(s, newest, bound, new, {}, clock) BY <1>1, <2>3, ReconcileKeeps
    <3> HIDE DEF newest, bound
    <3> QED BY <2>1, <3>1 DEF Reconciled
  <2>6. \A r \in s2.open : \/ \E q \in s.open : Alike(q, r)
                           \/ r.id > issued /\ r.component = Redact[t.node]
    <3>1. Seen(new) = {Redact[t.node]} BY <2>2 DEF Seen, Key
    <3>2. \A n \in (newest + 1)..bound : n > issued OBVIOUS
    <3> HIDE DEF newest, bound, s2
    <3> QED BY <2>5, <3>1, <3>2
  <2>7. \A r \in s.open : \E q \in s2.open : Alike(q, r) BY <2>4, <2>5 DEF Alike
  <2> QED BY <2>5, <2>6, <2>7 DEF Followed
<1>4. CASE t.to = "resolve" /\ OpenAs(s, t.node) # {}
  <2> DEFINE nothing == <<>>
  <2>1. s2 = Reconcile(s, nothing, {t.node}, clock) BY <1>4 DEF Applied
  <2>2. DOMAIN nothing = 1..0 /\ DOMAIN nothing = {} /\ 0 \in Nat OBVIOUS
  <2> HIDE DEF nothing
  <2>3. NewBatch(nothing, newest, bound) BY <2>2 DEF NewBatch
  <2>4. \A r \in s.open : r \in Closing(s, nothing, {t.node}) => r.component = Redact[t.node]
    BY DEF Closing, LookedAt, Key, WellKept
  <2>5. Seen(nothing) = {} BY <2>2 DEF Seen
  <2>6. /\ WellKept(s2, bound, clock)
        /\ \A r \in s2.open : \/ \E q \in s.open : Alike(q, r)
                              \/ r.id \in (newest + 1)..bound /\ r.component \in Seen(nothing)
        /\ \A q \in s.open : q \in Closing(s, nothing, {t.node}) \/ \E r \in s2.open : Alike(q, r)
        /\ \A r \in s.open : r \in Closing(s, nothing, {t.node}) =>
               \/ \E q \in s2.closed : q.id = r.id /\ q.at = clock
               \/ Cardinality({q \in s2.closed : q.at = clock}) >= History
        /\ \A r \in s.closed : r.at = clock =>
               r \in s2.closed \/ Cardinality({q \in s2.closed : q.at = clock}) >= History
    <3>1. Reconciled(s, newest, bound, nothing, {t.node}, clock) BY <1>1, <2>3, ReconcileKeeps
    <3> HIDE DEF newest, bound, s2
    <3> QED BY <2>1, <3>1 DEF Reconciled
  <2>7. \A r \in s2.open : \E q \in s.open : Alike(q, r) BY <2>5, <2>6
  <2>8. \A r \in s.open : r \in Closing(s, nothing, {t.node}) \/ \E q \in s2.open : Alike(q, r)
    BY <2>6 DEF Alike
  <2> QED BY <2>4, <2>6, <2>7, <2>8 DEF Followed
<1>5. CASE t.to # "trigger" /\ ~(t.to = "resolve" /\ OpenAs(s, t.node) # {})
  <2>1. s2 = s BY <1>5 DEF Applied
  <2>2. WellKept(s2, bound, clock)
    <3>1. clock <= clock BY <1>1
    <3> QED BY <1>1, <2>1, <3>1, WellKeptOn
  <2> QED BY <2>1, <2>2 DEF Followed, Alike
<1> QED BY <1>3, <1>4, <1>5

\* The recursive function that AfterFirst names: it has the values that its definition says.
LEMMA AfterFirstIs ==
    ASSUME NEW b, chunk[b] \in Seq(Transitions)
    PROVE  /\ AfterFirst(b)[0] = mem[b]
           /\ \A n \in 1..Len(chunk[b]) :
                  AfterFirst(b)[n] = Applied(AfterFirst(b)[n - 1], chunk[b][n], n)
<1> DEFINE L == Len(chunk[b])
           value(g, n) == IF n = 0 THEN mem[b] ELSE Applied(g[n - 1], chunk[b][n], n)
           is(g, m) == g = [n \in 0..m |-> value(g, n)]
           bad == {m \in 0..L : ~ \E g : is(g, m)}
<1>1. L \in Nat OBVIOUS
<1>2. bad = {}
  <2> SUFFICES ASSUME bad # {} PROVE FALSE OBVIOUS
  <2>1. bad \in SUBSET Nat BY <1>1
  <2>2. PICK k \in bad : \A m \in bad : k <= m BY <2>1, LeastMember
  <2>3. k \in 0..L /\ k \in Nat /\ ~ \E g : is(g, k) BY <1>1
  <2>4. CASE k = 0
    <3> DEFINE g == [n \in 0..0 |-> mem[b]]
    <3>1. is(g, 0) OBVIOUS
    <3> QED BY <2>3, <2>4, <3>1
  <2>5. CASE k # 0
    <3>1. k - 1 \in 0..L /\ k - 1 \in Nat /\ ~(k <= k - 1) BY <1>1, <2>3, <2>5
    <3>2. k - 1 \notin bad BY <2>2, <3>1
    <3>3. PICK g : is(g, k - 1) BY <3>1, <3>2
    <3> DEFINE h == [n \in 0..k |-> IF n = k THEN value(g, k) ELSE g[n]]
    <3>4. \A n \in 0..k : h[n] = value(h, n)
      <4> SUFFICES ASSUME NEW n \in 0..k PROVE h[n] = value(h, n) OBVIOUS
      <4>1. CASE n = k
        <5>1. k - 1 \in 0..k /\ h[k - 1] = g[k - 1] BY <2>3, <3>1
        <5>2. h[n] = value(g, k) BY <4>1
        <5> HIDE DEF h
        <5> QED BY <2>5, <4>1, <5>1, <5>2
      <4>2. CASE n # k
        <5>1. n \in 0..(k - 1) BY <2>3, <4>2
        <5>2. h[n] = g[n] BY <4>2
        <5>3. g[n] = value(g, n) BY <3>3, <5>1
        <5>4. n # 0 => n - 1 \in 0..k /\ n - 1 # k /\ h[n - 1] = g[n - 1] BY <2>3, <5>1
        <5> HIDE DEF h
        <5> QED BY <5>2, <5>3, <5>4
      <4> QED BY <4>1, <4>2
    <3>5. h = [n \in 0..k |-> h[n]] OBVIOUS
    <3> HIDE DEF h
    <3>6. is(h, k) BY <3>4, <3>5
    <3> QED BY <2>3, <3>6
  <2> QED BY <2>4, <2>5
<1>3. \E g : is(g, L)
  <2>1. L \in 0..L /\ L \notin bad BY <1>1, <1>2
  <2> QED BY <2>1
<1> DEFINE f == CHOOSE g : g = [n \in 0..L |-> IF n = 0 THEN mem[b]
                                             ELSE Applied(g[n - 1], chunk[b][n], n)]
<1>4. AfterFirst(b) = f BY DEF AfterFirst
<1>5. f = [n \in 0..L |-> value(f, n)] BY <1>3
<1> HIDE DEF f
<1>6. f[0] = value(f, 0) BY <1>1, <1>5
<1>7. \A n \in 1..L : n \in 0..L /\ n # 0 /\ f[n] = value(f, n) BY <1>1, <1>5
<1> QED BY <1>4, <1>6, <1>7

-----------------------------------------------------------------------------
(* The invariant.                                                          *)

\* The places at which a program holds the lock of the store.
Holding == {"reconciling", "applying"}

\* The store is well kept, and who holds its lock has it as it is.
StoreInv ==
    /\ issued \in Nat /\ clock \in 0..MaxTime /\ WellKept(store, issued, clock)
    /\ pc \in [Procs -> PcValues] /\ mem = [p \in Procs |-> mem[p]]
    /\ \A p \in Procs : pc[p] \in Holding => lock = p /\ mem[p] = store

\* What the passes have read.
ReadInv ==
    /\ seen \in [Collectors -> Seq(Readings)] /\ \A k \in Collectors : Len(seen[k]) <= Len(Checks)
    /\ journal \in Seq(Transitions) /\ chunk \in [Bridges -> Seq(Transitions)]
    /\ offset \in Nat /\ upto \in [Bridges -> Nat]

IInv == StoreInv /\ ReadInv

LEMMA InitInv == Init => IInv
<1> SUFFICES ASSUME Init PROVE IInv OBVIOUS
<1>1. /\ store = EmptyStore /\ clock = 0 /\ issued = 0 /\ pc = [p \in Procs |-> "idle"]
      /\ mem = [p \in Procs |-> EmptyStore]
  BY DEF Init, StoreInit
<1>2. WellKept(store, issued, clock)
  <2>1. store.open = {} /\ store.closed = {} /\ store \in Stores BY <1>1 DEF EmptyStore, Stores
  <2> QED BY <2>1, FS_EmptySet DEF WellKept
<1>3. StoreInv
  <2>1. clock \in 0..MaxTime /\ issued \in Nat BY <1>1, StoreAssumption
  <2> QED BY <1>1, <1>2, <2>1 DEF StoreInv, Holding, PcValues
<1>4. ReadInv
  <2>1. Len(Checks) \in Nat BY EdgeAssumption
  <2>2. seen = [k \in Collectors |-> <<>>] BY DEF Init, EdgeInit
  <2>3. /\ journal = <<>> /\ offset = 0
        /\ chunk = [b \in Bridges |-> <<>>] /\ upto = [b \in Bridges |-> 0]
    BY DEF Init, BridgeInit
  <2>4. \A k \in Collectors : Len(seen[k]) <= Len(Checks)
    <3>1. \A k \in Collectors : Len(seen[k]) = 0 BY <2>2
    <3> QED BY <2>1, <3>1
  <2> QED BY <2>2, <2>3, <2>4 DEF ReadInv
<1> QED BY <1>3, <1>4 DEF IInv

-----------------------------------------------------------------------------
(* What a step does to the store, and to who holds its lock.               *)

Untouched ==
    /\ UNCHANGED <<store, issued, pc, mem, lock>>
    /\ clock' = clock \/ (clock < MaxTime /\ clock' = clock + 1)

\* Program p goes to a place at which it does not hold the lock.
Moves(p) ==
    /\ UNCHANGED <<store, issued, clock>>
    /\ \E w \in PcValues \ Holding : pc' = [pc EXCEPT ![p] = w]
    /\ mem' = mem \/ mem' = [mem EXCEPT ![p] = EmptyStore]
    /\ lock' = lock \/ lock' = IF lock = p THEN None ELSE lock

Takes(p) ==
    /\ UNCHANGED <<store, issued, clock>>
    /\ \E w \in Holding : pc' = [pc EXCEPT ![p] = w]
    /\ lock = None /\ lock' = p
    /\ mem' = [mem EXCEPT ![p] = store]

\* Program p saves s and forgets what it had loaded.
Saves(p, s) ==
    /\ pc[p] \in Holding
    /\ SaveStore(p, s) /\ Forget(p)
    /\ \E w \in PcValues \ Holding : pc' = [pc EXCEPT ![p] = w]
    /\ clock' = clock

LEMMA DiesMoves == \A p : Dies(p) => Moves(p)
BY DEF Dies, Moves, GoTo, Forget, PcValues, Holding

LEMMA CollectKinds ==
    ASSUME NEW k \in Collectors, Collect(k)
    PROVE  \/ Untouched \/ Moves(k) \/ Takes(k)
           \/ CollectSaves(k) /\ Saves(k, Reconcile(mem[k], Batch(k), Checked(k), clock))
<1>1. CASE Begin(k) BY <1>1 DEF Begin, Moves, GoTo, PcValues, Holding
<1>2. CASE Check(k) BY <1>2 DEF Check, Untouched, storeVars
<1>3. CASE CollectLocks(k) BY <1>3 DEF CollectLocks, Acquire, Takes, GoTo, Holding
<1>4. CASE CollectTimeout(k) BY <1>4, DiesMoves DEF CollectTimeout, LockTimeout
<1>5. CASE CollectSaves(k) BY <1>5 DEF CollectSaves, Saves, GoTo, PcValues, Holding
<1>6. CASE CollectCompares(k) BY <1>6 DEF CollectCompares, Moves, GoTo, PcValues, Holding
<1>7. CASE CollectEnds(k) BY <1>7 DEF CollectEnds, Moves, GoTo, PcValues, Holding
<1> QED BY <1>1, <1>2, <1>3, <1>4, <1>5, <1>6, <1>7 DEF Collect

LEMMA IngestKinds ==
    ASSUME NEW b \in Bridges, Ingest(b)
    PROVE  \/ Moves(b) \/ Takes(b)
           \/ BridgeSaves(b) /\ Saves(b, Ingested(b))
<1>1. CASE ReadNew(b) BY <1>1 DEF ReadNew, Moves, GoTo, PcValues, Holding
<1>2. CASE BridgeLocks(b) BY <1>2 DEF BridgeLocks, Acquire, Takes, GoTo, Holding
<1>3. CASE BridgeTimeout(b) BY <1>3, DiesMoves DEF BridgeTimeout, LockTimeout
<1>4. CASE BridgeSaves(b) /\ chunk[b] = <<>>
  BY <1>4 DEF BridgeSaves, Moves, Forget, GoTo, PcValues, Holding
<1>5. CASE BridgeSaves(b) /\ chunk[b] # <<>>
  BY <1>5 DEF BridgeSaves, Saves, GoTo, PcValues, Holding
<1>6. CASE BridgeEnds(b) BY <1>6 DEF BridgeEnds, Moves, GoTo, PcValues, Holding
<1> QED BY <1>1, <1>2, <1>3, <1>4, <1>5, <1>6 DEF Ingest

LEMMA StepKinds ==
    ASSUME [Next]_vars
    PROVE  \/ Untouched
           \/ \E p \in Procs : Moves(p) \/ Takes(p)
           \/ \E k \in Collectors :
                  CollectSaves(k) /\ Saves(k, Reconcile(mem[k], Batch(k), Checked(k), clock))
           \/ \E b \in Bridges : BridgeSaves(b) /\ Saves(b, Ingested(b))
<1>0. Collectors \subseteq Procs /\ Bridges \subseteq Procs BY EdgeAssumption, BridgeAssumption
<1>1. CASE UNCHANGED vars BY <1>1 DEF vars, storeVars, Untouched
<1>2. CASE Outside
  BY <1>2 DEF Outside, TickStore, BrokerFlips, WorldFlips, Watchdog, WatchdogWrites,
     WatchdogRotates, storeVars, Untouched
<1>3. ASSUME NEW p \in Procs, Crash(p) PROVE Moves(p) BY <1>3, DiesMoves DEF Crash
<1>4. ASSUME NEW p \in Procs, Send(p) \/ FlushOne(p) PROVE Untouched
  BY <1>4 DEF Send, FlushOne, storeVars, Untouched
<1>5. ASSUME NEW p \in Procs, FlushBegin(p) \/ FlushEnd(p) PROVE Moves(p)
  BY <1>5 DEF FlushBegin, FlushEnd, Moves, GoTo, PcValues, Holding
<1>6. ASSUME NEW p \in Procs, OutboxTimeout(p) PROVE Moves(p)
  BY <1>6, DiesMoves DEF OutboxTimeout
<1> QED
  BY <1>0, <1>1, <1>2, <1>3, <1>4, <1>5, <1>6, CollectKinds, IngestKinds DEF Next, Run

-----------------------------------------------------------------------------
(* What is saved.                                                          *)

\* A store that may follow the one of the file.
Follows(s) ==
    /\ \E bound \in Nat : issued <= bound /\ WellKept(s, bound, clock)
    /\ \A r \in s.open : (\E q \in store.open : Alike(q, r)) \/ r.id > issued
    /\ \A r \in store.open : Followed(r, s, clock)

\* The batch has an incident of its own for each check that found a problem.
LEMMA BatchIs ==
    ASSUME IInv, NEW k \in Collectors
    PROVE  \E bound \in Nat :
               /\ issued <= bound /\ NewBatch(Batch(k), issued, bound)
               /\ \A i \in DOMAIN seen[k] : seen[k][i] = "down" => Key(Checks[i]) \in Seen(Batch(k))
               /\ Seen(Batch(k)) \subseteq {Key(c) : c \in ToSet(Checks)}
<1> DEFINE bad == {i \in DOMAIN seen[k] : seen[k][i] = "down"}
           nth(n) == CHOOSE i \in bad : RankIn(bad, i) = n
           m == Cardinality(bad)
<1>1. seen[k] \in Seq(Readings) /\ Len(seen[k]) <= Len(Checks) BY DEF IInv, ReadInv
<1>2. /\ Len(seen[k]) \in Nat /\ Len(Checks) \in Nat /\ DOMAIN seen[k] = 1..Len(seen[k])
      /\ \A i \in 1..Len(Checks) : Checks[i] \in Names
  BY <1>1, EdgeAssumption
<1>3. /\ bad \in SUBSET Nat /\ IsFiniteSet(bad)
      /\ \A i \in bad : Checks[i] \in Names /\ Checks[i] \in ToSet(Checks)
  <2>1. IsFiniteSet(1..Len(seen[k])) BY <1>2, FS_Interval
  <2>2. bad \in SUBSET (1..Len(seen[k])) BY <1>2
  <2>3. IsFiniteSet(bad) BY <2>1, <2>2, FS_Subset
  <2>4. \A i \in 1..Len(seen[k]) : i \in 1..Len(Checks) BY <1>1, <1>2
  <2>5. \A i \in 1..Len(Checks) : Checks[i] \in ToSet(Checks)
    BY EdgeAssumption DEF ToSet
  <2> QED BY <1>2, <2>2, <2>3, <2>4, <2>5
<1>4. Batch(k) = [n \in 1..m |-> [id |-> Fresh(n), component |-> Checks[nth(n)]]]
  BY DEF Batch, RankIn
<1> HIDE DEF bad
<1>5. /\ m \in Nat
      /\ \A i \in bad : RankIn(bad, i) \in 1..m
      /\ \A i, j \in bad : RankIn(bad, i) = RankIn(bad, j) => i = j
      /\ \A n \in 1..m : \E i \in bad : RankIn(bad, i) = n
  BY <1>3, Ranks
<1>6. \A n \in 1..m : nth(n) \in bad /\ RankIn(bad, nth(n)) = n BY <1>5
<1> HIDE DEF nth
<1>7. issued \in Nat /\ issued + m \in Nat /\ issued <= issued + m
  BY <1>5 DEF IInv, StoreInv
<1>8. NewBatch(Batch(k), issued, issued + m)
  <2>1. DOMAIN Batch(k) = 1..m BY <1>4
  <2>2. \A n \in 1..m : Batch(k)[n].id = issued + n /\ Batch(k)[n].component = Checks[nth(n)]
    BY <1>4 DEF Fresh
  <2>3. \A n \in 1..m : issued + n \in (issued + 1)..(issued + m) BY <1>5, <1>7
  <2>4. \A n, o \in 1..m : issued + n = issued + o => n = o BY <1>5, <1>7
  <2>5. \A n \in 1..m : Batch(k)[n].component \in Names BY <1>3, <1>6, <2>2
  <2>6. \A n \in 1..m : Batch(k)[n].id \in (issued + 1)..(issued + m) BY <2>2, <2>3
  <2>7. \A n, o \in 1..m : Batch(k)[n].id = Batch(k)[o].id => n = o BY <2>2, <2>4
  <2> HIDE DEF m
  <2> QED BY <1>5, <2>1, <2>5, <2>6, <2>7 DEF NewBatch
<1>9. ASSUME NEW i \in bad PROVE Key(Checks[i]) \in Seen(Batch(k))
  <2>1. PICK n \in 1..m : RankIn(bad, i) = n BY <1>5
  <2>2. nth(n) = i BY <1>5, <1>6, <2>1
  <2>3. n \in DOMAIN Batch(k) /\ Batch(k)[n].component = Checks[i] BY <1>4, <2>2
  <2> QED BY <2>3 DEF Seen
<1>10. \A i \in DOMAIN seen[k] : seen[k][i] = "down" => i \in bad BY DEF bad
<1>11. Seen(Batch(k)) \subseteq {Key(c) : c \in ToSet(Checks)}
  <2>1. \A n \in DOMAIN Batch(k) : n \in 1..m /\ Batch(k)[n].component = Checks[nth(n)] BY <1>4
  <2> QED BY <1>3, <1>6, <2>1 DEF Seen
<1> QED BY <1>7, <1>8, <1>9, <1>10, <1>11

LEMMA CollectorSaves ==
    ASSUME IInv, NEW k \in Collectors, pc[k] = "reconciling"
    PROVE  LET s == Reconcile(mem[k], Batch(k), Checked(k), clock)
           IN  /\ Follows(s)
               /\ \A r \in store.open :
                      \/ \E q \in s.open : Alike(q, r)
                      \/ \E i \in DOMAIN seen[k] : seen[k][i] = "up" /\ Redact[Checks[i]] = r.component
<1> DEFINE s == Reconcile(mem[k], Batch(k), Checked(k), clock)
           closing == Closing(store, Batch(k), Checked(k))
<1>1. /\ mem[k] = store /\ issued \in Nat /\ clock \in 0..MaxTime /\ WellKept(store, issued, clock)
      /\ seen[k] \in Seq(Readings)
  BY EdgeAssumption DEF IInv, StoreInv, ReadInv, Holding
<1>2. PICK bound \in Nat :
         /\ issued <= bound /\ NewBatch(Batch(k), issued, bound)
         /\ \A i \in DOMAIN seen[k] : seen[k][i] = "down" => Key(Checks[i]) \in Seen(Batch(k))
  BY BatchIs
<1>3. Reconciled(store, issued, bound, Batch(k), Checked(k), clock) BY <1>1, <1>2, ReconcileKeeps
<1>4. /\ WellKept(s, bound, clock)
      /\ \A r \in s.open : (\E q \in store.open : Alike(q, r)) \/ r.id \in (issued + 1)..bound
      /\ \A q \in store.open : q \in closing \/ \E r \in s.open : Alike(q, r)
      /\ \A r \in closing : \/ \E q \in s.closed : q.id = r.id /\ q.at = clock
                            \/ Cardinality({q \in s.closed : q.at = clock}) >= History
  BY <1>1, <1>3 DEF Reconciled
<1>5. ASSUME NEW r \in closing
      PROVE  \E i \in DOMAIN seen[k] : seen[k][i] = "up" /\ Redact[Checks[i]] = r.component
  <2>1. /\ r \in store.open /\ Key(r.component) \in LookedAt(Checked(k))
        /\ Key(r.component) \notin Seen(Batch(k))
    BY DEF Closing
  <2>2. PICK i \in DOMAIN seen[k] : seen[k][i] # "unchecked" /\ Key(Checks[i]) = Key(r.component)
    BY <2>1 DEF LookedAt, Checked
  <2>3. seen[k][i] # "down" BY <1>2, <2>1, <2>2
  <2>4. seen[k][i] \in Readings BY <1>1
  <2>5. Redact[r.component] = r.component BY <1>1, <2>1 DEF WellKept
  <2> QED BY <2>2, <2>3, <2>4, <2>5 DEF Readings, Key
<1> HIDE DEF s, closing
<1>6. \A r \in store.open : (\E q \in s.open : Alike(q, r)) \/ r \in closing
  BY <1>4 DEF Alike
<1>7. Follows(s)
  <2>1. \A n \in (issued + 1)..bound : n > issued BY <1>1
  <2> QED BY <1>2, <1>4, <1>6, <2>1 DEF Follows, Followed
<1> QED BY <1>5, <1>6, <1>7 DEF s

LEMMA BridgeStores ==
    ASSUME IInv, NEW b \in Bridges, pc[b] = "applying"
    PROVE  /\ Follows(Ingested(b))
           /\ \A r \in store.open : \/ \E q \in Ingested(b).open : Alike(q, r)
                                    \/ r.component \in {Redact[n] : n \in Nodes}
           /\ \A r \in Ingested(b).open : \/ \E q \in store.open : Alike(q, r)
                                          \/ r.component \in {Redact[n] : n \in Nodes}
<1> DEFINE f == AfterFirst(b)
           L == Len(chunk[b])
           WatchedName == {Redact[n] : n \in Nodes}
           holds(n) == /\ WellKept(f[n], issued + n, clock)
                       /\ \A r \in f[n].open : \/ \E q \in store.open : Alike(q, r)
                                               \/ r.id > issued /\ r.component \in WatchedName
                       /\ \A r \in store.open : Followed(r, f[n], clock)
                       /\ \A r \in store.open : (\E q \in f[n].open : Alike(q, r)) \/ r.component \in WatchedName
           bad == {n \in 0..L : ~holds(n)}
<1>1. /\ mem[b] = store /\ issued \in Nat /\ clock \in 0..MaxTime /\ WellKept(store, issued, clock)
      /\ chunk[b] \in Seq(Transitions) /\ L \in Nat /\ clock \in Nat
  BY BridgeAssumption DEF IInv, StoreInv, ReadInv, Holding
<1>2. /\ f[0] = store
      /\ \A n \in 1..L : f[n] = Applied(f[n - 1], chunk[b][n], n)
  BY <1>1, AfterFirstIs
<1> HIDE DEF f
<1>3. holds(0)
  <2>1. issued + 0 = issued BY <1>1
  <2>2. \A r \in store.open : Alike(r, r) BY DEF Alike
  <2> QED BY <1>1, <1>2, <2>1, <2>2 DEF Followed
<1>4. ASSUME NEW n \in 1..L, holds(n - 1) PROVE holds(n)
  <2> DEFINE o == n - 1
             tr == chunk[b][n]
  <2>1. o \in Nat /\ o + 1 = n BY <1>1
  <2>2. tr \in Transitions BY <1>1
  <2>3. f[n] = Applied(f[o], tr, o + 1) BY <1>2, <2>1
  <2>4. /\ WellKept(f[o], issued + o, clock)
        /\ \A r \in f[o].open : \/ \E q \in store.open : Alike(q, r)
                                \/ r.id > issued /\ r.component \in WatchedName
        /\ \A r \in store.open : Followed(r, f[o], clock)
        /\ \A r \in store.open : (\E q \in f[o].open : Alike(q, r)) \/ r.component \in WatchedName
    BY <1>4
  <2> HIDE DEF o, tr, WatchedName
  <2>5. /\ WellKept(f[n], issued + n, clock)
        /\ \A r \in f[n].open : \/ \E q \in f[o].open : Alike(q, r)
                                \/ r.id > issued /\ r.component = Redact[tr.node]
        /\ \A r \in f[o].open : Followed(r, f[n], clock)
        /\ \A r \in f[o].open : (\E q \in f[n].open : Alike(q, r)) \/ r.component = Redact[tr.node]
        /\ \A r \in f[o].closed : r.at = clock =>
               r \in f[n].closed \/ Cardinality({x \in f[n].closed : x.at = clock}) >= History
    BY <1>1, <2>1, <2>2, <2>3, <2>4, AppliedKeeps
  <2>5a. Redact[tr.node] \in WatchedName BY <2>2 DEF Transitions, WatchedName
  <2>6. \A r \in f[n].open : \/ \E q \in store.open : Alike(q, r)
                             \/ r.id > issued /\ r.component \in WatchedName
    BY <2>4, <2>5, <2>5a DEF Alike
  <2>7. \A r \in store.open : Followed(r, f[n], clock)
    <3>1. IsFiniteSet(f[o].closed) /\ issued + n \in Nat BY <1>1, <2>1, <2>4 DEF WellKept
    <3> QED BY <1>1, <2>4, <2>5, <3>1, FollowedOn
  <2>8. \A r \in store.open : (\E q \in f[n].open : Alike(q, r)) \/ r.component \in WatchedName
    BY <2>4, <2>5, <2>5a DEF Alike
  <2> QED BY <2>5, <2>6, <2>7, <2>8
<1>5. bad = {}
  <2> SUFFICES ASSUME bad # {} PROVE FALSE OBVIOUS
  <2>1. bad \in SUBSET Nat BY <1>1
  <2> HIDE DEF holds
  <2>2. PICK k \in bad : \A n \in bad : k <= n BY <2>1, LeastMember
  <2>3. k \in 0..L /\ k \in Nat /\ ~holds(k) BY <1>1
  <2>4. k # 0 BY <1>3, <2>3
  <2>5. k \in 1..L /\ k - 1 \in 0..L /\ ~(k <= k - 1) BY <1>1, <2>3, <2>4
  <2>6. holds(k - 1) BY <2>2, <2>5
  <2> QED BY <1>4, <2>3, <2>5, <2>6
<1>6. L \in 0..L /\ issued + L \in Nat /\ issued <= issued + L BY <1>1
<1>7. holds(L) BY <1>5, <1>6
<1>8. Ingested(b) = f[L] BY DEF Ingested, f
<1> HIDE DEF L
<1> QED BY <1>6, <1>7, <1>8 DEF Follows

\* Whoever saves, the store that is saved follows the one of the file; an incident stays open
\* unless it is a watched node's, or its component was seen well.
SeenWell(r) ==
    \/ r.component \in {Redact[n] : n \in Nodes}
    \/ \E k \in Collectors : \E i \in DOMAIN seen[k] :
           /\ pc[k] = "reconciling" /\ seen[k][i] = "up"
           /\ Redact[Checks[i]] = r.component

Saving(p, s) ==
    /\ Saves(p, s) /\ Follows(s)
    /\ \A r \in store.open : (\E q \in s.open : Alike(q, r)) \/ SeenWell(r)

LEMMA Steps ==
    ASSUME IInv, [Next]_vars
    PROVE  \/ Untouched
           \/ \E p \in Procs : Moves(p) \/ Takes(p)
           \/ \E p \in Procs : \E s : Saving(p, s)
<1>0. Collectors \subseteq Procs /\ Bridges \subseteq Procs BY EdgeAssumption, BridgeAssumption
<1>1. ASSUME NEW k \in Collectors, CollectSaves(k),
             Saves(k, Reconcile(mem[k], Batch(k), Checked(k), clock))
      PROVE  Saving(k, Reconcile(mem[k], Batch(k), Checked(k), clock))
  <2>1. pc[k] = "reconciling" BY <1>1 DEF CollectSaves
  <2> QED BY <1>1, <2>1, CollectorSaves DEF Saving, SeenWell
<1>2. ASSUME NEW b \in Bridges, BridgeSaves(b), Saves(b, Ingested(b))
      PROVE  Saving(b, Ingested(b))
  <2>1. pc[b] = "applying" BY <1>2 DEF BridgeSaves
  <2> QED BY <1>2, <2>1, BridgeStores DEF Saving, SeenWell
<1> QED BY <1>0, <1>1, <1>2, StepKinds

\* The identities that are in use after a save are those that were, and those it brings.
LEMMA Issuing ==
    ASSUME IInv, NEW p \in Procs, NEW s, Saving(p, s)
    PROVE  /\ issued' \in Nat /\ issued <= issued' /\ WellKept(s, issued', clock)
           /\ \A r \in s.open : (\E q \in store.open : Alike(q, r)) \/ r.id \in (issued + 1)..issued'
<1>1. PICK bound \in Nat : issued <= bound /\ WellKept(s, bound, clock) BY DEF Saving, Follows
<1> DEFINE ids == {issued} \cup {r.id : r \in s.open} \cup {r.id : r \in s.closed}
<1>2. issued' = Max(ids) BY DEF Saving, Saves, SaveStore, Issue
<1>3. issued \in Nat BY DEF IInv, StoreInv
<1>4. /\ \A r \in s.open : r.id \in 1..bound
      /\ \A r \in s.closed : r.id \in 1..bound
  BY <1>1 DEF WellKept
<1>5. ids \in SUBSET Nat /\ ids # {} /\ \A i \in ids : i <= bound BY <1>1, <1>3, <1>4
<1>6. issued \in ids /\ (\A r \in s.open : r.id \in ids) /\ (\A r \in s.closed : r.id \in ids)
  OBVIOUS
<1> HIDE DEF ids
<1>7. issued' \in ids /\ \A i \in ids : i <= issued' BY <1>2, <1>5, GreatestMember
<1>8. issued' \in Nat /\ issued <= issued' BY <1>5, <1>6, <1>7
<1>9. /\ \A r \in s.open : r.id \in 1..issued'
      /\ \A r \in s.closed : r.id \in 1..issued'
  BY <1>4, <1>6, <1>7, <1>8
<1>10. WellKept(s, issued', clock) BY <1>1, <1>9 DEF WellKept
<1>11. \A r \in s.open : (\E q \in store.open : Alike(q, r)) \/ r.id \in (issued + 1)..issued'
  <2>1. \A r \in s.open : (\E q \in store.open : Alike(q, r)) \/ r.id > issued
    BY DEF Saving, Follows
  <2>2. \A r \in s.open : r.id > issued => r.id \in (issued + 1)..issued' BY <1>3, <1>8, <1>9
  <2> QED BY <2>1, <2>2
<1> QED BY <1>8, <1>10, <1>11

-----------------------------------------------------------------------------
LEMMA StoreStep == IInv /\ [Next]_vars => StoreInv'
<1> SUFFICES ASSUME IInv, [Next]_vars PROVE StoreInv' OBVIOUS
<1>1. /\ issued \in Nat /\ clock \in 0..MaxTime /\ WellKept(store, issued, clock)
      /\ pc \in [Procs -> PcValues] /\ mem = [p \in Procs |-> mem[p]]
      /\ \A p \in Procs : pc[p] \in Holding => lock = p /\ mem[p] = store
      /\ None \notin Procs /\ MaxTime \in Nat
  BY StoreAssumption DEF IInv, StoreInv
<1>2. Holding \subseteq PcValues BY DEF Holding, PcValues
<1>3. CASE Untouched
  <2>1. UNCHANGED <<store, issued, pc, mem, lock>> BY <1>3 DEF Untouched
  <2>2. clock' \in 0..MaxTime /\ clock \in Nat /\ clock' \in Nat /\ clock <= clock'
    BY <1>1, <1>3 DEF Untouched
  <2>3. issued <= issued BY <1>1
  <2>4. WellKept(store, issued, clock') BY <1>1, <2>2, <2>3, WellKeptOn
  <2> QED BY <1>1, <2>1, <2>2, <2>4 DEF StoreInv
<1>4. ASSUME NEW p \in Procs, Moves(p) PROVE StoreInv'
  <2>1. PICK w \in PcValues \ Holding : pc' = [pc EXCEPT ![p] = w] BY <1>4 DEF Moves
  <2>2. /\ UNCHANGED <<store, issued, clock>>
        /\ mem' = mem \/ mem' = [mem EXCEPT ![p] = EmptyStore]
        /\ lock' = lock \/ lock' = IF lock = p THEN None ELSE lock
    BY <1>4 DEF Moves
  <2>3. pc' \in [Procs -> PcValues] /\ mem' = [q \in Procs |-> mem'[q]] BY <1>1, <2>1, <2>2
  <2>4. ASSUME NEW q \in Procs, pc'[q] \in Holding PROVE lock' = q /\ mem'[q] = store'
    <3>1. q # p /\ pc[q] \in Holding BY <1>1, <2>1, <2>4
    <3>2. lock = q /\ mem[q] = store BY <1>1, <3>1
    <3>3. mem'[q] = mem[q] BY <1>1, <2>2, <3>1
    <3> QED BY <2>2, <3>1, <3>2, <3>3
  <2> QED BY <1>1, <2>2, <2>3, <2>4 DEF StoreInv
<1>5. ASSUME NEW p \in Procs, Takes(p) PROVE StoreInv'
  <2>1. PICK w \in Holding : pc' = [pc EXCEPT ![p] = w] BY <1>5 DEF Takes
  <2>2. /\ UNCHANGED <<store, issued, clock>> /\ lock = None /\ lock' = p
        /\ mem' = [mem EXCEPT ![p] = store]
    BY <1>5 DEF Takes
  <2>3. pc' \in [Procs -> PcValues] /\ mem' = [q \in Procs |-> mem'[q]]
    BY <1>1, <1>2, <2>1, <2>2
  <2>4. ASSUME NEW q \in Procs, pc'[q] \in Holding PROVE lock' = q /\ mem'[q] = store'
    <3>1. q = p BY <1>1, <2>1, <2>2, <2>4
    <3> QED BY <1>1, <2>2, <3>1
  <2> QED BY <1>1, <2>2, <2>3, <2>4 DEF StoreInv
<1>6. ASSUME NEW p \in Procs, NEW s, Saving(p, s) PROVE StoreInv'
  <2>1. PICK w \in PcValues \ Holding : pc' = [pc EXCEPT ![p] = w] BY <1>6 DEF Saving, Saves
  <2>2. /\ store' = s /\ clock' = clock /\ mem' = [mem EXCEPT ![p] = EmptyStore]
        /\ pc[p] \in Holding
    BY <1>6 DEF Saving, Saves, SaveStore, Forget
  <2>3. issued' \in Nat /\ WellKept(s, issued', clock) BY <1>6, Issuing
  <2>4. pc' \in [Procs -> PcValues] /\ mem' = [q \in Procs |-> mem'[q]] BY <1>1, <2>1, <2>2
  <2>5. ASSUME NEW q \in Procs, pc'[q] \in Holding PROVE FALSE
    <3>1. q # p /\ pc[q] \in Holding BY <1>1, <2>1, <2>5
    <3> QED BY <1>1, <2>2, <3>1
  <2> QED BY <1>1, <2>2, <2>3, <2>4, <2>5 DEF StoreInv
<1> QED BY <1>3, <1>4, <1>5, <1>6, Steps

\* A part of a list is a list of the same things.
LEMMA PartOf ==
    ASSUME NEW S, NEW q \in Seq(S), NEW from \in Nat \ {0}, NEW to \in Nat, to <= Len(q)
    PROVE  SubSeq(q, from, to) \in Seq(S)
<1>1. \A i \in from..to : q[i] \in S OBVIOUS
<1> QED BY <1>1

LEMMA SmallerOf == \A a, b \in Nat : Min({a, b}) \in {a, b} /\ Min({a, b}) <= a /\ Min({a, b}) <= b
<1> SUFFICES ASSUME NEW a \in Nat, NEW b \in Nat
             PROVE  Min({a, b}) \in {a, b} /\ Min({a, b}) <= a /\ Min({a, b}) <= b
  OBVIOUS
<1>1. \E x \in {a, b} : \A y \in {a, b} : x <= y OBVIOUS
<1> QED BY <1>1 DEF Min

LEMMA ReadStep == IInv /\ [Next]_vars => ReadInv'
<1> SUFFICES ASSUME IInv, [Next]_vars PROVE ReadInv' OBVIOUS
<1> DEFINE Edge == /\ seen \in [Collectors -> Seq(Readings)]
                   /\ \A k \in Collectors : Len(seen[k]) <= Len(Checks)
           Bridge == /\ journal \in Seq(Transitions) /\ chunk \in [Bridges -> Seq(Transitions)]
                     /\ offset \in Nat /\ upto \in [Bridges -> Nat]
<1>0. Edge /\ Bridge BY DEF IInv, ReadInv
<1>1. Len(Checks) \in Nat BY EdgeAssumption
<1>2. ASSUME NEW p, EdgeDies(p) PROVE Edge'
  <2>1. seen' = [k \in Collectors |-> IF k = p THEN <<>> ELSE seen[k]] BY <1>2 DEF EdgeDies
  <2>2. Len(<<>>) = 0 /\ <<>> \in Seq(Readings) OBVIOUS
  <2> QED BY <1>0, <1>1, <2>1, <2>2
<1>3. ASSUME NEW p, BridgeDies(p) PROVE Bridge'
  <2>1. /\ chunk' = [b \in Bridges |-> IF b = p THEN <<>> ELSE chunk[b]]
        /\ upto' = [b \in Bridges |-> IF b = p THEN 0 ELSE upto[b]]
        /\ journal' = journal /\ offset' = offset
    BY <1>3 DEF BridgeDies, watchdog
  <2> QED BY <1>0, <2>1
<1>4. UNCHANGED seen => Edge' BY <1>0
<1>5. UNCHANGED <<journal, chunk, offset, upto>> => Bridge' BY <1>0
<1>6. ASSUME NEW k \in Collectors, Collect(k) PROVE Edge'
  <2>1. CASE Check(k)
    <3>1. PICK r \in Reading(k, Checks[Len(seen[k]) + 1]) : seen' = [seen EXCEPT ![k] = Append(@, r)]
      BY <2>1 DEF Check
    <3>2. r \in Readings BY <3>1 DEF Reading, Readings
    <3>3. Len(seen[k]) < Len(Checks) BY <2>1 DEF Check
    <3>4. Append(seen[k], r) \in Seq(Readings) /\ Len(Append(seen[k], r)) = Len(seen[k]) + 1
          /\ Len(seen[k]) \in Nat
      BY <1>0, <3>2
    <3>5. Len(Append(seen[k], r)) <= Len(Checks) BY <1>1, <3>3, <3>4
    <3> QED BY <1>0, <3>1, <3>4, <3>5
  <2>2. CASE CollectSaves(k)
    <3>1. seen' = [seen EXCEPT ![k] = <<>>] BY <2>2 DEF CollectSaves
    <3>2. Len(<<>>) = 0 /\ <<>> \in Seq(Readings) OBVIOUS
    <3> QED BY <1>0, <1>1, <3>1, <3>2
  <2>3. CASE CollectTimeout(k) BY <1>2, <2>3 DEF CollectTimeout
  <2>4. CASE Begin(k) \/ CollectLocks(k) \/ CollectCompares(k) \/ CollectEnds(k)
    BY <1>4, <2>4 DEF Begin, CollectLocks, CollectCompares, CollectEnds, edgeVars
  <2> QED BY <1>6, <2>1, <2>2, <2>3, <2>4 DEF Collect
<1>7. ASSUME NEW b \in Bridges, Ingest(b) PROVE Bridge'
  <2>1. CASE ReadNew(b)
    <3> DEFINE new == SubSeq(journal, Start + 1, Len(journal))
               part == SubSeq(new, 1, Min({LinesPerRun, Len(new)}))
    <3>1. new \in Seq(Transitions)
      <4>1. Start \in Nat /\ Start + 1 \in Nat \ {0} BY <1>0 DEF Start
      <4>2. Len(journal) \in Nat /\ Len(journal) <= Len(journal) BY <1>0
      <4> QED BY <1>0, <4>1, <4>2, PartOf
    <3>2. chunk' = [chunk EXCEPT ![b] = part] /\ upto' = [upto EXCEPT ![b] = Len(journal)]
          /\ UNCHANGED <<journal, offset>>
      BY <2>1 DEF ReadNew, watchdog
    <3> HIDE DEF new
    <3>3. part \in Seq(Transitions)
      <4>1. Len(new) \in Nat /\ LinesPerRun \in Nat BY <3>1, BridgeAssumption
      <4>2. Min({LinesPerRun, Len(new)}) \in Nat /\ Min({LinesPerRun, Len(new)}) <= Len(new)
        BY <4>1, SmallerOf
      <4>3. 1 \in Nat \ {0} OBVIOUS
      <4> QED BY <3>1, <4>2, <4>3, PartOf
    <3> HIDE DEF part
    <3>4. Len(journal) \in Nat BY <1>0
    <3> QED BY <1>0, <3>2, <3>3, <3>4
  <2>2. CASE BridgeTimeout(b) BY <1>3, <2>2 DEF BridgeTimeout
  <2>3. CASE BridgeSaves(b)
    <3>1. chunk' = [chunk EXCEPT ![b] = <<>>] /\ UNCHANGED <<journal, offset, upto>>
      BY <2>3 DEF BridgeSaves, watchdog
    <3> QED BY <1>0, <3>1
  <2>4. CASE BridgeEnds(b)
    <3>1. offset' = upto[b] /\ upto' = [upto EXCEPT ![b] = 0] /\ UNCHANGED <<journal, chunk>>
      BY <2>4 DEF BridgeEnds, NewOffset, watchdog
    <3> QED BY <1>0, <3>1
  <2>5. CASE BridgeLocks(b) BY <1>5, <2>5 DEF BridgeLocks, bridgeVars
  <2> QED BY <1>7, <2>1, <2>2, <2>3, <2>4, <2>5 DEF Ingest
<1>8. ASSUME UNCHANGED vars PROVE Edge' /\ Bridge'
  BY <1>4, <1>5, <1>8 DEF vars, edgeVars, bridgeVars
<1>9. ASSUME WatchdogWrites \/ WatchdogRotates PROVE Bridge'
  <2>1. CASE WatchdogWrites
    <3>1. PICK n \in Nodes, to \in Statuses : journal' = Append(journal, [node |-> n, to |-> to])
      BY <2>1 DEF WatchdogWrites
    <3>2. [node |-> n, to |-> to] \in Transitions BY DEF Transitions
    <3>3. journal' \in Seq(Transitions) BY <1>0, <3>1, <3>2
    <3> QED BY <1>0, <2>1, <3>3 DEF WatchdogWrites
  <2>2. CASE WatchdogRotates
    <3>1. journal' = <<>> /\ UNCHANGED <<chunk, offset, upto>> BY <2>2 DEF WatchdogRotates
    <3> QED BY <1>0, <3>1
  <2> QED BY <1>9, <2>1, <2>2
<1>10. ASSUME UNCHANGED <<edgeVars, bridgeVars>> PROVE Edge' /\ Bridge'
  BY <1>4, <1>5, <1>10 DEF edgeVars, bridgeVars
<1>11. ASSUME NEW k \in Collectors, Collect(k), UNCHANGED bridgeVars PROVE Edge' /\ Bridge'
  BY <1>5, <1>6, <1>11 DEF bridgeVars
<1>12. ASSUME NEW b \in Bridges, Ingest(b), UNCHANGED edgeVars PROVE Edge' /\ Bridge'
  BY <1>4, <1>7, <1>12 DEF edgeVars
<1>13. ASSUME NEW p, EdgeDies(p), BridgeDies(p) PROVE Edge' /\ Bridge'
  BY <1>2, <1>3, <1>13
<1>14. ASSUME Outside PROVE Edge' /\ Bridge'
  <2>1. CASE WorldFlips /\ UNCHANGED bridgeVars
    <3>1. UNCHANGED seen /\ UNCHANGED <<journal, chunk, offset, upto>>
      BY <2>1 DEF WorldFlips, bridgeVars
    <3> QED BY <1>4, <1>5, <3>1
  <2>2. CASE Watchdog /\ UNCHANGED edgeVars
    <3>1. UNCHANGED seen /\ (WatchdogWrites \/ WatchdogRotates) BY <2>2 DEF Watchdog, edgeVars
    <3> QED BY <1>4, <1>9, <3>1
  <2>3. CASE UNCHANGED <<edgeVars, bridgeVars>> BY <1>10, <2>3
  <2> QED BY <1>14, <2>1, <2>2, <2>3 DEF Outside
<1>15. ASSUME NEW p \in Procs, Run(p) PROVE Edge' /\ Bridge'
  BY <1>10, <1>11, <1>12, <1>13, <1>15 DEF Run
<1>16. ASSUME NEW p \in Procs, Crash(p) PROVE Edge' /\ Bridge'
  BY <1>13, <1>16 DEF Crash
<1>17. Edge' /\ Bridge' BY <1>8, <1>14, <1>15, <1>16 DEF Next
<1> QED BY <1>17 DEF ReadInv

\* The invariant that the theorems below rest on.
THEOREM Invariant == Spec => []IInv
<1>1. IInv /\ [Next]_vars => IInv' BY StoreStep, ReadStep DEF IInv
<1> QED BY <1>1, InitInv, PTL DEF Spec

-----------------------------------------------------------------------------
(* The promise.                                                            *)

CurrentOf(s) == [n \in StoredNames |-> {r.id : r \in {q \in s.open : q.component = n}}]

\* A save is a step of the lifecycle.
LEMMA SaveSeen ==
    ASSUME IInv, NEW p \in Procs, NEW s, Saving(p, s)
    PROVE  Lifecycle!Next
<1>1. /\ issued' \in Nat /\ issued <= issued' /\ WellKept(s, issued', clock)
      /\ \A r \in s.open : (\E q \in store.open : Alike(q, r)) \/ r.id \in (issued + 1)..issued'
  BY Issuing
<1>2. store' = s /\ issued \in Nat BY DEF Saving, Saves, SaveStore, IInv, StoreInv
<1> DEFINE now(n) == {r.id : r \in {q \in s.open : q.component = n}}
           was(n) == {r.id : r \in {q \in store.open : q.component = n}}
<1>3. ASSUME NEW n \in StoredNames
      PROVE  /\ now(n) \subseteq 1..issued'
             /\ \A x, y \in now(n) : x = y
             /\ now(n) \subseteq was(n) \cup (issued + 1)..issued'
  <2>1. now(n) \subseteq 1..issued' BY <1>1 DEF WellKept
  <2>2. \A x, y \in now(n) : x = y BY <1>1 DEF WellKept
  <2>3. now(n) \subseteq was(n) \cup (issued + 1)..issued' BY <1>1 DEF Alike
  <2> QED BY <2>1, <2>2, <2>3
<1>4. ASSUME NEW c \in StoredNames, NEW d \in StoredNames, c # d PROVE now(c) \cap now(d) = {}
  <2> SUFFICES ASSUME NEW q \in s.open, NEW r \in s.open, q.id = r.id,
                      q.component = c, r.component = d
               PROVE  FALSE
    OBVIOUS
  <2>1. q = r BY <1>1 DEF WellKept
  <2> QED BY <1>4, <2>1
<1> DEFINE cur == [n \in StoredNames |-> {r.id : r \in {q \in store.open : q.component = n}}]
<1>5. \A n \in StoredNames : cur[n] = was(n) /\ cur'[n] = now(n) BY <1>2
<1>6. cur' \in [StoredNames -> SUBSET (1..issued')] BY <1>2, <1>3
<1>7. /\ issued' >= issued
      /\ cur' \in [StoredNames -> SUBSET (1..issued')]
      /\ \A c \in StoredNames :
             /\ \A x, y \in cur'[c] : x = y
             /\ cur'[c] \subseteq cur[c] \cup (issued + 1)..issued'
      /\ \A c, d \in StoredNames : c # d => cur'[c] \cap cur'[d] = {}
  <2> HIDE DEF now, was, cur
  <2> QED BY <1>1, <1>2, <1>3, <1>4, <1>5, <1>6
<1> QED BY <1>7 DEF Lifecycle!Next

\* However collectors, bridges, kills and timeouts interleave, a component has one incident at
\* a time, which keeps its identity while the problem lasts, and what closed stays closed.
THEOREM StoreKeepsPromise == Spec => KeepsLifecyclePromise
<1>1. Init => Lifecycle!Init
  <2> SUFFICES ASSUME Init PROVE Lifecycle!Init OBVIOUS
  <2>1. store.open = {} /\ issued = 0 BY DEF Init, StoreInit, EmptyStore
  <2> QED BY <2>1 DEF Lifecycle!Init
<1>2. IInv /\ [Next]_vars =>
          [Lifecycle!Next]_<<[n \in StoredNames |-> {r.id : r \in {q \in store.open : q.component = n}}], issued>>
  <2> SUFFICES ASSUME IInv, [Next]_vars, ~UNCHANGED <<store, issued>>
               PROVE  Lifecycle!Next
    OBVIOUS
  <2>1. \E p \in Procs : \E s : Saving(p, s) BY Steps DEF Untouched, Moves, Takes
  <2> QED BY <2>1, SaveSeen
<1> QED BY <1>1, <1>2, Invariant, PTL DEF Spec, KeepsLifecyclePromise, Lifecycle!Spec

\* An incident that is no longer open is in the history, unless what closed in the same save
\* fills that; and it closed because a check saw its component well, or because the
\* journal said so of a watched node.
THEOREM ClosingSeen == Spec => ClosedWhenSeenWell
<1>1. ASSUME IInv, [Next]_vars, NEW r \in store.open, r.id \notin OpenIds(store')
      PROVE  /\ \/ r.id \in ClosedIds(store')
                \/ Cardinality({q \in store'.closed : q.at = clock}) >= History
             /\ SeenWell(r)
  <2>1. store' # store BY <1>1 DEF OpenIds
  <2>2. PICK p \in Procs : \E s : Saving(p, s) BY <1>1, <2>1, Steps DEF Untouched, Moves, Takes
  <2>3. PICK s : Saving(p, s) BY <2>2
  <2>4. store' = s BY <2>3 DEF Saving, Saves, SaveStore
  <2>5. ~ \E q \in s.open : Alike(q, r) BY <1>1, <2>4 DEF OpenIds, Alike
  <2>6. Followed(r, s, clock) BY <2>3 DEF Saving, Follows
  <2>7. SeenWell(r) BY <2>3, <2>5 DEF Saving
  <2> QED BY <2>4, <2>5, <2>6, <2>7 DEF Followed, ClosedIds
<1>2. IInv /\ [Next]_vars =>
          [\A r \in store.open :
              r.id \notin OpenIds(store') =>
                  /\ \/ r.id \in ClosedIds(store')
                     \/ Cardinality({q \in store'.closed : q.at = clock}) >= History
                  /\ \/ r.component \in {Redact[n] : n \in Nodes}
                     \/ \E k \in Collectors : \E i \in DOMAIN seen[k] :
                            /\ pc[k] = "reconciling" /\ seen[k][i] = "up"
                            /\ Redact[Checks[i]] = r.component]_vars
  BY <1>1 DEF SeenWell
<1> QED BY <1>2, Invariant, PTL DEF Spec, ClosedWhenSeenWell

-----------------------------------------------------------------------------
(* The store and the journal of the watchdog.                              *)

\* The configurations these theorems are about: one bridge, one collector, no two watched
\* nodes with one stored name, and none that shares it with a component that is checked.
OneBridge == \A b, c \in Bridges : b = c
OneCollector == \A k, l \in Collectors : k = l
NodesApart == \A n, m \in Nodes : Redact[n] = Redact[m] => n = m
ChecksApart == \A n \in Nodes, c \in ToSet(Checks) : Redact[n] # Redact[c]

\* A component that was neither observed nor looked at is left as it is.
LEMMA LeftAlone ==
    ASSUME NEW s, NEW newest \in Nat, NEW bound \in Nat, newest <= bound,
           NEW t \in 0..MaxTime, NEW new, NEW checked,
           WellKept(s, newest, t), NewBatch(new, newest, bound),
           NEW n, Key(n) \notin Seen(new) \cup LookedAt(checked)
    PROVE  OpenAs(Reconcile(s, new, checked, t), n) # {} <=> OpenAs(s, n) # {}
<1> DEFINE s2 == Reconcile(s, new, checked, t)
<1>1. /\ WellKept(s2, bound, t)
      /\ \A r \in s2.open : \/ \E q \in s.open : Alike(q, r)
                            \/ r.id \in (newest + 1)..bound /\ r.component \in Seen(new)
      /\ \A q \in s.open : q \in Closing(s, new, checked) \/ \E r \in s2.open : Alike(q, r)
  BY ReconcileKeeps DEF Reconciled
<1> HIDE DEF s2
<1>2. ASSUME NEW r \in s2.open, Key(r.component) = Key(n)
      PROVE  \E q \in s.open : Key(q.component) = Key(n)
  <2>1. Key(r.component) = r.component BY <1>1 DEF WellKept, Key
  <2> QED BY <1>1, <1>2, <2>1 DEF Alike
<1>3. ASSUME NEW q \in s.open, Key(q.component) = Key(n)
      PROVE  \E r \in s2.open : Key(r.component) = Key(n)
  <2>1. q \notin Closing(s, new, checked) BY <1>3 DEF Closing
  <2> QED BY <1>1, <1>3, <2>1 DEF Alike
<1> QED BY <1>2, <1>3 DEF OpenAs, s2

\* A transition opens or closes the incident of its own node and of no other one.
LEMMA AppliedSays ==
    ASSUME NEW s, NEW i \in Nat, NEW t \in Transitions, issued \in Nat, clock \in 0..MaxTime,
           WellKept(s, issued + i, clock)
    PROVE  LET s2 == Applied(s, t, i + 1)
           IN  /\ t.to = "trigger" => OpenAs(s2, t.node) # {}
               /\ t.to = "resolve" => OpenAs(s2, t.node) = {}
               /\ \A n : Key(n) # Key(t.node) \/ t.to = "other" =>
                      (OpenAs(s2, n) # {} <=> OpenAs(s, n) # {})
<1> DEFINE s2 == Applied(s, t, i + 1)
           newest == issued + i
           bound == issued + (i + 1)
<1>1. newest \in Nat /\ bound \in Nat /\ newest <= bound /\ WellKept(s, newest, clock) OBVIOUS
<1>2. t.node \in Names /\ t.to \in Statuses BY BridgeAssumption DEF Transitions
<1>3. CASE t.to = "trigger"
  <2> DEFINE one == [id |-> Fresh(i + 1), component |-> t.node]
             new == <<one>>
  <2>1. s2 = Reconcile(s, new, {}, clock) BY <1>3 DEF Applied
  <2>2. DOMAIN new = 1..1 /\ new[1] = one /\ one.id = bound /\ one.component = t.node BY DEF Fresh
  <2> HIDE DEF new, one
  <2>3. NewBatch(new, newest, bound)
    <3>1. bound \in (newest + 1)..bound OBVIOUS
    <3> HIDE DEF bound, newest
    <3>2. \A j \in DOMAIN new : j = 1 BY <2>2
    <3> QED BY <1>2, <2>2, <3>1, <3>2 DEF NewBatch
  <2>4. Seen(new) = {Key(t.node)} /\ LookedAt({}) = {} BY <2>2 DEF Seen, LookedAt
  <2>5. OpenAs(s2, t.node) # {}
    <3>0. Reconcile(s, new, {}, clock).open =
              ((s.open \ Again(s, new)) \ Closing(s, new, {}))
              \cup Recounted(s, new) \cup Opened(s, new)
      BY ReconcileParts
    <3>1. s2.open = ((s.open \ Again(s, new)) \ Closing(s, new, {}))
                    \cup Recounted(s, new) \cup Opened(s, new)
      BY <2>1, <3>0
    <3>2. CASE OpenAs(s, t.node) # {}
      <4>1. PICK x \in s.open : Key(x.component) = Key(t.node) BY <3>2 DEF OpenAs
      <4>2. x \notin Closing(s, new, {}) BY <2>4 DEF Closing
      <4>3. PICK y \in s2.open : Alike(x, y)
        <5>1. Reconciled(s, newest, bound, new, {}, clock) BY <1>1, <2>3, ReconcileKeeps
        <5> HIDE DEF newest, bound
        <5> QED BY <2>1, <4>1, <4>2, <5>1 DEF Reconciled
      <4> QED BY <4>1, <4>3 DEF OpenAs, Alike
    <3>3. CASE OpenAs(s, t.node) = {}
      <4>1. one \in First(new)
        <5>1. 1 \in DOMAIN new /\ 1..(1 - 1) = {} BY <2>2
        <5> QED BY <2>2, <5>1 DEF First
      <4>2. one \in Opening(s, new) BY <2>2, <3>3, <4>1 DEF Opening, OpenAs
      <4> DEFINE r == [id |-> one.id, component |-> Redact[one.component], count |-> 1]
      <4>3. r \in Opened(s, new) BY <4>2 DEF Opened
      <4>4. r \in s2.open BY <3>1, <4>3
      <4>5. Key(r.component) = Key(t.node) BY <1>2, <2>2, RedactAssumption DEF Key
      <4> QED BY <4>4, <4>5 DEF OpenAs
    <3> QED BY <3>2, <3>3
  <2>6. ASSUME NEW n, Key(n) # Key(t.node) PROVE OpenAs(s2, n) # {} <=> OpenAs(s, n) # {}
    BY <1>1, <2>1, <2>3, <2>4, <2>6, LeftAlone
  <2> QED BY <1>3, <2>5, <2>6
<1>4. CASE t.to = "resolve" /\ OpenAs(s, t.node) # {}
  <2> DEFINE nothing == <<>>
  <2>1. s2 = Reconcile(s, nothing, {t.node}, clock) BY <1>4 DEF Applied
  <2>2. DOMAIN nothing = 1..0 /\ DOMAIN nothing = {} /\ 0 \in Nat OBVIOUS
  <2> HIDE DEF nothing
  <2>3. NewBatch(nothing, newest, bound) BY <2>2 DEF NewBatch
  <2>4. Seen(nothing) = {} /\ LookedAt({t.node}) = {Key(t.node)} BY <2>2 DEF Seen, LookedAt
  <2>5. OpenAs(s2, t.node) = {}
    <3>0. Reconcile(s, nothing, {t.node}, clock).open =
              ((s.open \ Again(s, nothing)) \ Closing(s, nothing, {t.node}))
              \cup Recounted(s, nothing) \cup Opened(s, nothing)
      BY ReconcileParts
    <3>1. s2.open = ((s.open \ Again(s, nothing)) \ Closing(s, nothing, {t.node}))
                    \cup Recounted(s, nothing) \cup Opened(s, nothing)
      BY <2>1, <3>0
    <3>2. Again(s, nothing) = {} BY <2>4 DEF Again
    <3>3. Recounted(s, nothing) = {} BY <3>2 DEF Recounted
    <3>4. Opened(s, nothing) = {} BY <2>2 DEF Opened, Opening, First
    <3>5. s2.open = s.open \ Closing(s, nothing, {t.node}) BY <3>1, <3>2, <3>3, <3>4
    <3> QED BY <2>4, <3>5 DEF OpenAs, Closing
  <2>6. ASSUME NEW n, Key(n) # Key(t.node) PROVE OpenAs(s2, n) # {} <=> OpenAs(s, n) # {}
    BY <1>1, <2>1, <2>3, <2>4, <2>6, LeftAlone
  <2> QED BY <1>4, <2>5, <2>6
<1>5. CASE t.to # "trigger" /\ ~(t.to = "resolve" /\ OpenAs(s, t.node) # {})
  BY <1>5 DEF Applied
<1> QED BY <1>3, <1>4, <1>5

-----------------------------------------------------------------------------
\* A word of the watchdog on node n.
Word(e, n) == e.node = n /\ e.to # "other"

\* What the first m transitions of a chunk did to node n: nothing, or what the last word said.
HasSaid(s, s2, lines, m, n) ==
    \/ /\ \A j \in 1..m : ~Word(lines[j], n)
       /\ OpenAs(s2, n) # {} <=> OpenAs(s, n) # {}
    \/ \E i \in 1..m :
           /\ Word(lines[i], n) /\ \A j \in (i + 1)..m : ~Word(lines[j], n)
           /\ OpenAs(s2, n) # {} <=> lines[i].to = "trigger"

LEMMA IngestedSays ==
    ASSUME IInv, NodesApart, NEW b \in Bridges, pc[b] = "applying"
    PROVE  \A n \in Nodes : HasSaid(store, Ingested(b), chunk[b], Len(chunk[b]), n)
<1> DEFINE f == AfterFirst(b)
           L == Len(chunk[b])
           holds(m) == /\ WellKept(f[m], issued + m, clock)
                       /\ \A n \in Nodes : HasSaid(store, f[m], chunk[b], m, n)
           bad == {m \in 0..L : ~holds(m)}
<1>1. /\ mem[b] = store /\ issued \in Nat /\ clock \in 0..MaxTime /\ WellKept(store, issued, clock)
      /\ chunk[b] \in Seq(Transitions) /\ L \in Nat
  BY BridgeAssumption DEF IInv, StoreInv, ReadInv, Holding
<1>2. /\ f[0] = store
      /\ \A m \in 1..L : f[m] = Applied(f[m - 1], chunk[b][m], m)
  BY <1>1, AfterFirstIs
<1> HIDE DEF f
<1>3. holds(0)
  <2>1. issued + 0 = issued BY <1>1
  <2>2. 1..0 = {} OBVIOUS
  <2> QED BY <1>1, <1>2, <2>1, <2>2 DEF HasSaid
<1>4. ASSUME NEW m \in 1..L, holds(m - 1) PROVE holds(m)
  <2> DEFINE o == m - 1
             tr == chunk[b][m]
  <2>1. o \in Nat /\ o + 1 = m /\ m \in Nat BY <1>1
  <2>2. tr \in Transitions BY <1>1
  <2>3. f[m] = Applied(f[o], tr, o + 1) BY <1>2, <2>1
  <2>4. /\ WellKept(f[o], issued + o, clock)
        /\ \A n \in Nodes : HasSaid(store, f[o], chunk[b], o, n)
    BY <1>4
  <2>5. \A j \in 1..m : j = m \/ j \in 1..o BY <2>1
  <2>6. chunk[b][m] = tr OBVIOUS
  <2> HIDE DEF o, tr
  <2>7. WellKept(f[m], issued + m, clock)
    BY <1>1, <2>1, <2>2, <2>3, <2>4, AppliedKeeps
  <2>8. /\ tr.to = "trigger" => OpenAs(f[m], tr.node) # {}
        /\ tr.to = "resolve" => OpenAs(f[m], tr.node) = {}
        /\ \A n : Key(n) # Key(tr.node) \/ tr.to = "other" =>
               (OpenAs(f[m], n) # {} <=> OpenAs(f[o], n) # {})
    BY <1>1, <2>1, <2>2, <2>3, <2>4, AppliedSays
  <2>9. tr.node \in Nodes /\ tr.to \in {"trigger", "resolve", "other"}
    BY <2>2 DEF Transitions, Statuses
  <2>10. ASSUME NEW n \in Nodes PROVE HasSaid(store, f[m], chunk[b], m, n)
    <3>1. CASE Word(tr, n)
      <4>1. n = tr.node /\ tr.to \in {"trigger", "resolve"} BY <2>9, <3>1 DEF Word
      <4>2. OpenAs(f[m], n) # {} <=> tr.to = "trigger" BY <2>8, <4>1
      <4>3. m \in 1..m /\ (m + 1)..m = {} BY <2>1
      <4> QED BY <2>6, <3>1, <4>2, <4>3 DEF HasSaid
    <3>2. CASE ~Word(tr, n)
      <4>1. OpenAs(f[m], n) # {} <=> OpenAs(f[o], n) # {}
        BY <2>8, <2>9, <3>2 DEF Word, NodesApart, Key
      <4>2. HasSaid(store, f[o], chunk[b], o, n) BY <2>4
      <4>3. CASE /\ \A j \in 1..o : ~Word(chunk[b][j], n)
                 /\ OpenAs(f[o], n) # {} <=> OpenAs(store, n) # {}
        BY <2>5, <2>6, <3>2, <4>1, <4>3 DEF HasSaid
      <4>4. CASE \E i \in 1..o :
                     /\ Word(chunk[b][i], n) /\ \A j \in (i + 1)..o : ~Word(chunk[b][j], n)
                     /\ OpenAs(f[o], n) # {} <=> chunk[b][i].to = "trigger"
        <5>1. PICK i \in 1..o :
                     /\ Word(chunk[b][i], n) /\ \A j \in (i + 1)..o : ~Word(chunk[b][j], n)
                     /\ OpenAs(f[o], n) # {} <=> chunk[b][i].to = "trigger"
          BY <4>4
        <5>2. i \in 1..m /\ \A j \in (i + 1)..m : j = m \/ j \in (i + 1)..o BY <2>1
        <5> QED BY <2>6, <3>2, <4>1, <5>1, <5>2 DEF HasSaid
      <4> QED BY <4>2, <4>3, <4>4 DEF HasSaid
    <3> QED BY <3>1, <3>2
  <2> QED BY <2>7, <2>10
<1>5. bad = {}
  <2> SUFFICES ASSUME bad # {} PROVE FALSE OBVIOUS
  <2>1. bad \in SUBSET Nat BY <1>1
  <2> HIDE DEF holds
  <2>2. PICK k \in bad : \A m \in bad : k <= m BY <2>1, LeastMember
  <2>3. k \in 0..L /\ k \in Nat /\ ~holds(k) BY <1>1
  <2>4. k # 0 BY <1>3, <2>3
  <2>5. k \in 1..L /\ k - 1 \in 0..L /\ ~(k <= k - 1) BY <1>1, <2>3, <2>4
  <2>6. holds(k - 1) BY <2>2, <2>5
  <2> QED BY <1>4, <2>3, <2>5, <2>6
<1>6. L \in 0..L BY <1>1
<1>7. holds(L) BY <1>5, <1>6
<1>8. Ingested(b) = f[L] BY DEF Ingested, f
<1> QED BY <1>7, <1>8

-----------------------------------------------------------------------------
(* As long as nothing is missed, the store agrees with the journal up to what was handled. *)

\* How much of the journal that is there has been handled.
Handled == IF None \in outdated THEN 0 ELSE offset

SilentAfter(n, from) == \A i \in (from + 1)..Len(journal) : ~Word(journal[i], n)
Agrees(s, n) == OpenAs(s, n) # {} <=> last[n] = "trigger"

\* Store s says of each node that the journal is silent about behind `from' what its last word was.
SettledAt(s, from) == \A n \in Nodes : SilentAfter(n, from) => Agrees(s, n)

\* Bridge b carries what the journal has between what was handled and where it read.
Carries(b) ==
    /\ Handled <= upto[b] /\ upto[b] <= Len(journal) /\ Len(chunk[b]) = upto[b] - Handled
    /\ \A i \in 1..Len(chunk[b]) : chunk[b][i] = journal[Handled + i]

LastWords ==
    /\ last \in [Nodes -> {"trigger", "resolve"}]
    /\ \A n \in Nodes : \A i \in 1..Len(journal) :
           Word(journal[i], n) /\ SilentAfter(n, i) => journal[i].to = last[n]

AtBridge(b) ==
    /\ pc[b] \in {"read", "applying"} => IF b \in outdated THEN chunk[b] = <<>> ELSE Carries(b)
    /\ pc[b] = "notifying" /\ b \notin outdated =>
           upto[b] <= Len(journal) /\ SettledAt(store, upto[b])

FollowInv ==
    /\ LastWords
    /\ \A b \in Bridges : /\ pc[b] \in {"idle", "read", "applying", "notifying"}
                          /\ b \in outdated => None \in outdated
    /\ ~missed => /\ Handled <= Len(journal) /\ SettledAt(store, Handled)
                  /\ \A b \in Bridges : AtBridge(b)

\* The watched nodes have in s2 what they have in s.
SameNodes(s, s2) == \A n \in Nodes : OpenAs(s2, n) # {} <=> OpenAs(s, n) # {}

\* Neither the journal nor how much of it was handled changes, nor what the store says of the
\* nodes; a bridge goes on only by taking the lock, or ends.
Quiet ==
    /\ UNCHANGED <<journal, last, offset, outdated, missed>> /\ SameNodes(store, store')
    /\ \A b \in Bridges :
           \/ pc'[b] = "idle"
           \/ /\ chunk'[b] = chunk[b] /\ upto'[b] = upto[b]
              /\ pc'[b] = pc[b] \/ (pc[b] = "read" /\ pc'[b] = "applying")

LEMMA QuietKeeps == FollowInv /\ Quiet => FollowInv'
<1> SUFFICES ASSUME FollowInv, Quiet PROVE FollowInv' OBVIOUS
<1>1. UNCHANGED <<journal, last, offset, outdated, missed>> BY DEF Quiet
<1>2. Handled' = Handled BY <1>1 DEF Handled
<1>3. LastWords' BY <1>1 DEF FollowInv, LastWords, SilentAfter
<1>4. \A from : SettledAt(store, from) => SettledAt(store, from)'
  <2> SUFFICES ASSUME NEW from, SettledAt(store, from), NEW n \in Nodes, SilentAfter(n, from)'
               PROVE  Agrees(store, n)'
    BY DEF SettledAt
  <2>1. SilentAfter(n, from) BY <1>1 DEF SilentAfter
  <2>2. Agrees(store, n) BY <2>1 DEF SettledAt
  <2> QED BY <1>1, <2>2 DEF Agrees, Quiet, SameNodes, OpenAs
<1>5. \A b \in Bridges : /\ pc'[b] \in {"idle", "read", "applying", "notifying"}
                         /\ b \in outdated' => None \in outdated'
  BY <1>1 DEF FollowInv, Quiet
<1>6. ASSUME ~missed', NEW b \in Bridges PROVE AtBridge(b)'
  <2>1. AtBridge(b) BY <1>1, <1>6 DEF FollowInv
  <2>2. CASE pc'[b] = "idle" BY <2>2 DEF AtBridge
  <2>3. CASE /\ chunk'[b] = chunk[b] /\ upto'[b] = upto[b]
             /\ pc'[b] = pc[b] \/ (pc[b] = "read" /\ pc'[b] = "applying")
    <3>1. Carries(b) => Carries(b)' BY <1>1, <1>2, <2>3 DEF Carries
    <3>2. SettledAt(store, upto[b]) => SettledAt(store, upto[b])'
      BY <1>4, <2>3 DEF SettledAt, SilentAfter
    <3> QED BY <1>1, <2>1, <2>3, <3>1, <3>2 DEF AtBridge
  <2> QED BY <2>2, <2>3 DEF Quiet
<1>7. ASSUME ~missed' PROVE Handled' <= Len(journal') /\ SettledAt(store, Handled)'
  BY <1>1, <1>2, <1>4, <1>7 DEF FollowInv
<1> QED BY <1>3, <1>5, <1>6, <1>7 DEF FollowInv

\* The watchdog appends a line.
LEMMA WriteKeeps == IInv /\ FollowInv /\ WatchdogWrites => FollowInv'
<1> SUFFICES ASSUME IInv, FollowInv, WatchdogWrites PROVE FollowInv' OBVIOUS
<1>1. PICK m \in Nodes, to \in Statuses :
         /\ journal' = Append(journal, [node |-> m, to |-> to])
         /\ last' = [last EXCEPT ![m] = IF to = "other" THEN @ ELSE to]
  BY DEF WatchdogWrites
<1>2. UNCHANGED <<store, pc, chunk, upto, offset, outdated, missed>>
  BY DEF WatchdogWrites, storeVars
<1> DEFINE L == Len(journal)
           e == [node |-> m, to |-> to]
<1>3. journal \in Seq(Transitions) /\ L \in Nat /\ e \in Transitions
  BY DEF IInv, ReadInv, Transitions
<1>4. Len(journal') = L + 1 /\ journal'[L + 1] = e /\ \A i \in 1..L : journal'[i] = journal[i]
  BY <1>1, <1>3
<1>5. e.node = m /\ e.to = to OBVIOUS
<1> HIDE DEF e
<1>6. LastWords BY DEF FollowInv
<1>7. /\ last' \in [Nodes -> {"trigger", "resolve"}]
      /\ \A n \in Nodes : last'[n] = IF n = m /\ to # "other" THEN to ELSE last[n]
  BY <1>1, <1>6 DEF LastWords, Statuses
<1>8. ASSUME NEW n \in Nodes, NEW from \in Nat, from <= L, SilentAfter(n, from)'
      PROVE  SilentAfter(n, from) /\ ~Word(e, n) /\ last'[n] = last[n]
  <2>1. \A i \in (from + 1)..(L + 1) : ~Word(journal'[i], n) BY <1>4, <1>8 DEF SilentAfter
  <2>2. L + 1 \in (from + 1)..(L + 1) BY <1>3, <1>8
  <2>3. ~Word(e, n) BY <1>4, <2>1, <2>2
  <2>4. \A i \in (from + 1)..L : i \in (from + 1)..(L + 1) /\ i \in 1..L BY <1>3, <1>8
  <2>5. SilentAfter(n, from) BY <1>4, <2>1, <2>4 DEF SilentAfter
  <2> QED BY <1>5, <1>7, <2>3, <2>5 DEF Word
<1>9. ASSUME NEW n \in Nodes, NEW i \in 1..(L + 1), Word(journal'[i], n), SilentAfter(n, i)'
      PROVE  journal'[i].to = last'[n]
  <2>1. CASE i = L + 1 BY <1>4, <1>5, <1>7, <1>9, <2>1 DEF Word
  <2>2. CASE i # L + 1
    <3>1. i \in 1..L /\ i \in Nat /\ i <= L BY <1>3, <2>2
    <3>2. SilentAfter(n, i) /\ last'[n] = last[n] BY <1>8, <1>9, <3>1
    <3> QED BY <1>4, <1>6, <1>9, <3>1, <3>2 DEF LastWords
  <2> QED BY <2>1, <2>2
<1>10. LastWords' BY <1>4, <1>7, <1>9 DEF LastWords
<1>11. ASSUME NEW from \in Nat, from <= L, SettledAt(store, from) PROVE SettledAt(store, from)'
  <2> SUFFICES ASSUME NEW n \in Nodes, SilentAfter(n, from)' PROVE Agrees(store, n)'
    BY DEF SettledAt
  <2>1. SilentAfter(n, from) /\ last'[n] = last[n] BY <1>8, <1>11
  <2> QED BY <1>2, <1>11, <2>1 DEF SettledAt, Agrees, OpenAs
<1>12. Handled' = Handled /\ Handled \in Nat BY <1>2 DEF Handled, IInv, ReadInv
<1>13. ASSUME ~missed' PROVE Handled' <= Len(journal') /\ SettledAt(store, Handled)'
  <2>1. Handled <= L /\ SettledAt(store, Handled) BY <1>2, <1>13 DEF FollowInv
  <2>2. Handled <= L + 1 BY <1>3, <1>12, <2>1
  <2> QED BY <1>4, <1>11, <1>12, <2>1, <2>2 DEF SettledAt, SilentAfter
<1>14. ASSUME ~missed', NEW b \in Bridges PROVE AtBridge(b)'
  <2>1. AtBridge(b) /\ upto[b] \in Nat /\ chunk[b] \in Seq(Transitions)
    BY <1>2, <1>14 DEF FollowInv, IInv, ReadInv
  <2>2. ASSUME Carries(b) PROVE Carries(b)'
    <3>1. upto[b] <= L + 1 /\ Len(chunk[b]) = upto[b] - Handled /\ Handled <= upto[b]
      BY <1>3, <2>1, <2>2 DEF Carries
    <3>2. \A i \in 1..Len(chunk[b]) : Handled + i \in 1..L
      BY <1>3, <1>12, <2>1, <2>2 DEF Carries
    <3>3. \A i \in 1..Len(chunk[b]) : chunk[b][i] = journal'[Handled + i]
      BY <1>4, <2>2, <3>2 DEF Carries
    <3> QED BY <1>2, <1>4, <1>12, <3>1, <3>3 DEF Carries
  <2>3. ASSUME upto[b] <= L, SettledAt(store, upto[b])
        PROVE  upto'[b] <= Len(journal') /\ SettledAt(store, upto[b])'
    <3>1. upto[b] <= L + 1 BY <1>3, <2>1, <2>3
    <3> QED BY <1>2, <1>4, <1>11, <2>1, <2>3, <3>1 DEF SettledAt, SilentAfter
  <2> QED BY <1>2, <2>1, <2>2, <2>3 DEF AtBridge
<1>15. \A b \in Bridges : /\ pc'[b] \in {"idle", "read", "applying", "notifying"}
                          /\ b \in outdated' => None \in outdated'
  BY <1>2 DEF FollowInv
<1> QED BY <1>10, <1>13, <1>14, <1>15 DEF FollowInv

\* The watchdog replaces the journal.
LEMMA RotateKeeps == IInv /\ FollowInv /\ WatchdogRotates => FollowInv'
<1> SUFFICES ASSUME IInv, FollowInv, WatchdogRotates PROVE FollowInv' OBVIOUS
<1>1. /\ journal' = <<>> /\ missed' = (missed \/ offset # Len(journal) \/ None \in outdated)
      /\ outdated' = {None} \cup {b \in Bridges : pc[b] # "idle"}
      /\ UNCHANGED <<store, pc, chunk, upto, offset, last>>
  BY DEF WatchdogRotates, storeVars
<1>2. journal \in Seq(Transitions) /\ Len(journal) \in Nat /\ Len(journal') = 0
  BY <1>1 DEF IInv, ReadInv
<1>3. Handled' = 0 BY <1>1 DEF Handled
<1>4. LastWords' BY <1>1, <1>2 DEF FollowInv, LastWords
<1>5. ASSUME ~missed' PROVE Handled = Len(journal) /\ SettledAt(store, Handled) /\ ~missed
  BY <1>1, <1>5 DEF FollowInv, Handled
<1>6. ASSUME ~missed' PROVE Handled' <= Len(journal') /\ SettledAt(store, Handled)'
  <2>1. \A n : SilentAfter(n, Len(journal)) BY <1>2 DEF SilentAfter
  <2>2. \A n \in Nodes : Agrees(store, n) BY <1>5, <1>6, <2>1 DEF SettledAt
  <2>3. \A n \in Nodes : Agrees(store, n)' BY <1>1, <2>2 DEF Agrees, OpenAs
  <2> QED BY <1>2, <1>3, <2>3 DEF SettledAt
<1>7. ASSUME ~missed', NEW b \in Bridges PROVE AtBridge(b)'
  <2>1. CASE pc[b] \in {"read", "applying"}
    <3>1. chunk[b] = <<>>
      <4>1. AtBridge(b) BY <1>5, <1>7 DEF FollowInv
      <4>2. CASE b \in outdated BY <2>1, <4>1, <4>2 DEF AtBridge
      <4>3. CASE Carries(b)
        <5>1. chunk[b] \in Seq(Transitions) /\ upto[b] \in Nat BY DEF IInv, ReadInv
        <5>2. Len(chunk[b]) = 0 BY <1>2, <1>5, <1>7, <4>3, <5>1 DEF Carries
        <5> QED BY <5>1, <5>2
      <4> QED BY <2>1, <4>1, <4>2, <4>3 DEF AtBridge
    <3> QED BY <1>1, <2>1, <3>1 DEF AtBridge
  <2>2. CASE pc[b] = "notifying" BY <1>1, <2>2 DEF AtBridge
  <2>3. CASE pc[b] = "idle" BY <1>1, <2>3 DEF AtBridge
  <2> QED BY <2>1, <2>2, <2>3 DEF FollowInv
<1>8. \A b \in Bridges : /\ pc'[b] \in {"idle", "read", "applying", "notifying"}
                         /\ b \in outdated' => None \in outdated'
  BY <1>1 DEF FollowInv
<1> QED BY <1>4, <1>6, <1>7, <1>8 DEF FollowInv

LEMMA AllOf ==
    ASSUME NEW S, NEW q \in Seq(S)
    PROVE  SubSeq(q, 1, Len(q)) = q
<1>1. Len(q) \in Nat OBVIOUS
<1>2. SubSeq(q, 1, Len(q)) = [i \in 1..Len(q) |-> q[i]] BY <1>1
<1> QED BY <1>1, <1>2

\* The part of a list behind its first elements.
LEMMA RestOf ==
    ASSUME NEW S, NEW q \in Seq(S), NEW from \in Nat, NEW to \in Nat, from <= to
    PROVE  /\ Len(SubSeq(q, from + 1, to)) = to - from
           /\ \A i \in 1..(to - from) : SubSeq(q, from + 1, to)[i] = q[from + i]
<1>1. Len(SubSeq(q, from + 1, to)) = to - from OBVIOUS
<1>2. ASSUME NEW i \in 1..(to - from) PROVE SubSeq(q, from + 1, to)[i] = q[from + i] OBVIOUS
<1> QED BY <1>1, <1>2

\* A bridge reads what is new: all of it, and nothing else, or something is missed.
LEMMA ReadKeeps ==
    ASSUME IInv, FollowInv, OneBridge, NEW b \in Bridges, ReadNew(b)
    PROVE  FollowInv'
<1> DEFINE L == Len(journal)
           new == SubSeq(journal, Start + 1, L)
           part == SubSeq(new, 1, Min({LinesPerRun, Len(new)}))
<1>1. /\ pc[b] = "idle" /\ pc' = [pc EXCEPT ![b] = "read"]
      /\ chunk' = [chunk EXCEPT ![b] = part] /\ upto' = [upto EXCEPT ![b] = L]
      /\ missed' = (missed \/ Len(new) > LinesPerRun \/ (None \in outdated /\ offset \in 1..L))
      /\ outdated' = outdated \ {b}
      /\ UNCHANGED <<store, journal, last, offset>>
  BY DEF ReadNew, GoTo, watchdog
<1>2. /\ journal \in Seq(Transitions) /\ L \in Nat /\ offset \in Nat
      /\ chunk \in [Bridges -> Seq(Transitions)] /\ upto \in [Bridges -> Nat]
      /\ pc = [p \in Procs |-> pc[p]] /\ b \in Procs /\ LinesPerRun \in Nat
  BY BridgeAssumption DEF IInv, ReadInv, StoreInv
<1>2a. ~missed' => /\ ~missed /\ ~(Len(new) > LinesPerRun)
                   /\ None \in outdated => ~(offset \in 1..L)
  <2> HIDE DEF new, L
  <2> QED BY <1>1
<1>3. b # None BY <1>2, StoreAssumption
<1>4. (None \in outdated' <=> None \in outdated) /\ Handled' = Handled
  BY <1>1, <1>3 DEF Handled
<1>5. LastWords' BY <1>1 DEF FollowInv, LastWords, SilentAfter
<1>6. ASSUME ~missed' PROVE Handled' <= Len(journal') /\ SettledAt(store, Handled)'
  BY <1>1, <1>4, <1>6 DEF FollowInv, SettledAt, SilentAfter, Agrees
<1>7. ASSUME ~missed' PROVE Start = Handled
  <2>1. Handled <= L BY <1>1, <1>7 DEF FollowInv
  <2>2. CASE None \in outdated
    <3>1. ~(offset \in 1..L) BY <1>2a, <1>7, <2>2
    <3>2. offset = 0 \/ offset > L BY <1>2, <3>1
    <3> QED BY <1>2, <2>2, <3>2 DEF Start, Handled
  <2>3. CASE None \notin outdated BY <1>2, <2>1, <2>3 DEF Start, Handled
  <2> QED BY <2>2, <2>3
<1>8. ASSUME ~missed' PROVE Carries(b)'
  <2>1. Handled <= L /\ Handled \in Nat BY <1>1, <1>2, <1>8 DEF FollowInv, Handled
  <2>2. new = SubSeq(journal, Handled + 1, L) BY <1>7, <1>8
  <2>3. Len(new) = L - Handled /\ new \in Seq(Transitions)
        /\ \A i \in 1..(L - Handled) : new[i] = journal[Handled + i]
    <3>1. Handled + 1 \in Nat \ {0} /\ L <= L BY <1>2, <2>1
    <3>2. new \in Seq(Transitions) BY <1>2, <2>2, <3>1, PartOf
    <3> HIDE DEF L
    <3>3. /\ Len(SubSeq(journal, Handled + 1, L)) = L - Handled
          /\ \A i \in 1..(L - Handled) : SubSeq(journal, Handled + 1, L)[i] = journal[Handled + i]
      BY <1>2, <2>1, RestOf
    <3> QED BY <2>2, <3>2, <3>3
  <2> HIDE DEF new
  <2>4. ~(Len(new) > LinesPerRun) /\ Len(new) \in Nat BY <1>2a, <1>8, <2>3
  <2>5. Min({LinesPerRun, Len(new)}) = Len(new)
    <3>1. Min({LinesPerRun, Len(new)}) \in {LinesPerRun, Len(new)}
          /\ Min({LinesPerRun, Len(new)}) <= LinesPerRun /\ Min({LinesPerRun, Len(new)}) <= Len(new)
      BY <1>2, <2>4, SmallerOf
    <3> QED BY <1>2, <2>4, <3>1
  <2>6. /\ Len(part) = Len(new) /\ \A i \in 1..Len(new) : part[i] = new[i]
    <3>1. part = new BY <2>3, <2>5, AllOf
    <3> QED BY <3>1
  <2> HIDE DEF part
  <2>7. chunk'[b] = part /\ upto'[b] = L BY <1>1, <1>2
  <2>8. L <= L BY <1>2
  <2> QED BY <1>1, <1>4, <2>1, <2>3, <2>6, <2>7, <2>8 DEF Carries
<1>9. ASSUME ~missed', NEW c \in Bridges PROVE AtBridge(c)'
  <2>1. c = b BY DEF OneBridge
  <2>2. pc'[b] = "read" /\ b \notin outdated' BY <1>1, <1>2
  <2> QED BY <1>8, <1>9, <2>1, <2>2 DEF AtBridge
<1>10. \A c \in Bridges : /\ pc'[c] \in {"idle", "read", "applying", "notifying"}
                          /\ c \in outdated' => None \in outdated'
  <2>1. \A c \in Bridges : c = b BY DEF OneBridge
  <2>2. pc'[b] = "read" /\ b \notin outdated' BY <1>1, <1>2
  <2> QED BY <2>1, <2>2
<1> QED BY <1>5, <1>6, <1>9, <1>10 DEF FollowInv

\* A bridge applies what it carries, and the store says what the last words were.
LEMMA ApplyKeeps ==
    ASSUME IInv, FollowInv, OneBridge, NodesApart, NEW b \in Bridges, BridgeSaves(b)
    PROVE  FollowInv'
<1> DEFINE L == Len(journal)
<1>1. /\ pc[b] = "applying" /\ pc' = [pc EXCEPT ![b] = "notifying"]
      /\ chunk[b] = <<>> => store' = store
      /\ chunk[b] # <<>> => store' = Ingested(b)
      /\ UNCHANGED <<journal, last, offset, upto, outdated, missed>>
  BY DEF BridgeSaves, GoTo, watchdog, SaveStore
<1>2. /\ journal \in Seq(Transitions) /\ L \in Nat /\ offset \in Nat
      /\ chunk[b] \in Seq(Transitions) /\ upto[b] \in Nat
      /\ pc = [p \in Procs |-> pc[p]] /\ b \in Procs
  BY BridgeAssumption DEF IInv, ReadInv, StoreInv
<1>3. pc'[b] = "notifying" /\ \A c \in Bridges : c = b BY <1>1, <1>2 DEF OneBridge
<1>4. Handled' = Handled /\ Handled \in Nat BY <1>1, <1>2 DEF Handled
<1>5. LastWords' /\ LastWords BY <1>1 DEF FollowInv, LastWords, SilentAfter
<1>6. ASSUME ~missed'
      PROVE  /\ Handled <= L /\ SettledAt(store, Handled)
             /\ b \notin outdated => Carries(b)
             /\ b \in outdated => store' = store
  <2>1. Handled <= L /\ SettledAt(store, Handled) /\ AtBridge(b) BY <1>1, <1>6 DEF FollowInv
  <2> QED BY <1>1, <2>1 DEF AtBridge
<1>7. ASSUME ~missed', b \notin outdated PROVE SettledAt(store', upto[b])
  <2>1. /\ Handled <= upto[b] /\ upto[b] <= L /\ Len(chunk[b]) = upto[b] - Handled
        /\ \A i \in 1..Len(chunk[b]) : chunk[b][i] = journal[Handled + i]
        /\ SettledAt(store, Handled)
    BY <1>6, <1>7 DEF Carries
  <2>2. CASE chunk[b] = <<>>
    <3>1. upto[b] = Handled BY <1>2, <1>4, <2>1, <2>2
    <3> QED BY <1>1, <2>1, <2>2, <3>1
  <2>3. CASE chunk[b] # <<>>
    <3> DEFINE m == Len(chunk[b])
               s2 == Ingested(b)
    <3>1. \A n \in Nodes : HasSaid(store, s2, chunk[b], m, n) BY <1>1, IngestedSays
    <3>2. store' = s2 BY <1>1, <2>3
    <3>3. m \in Nat /\ \A i \in 1..m : Handled + i \in 1..L /\ i \in Nat BY <1>2, <1>4, <2>1
    <3>4. \A i \in (Handled + 1)..L :
              i \in (upto[b] + 1)..L \/ (i - Handled \in 1..m /\ Handled + (i - Handled) = i)
      BY <1>2, <1>4, <2>1
    <3> HIDE DEF m, s2
    <3>5. \A i \in 1..m : chunk[b][i] = journal[Handled + i] BY <2>1 DEF m
    <3>6. ASSUME NEW n \in Nodes, SilentAfter(n, upto[b]) PROVE Agrees(s2, n)
      <4>1. CASE /\ \A j \in 1..m : ~Word(chunk[b][j], n)
                 /\ OpenAs(s2, n) # {} <=> OpenAs(store, n) # {}
        <5>1. SilentAfter(n, Handled) BY <3>4, <3>5, <3>6, <4>1 DEF SilentAfter
        <5> QED BY <2>1, <4>1, <5>1 DEF SettledAt, Agrees
      <4>2. ASSUME NEW i \in 1..m, Word(chunk[b][i], n),
                   \A j \in (i + 1)..m : ~Word(chunk[b][j], n),
                   OpenAs(s2, n) # {} <=> chunk[b][i].to = "trigger"
            PROVE  Agrees(s2, n)
        <5>1. \A j \in (Handled + i + 1)..L :
                  j \in (upto[b] + 1)..L \/ (j - Handled \in (i + 1)..m /\ Handled + (j - Handled) = j)
          <6>1. i \in Nat /\ m = upto[b] - Handled BY <2>1, <3>3 DEF m
          <6> QED BY <1>2, <1>4, <2>1, <6>1
        <5>2. \A j \in (i + 1)..m : j \in 1..m BY <3>3
        <5>3. SilentAfter(n, Handled + i) BY <3>5, <3>6, <4>2, <5>1, <5>2 DEF SilentAfter
        <5>4. chunk[b][i].to = last[n] BY <1>5, <3>3, <3>5, <4>2, <5>3 DEF LastWords
        <5> QED BY <4>2, <5>4 DEF Agrees
      <4> QED BY <3>1, <4>1, <4>2 DEF HasSaid
    <3> QED BY <3>2, <3>6 DEF SettledAt
  <2> QED BY <2>2, <2>3
<1>8. ASSUME ~missed' PROVE SettledAt(store', Handled)
  <2>1. CASE b \in outdated BY <1>6, <1>8, <2>1
  <2>2. CASE b \notin outdated
    <3>1. SettledAt(store', upto[b]) /\ Handled <= upto[b] BY <1>6, <1>7, <1>8, <2>2 DEF Carries
    <3>2. \A i \in (upto[b] + 1)..L : i \in (Handled + 1)..L BY <1>2, <1>4, <3>1
    <3> QED BY <3>1, <3>2 DEF SettledAt, SilentAfter
  <2> QED BY <2>1, <2>2
<1>9. \A from : SettledAt(store', from) => SettledAt(store, from)'
  BY <1>1 DEF SettledAt, SilentAfter, Agrees
<1>10. ASSUME ~missed' PROVE Handled' <= Len(journal') /\ SettledAt(store, Handled)'
  BY <1>1, <1>4, <1>6, <1>8, <1>9, <1>10 DEF SettledAt, SilentAfter
<1>11. ASSUME ~missed', NEW c \in Bridges PROVE AtBridge(c)'
  <2>1. c = b BY <1>3
  <2>2. b \notin outdated => upto[b] <= L BY <1>6, <1>11 DEF Carries
  <2>3. b \notin outdated => SettledAt(store, upto[b])'
    BY <1>1, <1>7, <1>9, <1>11 DEF SettledAt, SilentAfter
  <2> QED BY <1>1, <1>3, <2>1, <2>2, <2>3 DEF AtBridge
<1>12. \A c \in Bridges : /\ pc'[c] \in {"idle", "read", "applying", "notifying"}
                          /\ c \in outdated' => None \in outdated'
  BY <1>1, <1>3 DEF FollowInv
<1> QED BY <1>5, <1>10, <1>11, <1>12 DEF FollowInv

\* A bridge writes down how far it has read.
LEMMA EndKeeps ==
    ASSUME IInv, FollowInv, OneBridge, NEW b \in Bridges, BridgeEnds(b)
    PROVE  FollowInv'
<1>1. /\ pc[b] = "notifying" /\ pc' = [pc EXCEPT ![b] = "idle"] /\ offset' = upto[b]
      /\ outdated' = IF b \in outdated THEN outdated \cup {None} ELSE outdated \ {None}
      /\ UNCHANGED <<store, journal, last, missed>>
  BY DEF BridgeEnds, GoTo, NewOffset, watchdog
<1>2. pc = [p \in Procs |-> pc[p]] /\ b \in Procs /\ b # None
  BY BridgeAssumption, StoreAssumption DEF IInv, StoreInv
<1>3. pc'[b] = "idle" /\ \A c \in Bridges : c = b BY <1>1, <1>2 DEF OneBridge
<1>4. LastWords' BY <1>1 DEF FollowInv, LastWords, SilentAfter
<1>5. \A from : SettledAt(store, from) => SettledAt(store, from)'
  BY <1>1 DEF SettledAt, SilentAfter, Agrees
<1>6. ASSUME ~missed' PROVE Handled' <= Len(journal') /\ SettledAt(store, Handled)'
  <2>1. Handled <= Len(journal) /\ SettledAt(store, Handled) /\ AtBridge(b) BY <1>1, <1>6 DEF FollowInv
  <2>2. CASE b \in outdated
    <3>1. Handled' = Handled BY <1>1, <2>2 DEF FollowInv, Handled
    <3> QED BY <1>1, <1>5, <2>1, <3>1 DEF SettledAt, SilentAfter
  <2>3. CASE b \notin outdated
    <3>1. Handled' = upto[b] BY <1>1, <2>3 DEF Handled
    <3>2. upto[b] <= Len(journal) /\ SettledAt(store, upto[b]) BY <1>1, <2>1, <2>3 DEF AtBridge
    <3> QED BY <1>1, <1>5, <3>1, <3>2 DEF SettledAt, SilentAfter
  <2> QED BY <2>2, <2>3
<1>7. \A c \in Bridges : /\ pc'[c] \in {"idle", "read", "applying", "notifying"}
                         /\ c \in outdated' => None \in outdated'
  BY <1>1, <1>2, <1>3
<1>8. \A c \in Bridges : AtBridge(c)' BY <1>3 DEF AtBridge
<1> QED BY <1>4, <1>6, <1>7, <1>8 DEF FollowInv

\* What the collectors check is nothing of a watched node.
LEMMA CollectorsElsewhere ==
    ASSUME IInv, ChecksApart, NEW k \in Collectors, CollectSaves(k)
    PROVE  SameNodes(store, store')
<1>1. /\ mem[k] = store /\ issued \in Nat /\ clock \in 0..MaxTime /\ WellKept(store, issued, clock)
      /\ store' = Reconcile(store, Batch(k), Checked(k), clock)
      /\ seen[k] \in Seq(Readings) /\ Len(seen[k]) <= Len(Checks)
  BY EdgeAssumption DEF IInv, StoreInv, ReadInv, Holding, CollectSaves, SaveStore
<1>2. PICK bound \in Nat :
         /\ issued <= bound /\ NewBatch(Batch(k), issued, bound)
         /\ Seen(Batch(k)) \subseteq {Key(c) : c \in ToSet(Checks)}
  BY BatchIs
<1>3. LookedAt(Checked(k)) \subseteq {Key(c) : c \in ToSet(Checks)}
  <2>1. \A i \in DOMAIN seen[k] : i \in DOMAIN Checks BY <1>1, EdgeAssumption
  <2> QED BY <2>1 DEF LookedAt, Checked, ToSet
<1>4. ASSUME NEW n \in Nodes PROVE Key(n) \notin Seen(Batch(k)) \cup LookedAt(Checked(k))
  <2>1. \A c \in ToSet(Checks) : Key(n) # Key(c)
    BY DEF ChecksApart, Key
  <2> QED BY <1>2, <1>3, <2>1
<1> QED BY <1>1, <1>2, <1>4, LeftAlone DEF SameNodes

LEMMA EndsQuietly ==
    ASSUME IInv, NEW p \in Procs, Dies(p), BridgeDies(p)
    PROVE  Quiet
<1>1. /\ store' = store /\ pc' = [pc EXCEPT ![p] = "idle"] /\ pc = [q \in Procs |-> pc[q]]
      /\ chunk' = [b \in Bridges |-> IF b = p THEN <<>> ELSE chunk[b]]
      /\ upto' = [b \in Bridges |-> IF b = p THEN 0 ELSE upto[b]]
      /\ UNCHANGED <<journal, last, offset, outdated, missed>>
  BY DEF Dies, GoTo, BridgeDies, watchdog, IInv, StoreInv
<1>2. \A b \in Bridges : b = p \/ (chunk'[b] = chunk[b] /\ upto'[b] = upto[b] /\ pc'[b] = pc[b])
  BY <1>1
<1>3. pc'[p] = "idle" BY <1>1
<1>4. SameNodes(store, store') BY <1>1 DEF SameNodes
<1>5. \A b \in Bridges : \/ pc'[b] = "idle"
                         \/ chunk'[b] = chunk[b] /\ upto'[b] = upto[b] /\ pc'[b] = pc[b]
  BY <1>2, <1>3
<1>6. UNCHANGED <<journal, last, offset, outdated, missed>> BY <1>1
<1> QED BY <1>4, <1>5, <1>6 DEF Quiet

LEMMA FollowKinds ==
    ASSUME IInv, FollowInv, ChecksApart, [Next]_vars
    PROVE  \/ Quiet \/ WatchdogWrites \/ WatchdogRotates
           \/ \E b \in Bridges : ReadNew(b) \/ BridgeSaves(b) \/ BridgeEnds(b)
<1>0. /\ Collectors \subseteq Procs /\ Bridges \subseteq Procs /\ Collectors \cap Bridges = {}
      /\ pc = [q \in Procs |-> pc[q]]
      /\ \A b \in Bridges : pc[b] \in {"idle", "read", "applying", "notifying"}
  BY EdgeAssumption, BridgeAssumption, MonitoringAssumption DEF IInv, StoreInv, FollowInv
<1>0a. ASSUME UNCHANGED bridgeVars
       PROVE  /\ UNCHANGED <<journal, last, offset, outdated, missed>>
              /\ \A b \in Bridges : chunk'[b] = chunk[b] /\ upto'[b] = upto[b]
  BY <1>0a DEF bridgeVars
<1>1. ASSUME UNCHANGED <<bridgeVars, store, pc>> PROVE Quiet
  <2>1. SameNodes(store, store') BY <1>1 DEF SameNodes
  <2>2. UNCHANGED bridgeVars /\ \A b \in Bridges : pc'[b] = pc[b] BY <1>1
  <2> QED BY <1>0a, <2>1, <2>2 DEF Quiet
<1>2. ASSUME NEW p \in Procs \ Bridges, NEW w, pc' = [pc EXCEPT ![p] = w],
             UNCHANGED bridgeVars, SameNodes(store, store')
      PROVE  Quiet
  <2>1. \A b \in Bridges : pc'[b] = pc[b] BY <1>0, <1>2
  <2> QED BY <1>0a, <1>2, <2>1 DEF Quiet
<1>3. store' = store => SameNodes(store, store') BY DEF SameNodes
<1>4. ASSUME NEW k \in Collectors, Collect(k), UNCHANGED bridgeVars PROVE Quiet
  <2>0. k \in Procs \ Bridges BY <1>0
  <2>1. CASE Check(k) BY <1>1, <1>4, <2>1 DEF Check, storeVars
  <2>2. CASE CollectSaves(k)
    <3>1. pc' = [pc EXCEPT ![k] = "flushing"] BY <2>2 DEF CollectSaves, GoTo
    <3>2. SameNodes(store, store') BY <2>2, CollectorsElsewhere
    <3> QED BY <1>2, <1>4, <2>0, <3>1, <3>2
  <2>3. CASE Begin(k)
    <3>1. pc' = [pc EXCEPT ![k] = "checking"] /\ store' = store BY <2>3 DEF Begin, GoTo
    <3> QED BY <1>2, <1>3, <1>4, <2>0, <3>1
  <2>4. CASE CollectLocks(k)
    <3>1. pc' = [pc EXCEPT ![k] = "reconciling"] /\ store' = store BY <2>4 DEF CollectLocks, GoTo
    <3> QED BY <1>2, <1>3, <1>4, <2>0, <3>1
  <2>5. CASE CollectTimeout(k)
    <3>1. pc' = [pc EXCEPT ![k] = "idle"] /\ store' = store
      BY <2>5 DEF CollectTimeout, LockTimeout, Dies, GoTo
    <3> QED BY <1>2, <1>3, <1>4, <2>0, <3>1
  <2>6. CASE CollectCompares(k)
    <3>1. pc' = [pc EXCEPT ![k] = "notifying"] /\ store' = store BY <2>6 DEF CollectCompares, GoTo
    <3> QED BY <1>2, <1>3, <1>4, <2>0, <3>1
  <2>7. CASE CollectEnds(k)
    <3>1. pc' = [pc EXCEPT ![k] = "idle"] /\ store' = store BY <2>7 DEF CollectEnds, GoTo
    <3> QED BY <1>2, <1>3, <1>4, <2>0, <3>1
  <2> QED BY <1>4, <2>1, <2>2, <2>3, <2>4, <2>5, <2>6, <2>7 DEF Collect
<1>5. ASSUME NEW b \in Bridges, Ingest(b)
      PROVE  Quiet \/ ReadNew(b) \/ BridgeSaves(b) \/ BridgeEnds(b)
  <2>1. CASE BridgeLocks(b)
    <3>1. /\ pc[b] = "read" /\ pc' = [pc EXCEPT ![b] = "applying"]
          /\ UNCHANGED <<store, bridgeVars>>
      BY <2>1 DEF BridgeLocks, GoTo
    <3>2. \A c \in Bridges : pc'[c] = pc[c] \/ (pc[c] = "read" /\ pc'[c] = "applying")
      BY <1>0, <3>1
    <3>3. UNCHANGED bridgeVars /\ SameNodes(store, store') BY <1>3, <3>1
    <3> QED BY <1>0a, <3>2, <3>3 DEF Quiet
  <2>2. CASE BridgeTimeout(b)
    BY <1>0, <2>2, EndsQuietly DEF BridgeTimeout, LockTimeout
  <2> QED BY <1>5, <2>1, <2>2 DEF Ingest
<1>6. ASSUME NEW p \in Procs, FlushBegin(p) \/ FlushEnd(p), UNCHANGED bridgeVars PROVE Quiet
  <2>1. pc[p] \in {"flushing", "publishing"} /\ store' = store BY <1>6 DEF FlushBegin, FlushEnd
  <2>2. p \notin Bridges BY <1>0, <2>1
  <2>3. \E w : pc' = [pc EXCEPT ![p] = w] BY <1>6 DEF FlushBegin, FlushEnd, GoTo
  <2> QED BY <1>2, <1>3, <1>6, <2>1, <2>2, <2>3
<1>7. ASSUME NEW p \in Procs, Send(p) \/ FlushOne(p), UNCHANGED bridgeVars PROVE Quiet
  BY <1>1, <1>7 DEF Send, FlushOne, storeVars
<1>8. ASSUME NEW p \in Procs, (OutboxTimeout(p) /\ BridgeDies(p)) \/ Crash(p) PROVE Quiet
  BY <1>8, EndsQuietly DEF OutboxTimeout, Crash
<1>9. CASE UNCHANGED vars BY <1>1, <1>9 DEF vars, storeVars
<1>10. CASE Outside
  <2>1. CASE TickStore /\ UNCHANGED <<notifyVars, edgeVars, bridgeVars>>
    BY <1>1, <2>1 DEF TickStore
  <2>2. CASE BrokerFlips /\ UNCHANGED <<edgeVars, bridgeVars>>
    BY <1>1, <2>2 DEF BrokerFlips, storeVars
  <2>3. CASE WorldFlips /\ UNCHANGED bridgeVars
    BY <1>1, <2>3 DEF WorldFlips, storeVars
  <2> QED BY <1>10, <2>1, <2>2, <2>3 DEF Outside, Watchdog
<1>11. ASSUME NEW p \in Procs, Run(p)
       PROVE  Quiet \/ \E b \in Bridges : ReadNew(b) \/ BridgeSaves(b) \/ BridgeEnds(b)
  BY <1>4, <1>5, <1>6, <1>7, <1>8, <1>11 DEF Run
<1> QED BY <1>8, <1>9, <1>10, <1>11 DEF Next

LEMMA FollowInit == Init => FollowInv
<1> SUFFICES ASSUME Init PROVE FollowInv OBVIOUS
<1>1. /\ store.open = {} /\ pc = [p \in Procs |-> "idle"] /\ journal = <<>> /\ offset = 0
      /\ last = [n \in Nodes |-> "resolve"] /\ outdated = {}
  BY DEF Init, StoreInit, BridgeInit, EmptyStore
<1>2. Len(journal) = 0 /\ Handled = 0 BY <1>1 DEF Handled
<1>3. LastWords BY <1>1, <1>2 DEF LastWords
<1>4. SettledAt(store, Handled) BY <1>1 DEF SettledAt, Agrees, OpenAs
<1>5. \A b \in Bridges : pc[b] = "idle" BY <1>1, BridgeAssumption
<1> QED BY <1>1, <1>2, <1>3, <1>4, <1>5 DEF FollowInv, AtBridge

\* With one bridge, and watched nodes that share no stored name: once each line of the journal
\* was handled and none was missed, a node has an open incident exactly if the last word on it
\* was a trigger, however often the bridge was killed and whatever collectors save meanwhile.
THEOREM JournalIsFollowed ==
    ASSUME OneBridge, NodesApart, ChecksApart
    PROVE  Spec => []StoreFollowsJournal
<1>1. IInv /\ FollowInv /\ [Next]_vars => FollowInv'
  <2> SUFFICES ASSUME IInv, FollowInv, [Next]_vars PROVE FollowInv' OBVIOUS
  <2> QED BY FollowKinds, QuietKeeps, WriteKeeps, RotateKeeps, ReadKeeps, ApplyKeeps, EndKeeps
<1>2. IInv /\ FollowInv => StoreFollowsJournal
  <2> SUFFICES ASSUME IInv, FollowInv, ~missed, None \notin outdated, offset = Len(journal),
                      NEW n \in Nodes
               PROVE  OpenAs(store, n) # {} <=> last[n] = "trigger"
    BY DEF StoreFollowsJournal
  <2>1. SettledAt(store, offset) BY DEF FollowInv, Handled
  <2>2. SilentAfter(n, offset)
    <3>1. offset \in Nat BY DEF IInv, ReadInv
    <3> QED BY <3>1 DEF SilentAfter
  <2> QED BY <2>1, <2>2 DEF SettledAt, Agrees
<1> QED BY <1>1, <1>2, FollowInit, Invariant, PTL DEF Spec

-----------------------------------------------------------------------------
(* Events in lists.                                                        *)

LEMMA Members ==
    ASSUME NEW S, NEW q \in Seq(S)
    PROVE  /\ ToSet(q) \subseteq S /\ ToSet(<<>>) = {}
           /\ \A e \in S : Append(q, e) \in Seq(S) /\ ToSet(Append(q, e)) = ToSet(q) \cup {e}
           /\ q # <<>> => /\ Head(q) \in S /\ Tail(q) \in Seq(S)
                          /\ ToSet(q) = {Head(q)} \cup ToSet(Tail(q))
<1>1. ToSet(q) \subseteq S /\ ToSet(<<>>) = {} BY DEF ToSet
<1>2. ASSUME NEW e \in S PROVE Append(q, e) \in Seq(S) /\ ToSet(Append(q, e)) = ToSet(q) \cup {e}
  <2> DEFINE a == Append(q, e)
  <2>1. a \in Seq(S) /\ Len(a) = Len(q) + 1 /\ Len(q) \in Nat /\ a[Len(q) + 1] = e
        /\ \A i \in 1..Len(q) : a[i] = q[i]
    OBVIOUS
  <2>2. DOMAIN a = 1..(Len(q) + 1) /\ DOMAIN q = 1..Len(q) BY <2>1
  <2> HIDE DEF a
  <2>3. \A i \in 1..(Len(q) + 1) : i = Len(q) + 1 \/ i \in 1..Len(q) BY <2>1
  <2>4. Len(q) + 1 \in 1..(Len(q) + 1) /\ \A i \in 1..Len(q) : i \in 1..(Len(q) + 1) BY <2>1
  <2> QED BY <2>1, <2>2, <2>3, <2>4 DEF ToSet, a
<1>3. ASSUME q # <<>>
      PROVE  Head(q) \in S /\ Tail(q) \in Seq(S) /\ ToSet(q) = {Head(q)} \cup ToSet(Tail(q))
  <2> DEFINE t == Tail(q)
             n == Len(q)
  <2>1. n \in Nat \ {0} /\ Head(q) = q[1] /\ t \in Seq(S) /\ Len(t) = n - 1
        /\ \A i \in 1..(n - 1) : t[i] = q[i + 1]
    BY <1>3
  <2>2. DOMAIN t = 1..(n - 1) /\ DOMAIN q = 1..n BY <2>1
  <2> HIDE DEF t, n
  <2>3. \A i \in 1..n : i = 1 \/ (i - 1 \in 1..(n - 1) /\ (i - 1) + 1 = i) BY <2>1
  <2>4. 1 \in 1..n /\ \A i \in 1..(n - 1) : i + 1 \in 1..n BY <2>1
  <2>5. \A i \in 1..n : q[i] \in S BY DEF n
  <2>6. ToSet(q) = {q[i] : i \in 1..n} /\ ToSet(t) = {t[i] : i \in 1..(n - 1)} BY <2>2 DEF ToSet
  <2>7. ToSet(t) \subseteq ToSet(q) /\ q[1] \in ToSet(q) BY <2>1, <2>4, <2>6
  <2>8. \A i \in 1..n : q[i] = q[1] \/ q[i] \in ToSet(t) BY <2>1, <2>3, <2>6
  <2> QED BY <2>1, <2>5, <2>6, <2>7, <2>8 DEF t
<1> QED BY <1>1, <1>2, <1>3

LEMMA Joined ==
    ASSUME NEW S, NEW q \in Seq(S), NEW r \in Seq(S)
    PROVE  q \o r \in Seq(S) /\ ToSet(q \o r) = ToSet(q) \cup ToSet(r)
<1> DEFINE s == q \o r
           n == Len(q)
           m == Len(r)
<1>1. s \in Seq(S) /\ Len(s) = n + m /\ n \in Nat /\ m \in Nat OBVIOUS
<1>2. /\ \A i \in 1..n : s[i] = q[i]
      /\ \A i \in (n + 1)..(n + m) : s[i] = r[i - n]
  OBVIOUS
<1>3. DOMAIN s = 1..(n + m) /\ DOMAIN q = 1..n /\ DOMAIN r = 1..m BY <1>1
<1> HIDE DEF s, n, m
<1>4. \A i \in 1..(n + m) : i \in 1..n \/ (i \in (n + 1)..(n + m) /\ i - n \in 1..m) BY <1>1
<1>5. \A i \in 1..n : i \in 1..(n + m) BY <1>1
<1>6. \A i \in 1..m : n + i \in (n + 1)..(n + m) /\ n + i \in 1..(n + m) /\ (n + i) - n = i BY <1>1
<1>7. ToSet(s) = {s[i] : i \in 1..(n + m)} /\ ToSet(q) = {q[i] : i \in 1..n}
      /\ ToSet(r) = {r[i] : i \in 1..m}
  BY <1>3 DEF ToSet
<1>8. \A i \in 1..n : q[i] \in ToSet(s) BY <1>2, <1>5, <1>7
<1>9. ASSUME NEW i \in 1..m PROVE r[i] \in ToSet(s)
  <2>1. s[n + i] = r[(n + i) - n] BY <1>2, <1>6
  <2> QED BY <1>6, <1>7, <2>1
<1>10. ASSUME NEW i \in 1..(n + m) PROVE s[i] \in ToSet(q) \cup ToSet(r)
  <2>1. CASE i \in 1..n BY <1>2, <1>7, <2>1
  <2>2. CASE i \in (n + 1)..(n + m) /\ i - n \in 1..m BY <1>2, <1>7, <2>2
  <2> QED BY <1>4, <2>1, <2>2
<1>11. ToSet(s) \subseteq ToSet(q) \cup ToSet(r) BY <1>7, <1>10
<1>12. ToSet(q) \subseteq ToSet(s) /\ ToSet(r) \subseteq ToSet(s) BY <1>7, <1>8, <1>9
<1>13. ToSet(s) = ToSet(q) \cup ToSet(r) BY <1>11, <1>12
<1> QED BY <1>1, <1>13 DEF s

LEMMA KeptIs ==
    ASSUME NEW S, NEW q \in Seq(S)
    PROVE  Kept(q) \in Seq(S) /\ ToSet(Kept(q)) \subseteq ToSet(q)
<1> DEFINE n == Len(q)
           x == n - OutboxMax + 1
           from == Max({1, x})
<1>1. n \in Nat /\ x \in Int BY NotifierAssumption
<1> HIDE DEF n, x
<1>2. from \in Nat \ {0}
  <2>1. \E y \in {1, x} : \A z \in {1, x} : y >= z BY <1>1
  <2>2. from \in {1, x} /\ from >= 1 BY <2>1 DEF Max
  <2> QED BY <1>1, <2>2
<1> HIDE DEF from
<1>3. Kept(q) = SubSeq(q, from, n) BY DEF Kept, from, x, n
<1>4. q \in Seq(ToSet(q)) /\ n <= Len(q) BY <1>1 DEF ToSet, n
<1>5. Kept(q) \in Seq(S) /\ Kept(q) \in Seq(ToSet(q)) BY <1>1, <1>2, <1>3, <1>4, PartOf
<1> QED BY <1>5, Members

\* What the events of a comparison are.
ClosedSince(old, new) == {r \in new.closed : r.id \in OpenIds(old) \ ClosedIds(old)}
OpenedSince(old, new) == {r \in new.open : r.id \notin OpenIds(old) /\ r.component \notin Minor}
IdsOf(incidents) == {r.id : r \in incidents}
EventsOf(ended, begun) == {[kind |-> "resolved", id |-> r.id] : r \in ended}
                          \cup {[kind |-> "opened", id |-> r.id] : r \in begun}

LEMMA ChangesAre ==
    ASSUME NEW old, NEW new, NEW newest \in Nat, NEW t, WellKept(new, newest, t)
    PROVE  /\ Changes(old, new) \in Seq(Events)
           /\ ToSet(Changes(old, new)) = EventsOf(ClosedSince(old, new), OpenedSince(old, new))
<1> DEFINE closing == ClosedSince(old, new)
           opening == OpenedSince(old, new)
           rankC(r) == Cardinality({q \in closing : q.nth <= r.nth})
           rankO(r) == Cardinality({q \in opening : q.id <= r.id})
           pickC(i) == CHOOSE r \in closing : rankC(r) = i
           pickO(i) == CHOOSE r \in opening : rankO(r) = i
           ends == [i \in 1..Cardinality(closing) |-> [kind |-> "resolved", id |-> pickC(i).id]]
           starts == [i \in 1..Cardinality(opening) |-> [kind |-> "opened", id |-> pickO(i).id]]
<1>1. Changes(old, new) = ends \o starts
  BY DEF Changes, Wanted, ClosedSince, OpenedSince
<1>2. /\ closing \in SUBSET new.closed /\ opening \in SUBSET new.open
      /\ new.closed \subseteq ClosedRecords /\ new.open \subseteq OpenRecords
      /\ IsFiniteSet(new.closed) /\ IsFiniteSet(new.open)
  BY DEF WellKept, Stores, ClosedSince, OpenedSince
<1>3. IsFiniteSet(closing) /\ IsFiniteSet(opening) BY <1>2, FS_Subset
<1>4. /\ \A r \in closing : r.nth \in Nat /\ r.id \in Nat
      /\ \A r \in opening : r.id \in Nat
  BY <1>2 DEF ClosedRecords, OpenRecords
<1>5. /\ \A q, r \in closing : q.nth = r.nth => q = r
      /\ \A q, r \in opening : q.id = r.id => q = r
  BY <1>2 DEF WellKept
<1> HIDE DEF closing, opening
<1>6. /\ Cardinality(closing) \in Nat
      /\ \A r \in closing : rankC(r) \in 1..Cardinality(closing)
      /\ \A q, r \in closing : rankC(q) = rankC(r) => q = r
      /\ \A i \in 1..Cardinality(closing) : \E r \in closing : rankC(r) = i
  <2> DEFINE f == [r \in closing |-> r.nth]
  <2>1. \A r \in closing : f[r] = r.nth OBVIOUS
  <2>2. \A r \in closing : rankC(r) = Cardinality({q \in closing : f[q] <= f[r]})
    <3>1. \A r \in closing : {q \in closing : q.nth <= r.nth} = {q \in closing : f[q] <= f[r]}
      BY <2>1
    <3> QED BY <3>1
  <2> HIDE DEF f, rankC
  <2>3. (\A r \in closing : f[r] \in Nat) /\ (\A q, r \in closing : f[q] = f[r] => q = r)
    BY <1>4, <1>5, <2>1
  <2>4. Ranked(closing, f) BY <1>3, <2>3, RanksBy
  <2> QED BY <2>2, <2>4 DEF Ranked
<1>7. /\ Cardinality(opening) \in Nat
      /\ \A r \in opening : rankO(r) \in 1..Cardinality(opening)
      /\ \A q, r \in opening : rankO(q) = rankO(r) => q = r
      /\ \A i \in 1..Cardinality(opening) : \E r \in opening : rankO(r) = i
  <2> DEFINE f == [r \in opening |-> r.id]
  <2>1. \A r \in opening : f[r] = r.id OBVIOUS
  <2>2. \A r \in opening : rankO(r) = Cardinality({q \in opening : f[q] <= f[r]})
    <3>1. \A r \in opening : {q \in opening : q.id <= r.id} = {q \in opening : f[q] <= f[r]}
      BY <2>1
    <3> QED BY <3>1
  <2> HIDE DEF f, rankO
  <2>3. (\A r \in opening : f[r] \in Nat) /\ (\A q, r \in opening : f[q] = f[r] => q = r)
    BY <1>4, <1>5, <2>1
  <2>4. Ranked(opening, f) BY <1>3, <2>3, RanksBy
  <2> QED BY <2>2, <2>4 DEF Ranked
<1> HIDE DEF rankC, rankO
<1>8. /\ \A i \in 1..Cardinality(closing) : pickC(i) \in closing
      /\ \A r \in closing : pickC(rankC(r)) = r
  BY <1>6
<1>9. /\ \A i \in 1..Cardinality(opening) : pickO(i) \in opening
      /\ \A r \in opening : pickO(rankO(r)) = r
  BY <1>7
<1> HIDE DEF pickC, pickO
<1>10. ends \in Seq(Events) /\ ToSet(ends) = {[kind |-> "resolved", id |-> r.id] : r \in closing}
  <2>1. \A i \in 1..Cardinality(closing) : ends[i] \in Events BY <1>4, <1>8 DEF Events
  <2>2. ends \in Seq(Events) /\ DOMAIN ends = 1..Cardinality(closing) BY <1>6, <2>1
  <2>3. \A r \in closing : ends[rankC(r)] = [kind |-> "resolved", id |-> r.id] BY <1>6, <1>8
  <2> QED BY <1>6, <1>8, <2>2, <2>3 DEF ToSet
<1>11. starts \in Seq(Events) /\ ToSet(starts) = {[kind |-> "opened", id |-> r.id] : r \in opening}
  <2>1. \A i \in 1..Cardinality(opening) : starts[i] \in Events BY <1>4, <1>9 DEF Events
  <2>2. starts \in Seq(Events) /\ DOMAIN starts = 1..Cardinality(opening) BY <1>7, <2>1
  <2>3. \A r \in opening : starts[rankO(r)] = [kind |-> "opened", id |-> r.id] BY <1>7, <1>9
  <2> QED BY <1>7, <1>9, <2>2, <2>3 DEF ToSet
<1> HIDE DEF ends, starts
<1> QED BY <1>1, <1>10, <1>11, Joined DEF closing, opening, EventsOf

-----------------------------------------------------------------------------
(* Who is told.                                                            *)

\* No incident leaves the history, cut to its newest, before the event of its end is made.
EndsSeen ==
    /\ \A b \in Bridges : BridgeSaves(b) => OpenIds(mem[b]) \subseteq OpenIds(store') \cup ClosedIds(store')
    /\ \A k \in Collectors : CollectCompares(k) => OpenIds(before[k]) \subseteq OpenIds(store) \cup ClosedIds(store)

\* A collector looks at the world, or is past its save and before its second read.
Looking == {"checking", "reconciling"}
Comparing == {"flushing", "publishing", "flushed"}

\* Every event there is, and the incidents that events of one kind are about.
Waiting == UNION {ToSet(outgoing[p]) : p \in Procs}
AllEvents == published \cup ToSet(outbox) \cup dropped \cup Waiting
AboutOf(events, kind) == {e.id : e \in {x \in events : x.kind = kind}}
Told(kind) == AboutOf(AllEvents, kind)
CheckNames == {Redact[c] : c \in ToSet(Checks)}

\* While nothing was killed, the program that flushes has the outbox for itself, and what it has
\* published so far and what it has left are what the file holds.
Flushes(p) ==
    pc[p] = "publishing" =>
        /\ outboxLock = p
        /\ ToSet(outbox) \subseteq published \cup ToSet(remaining[p])
        /\ ToSet(remaining[p]) \subseteq ToSet(outbox)
EventsInv ==
    /\ crashes \in Nat /\ outbox \in Seq(Events)
    /\ remaining \in [Procs -> Seq(Events)] /\ outgoing \in [Procs -> Seq(Events)]
    /\ \A p \in Procs : pc[p] # "notifying" => outgoing[p] = <<>>
    /\ crashes = 0 => \A p \in Procs : Flushes(p)

\* What a collector read at first was the file.
BeforeInv ==
    /\ before = [k \in Collectors |-> before[k]]
    /\ \A k \in Collectors : WellKept(before[k], issued, clock)

\* A collector that looks at the world has read each incident that it may close; what is open
\* was announced, or will be by the collector that compares; and what was announced is open, or
\* announced as resolved, or will be by that collector.
ReadFirst ==
    \A k \in Collectors : pc[k] \in Looking =>
        \A r \in store.open : r.component \in CheckNames => r.id \in OpenIds(before[k])
OpenTold ==
    \A r \in store.open : r.component \notin Minor =>
        \/ r.id \in Told("opened")
        \/ \E k \in Collectors : pc[k] \in Comparing /\ r.id \notin OpenIds(before[k])
EndTold ==
    \A i \in Told("opened") :
        \/ i \in OpenIds(store) \/ i \in Told("resolved")
        \/ \E k \in Collectors : pc[k] \in Comparing /\ i \in OpenIds(before[k])
AnnouncedInv == crashes = 0 => ReadFirst /\ OpenTold /\ EndTold

ToldInv == EventsInv /\ BeforeInv /\ AnnouncedInv

\* Only what program p still has to send changes.
InOthers(p, lists) == UNION {ToSet(lists[x]) : x \in Procs \ {p}}

LEMMA SendsBy ==
    ASSUME NEW p \in Procs, NEW q, outgoing \in [Procs -> Seq(Events)],
           outgoing' = [outgoing EXCEPT ![p] = q]
    PROVE  /\ Waiting = InOthers(p, outgoing) \cup ToSet(outgoing[p])
           /\ Waiting' = InOthers(p, outgoing) \cup ToSet(q)
<1>1. outgoing'[p] = q /\ \A x \in Procs \ {p} : outgoing'[x] = outgoing[x] OBVIOUS
<1>2. Waiting = InOthers(p, outgoing) \cup ToSet(outgoing[p]) BY DEF InOthers, Waiting
<1>3. Waiting' = InOthers(p, outgoing) \cup ToSet(q) BY <1>1 DEF InOthers, Waiting
<1> QED BY <1>2, <1>3

\* A step that announces nothing and leaves the store, while nobody starts or ends to compare.
LEMMA NobodyTold ==
    ASSUME AnnouncedInv, crashes' = 0 => crashes = 0 /\ AllEvents' = AllEvents, store' = store,
           \A k \in Collectors : (pc'[k] \in Comparing <=> pc[k] \in Comparing),
           \A k \in Collectors : pc'[k] \in Comparing => before'[k] = before[k],
           \A k \in Collectors : pc'[k] \in Looking =>
               (pc[k] \in Looking /\ before'[k] = before[k]) \/ before'[k] = store
    PROVE  AnnouncedInv'
<1> SUFFICES ASSUME crashes' = 0 PROVE (ReadFirst /\ OpenTold /\ EndTold)' BY DEF AnnouncedInv
<1>1. ReadFirst /\ OpenTold /\ EndTold BY DEF AnnouncedInv
<1>2. Told("opened")' = Told("opened") /\ Told("resolved")' = Told("resolved") BY DEF Told
<1>3. ReadFirst'
  <2>1. \A r \in store.open : r.id \in OpenIds(store) BY DEF OpenIds
  <2> QED BY <1>1, <2>1 DEF ReadFirst, OpenIds
<1>4. OpenTold' BY <1>1, <1>2 DEF OpenTold, OpenIds
<1>5. EndTold' BY <1>1, <1>2 DEF EndTold, OpenIds
<1> QED BY <1>3, <1>4, <1>5

\* New events are about what they say.
Adds(all, events, ended, begun) == all = events \cup EventsOf(ended, begun)

LEMMA MoreTold ==
    ASSUME NEW events, NEW C, NEW O, NEW all, Adds(all, events, C, O)
    PROVE  /\ AboutOf(all, "opened") = AboutOf(events, "opened") \cup IdsOf(O)
           /\ AboutOf(all, "resolved") = AboutOf(events, "resolved") \cup IdsOf(C)
<1> DEFINE more == EventsOf(C, O)
           end(r) == [kind |-> "resolved", id |-> r.id]
           start(r) == [kind |-> "opened", id |-> r.id]
<1>0. /\ \A r : end(r).kind = "resolved" /\ end(r).id = r.id
      /\ \A r : start(r).kind = "opened" /\ start(r).id = r.id
      /\ more = {end(r) : r \in C} \cup {start(r) : r \in O}
  BY DEF EventsOf
<1>0a. all = events \cup more BY DEF Adds
<1> HIDE DEF end, start, more
<1>1. AboutOf(more, "opened") = {r.id : r \in O}
  <2>1. {x \in more : x.kind = "opened"} = {start(r) : r \in O} BY <1>0
  <2> QED BY <1>0, <2>1 DEF AboutOf
<1>2. AboutOf(more, "resolved") = {r.id : r \in C}
  <2>1. {x \in more : x.kind = "resolved"} = {end(r) : r \in C} BY <1>0
  <2> QED BY <1>0, <2>1 DEF AboutOf
<1>3. \A kind : AboutOf(all, kind) = AboutOf(events, kind) \cup AboutOf(more, kind)
  BY <1>0a DEF AboutOf
<1> QED BY <1>1, <1>2, <1>3 DEF IdsOf

-----------------------------------------------------------------------------
(* The steps, as those who are told see them.                              *)

\* Nothing is sent, and nobody starts to look, or starts or ends to compare.
Silent ==
    /\ UNCHANGED <<store, before, crashes, outbox, outboxLock, remaining, outgoing, published, dropped>>
    /\ \/ pc' = pc
       \/ \E p \in Procs, w \in PcValues \ Comparing :
              /\ pc' = [pc EXCEPT ![p] = w]
              /\ outgoing[p] = <<>> /\ pc[p] \notin Comparing
              /\ p \in Collectors /\ w \in Looking => pc[p] \in Looking

Sending(p) ==
    /\ Send(p) \/ FlushBegin(p) \/ FlushOne(p) \/ FlushEnd(p)
    /\ UNCHANGED edgeVars

Gone(p) ==
    /\ crashes' = crashes + 1
    /\ pc' = [pc EXCEPT ![p] = "idle"] /\ UNCHANGED <<store, outbox>>
    /\ \/ outgoing' = [outgoing EXCEPT ![p] = <<>>]
       \/ UNCHANGED outgoing /\ pc[p] # "notifying"
    /\ UNCHANGED remaining \/ remaining' = [remaining EXCEPT ![p] = <<>>]
    /\ UNCHANGED before \/ before' = [k \in Collectors |-> IF k = p THEN EmptyStore ELSE before[k]]

LEMMA ToldKinds ==
    ASSUME EventsInv, [Next]_vars
    PROVE  \/ Silent
           \/ \E p \in Procs : Sending(p) \/ Gone(p)
           \/ \E k \in Collectors : Begin(k) \/ CollectSaves(k) \/ CollectCompares(k)
           \/ \E b \in Bridges : BridgeSaves(b) /\ chunk[b] # <<>> /\ UNCHANGED edgeVars
<1>0. /\ Collectors \subseteq Procs /\ Bridges \subseteq Procs /\ Collectors \cap Bridges = {}
      /\ \A p \in Procs : pc[p] # "notifying" => outgoing[p] = <<>>
  BY EdgeAssumption, BridgeAssumption, MonitoringAssumption DEF EventsInv
<1>1. CASE UNCHANGED vars
  BY <1>1 DEF vars, storeVars, notifyVars, records, edgeVars, Silent
<1>2. CASE Outside
  <2>1. CASE TickStore /\ UNCHANGED <<notifyVars, edgeVars, bridgeVars>>
    BY <2>1 DEF TickStore, notifyVars, records, edgeVars, Silent
  <2>2. CASE BrokerFlips /\ UNCHANGED <<edgeVars, bridgeVars>>
    BY <2>2 DEF BrokerFlips, storeVars, records, edgeVars, Silent
  <2>3. CASE WorldFlips /\ UNCHANGED bridgeVars
    BY <2>3 DEF WorldFlips, storeVars, notifyVars, records, Silent
  <2>4. CASE Watchdog /\ UNCHANGED edgeVars
    BY <2>4 DEF Watchdog, WatchdogWrites, WatchdogRotates, storeVars, notifyVars, records, edgeVars,
       Silent
  <2> QED BY <1>2, <2>1, <2>2, <2>3, <2>4 DEF Outside
<1>3. ASSUME NEW p \in Procs, Crash(p) PROVE Gone(p)
  BY <1>3 DEF Crash, Dies, GoTo, NotifierDies, EdgeDies, Gone
<1>4. ASSUME NEW k \in Collectors, Collect(k)
      PROVE  Silent \/ Gone(k) \/ Begin(k) \/ CollectSaves(k) \/ CollectCompares(k)
  <2>1. CASE Check(k) BY <2>1 DEF Check, storeVars, notifyVars, records, Silent
  <2>2. CASE CollectLocks(k)
    <3>1. /\ UNCHANGED <<store, before, crashes, outbox, outboxLock, remaining, outgoing, published, dropped>>
          /\ pc' = [pc EXCEPT ![k] = "reconciling"] /\ pc[k] = "checking"
      BY <2>2 DEF CollectLocks, GoTo, notifyVars, records, edgeVars
    <3>2. k \in Procs /\ outgoing[k] = <<>> BY <1>0, <3>1
    <3>3. "reconciling" \in PcValues \ Comparing /\ pc[k] \notin Comparing /\ pc[k] \in Looking
      BY <3>1 DEF PcValues, Comparing, Looking
    <3> QED BY <3>1, <3>2, <3>3 DEF Silent
  <2>3. CASE CollectTimeout(k)
    BY <2>3 DEF CollectTimeout, LockTimeout, Dies, GoTo, EdgeDies, notifyVars, records, Gone
  <2>4. CASE CollectEnds(k)
    <3>1. /\ UNCHANGED <<store, before, crashes, outbox, outboxLock, remaining, outgoing, published, dropped>>
          /\ pc' = [pc EXCEPT ![k] = "idle"] /\ pc[k] = "notifying" /\ outgoing[k] = <<>>
      BY <2>4 DEF CollectEnds, GoTo, notifyVars, records, edgeVars
    <3>2. /\ k \in Procs /\ "idle" \in PcValues \ Comparing /\ pc[k] \notin Comparing
          /\ "idle" \notin Looking
      BY <1>0, <3>1 DEF PcValues, Comparing, Looking
    <3> QED BY <3>1, <3>2 DEF Silent
  <2> QED BY <1>4, <2>1, <2>2, <2>3, <2>4 DEF Collect
<1>5. ASSUME NEW b \in Bridges, Ingest(b), UNCHANGED edgeVars
      PROVE  Silent \/ Gone(b) \/ (BridgeSaves(b) /\ chunk[b] # <<>>)
  <2>0. UNCHANGED before BY <1>5 DEF edgeVars
  <2>1. CASE ReadNew(b)
    <3>1. /\ UNCHANGED <<store, crashes, outbox, outboxLock, remaining, outgoing, published, dropped>>
          /\ pc' = [pc EXCEPT ![b] = "read"] /\ pc[b] = "idle"
      BY <2>1 DEF ReadNew, GoTo, notifyVars, records
    <3> QED BY <1>0, <2>0, <3>1 DEF Silent, PcValues, Comparing
  <2>2. CASE BridgeLocks(b)
    <3>1. /\ UNCHANGED <<store, crashes, outbox, outboxLock, remaining, outgoing, published, dropped>>
          /\ pc' = [pc EXCEPT ![b] = "applying"] /\ pc[b] = "read"
      BY <2>2 DEF BridgeLocks, GoTo, notifyVars, records
    <3> QED BY <1>0, <2>0, <3>1 DEF Silent, PcValues, Comparing
  <2>3. CASE BridgeTimeout(b)
    BY <2>0, <2>3 DEF BridgeTimeout, LockTimeout, Dies, GoTo, notifyVars, records, Gone
  <2>4. CASE BridgeSaves(b) /\ chunk[b] = <<>>
    <3>1. /\ UNCHANGED <<store, crashes, outbox, outboxLock, remaining, outgoing, published, dropped>>
          /\ pc' = [pc EXCEPT ![b] = "notifying"] /\ pc[b] = "applying"
      BY <2>4 DEF BridgeSaves, GoTo, records
    <3> QED BY <1>0, <2>0, <3>1 DEF Silent, PcValues, Comparing
  <2>5. CASE BridgeEnds(b)
    <3>1. /\ UNCHANGED <<store, crashes, outbox, outboxLock, remaining, outgoing, published, dropped>>
          /\ pc' = [pc EXCEPT ![b] = "idle"] /\ pc[b] = "notifying" /\ outgoing[b] = <<>>
      BY <2>5 DEF BridgeEnds, GoTo, notifyVars, records
    <3> QED BY <1>0, <2>0, <3>1 DEF Silent, PcValues, Comparing
  <2> QED BY <1>5, <2>1, <2>2, <2>3, <2>4, <2>5 DEF Ingest
<1>6. ASSUME NEW p \in Procs, OutboxTimeout(p), EdgeDies(p) PROVE Gone(p)
  BY <1>6 DEF OutboxTimeout, Dies, GoTo, EdgeDies, records, Gone
<1>7. ASSUME NEW p \in Procs, Run(p)
      PROVE  \/ Silent \/ Sending(p) \/ Gone(p)
             \/ p \in Collectors /\ (Begin(p) \/ CollectSaves(p) \/ CollectCompares(p))
             \/ p \in Bridges /\ BridgeSaves(p) /\ chunk[p] # <<>> /\ UNCHANGED edgeVars
  <2>1. CASE p \in Collectors /\ Collect(p) BY <1>4, <2>1
  <2>2. CASE p \in Bridges /\ Ingest(p) /\ UNCHANGED edgeVars BY <1>5, <2>2
  <2>3. CASE OutboxTimeout(p) /\ EdgeDies(p) BY <1>6, <2>3
  <2>4. CASE (Send(p) \/ FlushBegin(p) \/ FlushOne(p) \/ FlushEnd(p)) /\ UNCHANGED edgeVars
    BY <2>4 DEF Sending
  <2> QED BY <1>7, <2>1, <2>2, <2>3, <2>4 DEF Run
<1> QED BY <1>1, <1>2, <1>3, <1>7 DEF Next

\* Identities and the time only go on, and what a collector has read stays well kept.
LEMMA BeforeStep ==
    ASSUME IInv, ToldInv, [Next]_vars
    PROVE  BeforeInv'
<1>1. /\ issued \in Nat /\ clock \in 0..MaxTime /\ WellKept(store, issued, clock)
      /\ MaxTime \in Nat
  BY StoreAssumption DEF IInv, StoreInv
<1>2. issued' \in Nat /\ issued <= issued' /\ clock \in Nat /\ clock' \in Nat /\ clock <= clock'
  <2>1. CASE Untouched BY <1>1, <2>1 DEF Untouched
  <2>2. ASSUME NEW p \in Procs, Moves(p) \/ Takes(p)
        PROVE  issued' = issued /\ clock' = clock
    BY <2>2 DEF Moves, Takes
  <2>3. ASSUME NEW p \in Procs, NEW s, Saving(p, s)
        PROVE  issued' \in Nat /\ issued <= issued' /\ clock' = clock
    <3>1. clock' = clock BY <2>3 DEF Saving, Saves
    <3> QED BY <2>3, <3>1, Issuing
  <2> QED BY <1>1, <2>1, <2>2, <2>3, Steps
<1>3. WellKept(EmptyStore, issued, clock)
  <2>1. EmptyStore.open = {} /\ EmptyStore.closed = {} /\ EmptyStore \in Stores
    BY DEF EmptyStore, Stores
  <2> QED BY <2>1, FS_EmptySet DEF WellKept
<1>4. before = [k \in Collectors |-> before[k]] /\ \A k \in Collectors : WellKept(before[k], issued, clock)
  BY DEF ToldInv, BeforeInv
<1>5. /\ before' = [k \in Collectors |-> before'[k]]
      /\ \A k \in Collectors : before'[k] \in {before[k], store, EmptyStore}
  <2>1. CASE UNCHANGED before BY <1>4, <2>1
  <2>2. ASSUME NEW p, NEW s \in {store, EmptyStore}, before' = [before EXCEPT ![p] = s]
        PROVE  <1>5!1 /\ <1>5!2
    BY <1>4, <2>2
  <2>3. ASSUME NEW p, before' = [k \in Collectors |-> IF k = p THEN EmptyStore ELSE before[k]]
        PROVE  <1>5!1 /\ <1>5!2
    BY <1>4, <2>3
  <2>4. \/ UNCHANGED before
        \/ \E p : \E s \in {store, EmptyStore} : before' = [before EXCEPT ![p] = s]
        \/ \E p : before' = [k \in Collectors |-> IF k = p THEN EmptyStore ELSE before[k]]
    <3>1. CASE Silent BY <3>1 DEF Silent
    <3>2. ASSUME NEW p \in Procs, Sending(p) PROVE UNCHANGED before BY <3>2 DEF Sending, edgeVars
    <3>3. ASSUME NEW p \in Procs, Gone(p)
          PROVE  \/ UNCHANGED before
                 \/ before' = [k \in Collectors |-> IF k = p THEN EmptyStore ELSE before[k]]
      BY <3>3 DEF Gone
    <3>4. ASSUME NEW k \in Collectors, Begin(k) \/ CollectSaves(k) \/ CollectCompares(k)
          PROVE  \/ UNCHANGED before
                 \/ \E s \in {store, EmptyStore} : before' = [before EXCEPT ![k] = s]
      BY <3>4 DEF Begin, CollectSaves, CollectCompares
    <3>5. UNCHANGED edgeVars => UNCHANGED before BY DEF edgeVars
    <3> QED BY <3>1, <3>2, <3>3, <3>4, <3>5, ToldKinds DEF ToldInv
  <2> QED BY <2>1, <2>2, <2>3, <2>4
<1>6. \A k \in Collectors : WellKept(before'[k], issued, clock) BY <1>1, <1>3, <1>4, <1>5
<1>7. \A k \in Collectors : WellKept(before'[k], issued', clock') BY <1>1, <1>2, <1>6, WellKeptOn
<1> QED BY <1>5, <1>7 DEF BeforeInv

\* Program p goes on, and has the events q to send.
LEMMA EventsOn ==
    ASSUME IInv, EventsInv, NEW p \in Procs, NEW w, w # "publishing", pc' = [pc EXCEPT ![p] = w],
           UNCHANGED <<crashes, outbox, outboxLock, remaining, published>>,
           NEW q \in Seq(Events), outgoing' = [outgoing EXCEPT ![p] = q], w # "notifying" => q = <<>>
    PROVE  EventsInv'
<1>1. /\ crashes \in Nat /\ outbox \in Seq(Events)
      /\ remaining \in [Procs -> Seq(Events)] /\ outgoing \in [Procs -> Seq(Events)]
      /\ \A x \in Procs : pc[x] # "notifying" => outgoing[x] = <<>>
      /\ crashes = 0 => \A x \in Procs : Flushes(x)
      /\ pc \in [Procs -> PcValues]
  BY DEF EventsInv, IInv, StoreInv
<1>2. outgoing' \in [Procs -> Seq(Events)] BY <1>1
<1>3. \A x \in Procs : pc'[x] # "notifying" => outgoing'[x] = <<>> BY <1>1
<1>4. ASSUME crashes' = 0, NEW x \in Procs PROVE Flushes(x)'
  <2>1. Flushes(x) BY <1>1, <1>4
  <2>2. pc'[x] = "publishing" => pc[x] = "publishing" BY <1>1
  <2> QED BY <2>1, <2>2 DEF Flushes
<1> QED BY <1>1, <1>2, <1>3, <1>4 DEF EventsInv

LEMMA SilentTold ==
    ASSUME IInv, ToldInv, Silent
    PROVE  EventsInv' /\ AnnouncedInv'
<1>0. /\ pc \in [Procs -> PcValues] /\ outgoing \in [Procs -> Seq(Events)]
      /\ Collectors \subseteq Procs /\ EventsInv /\ AnnouncedInv
  BY EdgeAssumption DEF IInv, StoreInv, ToldInv, EventsInv
<1>1. UNCHANGED <<store, before, crashes, outbox, outboxLock, remaining, outgoing, published, dropped>>
  BY DEF Silent
<1>2. AllEvents' = AllEvents BY <1>1 DEF AllEvents, Waiting
<1>3. CASE pc' = pc
  <2>1. EventsInv' BY <1>0, <1>1, <1>3 DEF EventsInv, Flushes
  <2>2. AnnouncedInv' BY <1>0, <1>1, <1>2, <1>3, NobodyTold
  <2> QED BY <2>1, <2>2
<1>4. ASSUME NEW p \in Procs, NEW w \in PcValues \ Comparing,
             pc' = [pc EXCEPT ![p] = w], outgoing[p] = <<>>, pc[p] \notin Comparing,
             p \in Collectors /\ w \in Looking => pc[p] \in Looking
      PROVE  EventsInv' /\ AnnouncedInv'
  <2>1. EventsInv'
    <3>1. outgoing' = [outgoing EXCEPT ![p] = <<>>] /\ <<>> \in Seq(Events) BY <1>0, <1>1, <1>4
    <3>2. w # "publishing" BY DEF Comparing
    <3> QED BY <1>0, <1>1, <1>4, <3>1, <3>2, EventsOn
  <2>2. \A k \in Collectors : (pc'[k] \in Comparing <=> pc[k] \in Comparing) BY <1>0, <1>4
  <2>3. \A k \in Collectors : pc'[k] \in Looking => pc[k] \in Looking BY <1>0, <1>4
  <2>4. AnnouncedInv' BY <1>0, <1>1, <1>2, <2>2, <2>3, NobodyTold
  <2> QED BY <2>1, <2>4
<1> QED BY <1>3, <1>4 DEF Silent

LEMMA GoneTold ==
    ASSUME IInv, ToldInv, NEW p \in Procs, Gone(p)
    PROVE  EventsInv' /\ AnnouncedInv'
<1>1. /\ crashes \in Nat /\ outbox \in Seq(Events)
      /\ remaining \in [Procs -> Seq(Events)] /\ outgoing \in [Procs -> Seq(Events)]
      /\ \A x \in Procs : pc[x] # "notifying" => outgoing[x] = <<>>
      /\ pc \in [Procs -> PcValues]
  BY DEF ToldInv, EventsInv, IInv, StoreInv
<1>2. crashes' \in Nat /\ crashes' # 0 /\ outbox' = outbox /\ pc' = [pc EXCEPT ![p] = "idle"]
  BY <1>1 DEF Gone
<1>3. remaining' \in [Procs -> Seq(Events)] /\ outgoing' \in [Procs -> Seq(Events)]
  <2>1. <<>> \in Seq(Events) OBVIOUS
  <2>2. remaining' = remaining \/ remaining' = [remaining EXCEPT ![p] = <<>>] BY DEF Gone
  <2>3. outgoing' = outgoing \/ outgoing' = [outgoing EXCEPT ![p] = <<>>] BY DEF Gone
  <2>4. remaining' \in [Procs -> Seq(Events)] BY <1>1, <2>1, <2>2
  <2>5. outgoing' \in [Procs -> Seq(Events)] BY <1>1, <2>1, <2>3
  <2> QED BY <2>4, <2>5
<1>4. \A x \in Procs : pc'[x] # "notifying" => outgoing'[x] = <<>>
  <2>1. CASE outgoing' = [outgoing EXCEPT ![p] = <<>>] BY <1>1, <1>2, <2>1
  <2>2. CASE outgoing' = outgoing /\ pc[p] # "notifying" BY <1>1, <1>2, <2>2
  <2> QED BY <2>1, <2>2 DEF Gone
<1> QED BY <1>1, <1>2, <1>3, <1>4 DEF EventsInv, AnnouncedInv

LEMMA BeginTold ==
    ASSUME IInv, ToldInv, NEW k \in Collectors, Begin(k)
    PROVE  EventsInv' /\ AnnouncedInv'
<1>0. /\ pc \in [Procs -> PcValues] /\ outgoing \in [Procs -> Seq(Events)] /\ k \in Procs
      /\ Collectors \subseteq Procs /\ EventsInv /\ AnnouncedInv
      /\ \A x \in Procs : pc[x] # "notifying" => outgoing[x] = <<>>
      /\ before = [x \in Collectors |-> before[x]]
  BY EdgeAssumption DEF IInv, StoreInv, ToldInv, EventsInv, BeforeInv
<1>1. /\ pc[k] = "idle" /\ pc' = [pc EXCEPT ![k] = "checking"]
      /\ before' = [before EXCEPT ![k] = store]
      /\ UNCHANGED <<store, crashes, outbox, outboxLock, remaining, outgoing, published, dropped>>
  BY DEF Begin, GoTo, notifyVars, records
<1>2. AllEvents' = AllEvents BY <1>1 DEF AllEvents, Waiting
<1>3. EventsInv'
  <2>1. outgoing' = [outgoing EXCEPT ![k] = <<>>] /\ <<>> \in Seq(Events) BY <1>0, <1>1
  <2> QED BY <1>0, <1>1, <2>1, EventsOn
<1>4. /\ "idle" \notin Comparing /\ "checking" \notin Comparing
      /\ \A x \in Collectors : x # k => pc'[x] = pc[x] /\ before'[x] = before[x]
      /\ pc'[k] = "checking" /\ before'[k] = store
  BY <1>0, <1>1 DEF Comparing
<1>5. \A x \in Collectors : (pc'[x] \in Comparing <=> pc[x] \in Comparing) BY <1>1, <1>4
<1>6. \A x \in Collectors : pc'[x] \in Comparing => before'[x] = before[x] BY <1>4
<1>7. \A x \in Collectors : pc'[x] \in Looking =>
          (pc[x] \in Looking /\ before'[x] = before[x]) \/ before'[x] = store
  BY <1>4
<1>8. AnnouncedInv' BY <1>0, <1>1, <1>2, <1>5, <1>6, <1>7, NobodyTold
<1> QED BY <1>3, <1>8

\* What the sending steps rely on.
LEMMA OneFlushes ==
    ASSUME IInv, EventsInv
    PROVE  /\ outbox \in Seq(Events)
           /\ remaining \in [Procs -> Seq(Events)] /\ outgoing \in [Procs -> Seq(Events)]
           /\ pc \in [Procs -> PcValues] /\ None \notin Procs /\ crashes \in Nat
           /\ \A x \in Procs : pc[x] # "notifying" => outgoing[x] = <<>>
           /\ crashes = 0 => /\ \A x \in Procs : Flushes(x)
                             /\ \A x \in Procs : pc[x] = "publishing" => outboxLock = x
BY StoreAssumption DEF IInv, StoreInv, EventsInv, Flushes

\* An event goes out, or into the outbox, or is lost: it is told.
LEMMA SendTold ==
    ASSUME IInv, EventsInv, NEW p \in Procs, Send(p)
    PROVE  EventsInv' /\ AllEvents' = AllEvents
<1> DEFINE e == Head(outgoing[p])
           left == Tail(outgoing[p])
<1>0. /\ outbox \in Seq(Events)
      /\ remaining \in [Procs -> Seq(Events)] /\ outgoing \in [Procs -> Seq(Events)]
      /\ pc \in [Procs -> PcValues] /\ None \notin Procs /\ crashes \in Nat
      /\ \A x \in Procs : pc[x] # "notifying" => outgoing[x] = <<>>
      /\ crashes = 0 => /\ \A x \in Procs : Flushes(x)
                        /\ \A x \in Procs : pc[x] = "publishing" => outboxLock = x
  BY OneFlushes
<1>1. /\ pc[p] = "notifying" /\ outgoing[p] # <<>> /\ outgoing' = [outgoing EXCEPT ![p] = left]
      /\ UNCHANGED <<pc, crashes, outboxLock, remaining>>
  BY DEF Send, Sent, storeVars
<1>2. outgoing[p] \in Seq(Events) BY <1>0
<1>3. e \in Events /\ left \in Seq(Events) /\ ToSet(outgoing[p]) = {e} \cup ToSet(left)
  BY <1>1, <1>2, Members
<1> HIDE DEF left
<1>4. /\ Waiting = InOthers(p, outgoing) \cup ToSet(outgoing[p])
      /\ Waiting' = InOthers(p, outgoing) \cup ToSet(left)
  BY <1>0, <1>1, SendsBy
<1>5. outgoing' \in [Procs -> Seq(Events)] /\ \A x \in Procs : pc'[x] # "notifying" => outgoing'[x] = <<>>
  BY <1>0, <1>1, <1>3
<1>6. CASE broker /\ published' = published \cup {e} /\ UNCHANGED <<outbox, dropped>>
  <2>1. AllEvents' = AllEvents
    <3> HIDE DEF e
    <3> QED BY <1>3, <1>4, <1>6 DEF AllEvents
  <2>2. ASSUME crashes' = 0, NEW x \in Procs PROVE Flushes(x)' BY <1>0, <1>1, <1>6, <2>2 DEF Flushes
  <2> QED BY <1>0, <1>1, <1>5, <1>6, <2>1, <2>2 DEF EventsInv
<1>7. CASE ~broker /\ HasOutbox /\ Queue(p, e)
  <2> DEFINE longer == Append(outbox, e)
  <2>1. longer \in Seq(Events) /\ ToSet(longer) = ToSet(outbox) \cup {e} BY <1>0, <1>3, Members
  <2> HIDE DEF longer, e
  <2>2. Kept(longer) \in Seq(Events) /\ ToSet(Kept(longer)) \subseteq ToSet(longer) BY <2>1, KeptIs
  <2>3. /\ outboxLock = None /\ outbox' = Kept(longer) /\ UNCHANGED published
        /\ dropped' = dropped \cup (ToSet(longer) \ ToSet(Kept(longer)))
    BY <1>7 DEF Queue, longer
  <2>4. ToSet(outbox') \cup dropped' = ToSet(outbox) \cup {e} \cup dropped BY <2>1, <2>2, <2>3
  <2>5. AllEvents' = AllEvents BY <1>3, <1>4, <2>3, <2>4 DEF AllEvents
  <2>6. ASSUME crashes' = 0, NEW x \in Procs PROVE Flushes(x)'
    <3>1. pc[x] # "publishing" BY <1>0, <1>1, <2>3, <2>6
    <3> QED BY <1>1, <3>1 DEF Flushes
  <2> QED BY <1>0, <1>1, <1>5, <2>2, <2>3, <2>5, <2>6 DEF EventsInv
<1>8. CASE ~broker /\ ~HasOutbox /\ dropped' = dropped \cup {e} /\ UNCHANGED <<outbox, published>>
  <2>1. AllEvents' = AllEvents
    <3> HIDE DEF e
    <3> QED BY <1>3, <1>4, <1>8 DEF AllEvents
  <2>2. ASSUME crashes' = 0, NEW x \in Procs PROVE Flushes(x)' BY <1>0, <1>1, <1>8, <2>2 DEF Flushes
  <2> QED BY <1>0, <1>1, <1>5, <1>8, <2>1, <2>2 DEF EventsInv
<1> QED BY <1>6, <1>7, <1>8 DEF Send

\* A flush publishes what the outbox holds, and leaves in it what it did not publish.
LEMMA FlushTold ==
    ASSUME IInv, EventsInv, NEW p \in Procs, FlushBegin(p) \/ FlushOne(p) \/ FlushEnd(p)
    PROVE  EventsInv' /\ (crashes' = 0 => AllEvents' = AllEvents)
<1>0. /\ outbox \in Seq(Events)
      /\ remaining \in [Procs -> Seq(Events)] /\ outgoing \in [Procs -> Seq(Events)]
      /\ pc \in [Procs -> PcValues] /\ None \notin Procs /\ crashes \in Nat
      /\ \A x \in Procs : pc[x] # "notifying" => outgoing[x] = <<>>
      /\ crashes = 0 => /\ \A x \in Procs : Flushes(x)
                        /\ \A x \in Procs : pc[x] = "publishing" => outboxLock = x
  BY OneFlushes
<1>1. CASE FlushBegin(p) /\ outbox = <<>>
  <2>1. /\ pc[p] = "flushing" /\ pc' = [pc EXCEPT ![p] = "flushed"]
        /\ UNCHANGED <<outboxLock, remaining, crashes, outbox, outgoing, published, dropped>>
    BY <1>1 DEF FlushBegin, GoTo, records
  <2>2. AllEvents' = AllEvents BY <2>1 DEF AllEvents, Waiting
  <2>3. outgoing' = [outgoing EXCEPT ![p] = <<>>] /\ <<>> \in Seq(Events) BY <1>0, <2>1
  <2>4. EventsInv' BY <2>1, <2>3, EventsOn
  <2> QED BY <2>2, <2>4
<1>2. CASE FlushBegin(p) /\ outbox # <<>>
  <2>1. /\ pc[p] = "flushing" /\ pc' = [pc EXCEPT ![p] = "publishing"]
        /\ outboxLock = None /\ outboxLock' = p /\ remaining' = [remaining EXCEPT ![p] = outbox]
        /\ UNCHANGED <<crashes, outbox, outgoing, published, dropped>>
    BY <1>2 DEF FlushBegin, GoTo, records
  <2>2. AllEvents' = AllEvents BY <2>1 DEF AllEvents, Waiting
  <2>3. ASSUME crashes' = 0, NEW x \in Procs PROVE Flushes(x)'
    <3>1. CASE x = p BY <1>0, <2>1, <3>1 DEF Flushes
    <3>2. CASE x # p
      <4>1. pc'[x] = pc[x] /\ pc[x] # "publishing" BY <1>0, <2>1, <2>3, <3>2
      <4> QED BY <4>1 DEF Flushes
    <3> QED BY <3>1, <3>2
  <2>4. remaining' \in [Procs -> Seq(Events)] BY <1>0, <2>1
  <2>5. \A x \in Procs : pc'[x] # "notifying" => outgoing'[x] = <<>> BY <1>0, <2>1
  <2> QED BY <1>0, <2>1, <2>2, <2>3, <2>4, <2>5 DEF EventsInv
<1>3. CASE FlushOne(p)
  <2> DEFINE e == Head(remaining[p])
             left == Tail(remaining[p])
  <2>1. /\ pc[p] = "publishing" /\ remaining[p] # <<>> /\ published' = published \cup {e}
        /\ remaining' = [remaining EXCEPT ![p] = left]
        /\ UNCHANGED <<pc, crashes, outbox, outboxLock, outgoing, dropped>>
    BY <1>3 DEF FlushOne, storeVars
  <2>2. left \in Seq(Events) /\ ToSet(remaining[p]) = {e} \cup ToSet(left)
    <3>1. remaining[p] \in Seq(Events) BY <1>0
    <3> QED BY <2>1, <3>1, Members
  <2> HIDE DEF e, left
  <2>3. remaining' \in [Procs -> Seq(Events)] /\ remaining'[p] = left BY <1>0, <2>1, <2>2
  <2>4. ASSUME crashes' = 0 PROVE AllEvents' = AllEvents
    <3>1. e \in ToSet(outbox) BY <1>0, <2>1, <2>2, <2>4 DEF Flushes
    <3> QED BY <2>1, <3>1 DEF AllEvents, Waiting
  <2>5. ASSUME crashes' = 0, NEW x \in Procs PROVE Flushes(x)'
    <3>1. CASE x = p
      <4>1. /\ outboxLock = p /\ ToSet(outbox) \subseteq published \cup ToSet(remaining[p])
            /\ ToSet(remaining[p]) \subseteq ToSet(outbox)
        BY <1>0, <2>1, <2>5 DEF Flushes
      <4> QED BY <2>1, <2>2, <2>3, <3>1, <4>1 DEF Flushes
    <3>2. CASE x # p
      <4>1. pc'[x] = pc[x] /\ pc[x] # "publishing" BY <1>0, <2>1, <2>5, <3>2
      <4> QED BY <4>1 DEF Flushes
    <3> QED BY <3>1, <3>2
  <2> QED BY <1>0, <2>1, <2>3, <2>4, <2>5 DEF EventsInv
<1>4. CASE FlushEnd(p)
  <2>1. /\ pc[p] = "publishing" /\ pc' = [pc EXCEPT ![p] = "flushed"]
        /\ outbox' = remaining[p] /\ outboxLock' = None
        /\ remaining' = [remaining EXCEPT ![p] = <<>>]
        /\ UNCHANGED <<crashes, outgoing, published, dropped>>
    BY <1>4 DEF FlushEnd, FlushWritten, GoTo, records
  <2>2. ASSUME crashes' = 0 PROVE AllEvents' = AllEvents
    <3>1. /\ ToSet(outbox) \subseteq published \cup ToSet(remaining[p])
          /\ ToSet(remaining[p]) \subseteq ToSet(outbox)
      BY <1>0, <2>1, <2>2 DEF Flushes
    <3> QED BY <2>1, <3>1 DEF AllEvents, Waiting
  <2>3. ASSUME crashes' = 0, NEW x \in Procs PROVE Flushes(x)'
    <3>1. CASE x = p BY <1>0, <2>1, <3>1 DEF Flushes
    <3>2. CASE x # p
      <4>1. pc'[x] = pc[x] /\ pc[x] # "publishing" BY <1>0, <2>1, <2>3, <3>2
      <4> QED BY <4>1 DEF Flushes
    <3> QED BY <3>1, <3>2
  <2>4. remaining' \in [Procs -> Seq(Events)] /\ outbox' \in Seq(Events) BY <1>0, <2>1
  <2>5. \A x \in Procs : pc'[x] # "notifying" => outgoing'[x] = <<>> BY <1>0, <2>1
  <2> QED BY <1>0, <2>1, <2>2, <2>3, <2>4, <2>5 DEF EventsInv
<1> QED BY <1>1, <1>2, <1>3, <1>4

LEMMA SendingTold ==
    ASSUME IInv, ToldInv, NEW p \in Procs, Sending(p)
    PROVE  EventsInv' /\ AnnouncedInv'
<1>0. EventsInv /\ AnnouncedInv /\ pc \in [Procs -> PcValues] /\ Collectors \subseteq Procs
  BY EdgeAssumption DEF ToldInv, IInv, StoreInv
<1>1. UNCHANGED <<store, before, crashes>>
  BY DEF Sending, edgeVars, Send, FlushBegin, FlushOne, FlushEnd, storeVars
<1>2. EventsInv' /\ (crashes' = 0 => AllEvents' = AllEvents)
  BY <1>0, SendTold, FlushTold DEF Sending
<1>3. \/ pc' = pc
      \/ pc[p] \in Comparing /\ \E w \in Comparing : pc' = [pc EXCEPT ![p] = w]
  BY DEF Sending, Send, FlushBegin, FlushOne, FlushEnd, GoTo, storeVars, Comparing
<1>4. \A k \in Collectors : (pc'[k] \in Comparing <=> pc[k] \in Comparing) BY <1>0, <1>3
<1>5. \A k \in Collectors : pc'[k] \in Looking => pc[k] \in Looking
  <2>1. \A w \in Comparing : w \notin Looking BY DEF Comparing, Looking
  <2> QED BY <1>0, <1>3, <2>1
<1>6. AnnouncedInv' BY <1>0, <1>1, <1>2, <1>4, <1>5, NobodyTold
<1> QED BY <1>2, <1>6

\* Program p comes to have the events of a comparison to send.
LEMMA ComparisonTold ==
    ASSUME NEW p \in Procs, outgoing \in [Procs -> Seq(Events)], outgoing[p] = <<>>,
           UNCHANGED <<outbox, published, dropped>>,
           NEW old, NEW new, NEW newest \in Nat, NEW t, WellKept(new, newest, t),
           outgoing' = [outgoing EXCEPT ![p] = Changes(old, new)]
    PROVE  /\ Told("opened")' = Told("opened") \cup IdsOf(OpenedSince(old, new))
           /\ Told("resolved")' = Told("resolved") \cup IdsOf(ClosedSince(old, new))
<1> DEFINE more == ToSet(Changes(old, new))
<1>1. more = EventsOf(ClosedSince(old, new), OpenedSince(old, new)) BY ChangesAre
<1>2. /\ Waiting = InOthers(p, outgoing) \cup ToSet(outgoing[p])
      /\ Waiting' = InOthers(p, outgoing) \cup more
  BY SendsBy
<1> HIDE DEF more
<1>3. ToSet(outgoing[p]) = {} BY DEF ToSet
<1>4. AllEvents' = AllEvents \cup more BY <1>2, <1>3 DEF AllEvents
<1>5. PICK all : all = AllEvents' OBVIOUS
<1>6. /\ AboutOf(all, "opened") = AboutOf(AllEvents, "opened") \cup IdsOf(OpenedSince(old, new))
      /\ AboutOf(all, "resolved") = AboutOf(AllEvents, "resolved") \cup IdsOf(ClosedSince(old, new))
  <2>1. PICK events : events = AllEvents OBVIOUS
  <2>2. all = events \cup EventsOf(ClosedSince(old, new), OpenedSince(old, new))
    BY <1>1, <1>4, <1>5, <2>1
  <2>3. /\ AboutOf(all, "opened") = AboutOf(events, "opened") \cup IdsOf(OpenedSince(old, new))
        /\ AboutOf(all, "resolved") = AboutOf(events, "resolved") \cup IdsOf(ClosedSince(old, new))
    <3>1. Adds(all, events, ClosedSince(old, new), OpenedSince(old, new)) BY <2>2 DEF Adds
    <3> QED BY <3>1, MoreTold
  <2> QED BY <2>1, <2>3
<1> QED BY <1>5, <1>6 DEF Told, AboutOf

\* The second read of the collector that compares.
LEMMA ComparesTold ==
    ASSUME OneCollector, IInv, ToldInv, EndsSeen, NEW k \in Collectors, CollectCompares(k)
    PROVE  EventsInv' /\ AnnouncedInv'
<1>0. /\ pc \in [Procs -> PcValues] /\ outgoing \in [Procs -> Seq(Events)] /\ k \in Procs
      /\ Collectors \subseteq Procs /\ EventsInv /\ AnnouncedInv /\ issued \in Nat
      /\ \A x \in Procs : pc[x] # "notifying" => outgoing[x] = <<>>
      /\ WellKept(store, issued, clock) /\ WellKept(before[k], issued, clock)
      /\ \A x \in Collectors : x = k
  BY EdgeAssumption DEF IInv, StoreInv, ToldInv, EventsInv, BeforeInv, OneCollector
<1>1. /\ pc[k] = "flushed" /\ pc' = [pc EXCEPT ![k] = "notifying"]
      /\ outgoing' = [outgoing EXCEPT ![k] = Changes(before[k], store)]
      /\ UNCHANGED <<store, crashes, outbox, outboxLock, remaining, published, dropped>>
  BY DEF CollectCompares, GoTo, records
<1>2. Changes(before[k], store) \in Seq(Events) BY <1>0, ChangesAre
<1>3. EventsInv' BY <1>0, <1>1, <1>2, EventsOn
<1>4. /\ Told("opened")' = Told("opened") \cup IdsOf(OpenedSince(before[k], store))
      /\ Told("resolved")' = Told("resolved") \cup IdsOf(ClosedSince(before[k], store))
  BY <1>0, <1>1, ComparisonTold
<1>5. ASSUME crashes' = 0 PROVE (ReadFirst /\ OpenTold /\ EndTold)'
  <2>0. crashes = 0 /\ OpenTold /\ EndTold /\ pc'[k] = "notifying" BY <1>0, <1>1, <1>5 DEF AnnouncedInv
  <2>1. ReadFirst' BY <1>0, <2>0 DEF ReadFirst, Looking
  <2>2. OpenTold'
    <3> SUFFICES ASSUME NEW r \in store.open, r.component \notin Minor PROVE r.id \in Told("opened")'
      BY <1>1 DEF OpenTold
    <3>1. CASE r.id \in OpenIds(before[k])
      <4>1. r.id \in Told("opened") BY <1>0, <2>0, <3>1 DEF OpenTold
      <4> QED BY <1>4, <4>1
    <3>2. CASE r.id \notin OpenIds(before[k])
      <4>1. r \in OpenedSince(before[k], store) BY <3>2 DEF OpenedSince
      <4> QED BY <1>4, <4>1 DEF IdsOf
    <3> QED BY <3>1, <3>2
  <2>3. EndTold'
    <3> SUFFICES ASSUME NEW i, i \in Told("opened")'
                 PROVE  i \in OpenIds(store) \/ i \in Told("resolved")'
      BY <1>1 DEF EndTold, OpenIds
    <3>1. CASE i \in IdsOf(OpenedSince(before[k], store))
      BY <3>1 DEF OpenedSince, OpenIds, IdsOf
    <3>2. CASE i \in Told("opened")
      <4>1. CASE i \in OpenIds(before[k])
        <5>1. i \in OpenIds(store) \cup ClosedIds(store) BY <4>1 DEF EndsSeen
        <5>2. i \notin ClosedIds(before[k]) BY <1>0, <4>1 DEF WellKept, OpenIds, ClosedIds
        <5>3. i \in ClosedIds(store) => i \in IdsOf(ClosedSince(before[k], store))
          BY <4>1, <5>2 DEF ClosedSince, ClosedIds, IdsOf
        <5> QED BY <1>4, <5>1, <5>3
      <4>2. CASE i \notin OpenIds(before[k])
        <5>1. i \in OpenIds(store) \/ i \in Told("resolved") BY <1>0, <2>0, <3>2, <4>2 DEF EndTold
        <5> QED BY <1>4, <5>1
      <4> QED BY <4>1, <4>2
    <3> QED BY <1>4, <3>1, <3>2
  <2> QED BY <2>1, <2>2, <2>3
<1> QED BY <1>3, <1>5 DEF AnnouncedInv

\* The save of a collector: what closes it had read first, and what opens it had not.
LEMMA SavesTold ==
    ASSUME OneCollector, IInv, ToldInv, NEW k \in Collectors, CollectSaves(k)
    PROVE  EventsInv' /\ AnnouncedInv'
<1> DEFINE s == Reconcile(mem[k], Batch(k), Checked(k), clock)
<1>0. /\ pc \in [Procs -> PcValues] /\ outgoing \in [Procs -> Seq(Events)] /\ k \in Procs
      /\ Collectors \subseteq Procs /\ EventsInv /\ AnnouncedInv
      /\ \A x \in Procs : pc[x] # "notifying" => outgoing[x] = <<>>
      /\ WellKept(before[k], issued, clock) /\ issued \in Nat
      /\ \A x \in Collectors : x = k
      /\ seen[k] \in Seq(Readings) /\ Len(seen[k]) <= Len(Checks) /\ Checks \in Seq(Names)
  BY EdgeAssumption DEF IInv, StoreInv, ReadInv, ToldInv, EventsInv, BeforeInv, OneCollector
<1>1. /\ pc[k] = "reconciling" /\ pc' = [pc EXCEPT ![k] = "flushing"] /\ store' = s
      /\ UNCHANGED <<before, crashes, outbox, outboxLock, remaining, outgoing, published, dropped>>
  BY DEF CollectSaves, SaveStore, GoTo, notifyVars, records
<1>2. /\ Follows(s)
      /\ \A r \in store.open :
             \/ \E q \in s.open : Alike(q, r)
             \/ \E i \in DOMAIN seen[k] : seen[k][i] = "up" /\ Redact[Checks[i]] = r.component
  BY <1>1, CollectorSaves
<1> HIDE DEF s
<1>3. EventsInv'
  <2>1. outgoing' = [outgoing EXCEPT ![k] = <<>>] /\ <<>> \in Seq(Events) BY <1>0, <1>1
  <2> QED BY <1>0, <1>1, <2>1, EventsOn
<1>4. ASSUME crashes' = 0 PROVE (ReadFirst /\ OpenTold /\ EndTold)'
  <2>0. /\ ReadFirst /\ OpenTold /\ EndTold /\ pc'[k] = "flushing"
        /\ "flushing" \in Comparing /\ "flushing" \notin Looking
        /\ pc[k] \in Looking /\ pc[k] \notin Comparing
    BY <1>0, <1>1, <1>4 DEF AnnouncedInv, Comparing, Looking
  <2>1. Told("opened")' = Told("opened") /\ Told("resolved")' = Told("resolved")
    BY <1>1 DEF Told, AboutOf, AllEvents, Waiting
  <2>2. ReadFirst' BY <1>0, <2>0 DEF ReadFirst
  <2>3. OpenTold'
    <3> SUFFICES ASSUME NEW r \in s.open, r.component \notin Minor
                 PROVE  r.id \in Told("opened") \/ r.id \notin OpenIds(before[k])
      BY <1>0, <1>1, <2>0, <2>1 DEF OpenTold, OpenIds
    <3>1. CASE \E q \in store.open : Alike(q, r)
      BY <1>0, <2>0, <3>1 DEF OpenTold, Alike
    <3>2. CASE r.id > issued
      <4>1. \A q \in before[k].open : q.id \in 1..issued BY <1>0 DEF WellKept
      <4>2. \A i \in 1..issued : ~(i > issued) BY <1>0
      <4> QED BY <3>2, <4>1, <4>2 DEF OpenIds
    <3> QED BY <1>2, <3>1, <3>2 DEF Follows
  <2>4. EndTold'
    <3> SUFFICES ASSUME NEW i \in Told("opened")
                 PROVE  i \in OpenIds(s) \/ i \in Told("resolved") \/ i \in OpenIds(before[k])
      BY <1>0, <1>1, <2>0, <2>1 DEF EndTold, OpenIds
    <3>1. i \in OpenIds(store) \/ i \in Told("resolved") BY <1>0, <2>0 DEF EndTold
    <3>2. ASSUME NEW r \in store.open, i = r.id PROVE i \in OpenIds(s) \/ i \in OpenIds(before[k])
      <4>1. CASE \E q \in s.open : Alike(q, r) BY <3>2, <4>1 DEF Alike, OpenIds
      <4>2. ASSUME NEW n \in DOMAIN seen[k], Redact[Checks[n]] = r.component
            PROVE  i \in OpenIds(before[k])
        <5>1. n \in DOMAIN Checks BY <1>0
        <5>2. r.component \in CheckNames BY <4>2, <5>1 DEF CheckNames, ToSet
        <5> QED BY <2>0, <3>2, <5>2 DEF ReadFirst
      <4> QED BY <1>2, <4>1, <4>2
    <3> QED BY <3>1, <3>2 DEF OpenIds
  <2> QED BY <2>2, <2>3, <2>4
<1> QED BY <1>3, <1>4 DEF AnnouncedInv

\* The save of a bridge, which compares what it loaded with what it saves.
LEMMA BridgeTold ==
    ASSUME ChecksApart, IInv, ToldInv, EndsSeen, NEW b \in Bridges,
           BridgeSaves(b), chunk[b] # <<>>, UNCHANGED edgeVars
    PROVE  EventsInv' /\ AnnouncedInv'
<1> DEFINE s == Ingested(b)
<1>0. /\ pc \in [Procs -> PcValues] /\ outgoing \in [Procs -> Seq(Events)] /\ b \in Procs
      /\ Collectors \subseteq Procs /\ b \notin Collectors /\ EventsInv /\ AnnouncedInv
      /\ \A x \in Procs : pc[x] # "notifying" => outgoing[x] = <<>>
      /\ issued \in Nat /\ WellKept(store, issued, clock)
  BY EdgeAssumption, BridgeAssumption, MonitoringAssumption DEF IInv, StoreInv, ToldInv, EventsInv
<1>1. /\ pc[b] = "applying" /\ pc' = [pc EXCEPT ![b] = "notifying"] /\ store' = s
      /\ outgoing' = [outgoing EXCEPT ![b] = Changes(mem[b], s)]
      /\ UNCHANGED <<before, crashes, outbox, outboxLock, remaining, published, dropped>>
  BY DEF BridgeSaves, SaveStore, GoTo, records, edgeVars
<1>2. mem[b] = store BY <1>0, <1>1 DEF IInv, StoreInv, Holding
<1>3. /\ Follows(s)
      /\ \A r \in s.open : \/ \E q \in store.open : Alike(q, r)
                           \/ r.component \in {Redact[n] : n \in Nodes}
  BY <1>1, BridgeStores
<1>4. OpenIds(store) \subseteq OpenIds(s) \cup ClosedIds(s) BY <1>1, <1>2 DEF EndsSeen
<1> HIDE DEF s
<1>5. PICK bound \in Nat : WellKept(s, bound, clock) BY <1>3 DEF Follows
<1>6. Changes(store, s) \in Seq(Events) BY <1>5, ChangesAre
<1>7. EventsInv' BY <1>0, <1>1, <1>2, <1>6, EventsOn
<1>8. /\ Told("opened")' = Told("opened") \cup IdsOf(OpenedSince(store, s))
      /\ Told("resolved")' = Told("resolved") \cup IdsOf(ClosedSince(store, s))
  BY <1>0, <1>1, <1>2, <1>5, ComparisonTold
<1>9. \A k \in Collectors : pc'[k] = pc[k] BY <1>0, <1>1
<1>10. \A r \in s.open : r.id \in OpenIds(store) => \E q \in store.open : Alike(q, r)
  <2>1. \A r \in s.open : (\E q \in store.open : Alike(q, r)) \/ r.id > issued BY <1>3 DEF Follows
  <2>2. \A q \in store.open : q.id \in 1..issued BY <1>0 DEF WellKept
  <2>3. \A i \in 1..issued : ~(i > issued) BY <1>0
  <2> QED BY <2>1, <2>2, <2>3 DEF OpenIds
<1>11. ASSUME crashes' = 0 PROVE (ReadFirst /\ OpenTold /\ EndTold)'
  <2>0. ReadFirst /\ OpenTold /\ EndTold BY <1>0, <1>1, <1>11 DEF AnnouncedInv
  <2>1. ReadFirst'
    <3> SUFFICES ASSUME NEW k \in Collectors, pc[k] \in Looking,
                        NEW r \in s.open, r.component \in CheckNames
                 PROVE  r.id \in OpenIds(before[k])
      BY <1>1, <1>9 DEF ReadFirst, OpenIds
    <3>1. r.component \notin {Redact[n] : n \in Nodes} BY DEF ChecksApart, CheckNames
    <3>2. PICK q \in store.open : Alike(q, r) BY <1>3, <3>1
    <3> QED BY <2>0, <3>2 DEF ReadFirst, Alike
  <2>2. OpenTold'
    <3> SUFFICES ASSUME NEW r \in s.open, r.component \notin Minor
                 PROVE  \/ r.id \in Told("opened")'
                        \/ \E k \in Collectors : pc[k] \in Comparing /\ r.id \notin OpenIds(before[k])
      BY <1>1, <1>9 DEF OpenTold, OpenIds
    <3>1. CASE r.id \in OpenIds(store)
      <4>1. PICK q \in store.open : Alike(q, r) BY <1>10, <3>1
      <4> QED BY <1>8, <2>0, <4>1 DEF OpenTold, Alike
    <3>2. CASE r.id \notin OpenIds(store)
      <4>1. r \in OpenedSince(store, s) BY <3>2 DEF OpenedSince
      <4> QED BY <1>8, <4>1 DEF IdsOf
    <3> QED BY <3>1, <3>2
  <2>3. EndTold'
    <3> SUFFICES ASSUME NEW i, i \in Told("opened")'
                 PROVE  \/ i \in OpenIds(s) \/ i \in Told("resolved")'
                        \/ \E k \in Collectors : pc[k] \in Comparing /\ i \in OpenIds(before[k])
      BY <1>1, <1>9 DEF EndTold, OpenIds
    <3>1. CASE i \in IdsOf(OpenedSince(store, s)) BY <3>1 DEF OpenedSince, OpenIds, IdsOf
    <3>2. CASE i \in Told("opened") /\ i \in OpenIds(store)
      <4>1. i \notin ClosedIds(store) BY <1>0, <3>2 DEF WellKept, OpenIds, ClosedIds
      <4>2. i \in ClosedIds(s) => i \in IdsOf(ClosedSince(store, s))
        BY <3>2, <4>1 DEF ClosedSince, ClosedIds, IdsOf
      <4> QED BY <1>4, <1>8, <3>2, <4>2
    <3>3. CASE i \in Told("opened") /\ i \notin OpenIds(store)
      BY <1>8, <2>0, <3>3 DEF EndTold
    <3> QED BY <1>8, <3>1, <3>2, <3>3
  <2> QED BY <2>1, <2>2, <2>3
<1> QED BY <1>7, <1>11 DEF AnnouncedInv

LEMMA ToldInit == Init => ToldInv
<1> SUFFICES ASSUME Init PROVE ToldInv OBVIOUS
<1>1. /\ store = EmptyStore /\ issued = 0 /\ clock = 0 /\ pc = [p \in Procs |-> "idle"] /\ crashes = 0
      /\ outbox = <<>> /\ published = {} /\ dropped = {}
      /\ remaining = [p \in Procs |-> <<>>] /\ outgoing = [p \in Procs |-> <<>>]
      /\ before = [k \in Collectors |-> EmptyStore]
      /\ Collectors \subseteq Procs
  BY EdgeAssumption DEF Init, StoreInit, NotifierInit, EdgeInit
<1>2. EventsInv
  <2>1. <<>> \in Seq(Events) OBVIOUS
  <2> QED BY <1>1, <2>1 DEF EventsInv, Flushes
<1>3. BeforeInv
  <2>1. WellKept(store, issued, clock) BY InitInv DEF IInv, StoreInv
  <2> QED BY <1>1, <2>1 DEF BeforeInv
<1>4. AnnouncedInv
  <2>1. store.open = {} BY <1>1 DEF EmptyStore
  <2>2. \A k \in Collectors : pc[k] \notin Looking BY <1>1 DEF Looking
  <2>3. Told("opened") = {}
    <3>1. ToSet(outbox) = {} /\ \A p \in Procs : ToSet(outgoing[p]) = {} BY <1>1 DEF ToSet
    <3>2. AllEvents = {} BY <1>1, <3>1 DEF AllEvents, Waiting
    <3> QED BY <3>2 DEF Told, AboutOf
  <2> QED BY <2>1, <2>2, <2>3 DEF AnnouncedInv, ReadFirst, OpenTold, EndTold
<1> QED BY <1>2, <1>3, <1>4 DEF ToldInv

\* With one collector, no checked component that shares its stored name with a watched node, and
\* any number of bridges: whoever was told of a problem is told that it is over, unless the
\* history was cut before the event of an end was made.
THEOREM EndIsAnnounced ==
    ASSUME OneCollector, ChecksApart
    PROVE  Spec /\ [][EndsSeen]_vars => []ToldIsOver
<1>1. ASSUME IInv, ToldInv, [Next]_vars, [EndsSeen]_vars PROVE ToldInv'
  <2>1. BeforeInv' BY <1>1, BeforeStep
  <2>2. CASE Silent BY <1>1, <2>1, <2>2, SilentTold DEF ToldInv
  <2>3. ASSUME NEW p \in Procs, Sending(p) \/ Gone(p) PROVE ToldInv'
    BY <1>1, <2>1, <2>3, SendingTold, GoneTold DEF ToldInv
  <2>4. ASSUME NEW k \in Collectors, Begin(k) \/ CollectSaves(k) PROVE ToldInv'
    BY <1>1, <2>1, <2>4, BeginTold, SavesTold DEF ToldInv
  <2>5. ASSUME NEW k \in Collectors, CollectCompares(k) PROVE ToldInv'
    <3>1. pc' # pc
      <4>1. k \in Procs /\ pc \in [Procs -> PcValues] BY <1>1, EdgeAssumption DEF IInv, StoreInv
      <4> QED BY <2>5, <4>1 DEF CollectCompares, GoTo
    <3>2. EndsSeen BY <1>1, <3>1 DEF vars, storeVars
    <3> QED BY <1>1, <2>1, <2>5, <3>2, ComparesTold DEF ToldInv
  <2>6. ASSUME NEW b \in Bridges, BridgeSaves(b), chunk[b] # <<>>, UNCHANGED edgeVars PROVE ToldInv'
    <3>1. pc' # pc
      <4>1. b \in Procs /\ pc \in [Procs -> PcValues] BY <1>1, BridgeAssumption DEF IInv, StoreInv
      <4> QED BY <2>6, <4>1 DEF BridgeSaves, GoTo
    <3>2. EndsSeen BY <1>1, <3>1 DEF vars, storeVars
    <3> QED BY <1>1, <2>1, <2>6, <3>2, BridgeTold DEF ToldInv
  <2> QED BY <1>1, <2>2, <2>3, <2>4, <2>5, <2>6, ToldKinds DEF ToldInv
<1>2. ToldInv => ToldIsOver
  <2> SUFFICES ASSUME ToldInv, crashes = 0, \A p \in Procs : pc[p] = "idle"
               PROVE  /\ {r.id : r \in {x \in store.open : x.component \notin Minor}} \subseteq Announced("opened")
                      /\ Announced("opened") \ OpenIds(store) \subseteq Announced("resolved")
    BY DEF ToldIsOver
  <2>1. \A p \in Procs : outgoing[p] = <<>> BY DEF ToldInv, EventsInv
  <2>2. Waiting = {} BY <2>1 DEF Waiting, ToSet
  <2>3. \A kind : Told(kind) = Announced(kind)
    <3>1. AllEvents = published \cup ToSet(outbox) \cup dropped BY <2>2 DEF AllEvents
    <3> QED BY <3>1 DEF Told, AboutOf, Announced
  <2>4. \A k \in Collectors : pc[k] \notin Comparing BY EdgeAssumption DEF Comparing
  <2>5. OpenTold /\ EndTold BY DEF ToldInv, AnnouncedInv
  <2> QED BY <2>3, <2>4, <2>5 DEF OpenTold, EndTold
<1>3. IInv /\ ToldInv /\ [Next]_vars /\ [EndsSeen]_vars => ToldInv' BY <1>1
<1> QED BY <1>2, <1>3, ToldInit, Invariant, PTL DEF Spec
-----------------------------------------------------------------------------
(* Types and bounds.                                                       *)

\* What is left of a flush fits into the outbox it came from, and the journal has no more lines
\* than were written.
FitsInv ==
    /\ \A p \in Procs : Len(remaining[p]) <= OutboxMax
    /\ Len(journal) <= written

TypeInv == TypeOK /\ FitsInv

\* The outbox never holds more than its limit.
LEMMA KeptFits ==
    ASSUME NEW S, NEW q \in Seq(S)
    PROVE  Len(Kept(q)) <= OutboxMax
<1> DEFINE n == Len(q)
           x == n - OutboxMax + 1
           from == Max({1, x})
<1>1. n \in Nat /\ x \in Int /\ OutboxMax \in Nat BY NotifierAssumption
<1>2. from \in {1, x} /\ from >= 1 /\ from >= x
  <2>1. \E y \in {1, x} : \A z \in {1, x} : y >= z BY <1>1
  <2> QED BY <2>1 DEF Max
<1> HIDE DEF from
<1>3. from \in Nat \ {0} BY <1>1, <1>2
<1>4. Kept(q) = SubSeq(q, from, n) BY DEF Kept, from, x, n
<1>5. Len(Kept(q)) = IF from <= n THEN n - from + 1 ELSE 0
  <2> HIDE DEF n, x
  <2> QED BY <1>1, <1>3, <1>4
<1> QED BY <1>1, <1>2, <1>3, <1>5

LEMMA TypeInit == Init => TypeInv
<1> SUFFICES ASSUME Init PROVE TypeInv OBVIOUS
<1>1. EmptyStore \in Stores BY DEF EmptyStore, Stores
<1>2. <<>> \in Seq(Events) /\ <<>> \in Seq(Readings) /\ <<>> \in Seq(Transitions) /\ Len(<<>>) = 0
  OBVIOUS
<1>3. StoreTypeOK /\ pc \in [Procs -> PcValues]
  BY <1>1, StoreAssumption DEF Init, StoreInit, StoreTypeOK, PcValues
<1>4. NotifierTypeOK /\ \A p \in Procs : Len(remaining[p]) <= OutboxMax
  BY <1>2, NotifierAssumption DEF Init, NotifierInit, NotifierTypeOK
<1>5. EdgeTypeOK BY <1>1, <1>2, EdgeAssumption DEF Init, EdgeInit, EdgeTypeOK
<1>6. BridgeTypeOK /\ Len(journal) <= written
  <2>1. /\ journal = <<>> /\ offset = 0 /\ written = 0 /\ outdated = {} /\ missed = FALSE
        /\ chunk = [b \in Bridges |-> <<>>] /\ upto = [b \in Bridges |-> 0]
        /\ last = [n \in Nodes |-> "resolve"]
    BY DEF Init, BridgeInit
  <2>2. 0 \in 0..MaxLines BY BridgeAssumption
  <2>3. chunk \in [Bridges -> Seq(Transitions)] /\ upto \in [Bridges -> 0..MaxLines]
    BY <1>2, <2>1, <2>2
  <2>4. last \in [Nodes -> {"trigger", "resolve"}] BY <2>1
  <2>5. journal \in Seq(Transitions) /\ Len(journal) <= written BY <1>2, <2>1
  <2> QED BY <2>1, <2>2, <2>3, <2>4, <2>5 DEF BridgeTypeOK
<1> QED BY <1>3, <1>4, <1>5, <1>6 DEF TypeInv, TypeOK, FitsInv

\* Programs are killed, or give up, one by one.
LEMMA CrashesOn ==
    ASSUME [Next]_vars
    PROVE  crashes' = crashes \/ (crashes < MaxCrashes /\ crashes' = crashes + 1)
<1>1. CASE UNCHANGED vars BY <1>1 DEF vars, storeVars
<1>2. CASE Outside
  BY <1>2 DEF Outside, TickStore, BrokerFlips, WorldFlips, Watchdog, WatchdogWrites,
     WatchdogRotates, storeVars
<1>3. ASSUME NEW p, Dies(p) PROVE crashes < MaxCrashes /\ crashes' = crashes + 1
  BY <1>3 DEF Dies
<1>4. ASSUME NEW k \in Collectors, Collect(k), ~Dies(k) PROVE crashes' = crashes
  BY <1>4 DEF Collect, Begin, Check, CollectLocks, CollectTimeout, LockTimeout, CollectSaves,
     CollectCompares, CollectEnds, storeVars
<1>5. ASSUME NEW b \in Bridges, Ingest(b), ~Dies(b) PROVE crashes' = crashes
  BY <1>5 DEF Ingest, ReadNew, BridgeLocks, BridgeTimeout, LockTimeout, BridgeSaves, BridgeEnds
<1>6. ASSUME NEW p, Send(p) \/ FlushBegin(p) \/ FlushOne(p) \/ FlushEnd(p)
      PROVE  crashes' = crashes
  BY <1>6 DEF Send, FlushBegin, FlushOne, FlushEnd, storeVars
<1>7. ASSUME NEW p, Crash(p) \/ OutboxTimeout(p) PROVE Dies(p)
  BY <1>7 DEF Crash, OutboxTimeout
<1> QED BY <1>1, <1>2, <1>3, <1>4, <1>5, <1>6, <1>7 DEF Next, Run

LEMMA StoreTypes ==
    ASSUME IInv, StoreTypeOK, [Next]_vars
    PROVE  StoreTypeOK' /\ pc' \in [Procs -> PcValues]
<1>1. /\ store \in Stores /\ lock \in Procs \cup {None} /\ crashes \in 0..MaxCrashes
      /\ mem \in [Procs -> Stores] /\ MaxCrashes \in Nat
  BY StoreAssumption DEF StoreTypeOK
<1>2. store' \in Stores /\ clock' \in 0..MaxTime /\ issued' \in Nat /\ pc' \in [Procs -> PcValues]
  BY StoreStep DEF StoreInv, WellKept
<1>3. EmptyStore \in Stores BY DEF EmptyStore, Stores
<1>4. lock' \in Procs \cup {None} /\ mem' \in [Procs -> Stores]
  <2>1. CASE Untouched BY <1>1, <2>1 DEF Untouched
  <2>2. ASSUME NEW p \in Procs, Moves(p) PROVE <1>4!1 /\ <1>4!2
    BY <1>1, <1>3, <2>2 DEF Moves
  <2>3. ASSUME NEW p \in Procs, Takes(p) PROVE <1>4!1 /\ <1>4!2
    BY <1>1, <2>3 DEF Takes
  <2>4. ASSUME NEW p \in Procs, NEW s, Saving(p, s) PROVE <1>4!1 /\ <1>4!2
    BY <1>1, <1>3, <2>4 DEF Saving, Saves, SaveStore, Forget
  <2> QED BY <2>1, <2>2, <2>3, <2>4, Steps
<1>5. crashes' \in 0..MaxCrashes BY <1>1, CrashesOn
<1> QED BY <1>2, <1>4, <1>5 DEF StoreTypeOK

\* The events that are sent come from a comparison of two states of the store.
LEMMA NotifierTypes ==
    ASSUME IInv, NotifierTypeOK, \A p \in Procs : Len(remaining[p]) <= OutboxMax, [Next]_vars
    PROVE  NotifierTypeOK' /\ \A p \in Procs : Len(remaining'[p]) <= OutboxMax
<1> DEFINE Typed == NotifierTypeOK /\ \A p \in Procs : Len(remaining[p]) <= OutboxMax
<1>0. /\ broker \in BOOLEAN /\ brokerFlips \in 0..MaxBrokerFlips
      /\ outbox \in Seq(Events) /\ Len(outbox) <= OutboxMax
      /\ outboxLock \in Procs \cup {None}
      /\ remaining \in [Procs -> Seq(Events)] /\ outgoing \in [Procs -> Seq(Events)]
      /\ published \subseteq Events /\ dropped \subseteq Events
      /\ \A p \in Procs : Len(remaining[p]) <= OutboxMax
      /\ OutboxMax \in Nat /\ MaxBrokerFlips \in Nat
      /\ Collectors \subseteq Procs /\ Bridges \subseteq Procs
  BY NotifierAssumption, EdgeAssumption, BridgeAssumption DEF NotifierTypeOK
<1>1. <<>> \in Seq(Events) /\ Len(<<>>) = 0 OBVIOUS
<1>2. UNCHANGED notifyVars => Typed' BY <1>0 DEF notifyVars, records, NotifierTypeOK
<1>3. ASSUME NEW p \in Procs, NEW q \in Seq(Events), outgoing' = [outgoing EXCEPT ![p] = q],
             UNCHANGED <<broker, brokerFlips, outbox, outboxLock, remaining, records>>
      PROVE  Typed'
  <2>1. outgoing' \in [Procs -> Seq(Events)] BY <1>0, <1>3
  <2> QED BY <1>0, <1>3, <2>1 DEF records, NotifierTypeOK
<1>4. ASSUME NEW p \in Procs, NotifierDies(p) PROVE Typed'
  <2>1. outgoing' \in [Procs -> Seq(Events)] /\ remaining' \in [Procs -> Seq(Events)]
    BY <1>0, <1>1, <1>4 DEF NotifierDies
  <2>2. \A q \in Procs : remaining'[q] \in {remaining[q], <<>>} BY <1>0, <1>4 DEF NotifierDies
  <2>3. \A q \in Procs : Len(remaining'[q]) <= OutboxMax BY <1>0, <1>1, <2>2
  <2>4. outboxLock' \in Procs \cup {None} BY <1>0, <1>4 DEF NotifierDies
  <2> QED BY <1>0, <1>4, <2>1, <2>3, <2>4 DEF NotifierDies, records, NotifierTypeOK
<1>5. ASSUME NEW p \in Procs, OutboxTimeout(p) PROVE Typed'
  BY <1>1, <1>3, <1>5 DEF OutboxTimeout
<1>6. ASSUME NEW p \in Procs, Send(p) PROVE Typed'
  <2> DEFINE e == Head(outgoing[p])
  <2>1. e \in Events /\ Tail(outgoing[p]) \in Seq(Events) BY <1>0, <1>6, Members DEF Send
  <2>2. outgoing' \in [Procs -> Seq(Events)] BY <1>0, <1>6, <2>1 DEF Send, Sent
  <2>3. UNCHANGED <<broker, brokerFlips, outboxLock, remaining>> BY <1>6 DEF Send
  <2>4. Append(outbox, e) \in Seq(Events) /\ ToSet(Append(outbox, e)) \subseteq Events
    BY <1>0, <2>1, Members
  <2>5. Kept(Append(outbox, e)) \in Seq(Events) /\ Len(Kept(Append(outbox, e))) <= OutboxMax
    BY <2>4, KeptIs, KeptFits
  <2>6. /\ outbox' \in Seq(Events) /\ Len(outbox') <= OutboxMax
        /\ published' \subseteq Events /\ dropped' \subseteq Events
    <3> HIDE DEF e
    <3>1. CASE published' = published \cup {e} /\ UNCHANGED <<outbox, dropped>>
      BY <1>0, <2>1, <3>1
    <3>2. CASE Queue(p, e) BY <1>0, <2>4, <2>5, <3>2 DEF Queue
    <3>3. CASE dropped' = dropped \cup {e} /\ UNCHANGED <<outbox, published>>
      BY <1>0, <2>1, <3>3
    <3> QED BY <1>6, <3>1, <3>2, <3>3 DEF Send, e
  <2> QED BY <1>0, <2>2, <2>3, <2>6 DEF NotifierTypeOK
<1>7. ASSUME NEW p \in Procs, FlushBegin(p) PROVE Typed'
  <2>1. UNCHANGED <<broker, brokerFlips, outbox, outgoing, records>> BY <1>7 DEF FlushBegin
  <2>2. \/ UNCHANGED <<outboxLock, remaining>>
        \/ outboxLock' = p /\ remaining' = [remaining EXCEPT ![p] = outbox]
    BY <1>7 DEF FlushBegin
  <2> QED BY <1>0, <2>1, <2>2 DEF records, NotifierTypeOK
<1>8. ASSUME NEW p \in Procs, FlushOne(p) PROVE Typed'
  <2>1. /\ remaining[p] # <<>> /\ published' = published \cup {Head(remaining[p])}
        /\ remaining' = [remaining EXCEPT ![p] = Tail(@)]
        /\ UNCHANGED <<broker, brokerFlips, outbox, outboxLock, outgoing, dropped>>
    BY <1>8 DEF FlushOne
  <2>2. Head(remaining[p]) \in Events /\ Tail(remaining[p]) \in Seq(Events)
    BY <1>0, <2>1, Members
  <2>3. Len(Tail(remaining[p])) <= OutboxMax
    <3>1. Len(Tail(remaining[p])) = Len(remaining[p]) - 1 /\ Len(remaining[p]) \in Nat
      BY <1>0, <2>1
    <3> QED BY <1>0, <3>1
  <2>4. remaining' \in [Procs -> Seq(Events)] /\ \A q \in Procs : Len(remaining'[q]) <= OutboxMax
    BY <1>0, <2>1, <2>2, <2>3
  <2> QED BY <1>0, <2>1, <2>2, <2>4 DEF NotifierTypeOK
<1>9. ASSUME NEW p \in Procs, FlushEnd(p) PROVE Typed'
  <2>1. /\ outbox' = remaining[p] /\ outboxLock' = None
        /\ remaining' = [remaining EXCEPT ![p] = <<>>]
        /\ UNCHANGED <<broker, brokerFlips, outgoing, records>>
    BY <1>9 DEF FlushEnd, FlushWritten
  <2>2. remaining' \in [Procs -> Seq(Events)] /\ \A q \in Procs : Len(remaining'[q]) <= OutboxMax
    BY <1>0, <1>1, <2>1
  <2> QED BY <1>0, <2>1, <2>2 DEF records, NotifierTypeOK
<1>10. BrokerFlips => Typed' BY <1>0 DEF BrokerFlips, records, NotifierTypeOK
<1>11. /\ issued \in Nat /\ WellKept(store, issued, clock)
  BY DEF IInv, StoreInv
<1>12. ASSUME NEW k \in Collectors, Collect(k) PROVE Typed'
  <2>1. CASE CollectCompares(k)
    <3>1. Changes(before[k], store) \in Seq(Events) BY <1>11, ChangesAre
    <3>2. /\ outgoing' = [outgoing EXCEPT ![k] = Changes(before[k], store)]
          /\ UNCHANGED <<broker, brokerFlips, outbox, outboxLock, remaining, records>>
      BY <2>1 DEF CollectCompares
    <3> QED BY <1>0, <1>3, <3>1, <3>2
  <2>2. CASE ~CollectCompares(k)
    BY <1>2, <1>12, <2>2 DEF Collect, Begin, Check, CollectLocks, CollectTimeout, CollectSaves,
       CollectEnds
  <2> QED BY <2>1, <2>2
<1>13. ASSUME NEW b \in Bridges, Ingest(b) PROVE Typed'
  <2>1. CASE BridgeSaves(b) /\ chunk[b] # <<>>
    <3>1. PICK bound \in Nat : WellKept(Ingested(b), bound, clock)
      BY <2>1, BridgeStores DEF BridgeSaves, Follows
    <3>2. Changes(mem[b], Ingested(b)) \in Seq(Events) BY <3>1, ChangesAre
    <3>3. /\ outgoing' = [outgoing EXCEPT ![b] = Changes(mem[b], Ingested(b))]
          /\ UNCHANGED <<broker, brokerFlips, outbox, outboxLock, remaining, records>>
      BY <2>1 DEF BridgeSaves
    <3> QED BY <1>0, <1>3, <3>2, <3>3
  <2>2. CASE BridgeSaves(b) /\ chunk[b] = <<>> BY <1>2, <2>2 DEF BridgeSaves, notifyVars, records
  <2>3. CASE ~BridgeSaves(b)
    BY <1>2, <1>13, <2>3 DEF Ingest, ReadNew, BridgeLocks, BridgeTimeout, BridgeEnds
  <2> QED BY <2>1, <2>2, <2>3
<1>14. ASSUME NEW p \in Procs, Run(p) PROVE Typed'
  BY <1>5, <1>6, <1>7, <1>8, <1>9, <1>12, <1>13, <1>14 DEF Run
<1>15. Outside => Typed'
  BY <1>2, <1>10 DEF Outside, WorldFlips, Watchdog, WatchdogWrites, WatchdogRotates
<1>16. UNCHANGED vars => Typed' BY <1>2 DEF vars
<1> QED BY <1>4, <1>14, <1>15, <1>16 DEF Next, Crash

LEMMA EdgeTypes ==
    ASSUME IInv, StoreTypeOK, EdgeTypeOK, [Next]_vars
    PROVE  EdgeTypeOK'
<1>0. /\ down \subseteq Names /\ systemd \in BOOLEAN /\ flips \in 0..MaxFlips
      /\ before \in [Collectors -> Stores] /\ store \in Stores
      /\ MaxFlips \in Nat /\ ToSet(Checks) \subseteq Names
  BY EdgeAssumption, Members DEF EdgeTypeOK, StoreTypeOK
<1>1. EmptyStore \in Stores BY DEF EmptyStore, Stores
<1>2. seen' \in [Collectors -> Seq(Readings)] BY ReadStep DEF ReadInv
<1>3. UNCHANGED <<world, before>> => EdgeTypeOK' BY <1>0, <1>2 DEF world, EdgeTypeOK
<1>4. UNCHANGED edgeVars => EdgeTypeOK' BY <1>3 DEF edgeVars, world
<1>5. ASSUME NEW p, EdgeDies(p) PROVE EdgeTypeOK'
  <2>1. before' \in [Collectors -> Stores] BY <1>0, <1>1, <1>5 DEF EdgeDies
  <2> QED BY <1>0, <1>2, <1>5, <2>1 DEF EdgeDies, world, EdgeTypeOK
<1>6. ASSUME NEW k \in Collectors, Collect(k) PROVE EdgeTypeOK'
  <2>1. CASE Begin(k) \/ CollectCompares(k)
    <3>1. PICK s \in Stores : before' = [before EXCEPT ![k] = s]
      BY <1>0, <1>1, <2>1 DEF Begin, CollectCompares
    <3>2. UNCHANGED world BY <2>1 DEF Begin, CollectCompares
    <3> QED BY <1>0, <1>2, <3>1, <3>2 DEF world, EdgeTypeOK
  <2>2. CASE Check(k) \/ CollectSaves(k) BY <1>3, <2>2 DEF Check, CollectSaves
  <2>3. CASE CollectLocks(k) \/ CollectEnds(k) BY <1>4, <2>3 DEF CollectLocks, CollectEnds
  <2>4. CASE CollectTimeout(k) BY <1>5, <2>4 DEF CollectTimeout
  <2> QED BY <1>6, <2>1, <2>2, <2>3, <2>4 DEF Collect
<1>7. ASSUME WorldFlips PROVE EdgeTypeOK'
  <2>1. flips < MaxFlips /\ flips' = flips + 1 /\ before' = before BY <1>7 DEF WorldFlips
  <2>2. down' \subseteq Names /\ systemd' \in BOOLEAN
    <3>1. ASSUME NEW c \in ToSet(Checks) PROVE SymDiff(down, {c}) \subseteq Names
      BY <1>0 DEF SymDiff
    <3> QED BY <1>0, <1>7, <3>1 DEF WorldFlips
  <2> QED BY <1>0, <1>2, <2>1, <2>2 DEF EdgeTypeOK
<1>8. ASSUME Outside PROVE EdgeTypeOK' BY <1>4, <1>7, <1>8 DEF Outside
<1>9. ASSUME NEW p \in Procs, Run(p) PROVE EdgeTypeOK' BY <1>4, <1>5, <1>6, <1>9 DEF Run
<1>10. UNCHANGED vars => EdgeTypeOK' BY <1>4 DEF vars
<1> QED BY <1>5, <1>8, <1>9, <1>10 DEF Next, Crash

\* An offset is the length that a journal had, so it stays within what was written.
LEMMA BridgeTypes ==
    ASSUME IInv, BridgeTypeOK, Len(journal) <= written, [Next]_vars
    PROVE  BridgeTypeOK' /\ Len(journal') <= written'
<1> DEFINE Typed == BridgeTypeOK /\ Len(journal) <= written
<1>0. /\ journal \in Seq(Transitions) /\ Len(journal) \in Nat /\ offset \in 0..MaxLines
      /\ upto \in [Bridges -> 0..MaxLines] /\ written \in 0..MaxLines
      /\ last \in [Nodes -> {"trigger", "resolve"}]
      /\ outdated \subseteq Bridges \cup {None} /\ missed \in BOOLEAN
      /\ Len(journal) <= written /\ MaxLines \in Nat
  BY BridgeAssumption DEF BridgeTypeOK
<1>1. journal' \in Seq(Transitions) /\ chunk' \in [Bridges -> Seq(Transitions)]
  BY ReadStep DEF ReadInv
<1>2. UNCHANGED <<journal, offset, upto, written, last, outdated, missed>> => Typed'
  BY <1>0, <1>1 DEF BridgeTypeOK
<1>3. UNCHANGED bridgeVars => Typed' BY <1>2 DEF bridgeVars
<1>4. ASSUME NEW p, BridgeDies(p) PROVE Typed'
  <2>1. upto' \in [Bridges -> 0..MaxLines] BY <1>0, <1>4 DEF BridgeDies
  <2> QED BY <1>0, <1>1, <1>4, <2>1 DEF BridgeDies, watchdog, BridgeTypeOK
<1>5. ASSUME NEW b \in Bridges, Ingest(b) PROVE Typed'
  <2>1. CASE ReadNew(b)
    <3>1. /\ upto' = [upto EXCEPT ![b] = Len(journal)] /\ outdated' = outdated \ {b}
          /\ UNCHANGED <<journal, written, last, offset>>
      BY <2>1 DEF ReadNew, watchdog
    <3>2. missed' \in BOOLEAN BY <2>1, Zenon DEF ReadNew
    <3>3. Len(journal) \in 0..MaxLines BY <1>0
    <3> QED BY <1>0, <1>1, <3>1, <3>2, <3>3 DEF BridgeTypeOK
  <2>2. CASE BridgeLocks(b) BY <1>3, <2>2 DEF BridgeLocks
  <2>3. CASE BridgeTimeout(b) BY <1>4, <2>3 DEF BridgeTimeout
  <2>4. CASE BridgeSaves(b) BY <1>2, <2>4 DEF BridgeSaves, watchdog
  <2>5. CASE BridgeEnds(b)
    <3>1. /\ offset' = upto[b] /\ upto' = [upto EXCEPT ![b] = 0]
          /\ outdated' \subseteq outdated \cup {None}
          /\ UNCHANGED <<journal, written, last, missed>>
      BY <2>5 DEF BridgeEnds, NewOffset, watchdog
    <3> QED BY <1>0, <1>1, <3>1 DEF BridgeTypeOK
  <2> QED BY <1>5, <2>1, <2>2, <2>3, <2>4, <2>5 DEF Ingest
<1>6. ASSUME WatchdogWrites PROVE Typed'
  <2>1. PICK n \in Nodes, to \in Statuses :
           /\ journal' = Append(journal, [node |-> n, to |-> to])
           /\ last' = [last EXCEPT ![n] = IF to = "other" THEN @ ELSE to]
    BY <1>6 DEF WatchdogWrites
  <2>2. /\ written < MaxLines /\ written' = written + 1
        /\ UNCHANGED <<offset, upto, outdated, missed>>
    BY <1>6 DEF WatchdogWrites
  <2>3. Len(journal') = Len(journal) + 1 BY <1>0, <2>1
  <2>4. last' \in [Nodes -> {"trigger", "resolve"}] BY <1>0, <2>1 DEF Statuses
  <2> QED BY <1>0, <1>1, <2>2, <2>3, <2>4 DEF BridgeTypeOK
<1>7. ASSUME WatchdogRotates PROVE Typed'
  <2>1. journal' = <<>> /\ UNCHANGED <<offset, upto, written, last>> /\ Len(<<>>) = 0
    BY <1>7 DEF WatchdogRotates
  <2>2. outdated' \subseteq Bridges \cup {None} BY <1>7 DEF WatchdogRotates
  <2>3. missed' \in BOOLEAN BY <1>7, Zenon DEF WatchdogRotates
  <2> QED BY <1>0, <1>1, <2>1, <2>2, <2>3 DEF BridgeTypeOK
<1>8. Outside => Typed'
  BY <1>3, <1>6, <1>7 DEF Outside, Watchdog
<1>9. ASSUME NEW p \in Procs, Run(p) PROVE Typed' BY <1>3, <1>4, <1>5, <1>9 DEF Run
<1>10. UNCHANGED vars => Typed' BY <1>3 DEF vars
<1> QED BY <1>4, <1>8, <1>9, <1>10 DEF Next, Crash

\* TypeOK of Monitoring: the outbox is never longer than its limit, its lock and the store's are
\* held by programs, and no bridge counts more lines than the watchdog wrote.
THEOREM TypeCorrect == Spec => []TypeOK
<1>1. IInv /\ TypeInv /\ [Next]_vars => TypeInv'
  <2> SUFFICES ASSUME IInv, TypeInv, [Next]_vars PROVE TypeInv' OBVIOUS
  <2>1. TypeOK /\ FitsInv BY DEF TypeInv
  <2>2. StoreTypeOK' /\ pc' \in [Procs -> PcValues] BY <2>1, StoreTypes DEF TypeOK
  <2>3. NotifierTypeOK' /\ \A p \in Procs : Len(remaining'[p]) <= OutboxMax
    BY <2>1, NotifierTypes DEF TypeOK, FitsInv
  <2>4. EdgeTypeOK' BY <2>1, EdgeTypes DEF TypeOK
  <2>5. BridgeTypeOK' /\ Len(journal') <= written' BY <2>1, BridgeTypes DEF TypeOK, FitsInv
  <2> QED BY <2>2, <2>3, <2>4, <2>5 DEF TypeInv, TypeOK, FitsInv
<1>2. TypeInv => TypeOK BY DEF TypeInv
<1> QED BY <1>1, <1>2, TypeInit, Invariant, PTL DEF Spec
=============================================================================
