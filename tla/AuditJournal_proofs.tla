------------------------ MODULE AuditJournal_proofs ------------------------
(***************************************************************************)
(* What holds of the audit journal for any number of writers, events and   *)
(* lines and any set of faults.  The invariant is about `AllLines': a      *)
(* chain as long as nobody edits it, broken from then on.                  *)
(***************************************************************************)
EXTENDS AuditJournal, SequenceTheorems, TLAPS

Lines == Entries \cup {Unreadable}

\* Line i of s continues the chain of the lines before it.
Link(s, i) ==
    /\ s[i] \in Entries
    /\ s[i].seq = i
    /\ s[i].prev = IF i = 1 THEN Genesis ELSE s[i - 1].hash
    /\ s[i].hash = Hash(s[i].seq, s[i].event, s[i].prev)
Chain(s) == \A i \in 1..Len(s) : (s[i] = Unreadable /\ i = Len(s)) \/ Link(s, i)

\* What verify_chain reports.
Broken(s) == \E i \in 1..Len(s) :
    \/ s[i] = Unreadable
    \/ s[i].seq # i
    \/ s[i].prev # IF i = 1 THEN Genesis ELSE s[i - 1].hash
    \/ SealBroken(s[i])

\* s may be continued, and x continues it.
Open(s) == s # <<>> => s[Len(s)] # Unreadable
Continues(s, x) ==
    /\ x \in Entries
    /\ x.seq = Len(s) + 1
    /\ x.prev = IF s = <<>> THEN Genesis ELSE s[Len(s)].hash
    /\ x.hash = Hash(x.seq, x.event, x.prev)

Holds(s, r) == \E i \in 1..Len(s) : s[i] = r

LockInv == \A w \in Writers :
    /\ pc[w] \in {"locked", "composed", "written"} => lock = w
    /\ pc[w] \in {"composed", "written"} => entry[w] \in Entries
FileInv ==
    /\ ~tampered => Chain(AllLines)
    /\ tampered => Broken(AllLines)
ComposedInv == \A w \in Writers : pc[w] = "composed" /\ ~tampered =>
    Open(AllLines) /\ Continues(AllLines, entry[w])
\* With no append cut off between an entry and its newline.
WholeInv == "newline" \notin Faults =>
    /\ tail \in {None, Unreadable}
    /\ ~tampered =>
        /\ \A i \in 1..Len(lines) : lines[i] # Unreadable
        /\ \A r \in returned : Holds(lines, r)
        /\ \A w \in Writers : pc[w] = "written" => Holds(lines, entry[w])

IInv == TypeOK /\ LockInv /\ FileInv /\ ComposedInv /\ WholeInv

-----------------------------------------------------------------------------
(* Entries and sequences of lines.                                         *)

\* A sealed entry is an entry.
LEMMA SealedEntry ==
    ASSUME NEW n \in Nat, NEW e \in Events, NEW p \in HashValues
    PROVE  Sealed(n, e, p) \in Entries
<1>1. <<n, e>> \in Nat \X Events OBVIOUS
<1>2. Hash(n, e, p) \in HashValues
  BY <1>1, AppendProperties DEF Hash, HashValues
<1> QED BY <1>2 DEF Sealed, Entries

\* Changing the event changes the hash.
LEMMA HashTells ==
    ASSUME NEW n \in Nat, NEW e \in Events, NEW f \in Events, NEW p \in HashValues, e # f
    PROVE  Hash(n, e, p) # Hash(n, f, p)
<1>1. <<n, e>> \in Nat \X Events /\ <<n, f>> \in Nat \X Events OBVIOUS
<1>2. Hash(n, e, p)[Len(p) + 1] = <<n, e>> /\ Hash(n, f, p)[Len(p) + 1] = <<n, f>>
  BY <1>1, AppendProperties DEF Hash, HashValues
<1> QED BY <1>2

\* One more line that continues an open chain, or that cannot be read, leaves a chain.
LEMMA ChainGrows ==
    ASSUME NEW s \in Seq(Lines), NEW x \in Lines, Chain(s), Open(s),
           x = Unreadable \/ Continues(s, x)
    PROVE  Chain(Append(s, x))
<1> DEFINE t == Append(s, x)
<1>1. /\ t \in Seq(Lines) /\ Len(t) = Len(s) + 1 /\ Len(s) \in Nat
      /\ \A i \in 1..Len(s) : t[i] = s[i]
      /\ t[Len(s) + 1] = x
  BY AppendProperties, LenProperties
<1> HIDE DEF t
<1>2. ASSUME NEW i \in 1..Len(t)
      PROVE  (t[i] = Unreadable /\ i = Len(t)) \/ Link(t, i)
  <2>1. CASE i \in 1..Len(s)
    <3>1. s[i] # Unreadable
      <4>1. CASE i = Len(s) BY <4>1, <2>1, <1>1, EmptySeq DEF Open
      <4>2. CASE i # Len(s) BY <4>2, <2>1, <1>1, NamesAssumption DEF Chain, Link
      <4> QED BY <4>1, <4>2
    <3>2. Link(s, i) BY <3>1, <2>1 DEF Chain
    <3>3. t[i] = s[i] /\ (i # 1 => t[i - 1] = s[i - 1]) BY <1>1, <2>1
    <3> QED BY <3>2, <3>3 DEF Link
  <2>2. CASE i = Len(s) + 1
    <3>1. CASE x = Unreadable BY <3>1, <2>2, <1>1
    <3>2. CASE Continues(s, x)
      <4>1. CASE i = 1
        <5>1. s = <<>> BY <4>1, <2>2, <1>1, EmptySeq
        <5> QED BY <5>1, <4>1, <3>2, <2>2, <1>1 DEF Link, Continues
      <4>2. CASE i # 1
        <5>1. s # <<>> /\ i - 1 = Len(s) /\ Len(s) \in 1..Len(s) BY <4>2, <2>2, <1>1, EmptySeq
        <5>2. t[i - 1] = s[Len(s)] BY <5>1, <1>1
        <5> QED BY <5>1, <5>2, <4>2, <3>2, <2>2, <1>1 DEF Link, Continues
      <4> QED BY <4>1, <4>2
    <3> QED BY <3>1, <3>2
  <2> QED BY <2>1, <2>2, <1>1
<1> QED BY <1>2 DEF Chain, t

\* A beginning of a chain is a chain, and what has a line after it is open.
LEMMA ChainPrefix ==
    ASSUME NEW s \in Seq(Lines), Chain(s), NEW t \in Seq(Lines), Len(t) <= Len(s),
           \A i \in 1..Len(t) : t[i] = s[i]
    PROVE  Chain(t) /\ (Len(t) < Len(s) => Open(t) /\ \A i \in 1..Len(t) : t[i] # Unreadable)
<1>1. Len(s) \in Nat /\ Len(t) \in Nat BY LenProperties
<1>2. ASSUME NEW i \in 1..Len(t)
      PROVE  /\ (t[i] = Unreadable /\ i = Len(t)) \/ Link(t, i)
             /\ Len(t) < Len(s) => t[i] # Unreadable
  <2>1. t[i] = s[i] /\ (i # 1 => t[i - 1] = s[i - 1]) /\ i \in 1..Len(s) BY <1>1
  <2>2. CASE s[i] = Unreadable
    <3>1. i = Len(s) BY <2>1, <2>2, NamesAssumption DEF Chain, Link
    <3> QED BY <3>1, <2>1, <2>2, <1>1
  <2>3. CASE s[i] # Unreadable
    <3>1. Link(s, i) BY <2>1, <2>3 DEF Chain
    <3>2. Link(t, i) BY <3>1, <2>1 DEF Link
    <3> QED BY <3>2, <2>1, <2>3
  <2> QED BY <2>2, <2>3
<1>3. Len(t) < Len(s) => Open(t)
  BY <1>1, <1>2, EmptySeq DEF Open
<1> QED BY <1>2, <1>3 DEF Chain

\* A broken chain stays broken, whatever is added.
LEMMA BrokenGrows ==
    ASSUME NEW s \in Seq(Lines), NEW x \in Lines, Broken(s)
    PROVE  Broken(Append(s, x))
<1> DEFINE t == Append(s, x)
<1>1. /\ Len(t) = Len(s) + 1 /\ Len(s) \in Nat
      /\ \A i \in 1..Len(s) : t[i] = s[i]
  BY AppendProperties, LenProperties
<1> HIDE DEF t
<1>2. PICK i \in 1..Len(s) : \/ s[i] = Unreadable
                             \/ s[i].seq # i
                             \/ s[i].prev # IF i = 1 THEN Genesis ELSE s[i - 1].hash
                             \/ SealBroken(s[i])
  BY DEF Broken
<1>3. t[i] = s[i] /\ (i # 1 => t[i - 1] = s[i - 1]) /\ i \in 1..Len(t) BY <1>1
<1>4. Broken(t) BY <1>2, <1>3 DEF Broken
<1> QED BY <1>4 DEF t

\* A line that cannot be read breaks the chain.
LEMMA TearBreaks ==
    ASSUME NEW s \in Seq(Lines)
    PROVE  Broken(Append(s, Unreadable))
<1>1. /\ Len(Append(s, Unreadable)) = Len(s) + 1 /\ Len(s) \in Nat
      /\ Append(s, Unreadable)[Len(s) + 1] = Unreadable
  BY AppendProperties, LenProperties DEF Lines
<1> QED BY <1>1 DEF Broken

\* verify_chain reports something exactly when the chain is broken.
LEMMA ProblemsAreBreaks == Problems # {} <=> Broken(AllLines)
BY DEF Problems, Broken, PrevHash

\* A chain without an unreadable line is not broken.
LEMMA ChainIsWhole ==
    ASSUME NEW s \in Seq(Lines), Chain(s), \A i \in 1..Len(s) : s[i] # Unreadable
    PROVE  ~Broken(s)
BY NamesAssumption DEF Chain, Link, Broken, SealBroken

LEMMA AllLinesType ==
    ASSUME TypeOK
    PROVE  /\ lines \in Seq(Lines) /\ AllLines \in Seq(Lines)
           /\ Len(lines) \in Nat /\ Len(AllLines) \in Nat
BY AppendProperties, LenProperties DEF TypeOK, AllLines, Lines
-----------------------------------------------------------------------------
(* The invariant, action by action.                                        *)

LEMMA InitInv == Init => IInv
<1> SUFFICES ASSUME Init PROVE IInv OBVIOUS
<1> USE DEF Init
<1>1. TypeOK BY EmptySeq DEF TypeOK
<1>2. AllLines = <<>> /\ Len(AllLines) = 0 BY EmptySeq DEF AllLines
<1>3. FileInv BY <1>2 DEF FileInv, Chain
<1>4. LockInv /\ ComposedInv BY DEF LockInv, ComposedInv
<1>5. WholeInv BY <1>2 DEF WholeInv, AllLines
<1> QED BY <1>1, <1>3, <1>4, <1>5 DEF IInv

\* A step that does not touch the file keeps what is said of it alone.
LEMMA FileKept ==
    ASSUME FileInv, UNCHANGED <<file, tampered>>
    PROVE  FileInv' /\ AllLines' = AllLines
BY DEF FileInv, file, AllLines, Chain, Link, Broken, SealBroken

LEMMA CallInv ==
    ASSUME IInv, NEW w \in Writers, Call(w)
    PROVE  IInv'
<1> USE DEF IInv, Call, file
<1>1. TypeOK' BY DEF TypeOK
<1>2. FileInv' /\ AllLines' = AllLines BY FileKept
<1>3. LockInv' BY DEF LockInv, TypeOK
<1>4. ComposedInv' BY <1>2 DEF ComposedInv, TypeOK, Open, Continues
<1>5. WholeInv' BY DEF WholeInv, TypeOK, Holds
<1> QED BY <1>1, <1>2, <1>3, <1>4, <1>5

LEMMA AcquireInv ==
    ASSUME IInv, NEW w \in Writers, Acquire(w)
    PROVE  IInv'
<1> USE DEF IInv, Acquire, file
<1>1. TypeOK' BY DEF TypeOK
<1>2. FileInv' /\ AllLines' = AllLines BY FileKept
<1>3. LockInv' BY NamesAssumption DEF LockInv, TypeOK
<1>4. ComposedInv' BY <1>2 DEF ComposedInv, TypeOK, Open, Continues
<1>5. WholeInv' BY DEF WholeInv, TypeOK, Holds
<1> QED BY <1>1, <1>2, <1>3, <1>4, <1>5

LEMMA GiveUpInv ==
    ASSUME IInv, NEW w \in Writers, GiveUp(w)
    PROVE  IInv'
<1> USE DEF IInv, GiveUp, file
<1>1. TypeOK' BY DEF TypeOK
<1>2. FileInv' /\ AllLines' = AllLines BY FileKept
<1>3. LockInv' BY DEF LockInv, TypeOK
<1>4. ComposedInv' BY <1>2 DEF ComposedInv, TypeOK, Open, Continues
<1>5. WholeInv' BY DEF WholeInv, TypeOK, Holds
<1> QED BY <1>1, <1>2, <1>3, <1>4, <1>5

\* What a writer composes under the lock continues the file as it is.
LEMMA ComposedContinues ==
    ASSUME TypeOK, CanContinue, NEW e \in Events
    PROVE  /\ Open(AllLines) /\ Composed(e) \in Entries
           /\ Chain(AllLines) => Continues(AllLines, Composed(e))
<1>1. /\ AllLines \in Seq(Lines) /\ Len(AllLines) \in Nat BY AllLinesType
<1>2. Open(AllLines) BY DEF CanContinue, Open
<1>3. CASE AllLines = <<>>
  <2>1. Composed(e) = Sealed(1, e, Genesis) BY <1>3 DEF Composed
  <2>2. Genesis \in HashValues BY EmptySeq DEF Genesis, HashValues
  <2>3. Composed(e) \in Entries BY <2>1, <2>2, SealedEntry
  <2>4. Len(AllLines) = 0 BY <1>3, EmptySeq
  <2> QED BY <1>2, <1>3, <2>1, <2>3, <2>4 DEF Continues, Sealed
<1>4. CASE AllLines # <<>>
  <2> DEFINE last == AllLines[Len(AllLines)]
  <2>1. Len(AllLines) \in 1..Len(AllLines) BY <1>1, <1>4, EmptySeq
  <2>2. last \in Entries BY <1>1, <1>4, <2>1, <1>2, ElementOfSeq DEF Lines, Open
  <2>3. last.seq + 1 \in Nat /\ last.hash \in HashValues BY <2>2 DEF Entries
  <2>4. Composed(e) = Sealed(last.seq + 1, e, last.hash) BY <1>4 DEF Composed
  <2>5. Composed(e) \in Entries BY <2>3, <2>4, SealedEntry
  <2>6. Chain(AllLines) => last.seq = Len(AllLines)
    BY <2>1, <2>2, NamesAssumption DEF Chain, Link
  <2>7. Chain(AllLines) => Continues(AllLines, Composed(e))
    BY <1>4, <2>4, <2>5, <2>6 DEF Continues, Sealed
  <2> QED BY <1>2, <2>5, <2>7
<1> QED BY <1>3, <1>4

LEMMA ReadLastInv ==
    ASSUME IInv, NEW w \in Writers, ReadLast(w)
    PROVE  IInv'
<1> USE DEF IInv
<1>0. UNCHANGED <<file, returned, tampered>> /\ pc[w] = "locked" BY DEF ReadLast
<1>1. FileInv' /\ AllLines' = AllLines BY <1>0, FileKept
<1>2. CASE /\ CanContinue
           /\ pc' = [pc EXCEPT ![w] = "composed"]
           /\ UNCHANGED lock
           /\ \E e \in Events : entry' = [entry EXCEPT ![w] = Composed(e)]
  <2>1. PICK e \in Events : entry' = [entry EXCEPT ![w] = Composed(e)] BY <1>2
  <2>2. /\ Open(AllLines) /\ Composed(e) \in Entries
        /\ ~tampered => Continues(AllLines, Composed(e))
    BY <1>2, ComposedContinues DEF FileInv
  <2>3. TypeOK' BY <1>0, <1>2, <2>1, <2>2 DEF TypeOK, file
  <2>4. LockInv' BY <1>0, <1>2, <2>1, <2>2 DEF LockInv, TypeOK
  <2>5. ComposedInv'
    <3> SUFFICES ASSUME NEW v \in Writers, pc'[v] = "composed", ~tampered'
                 PROVE  Open(AllLines') /\ Continues(AllLines', entry'[v])
      BY DEF ComposedInv, Open, Continues
    <3>1. CASE v = w BY <3>1, <1>0, <1>1, <2>1, <2>2 DEF TypeOK
    <3>2. CASE v # w
      <4>1. pc[v] = "composed" /\ entry'[v] = entry[v] BY <3>2, <1>2, <2>1 DEF TypeOK
      <4> QED BY <4>1, <1>0, <1>1 DEF ComposedInv
    <3> QED BY <3>1, <3>2
  <2>6. WholeInv' BY <1>0, <1>2, <2>1 DEF WholeInv, TypeOK, Holds, file
  <2> QED BY <1>1, <2>3, <2>4, <2>5, <2>6
<1>3. CASE Ended(w)
  <2>1. TypeOK' BY <1>0, <1>3 DEF TypeOK, file, Ended
  <2>2. LockInv' BY <1>0, <1>3 DEF LockInv, TypeOK, Ended
  <2>3. ComposedInv' BY <1>0, <1>1, <1>3 DEF ComposedInv, TypeOK, Ended, Open, Continues
  <2>4. WholeInv' BY <1>0, <1>3 DEF WholeInv, TypeOK, Holds, file, Ended
  <2> QED BY <1>1, <2>1, <2>2, <2>3, <2>4
<1> QED BY <1>2, <1>3 DEF ReadLast

LEMMA ReturnInv ==
    ASSUME IInv, NEW w \in Writers, Return(w)
    PROVE  IInv'
<1> USE DEF IInv, Return, Ended
<1>1. FileInv' /\ AllLines' = AllLines BY FileKept
<1>2. entry[w] \in Entries BY DEF LockInv
<1>3. TypeOK' BY <1>2 DEF TypeOK, file
<1>4. LockInv' BY DEF LockInv, TypeOK
<1>5. ComposedInv' BY <1>1 DEF ComposedInv, TypeOK, Open, Continues
<1>6. WholeInv' BY DEF WholeInv, TypeOK, Holds, file
<1> QED BY <1>1, <1>3, <1>4, <1>5, <1>6

LEMMA CrashInv ==
    ASSUME IInv, NEW w \in Writers, Crash(w)
    PROVE  IInv'
<1> USE DEF IInv, Crash
<1>1. FileInv' /\ AllLines' = AllLines BY FileKept
<1>2. TypeOK' BY DEF TypeOK, file
<1>3. LockInv' BY DEF LockInv, TypeOK
<1>4. ComposedInv' BY <1>1 DEF ComposedInv, TypeOK, Open, Continues
<1>5. WholeInv' BY DEF WholeInv, TypeOK, Holds, file
<1> QED BY <1>1, <1>2, <1>3, <1>4, <1>5

LEMMA WriteInv ==
    ASSUME IInv, NEW w \in Writers, Write(w)
    PROVE  IInv'
<1> USE DEF IInv
<1> DEFINE x == entry[w]
<1>1. /\ pc[w] = "composed" /\ lock = w /\ x \in Entries
      /\ UNCHANGED <<returned, tampered>>
  BY DEF Write, LockInv
<1>2. /\ lines \in Seq(Lines) /\ AllLines \in Seq(Lines) /\ Len(lines) \in Nat
  BY AllLinesType
<1>3. x \in Lines /\ Unreadable \in Lines BY <1>1 DEF Lines
<1>4. \A v \in Writers \ {w} : pc[v] \notin {"locked", "composed", "written"}
  BY <1>1 DEF LockInv
<1>5. ~tampered => Chain(AllLines) /\ Open(AllLines) /\ Continues(AllLines, x)
  BY <1>1 DEF FileInv, ComposedInv
\* What the three outcomes make of the file.
<1>6. ASSUME NEW y \in {x, Unreadable}, AllLines' = Append(AllLines, y)
      PROVE  FileInv'
  <2>1. ~tampered => Chain(Append(AllLines, y)) BY <1>2, <1>3, <1>5, ChainGrows
  <2>2. tampered => Broken(Append(AllLines, y)) BY <1>2, <1>3, BrokenGrows DEF FileInv
  <2> QED BY <1>1, <1>6, <2>1, <2>2 DEF FileInv, Chain, Link, Broken, SealBroken
<1>7. ASSUME tail # None, AllLines' = Append(lines, Unreadable)
      PROVE  FileInv'
  <2>0. AllLines = Append(lines, tail) /\ tail \in Lines BY <1>7 DEF AllLines, TypeOK, Lines
  <2>1. Len(AllLines) = Len(lines) + 1 /\ \A i \in 1..Len(lines) : AllLines[i] = lines[i]
    BY <1>2, <2>0, AppendProperties
  <2>2. ~tampered => Chain(lines) /\ Open(lines) BY <1>2, <1>5, <2>1, ChainPrefix
  <2>3. ~tampered => Chain(Append(lines, Unreadable)) BY <1>2, <1>3, <2>2, ChainGrows
  <2>4. Broken(Append(lines, Unreadable)) BY <1>2, TearBreaks
  <2> QED BY <1>1, <1>7, <2>3, <2>4 DEF FileInv, Chain, Link, Broken, SealBroken
<1>8. Continued(x) \in Lines BY <1>3 DEF Continued
<1>9. CASE /\ lines' = Appended(w) /\ tail' = None
           /\ pc' = [pc EXCEPT ![w] = "written"]
           /\ UNCHANGED <<lock, entry>>
  <2>1. lines' = Append(lines, Continued(x)) /\ AllLines' = lines'
    BY <1>9 DEF Appended, AllLines
  <2>2. lines' \in Seq(Lines) /\ Len(lines') = Len(lines) + 1
        /\ (\A i \in 1..Len(lines) : lines'[i] = lines[i])
        /\ lines'[Len(lines) + 1] = Continued(x)
    BY <1>2, <1>8, <2>1, AppendProperties
  <2>3. TypeOK' BY <1>1, <1>9, <2>2 DEF TypeOK, Lines
  <2>4. FileInv'
    <3>1. CASE tail = None
      BY <3>1, <1>6, <2>1 DEF AllLines, Continued
    <3>2. CASE tail # None BY <3>2, <1>7, <2>1 DEF Continued
    <3> QED BY <3>1, <3>2
  <2>5. LockInv' BY <1>1, <1>9 DEF LockInv, TypeOK
  <2>6. ComposedInv' BY <1>4, <1>9 DEF ComposedInv, TypeOK
  <2>7. WholeInv'
    <3> SUFFICES ASSUME "newline" \notin Faults, ~tampered
                 PROVE  /\ \A i \in 1..Len(lines') : lines'[i] # Unreadable
                        /\ \A r \in returned' : Holds(lines', r)
                        /\ \A v \in Writers : pc'[v] = "written" => Holds(lines', entry'[v])
      BY <1>1, <1>9 DEF WholeInv, Holds
    <3>1. tail = None
      <4>1. CASE tail = Unreadable
        <5>1. /\ AllLines # <<>> /\ AllLines[Len(AllLines)] = Unreadable
          BY <4>1, <1>2, <1>3, NamesAssumption, AppendProperties DEF AllLines
        <5> QED BY <5>1, <1>5 DEF Open
      <4> QED BY <4>1 DEF WholeInv
    <3>2. Continued(x) = x /\ x # Unreadable BY <3>1, <1>1, NamesAssumption DEF Continued
    <3>3. \A i \in 1..Len(lines') : lines'[i] # Unreadable
      BY <1>2, <2>2, <3>2 DEF WholeInv
    <3>4. \A r \in Entries : Holds(lines, r) => Holds(lines', r) BY <1>2, <2>2 DEF Holds
    <3>5. Holds(lines', x) BY <1>2, <2>2, <3>2 DEF Holds
    <3>6. \A r \in returned' : Holds(lines', r) BY <1>1, <3>4 DEF WholeInv, TypeOK
    <3>7. \A v \in Writers : pc'[v] = "written" => v = w BY <1>4, <1>9 DEF TypeOK
    <3>8. entry'[w] = x BY <1>9
    <3>9. \A v \in Writers : pc'[v] = "written" => Holds(lines', entry'[v])
      BY <3>5, <3>7, <3>8 DEF Holds
    <3> QED BY <3>3, <3>6, <3>9
  <2> QED BY <2>3, <2>4, <2>5, <2>6, <2>7
<1>10. CASE /\ \/ Can("torn") /\ tail' \in {tail, Unreadable}
               \/ Can("newline") /\ tail' = Continued(x)
            /\ Ended(w)
            /\ UNCHANGED lines
  <2>1. TypeOK' BY <1>1, <1>8, <1>10 DEF TypeOK, Ended, Continued
  <2>2. FileInv'
    <3>1. CASE tail' = tail
      BY <3>1, <1>1, <1>10 DEF FileInv, AllLines, Chain, Link, Broken, SealBroken
    <3>2. CASE tail' = Unreadable
      <4>1. AllLines' = Append(lines, Unreadable)
        BY <3>2, <1>10, NamesAssumption DEF AllLines
      <4>2. CASE tail = None BY <4>1, <4>2, <1>6 DEF AllLines
      <4>3. CASE tail # None BY <4>1, <4>3, <1>7
      <4> QED BY <4>2, <4>3
    <3>3. CASE tail' = x /\ tail = None
      <4>1. AllLines' = Append(AllLines, x)
        BY <3>3, <1>1, <1>10, NamesAssumption DEF AllLines
      <4> QED BY <4>1, <1>6
    <3> QED BY <3>1, <3>2, <3>3, <1>10 DEF Continued
  <2>3. LockInv' BY <1>1, <1>4, <1>10 DEF LockInv, TypeOK, Ended
  <2>4. ComposedInv' BY <1>4, <1>10 DEF ComposedInv, TypeOK, Ended
  <2>5. WholeInv'
    <3>1. \A v \in Writers : pc'[v] # "written" BY <1>4, <1>10 DEF TypeOK, Ended
    <3> QED BY <3>1, <1>1, <1>10 DEF WholeInv, Holds, Can
  <2> QED BY <2>1, <2>2, <2>3, <2>4, <2>5
<1> QED BY <1>1, <1>9, <1>10 DEF Write

\* A power cut leaves a beginning of the file, so a beginning of the chain.
LEMMA PowerCutInv ==
    ASSUME IInv, PowerCut
    PROVE  IInv'
<1> USE DEF IInv
<1>1. /\ ~tampered /\ ~tampered' /\ returned' = {} /\ lock' = None
      /\ pc' = [w \in Writers |-> "idle"] /\ entry' = [w \in Writers |-> None]
  BY DEF PowerCut
<1>2. /\ lines \in Seq(Lines) /\ AllLines \in Seq(Lines) /\ Len(lines) \in Nat
      /\ Chain(AllLines)
  BY <1>1, AllLinesType DEF FileInv
<1>3. PICK n \in 0..Len(lines) :
          LET rest == IF n < Len(lines) THEN lines[n + 1] ELSE tail IN
          /\ lines' = SubSeq(lines, 1, n)
          /\ tail' \in {None}
               \cup (IF rest = None THEN {} ELSE {Unreadable})
               \cup (IF Can("newline") THEN {rest} ELSE {})
  BY DEF PowerCut
<1> DEFINE rest == IF n < Len(lines) THEN lines[n + 1] ELSE tail
<1>4. rest \in Lines \cup {None} BY <1>2, ElementOfSeq DEF TypeOK, Lines
<1>5. /\ lines' \in Seq(Lines) /\ Len(lines') = n
      /\ \A i \in 1..n : lines'[i] = lines[i]
  <2>1. \A i \in 1..n : lines[i] \in Lines BY <1>2, ElementOfSeq
  <2> QED BY <1>3, <2>1, SubSeqProperties
<1>6. /\ Len(lines) <= Len(AllLines)
      /\ \A i \in 1..Len(lines) : AllLines[i] = lines[i]
      /\ tail # None => Len(AllLines) = Len(lines) + 1
  BY <1>2, AppendProperties DEF AllLines, TypeOK, Lines
<1>7. Chain(lines') /\ (n < Len(AllLines) => Open(lines'))
  BY <1>2, <1>5, <1>6, ChainPrefix
<1>8. rest # None => n < Len(AllLines) /\ AllLines[n + 1] = rest
  BY <1>2, <1>6, AppendProperties DEF AllLines, TypeOK, Lines
<1>9. TypeOK'
  <2>1. tail' \in {None, Unreadable, rest} BY <1>3
  <2>2. tail' \in Entries \cup {Unreadable, None} BY <2>1, <1>4 DEF Lines
  <2>3. lines' \in Seq(Entries \cup {Unreadable}) BY <1>5 DEF Lines
  <2>4. /\ pc' \in [Writers -> {"idle", "waiting", "locked", "composed", "written"}]
        /\ entry' \in [Writers -> Entries \cup {None}]
    BY <1>1
  <2>5. lock' \in Writers \cup {None} /\ returned' \subseteq Entries /\ tampered' \in BOOLEAN
    BY <1>1 DEF PowerCut, TypeOK
  <2> QED BY <2>2, <2>3, <2>4, <2>5 DEF TypeOK
<1>10. FileInv'
  <2>1. CASE tail' = None BY <2>1, <1>1, <1>7 DEF FileInv, AllLines, Chain, Link
  <2>2. CASE tail' # None
    <3>1. rest # None /\ tail' \in {Unreadable, rest} BY <2>2, <1>3
    <3>2. tail' = Unreadable \/ Continues(lines', tail')
      <4> SUFFICES ASSUME rest # Unreadable PROVE Continues(lines', rest) BY <3>1
      <4>1. Link(AllLines, n + 1)
        BY <1>2, <1>8, <3>1, <1>3 DEF Chain
      <4>2. n = 0 => lines' = <<>> BY <1>5, EmptySeq
      <4>3. n # 0 => lines' # <<>> /\ AllLines[n] = lines'[n]
        BY <1>5, <1>6, <1>2, EmptySeq
      <4> QED BY <4>1, <4>2, <4>3, <1>5, <1>8, <3>1 DEF Link, Continues
    <3>3. Chain(Append(lines', tail'))
      BY <1>4, <1>5, <1>7, <1>8, <3>1, <3>2, ChainGrows DEF Lines
    <3> QED BY <2>2, <3>3, <1>1 DEF FileInv, AllLines, Chain, Link
  <2> QED BY <2>1, <2>2
<1>11. LockInv' /\ ComposedInv' BY <1>1 DEF LockInv, ComposedInv
<1>12. WholeInv'
  BY <1>1, <1>2, <1>3, <1>5 DEF WholeInv, Can
<1> QED BY <1>9, <1>10, <1>11, <1>12

\* Whatever is changed by hand, the changed line or the one after it does not fit.
LEMMA TamperInv ==
    ASSUME IInv, Tamper
    PROVE  IInv'
<1> USE DEF IInv
<1>1. ~tampered /\ tampered' /\ UNCHANGED <<tail, lock, pc, entry, returned>> BY DEF Tamper
<1>2. /\ lines \in Seq(Lines) /\ AllLines \in Seq(Lines) /\ Len(lines) \in Nat
      /\ Chain(AllLines)
  BY <1>1, AllLinesType DEF FileInv
<1>3. /\ Len(lines) <= Len(AllLines)
      /\ \A i \in 1..Len(lines) : AllLines[i] = lines[i]
  BY <1>2, AppendProperties DEF AllLines, TypeOK, Lines
<1>4. Chain(lines) BY <1>2, <1>3, ChainPrefix
<1>5. lines' \in Seq(Lines) /\ Broken(lines')
  <2>1. PICK i \in 1..Len(lines) :
           \/ i < Len(lines) /\ lines' = Removed(i)
           \/ \E j \in (i + 1)..Len(lines) : lines' = Swapped(i, j)
           \/ /\ lines[i] # Unreadable
              /\ \E e \in Events \ {lines[i].event} :
                     \/ lines' = Edited(i, e)
                     \/ i < Len(lines) /\ lines' = Resealed(i, e)
    BY DEF Tamper
  <2>2. CASE i < Len(lines) /\ lines' = Removed(i)
    <3> DEFINE front == SubSeq(lines, 1, i - 1)  back == SubSeq(lines, i + 1, Len(lines))
    <3>1. front \in Seq(Lines) /\ Len(front) = i - 1
      <4>1. \A k \in 1..(i - 1) : lines[k] \in Lines BY <1>2, ElementOfSeq
      <4> QED BY <4>1, <1>2, SubSeqProperties
    <3>2. /\ back \in Seq(Lines) /\ Len(back) = Len(lines) - i
          /\ back[1] = lines[i + 1]
      <4>1. \A k \in (i + 1)..Len(lines) : lines[k] \in Lines BY <1>2, ElementOfSeq
      <4> QED BY <4>1, <1>2, <2>2, SubSeqProperties
    <3>3. lines' = front \o back BY <2>2 DEF Removed
    <3> HIDE DEF front, back
    <3>4. /\ lines' \in Seq(Lines) /\ Len(lines') = Len(lines) - 1
          /\ lines'[i] = lines[i + 1]
      <4>1. /\ lines' \in Seq(Lines) /\ Len(lines') = Len(front) + Len(back)
            /\ \A k \in 1..(Len(front) + Len(back)) :
                   lines'[k] = IF k <= Len(front) THEN front[k] ELSE back[k - Len(front)]
        BY <3>1, <3>2, <3>3, ConcatProperties
      <4>2. i \in 1..(Len(front) + Len(back)) /\ ~(i <= Len(front)) /\ i - Len(front) = 1
        <5>1. Len(front) + Len(back) = Len(lines) - 1 BY <3>1, <3>2, <1>2, <2>2
        <5> QED BY <5>1, <3>1, <1>2, <2>2
      <4>3. lines'[i] = back[1] BY <4>1, <4>2
      <4>4. Len(lines') = Len(lines) - 1 BY <4>1, <3>1, <3>2, <1>2, <2>2
      <4> QED BY <4>1, <4>3, <4>4, <3>2
    <3>5. lines[i + 1] = Unreadable \/ lines[i + 1].seq = i + 1
      BY <1>2, <1>4, <2>2 DEF Chain, Link
    <3> QED BY <3>4, <3>5, <1>2, <2>2 DEF Broken
  <2>3. ASSUME NEW j \in (i + 1)..Len(lines), lines' = Swapped(i, j)
        PROVE  lines' \in Seq(Lines) /\ Broken(lines')
    <3>1. lines[i] \in Lines /\ lines[j] \in Lines BY <1>2, ElementOfSeq
    <3> DEFINE half == [lines EXCEPT ![i] = lines[j]]
    <3>2. half \in Seq(Lines) /\ Len(half) = Len(lines) /\ half[i] = lines[j]
      BY <1>2, <3>1, ExceptSeq
    <3>3. lines' = [half EXCEPT ![j] = lines[i]] BY <2>3 DEF Swapped
    <3> HIDE DEF half
    <3>4. lines' \in Seq(Lines) /\ Len(lines') = Len(lines) /\ lines'[i] = lines[j]
      BY <1>2, <3>1, <3>2, <3>3, ExceptSeq
    <3>5. lines[j] = Unreadable \/ lines[j].seq = j
      BY <1>2, <1>4 DEF Chain, Link
    <3> QED BY <3>4, <3>5 DEF Broken
  <2>4. ASSUME lines[i] # Unreadable, NEW e \in Events \ {lines[i].event},
               lines' = Edited(i, e)
        PROVE  lines' \in Seq(Lines) /\ Broken(lines')
    <3>1. Link(lines, i) BY <2>4, <1>4 DEF Chain
    <3> DEFINE new == [lines[i] EXCEPT !.event = e]
    <3>2. /\ new \in Entries /\ new.seq = lines[i].seq /\ new.event = e
          /\ new.prev = lines[i].prev /\ new.hash = lines[i].hash
      BY <3>1 DEF Link, Entries
    <3>3. lines' = [lines EXCEPT ![i] = new] BY <2>4 DEF Edited
    <3> HIDE DEF new
    <3>4. lines' \in Seq(Lines) /\ Len(lines') = Len(lines) /\ lines'[i] = new
      BY <1>2, <3>2, <3>3, ExceptSeq DEF Lines
    <3>5. new.hash # Hash(new.seq, new.event, new.prev)
      BY <3>1, <3>2, HashTells DEF Link, Entries
    <3> QED BY <3>4, <3>5 DEF Broken, SealBroken
  <2>5. ASSUME lines[i] # Unreadable, NEW e \in Events \ {lines[i].event},
               i < Len(lines), lines' = Resealed(i, e)
        PROVE  lines' \in Seq(Lines) /\ Broken(lines')
    <3>1. Link(lines, i) BY <2>5, <1>4 DEF Chain
    <3> DEFINE new == Sealed(lines[i].seq, e, lines[i].prev)
    <3>2. new \in Entries BY <3>1, SealedEntry DEF Link, Entries
    <3>3. new.hash # lines[i].hash
      BY <3>1, HashTells DEF Link, Entries, Sealed
    <3>4. lines' = [lines EXCEPT ![i] = new] BY <2>5 DEF Resealed
    <3> HIDE DEF new
    <3>5. /\ lines' \in Seq(Lines) /\ Len(lines') = Len(lines)
          /\ lines'[i] = new /\ lines'[i + 1] = lines[i + 1]
      BY <1>2, <2>5, <3>2, <3>4, ExceptSeq DEF Lines
    <3>6. lines[i + 1] = Unreadable \/ lines[i + 1].prev = lines[i].hash
      BY <1>2, <1>4, <2>5 DEF Chain, Link
    <3>7. i + 1 \in 1..Len(lines') /\ i + 1 # 1 /\ (i + 1) - 1 = i BY <3>5, <1>2, <2>5
    <3> QED BY <3>3, <3>5, <3>6, <3>7 DEF Broken
  <2> QED BY <2>1, <2>2, <2>3, <2>4, <2>5
<1>6. TypeOK' BY <1>1, <1>5 DEF TypeOK, Lines
<1>7. FileInv'
  <2>1. Broken(AllLines')
    <3>1. CASE tail = None BY <3>1, <1>1, <1>5 DEF AllLines
    <3>2. CASE tail # None
      <4>1. tail \in Lines BY <3>2 DEF TypeOK, Lines
      <4>2. Broken(Append(lines', tail)) BY <4>1, <1>5, BrokenGrows
      <4>3. AllLines' = Append(lines', tail) BY <1>1, <3>2 DEF AllLines
      <4> QED BY <4>2, <4>3
    <3> QED BY <3>1, <3>2
  <2> QED BY <1>1, <2>1 DEF FileInv, Broken, SealBroken
<1>8. LockInv' /\ ComposedInv' BY <1>1 DEF LockInv, ComposedInv
<1>9. WholeInv' BY <1>1 DEF WholeInv
<1> QED BY <1>6, <1>7, <1>8, <1>9
-----------------------------------------------------------------------------
LEMMA StutterInv ==
    ASSUME IInv, UNCHANGED vars
    PROVE  IInv'
<1> USE DEF IInv, vars
<1>1. FileInv' /\ AllLines' = AllLines BY FileKept DEF file
<1>2. TypeOK' /\ LockInv' /\ WholeInv' BY DEF TypeOK, LockInv, WholeInv, Holds
<1>3. ComposedInv' BY <1>1 DEF ComposedInv, Open, Continues
<1> QED BY <1>1, <1>2, <1>3

LEMMA NextInv == IInv /\ [Next]_vars => IInv'
<1> SUFFICES ASSUME IInv, [Next]_vars PROVE IInv' OBVIOUS
<1>1. CASE PowerCut BY <1>1, PowerCutInv
<1>2. CASE Tamper BY <1>2, TamperInv
<1>3. ASSUME NEW w \in Writers, Append_event(w) PROVE IInv'
  BY <1>3, CallInv, AcquireInv, GiveUpInv, ReadLastInv, WriteInv, ReturnInv DEF Append_event
<1>4. ASSUME NEW w \in Writers, Crash(w) PROVE IInv' BY <1>4, CrashInv
<1>5. CASE UNCHANGED vars BY <1>5, StutterInv
<1> QED BY <1>1, <1>2, <1>3, <1>4, <1>5 DEF Next

LEMMA Invariance == Spec => []IInv
BY InitInv, NextInv, PTL DEF Spec

\* Every state of the journal is of its type.
THEOREM TypeCorrect == Spec => []TypeOK
<1>1. IInv => TypeOK BY DEF IInv
<1> QED BY <1>1, Invariance, PTL

\* Whatever fails, nothing is appended after a line that cannot be read.
THEOREM OnlyTheLastIsTorn == Spec => []OnlyLastUnreadable
<1>1. IInv => OnlyLastUnreadable
  BY NamesAssumption DEF IInv, FileInv, OnlyLastUnreadable, Chain, Link
<1> QED BY <1>1, Invariance, PTL

\* A line changed by hand is reported for ever after, whatever is appended or torn.
THEOREM TamperingShows == Spec => []TamperDetected
<1>1. IInv => TamperDetected BY ProblemsAreBreaks DEF IInv, FileInv, TamperDetected
<1> QED BY <1>1, Invariance, PTL

\* Unless a write stops exactly before its newline, verify_chain finds nothing in a
\* journal that nobody edits but a torn end.
THEOREM ChainStaysIntact == "newline" \notin Faults => (Spec => []ChainIntact)
<1> SUFFICES ASSUME "newline" \notin Faults PROVE Spec => []ChainIntact OBVIOUS
<1>1. IInv => ChainIntact
  <2> SUFFICES ASSUME IInv, ~tampered, tail # Unreadable PROVE Problems = {}
    BY DEF ChainIntact
  <2>1. AllLines = lines BY DEF IInv, WholeInv, AllLines
  <2>2. ~Broken(AllLines)
    BY <2>1, AllLinesType, ChainIsWhole DEF IInv, FileInv, WholeInv
  <2> QED BY <2>2, ProblemsAreBreaks
<1> QED BY <1>1, Invariance, PTL

\* ... and every entry append_event has returned is a line of the file.
THEOREM ReturnedStaysStored == "newline" \notin Faults => (Spec => []ReturnedIsStored)
<1> SUFFICES ASSUME "newline" \notin Faults PROVE Spec => []ReturnedIsStored OBVIOUS
<1>1. IInv => ReturnedIsStored BY DEF IInv, WholeInv, Holds, ReturnedIsStored
<1> QED BY <1>1, Invariance, PTL
=============================================================================
