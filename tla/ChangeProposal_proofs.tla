----------------------- MODULE ChangeProposal_proofs -----------------------
(***************************************************************************)
(* What holds of a proposal file for any people, changes, commits and      *)
(* number of edits.                                                        *)
(***************************************************************************)
EXTENDS ChangeProposal, FiniteSetTheorems, TLAPS

\* The signature of r, if it has one, is one that was `made'.
Genuine(r, made) == r.signature # None => r.signature \in made

\* A signature that is found anywhere was made for what somebody confirmed.
IInv ==
    /\ TypeOK
    /\ Genuine(file, confirmed)
    /\ \A c \in Commands : Active(c) => copy[c] \in Proposals /\ Genuine(copy[c], confirmed)
    /\ \A c \in Commands : pc[c] = "decided" => copy[c].status \in {"approved", "rejected"}

-----------------------------------------------------------------------------
\* An approved proposal is a proposal, signed for what its terms say.
LEMMA ApprovedSigned ==
    ASSUME NEW r \in Proposals, NEW name \in People, NEW key \in People,
           NEW base \in Bases, NEW until \in Times
    PROVE  LET a == Approved(r, name, key, base, until)
               terms == [subject |-> r.subject, diff |-> r.diff, protected |-> r.protected,
                         by |-> name, expires |-> until, base |-> base]
           IN  /\ a \in Proposals /\ a.status = "approved"
               /\ terms \in Envelopes
               /\ a.signature = [key |-> key, envelope |-> terms]
BY DEF Approved, Signed, Envelope, Proposals, Signatures, Envelopes

\* Copying the envelope of an envelope gives the same envelope.
LEMMA EnvelopeOfEnvelope ==
    ASSUME NEW v \in Signatures
    PROVE  [key |-> v.key, envelope |-> Envelope(v.envelope)] = v
BY DEF Signatures, Envelopes, Envelope

LEMMA InitInv == Init => IInv
<1> SUFFICES ASSUME Init PROVE IInv OBVIOUS
<1>1. file \in Proposals /\ file.signature = None
  BY DEF Init, Proposed, Proposals
<1>2. TypeOK BY <1>1, BoundsAssumption DEF Init, TypeOK
<1> QED BY <1>1, <1>2 DEF Init, IInv, Genuine, Active

LEMMA EditInv == ASSUME IInv, Edit PROVE IInv'
<1> USE DEF IInv
<1>1. /\ UNCHANGED <<pc, copy, confirmed, decisions, head, clock, overlapping>>
      /\ edits' \in 0..MaxEdits
  BY BoundsAssumption DEF Edit, TypeOK
<1>2. file' \in Proposals /\ Genuine(file', confirmed)
  <2>1. ASSUME NEW v \in confirmed,
               file' = [file EXCEPT !.signature =
                          [key |-> v.key, envelope |-> Envelope(v.envelope)]]
        PROVE  file' \in Proposals /\ Genuine(file', confirmed)
    <3>1. v \in Signatures BY DEF TypeOK
    <3>2. file' = [file EXCEPT !.signature = v] BY <2>1, <3>1, EnvelopeOfEnvelope
    <3> QED BY <3>1, <3>2 DEF TypeOK, Proposals, Genuine
  <2>2. CASE \E v \in Subjects : file' = [file EXCEPT !.subject = v]
    BY <2>2 DEF TypeOK, Proposals, Genuine
  <2>3. CASE \E v \in Diffs : file' = [file EXCEPT !.diff = v]
    BY <2>3 DEF TypeOK, Proposals, Genuine
  <2>4. CASE \E v \in Diffs : file' = [file EXCEPT !.digest = v]
    BY <2>4 DEF TypeOK, Proposals, Genuine
  <2>5. CASE \E v \in BOOLEAN : file' = [file EXCEPT !.protected = v]
    BY <2>5 DEF TypeOK, Proposals, Genuine
  <2>6. CASE \E v \in {"pending", "approved", "rejected"} : file' = [file EXCEPT !.status = v]
    BY <2>6 DEF TypeOK, Proposals, Genuine
  <2>7. CASE \E v \in People : file' = [file EXCEPT !.by = v]
    BY <2>7 DEF TypeOK, Proposals, Genuine
  <2>8. CASE \E v \in Times : file' = [file EXCEPT !.expires = v]
    BY <2>8 DEF TypeOK, Proposals, Genuine
  <2>9. CASE \E v \in Bases : file' = [file EXCEPT !.base = v]
    BY <2>9 DEF TypeOK, Proposals, Genuine
  <2> QED BY <2>1, <2>2, <2>3, <2>4, <2>5, <2>6, <2>7, <2>8, <2>9 DEF Edit
<1>3. TypeOK' BY <1>1, <1>2 DEF TypeOK
<1> QED BY <1>1, <1>2, <1>3 DEF Active

LEMMA LoadInv == ASSUME IInv, NEW c \in Commands, Load(c) PROVE IInv'
<1> USE DEF IInv, Load, world
<1>0. overlapping' \subseteq Commands BY DEF TypeOK
<1>1. TypeOK' BY <1>0 DEF TypeOK
<1>2. \A d \in Commands : Active(d)' => copy'[d] \in Proposals /\ Genuine(copy'[d], confirmed)
  BY DEF TypeOK, Active
<1> QED BY <1>1, <1>2 DEF Genuine

\* A command that ends holds nothing, and the others what they held.
LEMMA DoneInv ==
    ASSUME IInv, NEW c \in Commands, Done(c), UNCHANGED <<confirmed, world, overlapping>>,
           file' \in Proposals, Genuine(file', confirmed),
           decisions' \subseteq Commands \X {"approved", "rejected"}
    PROVE  IInv'
<1> USE DEF IInv, Done, world
<1>1. TypeOK' BY DEF TypeOK
<1>2. \A d \in Commands : Active(d)' => Active(d) /\ copy'[d] = copy[d]
  BY DEF TypeOK, Active
<1>3. \A d \in Commands : pc'[d] = "decided" => pc[d] = "decided" /\ copy'[d] = copy[d]
  BY DEF TypeOK
<1> QED BY <1>1, <1>2, <1>3 DEF Genuine

LEMMA ApproveInv == ASSUME IInv, NEW c \in Commands, ApproveShown(c) PROVE IInv'
<1> USE DEF IInv
<1>0. /\ UNCHANGED <<file, decisions, world, overlapping>>
      /\ copy[c] \in Proposals
  BY DEF ApproveShown, Active
<1>1. ASSUME NEW name \in People, NEW key \in People, NEW base \in {head, AnyCommit},
             NEW until \in (clock + 1)..(clock + MaxTime),
             copy' = [copy EXCEPT ![c] = Approved(copy[c], name, key, base, until)],
             confirmed' = confirmed \cup
                {[key |-> key, envelope |->
                     [subject |-> copy[c].subject, diff |-> copy[c].diff,
                      protected |-> copy[c].protected,
                      by |-> name, expires |-> until, base |-> base]]},
             pc' = [pc EXCEPT ![c] = "decided"]
      PROVE  IInv'
  <2> DEFINE a == Approved(copy[c], name, key, base, until)
             terms == [subject |-> copy[c].subject, diff |-> copy[c].diff,
                       protected |-> copy[c].protected,
                       by |-> name, expires |-> until, base |-> base]
  <2>1. base \in Bases /\ until \in Times BY BoundsAssumption DEF TypeOK, Bases, Times
  <2>2. /\ a \in Proposals /\ a.status = "approved" /\ terms \in Envelopes
        /\ a.signature = [key |-> key, envelope |-> terms]
    BY <2>1, <1>0, ApprovedSigned
  <2>3. copy' = [copy EXCEPT ![c] = a]
        /\ confirmed' = confirmed \cup {[key |-> key, envelope |-> terms]}
    BY <1>1
  <2> HIDE DEF a, terms
  <2>4. Genuine(a, confirmed') BY <2>2, <2>3 DEF Genuine
  <2>5. TypeOK' BY <1>0, <1>1, <2>2, <2>3 DEF TypeOK, world, Signatures
  <2>6. Genuine(file', confirmed') BY <1>0, <2>3 DEF Genuine
  <2>7. ASSUME NEW d \in Commands, Active(d)'
        PROVE  copy'[d] \in Proposals /\ Genuine(copy'[d], confirmed')
    <3>1. CASE d = c BY <3>1, <2>2, <2>3, <2>4 DEF TypeOK
    <3>2. CASE d # c
      <4>1. Active(d) /\ copy'[d] = copy[d] BY <3>2, <2>7, <1>1, <2>3 DEF Active, TypeOK
      <4> QED BY <4>1, <2>3 DEF Genuine
    <3> QED BY <3>1, <3>2
  <2>8. ASSUME NEW d \in Commands, pc'[d] = "decided"
        PROVE  copy'[d].status \in {"approved", "rejected"}
    <3>1. CASE d = c BY <3>1, <2>2, <2>3 DEF TypeOK
    <3>2. CASE d # c BY <3>2, <2>8, <1>1, <2>3 DEF TypeOK
    <3> QED BY <3>1, <3>2
  <2> QED BY <2>5, <2>6, <2>7, <2>8
<1>2. CASE pc' = [pc EXCEPT ![c] = "refused"] /\ UNCHANGED <<copy, confirmed>>
  <2>1. TypeOK' BY <1>0, <1>2 DEF TypeOK, world
  <2>2. \A d \in Commands : Active(d)' => Active(d) /\ copy'[d] = copy[d]
    BY <1>2 DEF TypeOK, Active
  <2> QED BY <1>0, <1>2, <2>1, <2>2 DEF Genuine
<1>3. CASE Done(c) /\ UNCHANGED confirmed
  BY <1>0, <1>3, DoneInv DEF TypeOK
<1> QED BY <1>1, <1>2, <1>3 DEF ApproveShown

LEMMA RejectInv == ASSUME IInv, NEW c \in Commands, RejectShown(c) PROVE IInv'
<1> USE DEF IInv
<1>0. /\ UNCHANGED <<file, confirmed, decisions, world, overlapping>>
      /\ copy[c] \in Proposals /\ Genuine(copy[c], confirmed)
  BY DEF RejectShown, Active
<1>1. ASSUME NEW name \in People,
             copy' = [copy EXCEPT ![c].status = "rejected", ![c].by = name],
             pc' = [pc EXCEPT ![c] = "decided"]
      PROVE  IInv'
  <2> DEFINE r == [copy[c] EXCEPT !.status = "rejected", !.by = name]
  <2>1. r \in Proposals /\ r.status = "rejected" /\ r.signature = copy[c].signature
    BY <1>0 DEF Proposals
  <2>2. copy' = [copy EXCEPT ![c] = r] BY <1>0, <1>1 DEF Proposals, TypeOK
  <2> HIDE DEF r
  <2>3. TypeOK' BY <1>0, <1>1, <2>1, <2>2 DEF TypeOK, world
  <2>4. ASSUME NEW d \in Commands, Active(d)'
        PROVE  copy'[d] \in Proposals /\ Genuine(copy'[d], confirmed)
    <3>1. CASE d = c BY <3>1, <1>0, <2>1, <2>2 DEF TypeOK, Genuine
    <3>2. CASE d # c BY <3>2, <2>4, <1>1, <2>2 DEF Active, TypeOK
    <3> QED BY <3>1, <3>2
  <2>5. ASSUME NEW d \in Commands, pc'[d] = "decided"
        PROVE  copy'[d].status \in {"approved", "rejected"}
    <3>1. CASE d = c BY <3>1, <2>1, <2>2 DEF TypeOK
    <3>2. CASE d # c BY <3>2, <2>5, <1>1, <2>2 DEF TypeOK
    <3> QED BY <3>1, <3>2
  <2> QED BY <1>0, <2>3, <2>4, <2>5 DEF Genuine
<1>2. CASE pc' = [pc EXCEPT ![c] = "refused"] /\ UNCHANGED copy
  <2>1. TypeOK' BY <1>0, <1>2 DEF TypeOK, world
  <2>2. \A d \in Commands : Active(d)' => Active(d) /\ copy'[d] = copy[d]
    BY <1>2 DEF TypeOK, Active
  <2> QED BY <1>0, <1>2, <2>1, <2>2 DEF Genuine
<1> QED BY <1>1, <1>2 DEF RejectShown

LEMMA SaveInv == ASSUME IInv, NEW c \in Commands, Save(c) PROVE IInv'
<1> USE DEF IInv
<1>1. Active(c) /\ Done(c) /\ UNCHANGED <<confirmed, world, overlapping>> BY DEF Save, Active
<1>2. CASE file' = copy[c] /\ decisions' = decisions \cup {<<c, copy[c].status>>}
  <2>1. file' \in Proposals /\ Genuine(file', confirmed) BY <1>1, <1>2
  <2>2. decisions' \subseteq Commands \X {"approved", "rejected"}
    BY <1>2 DEF TypeOK, Save
  <2> QED BY <1>1, <2>1, <2>2, DoneInv
<1>3. CASE UNCHANGED <<file, decisions>> BY <1>1, <1>3, DoneInv DEF TypeOK
<1> QED BY <1>2, <1>3 DEF Save

LEMMA CrashInv == ASSUME IInv, NEW c \in Commands, Crash(c) PROVE IInv'
<1>1. Done(c) /\ UNCHANGED <<file, confirmed, decisions, world, overlapping>> BY DEF Crash
<1> QED BY <1>1, DoneInv DEF IInv, TypeOK

\* Steps of the world around the file.
LEMMA WorldInv ==
    ASSUME IInv, UNCHANGED <<file, pc, copy, confirmed, decisions, edits, overlapping>>,
           head' \in Commits, clock' \in 0..MaxTime
    PROVE  IInv'
BY DEF IInv, TypeOK, Genuine, Active

LEMMA NextInv == IInv /\ [Next]_vars => IInv'
<1> SUFFICES ASSUME IInv, [Next]_vars PROVE IInv' OBVIOUS
<1>1. CASE Edit BY <1>1, EditInv
<1>2. CASE Move BY <1>2, WorldInv DEF Move, IInv, TypeOK
<1>3. CASE Tick BY <1>3, WorldInv, BoundsAssumption DEF Tick, IInv, TypeOK
<1>4. ASSUME NEW c \in Commands, Decide(c) PROVE IInv'
  BY <1>4, LoadInv, ApproveInv, RejectInv, SaveInv DEF Decide
<1>5. ASSUME NEW c \in Commands, Crash(c) PROVE IInv' BY <1>5, CrashInv
<1>6. CASE UNCHANGED vars BY <1>6, WorldInv DEF vars, IInv, TypeOK
<1> QED BY <1>1, <1>2, <1>3, <1>4, <1>5, <1>6 DEF Next

LEMMA Invariance == Spec => []IInv
BY InitInv, NextInv, PTL DEF Spec

\* Every state of the file and its commands is of its type.
THEOREM TypeCorrect == Spec => []TypeOK
<1>1. IInv => TypeOK BY DEF IInv
<1> QED BY <1>1, Invariance, PTL

\* However often and wherever the file is edited, a deploy accepts only what a registered
\* approver has confirmed.
THEOREM AcceptanceIsConfirmed == Spec => []AcceptedAsConfirmed
<1>1. IInv => AcceptedAsConfirmed
  <2> SUFFICES ASSUME IInv, Accepts(file) PROVE AcceptedAsConfirmed
    BY DEF AcceptedAsConfirmed
  <2>1. file.signature \in confirmed BY DEF IInv, Genuine, Accepts
  <2>2. /\ file.signature.key = file.by /\ file.by \in Registered
        /\ file.signature.envelope = Envelope(file)
    BY DEF Accepts
  <2> QED BY <2>1, <2>2 DEF AcceptedAsConfirmed, Accepts, Envelope
<1> QED BY <1>1, Invariance, PTL

-----------------------------------------------------------------------------
(* Commands one after the other, on a file that nobody edits.              *)

Orderly == edits = 0 /\ overlapping = {}

\* What an active command has loaded is what the file still says.
InOrder ==
    /\ \A c, d \in Commands : Active(c) /\ Active(d) => c = d
    /\ \A c \in Commands : pc[c] = "shown" => copy[c].status = file.status
    /\ \A c \in Commands : pc[c] = "decided" => file.status = "pending"
    /\ \A x \in decisions : file.status = x[2]
    /\ \A x, y \in decisions : x = y
Sequential == Orderly => InOrder

LEMMA SequentialInit == Init => Sequential
BY DEF Init, Sequential, InOrder, Active, Proposed

\* A step that only moves commands out of their active places, or leaves them.
LEMMA SequentialKept ==
    ASSUME Sequential, UNCHANGED <<file, decisions, edits, overlapping>>,
           \A d \in Commands : Active(d)' => pc'[d] = pc[d] /\ copy'[d] = copy[d]
    PROVE  Sequential'
BY DEF Sequential, InOrder, Orderly, Active

LEMMA SequentialNext == IInv /\ Sequential /\ [Next]_vars => Sequential'
<1> SUFFICES ASSUME IInv, Sequential, [Next]_vars PROVE Sequential' OBVIOUS
<1>1. CASE Edit
  <2>1. edits' # 0 BY <1>1 DEF Edit, IInv, TypeOK
  <2> QED BY <2>1 DEF Sequential, Orderly
<1>2. CASE Move BY <1>2, SequentialKept DEF Move
<1>3. CASE Tick BY <1>3, SequentialKept DEF Tick
<1>4. CASE UNCHANGED vars BY <1>4, SequentialKept DEF vars
<1>5. ASSUME NEW c \in Commands, Crash(c) PROVE Sequential'
  <2>1. \A d \in Commands : Active(d)' => pc'[d] = pc[d] /\ copy'[d] = copy[d]
    BY <1>5 DEF Crash, Done, Active, IInv, TypeOK
  <2> QED BY <1>5, <2>1, SequentialKept DEF Crash, world
<1>6. ASSUME NEW c \in Commands, Load(c) PROVE Sequential'
  <2> SUFFICES ASSUME Orderly' PROVE InOrder' BY DEF Sequential
  <2>1. Orderly /\ \A d \in Commands : ~Active(d) BY <1>6 DEF Load, Orderly, world
  <2>2. \A d \in Commands : Active(d)' => d = c /\ pc'[c] = "shown" /\ copy'[c] = file
    BY <1>6, <2>1 DEF Load, Active, IInv, TypeOK
  <2> QED BY <1>6, <2>1, <2>2 DEF Load, Sequential, InOrder, Active
<1>7. ASSUME NEW c \in Commands, ApproveShown(c) \/ RejectShown(c) PROVE Sequential'
  <2> SUFFICES ASSUME Orderly' PROVE InOrder' BY DEF Sequential
  <2>0. Orderly /\ InOrder BY <1>7 DEF ApproveShown, RejectShown, world, Orderly, Sequential
  <2>1. /\ pc[c] = "shown" /\ UNCHANGED <<file, decisions>>
        /\ \A d \in Commands : Active(d) => d = c
    BY <1>7, <2>0 DEF ApproveShown, RejectShown, InOrder, Active
  <2>2. pc' = [pc EXCEPT ![c] = "decided"] => file.status = "pending"
    BY <1>7, <2>0, <2>1 DEF ApproveShown, RejectShown, MayDecide, InOrder, Done, IInv, TypeOK
  <2>3. \E place \in {"decided", "refused", "done"} : pc' = [pc EXCEPT ![c] = place]
    BY <1>7 DEF ApproveShown, RejectShown, Done
  <2>4. \A d \in Commands : Active(d)' => d = c /\ pc'[d] = "decided" /\ file.status = "pending"
    BY <2>1, <2>2, <2>3 DEF Active, IInv, TypeOK
  <2> QED BY <2>0, <2>1, <2>4 DEF InOrder, Active
<1>8. ASSUME NEW c \in Commands, Save(c) PROVE Sequential'
  <2> SUFFICES ASSUME Orderly' PROVE InOrder' BY DEF Sequential
  <2>0. Orderly /\ InOrder BY <1>8 DEF Save, world, Orderly, Sequential
  <2>1. \A d \in Commands : ~Active(d)'
    BY <1>8, <2>0 DEF Save, Done, InOrder, Active, IInv, TypeOK
  <2>2. CASE file' = copy[c] /\ decisions' = decisions \cup {<<c, copy[c].status>>}
    <3>1. decisions = {}
      BY <1>8, <2>0 DEF Save, InOrder, IInv, TypeOK
    <3> QED BY <2>1, <2>2, <3>1 DEF InOrder, Active
  <2>3. CASE UNCHANGED <<file, decisions>>
    BY <2>0, <2>1, <2>3 DEF InOrder, Active
  <2> QED BY <1>8, <2>2, <2>3 DEF Save
<1> QED BY <1>1, <1>2, <1>3, <1>4, <1>5, <1>6, <1>7, <1>8 DEF Next, Decide

LEMMA SequentialInvariance == Spec => []Sequential
<1>1. IInv /\ Sequential /\ [Next]_vars => Sequential' BY SequentialNext
<1> QED BY <1>1, SequentialInit, Invariance, PTL DEF Spec

\* Commands one after the other, no edits: the first decision is the only one.
THEOREM FirstDecisionStands == Spec => []DecidedOnce
<1>1. Sequential => DecidedOnce
  <2> SUFFICES ASSUME Sequential, Orderly
               PROVE Cardinality({d[1] : d \in decisions}) <= 1
    BY DEF DecidedOnce, Orderly
  <2> DEFINE D == {d[1] : d \in decisions}
  <2>1. CASE D = {} BY <2>1, FS_EmptySet
  <2>2. CASE D # {}
    <3>1. PICK x : D = {x} BY <2>2 DEF Sequential, InOrder
    <3>2. Cardinality(D) = 1 BY <3>1, FS_Singleton
    <3> QED BY <3>2
  <2> QED BY <2>1, <2>2
<1> QED BY <1>1, SequentialInvariance, PTL

\* ... and a rejected proposal is never accepted.
THEOREM RejectionStands == Spec => []RejectionHolds
<1>1. Sequential => RejectionHolds
  BY DEF Sequential, Orderly, InOrder, RejectionHolds, Accepts
<1> QED BY <1>1, SequentialInvariance, PTL
=============================================================================
