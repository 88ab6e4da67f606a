--------------------------- MODULE ChangeProposal ---------------------------
(***************************************************************************)
(* One proposal file of change_proposal.py and the commands that decide    *)
(* it: `control approve' and `control reject' load it, let a person look   *)
(* at it, decide on what was loaded and save it over the file, with no     *)
(* lock between the load and the save.  verify_signed_approval is what a   *)
(* deploy asks of the file.  Anybody may edit the file: it is plain JSON.  *)
(***************************************************************************)
EXTENDS Naturals, FiniteSets

CONSTANTS
    Approving,   \* the approve commands
    Rejecting,   \* the reject commands
    People,      \* the holders of keys, each one also a name to sign under
    Registered,  \* those in the approver registry
    Subjects,    \* what is proposed: ids, project, who or what drafted it
    Diffs,       \* the diffs
    Commits,     \* the commits of the checkout
    AnyCommit,   \* --any-commit
    None,        \* a field that is not set
    Faults,      \* crash: a command is killed; io: a save fails
    MaxEdits,    \* bound: edits of the file by hand
    MaxTime      \* bound: the clock, and how long an approval is valid

Commands == Approving \cup Rejecting
Bases == Commits \cup {AnyCommit}
Times == 0..(2 * MaxTime)

ASSUME CommandsAssumption == Approving \cap Rejecting = {}
ASSUME PeopleAssumption == Registered \subseteq People /\ None \notin People
ASSUME BoundsAssumption ==
    /\ MaxEdits \in Nat /\ MaxTime \in Nat
    /\ Faults \subseteq {"crash", "io"}

\* What the approver signs, and the signature of it with somebody's key.
Envelopes == [subject : Subjects, diff : Diffs, protected : BOOLEAN,
              by : People, expires : Times, base : Bases]
Signatures == [key : People, envelope : Envelopes]

\* A proposal.  digest: of the diff, for what it was approved (a digest tells diffs
\* apart); signature: None, or one of those made so far.
Proposals == [subject : Subjects, diff : Diffs, protected : BOOLEAN,
              status : {"pending", "approved", "rejected"}, by : People \cup {None},
              digest : Diffs \cup {None}, expires : Times \cup {None},
              base : Bases \cup {None}, signature : Signatures \cup {None}]

ASSUME NoneAssumption == None \notin Signatures /\ None \notin Proposals

VARIABLES
    file,       \* the saved proposal
    pc,         \* command -> where it is
    copy,       \* command -> the proposal it holds in memory
    confirmed,  \* the approvals that people confirmed, with the key that signed
    decisions,  \* the decisions saved: command and status
    head,       \* the commit the checkout is on
    clock,
    edits,      \* how often the file was edited by hand
    overlapping \* ghost: the commands started while another one was deciding

vars == <<file, pc, copy, confirmed, decisions, head, clock, edits, overlapping>>
world == <<head, clock, edits>>

TypeOK ==
    /\ file \in Proposals
    /\ pc \in [Commands -> {"idle", "shown", "decided", "refused", "done"}]
    /\ copy \in [Commands -> Proposals \cup {None}]
    /\ confirmed \subseteq Signatures
    /\ decisions \subseteq Commands \X {"approved", "rejected"}
    /\ head \in Commits
    /\ clock \in 0..MaxTime
    /\ edits \in 0..MaxEdits
    /\ overlapping \subseteq Commands

\* A proposal as propose_change makes it.
Proposed(s, d, p) ==
    [subject |-> s, diff |-> d, protected |-> p, status |-> "pending", by |-> None,
     digest |-> None, expires |-> None, base |-> None, signature |-> None]

Init ==
    /\ \E s \in Subjects, d \in Diffs, p \in BOOLEAN : file = Proposed(s, d, p)
    /\ pc = [c \in Commands |-> "idle"]
    /\ copy = [c \in Commands |-> None]
    /\ confirmed = {} /\ decisions = {}
    /\ head \in Commits
    /\ clock = 0 /\ edits = 0 /\ overlapping = {}

Can(fault) == fault \in Faults
\* A command holds a proposal in memory.
Active(c) == pc[c] \in {"shown", "decided"}

-----------------------------------------------------------------------------
(* The signature, and what a deploy asks of it.                            *)

Envelope_no_base(r) ==
    [subject |-> r.subject, diff |-> r.diff, protected |-> r.protected,
     by |-> r.by, expires |-> r.expires, base |-> AnyCommit]
Envelope(r) ==
    [subject |-> r.subject, diff |-> r.diff, protected |-> r.protected,
     by |-> r.by, expires |-> r.expires, base |-> r.base]
Signed(r, key) == [r EXCEPT !.signature = [key |-> key, envelope |-> Envelope(r)]]

\* verify_signed_approval.  The registry holds each registered person's own key.
Accepts(r) ==
    /\ r.status = "approved"
    /\ r.digest = r.diff
    /\ r.signature # None /\ r.by # None /\ r.expires # None
    /\ r.by \in Registered
    /\ r.signature = [key |-> r.by, envelope |-> Envelope(r)]
    /\ clock <= r.expires
    /\ r.base \in {head, AnyCommit}
-----------------------------------------------------------------------------
(* The commands; each one runs once.                                       *)

\* The command ends, and what it held in memory with it.
Done(c) == pc' = [pc EXCEPT ![c] = "done"] /\ copy' = [copy EXCEPT ![c] = None]

\* load_proposal, and what is in it is shown to the person.
Load(c) ==
    /\ pc[c] = "idle"
    /\ overlapping' = IF \E d \in Commands : Active(d) THEN overlapping \cup {c} ELSE overlapping
    /\ copy' = [copy EXCEPT ![c] = file]
    /\ pc' = [pc EXCEPT ![c] = "shown"]
    /\ UNCHANGED <<file, confirmed, decisions, world>>

\* approve_change of the proposal that was loaded, signed with `key' under `name', for
\* the commit the checkout is on or for any, valid for some time.
Approved(r, name, key, base, until) ==
    Signed([r EXCEPT !.status = "approved", !.by = name, !.digest = r.diff,
                     !.expires = until, !.base = base], key)

MayDecide_always(r) == TRUE
MayDecide(r) == r.status = "pending"

\* The person confirms, and what was shown to them is what they stand for; or does
\* not; or the proposal has been decided before (InvalidTransitionError).
ApproveShown(c) ==
    /\ c \in Approving /\ pc[c] = "shown"
    /\ \/ /\ MayDecide(copy[c])
          /\ \E name, key \in People, base \in {head, AnyCommit}, until \in (clock + 1)..(clock + MaxTime) :
                 /\ copy' = [copy EXCEPT ![c] = Approved(copy[c], name, key, base, until)]
                 /\ confirmed' = confirmed \cup
                        {[key |-> key, envelope |->
                             [subject |-> copy[c].subject, diff |-> copy[c].diff,
                              protected |-> copy[c].protected,
                              by |-> name, expires |-> until, base |-> base]]}
          /\ pc' = [pc EXCEPT ![c] = "decided"]
       \/ /\ ~MayDecide(copy[c])
          /\ pc' = [pc EXCEPT ![c] = "refused"]
          /\ UNCHANGED <<copy, confirmed>>
       \/ Done(c) /\ UNCHANGED confirmed
    /\ UNCHANGED <<file, decisions, world, overlapping>>

RejectShown(c) ==
    /\ c \in Rejecting /\ pc[c] = "shown"
    /\ \/ /\ MayDecide(copy[c])
          /\ \E name \in People :
                 copy' = [copy EXCEPT ![c].status = "rejected", ![c].by = name]
          /\ pc' = [pc EXCEPT ![c] = "decided"]
       \/ ~MayDecide(copy[c]) /\ pc' = [pc EXCEPT ![c] = "refused"] /\ UNCHANGED copy
    /\ UNCHANGED <<file, confirmed, decisions, world, overlapping>>

\* save_proposal replaces the file, whatever it holds by now.
Save(c) ==
    /\ pc[c] = "decided"
    /\ \/ /\ file' = copy[c]
          /\ decisions' = decisions \cup {<<c, copy[c].status>>}
       \/ Can("io") /\ UNCHANGED <<file, decisions>>
    /\ Done(c)
    /\ UNCHANGED <<confirmed, world, overlapping>>

Crash(c) ==
    /\ Can("crash") /\ pc[c] \in {"shown", "decided"}
    /\ Done(c)
    /\ UNCHANGED <<file, confirmed, decisions, world, overlapping>>
-----------------------------------------------------------------------------
(* What happens around the file.                                           *)

\* One field of the file is edited; a signature can only be one that exists.
Edit ==
    /\ edits < MaxEdits /\ edits' = edits + 1
    /\ \/ \E v \in Subjects : file' = [file EXCEPT !.subject = v]
       \/ \E v \in Diffs : file' = [file EXCEPT !.diff = v]
       \/ \E v \in Diffs : file' = [file EXCEPT !.digest = v]
       \/ \E v \in BOOLEAN : file' = [file EXCEPT !.protected = v]
       \/ \E v \in {"pending", "approved", "rejected"} : file' = [file EXCEPT !.status = v]
       \/ \E v \in People : file' = [file EXCEPT !.by = v]
       \/ \E v \in Times : file' = [file EXCEPT !.expires = v]
       \/ \E v \in Bases : file' = [file EXCEPT !.base = v]
       \/ \E v \in confirmed :
              file' = [file EXCEPT !.signature =
                          [key |-> v.key, envelope |-> Envelope(v.envelope)]]
    /\ UNCHANGED <<pc, copy, confirmed, decisions, head, clock, overlapping>>

\* The checkout moves to another commit.
Move ==
    /\ head' \in Commits \ {head}
    /\ UNCHANGED <<file, pc, copy, confirmed, decisions, clock, edits, overlapping>>

Tick ==
    /\ clock < MaxTime /\ clock' = clock + 1
    /\ UNCHANGED <<file, pc, copy, confirmed, decisions, head, edits, overlapping>>
-----------------------------------------------------------------------------
Decide(c) == Load(c) \/ ApproveShown(c) \/ RejectShown(c) \/ Save(c)

Next == Edit \/ Move \/ Tick \/ \E c \in Commands : Decide(c) \/ Crash(c)

Spec == Init /\ [][Next]_vars
-----------------------------------------------------------------------------
\* A deploy accepts the file only if a registered approver, with their own key, has
\* confirmed exactly this change, for this commit or any, until now or later, whatever
\* was edited in the file, before, during or after the approval.
AcceptedAsConfirmed ==
    Accepts(file) => \E s \in confirmed :
        /\ s.key = file.by /\ s.key \in Registered
        /\ s.envelope.subject = file.subject
        /\ s.envelope.diff = file.diff
        /\ s.envelope.protected = file.protected
        /\ s.envelope.base \in {head, AnyCommit}
        /\ clock <= s.envelope.expires

\* "a second decision never silently overwrites the first" (InvalidTransitionError), as
\* long as nobody edits the file and no command starts while another one is deciding.
DecidedOnce == edits = 0 /\ overlapping = {} => Cardinality({d[1] : d \in decisions}) <= 1

\* Then a proposal whose rejection was saved is not accepted by a deploy either.
RejectionHolds ==
    edits = 0 /\ overlapping = {} /\ (\E c \in Commands : <<c, "rejected">> \in decisions)
    => ~Accepts(file)
=============================================================================
