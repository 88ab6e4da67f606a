---------------------------- MODULE AuditJournal ----------------------------
(***************************************************************************)
(* The audit journal of audit_journal.py: processes that append to one     *)
(* file of chained entries under the lock of _atomic.exclusive_lock, and   *)
(* verify_chain, which reads it.                                           *)
(*                                                                         *)
(* The file is a sequence of terminated lines and a `tail', what follows   *)
(* the last newline.  An append is cut where another process, a kill, a    *)
(* full disk or a power cut can come in between: waiting for the lock,     *)
(* holding it, entry composed from the last line, entry written.           *)
(***************************************************************************)
EXTENDS Naturals, Sequences

CONSTANTS
    Writers,     \* the processes that append
    Events,      \* what they record
    None,        \* no lock holder, no entry, nothing after the last newline
    Unreadable,  \* a line that is not a journal entry
    Faults,      \* what may go wrong: see FaultKinds
    MaxLines     \* bound: no append starts once the file has so many lines

\* crash: a process is killed; torn: part of an entry is written and the rest is not
\* (the disk is full, the process is killed); newline: all of it but the newline is;
\* power: a power cut takes back what was written last (nothing is synced);
\* tamper: one line is removed, edited or moved by hand.
FaultKinds == {"crash", "torn", "newline", "power", "tamper"}
ASSUME FaultsAssumption == Faults \subseteq FaultKinds
ASSUME BoundAssumption == MaxLines \in Nat

\* A hash without collisions: everything that was hashed.
HashValues == Seq(Nat \X Events)
Genesis == <<>>
Hash(n, e, p) == Append(p, <<n, e>>)

Entries == [seq : Nat, event : Events, prev : HashValues, hash : HashValues]
Sealed(n, e, p) == [seq |-> n, event |-> e, prev |-> p, hash |-> Hash(n, e, p)]

ASSUME NamesAssumption ==
    /\ None \notin Writers \cup {Unreadable}
    /\ None \notin Entries /\ Unreadable \notin Entries

VARIABLES
    lines,     \* the terminated lines
    tail,      \* what comes after the last newline
    lock,      \* who holds the lock
    pc,        \* writer -> where its call of append_event is
    entry,     \* writer -> the entry it has composed
    returned,  \* the entries append_event has returned since the last power cut
    tampered   \* a line was changed by hand

vars == <<lines, tail, lock, pc, entry, returned, tampered>>
file == <<lines, tail>>

TypeOK ==
    /\ lines \in Seq(Entries \cup {Unreadable})
    /\ tail \in Entries \cup {Unreadable, None}
    /\ lock \in Writers \cup {None}
    /\ pc \in [Writers -> {"idle", "waiting", "locked", "composed", "written"}]
    /\ entry \in [Writers -> Entries \cup {None}]
    /\ returned \subseteq Entries
    /\ tampered \in BOOLEAN

Init ==
    /\ lines = <<>> /\ tail = None
    /\ lock = None
    /\ pc = [w \in Writers |-> "idle"]
    /\ entry = [w \in Writers |-> None]
    /\ returned = {}
    /\ tampered = FALSE

Can(fault) == fault \in Faults

\* _read_lines: what follows the last newline counts as a line.
AllLines == IF tail = None THEN lines ELSE Append(lines, tail)

-----------------------------------------------------------------------------
(* append_event, by writer w.                                              *)

Call(w) ==
    /\ pc[w] = "idle" /\ Len(lines) < MaxLines
    /\ pc' = [pc EXCEPT ![w] = "waiting"]
    /\ UNCHANGED <<file, lock, entry, returned, tampered>>

Acquire_unlocked(w) ==
    /\ pc[w] = "waiting"
    /\ lock' = w
    /\ pc' = [pc EXCEPT ![w] = "locked"]
    /\ UNCHANGED <<file, entry, returned, tampered>>
Acquire(w) ==
    /\ pc[w] = "waiting" /\ lock = None
    /\ lock' = w
    /\ pc' = [pc EXCEPT ![w] = "locked"]
    /\ UNCHANGED <<file, entry, returned, tampered>>

\* The lock was held for all of timeout_s: TimeoutError, an OSError.
GiveUp(w) ==
    /\ pc[w] = "waiting" /\ lock # None
    /\ pc' = [pc EXCEPT ![w] = "idle"]
    /\ UNCHANGED <<file, lock, entry, returned, tampered>>

\* The call ends, by an exception, by its return or because the process dies:
\* the lock goes with it.
Ended(w) ==
    /\ lock' = None
    /\ pc' = [pc EXCEPT ![w] = "idle"]
    /\ entry' = [entry EXCEPT ![w] = None]

\* The new entry continues the chain from the last line.
Composed(e) ==
    IF AllLines = <<>> THEN Sealed(1, e, Genesis)
    ELSE LET last == AllLines[Len(AllLines)] IN Sealed(last.seq + 1, e, last.hash)

CanContinue == AllLines # <<>> => AllLines[Len(AllLines)] # Unreadable

ReadLast_restarts(w) ==
    /\ pc[w] = "locked"
    /\ \E e \in Events :
           entry' = [entry EXCEPT ![w] = IF CanContinue THEN Composed(e) ELSE Sealed(1, e, Genesis)]
    /\ pc' = [pc EXCEPT ![w] = "composed"]
    /\ UNCHANGED <<file, lock, returned, tampered>>
\* A last line that is not an entry is an AuditJournalError.
ReadLast(w) ==
    /\ pc[w] = "locked"
    /\ \/ /\ CanContinue
          /\ \E e \in Events : entry' = [entry EXCEPT ![w] = Composed(e)]
          /\ pc' = [pc EXCEPT ![w] = "composed"]
          /\ UNCHANGED lock
       \/ ~CanContinue /\ Ended(w)
    /\ UNCHANGED <<file, returned, tampered>>

\* The file is opened for appending: what is written continues the last line
\* when that has no newline.
Continued(line) == IF tail = None THEN line ELSE Unreadable
Appended_truncates(w) == <<Continued(entry[w])>>
Appended(w) == Append(lines, Continued(entry[w]))

Write(w) ==
    /\ pc[w] = "composed"
    /\ \/ /\ lines' = Appended(w) /\ tail' = None
          /\ pc' = [pc EXCEPT ![w] = "written"]
          /\ UNCHANGED <<lock, entry>>
       \/ \* only a part of it reaches the file: an OSError, or the process is killed
          /\ \/ Can("torn") /\ tail' \in {tail, Unreadable}
             \/ Can("newline") /\ tail' = Continued(entry[w])
          /\ Ended(w)
          /\ UNCHANGED lines
    /\ UNCHANGED <<returned, tampered>>

Return(w) ==
    /\ pc[w] = "written"
    /\ returned' = returned \cup {entry[w]}
    /\ Ended(w)
    /\ UNCHANGED <<file, tampered>>

\* The process is killed between two steps; the system frees its lock.
Crash(w) ==
    /\ Can("crash") /\ pc[w] # "idle"
    /\ pc' = [pc EXCEPT ![w] = "idle"]
    /\ entry' = [entry EXCEPT ![w] = None]
    /\ lock' = IF lock = w THEN None ELSE lock
    /\ UNCHANGED <<file, returned, tampered>>
-----------------------------------------------------------------------------
(* What happens to the file from outside.                                  *)

\* The file was flushed but never synced: a power cut leaves any beginning of it
\* (a journal changed by hand is left alone: its missing end does not show).
PowerCut ==
    /\ Can("power") /\ ~tampered
    /\ \E n \in 0..Len(lines) :
           LET rest == IF n < Len(lines) THEN lines[n + 1] ELSE tail IN
           /\ lines' = SubSeq(lines, 1, n)
           /\ tail' \in {None}
                \cup (IF rest = None THEN {} ELSE {Unreadable})
                \cup (IF Can("newline") THEN {rest} ELSE {})
    /\ lock' = None
    /\ pc' = [w \in Writers |-> "idle"]
    /\ entry' = [w \in Writers |-> None]
    /\ returned' = {}
    /\ UNCHANGED tampered

Removed(i)   == SubSeq(lines, 1, i - 1) \o SubSeq(lines, i + 1, Len(lines))
Swapped(i, j) == [lines EXCEPT ![i] = lines[j], ![j] = lines[i]]
Edited(i, e) == [lines EXCEPT ![i].event = e]
Resealed(i, e) == [lines EXCEPT ![i] = Sealed(lines[i].seq, e, lines[i].prev)]

\* One line is removed, moved or edited, or edited and given a hash that fits.  The
\* end of the file is left alone where the chain cannot show it.
Tamper ==
    /\ Can("tamper") /\ ~tampered
    /\ tampered' = TRUE
    /\ \E i \in 1..Len(lines) :
           \/ i < Len(lines) /\ lines' = Removed(i)
           \/ \E j \in (i + 1)..Len(lines) : lines' = Swapped(i, j)
           \/ /\ lines[i] # Unreadable
              /\ \E e \in Events \ {lines[i].event} :
                     \/ lines' = Edited(i, e)
                     \/ i < Len(lines) /\ lines' = Resealed(i, e)
    /\ UNCHANGED <<tail, lock, pc, entry, returned>>
-----------------------------------------------------------------------------
Append_event(w) ==
    Call(w) \/ Acquire(w) \/ GiveUp(w) \/ ReadLast(w) \/ Write(w) \/ Return(w)

Next == PowerCut \/ Tamper \/ \E w \in Writers : Append_event(w) \/ Crash(w)

Spec == Init /\ [][Next]_vars
-----------------------------------------------------------------------------
(* verify_chain: the lines it complains about (0: it stops at a line it cannot *)
(* read).                                                                      *)

PrevHash(i) == IF i = 1 THEN Genesis ELSE AllLines[i - 1].hash
SealBroken(line) == line.hash # Hash(line.seq, line.event, line.prev)

Problems_no_seal ==
    IF \E i \in 1..Len(AllLines) : AllLines[i] = Unreadable THEN {0}
    ELSE {i \in 1..Len(AllLines) : AllLines[i].seq # i \/ AllLines[i].prev # PrevHash(i)}
Problems ==
    IF \E i \in 1..Len(AllLines) : AllLines[i] = Unreadable THEN {0}
    ELSE {i \in 1..Len(AllLines) : \/ AllLines[i].seq # i
                                   \/ AllLines[i].prev # PrevHash(i)
                                   \/ SealBroken(AllLines[i])}

\* However many processes append at once, are killed or are cut off: as long as
\* nobody edits the file, verify_chain finds nothing but a half-written last line.
ChainIntact == ~tampered /\ tail # Unreadable => Problems = {}

\* "Appends one event and returns the stored entry" (append_event): an entry
\* that was returned is a line of the file.
ReturnedIsStored == ~tampered => \A r \in returned : \E i \in 1..Len(lines) : lines[i] = r

\* An append that would follow an unreadable line is refused, so a tear is never
\* buried in the middle of the journal.
OnlyLastUnreadable ==
    ~tampered => \A i \in 1..Len(AllLines) : AllLines[i] = Unreadable => i = Len(AllLines)

\* "Removing, editing or reordering a line breaks every hash after it, and
\* verify_chain() says where" (audit_journal.py): a changed line is reported,
\* whatever is appended, or torn, afterwards.
TamperDetected == tampered => Problems # {}
=============================================================================
