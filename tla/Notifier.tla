------------------------------- MODULE Notifier -------------------------------
(***************************************************************************)
(* The notifications of notify.py: an event for each incident that opened  *)
(* or closed between two states of the store, published to the broker, or  *)
(* appended to the outbox file while the broker cannot be reached.         *)
(* flush_outbox publishes what the outbox holds, under the outbox's own    *)
(* lock, and rewrites the file at its end.                                 *)
(***************************************************************************)
EXTENDS IncidentStore, SequencesExt

CONSTANTS
    HasOutbox,       \* notify.outbox_file is set
    OutboxMax,       \* lines _queue keeps
    Minor,           \* components whose incidents are below notify.min_severity
    MaxBrokerFlips   \* bound: how often the broker goes away or comes back

ASSUME NotifierAssumption ==
    /\ HasOutbox \in BOOLEAN /\ OutboxMax \in Nat \ {0}
    /\ Minor \subseteq Names /\ MaxBrokerFlips \in Nat

VARIABLES
    broker,      \* it can be reached
    brokerFlips, \* how often that changed
    outbox,      \* the outbox file
    outboxLock,  \* who holds its lock
    remaining,   \* program -> what a flush has not published yet
    outgoing,    \* program -> the events it still has to send
    published,   \* the events the broker took
    dropped      \* those the outbox had no room for, and those sent without an outbox

notifyVars == <<broker, brokerFlips, outbox, outboxLock, remaining, outgoing, published, dropped>>
records == <<published, dropped>>

Events == [kind : {"opened", "resolved"}, id : Nat]

NotifierInit ==
    /\ broker = TRUE /\ brokerFlips = 0
    /\ outbox = <<>> /\ outboxLock = None
    /\ remaining = [p \in Procs |-> <<>>]
    /\ outgoing = [p \in Procs |-> <<>>]
    /\ published = {} /\ dropped = {}

-----------------------------------------------------------------------------
(* notify_changes                                                          *)

OpenIds(s) == {r.id : r \in s.open}
ClosedIds(s) == {r.id : r \in s.closed}

\* wanted: a resolution always goes out, the rest by severity.
Wanted_opened(kind, component) == kind = "opened" /\ component \notin Minor
Wanted(kind, component) == kind = "resolved" \/ component \notin Minor

\* What changed between two states of the store, in the order of the stored list:
\* history first.
Changes(old, new) ==
    LET closing == {r \in new.closed : r.id \in OpenIds(old) \ ClosedIds(old) /\ Wanted("resolved", r.component)}
        opening == {r \in new.open : r.id \notin OpenIds(old) /\ Wanted("opened", r.component)}
    IN  [i \in 1..Cardinality(closing) |->
            [kind |-> "resolved",
             id |-> (CHOOSE r \in closing : Cardinality({q \in closing : q.nth <= r.nth}) = i).id]]
        \o [i \in 1..Cardinality(opening) |->
            [kind |-> "opened",
             id |-> (CHOOSE r \in opening : Cardinality({q \in opening : q.id <= r.id}) = i).id]]
-----------------------------------------------------------------------------
(* send, and _queue under the outbox's lock: the newest lines are kept.    *)

Kept(lines) == SubSeq(lines, Max({1, Len(lines) - OutboxMax + 1}), Len(lines))

Queue(p, e) ==
    /\ outboxLock = None
    /\ outbox' = Kept(Append(outbox, e))
    /\ dropped' = dropped \cup (ToSet(Append(outbox, e)) \ ToSet(Kept(Append(outbox, e))))
    /\ UNCHANGED published

Sent(p) == outgoing' = [outgoing EXCEPT ![p] = Tail(@)]

\* The next event of program p: published, queued, or lost where no outbox is set.
Send(p) ==
    /\ pc[p] = "notifying" /\ outgoing[p] # <<>>
    /\ LET e == Head(outgoing[p]) IN
       \/ /\ broker /\ published' = published \cup {e}
          /\ UNCHANGED <<outbox, dropped>>
       \/ ~broker /\ HasOutbox /\ Queue(p, e)
       \/ /\ ~broker /\ ~HasOutbox /\ dropped' = dropped \cup {e}
          /\ UNCHANGED <<outbox, published>>
    /\ Sent(p)
    /\ UNCHANGED <<storeVars, broker, brokerFlips, outboxLock, remaining>>
-----------------------------------------------------------------------------
(* flush_outbox                                                            *)

\* Nothing to do without an outbox file; else its lock, and its lines.
FlushBegin(p) ==
    /\ pc[p] = "flushing"
    /\ \/ outbox = <<>> /\ GoTo(p, "flushed") /\ UNCHANGED <<outboxLock, remaining>>
       \/ /\ outbox # <<>> /\ outboxLock = None /\ outboxLock' = p
          /\ remaining' = [remaining EXCEPT ![p] = outbox]
          /\ GoTo(p, "publishing")
    /\ UNCHANGED <<store, lock, clock, issued, mem, crashes, broker, brokerFlips, outbox, outgoing, records>>

\* The oldest line is published.
FlushOne(p) ==
    /\ pc[p] = "publishing" /\ remaining[p] # <<>> /\ broker
    /\ published' = published \cup {Head(remaining[p])}
    /\ remaining' = [remaining EXCEPT ![p] = Tail(@)]
    /\ UNCHANGED <<storeVars, broker, brokerFlips, outbox, outboxLock, outgoing, dropped>>

FlushWritten_again(p) == outbox
FlushWritten(p) == remaining[p]

\* Everything is published, or the broker is gone: what is left is written back.
FlushEnd(p) ==
    /\ pc[p] = "publishing" /\ (remaining[p] = <<>> \/ ~broker)
    /\ outbox' = FlushWritten(p) /\ outboxLock' = None
    /\ remaining' = [remaining EXCEPT ![p] = <<>>]
    /\ GoTo(p, "flushed")
    /\ UNCHANGED <<store, lock, clock, issued, mem, crashes, broker, brokerFlips, outgoing, records>>
-----------------------------------------------------------------------------
\* The programs that need the outbox, to flush it or to queue an event.
NeedsOutbox(p) ==
    \/ pc[p] = "flushing" /\ outbox # <<>>
    \/ pc[p] = "notifying" /\ outgoing[p] # <<>> /\ ~broker /\ HasOutbox

\* It was locked for all of the timeout: TimeoutError goes through send and flush_outbox,
\* and the program ends with the rest of its events unsent.
OutboxTimeout(p) ==
    /\ Can("timeout") /\ NeedsOutbox(p) /\ outboxLock # None
    /\ Dies(p)
    /\ outgoing' = [outgoing EXCEPT ![p] = <<>>]
    /\ UNCHANGED <<broker, brokerFlips, outbox, outboxLock, remaining, records>>

BrokerFlips ==
    /\ brokerFlips < MaxBrokerFlips
    /\ broker' = ~broker /\ brokerFlips' = brokerFlips + 1
    /\ UNCHANGED <<storeVars, outbox, outboxLock, remaining, outgoing, records>>

\* What a program that dies holds of the notifier.
NotifierDies(p) ==
    /\ outgoing' = [outgoing EXCEPT ![p] = <<>>]
    /\ remaining' = [remaining EXCEPT ![p] = <<>>]
    /\ outboxLock' = IF outboxLock = p THEN None ELSE outboxLock
    /\ UNCHANGED <<broker, brokerFlips, outbox, records>>

NotifierTypeOK ==
    /\ broker \in BOOLEAN /\ brokerFlips \in 0..MaxBrokerFlips
    /\ outbox \in Seq(Events) /\ Len(outbox) <= OutboxMax
    /\ outboxLock \in Procs \cup {None}
    /\ remaining \in [Procs -> Seq(Events)] /\ outgoing \in [Procs -> Seq(Events)]
    /\ published \subseteq Events /\ dropped \subseteq Events
=============================================================================
