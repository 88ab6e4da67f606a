--------------------------- MODULE IncidentTransport ---------------------------
(***************************************************************************)
(* The signed channel of incident_transport.py: RemoteNode sends a request *)
(* to the EdgeService of a node, whose server has a thread per connection; *)
(* verify_message decides on both sides whether a message counts.  The     *)
(* edge keeps the nonces and the times it has seen in SQLite (one          *)
(* transaction per message, kept over restarts).  Clocks of two machines   *)
(* differ, and a thread reads the clock before it waits for the            *)
(* transaction.  One control node speaks to one edge here: what is kept    *)
(* for a sending node is kept for that one.                                *)
(***************************************************************************)
EXTENDS Integers, FiniteSets, Sequences, FiniteSetsExt

CONSTANTS
    Callers,      \* the RemoteNodes of the control node
    Threads,      \* the threads of the edge's server
    Window,       \* replay_window_seconds
    Minute,       \* sixty seconds, in the units of the clock
    MaxPerMinute, \* max_messages_per_minute
    Skews,        \* how far the clock of the control may be ahead of the edge's
    MaxTime,      \* bound: the clock of the edge
    MaxRequests,  \* bound: requests
    Faults        \* what may go wrong: see FaultKinds

\* invalid: a request that is not from this control, not for this edge, of another version
\* or not signed with the right secret; twice: the wire delivers a request again; lost: a
\* caller hears nothing in time; restart: of the edge; operation: one that fails.
FaultKinds == {"invalid", "twice", "lost", "restart", "operation"}

ASSUME TransportAssumption ==
    /\ Window \in Nat \ {0} /\ Minute \in Nat \ {0} /\ MaxPerMinute \in Nat \ {0}
    /\ Skews \subseteq Int /\ Skews # {} /\ MaxTime \in Nat /\ MaxRequests \in Nat
    /\ Faults \subseteq FaultKinds

\* A request is known by its nonce.
Nonces == 1..MaxRequests
Times == 0..MaxTime
Nothing == [nonce |-> 0, at |-> 0, accepted |-> FALSE]

VARIABLES
    now,      \* the clock of the edge
    skew,     \* how far the clock of the control is ahead of it
    sent,     \* the requests made, in order: [by, at, valid, copies]
    wire,     \* copies of requests that may still arrive, or never do
    thread,   \* thread -> the request it is at, and the time that it read
    seen,     \* SqliteVerifierState: the nonces, [nonce, at]
    recent,   \* SqliteVerifierState: the messages of the last minute, [nonce, at]
    replies,  \* replies under way: [nonce, signed, ok]
    told,     \* nonce -> what its caller was told
    done,     \* ghost: the requests whose operation was carried out
    accepts   \* ghost: what the edge accepted, in that order: [nonce, at]

edgeState == <<seen, recent, accepts>>
vars == <<now, skew, sent, wire, thread, edgeState, replies, told, done>>

Init ==
    /\ now = 0 /\ skew \in Skews
    /\ sent = <<>> /\ wire = {}
    /\ thread = [t \in Threads |-> Nothing]
    /\ seen = {} /\ recent = {} /\ accepts = <<>>
    /\ replies = {} /\ done = {}
    /\ told = [n \in Nonces |-> "waiting"]

Can(fault) == fault \in Faults
Distance(s, t) == IF s < t THEN t - s ELSE s - t
-----------------------------------------------------------------------------
(* RemoteNode.request, by caller c.                                        *)

\* The request that caller c waits for.
Waiting(c) == {n \in DOMAIN sent : sent[n].by = c /\ told[n] = "waiting"}

\* Bound: only one request in all is delivered twice.
Deliveries ==
    {d \in [valid : BOOLEAN, copies : {1, 2}] :
        /\ ~d.valid => Can("invalid") /\ d.copies = 1
        /\ d.copies = 2 => Can("twice") /\ \A n \in DOMAIN sent : sent[n].copies = 1}

Request(c) ==
    /\ Waiting(c) = {} /\ Len(sent) < MaxRequests
    /\ \E d \in Deliveries :
           /\ sent' = Append(sent, [by |-> c, at |-> now + skew, valid |-> d.valid, copies |-> d.copies])
           /\ wire' = wire \cup {[nonce |-> Len(sent'), copy |-> i] : i \in 1..d.copies}
    /\ UNCHANGED <<now, skew, thread, edgeState, replies, told, done>>

\* What the caller is told about its request.
Tell(n, what) ==
    /\ told' = [told EXCEPT ![n] = what]
    /\ replies' = {r \in replies : r.nonce # n}

\* "unreachable": nothing came in time; the request may still arrive.  That, and a reply
\* that does not verify, leave the outcome unknown.
GiveUp(c) ==
    /\ Can("lost")
    /\ \E n \in Waiting(c) : Tell(n, "unknown")
    /\ UNCHANGED <<now, skew, sent, wire, thread, edgeState, done>>

\* An answer without a signature is a refusal.  One with a signature must verify: it may
\* be stale for the caller's clock, or one too many for what this RemoteNode remembers.
Hear(c) ==
    /\ \E r \in replies :
           /\ r.nonce \in Waiting(c)
           /\ \/ ~r.signed /\ Tell(r.nonce, "refused")
              \/ r.signed /\ Tell(r.nonce, "unknown")
              \/ r.signed /\ Tell(r.nonce, IF r.ok THEN "answered" ELSE "failed")
    /\ UNCHANGED <<now, skew, sent, wire, thread, edgeState, done>>
-----------------------------------------------------------------------------
(* EdgeService.handle, by thread t of the server.                          *)

\* Nobody reads the reply to a request that was given up.
Answer(n, signed, ok) ==
    replies' = IF told[n] = "waiting"
               THEN replies \cup {[nonce |-> n, signed |-> signed, ok |-> ok]}
               ELSE replies

\* A copy arrives, and the clock is read.  What is wrong by itself, or stale, is refused.
Fresh(n) == Distance(now, sent[n].at) <= Window
Arrive(t) ==
    /\ thread[t] = Nothing
    /\ \E m \in wire :
           /\ wire' = wire \ {m}
           /\ IF sent[m.nonce].valid /\ Fresh(m.nonce)
              THEN /\ thread' = [thread EXCEPT ![t] = [nonce |-> m.nonce, at |-> now, accepted |-> FALSE]]
                   /\ UNCHANGED replies
              ELSE Answer(m.nonce, FALSE, FALSE) /\ UNCHANGED thread
    /\ UNCHANGED <<now, skew, sent, edgeState, told, done>>

\* SqliteVerifierState, with the time that the thread has read.
Replayed(n) == \E m \in seen : m.nonce = n
InLastMinute_short(at) == {m \in recent : at - m.at < Minute - 1}
InLastMinute(at) == {m \in recent : at - m.at < Minute}
Remembered_early(at) == {m \in seen : at - m.at < Window}
Remembered(at) == {m \in seen : at - m.at <= Window}

\* Nothing else is done with a message that is refused.
Refuse_goes_on(t) ==
    /\ thread' = [thread EXCEPT ![t].accepted = TRUE]
    /\ Answer(thread[t].nonce, FALSE, FALSE)
Refuse(t) ==
    /\ thread' = [thread EXCEPT ![t] = Nothing]
    /\ Answer(thread[t].nonce, FALSE, FALSE)

\* One transaction: it is refused as a replay, or as too much, or it is accepted.
Check(t) ==
    /\ thread[t] # Nothing /\ ~thread[t].accepted
    /\ LET n == thread[t].nonce
           at == thread[t].at
           this == [nonce |-> n, at |-> at]
       IN  \/ /\ Replayed(n) \/ Cardinality(InLastMinute(at)) >= MaxPerMinute
              /\ Refuse(t)
              /\ UNCHANGED edgeState
           \/ /\ ~Replayed(n) /\ Cardinality(InLastMinute(at)) < MaxPerMinute
              /\ thread' = [thread EXCEPT ![t].accepted = TRUE]
              /\ seen' = Remembered(at) \cup {this}
              /\ recent' = InLastMinute(at) \cup {this}
              /\ accepts' = Append(accepts, this)
              /\ UNCHANGED replies
    /\ UNCHANGED <<now, skew, sent, wire, told, done>>

\* The operation is carried out, or it fails; the reply is signed.
Operate(t) ==
    /\ thread[t].accepted
    /\ LET n == thread[t].nonce IN
       \/ done' = done \cup {n} /\ Answer(n, TRUE, TRUE)
       \/ Can("operation") /\ Answer(n, TRUE, FALSE) /\ UNCHANGED done
    /\ thread' = [thread EXCEPT ![t] = Nothing]
    /\ UNCHANGED <<now, skew, sent, wire, edgeState, told>>

\* The SQLite file outlives the process; what it was doing does not.
Kept(rows) == rows
Restart ==
    /\ Can("restart") /\ \E t \in Threads : thread[t] # Nothing
    /\ thread' = [t \in Threads |-> Nothing]
    /\ replies' = {}
    /\ seen' = Kept(seen) /\ recent' = Kept(recent)
    /\ UNCHANGED <<now, skew, sent, wire, accepts, told, done>>

Tick ==
    /\ now < MaxTime /\ now' = now + 1
    /\ UNCHANGED <<skew, sent, wire, thread, edgeState, replies, told, done>>

Next ==
    \/ \E c \in Callers : Request(c) \/ Hear(c) \/ GiveUp(c)
    \/ \E t \in Threads : Arrive(t) \/ Check(t) \/ Operate(t)
    \/ Restart \/ Tick

Spec == Init /\ [][Next]_vars
-----------------------------------------------------------------------------
Told == {"waiting", "answered", "failed", "refused", "unknown"}
Requests == [by : Callers, at : Int, valid : BOOLEAN, copies : {1, 2}]
Stamped == [nonce : Nonces, at : Times]

\* The tables do not grow: what is older than the window is gone with the next message.
TypeOK ==
    /\ now \in Times /\ skew \in Skews
    /\ sent \in Seq(Requests)
    /\ Len(sent) <= MaxRequests
    /\ wire \subseteq [nonce : DOMAIN sent, copy : {1, 2}]
    /\ thread \in [Threads -> {Nothing} \cup [nonce : DOMAIN sent, at : Times, accepted : BOOLEAN]]
    /\ \A m \in seen \cup recent : accepts[Len(accepts)].at - m.at <= Max({Window, Minute})
    /\ seen \subseteq Stamped /\ recent \subseteq Stamped /\ accepts \in Seq(Stamped)
    /\ replies \subseteq [nonce : Nonces, signed : BOOLEAN, ok : BOOLEAN]
    /\ told \in [Nonces -> Told] /\ done \subseteq Nonces

\* "A repeated nonce (`replay`)" is refused, across threads and restarts: a request is
\* accepted a second time only where the sender's clock was ahead when it was accepted
\* first, or where a thread with a later time checked before this one did.
HandledOnce ==
    \A i, j \in DOMAIN accepts :
        i < j /\ accepts[i].nonce = accepts[j].nonce =>
            \/ sent[accepts[i].nonce].at > accepts[i].at
            \/ \E k \in i + 1..j - 1 : accepts[k].at > accepts[j].at

\* "Too many messages a minute": however requests are spread over threads and restarts,
\* no minute has more than the limit, as long as threads check in the order of their times.
RateHolds ==
    \A k \in DOMAIN accepts :
        (\A i, j \in 1..k : i < j => accepts[i].at <= accepts[j].at) =>
            Cardinality({i \in 1..k : accepts[k].at - accepts[i].at < Minute}) <= MaxPerMinute

\* A caller that was answered had its operation carried out; one that was told of a refusal
\* can rely on it: the operation was not carried out and will not be, unless the wire
\* delivered the request a second time.
ToldAsItIs ==
    \A n \in DOMAIN sent :
        /\ told[n] = "answered" => n \in done
        /\ told[n] = "refused" /\ sent[n].copies = 1 =>
               /\ n \notin done /\ \A m \in wire : m.nonce # n
               /\ \A t \in Threads : thread[t].nonce # n
=============================================================================
