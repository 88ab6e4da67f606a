----------------------- MODULE IncidentTransport_proofs -----------------------
(***************************************************************************)
(* What holds of the signed channel for any number of callers, threads and *)
(* requests, any window and limit, and any distance of the clocks.         *)
(***************************************************************************)
EXTENDS IncidentTransport, FiniteSetTheorems, TLAPS

\* A thread has read its time within the window of the request it is at.
ThreadFresh(t) ==
    thread[t] # Nothing => thread[t].at <= sent[thread[t].nonce].at + Window

\* What was accepted is remembered, or it was forgotten because a message was accepted
\* more than a window later.
Recalled(i) ==
    \/ accepts[i] \in seen
    \/ \E k \in i + 1..Len(accepts) : accepts[k].at > accepts[i].at + Window

\* No message was accepted whose nonce was still remembered.
Once(i, j) ==
    i < j /\ accepts[i].nonce = accepts[j].nonce =>
        /\ accepts[j].at <= sent[accepts[j].nonce].at + Window
        /\ \E k \in i + 1..j - 1 : accepts[k].at > accepts[i].at + Window

OnWire(n) == \E m \in wire : m.nonce = n
InThread(n) == \E t \in Threads : thread[t].nonce = n
Unanswered(n) == \A r \in replies : r.nonce # n

\* A request that the wire delivers once is at one place: on the wire, with one thread, or
\* handled.  Only then it is answered.
AtOnePlace(n) ==
    /\ OnWire(n) => ~InThread(n)
    /\ \A t, u \in Threads : thread[t].nonce = n /\ thread[u].nonce = n => t = u
    /\ OnWire(n) \/ InThread(n) => n \notin done /\ Unanswered(n) /\ told[n] # "refused"
    /\ (\E r \in replies : r.nonce = n /\ ~r.signed) \/ told[n] = "refused" => n \notin done

\* Nothing is known of a request that was not made, and a good reply is one to an operation
\* that was carried out.
Known ==
    /\ done \subseteq DOMAIN sent
    /\ \A n \in Nonces \ DOMAIN sent : told[n] = "waiting"
    /\ \A r \in replies : r.nonce \in DOMAIN sent /\ (r.signed /\ r.ok => r.nonce \in done)
    /\ \A i \in DOMAIN accepts : accepts[i].nonce \in DOMAIN sent
    /\ \A m \in wire : m.copy <= sent[m.nonce].copies
    /\ \A n \in DOMAIN sent : told[n] = "answered" => n \in done

IInv ==
    /\ TypeOK
    /\ Known
    /\ \A t \in Threads : ThreadFresh(t)
    /\ \A i \in DOMAIN accepts : Recalled(i)
    /\ \A i, j \in DOMAIN accepts : Once(i, j)
    /\ \A n \in DOMAIN sent : sent[n].copies = 1 => AtOnePlace(n)

-----------------------------------------------------------------------------
LEMMA LargerOfTwo ==
    ASSUME NEW a \in Int, NEW b \in Int
    PROVE  Max({a, b}) \in {a, b} /\ Max({a, b}) >= a /\ Max({a, b}) >= b
<1>1. \E x \in {a, b} : \A y \in {a, b} : x >= y
  <2>1. CASE a >= b BY <2>1
  <2>2. CASE b >= a BY <2>2
  <2> QED BY <2>1, <2>2
<1> QED BY <1>1 DEF Max

LEMMA InitInv == Init => IInv
<1> SUFFICES ASSUME Init PROVE IInv OBVIOUS
<1> USE TransportAssumption DEF Init
<1>1. DOMAIN sent = {} /\ DOMAIN accepts = {} OBVIOUS
<1>2. TypeOK BY <1>1 DEF TypeOK, Times, Told, Stamped, Nonces
<1>3. Known BY <1>1 DEF Known
<1>4. \A t \in Threads : ThreadFresh(t) BY DEF ThreadFresh
<1> QED BY <1>1, <1>2, <1>3, <1>4 DEF IInv

-----------------------------------------------------------------------------
(* The steps that leave the verifier's records alone.                      *)

\* What a step keeps that touches neither the edge's records nor the requests.
LEMMA RecordsKept ==
    ASSUME IInv, UNCHANGED <<edgeState, sent>>
    PROVE  /\ \A i \in DOMAIN accepts' : Recalled(i)'
           /\ \A i, j \in DOMAIN accepts' : Once(i, j)'
BY DEF IInv, edgeState, Recalled, Once

LEMMA RequestInv == ASSUME IInv, NEW c \in Callers, Request(c) PROVE IInv'
<1> USE TransportAssumption DEF IInv
<1>1. PICK d \in Deliveries :
          /\ sent' = Append(sent, [by |-> c, at |-> now + skew, valid |-> d.valid, copies |-> d.copies])
          /\ wire' = wire \cup {[nonce |-> Len(sent'), copy |-> i] : i \in 1..d.copies}
  BY DEF Request
<1>2. d.valid \in BOOLEAN /\ d.copies \in {1, 2}
  BY DEF Deliveries
<1>3. /\ Len(sent) < MaxRequests
      /\ UNCHANGED <<now, skew, thread, seen, recent, accepts, replies, told, done>>
  BY DEF Request, edgeState
<1>4. now + skew \in Int
  BY DEF TypeOK, Times
<1>5. /\ sent' \in Seq(Requests)
      /\ Len(sent') = Len(sent) + 1 /\ Len(sent) \in Nat
      /\ DOMAIN sent = 1..Len(sent) /\ DOMAIN sent' = 1..Len(sent) + 1
      /\ \A n \in DOMAIN sent : sent'[n] = sent[n]
      /\ sent'[Len(sent) + 1].copies = d.copies
  <2>1. [by |-> c, at |-> now + skew, valid |-> d.valid, copies |-> d.copies]
            \in Requests
    BY <1>2, <1>4 DEF Requests
  <2> QED BY <1>1, <2>1 DEF TypeOK
<1>6. TypeOK'
  <2>1. wire' \subseteq [nonce : DOMAIN sent', copy : {1, 2}]
    <3>1. {[nonce |-> Len(sent'), copy |-> i] : i \in 1..d.copies} \subseteq [nonce : DOMAIN sent', copy : {1, 2}]
      BY <1>2, <1>5
    <3>2. wire \subseteq [nonce : DOMAIN sent', copy : {1, 2}]
      BY <1>5 DEF TypeOK
    <3> QED BY <1>1, <3>1, <3>2
  <2>2. thread' \in [Threads -> {Nothing} \cup [nonce : DOMAIN sent', at : Times, accepted : BOOLEAN]]
    BY <1>3, <1>5 DEF TypeOK
  <2>3. Len(sent') <= MaxRequests BY <1>3, <1>5
  <2> QED BY <1>3, <1>5, <2>1, <2>2, <2>3 DEF TypeOK
<1>7. Known'
  <2>1. \A m \in wire' : m.copy <= sent'[m.nonce].copies
    <3> TAKE m \in wire'
    <3>1. CASE m \in wire
      BY <1>5, <3>1 DEF Known, TypeOK
    <3>2. CASE m \in {[nonce |-> Len(sent'), copy |-> i] : i \in 1..d.copies}
      BY <1>2, <1>5, <3>2
    <3> QED BY <1>1, <3>1, <3>2
  <2>2. Len(sent) + 1 \in Nonces BY <1>3, <1>5 DEF Nonces
  <2>3. told[Len(sent) + 1] = "waiting" BY <1>5, <2>2 DEF Known
  <2> QED BY <1>3, <1>5, <2>1, <2>3 DEF Known, Nonces
<1>8. \A t \in Threads : ThreadFresh(t)'
  BY <1>3, <1>5 DEF TypeOK, ThreadFresh
<1>9. \A i \in DOMAIN accepts' : Recalled(i)'
  BY <1>3 DEF Recalled
<1>10. \A i, j \in DOMAIN accepts' : Once(i, j)'
  BY <1>3, <1>5 DEF Once, Known
<1>11. ASSUME NEW n \in DOMAIN sent', sent'[n].copies = 1 PROVE AtOnePlace(n)'
  <2>1. CASE n \in DOMAIN sent
    <3>1. OnWire(n)' <=> OnWire(n)
      BY <1>1, <1>5, <2>1 DEF OnWire
    <3>2. AtOnePlace(n) BY <1>5, <1>11, <2>1
    <3> QED BY <1>3, <3>1, <3>2 DEF AtOnePlace, InThread, Unanswered
  <2>2. CASE n = Len(sent) + 1
    <3>1. n \notin DOMAIN sent /\ n # 0 BY <1>5, <2>2
    <3>2. \A t \in Threads : thread[t].nonce # n
      BY <3>1 DEF TypeOK, Nothing
    <3>3. n \notin done /\ Unanswered(n)
      BY <3>1 DEF Known, Unanswered
    <3>4. told[n] = "waiting" BY <1>3, <1>5, <2>2, <3>1 DEF Known, Nonces
    <3> QED BY <1>3, <3>2, <3>3, <3>4 DEF AtOnePlace, InThread, Unanswered
  <2> QED BY <1>5, <1>11, <2>1, <2>2
<1> QED BY <1>6, <1>7, <1>8, <1>9, <1>10, <1>11

\* What a caller is told takes the replies to that request with it.
LEMMA TellInv ==
    ASSUME IInv, NEW c \in Callers, NEW n \in Waiting(c), NEW what \in Told \ {"waiting"}, Tell(n, what),
           UNCHANGED <<now, skew, sent, wire, thread, edgeState, done>>,
           what = "answered" => n \in done,
           what = "refused" => \E r \in replies : r.nonce = n /\ ~r.signed
    PROVE  IInv'
<1> USE DEF IInv
<1>1. n \in DOMAIN sent /\ n \in Nonces
  BY TransportAssumption DEF Waiting, TypeOK, Nonces
<1>2. /\ UNCHANGED <<seen, recent, accepts>>
      /\ told' = [told EXCEPT ![n] = what] /\ replies' \subseteq replies
      /\ \A m \in Nonces \ {n} : told'[m] = told[m]
      /\ told'[n] = what
  BY <1>1 DEF Tell, edgeState, TypeOK
<1>3. TypeOK' BY <1>2 DEF TypeOK
<1>4. Known'
  <2>1. \A m \in Nonces \ DOMAIN sent : told'[m] = "waiting"
    BY <1>1, <1>2 DEF Known
  <2>2. \A m \in DOMAIN sent : told'[m] = "answered" => m \in done
    BY <1>1, <1>2 DEF Known, TypeOK
  <2>3. \A r \in replies' : r.nonce \in DOMAIN sent /\ (r.signed /\ r.ok => r.nonce \in done)
    BY <1>2 DEF Known
  <2> QED BY <1>2, <2>1, <2>2, <2>3 DEF Known
<1>5. \A t \in Threads : ThreadFresh(t)' BY DEF ThreadFresh
<1>6. ASSUME NEW m \in DOMAIN sent, sent[m].copies = 1 PROVE AtOnePlace(m)'
  <2>1. AtOnePlace(m) BY <1>6
  <2>2. (OnWire(m)' <=> OnWire(m)) /\ (InThread(m)' <=> InThread(m)) /\ (Unanswered(m) => Unanswered(m)')
    BY <1>2 DEF OnWire, InThread, Unanswered
  <2>3. m \in Nonces BY TransportAssumption DEF TypeOK, Nonces
  <2>4. CASE m # n
    BY <1>2, <2>1, <2>2, <2>3, <2>4 DEF AtOnePlace
  <2>5. CASE m = n /\ what = "refused"
    BY <1>2, <2>1, <2>2, <2>5 DEF AtOnePlace, Unanswered
  <2>6. CASE m = n /\ what # "refused"
    BY <1>2, <2>1, <2>2, <2>6 DEF AtOnePlace, Unanswered
  <2> QED BY <2>4, <2>5, <2>6
<1> QED BY <1>3, <1>4, <1>5, <1>6, RecordsKept

LEMMA HearInv == ASSUME IInv, NEW c \in Callers, Hear(c) PROVE IInv'
<1>1. PICK r \in replies :
          /\ r.nonce \in Waiting(c)
          /\ \/ ~r.signed /\ Tell(r.nonce, "refused")
             \/ r.signed /\ Tell(r.nonce, "unknown")
             \/ r.signed /\ Tell(r.nonce, IF r.ok THEN "answered" ELSE "failed")
  BY DEF Hear
<1>2. UNCHANGED <<now, skew, sent, wire, thread, edgeState, done>> BY DEF Hear
<1>3. r.signed /\ r.ok => r.nonce \in done BY DEF IInv, Known
<1>4. CASE ~r.signed /\ Tell(r.nonce, "refused")
  BY <1>1, <1>2, <1>4, TellInv DEF Told
<1>5. CASE r.signed /\ Tell(r.nonce, "unknown")
  BY <1>1, <1>2, <1>5, TellInv DEF Told
<1>6. CASE r.signed /\ r.ok /\ Tell(r.nonce, "answered")
  BY <1>1, <1>2, <1>3, <1>6, TellInv DEF Told
<1>7. CASE r.signed /\ ~r.ok /\ Tell(r.nonce, "failed")
  BY <1>1, <1>2, <1>7, TellInv DEF Told
<1>8. r.ok \in BOOLEAN BY DEF IInv, TypeOK
<1> QED BY <1>1, <1>4, <1>5, <1>6, <1>7, <1>8

LEMMA GiveUpInv == ASSUME IInv, NEW c \in Callers, GiveUp(c) PROVE IInv'
BY TellInv DEF GiveUp, Told

-----------------------------------------------------------------------------
(* The steps of a thread.                                                  *)

\* A copy of request n is taken off the wire, and then refused without a signature, or
\* handed to a thread that had none.
LEMMA ArriveInv == ASSUME IInv, NEW t \in Threads, Arrive(t) PROVE IInv'
<1> USE DEF IInv
<1>1. PICK m \in wire :
          /\ wire' = wire \ {m}
          /\ IF sent[m.nonce].valid /\ Fresh(m.nonce)
             THEN /\ thread' = [thread EXCEPT ![t] = [nonce |-> m.nonce, at |-> now, accepted |-> FALSE]]
                  /\ UNCHANGED replies
             ELSE Answer(m.nonce, FALSE, FALSE) /\ UNCHANGED thread
  BY DEF Arrive
<1>2. /\ thread[t] = Nothing
      /\ UNCHANGED <<now, skew, sent, seen, recent, accepts, told, done>>
  BY DEF Arrive, edgeState
<1> DEFINE n == m.nonce
           this == [nonce |-> n, at |-> now, accepted |-> FALSE]
           refusal == [nonce |-> n, signed |-> FALSE, ok |-> FALSE]
<1>3. n \in DOMAIN sent /\ n \in Nonces /\ n \in Nat \ {0}
  BY TransportAssumption DEF TypeOK, Nonces
<1>4. now \in Times /\ sent[n].at \in Int /\ Window \in Nat /\ Times \subseteq Nat
  <2>1. sent \in Seq(Requests) /\ now \in Times
    BY DEF TypeOK
  <2>2. sent[n] \in Requests
    BY <1>3, <2>1
  <2>3. Window \in Nat BY TransportAssumption
  <2>4. Times \subseteq Nat BY DEF Times
  <2> QED BY <2>1, <2>2, <2>3, <2>4 DEF Requests
<1>5. \/ /\ Fresh(n) /\ replies' = replies
         /\ thread' = [thread EXCEPT ![t] = this]
      \/ /\ replies' \subseteq replies \cup {refusal}
         /\ thread' = thread
  BY <1>1 DEF Answer
<1>6. TypeOK'
  <2>1. this \in [nonce : DOMAIN sent, at : Times, accepted : BOOLEAN] BY <1>3, <1>4
  <2>2. refusal \in [nonce : Nonces, signed : BOOLEAN, ok : BOOLEAN] BY <1>3
  <2>3. thread' \in [Threads -> {Nothing} \cup [nonce : DOMAIN sent, at : Times, accepted : BOOLEAN]]
    BY <1>5, <2>1 DEF TypeOK
  <2>4. replies' \subseteq [nonce : Nonces, signed : BOOLEAN, ok : BOOLEAN]
    BY <1>5, <2>2 DEF TypeOK
  <2> QED BY <1>1, <1>2, <2>3, <2>4 DEF TypeOK
<1>7. Known'
  <2>1. \A r \in replies' : r.nonce \in DOMAIN sent /\ (r.signed /\ r.ok => r.nonce \in done)
    BY <1>3, <1>5 DEF Known
  <2> QED BY <1>1, <1>2, <2>1 DEF Known
<1>8. \A u \in Threads : ThreadFresh(u)'
  <2>1. Fresh(n) => now <= sent[n].at + Window
    BY <1>4 DEF Fresh, Distance
  <2> QED BY <1>2, <1>5, <2>1 DEF ThreadFresh, TypeOK
<1>9. ASSUME NEW k \in DOMAIN sent, sent[k].copies = 1 PROVE AtOnePlace(k)'
  <2>1. AtOnePlace(k) BY <1>9
  <2>2. CASE k # n
    <3>1. OnWire(k)' <=> OnWire(k) BY <1>1, <2>2 DEF OnWire
    <3>2. \A u \in Threads : thread'[u].nonce = k <=> thread[u].nonce = k
      BY <1>2, <1>5, <1>9, <2>2 DEF TypeOK, Nothing, Nonces
    <3>3. \A r \in replies' : r.nonce = k => r \in replies
      BY <1>5, <2>2
    <3> QED BY <1>2, <2>1, <3>1, <3>2, <3>3 DEF AtOnePlace, InThread, Unanswered
  <2>3. CASE k = n
    <3>1. OnWire(n) BY DEF OnWire
    <3>2. ~OnWire(n)'
      <4>1. \A w \in wire : w.nonce = n => w = m
        <5> SUFFICES ASSUME NEW w \in wire, w.nonce = n PROVE w = m OBVIOUS
        <5>1. /\ w \in [nonce : DOMAIN sent, copy : {1, 2}] /\ m \in [nonce : DOMAIN sent, copy : {1, 2}]
              /\ w.copy <= 1 /\ m.copy <= 1
          BY <1>9, <2>3 DEF TypeOK, Known
        <5> QED BY <5>1
      <4> QED BY <1>1, <4>1 DEF OnWire
    <3>3. /\ n \notin done /\ Unanswered(n) /\ told[n] # "refused"
          /\ \A u \in Threads : thread[u].nonce # n
      BY <2>1, <2>3, <3>1 DEF AtOnePlace, InThread
    <3>4. CASE thread' = thread
      BY <1>2, <2>3, <3>2, <3>3, <3>4 DEF AtOnePlace, InThread, Unanswered
    <3>5. CASE thread' = [thread EXCEPT ![t] = this] /\ replies' = replies
      <4>1. \A u \in Threads : thread'[u].nonce = n <=> u = t
        BY <3>3, <3>5 DEF TypeOK
      <4> QED BY <1>2, <2>3, <3>2, <3>3, <3>5, <4>1 DEF AtOnePlace, InThread, Unanswered
    <3> QED BY <1>5, <3>4, <3>5
  <2> QED BY <2>2, <2>3
<1>10. UNCHANGED <<edgeState, sent>> BY <1>2 DEF edgeState
<1> QED BY <1>2, <1>6, <1>7, <1>8, <1>9, <1>10, RecordsKept

\* The transaction: the one step that changes what the edge has recorded.
LEMMA CheckInv == ASSUME IInv, NEW t \in Threads, Check(t) PROVE IInv'
<1> USE DEF IInv
<1> DEFINE n == thread[t].nonce
           time == thread[t].at
           this == [nonce |-> n, at |-> time]
<1>1. /\ thread[t] # Nothing /\ ~thread[t].accepted
      /\ UNCHANGED <<now, skew, sent, wire, told, done>>
  BY DEF Check
<1>2. /\ thread \in [Threads -> {Nothing} \cup [nonce : DOMAIN sent, at : Times, accepted : BOOLEAN]]
      /\ thread[t] \in [nonce : DOMAIN sent, at : Times, accepted : BOOLEAN]
  BY <1>1 DEF TypeOK
<1>3. n \in DOMAIN sent /\ n \in Nonces /\ n \in Nat \ {0} /\ time \in Times /\ time \in Nat /\ this \in Stamped
  BY <1>2, TransportAssumption DEF TypeOK, Nonces, Times, Stamped
<1>4. CASE Refuse(t) /\ UNCHANGED edgeState
  <2> DEFINE refusal == [nonce |-> n, signed |-> FALSE, ok |-> FALSE]
  <2>1. /\ thread' = [thread EXCEPT ![t] = Nothing]
        /\ replies' \subseteq replies \cup {refusal}
        /\ UNCHANGED <<seen, recent, accepts>>
    BY <1>4 DEF Refuse, Answer, edgeState
  <2>2. TypeOK'
    <3>1. refusal \in [nonce : Nonces, signed : BOOLEAN, ok : BOOLEAN] BY <1>3
    <3>2. replies' \subseteq [nonce : Nonces, signed : BOOLEAN, ok : BOOLEAN]
      BY <2>1, <3>1 DEF TypeOK
    <3>3. thread' \in [Threads -> {Nothing} \cup [nonce : DOMAIN sent, at : Times, accepted : BOOLEAN]]
      BY <1>2, <2>1
    <3> QED BY <1>1, <2>1, <3>2, <3>3 DEF TypeOK
  <2>3. Known'
    <3>1. \A r \in replies' : r.nonce \in DOMAIN sent /\ (r.signed /\ r.ok => r.nonce \in done)
      BY <1>3, <2>1 DEF Known
    <3> QED BY <1>1, <2>1, <3>1 DEF Known
  <2>4. \A u \in Threads : ThreadFresh(u)'
    BY <1>1, <1>2, <2>1 DEF ThreadFresh
  <2>5. ASSUME NEW k \in DOMAIN sent, sent[k].copies = 1 PROVE AtOnePlace(k)'
    <3>1. AtOnePlace(k) BY <2>5
    <3>2. OnWire(k)' <=> OnWire(k) BY <1>1 DEF OnWire
    <3>3. \A u \in Threads : thread'[u].nonce = k <=> thread[u].nonce = k /\ u # t
      BY <1>2, <1>3, <2>1, <2>5 DEF Nothing, Nonces, TypeOK
    <3>4. CASE k # n
      <4>1. \A r \in replies' : r.nonce = k => r \in replies BY <2>1, <3>4
      <4> QED BY <1>1, <3>1, <3>2, <3>3, <4>1 DEF AtOnePlace, InThread, Unanswered
    <3>5. CASE k = n
      <4>1. InThread(n) BY DEF InThread
      <4>2. n \notin done /\ told[n] # "refused" /\ ~OnWire(n) /\ \A u \in Threads : thread[u].nonce = n => u = t
        BY <3>1, <3>5, <4>1 DEF AtOnePlace
      <4>3. \A u \in Threads : thread'[u].nonce # k BY <3>3, <3>5, <4>2
      <4>4. ~OnWire(k)' BY <3>2, <3>5, <4>2
      <4> QED BY <1>1, <3>5, <4>2, <4>3, <4>4 DEF AtOnePlace, InThread
    <3> QED BY <3>4, <3>5
  <2> QED BY <1>1, <1>4, <2>2, <2>3, <2>4, <2>5, RecordsKept
<1>5. CASE /\ ~Replayed(n)
           /\ thread' = [thread EXCEPT ![t].accepted = TRUE]
           /\ seen' = Remembered(time) \cup {this}
           /\ recent' = InLastMinute(time) \cup {this}
           /\ accepts' = Append(accepts, this)
           /\ UNCHANGED replies
  <2>1. /\ accepts \in Seq(Stamped) /\ accepts' \in Seq(Stamped)
        /\ Len(accepts) \in Nat /\ Len(accepts') = Len(accepts) + 1
        /\ DOMAIN accepts = 1..Len(accepts) /\ DOMAIN accepts' = 1..Len(accepts) + 1
        /\ \A i \in DOMAIN accepts : accepts'[i] = accepts[i] /\ accepts[i] \in Stamped
        /\ accepts'[Len(accepts) + 1] = this
    BY <1>3, <1>5 DEF TypeOK
  <2>2. \A u \in Threads : thread'[u].nonce = thread[u].nonce /\ thread'[u].at = thread[u].at
    BY <1>2, <1>5 DEF Nothing
  <2>3. thread' \in [Threads -> {Nothing} \cup [nonce : DOMAIN sent, at : Times, accepted : BOOLEAN]]
    BY <1>2, <1>5
  <2>4. seen' \subseteq Stamped /\ recent' \subseteq Stamped
    BY <1>3, <1>5 DEF TypeOK, Remembered, InLastMinute
  <2>5. \A m \in Stamped : m.nonce \in Nat /\ m.at \in Nat
    BY TransportAssumption DEF Stamped, Nonces, Times
  <2>6. TypeOK'
    <3>1. Max({Window, Minute}) \in Nat /\ Max({Window, Minute}) >= Window /\ Max({Window, Minute}) >= Minute
      <4>1. Window \in Nat /\ Minute \in Nat BY TransportAssumption
      <4>2. Window \in Int /\ Minute \in Int BY <4>1
      <4>3. /\ Max({Window, Minute}) \in {Window, Minute}
            /\ Max({Window, Minute}) >= Window /\ Max({Window, Minute}) >= Minute
        BY <4>2, LargerOfTwo
      <4> QED BY <4>1, <4>3
    <3>2. \A m \in seen' \cup recent' : time - m.at <= Max({Window, Minute})
      <4> TAKE m \in seen' \cup recent'
      <4>1. m.at \in Nat BY <2>4, <2>5
      <4>2. CASE m = this BY <1>3, <3>1, <4>2
      <4>3. CASE m \in Remembered(time)
        BY <1>3, <3>1, <4>1, <4>3, TransportAssumption DEF Remembered
      <4>4. CASE m \in InLastMinute(time)
        BY <1>3, <3>1, <4>1, <4>4, TransportAssumption DEF InLastMinute
      <4> QED BY <1>5, <4>2, <4>3, <4>4
    <3>3. \A m \in seen' \cup recent' : accepts'[Len(accepts')].at - m.at <= Max({Window, Minute})
      <4>1. accepts'[Len(accepts')].at = time BY <2>1
      <4> QED BY <3>2, <4>1
    <3> QED BY <1>1, <1>5, <2>1, <2>3, <2>4, <3>3 DEF TypeOK
  <2>7. Known'
    BY <1>1, <1>3, <1>5, <2>1 DEF Known
  <2>8. \A u \in Threads : ThreadFresh(u)'
    <3> TAKE u \in Threads
    <3>1. thread'[u] # Nothing => thread[u] # Nothing
      BY <1>1, <1>2, <1>5
    <3> QED BY <1>1, <2>2, <3>1 DEF ThreadFresh
  <2>9. ASSUME NEW k \in DOMAIN sent, sent[k].copies = 1 PROVE AtOnePlace(k)'
    BY <1>1, <1>5, <2>2, <2>9 DEF AtOnePlace, OnWire, InThread, Unanswered
  <2>10. \A i \in DOMAIN accepts' : Recalled(i)'
    <3> SUFFICES ASSUME NEW i \in DOMAIN accepts' PROVE Recalled(i)' OBVIOUS
    <3>1. CASE i = Len(accepts) + 1
      BY <1>5, <2>1, <3>1 DEF Recalled
    <3>2. CASE i \in DOMAIN accepts /\ accepts[i] \in seen
      <4>1. accepts[i].at \in Nat BY <2>1, <2>5, <3>2
      <4>2. CASE time - accepts[i].at <= Window
        BY <1>5, <2>1, <3>2, <4>2 DEF Recalled, Remembered
      <4>3. CASE ~(time - accepts[i].at <= Window)
        <5>1. accepts'[Len(accepts) + 1].at > accepts'[i].at + Window
          BY <1>3, <2>1, <3>2, <4>1, <4>3, TransportAssumption
        <5>2. Len(accepts) + 1 \in i + 1..Len(accepts') BY <2>1, <3>2
        <5> QED BY <5>1, <5>2 DEF Recalled
      <4> QED BY <4>2, <4>3
    <3>3. CASE i \in DOMAIN accepts /\ accepts[i] \notin seen
      <4>1. PICK k \in i + 1..Len(accepts) : accepts[k].at > accepts[i].at + Window
        BY <3>3 DEF Recalled
      <4>2. k \in DOMAIN accepts /\ k \in i + 1..Len(accepts') BY <2>1, <3>3
      <4> QED BY <2>1, <3>3, <4>1, <4>2 DEF Recalled
    <3> QED BY <2>1, <3>1, <3>2, <3>3
  <2>11. \A i, j \in DOMAIN accepts' : Once(i, j)'
    <3> SUFFICES ASSUME NEW i \in DOMAIN accepts', NEW j \in DOMAIN accepts',
                        i < j, accepts'[i].nonce = accepts'[j].nonce
                 PROVE  /\ accepts'[j].at <= sent[accepts'[j].nonce].at + Window
                        /\ \E k \in i + 1..j - 1 : accepts'[k].at > accepts'[i].at + Window
      BY <1>1 DEF Once
    <3>1. i \in DOMAIN accepts BY <2>1
    <3>2. CASE j \in DOMAIN accepts
      <4>1. Once(i, j) BY <3>1, <3>2
      <4>2. \A k \in i + 1..j - 1 : k \in DOMAIN accepts BY <2>1, <3>1, <3>2
      <4> QED BY <2>1, <3>1, <3>2, <4>1, <4>2 DEF Once
    <3>3. CASE j = Len(accepts) + 1
      <4>1. accepts[i].nonce = n /\ accepts'[j].at = time /\ accepts'[j].nonce = n BY <2>1, <3>1, <3>3
      <4>2. accepts[i] \notin seen BY <1>5, <4>1 DEF Replayed
      <4>3. PICK k \in i + 1..Len(accepts) : accepts[k].at > accepts[i].at + Window
        BY <3>1, <4>2 DEF Recalled
      <4>4. k \in DOMAIN accepts /\ k \in i + 1..j - 1 BY <2>1, <3>1, <3>3
      <4>5. time <= sent[n].at + Window BY <1>1 DEF ThreadFresh
      <4> QED BY <2>1, <3>1, <4>1, <4>3, <4>4, <4>5
    <3> QED BY <2>1, <3>2, <3>3
  <2> QED BY <1>1, <2>6, <2>7, <2>8, <2>9, <2>10, <2>11
<1> QED BY <1>4, <1>5 DEF Check

LEMMA OperateInv == ASSUME IInv, NEW t \in Threads, Operate(t) PROVE IInv'
<1> USE DEF IInv
<1> DEFINE n == thread[t].nonce
<1>1. PICK ok \in BOOLEAN :
          /\ Answer(n, TRUE, ok)
          /\ done' = IF ok THEN done \cup {n} ELSE done
  BY Zenon DEF Operate
<1>2. /\ thread' = [thread EXCEPT ![t] = Nothing] /\ thread[t].accepted
      /\ UNCHANGED <<now, skew, sent, wire, seen, recent, accepts, told>>
  BY DEF Operate, edgeState
<1>3. /\ thread \in [Threads -> {Nothing} \cup [nonce : DOMAIN sent, at : Times, accepted : BOOLEAN]]
      /\ thread[t] \in [nonce : DOMAIN sent, at : Times, accepted : BOOLEAN]
  BY <1>2 DEF TypeOK, Nothing
<1>4. n \in DOMAIN sent /\ n \in Nonces /\ n # 0
  BY <1>3, TransportAssumption DEF TypeOK, Nonces
<1> DEFINE reply == [nonce |-> n, signed |-> TRUE, ok |-> ok]
<1>5. replies' \subseteq replies \cup {reply}
  BY <1>1 DEF Answer
<1>6. TypeOK'
  <2>1. reply \in [nonce : Nonces, signed : BOOLEAN, ok : BOOLEAN] BY <1>4
  <2>2. replies' \subseteq [nonce : Nonces, signed : BOOLEAN, ok : BOOLEAN]
    BY <1>5, <2>1 DEF TypeOK
  <2>3. thread' \in [Threads -> {Nothing} \cup [nonce : DOMAIN sent, at : Times, accepted : BOOLEAN]]
    BY <1>2, <1>3
  <2>4. done' \subseteq Nonces BY <1>1, <1>4 DEF TypeOK
  <2> QED BY <1>2, <2>2, <2>3, <2>4 DEF TypeOK
<1>7. Known'
  <2>1. done \subseteq done' /\ done' \subseteq DOMAIN sent BY <1>1, <1>4 DEF Known
  <2>2. \A r \in replies' : r.nonce \in DOMAIN sent /\ (r.signed /\ r.ok => r.nonce \in done')
    <3>1. ok => n \in done' BY <1>1
    <3> QED BY <1>4, <1>5, <2>1, <3>1 DEF Known
  <2> QED BY <1>2, <2>1, <2>2 DEF Known
<1>8. \A u \in Threads : ThreadFresh(u)'
  BY <1>2, <1>3 DEF ThreadFresh
<1>9. ASSUME NEW k \in DOMAIN sent, sent[k].copies = 1 PROVE AtOnePlace(k)'
  <2>1. AtOnePlace(k) BY <1>9
  <2>2. OnWire(k)' <=> OnWire(k) BY <1>2 DEF OnWire
  <2>3. k # 0 BY <1>9 DEF TypeOK
  <2>4. \A u \in Threads : thread'[u].nonce = k <=> thread[u].nonce = k /\ u # t
    BY <1>2, <1>3, <2>3 DEF Nothing
  <2>5. CASE k # n
    <3>1. \A r \in replies' : r.nonce = k => r \in replies BY <1>5, <2>5
    <3>2. k \in done' <=> k \in done BY <1>1, <2>5
    <3> QED BY <1>2, <2>1, <2>2, <2>4, <3>1, <3>2 DEF AtOnePlace, InThread, Unanswered
  <2>6. CASE k = n
    <3>1. InThread(n) BY DEF InThread
    <3>2. /\ told[n] # "refused" /\ ~OnWire(n) /\ Unanswered(n)
          /\ \A u \in Threads : thread[u].nonce = n => u = t
      BY <2>1, <2>6, <3>1 DEF AtOnePlace
    <3>3. \A u \in Threads : thread'[u].nonce # k BY <2>4, <2>6, <3>2
    <3>4. ~OnWire(k)' BY <2>2, <2>6, <3>2
    <3>5. \A r \in replies' : r.nonce = k => r.signed BY <1>5, <2>6, <3>2 DEF Unanswered
    <3> QED BY <1>2, <2>6, <3>2, <3>3, <3>4, <3>5 DEF AtOnePlace, InThread
  <2> QED BY <2>5, <2>6
<1>10. UNCHANGED <<edgeState, sent>> BY <1>2 DEF edgeState
<1> QED BY <1>2, <1>6, <1>7, <1>8, <1>9, <1>10, RecordsKept

LEMMA RestartInv == ASSUME IInv, Restart PROVE IInv'
<1> USE DEF IInv
<1>1. /\ thread' = [t \in Threads |-> Nothing] /\ replies' = {}
      /\ UNCHANGED <<now, skew, sent, wire, seen, recent, accepts, told, done>>
  BY DEF Restart, Kept
<1>2. TypeOK' BY <1>1 DEF TypeOK
<1>3. Known' BY <1>1 DEF Known
<1>4. \A t \in Threads : ThreadFresh(t)' BY <1>1 DEF ThreadFresh
<1>5. ASSUME NEW n \in DOMAIN sent, sent[n].copies = 1 PROVE AtOnePlace(n)'
  <2>1. AtOnePlace(n) /\ n # 0 BY <1>5 DEF TypeOK
  <2>2. \A t \in Threads : thread'[t].nonce # n BY <1>1, <2>1 DEF Nothing
  <2> QED BY <1>1, <2>1, <2>2 DEF AtOnePlace, OnWire, InThread, Unanswered
<1>6. UNCHANGED <<edgeState, sent>> BY <1>1 DEF edgeState
<1> QED BY <1>1, <1>2, <1>3, <1>4, <1>5, <1>6, RecordsKept

\* What none of the invariant's parts but the type of the clock depends on.
LEMMA TickInv == ASSUME IInv, Tick \/ UNCHANGED vars PROVE IInv'
<1> USE DEF IInv
<1>1. /\ now' \in Times
      /\ UNCHANGED <<skew, sent, wire, thread, seen, recent, accepts, replies, told, done>>
  BY TransportAssumption DEF Tick, vars, edgeState, TypeOK, Times
<1>2. TypeOK' BY <1>1 DEF TypeOK
<1>3. Known' BY <1>1 DEF Known
<1>4. \A t \in Threads : ThreadFresh(t)' BY <1>1 DEF ThreadFresh
<1>5. \A n \in DOMAIN sent : sent[n].copies = 1 => AtOnePlace(n)'
  BY <1>1 DEF AtOnePlace, OnWire, InThread, Unanswered
<1>6. UNCHANGED <<edgeState, sent>> BY <1>1 DEF edgeState
<1> QED BY <1>1, <1>2, <1>3, <1>4, <1>5, <1>6, RecordsKept

-----------------------------------------------------------------------------
LEMMA Inductive == Spec => []IInv
<1>1. ASSUME IInv, [Next]_vars PROVE IInv'
  <2>1. ASSUME NEW c \in Callers, Request(c) \/ Hear(c) \/ GiveUp(c) PROVE IInv'
    BY <1>1, <2>1, RequestInv, HearInv, GiveUpInv
  <2>2. ASSUME NEW t \in Threads, Arrive(t) \/ Check(t) \/ Operate(t) PROVE IInv'
    BY <1>1, <2>2, ArriveInv, CheckInv, OperateInv
  <2>3. CASE Restart BY <1>1, <2>3, RestartInv
  <2>4. CASE Tick \/ UNCHANGED vars BY <1>1, <2>4, TickInv
  <2> QED BY <1>1, <2>1, <2>2, <2>3, <2>4 DEF Next
<1> QED BY InitInv, <1>1, PTL DEF Spec

\* Every reachable state has the declared types, and neither table of the edge keeps a
\* message that is older than the window and the minute.
THEOREM TypeCorrect == Spec => []TypeOK
<1>1. IInv => TypeOK BY DEF IInv
<1> QED BY Inductive, <1>1, PTL

\* "A repeated nonce" is refused: across threads and restarts, the edge accepts no request
\* twice whose sender's clock was not ahead, unless a thread with a later time has checked
\* before the one that accepts it again.
THEOREM NoReplay == Spec => []HandledOnce
<1>1. ASSUME IInv, NEW i \in DOMAIN accepts, NEW j \in DOMAIN accepts,
             i < j, accepts[i].nonce = accepts[j].nonce,
             ~(sent[accepts[i].nonce].at > accepts[i].at)
      PROVE  \E k \in i + 1..j - 1 : accepts[k].at > accepts[j].at
  <2> DEFINE made == sent[accepts[i].nonce].at
  <2>1. /\ accepts[j].at <= made + Window
        /\ \E k \in i + 1..j - 1 : accepts[k].at > accepts[i].at + Window
    <3>1. Once(i, j) BY <1>1 DEF IInv
    <3> QED BY <1>1, <3>1 DEF Once
  <2>2. PICK k \in i + 1..j - 1 : accepts[k].at > accepts[i].at + Window
    BY <2>1
  <2>3. k \in DOMAIN accepts BY <1>1 DEF IInv, TypeOK
  <2>4. \A l \in DOMAIN accepts : accepts[l].at \in Nat
    <3>1. \A m \in Stamped : m.at \in Nat BY DEF Stamped, Times
    <3> QED BY <1>1, <3>1 DEF IInv, TypeOK
  <2>5. made \in Int
    <3>1. accepts[i].nonce \in DOMAIN sent BY <1>1 DEF IInv, Known
    <3>2. sent \in Seq(Requests)
      BY <1>1 DEF IInv, TypeOK
    <3>3. sent[accepts[i].nonce] \in Requests
      BY <3>1, <3>2
    <3> QED BY <3>3 DEF Requests
  <2>6. Window \in Nat BY TransportAssumption
  <2>7. accepts[k].at > accepts[j].at
    BY <1>1, <2>1, <2>2, <2>3, <2>4, <2>5, <2>6
  <2> QED BY <2>7
<1>2. IInv => HandledOnce BY <1>1 DEF HandledOnce
<1> QED BY Inductive, <1>2, PTL

\* A caller that was answered had its operation carried out; where one was told of a
\* refusal, the operation was not carried out and never will be, unless the wire delivered
\* the request a second time.
THEOREM ToldTheTruth == Spec => []ToldAsItIs
<1>1. ASSUME IInv, NEW n \in DOMAIN sent, told[n] = "refused", sent[n].copies = 1
      PROVE  n \notin done /\ (\A m \in wire : m.nonce # n) /\ \A t \in Threads : thread[t].nonce # n
  BY <1>1 DEF IInv, AtOnePlace, OnWire, InThread
<1>2. IInv => ToldAsItIs BY <1>1 DEF ToldAsItIs, IInv, Known
<1> QED BY Inductive, <1>2, PTL

-----------------------------------------------------------------------------
(* The limit on the messages of a minute.                                  *)

InOrderUpTo(s, k) == \A i, j \in 1..k : i < j => s[i].at <= s[j].at
SameMinute(s, k) == {i \in 1..k : s[k].at - s[i].at < Minute}

\* As long as threads check in the order of their times, the table holds every message
\* that was accepted in the minute before the last one.
MinuteKept ==
    InOrderUpTo(accepts, Len(accepts)) =>
        \A i \in SameMinute(accepts, Len(accepts)) : accepts[i] \in recent

RateInv == IsFiniteSet(recent) /\ MinuteKept /\ RateHolds

LEMMA StampedTimes == \A m \in Stamped : m.at \in Nat
BY DEF Stamped, Times

\* Accepted in the order of their times, no two messages are the same: one that was
\* accepted again was forgotten, and it was so by a later one.
LEMMA NoneIsCountedTwice ==
    ASSUME IInv, InOrderUpTo(accepts, Len(accepts)), NEW i \in DOMAIN accepts, NEW j \in DOMAIN accepts,
           accepts[i] = accepts[j]
    PROVE  i = j
<1>1. /\ Len(accepts) \in Nat /\ DOMAIN accepts = 1..Len(accepts)
      /\ \A l \in DOMAIN accepts : accepts[l].at \in Nat
  BY StampedTimes DEF IInv, TypeOK
<1>2. ASSUME NEW a \in DOMAIN accepts, NEW b \in DOMAIN accepts, accepts[a] = accepts[b], a < b
      PROVE  FALSE
  <2>1. PICK k \in a + 1..b - 1 : accepts[k].at > accepts[a].at + Window
    BY <1>2 DEF IInv, Once
  <2>2. k \in 1..Len(accepts) /\ k < b
    BY <1>1, <1>2, <2>1
  <2>3. accepts[k].at <= accepts[b].at
    BY <1>1, <1>2, <2>2 DEF InOrderUpTo
  <2> QED BY <1>1, <1>2, <2>1, <2>2, <2>3, TransportAssumption
<1> QED BY <1>1, <1>2

LEMMA CheckRate ==
    ASSUME IInv, RateInv, NEW t \in Threads, Check(t)
    PROVE  RateInv'
<1> DEFINE N == Len(accepts)
           time == thread[t].at
           this == [nonce |-> thread[t].nonce, at |-> time]
<1>1. CASE UNCHANGED edgeState
  BY <1>1 DEF edgeState, RateInv, MinuteKept, InOrderUpTo, SameMinute, RateHolds
<1>2. CASE /\ Cardinality(InLastMinute(time)) < MaxPerMinute
           /\ recent' = InLastMinute(time) \cup {this}
           /\ accepts' = Append(accepts, this)
  <2>1. thread[t] \in [nonce : DOMAIN sent, at : Times, accepted : BOOLEAN]
    BY DEF IInv, TypeOK, Check
  <2>2. time \in Nat /\ this.at = time
    BY <2>1 DEF Times
  <2>3. /\ N \in Nat /\ DOMAIN accepts = 1..N
        /\ \A l \in 1..N : accepts[l].at \in Nat
    BY StampedTimes DEF IInv, TypeOK
  <2>4. /\ Len(accepts') = N + 1 /\ DOMAIN accepts' = 1..N + 1
        /\ \A l \in 1..N : accepts'[l] = accepts[l]
        /\ accepts'[N + 1] = this
    BY <1>2, <2>3 DEF IInv, TypeOK
  <2>5. IsFiniteSet(InLastMinute(time)) /\ IsFiniteSet(recent')
    <3>1. IsFiniteSet(InLastMinute(time))
      BY FS_Subset DEF InLastMinute, RateInv
    <3> QED BY <1>2, <3>1, FS_AddElement
  <2>6. ASSUME InOrderUpTo(accepts', N + 1) PROVE InOrderUpTo(accepts, N) /\ \A l \in 1..N : accepts[l].at <= time
    <3>1. \A l \in 1..N : l \in 1..N + 1 /\ l < N + 1 /\ N + 1 \in 1..N + 1
      BY <2>3
    <3>2. InOrderUpTo(accepts, N)
      BY <2>4, <2>6, <3>1 DEF InOrderUpTo
    <3>3. ASSUME NEW l \in 1..N PROVE accepts[l].at <= time
      <4>1. accepts'[l].at <= accepts'[N + 1].at
        BY <2>6, <3>1 DEF InOrderUpTo
      <4> QED BY <2>2, <2>4, <4>1
    <3> QED BY <3>2, <3>3
  \* What is in the same minute as the new message was in the same minute as the last one.
  <2>7. ASSUME InOrderUpTo(accepts', N + 1), NEW l \in 1..N, time - accepts[l].at < Minute
        PROVE  accepts[l] \in InLastMinute(time)
    <3>1. N \in 1..N /\ accepts[N].at <= time /\ accepts[N].at \in Nat /\ accepts[l].at \in Nat
      BY <2>3, <2>6, <2>7
    <3>2. accepts[N].at - accepts[l].at < Minute
      BY <2>2, <2>7, <3>1, TransportAssumption
    <3>3. accepts[l] \in recent
      BY <2>6, <2>7, <3>2 DEF RateInv, MinuteKept, SameMinute
    <3> QED BY <2>7, <3>3 DEF InLastMinute
  <2>8. MinuteKept'
    <3> SUFFICES ASSUME InOrderUpTo(accepts', N + 1), NEW l \in 1..N + 1, time - accepts'[l].at < Minute
                 PROVE  accepts'[l] \in recent'
      BY <2>2, <2>3, <2>4 DEF MinuteKept, SameMinute
    <3>1. CASE l = N + 1
      BY <1>2, <2>4, <3>1
    <3>2. CASE l \in 1..N
      BY <1>2, <2>4, <2>7, <3>2
    <3> QED BY <2>3, <3>1, <3>2
  <2>9. RateHolds'
    <3> SUFFICES ASSUME NEW k \in 1..N + 1, InOrderUpTo(accepts', k)
                 PROVE  Cardinality(SameMinute(accepts', k)) <= MaxPerMinute
      BY <2>4 DEF RateHolds, InOrderUpTo, SameMinute
    <3>1. CASE k \in 1..N
      <4>1. 1..k \subseteq 1..N
        BY <2>3, <3>1
      <4>2. InOrderUpTo(accepts, k) /\ SameMinute(accepts', k) = SameMinute(accepts, k)
        BY <2>4, <3>1, <4>1 DEF InOrderUpTo, SameMinute
      <4> QED BY <2>3, <3>1, <4>2 DEF RateInv, RateHolds, InOrderUpTo, SameMinute
    <3>2. CASE k = N + 1
      <4> DEFINE S == {i \in 1..N : time - accepts[i].at < Minute}
                 T == InLastMinute(time)
                 f == [i \in S |-> accepts[i]]
      <4>1. SameMinute(accepts', k) = S \cup {N + 1}
        BY <2>2, <2>3, <2>4, <3>2, TransportAssumption DEF SameMinute
      <4>2. \A i \in S : accepts[i] \in T
        BY <2>7, <3>2
      <4>3. \A i, j \in S : accepts[i] = accepts[j] => i = j
        BY <2>3, <2>6, <3>2, NoneIsCountedTwice
      <4>4. IsFiniteSet(S) /\ N + 1 \notin S
        <5>1. IsFiniteSet(1..N) /\ S \in SUBSET (1..N)
          BY <2>3, FS_Interval
        <5> QED BY <2>3, <5>1, FS_Subset
      <4>5. f \in Injection(S, T)
        BY <4>2, <4>3 DEF Injection, IsInjective
      <4>6. Cardinality(S) <= Cardinality(T)
        BY <2>5, <4>5, FS_Injection, Zenon DEF ExistsInjection
      <4>7. Cardinality(S \cup {N + 1}) = Cardinality(S) + 1 /\ Cardinality(S) \in Nat
        BY <4>4, FS_AddElement, FS_CardinalityType
      <4>8. Cardinality(T) \in Nat
        BY <2>5, FS_CardinalityType
      <4>9. Cardinality(T) < MaxPerMinute
        BY <1>2
      <4> HIDE DEF S, T, f
      <4> QED BY <4>1, <4>6, <4>7, <4>8, <4>9, TransportAssumption
    <3> QED BY <2>3, <3>1, <3>2
  <2> QED BY <2>5, <2>8, <2>9 DEF RateInv
<1> QED BY <1>1, <1>2 DEF Check

\* However requests are spread over threads, repeated, given up and cut off by restarts: no
\* minute has more accepted messages than the limit, as long as threads check in the order of
\* their times.
THEOREM RateIsLimited == Spec => []RateHolds
<1>1. Init => RateInv
  BY FS_EmptySet DEF Init, RateInv, MinuteKept, SameMinute, RateHolds
<1>2. ASSUME IInv, RateInv, [Next]_vars PROVE RateInv'
  <2>1. ASSUME UNCHANGED <<recent, accepts>> PROVE RateInv'
    BY <1>2, <2>1 DEF RateInv, MinuteKept, InOrderUpTo, SameMinute, RateHolds
  <2>2. ASSUME NEW c \in Callers, Request(c) \/ Hear(c) \/ GiveUp(c) PROVE RateInv'
    BY <2>1, <2>2 DEF Request, Hear, GiveUp, edgeState
  <2>3. ASSUME NEW t \in Threads, Arrive(t) \/ Operate(t) PROVE RateInv'
    BY <2>1, <2>3 DEF Arrive, Operate, edgeState
  <2>4. ASSUME NEW t \in Threads, Check(t) PROVE RateInv'
    BY <1>2, <2>4, CheckRate
  <2>5. CASE Restart \/ Tick \/ UNCHANGED vars
    BY <2>1, <2>5 DEF Restart, Kept, Tick, edgeState, vars
  <2> QED BY <1>2, <2>2, <2>3, <2>4, <2>5 DEF Next
<1>3. RateInv => RateHolds
  BY DEF RateInv
<1> QED BY <1>1, <1>2, <1>3, Inductive, PTL DEF Spec
=============================================================================
