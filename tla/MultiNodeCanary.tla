---------------------------- MODULE MultiNodeCanary ----------------------------
(***************************************************************************)
(* run_multinode_canary: a change goes to a few nodes first, is observed,  *)
(* and goes on in waves or is undone.  Each rollout is one process of the  *)
(* control role; what it asks of a node, a deploy, a probe or a rollback,  *)
(* is a request to the edge service (edge_service.py), which goes on with  *)
(* a deploy also when nobody waits for its answer any more.  Nothing stops *)
(* two rollouts from working on the same nodes.  How a node deploys and    *)
(* rolls back is CanaryDeploy's subject: here a deploy is one step, and    *)
(* the backup a rollback takes is the last one that was set aside.         *)
(***************************************************************************)
EXTENDS Naturals, FiniteSets, Sequences, SequencesExt, FiniteSetsExt

CONSTANTS
    Rollouts,        \* each one the change that it rolls out
    Nodes,           \* the nodes
    Targets,         \* rollout -> the nodes that it is for, in the order they are given
    Original,        \* the checkout that every node has at first
    Missing,         \* no checkout
    CanaryNodes,     \* multinode.canary_nodes
    WaveSize,        \* multinode.wave_size, 0 for all the rest
    MaxFailedProbes, \* multinode.max_failed_probes
    MaxRounds,       \* bound: rounds of probes until the deadline is over
    Faults           \* what may go wrong: see FaultKinds

\* refuse: a node does not promote the change; late: its deploy fails after the checkout was
\* moved away; lost: an answer does not arrive in time; rollback: a rollback fails; crash:
\* of a rollout.
FaultKinds == {"refuse", "late", "lost", "rollback", "crash"}

\* run_multinode_canary refuses a node that is named twice.
ASSUME RolloutAssumption ==
    /\ Targets \in [Rollouts -> Seq(Nodes)]
    /\ \A r \in Rollouts : Len(Targets[r]) > 0 /\ IsInjective(Targets[r])
    /\ Original \notin Rollouts /\ Missing \notin Rollouts \cup {Original}
    /\ CanaryNodes \in Nat \ {0} /\ WaveSize \in Nat /\ MaxFailedProbes \in Nat \ {0}
    /\ MaxRounds \in Nat \ {0} /\ Faults \subseteq FaultKinds

Checkouts == Rollouts \cup {Original, Missing}
States == {"pending", "deployed", "refused", "unknown", "rolled-back", "rollback-failed"}
Outcomes == {"running", "promoted", "rolled-back", "aborted", "rollback-incomplete", "gone"}

VARIABLES
    live,      \* node -> its checkout
    backups,   \* node -> the checkouts that were set aside, the newest first
    pc,        \* rollout -> where it is
    next,      \* rollout -> how many of the targets it has asked to deploy
    taken,     \* rollout -> `deployed', in that order
    probing,   \* rollout -> how many nodes of this round it has probed
    rounds,    \* rollout -> rounds of probes since the wave
    failures,  \* rollout -> node -> failed probes since the wave
    state,     \* rollout -> node -> NodeOutcome.state
    outcome,   \* rollout -> RolloutResult.outcome
    deploying, \* <<rollout, node>>: the node is at it
    answer,    \* rollout -> what the node has answered
    late,      \* ghost: <<rollout, node>>, deploys that failed after they had begun to move
    foreign,   \* ghost: <<rollout, node>>, others changed the checkout since its deploy
    replaced,  \* ghost: rollout -> node -> what its deploy replaced
    probed     \* ghost: rollout -> the nodes that were probed well since their deploy

fleet == <<live, backups, deploying, late, foreign, replaced>>
control == <<next, taken, probing, rounds, failures, state, outcome, probed>>
vars == <<fleet, control, pc, answer>>

Init ==
    /\ live = [n \in Nodes |-> Original] /\ backups = [n \in Nodes |-> <<>>]
    /\ pc = [r \in Rollouts |-> "rolling"] /\ next = [r \in Rollouts |-> 0]
    /\ taken = [r \in Rollouts |-> <<>>]
    /\ probing = [r \in Rollouts |-> 0] /\ rounds = [r \in Rollouts |-> 0]
    /\ failures = [r \in Rollouts |-> [n \in Nodes |-> 0]]
    /\ state = [r \in Rollouts |-> [n \in Nodes |-> "pending"]]
    /\ outcome = [r \in Rollouts |-> "running"]
    /\ deploying = {} /\ answer = [r \in Rollouts |-> "none"]
    /\ late = {} /\ foreign = {} /\ replaced = [r \in Rollouts |-> [n \in Nodes |-> Original]]
    /\ probed = [r \in Rollouts |-> {}]

Can(fault) == fault \in Faults
GoTo(r, where) == pc' = [pc EXCEPT ![r] = where]
Note(r, n, what) == state' = [state EXCEPT ![r][n] = what]

\* The targets of r up to the end of the wave that its target number i belongs to.
WaveEnd(r, i) ==
    LET all == Len(Targets[r])
        number == (i - CanaryNodes + WaveSize - 1) \div WaveSize
    IN  IF i <= CanaryNodes THEN Min({CanaryNodes, all})
        ELSE IF WaveSize = 0 THEN all ELSE Min({all, CanaryNodes + WaveSize * number})
-----------------------------------------------------------------------------
(* The edge service.                                                       *)

\* What a change of n's checkout by r means to the other rollouts.
Disturbed(r, n) == {<<q, n>> : q \in Rollouts \ {r}}

\* The node answers, unless the rollout has stopped waiting.
Answers(r, what) ==
    answer' = IF pc[r] = "waiting" THEN [answer EXCEPT ![r] = what] ELSE answer

\* `deploy': deploy_canary promotes the change and keeps the checkout it replaced.
EdgePromotes(r, n) ==
    /\ <<r, n>> \in deploying /\ live[n] # Missing
    /\ deploying' = deploying \ {<<r, n>>}
    /\ live' = [live EXCEPT ![n] = r]
    /\ backups' = [backups EXCEPT ![n] = <<live[n]>> \o @]
    /\ replaced' = [replaced EXCEPT ![r][n] = live[n]]
    /\ foreign' = (foreign \ {<<r, n>>}) \cup Disturbed(r, n)
    /\ Answers(r, "promoted")
    /\ UNCHANGED <<control, pc, late>>

\* A check, the policy or the build says no, the health window undid it, or the operation
\* is not offered.
EdgeRefuses(r, n) ==
    /\ Can("refuse") \/ live[n] = Missing
    /\ <<r, n>> \in deploying /\ deploying' = deploying \ {<<r, n>>}
    /\ Answers(r, "refused")
    /\ UNCHANGED <<live, backups, control, pc, late, foreign, replaced>>

\* An error of the deploy, too, is answered as a failed operation: when neither the new
\* checkout nor the one before could be put in place, and when the last step failed and the
\* new one stays.
EdgeFailsLate(r, n) ==
    /\ Can("late") /\ <<r, n>> \in deploying /\ live[n] # Missing
    /\ deploying' = deploying \ {<<r, n>>}
    /\ \E left \in {r, Missing} : live' = [live EXCEPT ![n] = left]
    /\ backups' = [backups EXCEPT ![n] = <<live[n]>> \o @]
    /\ replaced' = [replaced EXCEPT ![r][n] = live[n]]
    /\ late' = late \cup {<<r, n>>}
    /\ foreign' = (foreign \ {<<r, n>>}) \cup Disturbed(r, n)
    /\ Answers(r, "refused")
    /\ UNCHANGED <<control, pc>>

Edge(r, n) == EdgePromotes(r, n) \/ EdgeRefuses(r, n) \/ EdgeFailsLate(r, n)
-----------------------------------------------------------------------------
(* A rollout r: roll_out.                                                  *)

\* The node of the request that r waits for.
Asked(r) == Targets[r][next[r]]

AskDeploy(r) ==
    /\ pc[r] = "rolling"
    /\ next' = [next EXCEPT ![r] = @ + 1]
    /\ \/ deploying' = deploying \cup {<<r, Targets[r][next[r] + 1]>>}
       \/ Can("lost") /\ UNCHANGED deploying
    /\ GoTo(r, "waiting")
    /\ UNCHANGED <<live, backups, taken, probing, rounds, failures, state, outcome, probed, answer,
                   late, foreign, replaced>>

\* A problem: what this rollout deployed is undone, the last one first.
Problem(r) == GoTo(r, "undoing")

\* The rest of the wave follows, or all that was deployed so far is observed.
Deployed(r) ==
    /\ answer[r] = "promoted"
    /\ Note(r, Asked(r), "deployed")
    /\ taken' = [taken EXCEPT ![r] = Append(@, Asked(r))]
    /\ IF next[r] = WaveEnd(r, next[r])
       THEN /\ GoTo(r, "observing")
            /\ probing' = [probing EXCEPT ![r] = 0] /\ rounds' = [rounds EXCEPT ![r] = 0]
            /\ failures' = [failures EXCEPT ![r] = [n \in Nodes |-> 0]]
       ELSE GoTo(r, "rolling") /\ UNCHANGED <<probing, rounds, failures>>

Refused(r) ==
    /\ answer[r] = "refused"
    /\ Note(r, Asked(r), "refused") /\ Problem(r)
    /\ UNCHANGED <<taken, probing, rounds, failures>>

TakeAnswer(r) ==
    /\ pc[r] = "waiting"
    /\ Deployed(r) \/ Refused(r)
    /\ answer' = [answer EXCEPT ![r] = "none"]
    /\ UNCHANGED <<fleet, next, outcome, probed>>

\* The answer was lost: it is not known what the node does.
NoAnswer(r) ==
    /\ Can("lost") /\ pc[r] = "waiting"
    /\ Note(r, Asked(r), "unknown") /\ Problem(r)
    /\ answer' = [answer EXCEPT ![r] = "none"]
    /\ UNCHANGED <<fleet, next, taken, probing, rounds, failures, outcome, probed>>
-----------------------------------------------------------------------------
(* observe: every node that has the change, canary included.               *)

Enough(r, n) == failures[r][n] + 1 >= MaxFailedProbes
Watched_wave(r) == SubSeq(taken[r], Len(taken[r]), Len(taken[r]))
Watched(r) == taken[r]

\* A node may turn unwell, or well again, at any time; a probe that does not come back has
\* failed as well.
Probe(r) ==
    /\ pc[r] = "observing" /\ probing[r] < Len(Watched(r))
    /\ LET n == Watched(r)[probing[r] + 1] IN \E healthy \in BOOLEAN :
           /\ probing' = [probing EXCEPT ![r] = @ + 1]
           /\ failures' = [failures EXCEPT ![r][n] = IF healthy THEN @ ELSE @ + 1]
           /\ probed' = [probed EXCEPT ![r] = IF healthy THEN @ \cup {n} ELSE @]
           /\ IF ~healthy /\ Enough(r, n) THEN Problem(r) ELSE UNCHANGED pc
    /\ UNCHANGED <<fleet, next, taken, rounds, state, outcome, answer>>

\* After a round: another one, or the deadline is over, and the next wave follows.
Waited_again(r) == rounds
Waited(r) == [rounds EXCEPT ![r] = @ + 1]
RoundEnds(r) ==
    /\ pc[r] = "observing" /\ probing[r] = Len(Watched(r))
    /\ probing' = [probing EXCEPT ![r] = 0]
    /\ \/ /\ rounds[r] + 1 < MaxRounds
          /\ rounds' = Waited(r)
          /\ UNCHANGED <<pc, outcome>>
       \/ /\ next[r] < Len(Targets[r]) /\ GoTo(r, "rolling")
          /\ UNCHANGED <<rounds, outcome>>
       \/ /\ next[r] = Len(Targets[r]) /\ GoTo(r, "ended")
          /\ outcome' = [outcome EXCEPT ![r] = "promoted"]
          /\ UNCHANGED rounds
    /\ UNCHANGED <<fleet, next, taken, failures, state, probed, answer>>
-----------------------------------------------------------------------------
(* undo                                                                    *)

\* The nodes that still have to be put back, in reverse.
ToUndo_again(r) == {n \in ToSet(taken[r]) : state[r][n] \in {"deployed", "rollback-failed"}}
ToUndo(r) ==
    {n \in Nodes : \E i \in DOMAIN taken[r] :
        /\ taken[r][i] = n /\ state[r][n] = "deployed"
        /\ \A j \in i + 1..Len(taken[r]) : state[r][taken[r][j]] # "deployed"}

\* `rollback' on the node: rollback_deploy, with the newest backup.
RollsBack_oldest(n) ==
    /\ backups[n] # <<>>
    /\ live' = [live EXCEPT ![n] = Last(backups[n])]
    /\ backups' = [backups EXCEPT ![n] = Front(@)]
RollsBack(n) ==
    /\ backups[n] # <<>>
    /\ live' = [live EXCEPT ![n] = Head(backups[n])]
    /\ backups' = [backups EXCEPT ![n] = Tail(@)]

Undo(r) ==
    /\ pc[r] = "undoing"
    /\ \E n \in ToUndo(r) :
           \/ RollsBack(n) /\ foreign' = foreign \cup Disturbed(r, n) /\ Note(r, n, "rolled-back")
           \* It was done, and the answer was lost.
           \/ Can("lost") /\ RollsBack(n) /\ foreign' = foreign \cup Disturbed(r, n) /\ Note(r, n, "rollback-failed")
           \* It was not done, or only half of it.
           \/ /\ Can("rollback") \/ backups[n] = <<>>
              /\ Note(r, n, "rollback-failed")
              /\ UNCHANGED <<live, backups, foreign>>
           \/ /\ Can("rollback") /\ foreign' = foreign \cup Disturbed(r, n) /\ Note(r, n, "rollback-failed")
              /\ live' = [live EXCEPT ![n] = Missing] /\ UNCHANGED backups
    /\ UNCHANGED <<next, taken, probing, rounds, failures, outcome, probed, pc, answer, deploying,
                   late, replaced>>

\* How the rollout ended: a node whose state is not known, or that could not be put back,
\* is said.
Incomplete_failed(r) == \E n \in Nodes : state[r][n] = "rollback-failed"
Incomplete(r) == \E n \in Nodes : state[r][n] \in {"rollback-failed", "unknown"}

Finish(r) ==
    /\ pc[r] = "undoing" /\ ToUndo(r) = {}
    /\ outcome' = [outcome EXCEPT ![r] =
           IF taken[r] = <<>> THEN "aborted"
           ELSE IF Incomplete(r) THEN "rollback-incomplete" ELSE "rolled-back"]
    /\ GoTo(r, "ended")
    /\ UNCHANGED <<fleet, next, taken, probing, rounds, failures, state, probed, answer>>

\* The control process is gone: nothing of a rollout is kept, and nobody goes on with it.
Crash(r) ==
    /\ Can("crash") /\ pc[r] # "ended"
    /\ GoTo(r, "ended") /\ outcome' = [outcome EXCEPT ![r] = "gone"]
    /\ answer' = [answer EXCEPT ![r] = "none"]
    /\ UNCHANGED <<fleet, next, taken, probing, rounds, failures, state, probed>>
-----------------------------------------------------------------------------
Rollout(r) ==
    \/ AskDeploy(r) \/ TakeAnswer(r) \/ NoAnswer(r) \/ Probe(r) \/ RoundEnds(r)
    \/ Undo(r) \/ Finish(r)

Next ==
    \/ \E r \in Rollouts : Rollout(r) \/ Crash(r)
    \/ \E r \in Rollouts, n \in Nodes : Edge(r, n)

Spec == Init /\ [][Next]_vars

\* A rollout goes on by itself: a request has a timeout, and a round of probes an end.  A
\* node finishes what it is at: every command of a deploy has a timeout.
Fairness ==
    /\ \A r \in Rollouts : WF_vars(Rollout(r))
    /\ \A r \in Rollouts, n \in Nodes : WF_vars(Edge(r, n))
FairSpec == Spec /\ Fairness
-----------------------------------------------------------------------------
TypeOK ==
    /\ live \in [Nodes -> Checkouts] /\ backups \in [Nodes -> Seq(Checkouts)]
    /\ pc \in [Rollouts -> {"rolling", "waiting", "observing", "undoing", "ended"}]
    /\ next \in [Rollouts -> Nat] /\ taken \in [Rollouts -> Seq(Nodes)]
    /\ probing \in [Rollouts -> Nat] /\ rounds \in [Rollouts -> 0..MaxRounds]
    /\ failures \in [Rollouts -> [Nodes -> Nat]]
    /\ state \in [Rollouts -> [Nodes -> States]] /\ outcome \in [Rollouts -> Outcomes]
    /\ deploying \subseteq Rollouts \X Nodes
    /\ answer \in [Rollouts -> {"none", "promoted", "refused"}]
    /\ late \subseteq Rollouts \X Nodes /\ foreign \subseteq Rollouts \X Nodes
    /\ replaced \in [Rollouts -> [Nodes -> Checkouts]] /\ probed \in [Rollouts -> SUBSET Nodes]

\* "A rollback restores the checkout a deploy set aside, only on nodes where this rollout
\* saw the deploy succeed": a node that is reported as rolled back has again what it had
\* before, unless somebody else deployed or rolled back there in between.
UndoneIsRestored ==
    \A r \in Rollouts, n \in Nodes :
        state[r][n] = "rolled-back" =>
            n \in ToSet(taken[r]) /\ (<<r, n>> \notin foreign => live[n] = replaced[r][n])

\* "It is left for a person to look at ... never hidden": when a rollout is over and did not
\* promote its change, a node that has it, or may still get it, is reported as unknown or as
\* not put back.  The exception is a deploy that failed half way, and a rollout that is gone.
LeftIsReported ==
    \A r \in Rollouts, n \in Nodes :
        /\ outcome[r] \in {"rolled-back", "aborted", "rollback-incomplete"}
        /\ live[n] = r \/ <<r, n>> \in deploying
        /\ <<r, n>> \notin foreign \cup late
        => /\ state[r][n] \in {"unknown", "rollback-failed"}
           /\ outcome[r] # "rolled-back"

\* "A few first, watched, and only then the rest": a node of a later wave is asked only when
\* every node of the earlier ones took the change and was probed well since then (a first
\* failed probe being enough to stop).
WatchedFirst ==
    MaxFailedProbes = 1 =>
        \A r \in Rollouts : \A i, j \in 1..next[r] :
            WaveEnd(r, i) < j =>
                Targets[r][i] \in probed[r] /\ state[r][Targets[r][i]] \notin {"pending", "refused", "unknown"}

\* "The edge answered with a refusal: nothing changed" (RemoteTarget.deploy).
RefusedIsUnchanged ==
    \A r \in Rollouts, n \in Nodes :
        state[r][n] = "refused" /\ <<r, n>> \notin foreign => live[n] \notin {r, Missing}

\* How many steps a rollout can take at most before it has ended: the nodes it has to ask, the
\* rounds of probes after each of them, and the nodes that it may have to put back.
ToPutBack(r) == {n \in ToSet(taken[r]) : state[r][n] = "deployed"}
Observation(r) == MaxRounds * (Len(Targets[r]) + 1)
Left(r) ==
    LET all == Len(Targets[r])
        ahead == 2 + all + (all - next[r]) * (Observation(r) + 2)
    IN  CASE pc[r] = "ended" -> 0
          [] pc[r] = "undoing" -> 1 + Cardinality(ToPutBack(r))
          [] pc[r] = "rolling" -> ahead
          [] pc[r] = "waiting" -> ahead + Observation(r) + 1
          [] pc[r] = "observing" ->
                 ahead + (MaxRounds - rounds[r] - 1) * (all + 1) + all - probing[r] + 1
Own(r) == <<pc[r], next[r], taken[r], probing[r], rounds[r], failures[r], state[r], outcome[r],
            probed[r]>>

\* Whatever a rollout does brings it nearer to its end (roll_out, observe and undo have no loop
\* without a bound), and nothing that the nodes or the other rollouts do sets it back.
ComesToAnEnd ==
    [][\A r \in Rollouts : Left(r)' <= Left(r) /\ (Own(r)' # Own(r) => Left(r)' < Left(r))]_vars

\* Every rollout comes to its end, and no node is at a deploy for ever.
RolloutEnds == \A r \in Rollouts : <>(pc[r] = "ended")
=============================================================================
