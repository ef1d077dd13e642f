--------------------------- MODULE TrainingRounds ---------------------------
(***************************************************************************)
(* The federated training coordinator (agents/training_coordinator.rs):    *)
(* rounds of one model, gradients that peers deliver late, twice or out of *)
(* order, the quorum, and the completion by whoever aggregates.            *)
(*                                                                         *)
(* start_round and receive_gradient hold the coordinator's write lock to   *)
(* their end, audit entry included.  complete_round_after_aggregation      *)
(* writes its audit entry after it has released the lock, so rounds and    *)
(* gradients of others may come in between.                                *)
(***************************************************************************)
EXTENDS Integers, Sequences, FiniteSets, SequencesExt

CONSTANTS
    Workers,         \* peers that train
    Aggregators,     \* callers of complete_round_after_aggregation
    Quorums,         \* values of min_workers a round is started with
    MaxRounds,       \* bound: rounds
    MaxDeliveries    \* bound: gradients delivered, repetitions included

ASSUME TrainingAssumption ==
    /\ IsFiniteSet(Aggregators)
    /\ Quorums \subseteq Nat
    /\ MaxRounds \in Nat
    /\ MaxDeliveries \in Nat

VARIABLES
    state,       \* [current_round, pending_gradients, min_workers]
    sent,        \* gradients under way: [round, worker]
    deliveries,  \* gradients delivered so far
    completing,  \* completing[a]: what a has taken and not yet reported
    audit        \* the coordinator's audit entries, in order

trainingVars == <<state, sent, deliveries, completing, audit>>

\* The model has no entry before its first round.
NoState == [current_round |-> 0, pending_gradients |-> <<>>, min_workers |-> 0]

\* The aggregator has nothing to report.
Nothing == [round |-> 0, gradients |-> <<>>]

Event(event, round, gradients) ==
    [event |-> event, round |-> round, gradients |-> gradients]

\* The entry of a round's start names the workers that the round was asked for.
StartEvent(round, min_workers) ==
    [event |-> "round_started", round |-> round, gradients |-> <<>>,
     min_workers |-> min_workers]

TrainingInit ==
    /\ state = NoState
    /\ sent = {}
    /\ deliveries = 0
    /\ completing = [a \in Aggregators |-> Nothing]
    /\ audit = <<>>

\* The number of gradients that make a quorum.
required_workers == IF state.min_workers < 1 THEN 1 ELSE state.min_workers

\* Mutant of start_round: every round after the first has no minimum.
StartRoundForgets(min_workers) ==
    /\ state.current_round < MaxRounds
    /\ state' = [current_round     |-> state.current_round + 1,
                 pending_gradients |-> <<>>,
                 min_workers       |-> IF state.current_round = 0 THEN min_workers ELSE 0]
    /\ audit' = Append(audit, StartEvent(state.current_round + 1, min_workers))
    /\ UNCHANGED <<sent, deliveries, completing>>

\* min_workers is kept from the first round on; the audit entry names the value
\* that was asked for.
start_round(min_workers) ==
    /\ state.current_round < MaxRounds
    /\ state' = [current_round     |-> state.current_round + 1,
                 pending_gradients |-> <<>>,
                 min_workers       |-> IF state.current_round = 0 THEN min_workers
                                                                  ELSE state.min_workers]
    /\ audit' = Append(audit, StartEvent(state.current_round + 1, min_workers))
    /\ UNCHANGED <<sent, deliveries, completing>>

\* A worker that has heard of the current round sends its gradient to everyone.
SendGradient(w) ==
    /\ state.current_round > 0
    /\ sent' = sent \cup {[round |-> state.current_round, worker |-> w]}
    /\ sent' # sent
    /\ UNCHANGED <<state, deliveries, completing, audit>>

\* Mutants of receive_gradient: every gradient beyond the quorum reports it
\* again; the round is not compared.
ReceiveRepeatsQuorum(g) ==
    /\ deliveries < MaxDeliveries
    /\ deliveries' = deliveries + 1
    /\ IF g.round = state.current_round
       THEN LET pending == Append(state.pending_gradients, [id |-> deliveries', worker |-> g.worker])
            IN  /\ state' = [state EXCEPT !.pending_gradients = pending]
                /\ audit' = audit \o <<Event("gradient_received", g.round, pending)>>
                     \o IF Len(pending) >= required_workers
                        THEN <<Event("gradient_quorum_reached", g.round, pending)>> ELSE <<>>
       ELSE UNCHANGED <<state, audit>>
    /\ UNCHANGED <<sent, completing>>

ReceiveAnyRound(g) ==
    /\ deliveries < MaxDeliveries
    /\ deliveries' = deliveries + 1
    /\ LET before  == state.pending_gradients
           pending == Append(before, [id |-> deliveries', worker |-> g.worker])
       IN  /\ state' = [state EXCEPT !.pending_gradients = pending]
           /\ audit' = audit \o <<Event("gradient_received", g.round, pending)>>
                \o IF Len(before) < required_workers /\ Len(pending) >= required_workers
                   THEN <<Event("gradient_quorum_reached", g.round, pending)>> ELSE <<>>
    /\ UNCHANGED <<sent, completing>>

\* A gradient arrives, perhaps not for the first time: two nodes that have dialled
\* each other share two connections, and gossip goes over both.  The receipt gets
\* an id of its own.
receive_gradient(g) ==
    /\ deliveries < MaxDeliveries
    /\ deliveries' = deliveries + 1
    /\ IF g.round = state.current_round
       THEN LET before  == state.pending_gradients
                pending == Append(before, [id |-> deliveries', worker |-> g.worker])
            IN  /\ state' = [state EXCEPT !.pending_gradients = pending]
                /\ audit' = audit \o <<Event("gradient_received", g.round, pending)>>
                     \o IF Len(before) < required_workers /\ Len(pending) >= required_workers
                        THEN <<Event("gradient_quorum_reached", g.round, pending)>> ELSE <<>>
       ELSE UNCHANGED <<state, audit>>
    /\ UNCHANGED <<sent, completing>>

\* Mutants of TakeRound: the gradients stay; an incomplete quorum is enough.
TakeRoundKeepsGradients(a, round) ==
    /\ completing[a] = Nothing
    /\ state.current_round = round
    /\ Len(state.pending_gradients) >= required_workers
    /\ completing' = [completing EXCEPT ![a] =
                        [round |-> round, gradients |-> state.pending_gradients]]
    /\ UNCHANGED <<state, sent, deliveries, audit>>

TakeRoundEarly(a, round) ==
    /\ completing[a] = Nothing
    /\ state.current_round = round
    /\ state.pending_gradients # <<>>
    /\ completing' = [completing EXCEPT ![a] =
                        [round |-> round, gradients |-> state.pending_gradients]]
    /\ state' = [state EXCEPT !.pending_gradients = <<>>]
    /\ UNCHANGED <<sent, deliveries, audit>>

\* complete_round_after_aggregation, under the lock.  Its caller has real output.
TakeRound(a, round) ==
    /\ completing[a] = Nothing
    /\ state.current_round = round
    /\ Len(state.pending_gradients) >= required_workers
    /\ completing' = [completing EXCEPT ![a] =
                        [round |-> round, gradients |-> state.pending_gradients]]
    /\ state' = [state EXCEPT !.pending_gradients = <<>>]
    /\ UNCHANGED <<sent, deliveries, audit>>

\* The rest of it: the audit entry, and the news to the peers.
ReportRound(a) ==
    /\ completing[a] # Nothing
    /\ audit' = Append(audit, Event("round_completed", completing[a].round,
                                    completing[a].gradients))
    /\ completing' = [completing EXCEPT ![a] = Nothing]
    /\ UNCHANGED <<state, sent, deliveries>>

TrainingNext ==
    \/ \E q \in Quorums : start_round(q)
    \/ \E w \in Workers : SendGradient(w)
    \/ \E g \in sent : receive_gradient(g)
    \/ \E a \in Aggregators, r \in 1..MaxRounds : TakeRound(a, r)
    \/ \E a \in Aggregators : ReportRound(a)

TrainingSpec == TrainingInit /\ [][TrainingNext]_trainingVars

-----------------------------------------------------------------------------
(* Properties.                                                             *)

\* The positions of the audit entries of one kind, for one round.
Entries(event, round) ==
    {i \in 1..Len(audit) : audit[i].event = event /\ audit[i].round = round}

\* Completion evidence rests on quorum evidence: before every round_completed
\* entry there is a gradient_quorum_reached entry of that round whose gradients
\* are all among the completed ones, also when the report is overtaken by the
\* next round.
CompletionBacked ==
    \A r \in 1..MaxRounds : \A i \in Entries("round_completed", r) :
        \E j \in Entries("gradient_quorum_reached", r) :
            j < i /\ IsPrefix(audit[j].gradients, audit[i].gradients)

\* A quorum is reported once per completion: a round that has been completed k
\* times, or is about to be, has reported at most k + 1 quorums.
QuorumOnce ==
    \A r \in 1..MaxRounds :
        Cardinality(Entries("gradient_quorum_reached", r))
            <= Cardinality(Entries("round_completed", r))
               + Cardinality({a \in Aggregators : completing[a].round = r}) + 1

\* A gradient goes into at most one completion, whoever aggregates and however
\* often.
GradientsUsedOnce ==
    LET Completed == {i \in 1..Len(audit) : audit[i].event = "round_completed"} IN
    \A i, j \in Completed : i # j =>
        \A g \in ToSet(audit[i].gradients) : g \notin ToSet(audit[j].gradients)

\* A gradient counts for the round it was computed in: what is pending was
\* received after the current round started, and as one of that round.
GradientsOfRound ==
    \A i \in 1..Len(state.pending_gradients) :
        \E j \in Entries("gradient_received", state.current_round) :
            Last(audit[j].gradients) = state.pending_gradients[i]

\* A quorum is reported on at least as many gradients as its round was announced
\* with, except where the model's first round, whose minimum all rounds keep, was
\* announced with fewer.
QuorumAsAnnounced ==
    LET Announced(r) == audit[CHOOSE i \in Entries("round_started", r) : TRUE].min_workers IN
    \A i \in 1..Len(audit) : audit[i].event = "gradient_quorum_reached" =>
        \/ Len(audit[i].gradients) >= Announced(audit[i].round)
        \/ Announced(1) < Announced(audit[i].round)

\* The worker count of a reported quorum is a number of workers.
QuorumCountsWorkers ==
    \A i \in 1..Len(audit) : audit[i].event = "gradient_quorum_reached" =>
        Cardinality({g.worker : g \in ToSet(audit[i].gradients)}) = Len(audit[i].gradients)

\* Every completion of a round rests on a quorum of that round, and every quorum
\* but the latest on a completion: evidence is neither missing nor repeated.
CompletionsBacked ==
    /\ CompletionBacked
    /\ QuorumOnce

\* A gradient is counted in the round it was computed for, and in one completion.
GradientsCounted ==
    /\ GradientsUsedOnce
    /\ GradientsOfRound

=============================================================================
