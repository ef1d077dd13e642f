---------------------------- MODULE ComputeMarket ----------------------------
(***************************************************************************)
(* The compute marketplace: the job scheduler (compute/scheduler.rs), the  *)
(* agent in front of it (agents/compute_scheduler.rs), the reputation      *)
(* oracle (compute/reputation.rs), and the HTTP and peer handlers that     *)
(* call them.                                                              *)
(*                                                                         *)
(* The scheduler keeps capabilities, jobs and bids behind a lock each.     *)
(* submit_job and submit_bid look under read locks, release them, and      *)
(* write under a lock they take afterwards: two steps each.                *)
(* assign_workers and submit_result hold the write lock of the jobs to     *)
(* their end.  The agent's submit_result reads the job back, and credits   *)
(* the worker, after that lock is released.                                *)
(*                                                                         *)
(* Scores are whole points.  A job is submitted as a fresh one: Pending,   *)
(* without workers or results.                                             *)
(***************************************************************************)
EXTENDS Integers, Sequences, FiniteSets, SequencesExt

CONSTANTS
    ComputeNodes,    \* workers
    JobIds,
    Submitters,      \* HTTP requests and peer messages that submit a job, once each
    Requirements,    \* JobRequirements of the jobs
    Capabilities,    \* NodeCapability values that are registered
    Prices,          \* bid_aura
    ClaimedScores,   \* reputation_score of a bid that a client sends itself
    ResultHashes,
    Bonuses,         \* longevity and latency points of a score
    MaxBids,         \* bound: bids per job
    MaxResults       \* bound: results per job

ASSUME MarketAssumption ==
    /\ \A r \in Requirements :
         r.redundancy \in Nat /\ r.cores \in Nat /\ r.vram \in Nat /\ r.reputation \in Nat
    /\ \A c \in Capabilities :
         c.cores \in Nat /\ c.vram \in Nat /\ c.gpu \in BOOLEAN /\ c.reputation \in Nat
    /\ Prices \subseteq Nat /\ ClaimedScores \subseteq Nat /\ Bonuses \subseteq Nat
    /\ MaxBids \in Nat /\ MaxResults \in Nat

VARIABLES
    caps,             \* Scheduler.capabilities
    jobs,             \* Scheduler.jobs
    bids,             \* Scheduler.bids
    completed_count,  \* Scheduler.completed_count
    records,          \* ReputationOracle.records
    submission,       \* submission[s]: where submitter s is, and with what
    bidding,          \* bidding[n]: a bid that has been checked and not yet pushed
    crediting,        \* crediting[n]: a job whose status the agent has yet to read
    replaced          \* history: ids whose job was overwritten by another submission

marketVars == <<caps, jobs, bids, completed_count, records, submission, bidding,
                crediting, replaced>>

NoJob == [status |-> "none"]

FreshJob(r) == [requirements |-> r, status |-> "Pending", assigned_workers |-> <<>>,
                results |-> <<>>]

NoCapability == [cores |-> 0]
NoBid == [price |-> 0]

\* The worker has no record: get_score answers the neutral score.
NoRecord == [score |-> 50, completed |-> 0, disputed |-> 0]

MarketInit ==
    /\ caps = [n \in ComputeNodes |-> NoCapability]
    /\ jobs = [j \in JobIds |-> NoJob]
    /\ bids = [j \in JobIds |-> <<>>]
    /\ completed_count = 0
    /\ records = [n \in ComputeNodes |-> NoRecord]
    /\ submission = [s \in Submitters |-> [at |-> "idle", after |-> {}]]
    /\ bidding = [n \in ComputeNodes |-> NoBid]
    /\ crediting = [n \in ComputeNodes |-> "none"]
    /\ replaced = {}

-----------------------------------------------------------------------------
(* Capabilities and jobs.                                                  *)

\* A node registers over HTTP or announces itself to a peer; the latest wins.
register_capability(n, cap) ==
    /\ caps' = [caps EXCEPT ![n] = cap]
    /\ UNCHANGED <<jobs, bids, completed_count, records, submission, bidding,
                   crediting, replaced>>

Accepted(j) == {s \in Submitters : submission[s].at = "accepted" /\ submission[s].job = j}

\* Mutant of LookUpJob: the id is not looked up.
LookUpNothing(s, j, r) ==
    /\ submission[s].at = "idle"
    /\ submission' = [submission EXCEPT ![s] =
         [at |-> "looked", job |-> j, requirements |-> r, after |-> Accepted(j)]]
    /\ UNCHANGED <<caps, jobs, bids, completed_count, records, bidding, crediting, replaced>>

\* submit_job, under the read lock.  `after` keeps the submissions of this id
\* that had been accepted before this one began.
LookUpJob(s, j, r) ==
    /\ submission[s].at = "idle"
    /\ submission' = [submission EXCEPT ![s] =
         IF jobs[j] # NoJob
         THEN [at |-> "rejected", after |-> {}]
         ELSE [at |-> "looked", job |-> j, requirements |-> r, after |-> Accepted(j)]]
    /\ UNCHANGED <<caps, jobs, bids, completed_count, records, bidding, crediting, replaced>>

\* submit_job, under the write lock: the bids of an earlier job stay.
InsertJob(s) ==
    /\ submission[s].at = "looked"
    /\ LET j == submission[s].job IN
       /\ jobs' = [jobs EXCEPT ![j] = FreshJob(submission[s].requirements)]
       /\ replaced' = IF jobs[j] = NoJob THEN replaced ELSE replaced \cup {j}
    /\ submission' = [submission EXCEPT ![s].at = "accepted"]
    /\ UNCHANGED <<caps, bids, completed_count, records, bidding, crediting>>

-----------------------------------------------------------------------------
(* Bids and assignment.                                                    *)

meets_requirements(cap, r) ==
    /\ cap.cores >= r.cores
    /\ r.requires_gpu => cap.gpu /\ cap.vram >= r.vram
    /\ cap.reputation >= r.reputation

get_score(n) == records[n].score

\* Mutant of CheckBid: the worker's capability is not compared with the job.
CheckBidOfAnyone(n, j, price, score) ==
    /\ bidding[n] = NoBid
    /\ Len(bids[j]) < MaxBids
    /\ jobs[j] # NoJob /\ jobs[j].status = "Pending"
    /\ caps[n] # NoCapability
    /\ bidding' = [bidding EXCEPT ![n] = [job |-> j, worker |-> n, price |-> price,
                                          score |-> score, cap |-> caps[n]]]
    /\ UNCHANGED <<caps, jobs, bids, completed_count, records, submission, crediting, replaced>>

\* submit_bid, under the read locks.  The capability is kept with the bid for
\* the properties alone.
CheckBid(n, j, price, score) ==
    /\ bidding[n] = NoBid
    /\ Len(bids[j]) < MaxBids
    /\ jobs[j] # NoJob /\ jobs[j].status = "Pending"
    /\ caps[n] # NoCapability /\ meets_requirements(caps[n], jobs[j].requirements)
    /\ bidding' = [bidding EXCEPT ![n] = [job |-> j, worker |-> n, price |-> price,
                                          score |-> score, cap |-> caps[n]]]
    /\ UNCHANGED <<caps, jobs, bids, completed_count, records, submission, crediting, replaced>>

\* compute_submit_bid takes the score that the client sends; a peer's JobClaim
\* is given the oracle's.
compute_submit_bid(n, j, price) == \E score \in ClaimedScores : CheckBid(n, j, price, score)
JobClaim(n, j, price) == CheckBid(n, j, price, get_score(n))

\* submit_bid, under the write lock of the bids: the job is not looked at again.
PushBid(n) ==
    /\ bidding[n] # NoBid
    /\ bids' = [bids EXCEPT ![bidding[n].job] = Append(@, bidding[n])]
    /\ bidding' = [bidding EXCEPT ![n] = NoBid]
    /\ UNCHANGED <<caps, jobs, completed_count, records, submission, crediting, replaced>>

\* The bids that are good enough, cheapest first; the sort is stable, so that there
\* is one such order.
EligibleBids(j) ==
    LET offers == bids[j]
        good == {i \in DOMAIN offers : offers[i].score >= jobs[j].requirements.reputation}
    IN  {order \in SetToSeqs(good) : \A k, l \in DOMAIN order : k < l =>
           \/ offers[order[k]].price < offers[order[l]].price
           \/ offers[order[k]].price = offers[order[l]].price /\ order[k] < order[l]}

\* Mutant of assign_workers: the job may be in any state.
AssignAgain(j) ==
    /\ jobs[j] # NoJob
    /\ bids[j] # <<>> /\ Len(bids[j]) >= jobs[j].requirements.redundancy
    /\ \E order \in EligibleBids(j) :
         LET taken == {k \in DOMAIN order : k <= jobs[j].requirements.redundancy} IN
         jobs' = [jobs EXCEPT ![j].assigned_workers = [k \in taken |-> bids[j][order[k]].worker],
                              ![j].status = "Assigned"]
    /\ UNCHANGED <<caps, bids, completed_count, records, submission, bidding, crediting, replaced>>

\* The number of bids is compared before the reputation filter, so that fewer
\* workers than the redundancy, even none, may be assigned.
assign_workers(j) ==
    /\ jobs[j] # NoJob /\ jobs[j].status = "Pending"
    /\ bids[j] # <<>> /\ Len(bids[j]) >= jobs[j].requirements.redundancy
    /\ \E order \in EligibleBids(j) :
         LET taken == {k \in DOMAIN order : k <= jobs[j].requirements.redundancy} IN
         jobs' = [jobs EXCEPT ![j].assigned_workers = [k \in taken |-> bids[j][order[k]].worker],
                              ![j].status = "Assigned"]
    /\ UNCHANGED <<caps, bids, completed_count, records, submission, bidding, crediting, replaced>>

-----------------------------------------------------------------------------
(* Results.                                                                *)

majority_threshold(r) == (r.redundancy + 1) \div 2

Votes(results, h) == Cardinality({i \in DOMAIN results : results[i].hash = h})

\* Mutant of verify_results: the majority is one of the results so far.
VerifyAllResults(r, results) ==
    IF \E h \in ResultHashes : Votes(results, h) > Len(results) \div 2
    THEN "Completed" ELSE "Disputed"

verify_results(r, results) ==
    IF \E h \in ResultHashes : Votes(results, h) >= majority_threshold(r)
    THEN "Completed" ELSE "Disputed"

\* The job after one more result.
WithResult(job, result) ==
    LET results == Append(job.results, result) IN
    [job EXCEPT !.results = results,
                !.status = IF Len(results) >= job.requirements.redundancy
                           THEN verify_results(job.requirements, results)
                           ELSE "Verifying"]

\* Scheduler::submit_result, whole; any assigned worker, in any state of the job
\* and any number of times.
submit_result(n, j, h) ==
    /\ jobs[j] # NoJob
    /\ n \in ToSet(jobs[j].assigned_workers)
    /\ Len(jobs[j].results) < MaxResults
    /\ LET job == WithResult(jobs[j], [worker |-> n, hash |-> h]) IN
       /\ jobs' = [jobs EXCEPT ![j] = job]
       /\ completed_count' = completed_count + (IF job.status = "Completed" THEN 1 ELSE 0)
    /\ UNCHANGED <<caps, bids, records, submission, bidding, replaced>>

\* A peer's result goes to the scheduler and changes no reputation.
JobResultMsg(n, j, h) == submit_result(n, j, h) /\ UNCHANGED crediting

\* The agent's submit_result, its first half.
AgentSubmitResult(n, j, h) ==
    /\ crediting[n] = "none"
    /\ submit_result(n, j, h)
    /\ crediting' = [crediting EXCEPT ![n] = j]

\* ReputationRecord::recalculate: half the success rate, the volume's tenth, the
\* longevity and latency points, less five points a dispute.
recalculate(record, bonus) ==
    LET total  == record.completed + record.disputed
        points == (50 * record.completed) \div total + record.completed \div 10 + bonus
                     - 5 * record.disputed
    IN  [record EXCEPT !.score = IF points < 0 THEN 0 ELSE IF points > 100 THEN 100 ELSE points]

\* Mutant of Credit: the worker is credited whatever the verdict is.
CreditAnyway(n) ==
    /\ crediting[n] # "none"
    /\ \E bonus \in Bonuses :
         records' = [records EXCEPT ![n] =
                       recalculate([records[n] EXCEPT !.completed = @ + 1], bonus)]
    /\ crediting' = [crediting EXCEPT ![n] = "none"]
    /\ UNCHANGED <<caps, jobs, bids, completed_count, submission, bidding, replaced>>

\* Its second half: get_job, then record_success or record_dispute for the
\* worker whose result this was.
Credit(n) ==
    /\ crediting[n] # "none"
    /\ \E bonus \in Bonuses :
         records' = [records EXCEPT ![n] =
           CASE jobs[crediting[n]].status = "Completed" ->
                  recalculate([records[n] EXCEPT !.completed = @ + 1], bonus)
             [] jobs[crediting[n]].status = "Disputed" ->
                  recalculate([records[n] EXCEPT !.disputed = @ + 1], bonus)
             [] OTHER -> records[n]]
    /\ crediting' = [crediting EXCEPT ![n] = "none"]
    /\ UNCHANGED <<caps, jobs, bids, completed_count, submission, bidding, replaced>>

MarketNext ==
    \/ \E n \in ComputeNodes, cap \in Capabilities : register_capability(n, cap)
    \/ \E s \in Submitters, j \in JobIds, r \in Requirements : LookUpJob(s, j, r)
    \/ \E s \in Submitters : InsertJob(s)
    \/ \E n \in ComputeNodes, j \in JobIds, price \in Prices :
         compute_submit_bid(n, j, price) \/ JobClaim(n, j, price)
    \/ \E n \in ComputeNodes : PushBid(n)
    \/ \E j \in JobIds : assign_workers(j)
    \/ \E n \in ComputeNodes, j \in JobIds, h \in ResultHashes :
         JobResultMsg(n, j, h) \/ AgentSubmitResult(n, j, h)
    \/ \E n \in ComputeNodes : Credit(n)

MarketSpec == MarketInit /\ [][MarketNext]_marketVars

-----------------------------------------------------------------------------
(* Properties.                                                             *)

\* Two submissions of one job id are both accepted only when they overlapped: a
\* submission that begins after another one was accepted is refused.
SubmissionsOverlap ==
    \A s, t \in Submitters :
        submission[t].at = "accepted" /\ s \in submission[t].after
            => submission[s].job # submission[t].job

\* Every assigned worker had offered, with enough reputation and the required
\* hardware, to do this very job, although capabilities change and bids are
\* pushed after their checks.  A job that a racing submission has replaced is
\* left out: it inherits the bids of the job before it.
AssignedCapable ==
    \A j \in JobIds \ replaced : jobs[j] # NoJob =>
        \A n \in ToSet(jobs[j].assigned_workers) : \E b \in ToSet(bids[j]) :
            /\ b.worker = n
            /\ b.score >= jobs[j].requirements.reputation
            /\ meets_requirements(b.cap, jobs[j].requirements)

\* The verdict is final: a completed job stays completed whatever results come
\* later, unless a racing submission puts a fresh job in its place.
CompletionFinal ==
    [][\A j \in JobIds : jobs[j].status = "Completed" =>
         \/ jobs'[j].status = "Completed"
         \/ j \in replaced' /\ jobs'[j].results = <<>>]_marketVars

\* A success in the oracle was earned: its worker has a result in a completed
\* job, although the agent reads the verdict after others may have changed it.
CreditEarned ==
    \A n \in ComputeNodes : records[n].completed > 0 =>
        \/ replaced # {}
        \/ \E j \in JobIds : /\ jobs[j].status = "Completed"
                             /\ \E i \in DOMAIN jobs[j].results : jobs[j].results[i].worker = n

\* A job is replaced only by a submission that raced with its own in submit_job,
\* and every other one is given to workers that offered to do it and can.
JobsHonoured ==
    /\ SubmissionsOverlap
    /\ AssignedCapable

=============================================================================
