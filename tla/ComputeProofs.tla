---------------------------- MODULE ComputeProofs ----------------------------
(***************************************************************************)
(* Proofs about the node's compute services: the compute marketplace, the  *)
(* model registry, token decoding and the rounds of training. They share   *)
(* no state; each has its own inductive invariant, for every value of its  *)
(* constants that its assumption admits.                                   *)
(***************************************************************************)
EXTENDS ComputeMarket, ModelRegistry, Decoding, TrainingRounds,
        FiniteSetTheorems, SequenceTheorems, TLAPS

-----------------------------------------------------------------------------
(* The compute marketplace.  A bid is checked against the job that it names and *)
(* pushed later; what it was checked against is the job as it is now, unless a  *)
(* racing submission has replaced it.                                           *)

Statuses == {"Pending", "Assigned", "Verifying", "Completed", "Disputed"}

ResultRecords == [worker : ComputeNodes, hash : ResultHashes]

JobRecords == [requirements : Requirements, status : Statuses,
               assigned_workers : Seq(ComputeNodes), results : Seq(ResultRecords)]

BidRecords == [job : JobIds, worker : ComputeNodes, price : Prices, score : Nat,
               cap : Capabilities]

ScoreRecords == [score : 0..100, completed : Nat, disputed : Nat]

SubmissionRecords ==
    [at : {"idle", "rejected"}, after : {{}}]
        \cup [at : {"looked", "accepted"}, job : JobIds, requirements : Requirements, after : {{}}]

MarketTypeOK ==
    /\ caps \in [ComputeNodes -> {NoCapability} \cup Capabilities]
    /\ jobs \in [JobIds -> {NoJob} \cup JobRecords]
    /\ bids \in [JobIds -> Seq(BidRecords)]
    /\ records \in [ComputeNodes -> ScoreRecords]
    /\ submission \in [Submitters -> SubmissionRecords]
    /\ bidding \in [ComputeNodes -> {NoBid} \cup BidRecords]
    /\ crediting \in [ComputeNodes -> {"none"} \cup JobIds]
    /\ replaced \subseteq JobIds

\* An accepted submission has put its job in the table, where one stays.
AcceptedStored ==
    \A s \in Submitters : submission[s].at = "accepted" => jobs[submission[s].job] # NoJob

\* A bid for job j was checked against the requirements that j has.
BidFits(j, b) ==
    /\ jobs[j] # NoJob
    /\ j \notin replaced => meets_requirements(b.cap, jobs[j].requirements)

BidsFit ==
    /\ \A j \in JobIds : \A b \in ToSet(bids[j]) : BidFits(j, b)
    /\ \A n \in ComputeNodes : bidding[n] # NoBid => BidFits(bidding[n].job, bidding[n])

\* A completed job has as many results as it asked for and a majority among them.
Decided(job) ==
    job.status = "Completed" =>
        /\ Len(job.results) >= job.requirements.redundancy
        /\ \E h \in ResultHashes : Votes(job.results, h) >= majority_threshold(job.requirements)

VerdictsBacked == \A j \in JobIds : jobs[j] # NoJob => Decided(jobs[j])

HasResultOf(job, n) == \E i \in DOMAIN job.results : job.results[i].worker = n

\* The job that the agent is about to read back holds the worker's result.
CreditsBacked ==
    \A n \in ComputeNodes : crediting[n] # "none" =>
        \/ replaced # {}
        \/ jobs[crediting[n]] # NoJob /\ HasResultOf(jobs[crediting[n]], n)

MarketInv ==
    /\ MarketTypeOK
    /\ AcceptedStored
    /\ BidsFit
    /\ AssignedCapable
    /\ VerdictsBacked
    /\ CreditsBacked
    /\ CreditEarned

\* There is a job at j exactly when it is a job record.
LEMMA JobThere ==
    ASSUME MarketTypeOK, NEW j \in JobIds
    PROVE  /\ jobs[j] # NoJob => jobs[j] \in JobRecords
           /\ NoJob.status = "none" /\ NoJob \notin JobRecords
    BY DEF MarketTypeOK, NoJob, JobRecords, Statuses

LEMMA MarketInitInv == MarketInit => MarketInv
<1> SUFFICES ASSUME MarketInit PROVE MarketInv
    OBVIOUS
<1>1. MarketTypeOK
  <2>1. [at |-> "idle", after |-> {}] \in SubmissionRecords
    BY DEF SubmissionRecords
  <2>2. NoRecord \in ScoreRecords
    BY DEF NoRecord, ScoreRecords
  <2>3. <<>> \in Seq(BidRecords)
    OBVIOUS
  <2>4. QED
    BY <2>1, <2>2, <2>3 DEF MarketInit, MarketTypeOK
<1>2. /\ \A s \in Submitters : submission[s].at = "idle"
      /\ \A j \in JobIds : jobs[j] = NoJob /\ bids[j] = <<>>
      /\ \A n \in ComputeNodes : /\ bidding[n] = NoBid /\ crediting[n] = "none"
                                 /\ records[n].completed = 0
    BY DEF MarketInit, NoRecord
<1>3. AcceptedStored /\ VerdictsBacked /\ CreditsBacked /\ CreditEarned /\ AssignedCapable
    BY <1>2 DEF AcceptedStored, VerdictsBacked, CreditsBacked, CreditEarned, AssignedCapable
<1>4. BidsFit
  <2>1. ToSet(<<>>) = {}
    BY DEF ToSet
  <2>2. QED
    BY <1>2, <2>1 DEF BidsFit
<1>5. QED
    BY <1>1, <1>3, <1>4 DEF MarketInv

\* One more result never lowers the votes for an answer.
LEMMA VotesGrow ==
    ASSUME NEW results \in Seq(ResultRecords), NEW r \in ResultRecords, NEW h
    PROVE  /\ Votes(results, h) \in Nat /\ Votes(Append(results, r), h) \in Nat
           /\ Votes(Append(results, r), h) >= Votes(results, h)
<1> DEFINE Old == {i \in DOMAIN results : results[i].hash = h}
<1> DEFINE longer == Append(results, r)
<1> DEFINE New == {i \in DOMAIN longer : longer[i].hash = h}
<1>1. /\ Len(results) \in Nat /\ DOMAIN results = 1..Len(results)
      /\ DOMAIN longer = 1..(Len(results) + 1)
      /\ \A i \in 1..Len(results) : longer[i] = results[i]
    BY AppendProperties
<1>2. IsFiniteSet(1..(Len(results) + 1))
    BY <1>1, FS_Interval
<1> HIDE DEF longer
<1>3. New \subseteq 1..(Len(results) + 1) /\ Old \subseteq New
    BY <1>1
<1>4. IsFiniteSet(New)
    BY <1>2, <1>3, FS_Subset
<1> HIDE DEF New, Old
<1>5. IsFiniteSet(Old) /\ Cardinality(Old) <= Cardinality(New)
    BY <1>3, <1>4, FS_Subset
<1>6. Cardinality(Old) \in Nat /\ Cardinality(New) \in Nat
    BY <1>4, <1>5, FS_CardinalityType
<1>7. Votes(results, h) = Cardinality(Old) /\ Votes(Append(results, r), h) = Cardinality(New)
    BY DEF Votes, Old, New, longer
<1>8. QED
    BY <1>5, <1>6, <1>7

\* A job with one more result: a completed one stays completed, and a completed one
\* is backed by its results.
LEMMA ResultAdded ==
    ASSUME NEW job \in JobRecords, NEW r \in ResultRecords, Decided(job)
    PROVE  LET more == WithResult(job, r) IN
           /\ more \in JobRecords /\ Decided(more)
           /\ more.requirements = job.requirements
           /\ more.assigned_workers = job.assigned_workers
           /\ more.results = Append(job.results, r)
           /\ job.status = "Completed" => more.status = "Completed"
<1> PICK results : results = Append(job.results, r)
    OBVIOUS
<1> PICK status : status = IF Len(results) >= job.requirements.redundancy
                           THEN verify_results(job.requirements, results) ELSE "Verifying"
    OBVIOUS
<1> DEFINE more == [[job EXCEPT !.results = results] EXCEPT !.status = status]
<1>1. WithResult(job, r) = more
  <2>1. WithResult(job, r) = [job EXCEPT !.results = results, !.status = status]
    BY DEF WithResult
  <2>2. QED
    BY <2>1
<1>2. job.results \in Seq(ResultRecords) /\ job.requirements.redundancy \in Nat
    BY MarketAssumption DEF JobRecords
<1>3. results \in Seq(ResultRecords) /\ Len(results) = Len(job.results) + 1 /\ Len(job.results) \in Nat
    BY <1>2
<1>4. status \in Statuses
    BY DEF verify_results, Statuses
<1>5. /\ more \in JobRecords /\ more.requirements = job.requirements
      /\ more.assigned_workers = job.assigned_workers
      /\ more.results = results /\ more.status = status
    BY <1>3, <1>4 DEF JobRecords
<1>6. Decided(more)
  <2>1. ASSUME status = "Completed"
        PROVE  /\ Len(results) >= job.requirements.redundancy
               /\ \E h \in ResultHashes : Votes(results, h) >= majority_threshold(job.requirements)
    BY <2>1 DEF verify_results
  <2>2. QED
    BY <1>5, <2>1 DEF Decided
<1>7. ASSUME job.status = "Completed" PROVE status = "Completed"
  <2>1. PICK h \in ResultHashes : Votes(job.results, h) >= majority_threshold(job.requirements)
    BY <1>7 DEF Decided
  <2>2. Len(results) >= job.requirements.redundancy
    BY <1>2, <1>3, <1>7 DEF Decided
  <2>3. majority_threshold(job.requirements) \in Nat
    BY <1>2 DEF majority_threshold
  <2>4. Votes(results, h) >= majority_threshold(job.requirements)
    BY <1>2, <2>1, <2>3, VotesGrow
  <2>5. QED
    BY <2>2, <2>4 DEF verify_results
<1> HIDE DEF more
<1>8. QED
    BY <1>1, <1>5, <1>6, <1>7

\* What the jobs, the bids and the replacements are leaves these conjuncts alone.
LEMMA BidsUntouched ==
    ASSUME MarketInv, UNCHANGED <<jobs, bids, bidding, replaced>>
    PROVE  BidsFit' /\ AssignedCapable'
    BY DEF MarketInv, BidsFit, BidFits, AssignedCapable

LEMMA CreditsUntouched ==
    ASSUME MarketInv, UNCHANGED <<jobs, records, crediting, replaced>>
    PROVE  VerdictsBacked' /\ CreditsBacked' /\ CreditEarned'
    BY DEF MarketInv, VerdictsBacked, CreditsBacked, CreditEarned

LEMMA SubmissionsUntouched ==
    ASSUME MarketInv, UNCHANGED submission, \A j \in JobIds : jobs[j] # NoJob => jobs'[j] # NoJob
    PROVE  AcceptedStored'
<1> SUFFICES ASSUME NEW s \in Submitters, submission[s].at = "accepted"
             PROVE  jobs'[submission[s].job] # NoJob
    BY DEF AcceptedStored
<1>1. submission[s].job \in JobIds
    BY DEF MarketInv, MarketTypeOK, SubmissionRecords
<1>2. QED
    BY <1>1 DEF MarketInv, AcceptedStored

\* submit_job, its look-up: no accepted submission has this id when the table has
\* no job of this id.
LEMMA LookUpStep ==
    ASSUME MarketInv, NEW s \in Submitters, NEW j \in JobIds, NEW r \in Requirements,
           LookUpJob(s, j, r)
    PROVE  MarketInv'
<1> PICK new : new = IF jobs[j] # NoJob
                     THEN [at |-> "rejected", after |-> {}]
                     ELSE [at |-> "looked", job |-> j, requirements |-> r, after |-> Accepted(j)]
    OBVIOUS
<1>1. /\ submission' = [submission EXCEPT ![s] = new]
      /\ UNCHANGED <<caps, jobs, bids, completed_count, records, bidding, crediting, replaced>>
    BY DEF LookUpJob
<1>2. jobs[j] = NoJob => Accepted(j) = {}
    BY DEF MarketInv, AcceptedStored, Accepted
<1>3. new \in SubmissionRecords /\ new.at # "accepted"
  <2>1. CASE jobs[j] # NoJob
    BY <2>1 DEF SubmissionRecords
  <2>2. CASE jobs[j] = NoJob
    <3>1. new = [at |-> "looked", job |-> j, requirements |-> r, after |-> {}]
      BY <1>2, <2>2
    <3>2. QED
      BY <3>1 DEF SubmissionRecords
  <2>3. QED
    BY <2>1, <2>2
<1>4. MarketTypeOK'
    BY <1>1, <1>3 DEF MarketInv, MarketTypeOK
<1>5. AcceptedStored'
    BY <1>1, <1>3 DEF MarketInv, MarketTypeOK, AcceptedStored
<1>6. QED
    BY <1>1, <1>4, <1>5, BidsUntouched, CreditsUntouched DEF MarketInv

\* submit_job, its insertion: a job that is already there is replaced, and known to be.
LEMMA InsertStep ==
    ASSUME MarketInv, NEW s \in Submitters, InsertJob(s)
    PROVE  /\ MarketInv'
           /\ \A i \in JobIds : jobs'[i] = jobs[i] \/ jobs[i] = NoJob
                                  \/ (i \in replaced' /\ jobs'[i].results = <<>>)
<1> PICK j, r : j = submission[s].job /\ r = submission[s].requirements
    OBVIOUS
<1> PICK job : job = FreshJob(r)
    OBVIOUS
<1>1. /\ submission[s].at = "looked" /\ jobs' = [jobs EXCEPT ![j] = job]
      /\ replaced' = IF jobs[j] = NoJob THEN replaced ELSE replaced \cup {j}
      /\ submission' = [submission EXCEPT ![s].at = "accepted"]
      /\ UNCHANGED <<caps, bids, completed_count, records, bidding, crediting>>
    BY DEF InsertJob
<1>2. j \in JobIds /\ r \in Requirements
    BY <1>1 DEF MarketInv, MarketTypeOK, SubmissionRecords
<1>3. /\ job \in JobRecords /\ job.status = "Pending" /\ job.assigned_workers = <<>>
      /\ job.results = <<>> /\ job.requirements = r
    BY <1>2 DEF FreshJob, JobRecords, Statuses
<1>4. job # NoJob
    BY <1>3 DEF NoJob
<1>5. /\ jobs' \in [JobIds -> {NoJob} \cup JobRecords] /\ jobs'[j] = job
      /\ \A i \in JobIds \ {j} : jobs'[i] = jobs[i]
    BY <1>1, <1>2, <1>3 DEF MarketInv, MarketTypeOK
<1>6. /\ replaced' \subseteq JobIds /\ replaced \subseteq replaced'
      /\ jobs[j] # NoJob => j \in replaced'
    BY <1>1, <1>2 DEF MarketInv, MarketTypeOK
<1> DEFINE new == [submission[s] EXCEPT !.at = "accepted"]
<1>7. new \in SubmissionRecords /\ new.job = j
  <2>1. submission[s] \in [at : {"looked", "accepted"}, job : JobIds,
                           requirements : Requirements, after : {{}}]
    BY <1>1 DEF MarketInv, MarketTypeOK, SubmissionRecords
  <2>2. QED
    BY <2>1 DEF SubmissionRecords
<1>8. submission' = [submission EXCEPT ![s] = new]
    BY <1>1
<1> HIDE DEF new
<1>9. MarketTypeOK'
  <2>1. submission' \in [Submitters -> SubmissionRecords]
    BY <1>7, <1>8 DEF MarketInv, MarketTypeOK
  <2>2. UNCHANGED <<caps, bids, records, bidding, crediting>>
    BY <1>1
  <2>3. QED
    BY <1>5, <1>6, <2>1, <2>2 DEF MarketInv, MarketTypeOK
<1>10. AcceptedStored'
  <2> SUFFICES ASSUME NEW t \in Submitters, submission'[t].at = "accepted"
               PROVE  jobs'[submission'[t].job] # NoJob
    BY DEF AcceptedStored
  <2>1. CASE t = s
    BY <1>4, <1>5, <1>7, <1>8, <2>1 DEF MarketInv, MarketTypeOK
  <2>2. CASE t # s
    <3>1. submission'[t] = submission[t]
      BY <1>8, <2>2 DEF MarketInv, MarketTypeOK
    <3>2. submission[t].job \in JobIds
      BY <3>1 DEF MarketInv, MarketTypeOK, SubmissionRecords
    <3>3. jobs[submission[t].job] # NoJob
      BY <3>1 DEF MarketInv, AcceptedStored
    <3>4. QED
      BY <1>4, <1>5, <3>1, <3>2, <3>3
  <2>3. QED
    BY <2>1, <2>2
<1>11. \A i \in JobIds : \A b : BidFits(i, b) => BidFits(i, b)'
  <2> SUFFICES ASSUME NEW i \in JobIds, NEW b, BidFits(i, b) PROVE BidFits(i, b)'
    OBVIOUS
  <2>1. CASE i = j
    <3>1. jobs'[i] # NoJob /\ i \in replaced'
      BY <1>4, <1>5, <1>6, <2>1 DEF BidFits
    <3>2. QED
      BY <3>1 DEF BidFits
  <2>2. CASE i # j
    <3>1. jobs'[i] = jobs[i] /\ (i \notin replaced' => i \notin replaced)
      BY <1>5, <1>6, <2>2
    <3>2. QED
      BY <3>1 DEF BidFits, meets_requirements
  <2>3. QED
    BY <2>1, <2>2
<1>12. BidsFit'
  <2>1. \A n \in ComputeNodes : bidding[n] # NoBid => bidding[n].job \in JobIds
    BY DEF MarketInv, MarketTypeOK, BidRecords
  <2>2. \A n \in ComputeNodes : bidding'[n] # NoBid => BidFits(bidding[n].job, bidding[n])'
    <3> SUFFICES ASSUME NEW n \in ComputeNodes, bidding'[n] # NoBid
                 PROVE  BidFits(bidding[n].job, bidding[n])'
      OBVIOUS
    <3> PICK b : b = bidding[n]
      OBVIOUS
    <3>1. bidding'[n] = b /\ b.job \in JobIds /\ BidFits(b.job, b)
      BY <1>1, <2>1 DEF MarketInv, BidsFit
    <3>2. BidFits(b.job, b)'
      BY <1>11, <3>1
    <3>3. QED
      BY <3>1, <3>2 DEF BidFits
  <2>3. \A i \in JobIds : \A b \in ToSet(bids[i])' : BidFits(i, b)'
    BY <1>1, <1>11 DEF MarketInv, BidsFit
  <2>4. QED
    BY <2>2, <2>3 DEF BidsFit
<1>13. AssignedCapable'
  <2> SUFFICES ASSUME NEW i \in JobIds \ replaced', jobs'[i] # NoJob,
                      NEW n \in ToSet(jobs'[i].assigned_workers)
               PROVE  \E b \in ToSet(bids'[i]) :
                         /\ b.worker = n
                         /\ b.score >= jobs'[i].requirements.reputation
                         /\ meets_requirements(b.cap, jobs'[i].requirements)
    BY DEF AssignedCapable, meets_requirements
  <2>1. CASE i = j
    BY <1>3, <1>5, <2>1 DEF ToSet
  <2>2. CASE i # j
    <3>1. jobs'[i] = jobs[i] /\ i \notin replaced /\ bids' = bids
      BY <1>1, <1>5, <1>6, <2>2
    <3>2. QED
      BY <3>1 DEF MarketInv, AssignedCapable
  <2>3. QED
    BY <2>1, <2>2
<1>14. VerdictsBacked'
  <2>1. Decided(job)
    BY <1>3 DEF Decided
  <2>2. QED
    BY <1>5, <2>1 DEF MarketInv, VerdictsBacked, Decided
<1>15. replaced' # {} \/ \A i \in JobIds : jobs[i] # NoJob => jobs'[i] = jobs[i]
    BY <1>5, <1>6
<1>16. CreditsBacked'
  <2> SUFFICES ASSUME NEW n \in ComputeNodes, crediting'[n] # "none", replaced' = {}
               PROVE  jobs'[crediting'[n]] # NoJob /\ HasResultOf(jobs'[crediting'[n]], n)
    BY DEF CreditsBacked, HasResultOf
  <2>1. crediting[n] \in JobIds /\ crediting'[n] = crediting[n] /\ replaced = {}
    BY <1>1, <1>6 DEF MarketInv, MarketTypeOK
  <2>2. jobs[crediting[n]] # NoJob /\ HasResultOf(jobs[crediting[n]], n)
    BY <1>1, <2>1 DEF MarketInv, CreditsBacked
  <2>3. QED
    BY <1>15, <2>1, <2>2
<1>17. CreditEarned'
  <2> SUFFICES ASSUME NEW n \in ComputeNodes, records'[n].completed > 0, replaced' = {}
               PROVE  \E i \in JobIds : jobs'[i].status = "Completed" /\ HasResultOf(jobs'[i], n)
    BY DEF CreditEarned, HasResultOf
  <2>1. replaced = {}
    BY <1>6
  <2>2. PICK i \in JobIds : jobs[i].status = "Completed" /\ HasResultOf(jobs[i], n)
    BY <1>1, <2>1 DEF MarketInv, CreditEarned, HasResultOf
  <2>3. jobs'[i] = jobs[i]
    BY <1>15, <2>2 DEF NoJob
  <2>4. QED
    BY <2>2, <2>3
<1>18. QED
    BY <1>3, <1>5, <1>6, <1>9, <1>10, <1>12, <1>13, <1>14, <1>16, <1>17 DEF MarketInv

\* submit_bid, its checks: the bid fits the job as it is now.
LEMMA CheckStep ==
    ASSUME MarketInv, NEW n \in ComputeNodes, NEW j \in JobIds, NEW price \in Prices,
           NEW score \in Nat, CheckBid(n, j, price, score)
    PROVE  MarketInv'
<1> PICK b : b = [job |-> j, worker |-> n, price |-> price, score |-> score, cap |-> caps[n]]
    OBVIOUS
<1>1. /\ jobs[j] # NoJob /\ caps[n] # NoCapability
      /\ meets_requirements(caps[n], jobs[j].requirements)
      /\ bidding' = [bidding EXCEPT ![n] = b]
      /\ UNCHANGED <<caps, jobs, bids, completed_count, records, submission, crediting, replaced>>
    BY DEF CheckBid
<1>2. b \in BidRecords /\ b.job = j /\ b.cap = caps[n]
    BY <1>1 DEF MarketInv, MarketTypeOK, BidRecords
<1>3. MarketTypeOK'
  <2>1. bidding' \in [ComputeNodes -> {NoBid} \cup BidRecords]
    BY <1>1, <1>2 DEF MarketInv, MarketTypeOK
  <2>2. QED
    BY <1>1, <2>1 DEF MarketInv, MarketTypeOK
<1>4. BidFits(j, b)
    BY <1>1, <1>2 DEF BidFits
<1>5. BidsFit'
  <2>1. \A i, x : BidFits(i, x)' <=> BidFits(i, x)
    BY <1>1 DEF BidFits, meets_requirements
  <2>2. \A m \in ComputeNodes : bidding'[m] = bidding[m] \/ bidding'[m] = b
    BY <1>1 DEF MarketInv, MarketTypeOK
  <2>3. \A m \in ComputeNodes : bidding'[m] # NoBid => BidFits(bidding'[m].job, bidding'[m])
    BY <1>2, <1>4, <2>2 DEF MarketInv, BidsFit
  <2>4. \A m \in ComputeNodes : bidding'[m] # NoBid => BidFits(bidding[m].job, bidding[m])'
    BY <1>1, <2>3 DEF BidFits, meets_requirements
  <2>5. QED
    BY <1>1, <2>1, <2>4 DEF MarketInv, BidsFit
<1>6. AssignedCapable'
    BY <1>1 DEF MarketInv, AssignedCapable
<1>7. AcceptedStored'
    BY <1>1, SubmissionsUntouched
<1>8. QED
    BY <1>1, <1>3, <1>5, <1>6, <1>7, CreditsUntouched DEF MarketInv

\* submit_bid, its push: the bid fits the job as it is then.
LEMMA PushStep ==
    ASSUME MarketInv, NEW n \in ComputeNodes, PushBid(n)
    PROVE  MarketInv'
<1> PICK b : b = bidding[n]
    OBVIOUS
<1> PICK j : j = b.job
    OBVIOUS
<1>1. /\ b # NoBid /\ bids' = [bids EXCEPT ![j] = Append(bids[j], b)]
      /\ bidding' = [bidding EXCEPT ![n] = NoBid]
      /\ UNCHANGED <<caps, jobs, completed_count, records, submission, crediting, replaced>>
    BY DEF PushBid
<1>2. b \in BidRecords /\ j \in JobIds /\ BidFits(j, b) /\ bids[j] \in Seq(BidRecords)
    BY <1>1 DEF MarketInv, MarketTypeOK, BidRecords, BidsFit
<1> PICK more : more = Append(bids[j], b)
    OBVIOUS
<1>3. /\ more \in Seq(BidRecords)
      /\ ToSet(bids[j]) \subseteq ToSet(more) /\ ToSet(more) \subseteq ToSet(bids[j]) \cup {b}
  <2>1. /\ more \in Seq(BidRecords) /\ Len(more) = Len(bids[j]) + 1 /\ more[Len(bids[j]) + 1] = b
        /\ \A i \in 1..Len(bids[j]) : more[i] = bids[j][i]
    BY <1>2, AppendProperties
  <2>2. DOMAIN more = 1..(Len(bids[j]) + 1) /\ DOMAIN bids[j] = 1..Len(bids[j]) /\ Len(bids[j]) \in Nat
    BY <1>2, <2>1
  <2>3. QED
    BY SMTT(30), <2>1, <2>2 DEF ToSet
<1>4. MarketTypeOK'
  <2>1. bidding' \in [ComputeNodes -> {NoBid} \cup BidRecords] /\ bids' \in [JobIds -> Seq(BidRecords)]
    BY <1>1, <1>2, <1>3 DEF MarketInv, MarketTypeOK
  <2>2. QED
    BY <1>1, <2>1 DEF MarketInv, MarketTypeOK
<1>5. /\ \A i \in JobIds : /\ ToSet(bids[i]) \subseteq ToSet(bids'[i])
                           /\ \A x \in ToSet(bids'[i]) : x \in ToSet(bids[i]) \/ (i = j /\ x = b)
      /\ \A m \in ComputeNodes : bidding'[m] # NoBid => bidding'[m] = bidding[m]
    BY <1>1, <1>2, <1>3 DEF MarketInv, MarketTypeOK
<1>6. BidsFit'
  <2>1. \A i \in JobIds : \A x \in ToSet(bids'[i]) : BidFits(i, x)
    BY <1>2, <1>5 DEF MarketInv, BidsFit
  <2>2. \A m \in ComputeNodes : bidding'[m] # NoBid => BidFits(bidding'[m].job, bidding'[m])
    BY <1>5 DEF MarketInv, BidsFit
  <2>3. QED
    BY <1>1, <2>1, <2>2 DEF BidsFit, BidFits, meets_requirements
<1>7. AssignedCapable'
  <2> SUFFICES ASSUME NEW i \in JobIds \ replaced', jobs'[i] # NoJob,
                      NEW m \in ToSet(jobs'[i].assigned_workers)
               PROVE  \E x \in ToSet(bids'[i]) :
                         /\ x.worker = m
                         /\ x.score >= jobs'[i].requirements.reputation
                         /\ meets_requirements(x.cap, jobs'[i].requirements)
    BY DEF AssignedCapable, meets_requirements
  <2>1. jobs' = jobs /\ replaced' = replaced
    BY <1>1
  <2>2. PICK x \in ToSet(bids[i]) : /\ x.worker = m
                                    /\ x.score >= jobs[i].requirements.reputation
                                    /\ meets_requirements(x.cap, jobs[i].requirements)
    BY <2>1 DEF MarketInv, AssignedCapable
  <2>3. QED
    BY <1>5, <2>1, <2>2
<1>8. AcceptedStored'
    BY <1>1, SubmissionsUntouched
<1>9. QED
    BY <1>1, <1>4, <1>6, <1>7, <1>8, CreditsUntouched DEF MarketInv

\* An order of the eligible bids names bids that are good enough, from the first on.
LEMMA OrderOfBids ==
    ASSUME MarketInv, NEW j \in JobIds, NEW order \in EligibleBids(j)
    PROVE  /\ DOMAIN order = 1..Len(order) /\ Len(order) \in Nat
           /\ \A k \in DOMAIN order :
                /\ order[k] \in DOMAIN bids[j]
                /\ bids[j][order[k]].score >= jobs[j].requirements.reputation
<1> DEFINE good == {i \in DOMAIN bids[j] : bids[j][i].score >= jobs[j].requirements.reputation}
<1>1. order \in SetToSeqs(good)
    BY DEF EligibleBids
<1>2. order \in [1..Cardinality(good) -> good]
    BY <1>1 DEF SetToSeqs
<1>3. Cardinality(good) \in Nat
  <2>1. bids[j] \in Seq(BidRecords)
    BY DEF MarketInv, MarketTypeOK
  <2>2. DOMAIN bids[j] = 1..Len(bids[j]) /\ Len(bids[j]) \in Nat
    BY <2>1
  <2>3. IsFiniteSet(DOMAIN bids[j])
    <3>1. IsFiniteSet(1..Len(bids[j]))
      BY ONLY <2>2, FS_Interval
    <3>2. QED
      BY ONLY <2>2, <3>1
  <2>4. IsFiniteSet(good)
    <3>1. good \subseteq DOMAIN bids[j]
      OBVIOUS
    <3>2. QED
      BY <2>3, <3>1, FS_Subset
  <2>5. QED
    BY <2>4, FS_CardinalityType
<1> HIDE DEF good
<1>4. \A k \in DOMAIN order : order[k] \in good
    BY <1>2
<1>5. DOMAIN order = 1..Cardinality(good)
    BY <1>2
<1>6. Len(order) = Cardinality(good)
  <2>1. order \in Seq(good)
    <3>1. ASSUME NEW S, NEW c \in Nat, NEW e \in [1..c -> S] PROVE e \in Seq(S)
      OBVIOUS
    <3>2. QED
      BY <1>2, <1>3, <3>1
  <2>2. QED
    BY <1>3, <1>5, <2>1
<1>7. QED
    BY <1>3, <1>4, <1>5, <1>6 DEF good

\* assign_workers: the workers are those of bids that fit the job.
LEMMA AssignStep ==
    ASSUME MarketInv, NEW j \in JobIds, assign_workers(j)
    PROVE  /\ MarketInv'
           /\ \A i \in JobIds : jobs'[i] = jobs[i] \/ jobs[i].status # "Completed"
<1> PICK job : job = jobs[j]
    OBVIOUS
<1>p. PICK order \in EligibleBids(j) :
       jobs' = [jobs EXCEPT
                  ![j].assigned_workers =
                     [k \in {k \in DOMAIN order : k <= jobs[j].requirements.redundancy} |->
                        bids[j][order[k]].worker],
                  ![j].status = "Assigned"]
    BY DEF assign_workers
<1> DEFINE taken == {k \in DOMAIN order : k <= job.requirements.redundancy}
<1> PICK workers : workers = [k \in taken |-> bids[j][order[k]].worker]
    OBVIOUS
<1>1. /\ job # NoJob /\ job.status = "Pending"
      /\ UNCHANGED <<caps, bids, completed_count, records, submission, bidding, crediting, replaced>>
    BY DEF assign_workers
<1>2. job \in JobRecords /\ job.requirements.redundancy \in Nat
  <2>1. job \in JobRecords
    BY <1>1, JobThere DEF MarketInv
  <2>2. QED
    BY <2>1, MarketAssumption DEF JobRecords
<1>3. /\ DOMAIN order = 1..Len(order) /\ Len(order) \in Nat
      /\ \A k \in DOMAIN order : /\ order[k] \in DOMAIN bids[j]
                                 /\ bids[j][order[k]].score >= job.requirements.reputation
    BY OrderOfBids
<1>4. /\ bids[j] \in Seq(BidRecords)
      /\ \A i \in DOMAIN bids[j] : bids[j][i] \in BidRecords /\ bids[j][i].worker \in ComputeNodes
  <2>1. bids[j] \in Seq(BidRecords)
    BY DEF MarketInv, MarketTypeOK
  <2>2. \A i \in DOMAIN bids[j] : bids[j][i] \in BidRecords
    BY <2>1
  <2>3. QED
    BY <2>1, <2>2 DEF BidRecords
<1>5. workers \in Seq(ComputeNodes)
  <2>1. PICK c \in Nat : taken = 1..c
    <3>1. CASE Len(order) <= job.requirements.redundancy
      <4>1. taken = 1..Len(order)
        BY <1>2, <1>3, <3>1
      <4>2. QED
        BY <1>3, <4>1
    <3>2. CASE ~(Len(order) <= job.requirements.redundancy)
      <4>1. taken = 1..job.requirements.redundancy
        BY <1>2, <1>3, <3>2
      <4>2. QED
        BY <1>2, <4>1
    <3>3. QED
      BY <3>1, <3>2
  <2>2. \A k \in taken : bids[j][order[k]].worker \in ComputeNodes
    BY <1>3, <1>4
  <2> HIDE DEF taken
  <2>3. workers \in [1..c -> ComputeNodes]
    BY <2>1, <2>2
  <2>4. ASSUME NEW S, NEW e \in [1..c -> S] PROVE e \in Seq(S)
    OBVIOUS
  <2>5. QED
    BY <2>3, <2>4
<1> DEFINE new == [[job EXCEPT !.assigned_workers = workers] EXCEPT !.status = "Assigned"]
<1>6. /\ new \in JobRecords /\ new.assigned_workers = workers /\ new.status = "Assigned"
      /\ new.requirements = job.requirements /\ new.results = job.results
    BY <1>2, <1>5 DEF JobRecords, Statuses
<1>7. jobs' = [jobs EXCEPT ![j] = new]
    BY <1>p DEF MarketInv, MarketTypeOK
<1> HIDE DEF new
<1>8. new # NoJob
    BY <1>6 DEF NoJob
<1>9. /\ jobs' \in [JobIds -> {NoJob} \cup JobRecords] /\ jobs'[j] = new
      /\ \A i \in JobIds \ {j} : jobs'[i] = jobs[i]
    BY <1>6, <1>7 DEF MarketInv, MarketTypeOK
<1>10. MarketTypeOK'
    BY <1>1, <1>9 DEF MarketInv, MarketTypeOK
<1>11. AcceptedStored'
    BY <1>1, <1>8, <1>9, SubmissionsUntouched
<1>12. \A i \in JobIds : \A b : BidFits(i, b) => BidFits(i, b)'
    BY <1>1, <1>6, <1>8, <1>9 DEF BidFits, meets_requirements
<1>13. BidsFit'
  <2>1. \A n \in ComputeNodes : bidding'[n] # NoBid => BidFits(bidding[n].job, bidding[n])'
    <3> SUFFICES ASSUME NEW n \in ComputeNodes, bidding'[n] # NoBid
                 PROVE  BidFits(bidding[n].job, bidding[n])'
      OBVIOUS
    <3> PICK b : b = bidding[n]
      OBVIOUS
    <3>1. bidding'[n] = b /\ b.job \in JobIds /\ BidFits(b.job, b)
      BY <1>1 DEF MarketInv, BidsFit, MarketTypeOK, BidRecords
    <3>2. BidFits(b.job, b)'
      BY <1>12, <3>1
    <3>3. QED
      BY <3>1, <3>2 DEF BidFits
  <2>2. \A i \in JobIds : \A b \in ToSet(bids[i])' : BidFits(i, b)'
    BY <1>1, <1>12 DEF MarketInv, BidsFit
  <2>3. QED
    BY <2>1, <2>2 DEF BidsFit
<1>14. AssignedCapable'
  <2> SUFFICES ASSUME NEW i \in JobIds \ replaced', jobs'[i] # NoJob,
                      NEW n \in ToSet(jobs'[i].assigned_workers)
               PROVE  \E b \in ToSet(bids'[i]) :
                         /\ b.worker = n
                         /\ b.score >= jobs'[i].requirements.reputation
                         /\ meets_requirements(b.cap, jobs'[i].requirements)
    BY DEF AssignedCapable, meets_requirements
  <2>0. bids' = bids /\ replaced' = replaced
    BY <1>1
  <2>1. CASE i = j
    <3>1. n \in ToSet(workers) /\ jobs'[i].requirements = job.requirements
      BY <1>6, <1>9, <2>1
    <3>2. PICK k \in taken : n = bids[j][order[k]].worker
      BY <3>1 DEF ToSet
    <3> PICK b : b = bids[j][order[k]]
      OBVIOUS
    <3>3. b \in ToSet(bids[j]) /\ b.score >= job.requirements.reputation /\ b.worker = n
      BY <1>3, <3>2 DEF ToSet
    <3>4. meets_requirements(b.cap, job.requirements)
      BY <2>0, <2>1, <3>3 DEF MarketInv, BidsFit, BidFits
    <3>5. QED
      BY <2>0, <2>1, <3>1, <3>3, <3>4
  <2>2. CASE i # j
    <3>1. jobs'[i] = jobs[i]
      BY <1>9, <2>2
    <3>2. QED
      BY <2>0, <3>1 DEF MarketInv, AssignedCapable
  <2>3. QED
    BY <2>1, <2>2
<1>15. VerdictsBacked'
  <2>1. Decided(new)
    BY <1>6 DEF Decided
  <2>2. QED
    BY <1>9, <2>1 DEF MarketInv, VerdictsBacked, Decided
<1>16. \A i \in JobIds : \A n : HasResultOf(jobs[i], n) => HasResultOf(jobs'[i], n)
  <2> SUFFICES ASSUME NEW i \in JobIds, NEW n, HasResultOf(jobs[i], n) PROVE HasResultOf(jobs'[i], n)
    OBVIOUS
  <2>1. jobs'[i].results = jobs[i].results
    BY <1>6, <1>9
  <2>2. QED
    BY <2>1 DEF HasResultOf
<1>17. CreditsBacked'
  <2> SUFFICES ASSUME NEW n \in ComputeNodes, crediting'[n] # "none", replaced' = {}
               PROVE  jobs'[crediting'[n]] # NoJob /\ HasResultOf(jobs'[crediting'[n]], n)
    BY DEF CreditsBacked, HasResultOf
  <2>1. crediting[n] \in JobIds /\ crediting'[n] = crediting[n] /\ replaced = {}
    BY <1>1 DEF MarketInv, MarketTypeOK
  <2>2. jobs[crediting[n]] # NoJob /\ HasResultOf(jobs[crediting[n]], n)
    BY <1>1, <2>1 DEF MarketInv, CreditsBacked
  <2>3. QED
    BY <1>8, <1>9, <1>16, <2>1, <2>2
<1>18. CreditEarned'
  <2> SUFFICES ASSUME NEW n \in ComputeNodes, records'[n].completed > 0, replaced' = {}
               PROVE  \E i \in JobIds : jobs'[i].status = "Completed" /\ HasResultOf(jobs'[i], n)
    BY DEF CreditEarned, HasResultOf
  <2>1. PICK i \in JobIds : jobs[i].status = "Completed" /\ HasResultOf(jobs[i], n)
    BY <1>1 DEF MarketInv, CreditEarned, HasResultOf
  <2>2. i # j
    BY <1>1, <2>1
  <2>3. QED
    BY <1>9, <2>1, <2>2
<1>19. QED
    BY <1>1, <1>9, <1>10, <1>11, <1>13, <1>14, <1>15, <1>17, <1>18 DEF MarketInv

\* submit_result, from a peer or by the agent: the verdict of a completed job stays,
\* and the worker has a result in the job that the agent will read back.
LEMMA ResultStep ==
    ASSUME MarketInv, NEW n \in ComputeNodes, NEW j \in JobIds, NEW h \in ResultHashes,
           submit_result(n, j, h),
           UNCHANGED crediting \/ crediting' = [crediting EXCEPT ![n] = j]
    PROVE  /\ MarketInv'
           /\ \A i \in JobIds : jobs[i].status = "Completed" => jobs'[i].status = "Completed"
<1> PICK job : job = jobs[j]
    OBVIOUS
<1> PICK r : r = [worker |-> n, hash |-> h]
    OBVIOUS
<1> PICK new : new = WithResult(job, r)
    OBVIOUS
<1>1. /\ job # NoJob /\ jobs' = [jobs EXCEPT ![j] = new]
      /\ UNCHANGED <<caps, bids, records, submission, bidding, replaced>>
    BY DEF submit_result
<1>2. r \in ResultRecords /\ r.worker = n
    BY DEF ResultRecords
<1>3. job \in JobRecords /\ Decided(job)
    BY <1>1, JobThere DEF MarketInv, VerdictsBacked
<1>4. /\ new \in JobRecords /\ Decided(new) /\ new.requirements = job.requirements
      /\ new.assigned_workers = job.assigned_workers /\ new.results = Append(job.results, r)
      /\ job.status = "Completed" => new.status = "Completed"
    BY <1>2, <1>3, ResultAdded
<1>5. new # NoJob
    BY <1>4, JobThere DEF MarketInv
<1>6. /\ jobs' \in [JobIds -> {NoJob} \cup JobRecords] /\ jobs'[j] = new
      /\ \A i \in JobIds \ {j} : jobs'[i] = jobs[i]
    BY <1>1, <1>4 DEF MarketInv, MarketTypeOK
<1>7. crediting' \in [ComputeNodes -> {"none"} \cup JobIds]
    BY DEF MarketInv, MarketTypeOK
<1>8. MarketTypeOK'
    BY <1>1, <1>6, <1>7 DEF MarketInv, MarketTypeOK
<1>9. AcceptedStored'
    BY <1>1, <1>5, <1>6, SubmissionsUntouched
<1>10. \A i \in JobIds : \A b : BidFits(i, b) => BidFits(i, b)'
    BY <1>1, <1>4, <1>5, <1>6 DEF BidFits, meets_requirements
<1>11. BidsFit'
  <2>1. \A m \in ComputeNodes : bidding'[m] # NoBid => BidFits(bidding[m].job, bidding[m])'
    <3> SUFFICES ASSUME NEW m \in ComputeNodes, bidding'[m] # NoBid
                 PROVE  BidFits(bidding[m].job, bidding[m])'
      OBVIOUS
    <3> PICK b : b = bidding[m]
      OBVIOUS
    <3>1. bidding'[m] = b /\ b.job \in JobIds /\ BidFits(b.job, b)
      BY <1>1 DEF MarketInv, BidsFit, MarketTypeOK, BidRecords
    <3>2. BidFits(b.job, b)'
      BY <1>10, <3>1
    <3>3. QED
      BY <3>1, <3>2 DEF BidFits
  <2>2. \A i \in JobIds : \A b \in ToSet(bids[i])' : BidFits(i, b)'
    BY <1>1, <1>10 DEF MarketInv, BidsFit
  <2>3. QED
    BY <2>1, <2>2 DEF BidsFit
<1>12. AssignedCapable'
  <2> SUFFICES ASSUME NEW i \in JobIds \ replaced', jobs'[i] # NoJob,
                      NEW m \in ToSet(jobs'[i].assigned_workers)
               PROVE  \E b \in ToSet(bids'[i]) :
                         /\ b.worker = m
                         /\ b.score >= jobs'[i].requirements.reputation
                         /\ meets_requirements(b.cap, jobs'[i].requirements)
    BY DEF AssignedCapable, meets_requirements
  <2>1. /\ jobs[i] # NoJob /\ bids' = bids /\ replaced' = replaced
        /\ jobs'[i].assigned_workers = jobs[i].assigned_workers
        /\ jobs'[i].requirements = jobs[i].requirements
    BY <1>1, <1>4, <1>6
  <2>2. QED
    BY <2>1 DEF MarketInv, AssignedCapable
<1>13. VerdictsBacked'
    BY <1>4, <1>6 DEF MarketInv, VerdictsBacked, Decided
<1>14. HasResultOf(new, n) /\ \A m : HasResultOf(job, m) => HasResultOf(new, m)
  <2> PICK results : results = job.results
    OBVIOUS
  <2> PICK more : more = new.results
    OBVIOUS
  <2>1. results \in Seq(ResultRecords)
    BY <1>3 DEF JobRecords
  <2>2. /\ DOMAIN results = 1..Len(results) /\ Len(results) \in Nat
        /\ DOMAIN more = 1..(Len(results) + 1) /\ more[Len(results) + 1] = r
        /\ \A i \in 1..Len(results) : more[i] = results[i]
    BY <1>2, <1>4, <2>1, AppendProperties
  <2>3. QED
    BY <1>2, <2>2 DEF HasResultOf
<1>15. \A i \in JobIds : \A m : HasResultOf(jobs[i], m) => HasResultOf(jobs'[i], m)
  <2> SUFFICES ASSUME NEW i \in JobIds, NEW m, HasResultOf(jobs[i], m) PROVE HasResultOf(jobs'[i], m)
    OBVIOUS
  <2>1. CASE i = j
    BY <1>6, <1>14, <2>1
  <2>2. CASE i # j
    BY <1>6, <2>2
  <2>3. QED
    BY <2>1, <2>2
<1>16. CreditsBacked'
  <2> SUFFICES ASSUME NEW m \in ComputeNodes, crediting'[m] # "none", replaced' = {}
               PROVE  jobs'[crediting'[m]] # NoJob /\ HasResultOf(jobs'[crediting'[m]], m)
    BY DEF CreditsBacked, HasResultOf
  <2>1. crediting'[m] = crediting[m] \/ (m = n /\ crediting'[m] = j)
    BY DEF MarketInv, MarketTypeOK
  <2>2. CASE m = n /\ crediting'[m] = j
    BY <1>5, <1>6, <1>14, <2>2
  <2>3. CASE crediting'[m] = crediting[m]
    <3>1. crediting[m] \in JobIds /\ replaced = {}
      BY <1>1, <2>3 DEF MarketInv, MarketTypeOK
    <3>2. jobs[crediting[m]] # NoJob /\ HasResultOf(jobs[crediting[m]], m)
      BY <2>3, <3>1 DEF MarketInv, CreditsBacked
    <3>3. QED
      BY <1>5, <1>6, <1>15, <2>3, <3>1, <3>2
  <2>4. QED
    BY <2>1, <2>2, <2>3
<1>17. \A i \in JobIds : jobs[i].status = "Completed" => jobs'[i].status = "Completed"
    BY <1>4, <1>6
<1>18. CreditEarned'
  <2> SUFFICES ASSUME NEW m \in ComputeNodes, records'[m].completed > 0, replaced' = {}
               PROVE  \E i \in JobIds : jobs'[i].status = "Completed" /\ HasResultOf(jobs'[i], m)
    BY DEF CreditEarned, HasResultOf
  <2>1. PICK i \in JobIds : jobs[i].status = "Completed" /\ HasResultOf(jobs[i], m)
    BY <1>1 DEF MarketInv, CreditEarned, HasResultOf
  <2>2. QED
    BY <1>15, <1>17, <2>1
<1>19. QED
    BY <1>8, <1>9, <1>11, <1>12, <1>13, <1>16, <1>17, <1>18 DEF MarketInv

\* recalculate touches the score alone and keeps it within its limits.
LEMMA ScoreBounded ==
    ASSUME NEW record \in ScoreRecords, NEW bonus \in Bonuses, record.completed + record.disputed > 0
    PROVE  /\ recalculate(record, bonus) \in ScoreRecords
           /\ recalculate(record, bonus).completed = record.completed
<1> PICK c \in Nat, d \in Nat : c = record.completed /\ d = record.disputed
    BY DEF ScoreRecords
<1>1. bonus \in Nat
    BY MarketAssumption
<1> PICK points : points = (50 * c) \div (c + d) + c \div 10 + bonus - 5 * d
    OBVIOUS
<1> PICK score : score = IF points < 0 THEN 0 ELSE IF points > 100 THEN 100 ELSE points
    OBVIOUS
<1>2. points \in Int
  <2>1. 50 * c \in Nat /\ c + d \in Nat /\ c + d > 0
    OBVIOUS
  <2>2. (50 * c) \div (c + d) \in Int
    BY <2>1
  <2>3. QED
    BY <1>1, <2>2
<1>3. score \in 0..100
  <2>1. CASE points < 0
    BY <2>1
  <2>2. CASE ~(points < 0) /\ points > 100
    BY <2>2
  <2>3. CASE ~(points < 0) /\ ~(points > 100)
    <3>1. score = points
      BY <2>3
    <3>2. \A p \in Int : ~(p < 0) /\ ~(p > 100) => p \in 0..100
      OBVIOUS
    <3>3. QED
      BY <1>2, <2>3, <3>1, <3>2
  <2>4. QED
    BY <2>1, <2>2, <2>3
<1>4. recalculate(record, bonus) = [record EXCEPT !.score = score]
    BY DEF recalculate
<1>5. QED
    BY <1>3, <1>4 DEF ScoreRecords

\* The agent credits the worker with what the job's verdict is when it reads it.
LEMMA CreditStep ==
    ASSUME MarketInv, NEW n \in ComputeNodes, Credit(n)
    PROVE  MarketInv'
<1> PICK j : j = crediting[n]
    OBVIOUS
<1> PICK rec : rec = records[n]
    OBVIOUS
<1>1. PICK bonus \in Bonuses :
        records' = [records EXCEPT ![n] =
           CASE jobs[j].status = "Completed" ->
                  recalculate([rec EXCEPT !.completed = @ + 1], bonus)
             [] jobs[j].status = "Disputed" ->
                  recalculate([rec EXCEPT !.disputed = @ + 1], bonus)
             [] OTHER -> rec]
    BY DEF Credit
<1>2. /\ j # "none" /\ crediting' = [crediting EXCEPT ![n] = "none"]
      /\ UNCHANGED <<caps, jobs, bids, completed_count, submission, bidding, replaced>>
    BY DEF Credit
<1>3. rec \in ScoreRecords /\ j \in JobIds
    BY <1>2 DEF MarketInv, MarketTypeOK
<1>4. PICK new \in ScoreRecords :
         /\ records' = [records EXCEPT ![n] = new]
         /\ new.completed = rec.completed \/ jobs[j].status = "Completed"
  <2>0. rec.completed \in Nat /\ rec.disputed \in Nat
    BY <1>3 DEF ScoreRecords
  <2>1. CASE jobs[j].status = "Completed"
    <3> DEFINE more == [rec EXCEPT !.completed = rec.completed + 1]
    <3>1. /\ more \in ScoreRecords /\ more.completed = rec.completed + 1
          /\ more.disputed = rec.disputed
      BY <1>3, <2>0 DEF ScoreRecords
    <3>2. more.completed + more.disputed > 0
      BY <2>0, <3>1
    <3> HIDE DEF more
    <3>3. recalculate(more, bonus) \in ScoreRecords
      BY <3>1, <3>2, ScoreBounded
    <3>4. records' = [records EXCEPT ![n] = recalculate(more, bonus)]
      BY <1>1, <2>1 DEF more
    <3>5. QED
      BY <2>1, <3>3, <3>4
  <2>2. CASE jobs[j].status = "Disputed"
    <3> DEFINE more == [rec EXCEPT !.disputed = rec.disputed + 1]
    <3>1. /\ more \in ScoreRecords /\ more.disputed = rec.disputed + 1
          /\ more.completed = rec.completed
      BY <1>3, <2>0 DEF ScoreRecords
    <3>2. more.completed + more.disputed > 0
      BY <2>0, <3>1
    <3> HIDE DEF more
    <3>3. /\ recalculate(more, bonus) \in ScoreRecords
          /\ recalculate(more, bonus).completed = rec.completed
      BY <3>1, <3>2, ScoreBounded
    <3>4. records' = [records EXCEPT ![n] = recalculate(more, bonus)]
      BY <1>1, <2>2 DEF more
    <3>5. QED
      BY <3>3, <3>4
  <2>3. CASE jobs[j].status # "Completed" /\ jobs[j].status # "Disputed"
    <3>1. records' = [records EXCEPT ![n] = rec]
      BY <1>1, <2>3
    <3>2. QED
      BY <1>3, <3>1
  <2>4. QED
    BY <2>1, <2>2, <2>3
<1>5. /\ records' \in [ComputeNodes -> ScoreRecords] /\ records'[n] = new
      /\ \A m \in ComputeNodes \ {n} : records'[m] = records[m]
    BY <1>4 DEF MarketInv, MarketTypeOK
<1>6. /\ crediting' \in [ComputeNodes -> {"none"} \cup JobIds] /\ crediting'[n] = "none"
      /\ \A m \in ComputeNodes \ {n} : crediting'[m] = crediting[m]
    BY <1>2 DEF MarketInv, MarketTypeOK
<1>7. MarketTypeOK'
    BY <1>2, <1>5, <1>6 DEF MarketInv, MarketTypeOK
<1>8. AcceptedStored'
    BY <1>2, SubmissionsUntouched
<1>9. BidsFit' /\ AssignedCapable'
    BY <1>2, BidsUntouched
<1>10. VerdictsBacked'
    BY <1>2 DEF MarketInv, VerdictsBacked, Decided
<1>11. CreditsBacked'
    BY <1>2, <1>6 DEF MarketInv, CreditsBacked, HasResultOf
<1>12. CreditEarned'
  <2> SUFFICES ASSUME NEW m \in ComputeNodes, records'[m].completed > 0, replaced' = {}
               PROVE  \E i \in JobIds : jobs'[i].status = "Completed" /\ HasResultOf(jobs'[i], m)
    BY DEF CreditEarned, HasResultOf
  <2>1. jobs' = jobs /\ replaced = {}
    BY <1>2
  <2>2. CASE records'[m].completed = records[m].completed
    BY <2>1, <2>2 DEF MarketInv, CreditEarned, HasResultOf
  <2>3. CASE m = n /\ jobs[j].status = "Completed"
    <3>1. HasResultOf(jobs[j], n)
      BY <1>2, <2>1 DEF MarketInv, CreditsBacked
    <3>2. QED
      BY <1>3, <2>1, <2>3, <3>1
  <2>4. QED
    BY <1>4, <1>5, <2>2, <2>3
<1>13. QED
    BY <1>7, <1>8, <1>9, <1>10, <1>11, <1>12 DEF MarketInv

LEMMA MarketStep ==
    ASSUME MarketInv, [MarketNext]_marketVars
    PROVE  /\ MarketInv'
           /\ \A j \in JobIds : jobs[j].status = "Completed" =>
                \/ jobs'[j].status = "Completed"
                \/ j \in replaced' /\ jobs'[j].results = <<>>
<1> DEFINE Final == \A j \in JobIds : jobs[j].status = "Completed" =>
                       \/ jobs'[j].status = "Completed"
                       \/ j \in replaced' /\ jobs'[j].results = <<>>
<1>0. ASSUME UNCHANGED jobs PROVE Final
    BY <1>0
<1>1. ASSUME NEW n \in ComputeNodes, NEW cap \in Capabilities, register_capability(n, cap)
      PROVE  MarketInv' /\ Final
  <2>1. /\ caps' = [caps EXCEPT ![n] = cap]
        /\ UNCHANGED <<jobs, bids, completed_count, records, submission, bidding, crediting, replaced>>
    BY <1>1 DEF register_capability
  <2>2. MarketTypeOK'
    BY <2>1 DEF MarketInv, MarketTypeOK
  <2>3. QED
    BY <1>0, <2>1, <2>2, BidsUntouched, CreditsUntouched, SubmissionsUntouched DEF MarketInv
<1>2. ASSUME NEW s \in Submitters, NEW j \in JobIds, NEW r \in Requirements, LookUpJob(s, j, r)
      PROVE  MarketInv' /\ Final
    BY <1>0, <1>2, LookUpStep DEF LookUpJob
<1>3. ASSUME NEW s \in Submitters, InsertJob(s)
      PROVE  MarketInv' /\ Final
  <2>1. /\ MarketInv'
        /\ \A i \in JobIds : jobs'[i] = jobs[i] \/ jobs[i] = NoJob
                               \/ (i \in replaced' /\ jobs'[i].results = <<>>)
    BY <1>3, InsertStep
  <2>2. NoJob.status # "Completed"
    BY DEF NoJob
  <2>3. QED
    BY <2>1, <2>2
<1>4. ASSUME NEW n \in ComputeNodes, NEW j \in JobIds, NEW price \in Prices,
             compute_submit_bid(n, j, price) \/ JobClaim(n, j, price)
      PROVE  MarketInv' /\ Final
  <2>1. PICK score : score \in Nat /\ CheckBid(n, j, price, score)
    <3>1. ClaimedScores \subseteq Nat
      BY MarketAssumption
    <3>2. get_score(n) \in Nat
      <4>1. get_score(n) \in 0..100
        BY DEF get_score, MarketInv, MarketTypeOK, ScoreRecords
      <4>2. QED
        BY <4>1
    <3>3. QED
      BY <1>4, <3>1, <3>2 DEF compute_submit_bid, JobClaim
  <2>2. UNCHANGED jobs
    BY <2>1 DEF CheckBid
  <2>3. QED
    BY <1>0, <2>1, <2>2, CheckStep
<1>5. ASSUME NEW n \in ComputeNodes, PushBid(n)
      PROVE  MarketInv' /\ Final
    BY <1>0, <1>5, PushStep DEF PushBid
<1>6. ASSUME NEW j \in JobIds, assign_workers(j)
      PROVE  MarketInv' /\ Final
    BY <1>6, AssignStep
<1>7. ASSUME NEW n \in ComputeNodes, NEW j \in JobIds, NEW h \in ResultHashes,
             JobResultMsg(n, j, h) \/ AgentSubmitResult(n, j, h)
      PROVE  MarketInv' /\ Final
    BY <1>7, ResultStep DEF JobResultMsg, AgentSubmitResult
<1>8. ASSUME NEW n \in ComputeNodes, Credit(n)
      PROVE  MarketInv' /\ Final
    BY <1>0, <1>8, CreditStep DEF Credit
<1>9. ASSUME UNCHANGED marketVars PROVE MarketInv' /\ Final
  <2>1. MarketTypeOK'
    BY <1>9 DEF marketVars, MarketInv, MarketTypeOK
  <2>2. QED
    BY <1>0, <1>9, <2>1, BidsUntouched, CreditsUntouched, SubmissionsUntouched DEF MarketInv, marketVars
<1> HIDE DEF Final
<1>10. MarketInv' /\ Final
    BY <1>1, <1>2, <1>3, <1>4, <1>5, <1>6, <1>7, <1>8, <1>9 DEF MarketNext
<1>11. QED
    BY <1>10 DEF Final

\* The marketplace's inductive invariant: a bid fits the job it names although it was
\* checked earlier, a verdict is backed by results, a credit by a result.
THEOREM MarketInvariance == MarketSpec => []MarketInv
<1>1. MarketInit => MarketInv
    BY MarketInitInv
<1>2. MarketInv /\ [MarketNext]_marketVars => MarketInv'
    BY MarketStep
<1>3. QED
    BY <1>1, <1>2, PTL DEF MarketSpec

\* For any number of workers, jobs and submitters: a job is replaced only by a
\* submission that raced with its own, and any other goes to workers that offered to
\* do it and meet its requirements.
THEOREM JobsAlwaysHonoured == MarketSpec => []JobsHonoured
<1>1. MarketInv => JobsHonoured
  <2> SUFFICES ASSUME MarketInv PROVE JobsHonoured
    OBVIOUS
  <2>1. \A t \in Submitters : submission[t].after = {}
    BY DEF MarketInv, MarketTypeOK, SubmissionRecords
  <2>2. QED
    BY <2>1 DEF JobsHonoured, SubmissionsOverlap, MarketInv
<1>2. QED
    BY <1>1, MarketInvariance, PTL

\* No later result, bid or assignment takes back the verdict of a completed job; only
\* a racing submission puts a fresh job in its place.
THEOREM CompletionAlwaysFinal == MarketSpec => CompletionFinal
<1>1. MarketInv /\ [MarketNext]_marketVars =>
         [\A j \in JobIds : jobs[j].status = "Completed" =>
            \/ jobs'[j].status = "Completed"
            \/ j \in replaced' /\ jobs'[j].results = <<>>]_marketVars
    BY MarketStep
<1>2. QED
    BY <1>1, MarketInvariance, PTL DEF MarketSpec, CompletionFinal

\* A success that the reputation oracle counts was earned by a result in a completed
\* job, although the agent reads the verdict after it has released the lock.
THEOREM CreditAlwaysEarned == MarketSpec => []CreditEarned
<1>1. MarketInv => CreditEarned
    BY DEF MarketInv
<1>2. QED
    BY <1>1, MarketInvariance, PTL


-----------------------------------------------------------------------------
(* The model registry.  A task that reads a model's entry stage by stage holds  *)
(* a read guard of its shard, and one that counts holds the write guard alone;  *)
(* an entry is replaced only when nobody holds either, so that what a task has  *)
(* copied of the entry stays what the entry says.                               *)

RegistryNodes == StageNodes \cup {"none"}

StageEntry == [node_address : RegistryNodes, loaded : BOOLEAN]

\* What a task that is not idle keeps, by its operation.
RegistryTask ==
    {Idle}
    \cup [op : {"register"}, model : ModelIds, count : StageCounts]
    \cup [op : {"claim"}, model : ModelIds, stage : StageIndexes, assignment : StageEntry]
    \cup [op : {"update"}, model : ModelIds, holds : BOOLEAN]
    \cup [op : {"count"}, model : ModelIds, next : Nat, ready : Nat, holds : BOOLEAN]
    \cup [op : {"scan"}, model : ModelIds, route : Seq(RegistryNodes), count : Nat]

\* The registry's state has its type.
RegistryTypeOK ==
    /\ models \in [ModelIds -> [pipeline_stages : StageCounts \cup {0},
                                status : {"none", "Registered", "PartiallyServed", "FullyServed"}]]
    /\ stages \in [ModelIds -> [StageIndexes -> StageEntry]]
    /\ task \in [Tasks -> RegistryTask]
    /\ readers \in [Shards -> SUBSET Tasks]
    /\ writer \in [Shards -> SUBSET Tasks]

\* A scan and a claim hold a read guard, a count the only guard of its shard.
GuardsHeld ==
    \A t \in Tasks :
        /\ task[t].op = "scan" => t \in readers[ShardOf[task[t].model]]
        /\ task[t].op = "claim" => t \in readers[ShardOf[task[t].model]]
        /\ task[t].op = "count" => /\ writer[ShardOf[task[t].model]] = {t}
                                   /\ readers[ShardOf[task[t].model]] = {}

\* What a scan or a count knows of the model is what its entry says.
EntryUnmoved ==
    \A t \in Tasks :
        /\ task[t].op = "scan" =>
             /\ task[t].count = models[task[t].model].pipeline_stages
             /\ Len(task[t].route) <= task[t].count
        /\ task[t].op = "count" => task[t].next <= models[task[t].model].pipeline_stages

RegistryInv == RegistryTypeOK /\ GuardsHeld /\ EntryUnmoved /\ RouteCoversModel

\* Every stage of a registered model has a place in the stage table.
LEMMA StageIndexed ==
    ASSUME NEW n \in StageCounts \cup {0}, NEW i \in Nat, i < n
    PROVE  i \in StageIndexes
<1>1. n \in StageCounts /\ StageCounts # {} /\ n \in Nat
    BY RegistryAssumption
<1>2. PICK k \in StageCounts : \A j \in StageCounts : j <= k
    BY <1>1, RegistryAssumption
<1>3. \A j \in StageCounts : j <= (CHOOSE a \in StageCounts : \A b \in StageCounts : b <= a)
    BY <1>2
<1> DEFINE top == CHOOSE a \in StageCounts : \A b \in StageCounts : b <= a
<1>4. top \in StageCounts /\ top \in Nat /\ n <= top
    BY <1>1, <1>2, <1>3, RegistryAssumption
<1>5. StageIndexes = 0..top
    BY <1>1 DEF StageIndexes
<1> HIDE DEF top
<1>6. QED
    BY <1>1, <1>4, <1>5

LEMMA RegistryInitInv == RegistryInit => RegistryInv
<1> SUFFICES ASSUME RegistryInit PROVE RegistryInv
    OBVIOUS
<1>1. NoStage \in StageEntry
    BY DEF NoStage, StageEntry, RegistryNodes
<1>2. Idle \in RegistryTask /\ Idle.op = "idle"
    BY DEF RegistryTask, Idle
<1>3. RegistryTypeOK
    BY <1>1, <1>2 DEF RegistryInit, RegistryTypeOK, NoModel
<1>4. GuardsHeld /\ EntryUnmoved /\ RouteCoversModel
    BY <1>2 DEF RegistryInit, GuardsHeld, EntryUnmoved, RouteCoversModel
<1>5. QED
    BY <1>3, <1>4 DEF RegistryInv

\* What a task in each operation keeps, field by field.
LEMMA TaskFields ==
    ASSUME NEW r \in RegistryTask
    PROVE  /\ r.op = "register" => r.model \in ModelIds /\ r.count \in StageCounts
           /\ r.op = "claim" => /\ r.model \in ModelIds /\ r.stage \in StageIndexes
                                /\ r.assignment \in StageEntry
           /\ r.op = "update" => r.model \in ModelIds /\ r.holds \in BOOLEAN
           /\ r.op = "count" => /\ r \in [op : {"count"}, model : ModelIds, next : Nat,
                                          ready : Nat, holds : BOOLEAN]
           /\ r.op = "scan" => r \in [op : {"scan"}, model : ModelIds,
                                      route : Seq(RegistryNodes), count : Nat]
<1>1. Idle.op = "idle"
    BY DEF Idle
<1>2. QED
    BY <1>1 DEF RegistryTask

\* A task that goes on in the same shard or ends: the other tasks, and the
\* guards of the other tasks, stay.
LEMMA RegistryStep ==
    ASSUME RegistryInv, [RegistryNext]_registryVars
    PROVE  RegistryInv'
<1> USE DEF RegistryInv
<1>idle. Idle \in RegistryTask /\ Idle.op = "idle"
    BY DEF RegistryTask, Idle
<1>shard. \A m \in ModelIds : ShardOf[m] \in Shards
    BY DEF Shards
<1>nat. \A m \in ModelIds : models[m].pipeline_stages \in Nat
  <2>1. StageCounts \cup {0} \subseteq Nat
    BY RegistryAssumption
  <2>2. QED
    BY <2>1 DEF RegistryTypeOK
<1>load. ASSUME NEW m \in ModelIds, NEW i \in StageIndexes, NEW l \in BOOLEAN,
               stages' = [stages EXCEPT ![m][i].loaded = l]
        PROVE  stages' \in [ModelIds -> [StageIndexes -> StageEntry]]
  <2>1. stages[m][i] \in StageEntry
    BY DEF RegistryTypeOK
  <2> PICK e : e = [stages[m][i] EXCEPT !.loaded = l]
    OBVIOUS
  <2>2. e \in StageEntry
    BY <2>1 DEF StageEntry
  <2>3. stages' = [stages EXCEPT ![m] = [stages[m] EXCEPT ![i] = e]]
    BY <1>load
  <2>4. QED
    BY <2>2, <2>3 DEF RegistryTypeOK
<1>1. CASE UNCHANGED registryVars
    BY <1>1 DEF registryVars, RegistryTypeOK, GuardsHeld, EntryUnmoved, RouteCoversModel
<1>2. ASSUME NEW t \in Tasks, NEW m \in ModelIds, NEW n \in StageCounts,
             BeginRegister(t, m, n)
      PROVE  RegistryInv'
  <2> DEFINE new == [op |-> "register", model |-> m, count |-> n]
  <2>1. new \in RegistryTask /\ new.op = "register"
    BY DEF RegistryTask
  <2> HIDE DEF new
  <2>2. task' = [task EXCEPT ![t] = new]
    BY <1>2 DEF BeginRegister, new
  <2>3. RegistryTypeOK'
    BY <1>2, <2>1, <2>2 DEF BeginRegister, RegistryTypeOK
  <2>4. GuardsHeld' /\ EntryUnmoved' /\ RouteCoversModel'
    BY ZenonT(60), <1>2, <2>1, <2>2 DEF BeginRegister, RegistryTypeOK, GuardsHeld, EntryUnmoved, RouteCoversModel
  <2>5. QED
    BY <2>3, <2>4
<1>3. ASSUME NEW t \in Tasks, InsertModel(t)
      PROVE  RegistryInv'
  <2> DEFINE m == task[t].model
  <2>1. m \in ModelIds /\ task[t].count \in StageCounts
    BY <1>3, TaskFields DEF InsertModel, RegistryTypeOK
  <2>2. RegistryTypeOK'
    BY <1>3, <2>1, <1>idle DEF InsertModel, RegistryTypeOK
  <2>3. writer[ShardOf[m]] = {} /\ readers[ShardOf[m]] = {}
    BY <1>3 DEF InsertModel, MayWrite
  <2>4. \A u \in Tasks : task[u].op \in {"scan", "count"} => task[u].model # m
    BY <2>3 DEF GuardsHeld
  <2>5. \A a \in ModelIds \ {m} : models'[a] = models[a]
    BY <1>3, <2>1 DEF InsertModel, RegistryTypeOK
  <2>6. GuardsHeld' /\ RouteCoversModel'
    BY <1>3, <1>idle DEF InsertModel, RegistryTypeOK, GuardsHeld, RouteCoversModel
  <2>7. \A u \in Tasks : task'[u].op \in {"scan", "count"} =>
           task'[u] = task[u] /\ u # t /\ task[u].model \in ModelIds
    BY <1>3, <1>idle, TaskFields DEF InsertModel, RegistryTypeOK
  <2>8. EntryUnmoved'
    BY <2>4, <2>5, <2>7 DEF EntryUnmoved
  <2>9. QED
    BY <2>2, <2>6, <2>8
<1>4. ASSUME NEW t \in Tasks, NEW m \in ModelIds, NEW i \in StageIndexes, NEW n \in StageNodes,
             NEW l \in BOOLEAN, BeginClaim(t, m, i, n, l)
      PROVE  RegistryInv'
  <2> DEFINE new == [op |-> "claim", model |-> m, stage |-> i,
                     assignment |-> [node_address |-> n, loaded |-> l]]
  <2>1. new \in RegistryTask /\ new.op = "claim" /\ new.model = m
    BY DEF RegistryTask, StageEntry, RegistryNodes
  <2> HIDE DEF new
  <2>2. /\ task' = [task EXCEPT ![t] = new]
        /\ readers' = [readers EXCEPT ![ShardOf[m]] = @ \cup {t}]
        /\ writer[ShardOf[m]] = {} /\ task[t].op = "idle"
        /\ UNCHANGED <<models, stages, writer, answers>>
    BY <1>4, <1>idle DEF BeginClaim, TakeRead, MayRead, new
  <2>3. RegistryTypeOK'
    BY <2>1, <2>2, <1>shard DEF RegistryTypeOK
  <2>4. GuardsHeld'
    <3> SUFFICES ASSUME NEW u \in Tasks
                 PROVE  /\ task'[u].op \in {"scan", "claim"} => u \in readers'[ShardOf[task'[u].model]]
                        /\ task'[u].op = "count" => /\ writer'[ShardOf[task'[u].model]] = {u}
                                                    /\ readers'[ShardOf[task'[u].model]] = {}
      BY DEF GuardsHeld
    <3>1. CASE u = t
      BY <3>1, <2>1, <2>2, <1>shard DEF RegistryTypeOK
    <3>2. CASE u # t
      <4>1. task'[u] = task[u]
        BY <3>2, <2>2 DEF RegistryTypeOK
      <4>2. task[u].op \in {"scan", "claim", "count"} => task[u].model \in ModelIds
        BY TaskFields DEF RegistryTypeOK
      <4>3. task[u].op = "count" => ShardOf[task[u].model] # ShardOf[m]
        BY <2>2 DEF GuardsHeld
      <4>4. QED
        BY <4>1, <4>2, <4>3, <2>2, <1>shard DEF GuardsHeld, RegistryTypeOK
    <3>3. QED
      BY <3>1, <3>2
  <2>5. EntryUnmoved' /\ RouteCoversModel'
    BY <2>1, <2>2 DEF RegistryTypeOK, EntryUnmoved, RouteCoversModel
  <2>6. QED
    BY <2>3, <2>4, <2>5
<1>5. ASSUME NEW t \in Tasks, InsertStage(t)
      PROVE  RegistryInv'
  <2>1. /\ task[t].model \in ModelIds /\ task[t].stage \in StageIndexes
        /\ task[t].assignment \in StageEntry
    BY <1>5, TaskFields DEF InsertStage, RegistryTypeOK
  <2> DEFINE new == [op |-> "update", model |-> task[t].model, holds |-> TRUE]
  <2>2. new \in RegistryTask /\ new.op = "update"
    BY <2>1 DEF RegistryTask
  <2>3. task' = [task EXCEPT ![t] = new]
    BY <1>5 DEF InsertStage
  <2> HIDE DEF new
  <2>4. stages' \in [ModelIds -> [StageIndexes -> StageEntry]]
    BY <1>5, <2>1 DEF InsertStage, RegistryTypeOK
  <2>5. RegistryTypeOK'
    BY ZenonT(60), <1>5, <2>2, <2>3, <2>4 DEF InsertStage, RegistryTypeOK
  <2>6. GuardsHeld' /\ EntryUnmoved' /\ RouteCoversModel'
    <3>1. UNCHANGED <<models, readers, writer, answers>>
      BY <1>5 DEF InsertStage
    <3>2. QED
      BY <2>2, <2>3, <3>1 DEF RegistryTypeOK, GuardsHeld, EntryUnmoved, RouteCoversModel
  <2>7. QED
    BY <2>5, <2>6
<1>6. ASSUME NEW t \in Tasks, NEW m \in ModelIds, NEW i \in StageIndexes, mark_stage_ready(t, m, i)
      PROVE  RegistryInv'
  <2> DEFINE new == [op |-> "update", model |-> m, holds |-> FALSE]
  <2>2. new \in RegistryTask /\ new.op = "update"
    BY DEF RegistryTask
  <2>3. task' = [task EXCEPT ![t] = new]
    BY <1>6 DEF mark_stage_ready
  <2> HIDE DEF new
  <2>4. stages' \in [ModelIds -> [StageIndexes -> StageEntry]]
    BY <1>6, <1>load DEF mark_stage_ready, RegistryTypeOK
  <2>5. RegistryTypeOK'
    BY ZenonT(60), <1>6, <2>2, <2>3, <2>4 DEF mark_stage_ready, RegistryTypeOK
  <2>6. GuardsHeld' /\ EntryUnmoved' /\ RouteCoversModel'
    BY <1>6, <2>2, <2>3 DEF mark_stage_ready, RegistryTypeOK, GuardsHeld, EntryUnmoved, RouteCoversModel
  <2>7. QED
    BY <2>5, <2>6
<1>7. ASSUME NEW t \in Tasks, LockForUpdate(t)
      PROVE  RegistryInv'
  <2> DEFINE m == task[t].model
             s == ShardOf[m]
  <2>1. m \in ModelIds /\ task[t].holds \in BOOLEAN /\ s \in Shards
    BY <1>7, <1>shard, TaskFields DEF LockForUpdate, RegistryTypeOK
  <2>2. writer[s] = {} /\ readers[s] = {} /\ UNCHANGED <<models, stages, readers, answers>>
    BY <1>7 DEF LockForUpdate, MayWrite
  <2>3. CASE models[m] = NoModel
    <3>1. task' = [task EXCEPT ![t] = Idle] /\ UNCHANGED writer
      BY <1>7, <2>3 DEF LockForUpdate
    <3>2. QED
      BY <1>idle, <2>2, <3>1 DEF RegistryTypeOK, GuardsHeld, EntryUnmoved, RouteCoversModel
  <2>4. CASE models[m] # NoModel
    <3> DEFINE new == [op |-> "count", model |-> m, next |-> 0, ready |-> 0, holds |-> task[t].holds]
    <3>1. new \in RegistryTask /\ new.op = "count" /\ new.model = m /\ new.next = 0
      BY <2>1 DEF RegistryTask
    <3>2. writer' = [writer EXCEPT ![s] = {t}] /\ task' = [task EXCEPT ![t] = new]
      BY <1>7, <2>4 DEF LockForUpdate
    <3> HIDE DEF new
    <3>3. RegistryTypeOK'
      BY <2>1, <2>2, <3>1, <3>2 DEF RegistryTypeOK
    <3>4. \A u \in Tasks : task[u].op \in {"scan", "claim", "count"} =>
             ShardOf[task[u].model] # s /\ task[u].model \in ModelIds
      BY <2>2, TaskFields DEF GuardsHeld, RegistryTypeOK
    <3>5. GuardsHeld'
      <4> SUFFICES ASSUME NEW u \in Tasks
                   PROVE  /\ task'[u].op \in {"scan", "claim"} => u \in readers'[ShardOf[task'[u].model]]
                          /\ task'[u].op = "count" => /\ writer'[ShardOf[task'[u].model]] = {u}
                                                      /\ readers'[ShardOf[task'[u].model]] = {}
        BY DEF GuardsHeld
      <4>1. CASE u = t
        BY <4>1, <2>1, <2>2, <3>1, <3>2 DEF RegistryTypeOK
      <4>2. CASE u # t
        <5>1. task'[u] = task[u]
          BY <4>2, <3>2 DEF RegistryTypeOK
        <5>2. QED
          BY <5>1, <2>1, <2>2, <3>2, <3>4, <1>shard DEF GuardsHeld, RegistryTypeOK
      <4>3. QED
        BY <4>1, <4>2
    <3>6. models[m].pipeline_stages \in Nat
      BY <2>1, <1>nat
    <3>7. EntryUnmoved' /\ RouteCoversModel'
      BY <2>2, <3>1, <3>2, <3>6 DEF RegistryTypeOK, EntryUnmoved, RouteCoversModel
    <3>8. QED
      BY <3>3, <3>5, <3>7
  <2>5. QED
    BY <2>3, <2>4
<1>8. ASSUME NEW t \in Tasks, CountStage(t)
      PROVE  RegistryInv'
  <2> PICK r : r = task[t]
    OBVIOUS
  <2>1. r \in [op : {"count"}, model : ModelIds, next : Nat, ready : Nat, holds : BOOLEAN]
    BY <1>8, TaskFields DEF CountStage, RegistryTypeOK
  <2>2. r.next < models[r.model].pipeline_stages /\ UNCHANGED <<models, stages, readers, writer, answers>>
    BY <1>8 DEF CountStage
  <2>3. PICK gain \in Nat : task' = [task EXCEPT ![t].next = @ + 1, ![t].ready = @ + gain]
    <3> DEFINE more == IF stages[task[t].model][task[t].next].loaded THEN 1 ELSE 0
    <3>1. more \in Nat
      OBVIOUS
    <3>2. task' = [task EXCEPT ![t].next = @ + 1, ![t].ready = @ + more]
      BY <1>8 DEF CountStage
    <3> HIDE DEF more
    <3>3. QED
      BY <3>1, <3>2
  <2> PICK next, ready : next = r.next + 1 /\ ready = r.ready + gain
    OBVIOUS
  <2> DEFINE new == [[r EXCEPT !.next = next] EXCEPT !.ready = ready]
  <2>4. /\ new \in [op : {"count"}, model : ModelIds, next : Nat, ready : Nat, holds : BOOLEAN]
        /\ new.op = "count" /\ new.model = r.model /\ new.next = r.next + 1
    <3>1. next \in Nat /\ ready \in Nat
      BY <2>1
    <3>2. QED
      BY <2>1, <3>1
  <2>5. task' = [task EXCEPT ![t] = new] /\ new \in RegistryTask
    <3>1. r.ready = [r EXCEPT !.next = next].ready
      BY <2>1
    <3>2. task' = [task EXCEPT ![t] = new]
      BY <2>3, <3>1 DEF RegistryTypeOK
    <3>3. QED
      BY <2>4, <3>2 DEF RegistryTask
  <2> HIDE DEF new
  <2>6. RegistryTypeOK'
    BY <2>2, <2>4, <2>5 DEF RegistryTypeOK
  <2>7. r.op = "count" /\ r.model \in ModelIds /\ r.next \in Nat
    BY <2>1
  <2>8. models[r.model].pipeline_stages \in Nat
    BY <2>7, <1>nat
  <2>9. GuardsHeld'
    BY <2>2, <2>4, <2>5, <2>7 DEF RegistryTypeOK, GuardsHeld
  <2>10. EntryUnmoved' /\ RouteCoversModel'
    BY <2>2, <2>4, <2>5, <2>7, <2>8 DEF RegistryTypeOK, EntryUnmoved, RouteCoversModel
  <2>11. QED
    BY <2>6, <2>9, <2>10
<1>9. ASSUME NEW t \in Tasks, SetStatus(t)
      PROVE  RegistryInv'
  <2> PICK m : m = task[t].model
    OBVIOUS
  <2>1. m \in ModelIds /\ ShardOf[m] \in Shards /\ task[t].op = "count"
    BY <1>9, <1>shard, TaskFields DEF SetStatus, RegistryTypeOK
  <2>2. /\ writer' = [writer EXCEPT ![ShardOf[m]] = @ \ {t}]
        /\ readers' = [readers EXCEPT ![ShardOf[m]] = @ \ {t}]
        /\ task' = [task EXCEPT ![t] = Idle]
        /\ UNCHANGED <<stages, answers>>
    BY <1>9 DEF SetStatus, LeaveRead
  <2>3. PICK status \in {"Registered", "PartiallyServed", "FullyServed"} :
           models' = [models EXCEPT ![m].status = status]
    BY <1>9 DEF SetStatus
  <2>4. RegistryTypeOK'
    <3>1. models' \in [ModelIds -> [pipeline_stages : StageCounts \cup {0},
                         status : {"none", "Registered", "PartiallyServed", "FullyServed"}]]
      BY <2>1, <2>3 DEF RegistryTypeOK
    <3>2. task' \in [Tasks -> RegistryTask] /\ stages' = stages
      BY <2>2, <1>idle DEF RegistryTypeOK
    <3>3. readers' \in [Shards -> SUBSET Tasks] /\ writer' \in [Shards -> SUBSET Tasks]
      BY <2>1, <2>2 DEF RegistryTypeOK
    <3>4. QED
      BY <3>1, <3>2, <3>3 DEF RegistryTypeOK
  <2>5. \A a \in ModelIds : models'[a].pipeline_stages = models[a].pipeline_stages
    BY <2>1, <2>3 DEF RegistryTypeOK
  <2>6. writer[ShardOf[m]] = {t} /\ readers[ShardOf[m]] = {}
    BY <2>1 DEF GuardsHeld
  <2>7. ASSUME NEW u \in Tasks, task'[u].op \in {"scan", "claim", "count"}
        PROVE  /\ task'[u] = task[u] /\ task[u].model \in ModelIds
               /\ ShardOf[task[u].model] # ShardOf[m]
    <3>1. u # t /\ task'[u] = task[u]
      BY <2>2, <2>7, <1>idle DEF RegistryTypeOK
    <3>2. QED
      BY <3>1, <2>6, <2>7, TaskFields DEF GuardsHeld, RegistryTypeOK
  <2>8. GuardsHeld'
    BY ZenonT(60), <2>1, <2>2, <2>7, <1>shard DEF GuardsHeld, RegistryTypeOK
  <2>9. EntryUnmoved'
    BY <2>5, <2>7 DEF EntryUnmoved
  <2>10. RouteCoversModel'
    BY <2>2 DEF RouteCoversModel
  <2>11. QED
    BY <2>4, <2>8, <2>9, <2>10
<1>10. ASSUME NEW m \in ModelIds, NEW i \in StageIndexes, NEW l \in BOOLEAN, record_heartbeat(m, i, l)
       PROVE  RegistryInv'
  <2>1. stages' \in [ModelIds -> [StageIndexes -> StageEntry]]
    BY <1>10, <1>load DEF record_heartbeat
  <2>2. QED
    BY <1>10, <2>1 DEF record_heartbeat, RegistryTypeOK, GuardsHeld, EntryUnmoved, RouteCoversModel
<1>11. ASSUME NEW t \in Tasks, NEW m \in ModelIds, BeginScan(t, m)
       PROVE  RegistryInv'
  <2> PICK n : n = models[m].pipeline_stages
    OBVIOUS
  <2> DEFINE new == [op |-> "scan", model |-> m, route |-> <<>>, count |-> n]
  <2>0. n \in Nat
    BY RegistryAssumption DEF RegistryTypeOK
  <2>1. new \in RegistryTask
    BY <2>0 DEF RegistryTask
  <2>a. new.op = "scan" /\ new.model = m /\ new.count = n /\ Len(new.route) = 0
    OBVIOUS
  <2>2. /\ task' = [task EXCEPT ![t] = new]
        /\ readers' = [readers EXCEPT ![ShardOf[m]] = @ \cup {t}]
        /\ writer[ShardOf[m]] = {} /\ task[t].op = "idle"
        /\ UNCHANGED <<models, stages, writer, answers>>
    BY <1>11, <1>idle DEF BeginScan, TakeRead, MayRead
  <2> HIDE DEF new
  <2>3. RegistryTypeOK'
    BY <2>1, <2>2, <1>shard DEF RegistryTypeOK
  <2>4. GuardsHeld'
    <3> SUFFICES ASSUME NEW u \in Tasks
                 PROVE  /\ task'[u].op \in {"scan", "claim"} => u \in readers'[ShardOf[task'[u].model]]
                        /\ task'[u].op = "count" => /\ writer'[ShardOf[task'[u].model]] = {u}
                                                    /\ readers'[ShardOf[task'[u].model]] = {}
      BY DEF GuardsHeld
    <3>1. CASE u = t
      BY <3>1, <2>a, <2>2, <1>shard DEF RegistryTypeOK
    <3>2. CASE u # t
      <4>1. task'[u] = task[u]
        BY <3>2, <2>2 DEF RegistryTypeOK
      <4>2. task[u].op \in {"scan", "claim", "count"} => task[u].model \in ModelIds
        BY TaskFields DEF RegistryTypeOK
      <4>3. task[u].op = "count" => ShardOf[task[u].model] # ShardOf[m]
        BY <2>2 DEF GuardsHeld
      <4>4. QED
        BY <4>1, <4>2, <4>3, <2>2, <1>shard DEF GuardsHeld, RegistryTypeOK
    <3>3. QED
      BY <3>1, <3>2
  <2>5. EntryUnmoved' /\ RouteCoversModel'
    BY <2>0, <2>a, <2>2 DEF RegistryTypeOK, EntryUnmoved, RouteCoversModel
  <2>6. QED
    BY <2>3, <2>4, <2>5
<1>12. ASSUME NEW t \in Tasks, task[t].op = "scan",
              task' = [task EXCEPT ![t] = Idle],
              readers' = [readers EXCEPT ![ShardOf[task[t].model]] = @ \ {t}],
              UNCHANGED <<models, stages, writer>>, RouteCoversModel'
       PROVE  RegistryInv'
  <2> PICK s : s = ShardOf[task[t].model]
    OBVIOUS
  <2>1. s \in Shards
    BY <1>12, <1>shard, TaskFields DEF RegistryTypeOK
  <2>2. RegistryTypeOK'
    BY <1>12, <2>1, <1>idle DEF RegistryTypeOK
  <2>3. ASSUME NEW u \in Tasks, task'[u].op \in {"scan", "claim", "count"}
        PROVE  u # t /\ task'[u] = task[u] /\ task[u].model \in ModelIds
    <3>1. u # t /\ task'[u] = task[u]
      BY <1>12, <2>3, <1>idle DEF RegistryTypeOK
    <3>2. QED
      BY <3>1, <2>3, TaskFields DEF RegistryTypeOK
  <2>4. GuardsHeld'
    BY ZenonT(60), <1>12, <2>1, <2>3, <1>shard DEF GuardsHeld, RegistryTypeOK
  <2>5. EntryUnmoved'
    BY <1>12, <2>3 DEF EntryUnmoved
  <2>6. QED
    BY <1>12, <2>2, <2>4, <2>5
<1>13. ASSUME NEW t \in Tasks, ScanStage(t)
       PROVE  RegistryInv'
  <2> PICK r : r = task[t]
    OBVIOUS
  <2> PICK s : s = stages[r.model][Len(r.route)]
    OBVIOUS
  <2>1. /\ r \in [op : {"scan"}, model : ModelIds, route : Seq(RegistryNodes), count : Nat]
        /\ Len(r.route) < r.count /\ UNCHANGED <<models, stages, writer, answers>>
    BY <1>13, TaskFields DEF ScanStage, RegistryTypeOK
  <2>2. /\ r.op = "scan" /\ r.model \in ModelIds /\ r.route \in Seq(RegistryNodes)
        /\ r.count \in Nat /\ Len(r.route) \in Nat
    BY <2>1
  <2>3. r.count = models[r.model].pipeline_stages /\ r.count \in StageCounts \cup {0}
    BY <2>2 DEF EntryUnmoved, RegistryTypeOK
  <2>4. Len(r.route) \in StageIndexes
    BY <2>1, <2>2, <2>3, StageIndexed
  <2>5. s \in StageEntry /\ s.node_address \in RegistryNodes
    BY <2>2, <2>4 DEF RegistryTypeOK, StageEntry
  <2>6. CASE s.loaded
    <3> PICK longer : longer = Append(r.route, s.node_address)
      OBVIOUS
    <3>1. longer \in Seq(RegistryNodes) /\ Len(longer) = Len(r.route) + 1
      BY <2>2, <2>5
    <3> DEFINE new == [r EXCEPT !.route = longer]
    <3>2. /\ new.op = "scan" /\ new.model = r.model /\ new.count = r.count
          /\ Len(new.route) = Len(r.route) + 1
      BY <2>1, <3>1
    <3>3. new \in RegistryTask
      <4>1. new \in [op : {"scan"}, model : ModelIds, route : Seq(RegistryNodes), count : Nat]
        BY <2>1, <3>1
      <4>2. QED
        BY <4>1 DEF RegistryTask
    <3>4. task' = [task EXCEPT ![t] = new] /\ UNCHANGED readers
      BY <1>13, <2>6 DEF ScanStage, RegistryTypeOK
    <3> HIDE DEF new
    <3>5. RegistryTypeOK'
      BY <2>1, <3>3, <3>4 DEF RegistryTypeOK
    <3>6. GuardsHeld'
      BY <2>1, <2>2, <3>2, <3>4 DEF RegistryTypeOK, GuardsHeld
    <3>7. EntryUnmoved' /\ RouteCoversModel'
      BY <2>1, <2>2, <2>3, <3>2, <3>4 DEF RegistryTypeOK, EntryUnmoved, RouteCoversModel
    <3>8. QED
      BY <3>5, <3>6, <3>7
  <2>7. CASE ~s.loaded
    <3>1. task' = [task EXCEPT ![t] = Idle] /\ LeaveRead(t, task[t].model)
      BY <1>13, <2>7 DEF ScanStage
    <3>2. RouteCoversModel'
      BY <2>1 DEF RouteCoversModel
    <3>3. QED
      BY <3>1, <3>2, <2>1, <2>2, <1>12 DEF LeaveRead
  <2>8. QED
    BY <2>6, <2>7
<1>14. ASSUME NEW t \in Tasks, EndScan(t)
       PROVE  RegistryInv'
  <2> PICK e : e = models[task[t].model]
    OBVIOUS
  <2>1. /\ task[t].op = "scan" /\ Len(task[t].route) = task[t].count
        /\ task' = [task EXCEPT ![t] = Idle] /\ LeaveRead(t, task[t].model)
        /\ answers' = answers \cup {[model |-> task[t].model, route |-> task[t].route, entry |-> e]}
        /\ UNCHANGED <<models, stages, writer>>
    BY <1>14 DEF EndScan
  <2>2. Len(task[t].route) = e.pipeline_stages
    BY <2>1 DEF EntryUnmoved
  <2>3. RouteCoversModel'
    BY <2>1, <2>2 DEF RouteCoversModel
  <2>4. QED
    BY <2>1, <2>3, <1>12 DEF LeaveRead
<1>15. QED
    BY <1>1, <1>2, <1>3, <1>4, <1>5, <1>6, <1>7, <1>8, <1>9, <1>10, <1>11, <1>13, <1>14
    DEF RegistryNext, TaskStep

\* The model registry keeps its guards and entries in step through every
\* interleaving of registrations, claims, counts and route reads.
THEOREM RegistryInvariance == RegistrySpec => []RegistryInv
<1>1. QED
    BY RegistryInitInv, RegistryStep, PTL DEF RegistrySpec

\* get_pipeline_route and update_model_status answer for the entry as it is: a
\* route covers every stage of the registered model, and stages are counted with
\* nobody else reading or replacing an entry of the shard.
THEOREM RoutesAndCountsConsistent == RegistrySpec => []RegistryConsistent
<1>1. RegistryInv => RegistryConsistent
  <2> SUFFICES ASSUME RegistryInv PROVE CountsExclusively
    BY DEF RegistryInv, RegistryConsistent
  <2>1. ASSUME NEW t \in Tasks, task[t].op = "count",
               NEW u \in Tasks \ {t}, task[u].op \in {"scan", "count"},
               ShardOf[task[u].model] = ShardOf[task[t].model]
        PROVE  FALSE
    BY <2>1 DEF RegistryInv, GuardsHeld
  <2>2. QED
    BY <2>1 DEF RegistryInv, EntryUnmoved, CountsExclusively
<1>2. QED
    BY <1>1, RegistryInvariance, PTL


-----------------------------------------------------------------------------
(* Token decoding.  A key-value cache holds, per layer and head, one entry for  *)
(* each token that was processed; the decoding loop and a pipeline stage both   *)
(* go on at the position where their caches end.                                *)

CachedKeys == [head : Heads, position : Nat]

\* A head's keys are those of n tokens, from the position after the past ones on.
InOrder(keys, past, n) ==
    /\ keys \in Seq(CachedKeys) /\ Len(keys) = n
    /\ \A i \in 1..n : keys[i].position = past + i - 1

\* The caches of all layers hold the first n positions, in order.
AlignedTo(caches, n) ==
    /\ caches \in [1..Layers -> [Heads -> Seq(CachedKeys)]]
    /\ \A l \in 1..Layers, h \in Heads : InOrder(caches[l][h], 0, n)

\* Token k of the text ends it: the end-of-text token, or the last of a stop
\* sequence (the first token is not compared with them).
EndsAt(text, k) ==
    \/ text[k] = Eos
    \/ k > 1 /\ \E s \in request.stops : IsSuffix(s, SubSeq(text, 1, k))

DecodingTypeOK ==
    /\ request.prompt_len \in Nat /\ request.max_tokens \in Nat
    /\ phase \in {"idle", "decode", "done", "failed"}
    /\ generated \in Seq(Vocabulary)
    /\ stage_len \in Nat

\* The text: nothing before the prefill; while the loop runs no token has ended it.
TextOnTime ==
    /\ phase = "idle" => generated = <<>>
    /\ phase = "decode" => Len(generated) > 0 /\ ~EndsAt(generated, Len(generated))
    /\ \A k \in 1..(Len(generated) - 1) : ~EndsAt(generated, k)
    /\ phase = "done" /\ Len(generated) < request.max_tokens => EndsAt(generated, Len(generated))
    /\ Len(generated) <= 1 \/ Len(generated) <= request.max_tokens

\* The caches of the run follow its text, those of the stage its length.
CachesFollow ==
    /\ phase = "idle" => kv_caches = <<>>
    /\ phase = "decode" => kv_caches # <<>>
    /\ kv_caches # <<>> => /\ AlignedTo(kv_caches, request.prompt_len + Len(generated) - 1)
                           /\ request.prompt_len + Len(generated) - 1 <= MaxSeqLen
    /\ stage_cache = <<>> => stage_len = 0
    /\ stage_cache # <<>> => AlignedTo(stage_cache, stage_len)

DecodingInv ==
    /\ DecodingTypeOK
    /\ TextOnTime
    /\ CachesFollow

\* The head whose repeated copy is kept is one of the heads.
LEMMA KeptHead ==
    ASSUME NEW h \in Heads
    PROVE  h \in 0..(KvHeads * GroupSize - 1) /\ h \div GroupSize \in Heads
<1>1. KvHeads \in Nat \ {0} /\ GroupSize \in Nat \ {0} /\ h \in Nat /\ h <= KvHeads - 1
    BY DecodingAssumption DEF Heads
<1>2. KvHeads * GroupSize >= KvHeads
    BY <1>1
<1>3. h \div GroupSize \in Nat /\ h \div GroupSize <= h
    BY <1>1
<1>4. KvHeads * GroupSize \in Nat
    BY <1>1
<1>5. QED
    BY <1>1, <1>2, <1>3, <1>4 DEF Heads

\* The keys of n new tokens stand at the n positions after the past ones.
LEMMA NewKeysInOrder ==
    ASSUME NEW past \in Nat, NEW n \in Nat, NEW h \in Heads
    PROVE  InOrder(NewKeys(n, past)[h], past, n)
<1> PICK d : d = NewKeys(n, past)[h]
    OBVIOUS
<1>1. d = [i \in 1..n |-> [head |-> h, position |-> past + i - 1]]
    BY DEF NewKeys
<1>2. d \in [1..n -> CachedKeys]
    BY <1>1 DEF CachedKeys
<1>3. d \in Seq(CachedKeys)
  <2>1. ASSUME NEW S, NEW e \in [1..n -> S] PROVE e \in Seq(S)
    OBVIOUS
  <2>2. QED
    BY <1>2, <2>1
<1>4. Len(d) = n
    BY <1>2, <1>3
<1>5. \A i \in 1..n : d[i].position = past + i - 1
    BY <1>1
<1>6. QED
    BY <1>3, <1>4, <1>5 DEF InOrder

\* Appended to the past keys, they leave every key at its own position.
LEMMA KeysAppended ==
    ASSUME NEW past \in Nat, NEW n \in Nat, NEW c, NEW d,
           InOrder(c, 0, past), InOrder(d, past, n)
    PROVE  InOrder(c \o d, 0, past + n)
<1>1. /\ c \in Seq(CachedKeys) /\ Len(c) = past /\ \A i \in 1..past : c[i].position = i - 1
      /\ d \in Seq(CachedKeys) /\ Len(d) = n /\ \A i \in 1..n : d[i].position = past + i - 1
    BY DEF InOrder
<1>2. /\ c \o d \in Seq(CachedKeys) /\ Len(c \o d) = past + n
      /\ \A i \in 1..(past + n) : (c \o d)[i] = IF i <= past THEN c[i] ELSE d[i - past]
    BY <1>1, ConcatProperties
<1>3. \A i \in 1..(past + n) : (c \o d)[i].position = i - 1
    BY <1>1, <1>2
<1>4. QED
    BY <1>2, <1>3 DEF InOrder

\* One forward pass over n tokens, from the position where the caches end, leaves
\* all layers n positions further on.
LEMMA ForwardAligned ==
    ASSUME NEW caches, NEW past \in Nat, NEW n \in Nat,
           caches = <<>> => past = 0,
           caches # <<>> => AlignedTo(caches, past)
    PROVE  AlignedTo(forward(caches, n, past), past + n) /\ forward(caches, n, past) # <<>>
<1> DEFINE old(l) == IF caches = <<>> THEN <<>> ELSE caches[l]
<1> DEFINE k == NewKeys(n, past)
<1> DEFINE all(l) == IF old(l) = <<>> THEN k ELSE [h \in Heads |-> old(l)[h] \o k[h]]
<1> DEFINE fresh == forward(caches, n, past)
<1>0. Layers \in Nat \ {0} /\ KvHeads \in Nat \ {0} /\ 0 \in Heads /\ 1 \in 1..Layers
    BY DecodingAssumption DEF Heads
<1>1. \A h \in Heads : InOrder(k[h], past, n)
    BY NewKeysInOrder
<1>2. ASSUME NEW l \in 1..Layers, NEW h \in Heads
      PROVE  InOrder(all(l)[h], 0, past + n)
  <2>1. CASE caches = <<>>
    <3>1. all(l)[h] = k[h] /\ past = 0 /\ past + n = n
      BY <2>1
    <3> HIDE DEF all, k
    <3>2. QED
      BY <1>1, <3>1
  <2>2. CASE caches # <<>>
    <3>1. old(l) \in [Heads -> Seq(CachedKeys)] /\ InOrder(old(l)[h], 0, past)
      BY <2>2 DEF AlignedTo
    <3>2. old(l) # <<>>
      <4>1. DOMAIN old(l) = Heads
        BY <3>1
      <4>2. DOMAIN <<>> = {}
        OBVIOUS
      <4> HIDE DEF old
      <4>3. QED
        BY <1>0, <4>1, <4>2
    <3>3. all(l)[h] = old(l)[h] \o k[h]
      BY <3>2
    <3> HIDE DEF all, k, old
    <3>4. InOrder(old(l)[h] \o k[h], 0, past + n)
      BY <1>1, <3>1, KeysAppended
    <3>5. QED
      BY <3>3, <3>4
  <2>3. QED
    BY <2>1, <2>2
<1>3. ASSUME NEW l \in 1..Layers
      PROVE  fresh[l] = [h \in Heads |-> all(l)[h \div GroupSize]]
  <2>1. fresh[l] = AttentionCache(old(l), n, past)
    BY DEF forward
  <2>2. AttentionCache(old(l), n, past) = [h \in Heads |-> repeat_kv(all(l))[h]]
    BY DEF AttentionCache
  <2> HIDE DEF all, old, k, fresh
  <2>3. \A h \in Heads : repeat_kv(all(l))[h] = all(l)[h \div GroupSize]
    BY KeptHead DEF repeat_kv
  <2>4. QED
    BY <2>1, <2>2, <2>3
<1>4. fresh = [l \in 1..Layers |-> fresh[l]]
    BY DEF forward
<1> HIDE DEF fresh, all, old, k
<1>5. ASSUME NEW l \in 1..Layers, NEW h \in Heads
      PROVE  InOrder(fresh[l][h], 0, past + n)
  <2>1. fresh[l][h] = all(l)[h \div GroupSize] /\ h \div GroupSize \in Heads
    BY ZenonT(60), <1>3, KeptHead
  <2>2. QED
    BY <1>2, <2>1
<1>6. \A l \in 1..Layers : fresh[l] \in [Heads -> Seq(CachedKeys)]
    BY <1>3, <1>5 DEF InOrder
<1>7. AlignedTo(fresh, past + n)
    BY <1>4, <1>5, <1>6 DEF AlignedTo
<1>8. fresh # <<>>
  <2>1. DOMAIN fresh = 1..Layers /\ DOMAIN <<>> = {}
    BY <1>4
  <2>2. QED
    BY <1>0, <2>1
<1>9. QED
    BY <1>7, <1>8 DEF fresh

\* A longer text ends nowhere that the shorter one does not.
LEMMA EndsBefore ==
    ASSUME NEW text \in Seq(Vocabulary), NEW token \in Vocabulary
    PROVE  /\ \A k \in 1..Len(text) : EndsAt(Append(text, token), k) <=> EndsAt(text, k)
           /\ EndsAt(Append(text, token), Len(text) + 1) <=>
                \/ token = Eos
                \/ Len(text) > 0 /\ check_stop_sequences(Append(text, token), request.stops)
<1> DEFINE longer == Append(text, token)
<1>1. /\ longer \in Seq(Vocabulary) /\ Len(longer) = Len(text) + 1 /\ longer[Len(text) + 1] = token
      /\ \A i \in 1..Len(text) : longer[i] = text[i]
    OBVIOUS
<1> HIDE DEF longer
<1>2. Len(text) \in Nat
    OBVIOUS
<1>3. ASSUME NEW k \in 1..Len(text) PROVE EndsAt(longer, k) <=> EndsAt(text, k)
  <2>1. SubSeq(longer, 1, k) = SubSeq(text, 1, k)
    BY <1>1, <1>2
  <2>2. QED
    BY <1>1, <2>1 DEF EndsAt
<1>4. SubSeq(longer, 1, Len(text) + 1) = longer
    BY <1>1, <1>2
<1>5. EndsAt(longer, Len(text) + 1) <=> \/ token = Eos
                                        \/ Len(text) > 0 /\ check_stop_sequences(longer, request.stops)
  <2> PICK m : m = Len(text) + 1
    OBVIOUS
  <2>1. (m > 1) <=> (Len(text) > 0)
    BY <1>2
  <2>2. longer[m] = token /\ SubSeq(longer, 1, m) = longer
    BY <1>1, <1>4
  <2>3. EndsAt(longer, m) <=> \/ token = Eos
                              \/ m > 1 /\ \E s \in request.stops : IsSuffix(s, longer)
    BY <2>2 DEF EndsAt
  <2>4. QED
    BY <2>1, <2>3 DEF check_stop_sequences
<1>6. QED
    BY <1>3, <1>5 DEF longer

LEMMA DecodingInitInv == DecodingInit => DecodingInv
<1> SUFFICES ASSUME DecodingInit PROVE DecodingInv
    OBVIOUS
<1>1. /\ request.prompt_len = 0 /\ request.max_tokens = 0 /\ phase = "idle" /\ generated = <<>>
      /\ kv_caches = <<>> /\ stage_cache = <<>> /\ stage_len = 0
    BY DEF DecodingInit, NoRequest
<1>2. QED
    BY <1>1 DEF DecodingInv, DecodingTypeOK, TextOnTime, CachesFollow

LEMMA DecodingStep == DecodingInv /\ [DecodingNext]_decodingVars => DecodingInv'
<1> SUFFICES ASSUME DecodingInv, [DecodingNext]_decodingVars PROVE DecodingInv'
    OBVIOUS
<1> DEFINE StageOK == /\ stage_len \in Nat
                      /\ stage_cache = <<>> => stage_len = 0
                      /\ stage_cache # <<>> => AlignedTo(stage_cache, stage_len)
<1> DEFINE n == Len(generated)
<1> DEFINE RunOK ==
      /\ request.prompt_len \in Nat /\ request.max_tokens \in Nat
      /\ phase \in {"idle", "decode", "done", "failed"}
      /\ generated \in Seq(Vocabulary)
      /\ TextOnTime
      /\ phase = "idle" => kv_caches = <<>>
      /\ phase = "decode" => kv_caches # <<>>
      /\ kv_caches # <<>> => /\ AlignedTo(kv_caches, request.prompt_len + Len(generated) - 1)
                             /\ request.prompt_len + Len(generated) - 1 <= MaxSeqLen
<1>a. StageOK /\ RunOK
    BY DEF DecodingInv, DecodingTypeOK, CachesFollow
<1>b. StageOK' /\ RunOK' => DecodingInv'
    BY DEF DecodingInv, DecodingTypeOK, CachesFollow
<1>c. ASSUME UNCHANGED <<stage_cache, stage_len>> PROVE StageOK'
    BY <1>a, <1>c
<1>d. ASSUME UNCHANGED <<request, phase, generated, kv_caches>> PROVE RunOK'
    BY <1>a, <1>d DEF TextOnTime, EndsAt
<1>n. n \in Nat
    BY <1>a
<1> HIDE DEF StageOK, RunOK
<1>1. ASSUME NEW p \in PromptLengths, NEW m \in TokenLimits, NEW s \in StopLists,
             Prefill([prompt_len |-> p, max_tokens |-> m, stops |-> s])
      PROVE  DecodingInv'
  <2>1. p \in Nat \ {0} /\ m \in Nat /\ MaxSeqLen \in Nat
    BY DecodingAssumption
  <2>2. /\ request'.prompt_len = p /\ request'.max_tokens = m
        /\ phase = "idle" /\ UNCHANGED <<stage_cache, stage_len>>
    BY <1>1 DEF Prefill
  <2>3. generated = <<>> /\ kv_caches = <<>>
    BY <1>a, <2>2 DEF RunOK, TextOnTime
  <2>4. CASE RopeCovers(0, p)
    <3>1. PICK token \in Vocabulary :
            /\ kv_caches' = forward(<<>>, p, 0)
            /\ generated' = <<token>>
            /\ phase' = IF token = Eos THEN "done" ELSE "decode"
      BY <1>1, <2>4 DEF Prefill
    <3>2. /\ generated' \in Seq(Vocabulary) /\ Len(generated') = 1 /\ generated'[1] = token
      BY <3>1
    <3>3. kv_caches' # <<>> /\ AlignedTo(kv_caches', p)
      <4>1. AlignedTo(forward(<<>>, p, 0), 0 + p) /\ forward(<<>>, p, 0) # <<>>
        BY <2>1, ForwardAligned
      <4>2. 0 + p = p
        BY <2>1
      <4>3. QED
        BY <3>1, <4>1, <4>2
    <3>4. p <= MaxSeqLen
      BY <2>1, <2>4 DEF RopeCovers
    <3>5. EndsAt(generated, 1)' <=> token = Eos
      BY <3>2 DEF EndsAt
    <3>6. TextOnTime'
      BY <2>1, <2>2, <3>1, <3>2, <3>5 DEF TextOnTime
    <3>7. request'.prompt_len + Len(generated') - 1 = p
      BY <2>1, <2>2, <3>2
    <3>8. AlignedTo(kv_caches, request.prompt_len + Len(generated) - 1)'
      BY <3>3, <3>7 DEF AlignedTo, InOrder
    <3>9. phase' \in {"done", "decode"}
      BY <3>1
    <3>10. RunOK'
      BY <2>1, <2>2, <3>2, <3>3, <3>4, <3>6, <3>7, <3>8, <3>9 DEF RunOK
    <3>11. QED
      BY <1>b, <1>c, <2>2, <3>10
  <2>5. CASE ~RopeCovers(0, p)
    <3>1. phase' = "failed" /\ UNCHANGED <<kv_caches, generated>>
      BY <1>1, <2>5 DEF Prefill
    <3>2. TextOnTime'
      BY <2>1, <2>2, <2>3, <3>1 DEF TextOnTime
    <3>3. RunOK'
      BY <2>1, <2>2, <2>3, <3>1, <3>2 DEF RunOK
    <3>4. QED
      BY <1>b, <1>c, <2>2, <3>3
  <2>6. QED
    BY <2>4, <2>5
<1>2. ASSUME Decode PROVE DecodingInv'
  <2>1. /\ phase = "decode" /\ n <= decode_steps /\ UNCHANGED <<request, stage_cache, stage_len>>
    BY <1>2 DEF Decode
  <2> PICK p \in Nat, m \in Nat : p = request.prompt_len /\ m = request.max_tokens
    BY <1>a DEF RunOK
  <2>2. n > 0 /\ n + 1 <= m
    BY <1>a, <1>n, <2>1 DEF decode_steps, RunOK, TextOnTime
  <2>3. CASE RopeCovers(DecodeOffset, 1)
    <3>1. PICK token \in Vocabulary :
            /\ kv_caches' = forward(kv_caches, 1, p + n - 1)
            /\ generated' = Append(generated, token)
            /\ phase' = IF token = Eos \/ check_stop_sequences(generated', request.stops)
                        THEN "done" ELSE "decode"
      BY <1>2, <2>3 DEF Decode, DecodeOffset
    <3>2. generated' \in Seq(Vocabulary) /\ Len(generated') = n + 1
      BY <1>a, <3>1 DEF RunOK
    <3> PICK past \in Nat : past = p + n - 1
      BY <1>n, <2>2
    <3>3. kv_caches # <<>> /\ AlignedTo(kv_caches, past)
      BY <1>a, <2>1 DEF RunOK
    <3>4. kv_caches' # <<>> /\ AlignedTo(kv_caches', past + 1)
      BY <3>1, <3>3, ForwardAligned
    <3>5. past + 1 <= MaxSeqLen
      BY <2>3 DEF RopeCovers, DecodeOffset
    <3>6. request'.prompt_len + Len(generated') - 1 = past + 1
      BY <1>n, <2>1, <3>2
    <3>7. AlignedTo(kv_caches, request.prompt_len + Len(generated) - 1)'
      BY <3>4, <3>6 DEF AlignedTo, InOrder
    <3> PICK text : text = generated
      OBVIOUS
    <3> PICK end : end = n + 1
      OBVIOUS
    <3>8. /\ \A k \in 1..n : EndsAt(generated, k)' <=> EndsAt(text, k)
          /\ EndsAt(generated, end)' <=>
               (token = Eos \/ check_stop_sequences(generated', request.stops))
      <4>1. text \in Seq(Vocabulary)
        BY <1>a DEF RunOK
      <4>2. /\ \A k \in 1..n : EndsAt(Append(text, token), k) <=> EndsAt(text, k)
            /\ EndsAt(Append(text, token), n + 1) <=>
                 (token = Eos \/ check_stop_sequences(Append(text, token), request.stops))
        BY <2>2, <4>1, EndsBefore
      <4>3. \A k : EndsAt(generated, k)' <=> EndsAt(Append(text, token), k)
        BY <2>1, <3>1 DEF EndsAt
      <4>4. EndsAt(generated, end)' <=> EndsAt(Append(text, token), end)
        BY <4>3
      <4> HIDE DEF n
      <4>5. \A k \in 1..n : EndsAt(generated, k)' <=> EndsAt(text, k)
        BY <4>2, <4>3
      <4>6. QED
        BY <3>1, <4>2, <4>4, <4>5
    <3>9. \A k \in 1..n : ~EndsAt(text, k)
      BY <1>a, <1>n, <2>1 DEF RunOK, TextOnTime
    <3>10. TextOnTime'
      <4>1. \A k \in 1..(Len(generated') - 1) : ~EndsAt(generated, k)'
        BY <1>n, <3>2, <3>8, <3>9
      <4>2. /\ phase' = "decode" => ~EndsAt(generated, Len(generated))'
            /\ phase' = "done" => EndsAt(generated, Len(generated))'
            /\ phase' # "idle"
        <5>1. EndsAt(generated, Len(generated))' <=> EndsAt(generated, end)'
          BY <3>2
        <5>2. QED
          BY <3>1, <3>8, <5>1
      <4>3. Len(generated') > 0 /\ Len(generated') <= request'.max_tokens
        BY <1>n, <2>1, <2>2, <3>2
      <4>4. QED
        BY <4>1, <4>2, <4>3 DEF TextOnTime
    <3>11. phase' \in {"done", "decode"}
      BY <3>1
    <3>12. RunOK'
      BY <2>1, <3>2, <3>4, <3>5, <3>6, <3>7, <3>10, <3>11 DEF RunOK
    <3>13. QED
      BY <1>b, <1>c, <2>1, <3>12
  <2>4. CASE ~RopeCovers(DecodeOffset, 1)
    <3>1. phase' = "failed" /\ UNCHANGED <<kv_caches, generated>>
      BY <1>2, <2>4 DEF Decode
    <3>2. TextOnTime'
      BY <1>a, <2>1, <3>1 DEF RunOK, TextOnTime, EndsAt
    <3>3. RunOK'
      BY <1>a, <2>1, <3>1, <3>2 DEF RunOK
    <3>4. QED
      BY <1>b, <1>c, <2>1, <3>3
  <2>5. QED
    BY <2>3, <2>4
<1>3. ASSUME EndOfLoop PROVE DecodingInv'
  <2>1. /\ phase = "decode" /\ phase' = "done" /\ n > decode_steps
        /\ UNCHANGED <<request, generated, kv_caches, stage_cache, stage_len>>
    BY <1>3 DEF EndOfLoop
  <2>2. ~(n < request.max_tokens)
    BY <1>a, <1>n, <2>1 DEF RunOK, decode_steps
  <2>3. TextOnTime'
    BY <1>a, <2>1, <2>2 DEF RunOK, TextOnTime, EndsAt
  <2>4. RunOK'
    BY <1>a, <2>1, <2>3 DEF RunOK
  <2>5. QED
    BY <1>b, <1>c, <2>1, <2>4
<1>4. ASSUME NEW k \in PromptLengths, StageForward(k) PROVE DecodingInv'
  <2>1. /\ stage_cache' = forward(stage_cache, k, stage_len) /\ stage_len' = stage_len + k
        /\ UNCHANGED <<request, phase, generated, kv_caches>>
    BY <1>4 DEF StageForward
  <2>2. k \in Nat
    BY DecodingAssumption
  <2>3. stage_cache' # <<>> /\ AlignedTo(stage_cache', stage_len + k)
    BY <1>a, <2>1, <2>2, ForwardAligned DEF StageOK
  <2>4. StageOK'
    BY <1>a, <2>1, <2>2, <2>3 DEF StageOK, AlignedTo, InOrder
  <2>5. QED
    BY <1>b, <1>d, <2>1, <2>4
<1>5. ASSUME NEW k \in PromptLengths, NEW l \in 1..Layers, StageForwardFails(k, l) PROVE DecodingInv'
    BY <1>5, <1>b, <1>c, <1>d DEF StageForwardFails, decodingVars
<1>6. ASSUME reset_cache PROVE DecodingInv'
  <2>1. StageOK'
    BY <1>6 DEF reset_cache, StageOK
  <2>2. QED
    BY <1>6, <1>b, <1>d, <2>1 DEF reset_cache
<1>7. ASSUME UNCHANGED decodingVars PROVE DecodingInv'
    BY <1>7, <1>b, <1>c, <1>d DEF decodingVars
<1>8. QED
    BY <1>1, <1>2, <1>3, <1>4, <1>5, <1>6, <1>7 DEF DecodingNext

\* The inductive invariant of token decoding: no token before the last has ended the
\* text, and the caches end where the next pass goes on.
THEOREM DecodingInvariance == DecodingSpec => []DecodingInv
<1>1. DecodingInit => DecodingInv
    BY DecodingInitInv
<1>2. DecodingInv /\ [DecodingNext]_decodingVars => DecodingInv'
    BY DecodingStep
<1>3. QED
    BY <1>1, <1>2, PTL DEF DecodingSpec

\* A text ends at its first end-of-text token or stop sequence and not later, for
\* every vocabulary, prompt, stop list and limit.
THEOREM AlwaysEndsOnTime == DecodingSpec => []EndsOnTime
<1>1. DecodingInv => EndsOnTime
    BY DEF DecodingInv, TextOnTime, EndsAt, EndsOnTime
<1>2. QED
    BY <1>1, DecodingInvariance, PTL

\* All layers' caches stand at the same token, in a run and in a pipeline stage,
\* for every number of layers, heads and positions.
THEOREM CachesAlwaysAligned == DecodingSpec => []CachesAligned
<1>1. DecodingInv => CachesAligned
  <2> SUFFICES ASSUME DecodingInv PROVE CachesAligned
    OBVIOUS
  <2>1. CachesFollowText
    <3> SUFFICES ASSUME kv_caches # <<>>
                 PROVE  /\ DOMAIN kv_caches = 1..Layers
                        /\ \A l \in 1..Layers, h \in Heads :
                             LET c == kv_caches[l][h] IN
                             /\ Len(c) = request.prompt_len + Len(generated) - 1
                             /\ Len(c) <= MaxSeqLen
                             /\ \A i \in 1..Len(c) : c[i].position = i - 1
      BY DEF CachesFollowText
    <3> PICK past : past = request.prompt_len + Len(generated) - 1
      OBVIOUS
    <3>1. AlignedTo(kv_caches, past) /\ past <= MaxSeqLen
      BY DEF DecodingInv, CachesFollow
    <3>2. QED
      BY <3>1 DEF AlignedTo, InOrder
  <2>2. StageAligned
    BY DEF DecodingInv, CachesFollow, AlignedTo, InOrder, StageAligned
  <2>3. QED
    BY <2>1, <2>2 DEF CachesAligned
<1>2. QED
    BY <1>1, DecodingInvariance, PTL


-----------------------------------------------------------------------------
(* The inductive invariant.                                                *)

Gradient == [id: Nat, worker: Workers]

AuditEvent ==
    [event: {"gradient_received", "gradient_quorum_reached", "round_completed"},
     round: Nat, gradients: Seq(Gradient)]
    \cup [event: {"round_started"}, round: Nat, gradients: {<<>>}, min_workers: Nat]

TrainingTypeOK ==
    /\ state \in [current_round: Nat, pending_gradients: Seq(Gradient), min_workers: Nat]
    /\ sent \subseteq [round: Nat \ {0}, worker: Workers]
    /\ deliveries \in Nat
    /\ completing \in [Aggregators -> [round: Nat, gradients: Seq(Gradient)]]
    /\ audit \in Seq(AuditEvent)

\* Rounds are announced once, in turn, and nothing is recorded or taken of a
\* round that has not started.  The minimum of the first round is kept.
RoundsAnnounced ==
    /\ state.current_round <= MaxRounds
    /\ \A i \in 1..Len(audit) : audit[i].round \in 1..state.current_round
    /\ \A a \in Aggregators : completing[a] # Nothing =>
         completing[a].round \in 1..state.current_round
    /\ \A r \in 1..state.current_round : Entries("round_started", r) # {}
    /\ \A r \in 1..state.current_round : \A i, j \in Entries("round_started", r) : i = j
    /\ \A i \in Entries("round_started", 1) : audit[i].min_workers = state.min_workers

\* A reported quorum has the number of gradients that all rounds need.
QuorumsFull ==
    \A i \in 1..Len(audit) : audit[i].event = "gradient_quorum_reached" =>
        Len(audit[i].gradients) >= required_workers

\* The gradients gs of round r contain those of a quorum reported for r.
Backed(r, gs) ==
    \E j \in Entries("gradient_quorum_reached", r) : IsPrefix(audit[j].gradients, gs)

\* Enough pending gradients, and gradients taken for a completion, are backed.
AwaitingBacked ==
    /\ Len(state.pending_gradients) >= required_workers
         => Backed(state.current_round, state.pending_gradients)
    /\ \A a \in Aggregators : completing[a] # Nothing =>
         Backed(completing[a].round, completing[a].gradients)

\* Quorums reported for a round: one for each completion, made or under way, and
\* one for the gradients that wait, or were dropped when the next round began.
QuorumTally ==
    \A r \in 1..MaxRounds :
        Cardinality(Entries("gradient_quorum_reached", r))
            <= Cardinality(Entries("round_completed", r))
               + Cardinality({a \in Aggregators : completing[a].round = r})
               + (IF r = state.current_round /\ Len(state.pending_gradients) < required_workers
                  THEN 0 ELSE 1)

\* Two collections of gradients have no receipt in common.
Apart(gs, hs) == \A i \in 1..Len(gs), j \in 1..Len(hs) : gs[i] # hs[j]

\* The receipts of a collection are among the first d.
Within(gs, d) == \A i \in 1..Len(gs) : gs[i].id <= d

Completions == {i \in 1..Len(audit) : audit[i].event = "round_completed"}

\* No receipt is in two of: pending, taken by an aggregator, a completion.
ReceiptsApart ==
    /\ Within(state.pending_gradients, deliveries)
    /\ \A a \in Aggregators :
         /\ Within(completing[a].gradients, deliveries)
         /\ Apart(completing[a].gradients, state.pending_gradients)
         /\ \A b \in Aggregators : a # b => Apart(completing[a].gradients, completing[b].gradients)
    /\ \A i \in Completions :
         /\ Within(audit[i].gradients, deliveries)
         /\ Apart(audit[i].gradients, state.pending_gradients)
         /\ \A a \in Aggregators : Apart(audit[i].gradients, completing[a].gradients)
         /\ \A j \in Completions : i # j => Apart(audit[i].gradients, audit[j].gradients)

IInv ==
    /\ TrainingTypeOK
    /\ RoundsAnnounced
    /\ QuorumsFull
    /\ AwaitingBacked
    /\ CompletionBacked
    /\ QuorumTally
    /\ ReceiptsApart
    /\ GradientsOfRound

-----------------------------------------------------------------------------
(* Lemmas about prefixes and about the audit entries.                      *)

\* A sequence is a prefix of itself and stays one when more is appended.
LEMMA PrefixFacts ==
  ASSUME NEW S, NEW s \in Seq(S), NEW t \in Seq(S)
  PROVE  /\ IsPrefix(s, s)
         /\ \A x \in S : IsPrefix(s, t) => IsPrefix(s, Append(t, x))
  <1>1. IsPrefix(s, s)
    BY DEF IsPrefix
  <1>2. ASSUME NEW x \in S, IsPrefix(s, t) PROVE IsPrefix(s, Append(t, x))
    <2>1. Len(s) <= Len(t) /\ SubSeq(s, 1, Len(s)) = SubSeq(t, 1, Len(s))
      BY <1>2 DEF IsPrefix
    <2>2. SubSeq(Append(t, x), 1, Len(s)) = SubSeq(t, 1, Len(s))
      BY <2>1
    <2>3. Len(s) <= Len(Append(t, x))
      BY <2>1
    <2> QED
      BY <2>1, <2>2, <2>3 DEF IsPrefix
  <1> QED
    BY <1>1, <1>2

\* No step removes or changes an entry.
AuditKept ==
    /\ Len(audit') \in Nat
    /\ Len(audit') >= Len(audit)
    /\ \A i \in 1..Len(audit) : audit'[i] = audit[i]

\* The entries of a kind after a step: those before it, and the new ones.
LEMMA EntriesGrow ==
  ASSUME TrainingTypeOK, AuditKept, NEW ev, NEW r
  PROVE  Entries(ev, r)' = Entries(ev, r)
            \cup {i \in (Len(audit) + 1)..Len(audit') : audit'[i].event = ev /\ audit'[i].round = r}
  <1>1. Len(audit) \in Nat
    BY DEF TrainingTypeOK
  <1>2. \A i \in 1..Len(audit') : i \in 1..Len(audit) \/ i \in (Len(audit) + 1)..Len(audit')
    BY <1>1 DEF AuditKept
  <1>3. \A i : i \in 1..Len(audit) \/ i \in (Len(audit) + 1)..Len(audit') => i \in 1..Len(audit')
    BY <1>1 DEF AuditKept
  <1> QED
    BY <1>2, <1>3 DEF Entries, AuditKept

\* Positions of one kind are finitely many.
LEMMA EntriesFinite ==
  ASSUME TrainingTypeOK, NEW ev, NEW r
  PROVE  /\ IsFiniteSet(Entries(ev, r))
         /\ Cardinality(Entries(ev, r)) \in Nat
         /\ Len(audit) + 1 \notin Entries(ev, r)
  <1>1. Len(audit) \in Nat
    BY DEF TrainingTypeOK
  <1>2. IsFiniteSet(1..Len(audit)) /\ Entries(ev, r) \in SUBSET (1..Len(audit))
    BY <1>1, FS_Interval DEF Entries
  <1>3. IsFiniteSet(Entries(ev, r))
    BY <1>2, FS_Subset
  <1> QED
    BY <1>1, <1>3, FS_CardinalityType DEF Entries

\* Quorum evidence does not go away.
LEMMA BackedStays ==
  ASSUME TrainingTypeOK, AuditKept, NEW r, NEW gs, Backed(r, gs)
  PROVE  Backed(r, gs)'
  <1>1. PICK j \in Entries("gradient_quorum_reached", r) : IsPrefix(audit[j].gradients, gs)
    BY DEF Backed
  <1>2. j \in Entries("gradient_quorum_reached", r)'
    BY EntriesGrow
  <1>3. audit'[j] = audit[j]
    BY DEF AuditKept, Entries
  <1> QED
    BY <1>1, <1>2, <1>3 DEF Backed

\* Completions that were backed by an earlier quorum still are; new entries of
\* another kind do not matter.
LEMMA CompletionsStay ==
  ASSUME TrainingTypeOK, AuditKept, CompletionBacked,
         \A i \in (Len(audit) + 1)..Len(audit') : audit'[i].event # "round_completed"
  PROVE  CompletionBacked'
  <1> SUFFICES ASSUME NEW r \in 1..MaxRounds, NEW i \in Entries("round_completed", r)'
               PROVE  \E j \in Entries("gradient_quorum_reached", r)' :
                        j < i /\ IsPrefix(audit'[j].gradients, audit'[i].gradients)
    BY DEF CompletionBacked
  <1>1. i \in Entries("round_completed", r)
    BY EntriesGrow
  <1>2. PICK j \in Entries("gradient_quorum_reached", r) :
          j < i /\ IsPrefix(audit[j].gradients, audit[i].gradients)
    BY <1>1 DEF CompletionBacked
  <1>3. j \in Entries("gradient_quorum_reached", r)'
    BY EntriesGrow
  <1>4. audit'[j] = audit[j] /\ audit'[i] = audit[i]
    BY <1>1 DEF AuditKept, Entries
  <1> QED
    BY <1>2, <1>3, <1>4

\* One entry more.
LEMMA AppendKeeps ==
  ASSUME TrainingTypeOK, NEW e \in AuditEvent, audit' = Append(audit, e)
  PROVE  /\ AuditKept
         /\ audit' \in Seq(AuditEvent)
         /\ Len(audit) \in Nat
         /\ Len(audit') = Len(audit) + 1
         /\ audit'[Len(audit) + 1] = e
         /\ (Len(audit) + 1)..Len(audit') = {Len(audit) + 1}
  BY DEF TrainingTypeOK, AuditKept

\* What the fields of the state are.
LEMMA StateTypes ==
  ASSUME TrainingTypeOK
  PROVE  /\ state.current_round \in Nat
         /\ state.pending_gradients \in Seq(Gradient)
         /\ state.min_workers \in Nat
         /\ required_workers \in Nat \ {0}
         /\ Len(state.pending_gradients) \in Nat
  BY DEF TrainingTypeOK, required_workers

-----------------------------------------------------------------------------
(* Each step preserves the invariant.                                      *)

LEMMA TrainingInitInv == TrainingInit => IInv
  <1> SUFFICES ASSUME TrainingInit PROVE IInv
    OBVIOUS
  <1> USE DEF TrainingInit, NoState, Nothing
  <1>0. /\ Len(audit) = 0 /\ Len(state.pending_gradients) = 0 /\ state.current_round = 0
        /\ required_workers = 1
        /\ \A a \in Aggregators : completing[a] = Nothing /\ Len(completing[a].gradients) = 0
    BY DEF required_workers
  <1>1. TrainingTypeOK
    BY DEF TrainingTypeOK
  <1>2. \A ev, r : Entries(ev, r) = {}
    BY <1>0 DEF Entries
  <1>3. RoundsAnnounced
    BY <1>0, <1>2, TrainingAssumption DEF RoundsAnnounced
  <1>4. QuorumsFull
    BY <1>0 DEF QuorumsFull
  <1>5. AwaitingBacked
    BY <1>0 DEF AwaitingBacked
  <1>6. CompletionBacked
    BY <1>2 DEF CompletionBacked
  <1>7. QuorumTally
    <2> SUFFICES ASSUME NEW r \in 1..MaxRounds
                 PROVE  Cardinality(Entries("gradient_quorum_reached", r))
                          <= Cardinality(Entries("round_completed", r))
                             + Cardinality({a \in Aggregators : completing[a].round = r})
                             + (IF r = state.current_round
                                     /\ Len(state.pending_gradients) < required_workers
                                THEN 0 ELSE 1)
      BY DEF QuorumTally
    <2> DEFINE W == {a \in Aggregators : completing[a].round = r}
               x == IF r = state.current_round /\ Len(state.pending_gradients) < required_workers
                    THEN 0 ELSE 1
    <2>1. W = {}
      OBVIOUS
    <2>2. x \in {0, 1}
      OBVIOUS
    <2> HIDE DEF W, x
    <2>3. Cardinality({}) <= Cardinality({}) + Cardinality({}) + x
      BY <2>2, FS_EmptySet
    <2>4. Cardinality(Entries("gradient_quorum_reached", r))
            <= Cardinality(Entries("round_completed", r)) + Cardinality(W) + x
      BY <1>2, <2>1, <2>3
    <2> QED
      BY <2>4 DEF W, x
  <1>8. ReceiptsApart
    BY <1>0 DEF ReceiptsApart, Within, Apart, Completions
  <1>9. GradientsOfRound
    BY <1>0 DEF GradientsOfRound
  <1> QED
    BY <1>1, <1>3, <1>4, <1>5, <1>6, <1>7, <1>8, <1>9 DEF IInv

\* The aggregators at work on a round are finitely many.
LEMMA WorkingFinite ==
  ASSUME NEW r
  PROVE  /\ IsFiniteSet({a \in Aggregators : completing[a].round = r})
         /\ Cardinality({a \in Aggregators : completing[a].round = r}) \in Nat
  <1>1. {a \in Aggregators : completing[a].round = r} \in SUBSET Aggregators
    OBVIOUS
  <1>2. IsFiniteSet({a \in Aggregators : completing[a].round = r})
    BY <1>1, FS_Subset, TrainingAssumption
  <1> QED
    BY <1>2, FS_CardinalityType

LEMMA StartRoundInv ==
  ASSUME IInv, NEW q \in Quorums, start_round(q)
  PROVE  IInv'
  <1> USE DEF IInv
  <1> DEFINE c == state.current_round
             n == Len(audit)
             e == StartEvent(c + 1, q)
  <1>1. /\ c < MaxRounds
        /\ state' = [current_round |-> c + 1, pending_gradients |-> <<>>,
                     min_workers |-> IF c = 0 THEN q ELSE state.min_workers]
        /\ audit' = Append(audit, e)
        /\ UNCHANGED <<sent, deliveries, completing>>
    BY DEF start_round
  <1>2. c \in Nat /\ q \in Nat /\ state.min_workers \in Nat /\ MaxRounds \in Nat
    BY StateTypes, TrainingAssumption
  <1>3. /\ state'.current_round = c + 1 /\ state'.pending_gradients = <<>>
        /\ state'.min_workers = (IF c = 0 THEN q ELSE state.min_workers)
        /\ Len(state'.pending_gradients) = 0
    BY <1>1
  <1>4. /\ e \in AuditEvent /\ e.event = "round_started" /\ e.round = c + 1
        /\ e.min_workers = q
    BY <1>2 DEF StartEvent, AuditEvent
  <1> HIDE DEF e, c
  <1>5. /\ AuditKept /\ audit' \in Seq(AuditEvent) /\ n \in Nat /\ Len(audit') = n + 1
        /\ audit'[n + 1] = e /\ (n + 1)..Len(audit') = {n + 1}
    BY <1>1, <1>4, AppendKeeps
  <1> HIDE DEF n
  <1>6. \A ev, r : Entries(ev, r)' = IF ev = "round_started" /\ r = c + 1
                                     THEN Entries(ev, r) \cup {n + 1} ELSE Entries(ev, r)
    <2> TAKE ev, r
    <2>1. Entries(ev, r)' = Entries(ev, r)
            \cup {i \in {n + 1} : audit'[i].event = ev /\ audit'[i].round = r}
      BY <1>5, EntriesGrow DEF n
    <2> QED
      BY <2>1, <1>4, <1>5
  <1>7. TrainingTypeOK'
    BY <1>1, <1>2, <1>3, <1>5 DEF TrainingTypeOK, c
  <1>8. \A i \in 1..n : audit'[i] = audit[i] /\ audit[i].round \in 1..c
    BY <1>5 DEF AuditKept, RoundsAnnounced, n, c
  <1>9. \A ev, r : r \notin 1..c => Entries(ev, r) = {}
    BY <1>8 DEF Entries, n
  <1>10. RoundsAnnounced'
    <2>1. state'.current_round <= MaxRounds
      BY <1>1, <1>2, <1>3
    <2>2. \A i \in 1..Len(audit') : audit'[i].round \in 1..(c + 1)
      <3> TAKE i \in 1..Len(audit')
      <3>1. CASE i = n + 1
        BY <3>1, <1>2, <1>4, <1>5
      <3>2. CASE i \in 1..n
        BY <3>2, <1>2, <1>8
      <3> QED
        BY <3>1, <3>2, <1>5
    <2>3. \A a \in Aggregators : completing'[a] # Nothing => completing'[a].round \in 1..(c + 1)
      <3>1. \A a \in Aggregators : completing[a] # Nothing => completing[a].round \in 1..c
        BY DEF RoundsAnnounced, c
      <3> QED
        BY <3>1, <1>1, <1>2
    <2>4. ASSUME NEW r \in 1..(c + 1)
          PROVE  /\ Entries("round_started", r)' # {}
                 /\ \A i, j \in Entries("round_started", r)' : i = j
      <3>1. CASE r = c + 1
        <4>1. Entries("round_started", r)' = {n + 1}
          BY <3>1, <1>2, <1>6, <1>9
        <4> QED
          BY <4>1
      <3>2. CASE r # c + 1
        <4>1. r \in 1..c /\ Entries("round_started", r)' = Entries("round_started", r)
          BY <3>2, <1>2, <1>6
        <4> QED
          BY <4>1 DEF RoundsAnnounced, c
      <3> QED
        BY <3>1, <3>2
    <2>5. \A i \in Entries("round_started", 1)' : audit'[i].min_workers = state'.min_workers
      <3> TAKE i \in Entries("round_started", 1)'
      <3>1. CASE c = 0
        <4>1. i = n + 1
          BY <3>1, <1>6, <1>9
        <4> QED
          BY <3>1, <4>1, <1>3, <1>4, <1>5
      <3>2. CASE c # 0
        <4>1. i \in Entries("round_started", 1)
          BY <3>2, <1>2, <1>6
        <4>2. audit'[i] = audit[i]
          BY <4>1, <1>8 DEF Entries, n
        <4> QED
          BY <3>2, <4>1, <4>2, <1>3 DEF RoundsAnnounced
      <3> QED
        BY <3>1, <3>2
    <2> QED
      BY <2>1, <2>2, <2>3, <2>4, <2>5, <1>3 DEF RoundsAnnounced
  <1>11. c # 0 => required_workers' = required_workers
    BY <1>3 DEF required_workers
  <1>12. required_workers' \in Nat \ {0}
    BY <1>2, <1>3 DEF required_workers
  <1>13. QuorumsFull'
    <2> SUFFICES ASSUME NEW i \in 1..Len(audit'), audit'[i].event = "gradient_quorum_reached"
                 PROVE  Len(audit'[i].gradients) >= required_workers'
      BY DEF QuorumsFull
    <2>1. i \in 1..n
      BY <1>4, <1>5
    <2>2. c # 0
      BY <2>1, <1>8
    <2> QED
      BY <2>1, <2>2, <1>8, <1>11 DEF QuorumsFull, n
  <1>14. AwaitingBacked'
    <2>1. ~(Len(state'.pending_gradients) >= required_workers')
      BY <1>3, <1>12
    <2>2. \A a \in Aggregators : completing[a] # Nothing =>
            Backed(completing[a].round, completing[a].gradients)
      BY DEF AwaitingBacked
    <2>3. \A r, gs : Backed(r, gs) => Backed(r, gs)'
      BY <1>5, BackedStays
    <2> QED
      BY <2>1, <2>2, <2>3, <1>1 DEF AwaitingBacked, Backed
  <1>15. CompletionBacked'
    BY <1>4, <1>5, CompletionsStay DEF n
  <1>16. QuorumTally'
    <2> SUFFICES ASSUME NEW r \in 1..MaxRounds
                 PROVE  Cardinality(Entries("gradient_quorum_reached", r)')
                          <= Cardinality(Entries("round_completed", r)')
                             + Cardinality({a \in Aggregators : completing[a].round = r})
                             + (IF r = c + 1 /\ 0 < required_workers' THEN 0 ELSE 1)
      BY <1>1, <1>3 DEF QuorumTally
    <2>1. /\ Entries("gradient_quorum_reached", r)' = Entries("gradient_quorum_reached", r)
          /\ Entries("round_completed", r)' = Entries("round_completed", r)
      BY <1>6
    <2>2. /\ Cardinality(Entries("gradient_quorum_reached", r)) \in Nat
          /\ Cardinality(Entries("round_completed", r)) \in Nat
          /\ Cardinality({a \in Aggregators : completing[a].round = r}) \in Nat
      BY EntriesFinite, WorkingFinite
    <2>3. CASE r = c + 1
      <3>1. Cardinality(Entries("gradient_quorum_reached", r)) = 0
        BY <2>3, <1>2, <1>9, FS_EmptySet
      <3> QED
        BY <2>1, <2>2, <3>1
    <2>4. CASE r # c + 1
      <3>1. Cardinality(Entries("gradient_quorum_reached", r))
              <= Cardinality(Entries("round_completed", r))
                 + Cardinality({a \in Aggregators : completing[a].round = r})
                 + (IF r = state.current_round /\ Len(state.pending_gradients) < required_workers
                    THEN 0 ELSE 1)
        BY DEF QuorumTally
      <3> QED
        BY <2>1, <2>2, <2>4, <3>1
    <2> QED
      BY <2>3, <2>4
  <1>17. ReceiptsApart'
    <2>1. Completions' = Completions
      BY <1>4, <1>5, <1>8 DEF Completions, n
    <2>2. \A i \in Completions : audit'[i] = audit[i]
      BY <1>8 DEF Completions, n
    <2>3. \A gs, d : Apart(gs, <<>>) /\ Within(<<>>, d)
      BY DEF Apart, Within
    <2> QED
      BY <2>1, <2>2, <2>3, <1>1, <1>3 DEF ReceiptsApart
  <1>18. GradientsOfRound'
    BY <1>3 DEF GradientsOfRound
  <1> QED
    BY <1>7, <1>10, <1>13, <1>14, <1>15, <1>16, <1>17, <1>18

\* Sending a gradient, and stuttering, leave everything but what is sent alone.
LEMMA SendInv ==
  ASSUME IInv, sent' \subseteq [round: Nat \ {0}, worker: Workers],
         UNCHANGED <<state, deliveries, completing, audit>>
  PROVE  IInv'
  <1> USE DEF IInv
  <1>1. \A ev, r : Entries(ev, r)' = Entries(ev, r)
    BY DEF Entries
  <1>2. TrainingTypeOK'
    BY DEF TrainingTypeOK
  <1>3. RoundsAnnounced'
    BY <1>1 DEF RoundsAnnounced
  <1>4. required_workers' = required_workers
    BY DEF required_workers
  <1>5. QuorumsFull'
    BY <1>4 DEF QuorumsFull
  <1>6. AwaitingBacked'
    BY <1>1, <1>4 DEF AwaitingBacked, Backed
  <1>7. CompletionBacked'
    BY <1>1 DEF CompletionBacked
  <1>8. QuorumTally'
    BY <1>1, <1>4 DEF QuorumTally
  <1>9. ReceiptsApart'
    <2>1. Completions' = Completions
      BY DEF Completions
    <2> QED
      BY <2>1 DEF ReceiptsApart
  <1>10. GradientsOfRound'
    BY <1>1 DEF GradientsOfRound
  <1> QED
    BY <1>2, <1>3, <1>5, <1>6, <1>7, <1>8, <1>9, <1>10

\* A later receipt is apart from the earlier ones.
LEMMA ReceiptFacts ==
  ASSUME NEW gs \in Seq(Gradient), NEW d \in Nat, Within(gs, d)
  PROVE  /\ Within(gs, d + 1)
         /\ \A w \in Workers : Within(Append(gs, [id |-> d + 1, worker |-> w]), d + 1)
         /\ \A hs \in Seq(Gradient), w \in Workers :
              Apart(gs, hs) => Apart(gs, Append(hs, [id |-> d + 1, worker |-> w]))
  <1>0. Len(gs) \in Nat /\ \A i \in 1..Len(gs) : gs[i].id \in Nat /\ gs[i].id <= d
    <2>1. Len(gs) \in Nat /\ \A i \in 1..Len(gs) : gs[i] \in Gradient
      OBVIOUS
    <2>2. \A g \in Gradient : g.id \in Nat
      BY DEF Gradient
    <2> QED
      BY <2>1, <2>2 DEF Within
  <1>1. Within(gs, d + 1)
    BY <1>0 DEF Within
  <1>2. ASSUME NEW w \in Workers PROVE Within(Append(gs, [id |-> d + 1, worker |-> w]), d + 1)
    <2> DEFINE x == [id |-> d + 1, worker |-> w]
    <2>1. x.id = d + 1 /\ x \in Gradient
      BY DEF Gradient
    <2> HIDE DEF x
    <2> SUFFICES ASSUME NEW i \in 1..Len(Append(gs, x)) PROVE Append(gs, x)[i].id <= d + 1
      BY DEF Within, x
    <2>2. CASE i \in 1..Len(gs)
      <3>1. Append(gs, x)[i] = gs[i]
        BY <2>1, <2>2
      <3> QED
        BY <3>1, <2>2, <1>0
    <2>3. CASE i = Len(gs) + 1
      <3>1. Append(gs, x)[i] = x
        BY <2>1, <2>3
      <3> QED
        BY <3>1, <2>1
    <2> QED
      BY <1>0, <2>1, <2>2, <2>3
  <1>3. ASSUME NEW hs \in Seq(Gradient), NEW w \in Workers, Apart(gs, hs)
        PROVE  Apart(gs, Append(hs, [id |-> d + 1, worker |-> w]))
    <2> DEFINE x == [id |-> d + 1, worker |-> w]
    <2>1. x.id = d + 1 /\ x \in Gradient
      BY DEF Gradient
    <2> HIDE DEF x
    <2> SUFFICES ASSUME NEW i \in 1..Len(gs), NEW j \in 1..Len(Append(hs, x))
                 PROVE  gs[i] # Append(hs, x)[j]
      BY DEF Apart, x
    <2>2. CASE j \in 1..Len(hs)
      <3>1. Append(hs, x)[j] = hs[j]
        BY <2>1, <2>2
      <3> QED
        BY <3>1, <2>2, <1>3 DEF Apart
    <2>3. CASE j = Len(hs) + 1
      <3>1. Append(hs, x)[j] = x
        BY <2>1, <2>3
      <3> QED
        BY <3>1, <2>1, <1>0
    <2> QED
      BY <2>1, <2>2, <2>3
  <1> QED
    BY <1>1, <1>2, <1>3

\* What the records that hold gradients hold.
LEMMA HeldTypes ==
  ASSUME TrainingTypeOK
  PROVE  /\ \A a \in Aggregators : completing[a].gradients \in Seq(Gradient)
         /\ \A i \in Completions : audit[i].gradients \in Seq(Gradient)
  <1>1. \A a \in Aggregators : completing[a].gradients \in Seq(Gradient)
    BY DEF TrainingTypeOK
  <1>2. ASSUME NEW i \in Completions PROVE audit[i].gradients \in Seq(Gradient)
    <2>1. audit[i] \in AuditEvent /\ audit[i].event = "round_completed"
      BY DEF TrainingTypeOK, Completions
    <2> QED
      BY <2>1 DEF AuditEvent
  <1> QED
    BY <1>1, <1>2

\* A gradient of another round changes nothing but the count of deliveries.
LEMMA ReceiveStaleInv ==
  ASSUME IInv, deliveries' = deliveries + 1, UNCHANGED <<state, sent, completing, audit>>
  PROVE  IInv'
  <1> USE DEF IInv
  <1>1. \A ev, r : Entries(ev, r)' = Entries(ev, r)
    BY DEF Entries
  <1>2. TrainingTypeOK'
    BY DEF TrainingTypeOK
  <1>3. RoundsAnnounced'
    BY <1>1 DEF RoundsAnnounced
  <1>4. required_workers' = required_workers
    BY DEF required_workers
  <1>5. QuorumsFull'
    BY <1>4 DEF QuorumsFull
  <1>6. AwaitingBacked'
    BY <1>1, <1>4 DEF AwaitingBacked, Backed
  <1>7. CompletionBacked'
    BY <1>1 DEF CompletionBacked
  <1>8. QuorumTally'
    BY <1>1, <1>4 DEF QuorumTally
  <1>9. ReceiptsApart'
    <2>1. Completions' = Completions
      BY DEF Completions
    <2>2. deliveries \in Nat
      BY DEF TrainingTypeOK
    <2>3. \A gs \in Seq(Gradient) : Within(gs, deliveries) => Within(gs, deliveries + 1)
      BY <2>2, ReceiptFacts
    <2> QED
      BY <2>1, <2>3, HeldTypes, StateTypes DEF ReceiptsApart
  <1>10. GradientsOfRound'
    BY <1>1 DEF GradientsOfRound
  <1> QED
    BY <1>2, <1>3, <1>5, <1>6, <1>7, <1>8, <1>9, <1>10

\* A gradient of the current round joins the pending ones; the one that completes
\* the quorum leaves a second entry.
LEMMA ReceiveCurrentInv ==
  ASSUME IInv, NEW g \in sent, receive_gradient(g), g.round = state.current_round
  PROVE  IInv'
  <1> USE DEF IInv
  \* The values of the state before the step.
  <1>0. PICK c, n, d, before, x, pending, e1, e2 :
          /\ c = state.current_round
          /\ n = Len(audit)
          /\ d = deliveries
          /\ before = state.pending_gradients
          /\ x = [id |-> d + 1, worker |-> g.worker]
          /\ pending = Append(before, x)
          /\ e1 = Event("gradient_received", c, pending)
          /\ e2 = Event("gradient_quorum_reached", c, pending)
    OBVIOUS
  <1> DEFINE crossing == Len(before) < required_workers /\ Len(pending) >= required_workers
  <1>1. /\ deliveries' = d + 1
        /\ state' = [state EXCEPT !.pending_gradients = pending]
        /\ audit' = audit \o <<e1>> \o IF crossing THEN <<e2>> ELSE <<>>
        /\ UNCHANGED <<sent, completing>>
    BY <1>0 DEF receive_gradient
  <1>2. /\ g.worker \in Workers /\ c \in Nat \ {0} /\ d \in Nat /\ n \in Nat
        /\ before \in Seq(Gradient) /\ Len(before) \in Nat /\ required_workers \in Nat \ {0}
        /\ audit \in Seq(AuditEvent) /\ c <= MaxRounds
    BY <1>0, StateTypes DEF TrainingTypeOK, RoundsAnnounced
  <1>3. x \in Gradient /\ x.id = d + 1
    BY <1>0, <1>2 DEF Gradient
  <1>4. /\ pending \in Seq(Gradient) /\ Len(pending) = Len(before) + 1
        /\ pending[Len(before) + 1] = x
        /\ \A i \in 1..Len(before) : pending[i] = before[i]
    BY <1>0, <1>2, <1>3
  <1>5. /\ e1 \in AuditEvent /\ e1.event = "gradient_received" /\ e1.round = c
        /\ e1.gradients = pending
        /\ e2 \in AuditEvent /\ e2.event = "gradient_quorum_reached" /\ e2.round = c
        /\ e2.gradients = pending
    BY <1>0, <1>2, <1>4 DEF Event, AuditEvent
  <1>6. /\ state'.current_round = c /\ state'.pending_gradients = pending
        /\ state'.min_workers = state.min_workers
        /\ state' \in [current_round: Nat, pending_gradients: Seq(Gradient), min_workers: Nat]
    BY <1>0, <1>1, <1>4 DEF TrainingTypeOK
  <1>7. required_workers' = required_workers
    BY <1>6 DEF required_workers
  <1>8. /\ audit' \in Seq(AuditEvent) /\ AuditKept /\ audit'[n + 1] = e1
        /\ crossing => Len(audit') = n + 2 /\ audit'[n + 2] = e2
        /\ ~crossing => Len(audit') = n + 1
    <2>1. CASE crossing
      <3>1. audit' = audit \o <<e1>> \o <<e2>>
        BY <1>1, <2>1
      <3> QED
        BY <2>1, <3>1, <1>0, <1>2, <1>5 DEF AuditKept
    <2>2. CASE ~crossing
      <3>1. audit' = audit \o <<e1>> \o <<>>
        BY <1>1, <2>2
      <3> QED
        BY <2>2, <3>1, <1>0, <1>2, <1>5 DEF AuditKept
    <2> QED
      BY <2>1, <2>2
  <1>9. \A i \in 1..n : audit'[i] = audit[i]
    BY <1>0, <1>8 DEF AuditKept
  <1> DEFINE New == (n + 1)..Len(audit')
  <1>10. /\ n + 1 \in New /\ New = IF crossing THEN {n + 1, n + 2} ELSE {n + 1}
         /\ \A i \in 1..Len(audit') : i \in 1..n \/ i \in New
         /\ \A i \in New : i \in 1..Len(audit') /\ audit'[i].round = c /\ audit'[i].gradients = pending
         /\ \A i \in New : audit'[i].event \in {"gradient_received", "gradient_quorum_reached"}
    <2>1. CASE crossing
      <3>1. Len(audit') = n + 2 /\ New = {n + 1, n + 2}
        BY <2>1, <1>2, <1>8
      <3>2. /\ \A i \in 1..Len(audit') : i \in 1..n \/ i \in New
            /\ \A i \in New : i \in 1..Len(audit')
        BY <3>1, <1>2
      <3> HIDE DEF New
      <3> QED
        BY <2>1, <3>1, <3>2, <1>5, <1>8
    <2>2. CASE ~crossing
      <3>1. Len(audit') = n + 1 /\ New = {n + 1}
        BY <2>2, <1>2, <1>8
      <3>2. /\ \A i \in 1..Len(audit') : i \in 1..n \/ i \in New
            /\ \A i \in New : i \in 1..Len(audit')
        BY <3>1, <1>2
      <3> HIDE DEF New
      <3> QED
        BY <2>2, <3>1, <3>2, <1>5, <1>8
    <2> QED
      BY <2>1, <2>2
  <1>11. \A ev, r : Entries(ev, r)' = Entries(ev, r)
                      \cup {i \in New : audit'[i].event = ev /\ audit'[i].round = r}
    BY <1>0, <1>8, EntriesGrow
  <1> HIDE DEF New, crossing
  <1>12. \A r : /\ Entries("round_started", r)' = Entries("round_started", r)
                /\ Entries("round_completed", r)' = Entries("round_completed", r)
    BY <1>10, <1>11
  <1>13. \A r : Entries("gradient_quorum_reached", r)'
                  = IF crossing /\ r = c THEN Entries("gradient_quorum_reached", r) \cup {n + 2}
                                         ELSE Entries("gradient_quorum_reached", r)
    <2> TAKE r
    <2>1. CASE crossing
      <3>1. n + 2 \in New /\ New = {n + 1, n + 2}
        BY <2>1, <1>10
      <3>2. {i \in New : audit'[i].event = "gradient_quorum_reached" /\ audit'[i].round = r}
              = IF r = c THEN {n + 2} ELSE {}
        BY <2>1, <3>1, <1>5, <1>8, <1>10
      <3> QED
        BY <2>1, <3>2, <1>11
    <2>2. CASE ~crossing
      <3>1. {i \in New : audit'[i].event = "gradient_quorum_reached" /\ audit'[i].round = r} = {}
        BY <2>2, <1>5, <1>8, <1>10
      <3> QED
        BY <2>2, <3>1, <1>11
    <2> QED
      BY <2>1, <2>2
  <1>14. TrainingTypeOK'
    <2>1. deliveries' \in Nat /\ sent' = sent /\ completing' = completing
      BY <1>0, <1>1, <1>2
    <2> QED
      BY <2>1, <1>6, <1>8 DEF TrainingTypeOK
  <1>15. RoundsAnnounced'
    <2>1. \A i \in 1..Len(audit') : audit'[i].round \in 1..c
      <3> TAKE i \in 1..Len(audit')
      <3>1. CASE i \in 1..n
        BY <1>0, <3>1, <1>9 DEF RoundsAnnounced
      <3>2. CASE i \in New
        BY <3>2, <1>2, <1>10
      <3> QED
        BY <3>1, <3>2, <1>10
    <2>2. \A i \in Entries("round_started", 1) : audit'[i] = audit[i]
      BY <1>0, <1>9 DEF Entries
    <2>3. /\ c <= MaxRounds
          /\ \A a \in Aggregators : completing[a] # Nothing => completing[a].round \in 1..c
          /\ \A r \in 1..c : Entries("round_started", r) # {}
          /\ \A r \in 1..c : \A i, j \in Entries("round_started", r) : i = j
          /\ \A i \in Entries("round_started", 1) : audit[i].min_workers = state.min_workers
      BY <1>0 DEF RoundsAnnounced
    <2>4. completing' = completing
      BY <1>1
    <2> QED
      BY <2>1, <2>2, <2>3, <2>4, <1>6, <1>12 DEF RoundsAnnounced
  <1>16. QuorumsFull'
    <2> SUFFICES ASSUME NEW i \in 1..Len(audit'), audit'[i].event = "gradient_quorum_reached"
                 PROVE  Len(audit'[i].gradients) >= required_workers
      BY <1>7 DEF QuorumsFull
    <2>1. CASE i \in 1..n
      BY <1>0, <2>1, <1>9 DEF QuorumsFull
    <2>2. CASE i \in New
      <3>1. crossing
        BY <2>2, <1>5, <1>8, <1>10
      <3> QED
        BY <2>2, <3>1, <1>10 DEF crossing
    <2> QED
      BY <2>1, <2>2, <1>10
  <1>17. AwaitingBacked'
    <2>1. \A r, gs : Backed(r, gs) => Backed(r, gs)'
      BY <1>8, BackedStays
    <2>2. ASSUME Len(pending) >= required_workers PROVE Backed(c, pending)'
      <3>1. CASE crossing
        <4>1. n + 2 \in Entries("gradient_quorum_reached", c)'
          BY <3>1, <1>13
        <4>2. audit'[n + 2].gradients = pending /\ IsPrefix(pending, pending)
          BY <3>1, <1>4, <1>5, <1>8, PrefixFacts
        <4> QED
          BY <4>1, <4>2 DEF Backed
      <3>2. CASE ~crossing
        <4>1. Backed(c, before)
          BY <1>0, <3>2, <2>2, <1>2 DEF crossing, AwaitingBacked
        <4>2. PICK j \in Entries("gradient_quorum_reached", c) : IsPrefix(audit[j].gradients, before)
          BY <4>1 DEF Backed
        <4>3. audit[j] \in AuditEvent /\ audit[j].event = "gradient_quorum_reached"
          BY <1>2 DEF Entries
        <4>4. audit[j].gradients \in Seq(Gradient)
          BY <4>3 DEF AuditEvent
        <4>5. IsPrefix(audit[j].gradients, pending)
          BY <1>0, <4>2, <4>4, <1>2, <1>3, PrefixFacts
        <4>6. Backed(c, pending)
          BY <4>5 DEF Backed
        <4> QED
          BY <4>6, <2>1
      <3> QED
        BY <3>1, <3>2
    <2>3. \A a \in Aggregators : completing[a] # Nothing =>
            Backed(completing[a].round, completing[a].gradients)
      BY DEF AwaitingBacked
    <2>4. ASSUME NEW a \in Aggregators, completing[a] # Nothing
          PROVE  Backed(completing[a].round, completing[a].gradients)'
      BY <2>1, <2>3, <2>4, <1>1 DEF Backed
    <2>5. Len(state'.pending_gradients) >= required_workers'
            => Backed(state.current_round, state.pending_gradients)'
      BY <2>2, <1>6, <1>7 DEF Backed
    <2> QED
      BY <2>4, <2>5, <1>1 DEF AwaitingBacked
  <1>18. CompletionBacked'
    BY <1>0, <1>8, <1>10, CompletionsStay DEF New
  <1>19. QuorumTally'
    <2> SUFFICES ASSUME NEW r \in 1..MaxRounds
                 PROVE  Cardinality(Entries("gradient_quorum_reached", r)')
                          <= Cardinality(Entries("round_completed", r)')
                             + Cardinality({a \in Aggregators : completing[a].round = r})
                             + (IF r = c /\ Len(pending) < required_workers THEN 0 ELSE 1)
      BY <1>1, <1>6, <1>7 DEF QuorumTally
    <2> DEFINE Q == Entries("gradient_quorum_reached", r)
               D == Cardinality(Entries("round_completed", r))
               W == Cardinality({a \in Aggregators : completing[a].round = r})
    <2>1. IsFiniteSet(Q) /\ Cardinality(Q) \in Nat /\ D \in Nat /\ W \in Nat
      BY EntriesFinite, WorkingFinite
    <2>2. Cardinality(Q) <= D + W + (IF r = c /\ Len(before) < required_workers THEN 0 ELSE 1)
      BY <1>0 DEF QuorumTally
    <2>3. Entries("round_completed", r)' = Entries("round_completed", r)
      BY <1>12
    <2> HIDE DEF Q, D, W
    <2>4. CASE crossing /\ r = c
      <3>1. Cardinality(Q \cup {n + 2}) <= Cardinality(Q) + 1
        BY <2>1, FS_AddElement
      <3>2. Cardinality(Q \cup {n + 2}) \in Nat
        BY <2>1, FS_AddElement, FS_CardinalityType
      <3>3. Entries("gradient_quorum_reached", r)' = Q \cup {n + 2}
        BY <2>4, <1>13 DEF Q
      <3>4. Cardinality(Q) <= D + W
        BY <2>1, <2>2, <2>4 DEF crossing
      <3>5. ~(Len(pending) < required_workers)
        BY <2>4, <1>2, <1>4 DEF crossing
      <3>6. Cardinality(Q \cup {n + 2}) <= D + W + 1
        BY <2>1, <3>1, <3>2, <3>4
      <3> QED
        BY <2>3, <3>3, <3>5, <3>6 DEF D, W
    <2>5. CASE ~(crossing /\ r = c)
      <3>1. Entries("gradient_quorum_reached", r)' = Q
        BY <2>5, <1>13 DEF Q
      <3>2. r = c /\ Len(pending) < required_workers => Len(before) < required_workers
        BY <1>2, <1>4
      <3>3. Cardinality(Q) <= D + W + (IF r = c /\ Len(pending) < required_workers THEN 0 ELSE 1)
        BY <2>1, <2>2, <2>5, <3>2 DEF crossing
      <3> QED
        BY <2>3, <3>1, <3>3 DEF D, W
    <2> QED
      BY <2>4, <2>5
  <1>20. ReceiptsApart'
    <2>1. Completions' = Completions
      BY <1>0, <1>9, <1>10 DEF Completions
    <2>2. \A i \in Completions : audit'[i] = audit[i]
      BY <1>0, <1>9 DEF Completions
    <2>3. \A gs \in Seq(Gradient) : Within(gs, d) =>
            /\ Within(gs, d + 1)
            /\ Apart(gs, before) => Apart(gs, pending)
      BY <1>0, <1>2, ReceiptFacts
    <2>4. Within(pending, d + 1)
      BY <1>0, <1>2, ReceiptFacts DEF ReceiptsApart
    <2>5. \A a \in Aggregators : completing[a].gradients \in Seq(Gradient)
      BY HeldTypes
    <2>6. \A i \in Completions : audit[i].gradients \in Seq(Gradient)
      BY HeldTypes
    <2>7. \A a \in Aggregators :
            /\ Within(completing[a].gradients, d + 1)
            /\ Apart(completing[a].gradients, pending)
      BY <1>0, <2>3, <2>5 DEF ReceiptsApart
    <2>8. \A i \in Completions :
            /\ Within(audit[i].gradients, d + 1)
            /\ Apart(audit[i].gradients, pending)
      BY <1>0, <2>3, <2>6 DEF ReceiptsApart
    <2>9. \A a, b \in Aggregators : a # b => Apart(completing[a].gradients, completing[b].gradients)
      BY DEF ReceiptsApart
    <2>10. ASSUME NEW i \in Completions
           PROVE  /\ \A a \in Aggregators : Apart(audit[i].gradients, completing[a].gradients)
                  /\ \A j \in Completions : i # j => Apart(audit[i].gradients, audit[j].gradients)
      BY <2>10 DEF ReceiptsApart
    <2>11. /\ deliveries' = d + 1 /\ state'.pending_gradients = pending
           /\ completing' = completing
      BY <1>1, <1>6
    <2> QED
      BY <2>1, <2>2, <2>4, <2>7, <2>8, <2>9, <2>10, <2>11 DEF ReceiptsApart
  <1>21. GradientsOfRound'
    <2> SUFFICES ASSUME NEW i \in 1..Len(pending)
                 PROVE  \E j \in Entries("gradient_received", c)' :
                          Last(audit'[j].gradients) = pending[i]
      BY <1>6 DEF GradientsOfRound
    <2>1. CASE i = Len(before) + 1
      <3>1. n + 1 \in Entries("gradient_received", c)'
        BY <1>5, <1>8, <1>10, <1>11
      <3>2. Last(audit'[n + 1].gradients) = pending[i]
        BY <2>1, <1>4, <1>5, <1>8 DEF Last
      <3> QED
        BY <3>1, <3>2
    <2>2. CASE i \in 1..Len(before)
      <3>1. PICK j \in Entries("gradient_received", c) : Last(audit[j].gradients) = before[i]
        BY <1>0, <2>2 DEF GradientsOfRound
      <3>2. audit'[j] = audit[j] /\ j \in Entries("gradient_received", c)'
        <4>1. j \in 1..n
          BY <1>0 DEF Entries
        <4>2. audit'[j] = audit[j]
          BY <1>9, <4>1
        <4>3. j \in Entries("gradient_received", c)'
          BY <1>11
        <4> QED
          BY <4>2, <4>3
      <3> QED
        BY <2>2, <3>1, <3>2, <1>4
    <2> QED
      BY <2>1, <2>2, <1>2, <1>4
  <1> QED
    BY <1>14, <1>15, <1>16, <1>17, <1>18, <1>19, <1>20, <1>21

LEMMA ReceiveInv ==
  ASSUME IInv, NEW g \in sent, receive_gradient(g)
  PROVE  IInv'
  <1>1. CASE g.round = state.current_round
    BY <1>1, ReceiveCurrentInv
  <1>2. CASE g.round # state.current_round
    BY <1>2, ReceiveStaleInv DEF receive_gradient
  <1> QED
    BY <1>1, <1>2

\* Being apart does not depend on the order.
LEMMA ApartFacts ==
  ASSUME NEW gs, NEW hs
  PROVE  /\ Apart(gs, hs) <=> Apart(hs, gs)
         /\ Apart(gs, <<>>) /\ Apart(<<>>, gs)
  BY DEF Apart

\* complete_round_after_aggregation takes the pending gradients away.
LEMMA TakeRoundInv ==
  ASSUME IInv, NEW a \in Aggregators, NEW r \in 1..MaxRounds, TakeRound(a, r)
  PROVE  IInv'
  <1> USE DEF IInv
  <1>0. PICK pending, t :
          /\ pending = state.pending_gradients
          /\ t = [round |-> r, gradients |-> pending]
    OBVIOUS
  <1>1. /\ completing[a] = Nothing /\ state.current_round = r
        /\ Len(pending) >= required_workers
        /\ completing' = [completing EXCEPT ![a] = t]
        /\ state' = [state EXCEPT !.pending_gradients = <<>>]
        /\ UNCHANGED <<sent, deliveries, audit>>
    BY <1>0 DEF TakeRound
  <1>2. /\ pending \in Seq(Gradient) /\ required_workers \in Nat \ {0} /\ r \in Nat \ {0}
        /\ completing \in [Aggregators -> [round: Nat, gradients: Seq(Gradient)]]
    BY <1>0, StateTypes DEF TrainingTypeOK
  <1>3. /\ t \in [round: Nat, gradients: Seq(Gradient)] /\ t.round = r /\ t.gradients = pending
        /\ t # Nothing
    BY <1>0, <1>2 DEF Nothing
  <1>4. /\ state'.current_round = r /\ state'.pending_gradients = <<>>
        /\ state'.min_workers = state.min_workers
        /\ state' \in [current_round: Nat, pending_gradients: Seq(Gradient), min_workers: Nat]
    <2>1. <<>> \in Seq(Gradient)
      OBVIOUS
    <2> QED
      BY <2>1, <1>1 DEF TrainingTypeOK
  <1>5. required_workers' = required_workers /\ \A ev, q : Entries(ev, q)' = Entries(ev, q)
    BY <1>1, <1>4 DEF required_workers, Entries
  <1>6. completing'[a] = t /\ \A b \in Aggregators : b # a => completing'[b] = completing[b]
    BY <1>1, <1>2
  <1>7. TrainingTypeOK'
    <2>1. completing' \in [Aggregators -> [round: Nat, gradients: Seq(Gradient)]]
      BY <1>1, <1>2, <1>3
    <2> QED
      BY <2>1, <1>1, <1>4 DEF TrainingTypeOK
  <1>8. RoundsAnnounced'
    <2>1. \A b \in Aggregators : completing'[b] # Nothing => completing'[b].round \in 1..r
      BY <1>1, <1>2, <1>3, <1>6 DEF RoundsAnnounced
    <2> QED
      BY <2>1, <1>1, <1>4, <1>5 DEF RoundsAnnounced
  <1>9. QuorumsFull'
    BY <1>1, <1>5 DEF QuorumsFull
  <1>10. AwaitingBacked'
    <2>1. \A q, gs : Backed(q, gs)' <=> Backed(q, gs)
      BY <1>1, <1>5 DEF Backed
    <2>2. Backed(r, pending)
      BY <1>0, <1>1 DEF AwaitingBacked
    <2>3. ASSUME NEW b \in Aggregators, completing'[b] # Nothing
          PROVE  Backed(completing[b].round, completing[b].gradients)'
      <3>1. Backed(completing'[b].round, completing'[b].gradients)
        BY <2>2, <2>3, <1>3, <1>6 DEF AwaitingBacked
      <3> QED
        BY <3>1, <1>1, <1>5 DEF Backed
    <2>4. ~(Len(state'.pending_gradients) >= required_workers')
      BY <1>2, <1>4, <1>5
    <2> QED
      BY <2>3, <2>4 DEF AwaitingBacked
  <1>11. CompletionBacked'
    BY <1>1, <1>5 DEF CompletionBacked
  <1>12. QuorumTally'
    <2> SUFFICES ASSUME NEW q \in 1..MaxRounds
                 PROVE  Cardinality(Entries("gradient_quorum_reached", q))
                          <= Cardinality(Entries("round_completed", q))
                             + Cardinality({b \in Aggregators : completing'[b].round = q})
                             + (IF q = r /\ Len(<<>>) < required_workers THEN 0 ELSE 1)
      BY <1>4, <1>5 DEF QuorumTally
    <2> DEFINE Q == Cardinality(Entries("gradient_quorum_reached", q))
               D == Cardinality(Entries("round_completed", q))
               W == {b \in Aggregators : completing[b].round = q}
               V == {b \in Aggregators : completing'[b].round = q}
    <2>1. Q \in Nat /\ D \in Nat /\ Cardinality(W) \in Nat /\ IsFiniteSet(W)
      BY EntriesFinite, WorkingFinite
    <2>2. Q <= D + Cardinality(W) + (IF q = r /\ Len(pending) < required_workers THEN 0 ELSE 1)
      BY <1>0, <1>1 DEF QuorumTally
    <2>3. ~(Len(pending) < required_workers)
      BY <1>1, <1>2
    <2>4. a \notin W
      BY <1>1 DEF Nothing
    <2>5. V = IF q = r THEN W \cup {a} ELSE W
      BY <2>4, <1>3, <1>6
    <2> HIDE DEF Q, D, W, V
    <2>6. Cardinality(V) = IF q = r THEN Cardinality(W) + 1 ELSE Cardinality(W)
      BY <2>1, <2>4, <2>5, FS_AddElement
    <2>7. Q <= D + Cardinality(W) + 1
      BY <2>2, <2>3
    <2>8. Q <= D + Cardinality(V) + (IF q = r THEN 0 ELSE 1)
      BY <2>1, <2>6, <2>7
    <2>9. Len(<<>>) < required_workers
      BY <1>2
    <2> QED
      BY <2>8, <2>9 DEF Q, D, V
  <1>13. ReceiptsApart'
    <2>1. Completions' = Completions /\ deliveries' = deliveries /\ audit' = audit
      BY <1>1 DEF Completions
    <2>2. \A gs, hs : Apart(gs, <<>>) /\ (Apart(gs, hs) <=> Apart(hs, gs))
      BY ApartFacts
    <2>3. Within(<<>>, deliveries)
      BY DEF Within
    <2>4. \A b \in Aggregators : b # a =>
            /\ Within(completing[b].gradients, deliveries)
            /\ Apart(completing[b].gradients, pending)
            /\ \A i \in Completions : Apart(audit[i].gradients, completing[b].gradients)
      BY <1>0 DEF ReceiptsApart
    <2>5. /\ Within(pending, deliveries)
          /\ \A i \in Completions : Apart(audit[i].gradients, pending)
      BY <1>0 DEF ReceiptsApart
    <2>6. ASSUME NEW b \in Aggregators
          PROVE  /\ Within(completing'[b].gradients, deliveries)
                 /\ \A i \in Completions : Apart(audit[i].gradients, completing'[b].gradients)
                 /\ \A d \in Aggregators : b # d =>
                      Apart(completing'[b].gradients, completing'[d].gradients)
      <3>1. CASE b = a
        BY <3>1, <2>2, <2>4, <2>5, <1>3, <1>6
      <3>2. CASE b # a
        <4>1. \A d \in Aggregators : b # d /\ d # a =>
                 Apart(completing[b].gradients, completing[d].gradients)
          BY DEF ReceiptsApart
        <4> QED
          BY <3>2, <4>1, <2>4, <1>3, <1>6
      <3> QED
        BY <3>1, <3>2
    <2>7. \A i \in Completions :
            /\ Within(audit[i].gradients, deliveries)
            /\ \A j \in Completions : i # j => Apart(audit[i].gradients, audit[j].gradients)
      BY DEF ReceiptsApart
    <2> QED
      BY <2>1, <2>2, <2>3, <2>6, <2>7, <1>4 DEF ReceiptsApart
  <1>14. GradientsOfRound'
    BY <1>4 DEF GradientsOfRound
  <1> QED
    BY <1>7, <1>8, <1>9, <1>10, <1>11, <1>12, <1>13, <1>14

\* The report of a round, perhaps long after the lock was released.
LEMMA ReportRoundInv ==
  ASSUME IInv, NEW a \in Aggregators, ReportRound(a)
  PROVE  IInv'
  <1> USE DEF IInv
  <1>0. PICK t, r, gs, e, n :
          /\ t = completing[a] /\ r = t.round /\ gs = t.gradients
          /\ e = Event("round_completed", r, gs)
          /\ n = Len(audit)
    OBVIOUS
  <1>1. /\ t # Nothing
        /\ audit' = Append(audit, e)
        /\ completing' = [completing EXCEPT ![a] = Nothing]
        /\ UNCHANGED <<state, sent, deliveries>>
    BY <1>0 DEF ReportRound
  <1>2. /\ completing \in [Aggregators -> [round: Nat, gradients: Seq(Gradient)]]
        /\ r \in 1..state.current_round /\ gs \in Seq(Gradient) /\ r \in Nat
    BY <1>0, <1>1 DEF TrainingTypeOK, RoundsAnnounced
  <1>3. /\ e \in AuditEvent /\ e.event = "round_completed" /\ e.round = r /\ e.gradients = gs
    BY <1>0, <1>2 DEF Event, AuditEvent
  <1>4. /\ AuditKept /\ audit' \in Seq(AuditEvent) /\ n \in Nat /\ Len(audit') = n + 1
        /\ audit'[n + 1] = e /\ (n + 1)..Len(audit') = {n + 1}
    BY <1>0, <1>1, <1>3, AppendKeeps
  <1>5. \A i \in 1..n : audit'[i] = audit[i]
    BY <1>0, <1>4 DEF AuditKept
  <1>6. \A ev, q : Entries(ev, q)' = IF ev = "round_completed" /\ q = r
                                     THEN Entries(ev, q) \cup {n + 1} ELSE Entries(ev, q)
    <2> TAKE ev, q
    <2>1. Entries(ev, q)' = Entries(ev, q)
            \cup {i \in {n + 1} : audit'[i].event = ev /\ audit'[i].round = q}
      BY <1>0, <1>4, EntriesGrow
    <2> QED
      BY <2>1, <1>3, <1>4
  <1>7. /\ completing'[a] = Nothing
        /\ \A b \in Aggregators : b # a => completing'[b] = completing[b]
        /\ completing' \in [Aggregators -> [round: Nat, gradients: Seq(Gradient)]]
    BY <1>1, <1>2 DEF Nothing
  <1>8. TrainingTypeOK'
    BY <1>1, <1>4, <1>7 DEF TrainingTypeOK
  <1>9. \A i \in 1..Len(audit') : i \in 1..n \/ i = n + 1
    BY <1>4
  <1>10. RoundsAnnounced'
    <2>1. \A i \in 1..Len(audit') : audit'[i].round \in 1..state.current_round
      BY <1>0, <1>2, <1>3, <1>4, <1>5, <1>9 DEF RoundsAnnounced
    <2>2. \A b \in Aggregators : completing'[b] # Nothing =>
            completing'[b].round \in 1..state.current_round
      BY <1>7 DEF RoundsAnnounced
    <2>3. \A q : Entries("round_started", q)' = Entries("round_started", q)
      BY <1>6
    <2>4. \A i \in Entries("round_started", 1) : audit'[i] = audit[i]
      BY <1>0, <1>5 DEF Entries
    <2>5. state' = state /\ state.current_round <= MaxRounds
      BY <1>1 DEF RoundsAnnounced
    <2>6. \A q \in 1..state.current_round :
            /\ Entries("round_started", q)' # {}
            /\ \A i, j \in Entries("round_started", q)' : i = j
      BY <2>3 DEF RoundsAnnounced
    <2>7. \A i \in Entries("round_started", 1)' : audit'[i].min_workers = state.min_workers
      BY <2>3, <2>4 DEF RoundsAnnounced
    <2> QED
      BY <2>1, <2>2, <2>5, <2>6, <2>7 DEF RoundsAnnounced
  <1>11. required_workers' = required_workers
    BY <1>1 DEF required_workers
  <1>12. QuorumsFull'
    BY <1>0, <1>3, <1>4, <1>5, <1>9, <1>11 DEF QuorumsFull
  <1>13. AwaitingBacked'
    <2>1. \A q, hs : Backed(q, hs) => Backed(q, hs)'
      BY <1>4, BackedStays
    <2>2. ASSUME NEW b \in Aggregators, completing'[b] # Nothing
          PROVE  Backed(completing[b].round, completing[b].gradients)'
      <3>1. Backed(completing[b].round, completing[b].gradients) /\ completing'[b] = completing[b]
        BY <2>2, <1>7 DEF AwaitingBacked
      <3>2. PICK q, hs : q = completing[b].round /\ hs = completing[b].gradients
        OBVIOUS
      <3>3. Backed(q, hs)'
        BY <3>1, <3>2, <2>1
      <3> QED
        BY <3>1, <3>2, <3>3 DEF Backed
    <2>3. ASSUME Len(state'.pending_gradients) >= required_workers'
          PROVE  Backed(state.current_round, state.pending_gradients)'
      <3>1. Backed(state.current_round, state.pending_gradients)
        BY <2>3, <1>1, <1>11 DEF AwaitingBacked
      <3>2. PICK q, hs : q = state.current_round /\ hs = state.pending_gradients
        OBVIOUS
      <3>3. Backed(q, hs)'
        BY <3>1, <3>2, <2>1
      <3> QED
        BY <3>2, <3>3, <1>1 DEF Backed
    <2> QED
      BY <2>2, <2>3 DEF AwaitingBacked
  <1>14. CompletionBacked'
    <2> SUFFICES ASSUME NEW q \in 1..MaxRounds, NEW i \in Entries("round_completed", q)'
                 PROVE  \E j \in Entries("gradient_quorum_reached", q)' :
                          j < i /\ IsPrefix(audit'[j].gradients, audit'[i].gradients)
      BY DEF CompletionBacked
    <2>1. Entries("gradient_quorum_reached", q)' = Entries("gradient_quorum_reached", q)
      BY <1>6
    <2>2. \A j \in Entries("gradient_quorum_reached", q) : j \in 1..n /\ audit'[j] = audit[j]
      BY <1>0, <1>5 DEF Entries
    <2>3. CASE i \in Entries("round_completed", q)
      <3>1. audit'[i] = audit[i]
        BY <2>3, <1>0, <1>5 DEF Entries
      <3> QED
        BY <2>1, <2>2, <2>3, <3>1 DEF CompletionBacked
    <2>4. CASE i = n + 1
      <3>1. q = r
        BY <2>4, <1>3, <1>4 DEF Entries
      <3>2. Backed(r, gs)
        BY <1>0, <1>1 DEF AwaitingBacked
      <3>3. PICK j \in Entries("gradient_quorum_reached", r) : IsPrefix(audit[j].gradients, gs)
        BY <3>2 DEF Backed
      <3>4. j < n + 1
        BY <3>1, <2>2, <1>4
      <3> QED
        BY <2>1, <2>2, <2>4, <3>1, <3>3, <3>4, <1>3, <1>4
    <2> QED
      BY <2>3, <2>4, <1>6
  <1>15. QuorumTally'
    <2> SUFFICES ASSUME NEW q \in 1..MaxRounds
                 PROVE  Cardinality(Entries("gradient_quorum_reached", q)')
                          <= Cardinality(Entries("round_completed", q)')
                             + Cardinality({b \in Aggregators : completing'[b].round = q})
                             + (IF q = state.current_round
                                     /\ Len(state.pending_gradients) < required_workers
                                THEN 0 ELSE 1)
      BY <1>1, <1>11 DEF QuorumTally
    <2> DEFINE Q == Cardinality(Entries("gradient_quorum_reached", q))
               D == Entries("round_completed", q)
               W == {b \in Aggregators : completing[b].round = q}
               V == {b \in Aggregators : completing'[b].round = q}
               x == IF q = state.current_round /\ Len(state.pending_gradients) < required_workers
                    THEN 0 ELSE 1
    <2>1. /\ Q \in Nat /\ Cardinality(D) \in Nat /\ IsFiniteSet(D) /\ n + 1 \notin D
          /\ Cardinality(W) \in Nat /\ IsFiniteSet(W) /\ x \in Nat
      BY <1>0, EntriesFinite, WorkingFinite
    <2>2. Q <= Cardinality(D) + Cardinality(W) + x
      BY DEF QuorumTally
    <2>3. V = IF q = r THEN W \ {a} ELSE W
      BY <1>0, <1>7 DEF Nothing
    <2>4. q = r => a \in W
      BY <1>0
    <2>5. /\ Entries("gradient_quorum_reached", q)' = Entries("gradient_quorum_reached", q)
          /\ Entries("round_completed", q)' = IF q = r THEN D \cup {n + 1} ELSE D
      BY <1>6
    <2> HIDE DEF D, W, V, x, Q
    <2>6. CASE q = r
      <3>1. Cardinality(D \cup {n + 1}) = Cardinality(D) + 1
        BY <2>1, FS_AddElement
      <3>2. Cardinality(V) = Cardinality(W) - 1
        BY <2>1, <2>3, <2>4, <2>6, FS_RemoveElement
      <3>3. Q <= Cardinality(D \cup {n + 1}) + Cardinality(V) + x
        BY <2>1, <2>2, <3>1, <3>2
      <3> QED
        BY <2>5, <2>6, <3>3 DEF Q, V, x
    <2>7. CASE q # r
      <3>1. Q <= Cardinality(D) + Cardinality(V) + x
        BY <2>2, <2>3, <2>7
      <3> QED
        BY <2>5, <2>7, <3>1 DEF Q, V, x
    <2> QED
      BY <2>6, <2>7
  <1>16. ReceiptsApart'
    <2>1. Completions' = Completions \cup {n + 1} /\ n + 1 \notin Completions
      BY <1>0, <1>3, <1>4, <1>5, <1>9 DEF Completions
    <2>2. \A i \in Completions : audit'[i] = audit[i]
      BY <1>0, <1>5 DEF Completions
    <2>3. \A hs, ks : Apart(hs, <<>>) /\ Apart(<<>>, hs) /\ (Apart(hs, ks) <=> Apart(ks, hs))
      BY ApartFacts
    <2>4. Within(<<>>, deliveries) /\ Nothing.gradients = <<>>
      BY DEF Within, Nothing
    <2>5. /\ Within(gs, deliveries)
          /\ Apart(gs, state.pending_gradients)
          /\ \A b \in Aggregators : b # a => Apart(gs, completing[b].gradients)
          /\ \A i \in Completions : Apart(audit[i].gradients, gs)
      BY <1>0 DEF ReceiptsApart
    <2>6. ASSUME NEW b \in Aggregators
          PROVE  /\ Within(completing'[b].gradients, deliveries)
                 /\ Apart(completing'[b].gradients, state.pending_gradients)
                 /\ \A i \in Completions : Apart(audit[i].gradients, completing'[b].gradients)
                 /\ Apart(gs, completing'[b].gradients)
                 /\ \A d \in Aggregators : b # d =>
                      Apart(completing'[b].gradients, completing'[d].gradients)
      <3>1. CASE b = a
        BY <3>1, <2>3, <2>4, <1>7
      <3>2. CASE b # a
        <4>1. /\ Within(completing[b].gradients, deliveries)
              /\ Apart(completing[b].gradients, state.pending_gradients)
              /\ \A i \in Completions : Apart(audit[i].gradients, completing[b].gradients)
              /\ \A d \in Aggregators : b # d =>
                   Apart(completing[b].gradients, completing[d].gradients)
          BY DEF ReceiptsApart
        <4> QED
          BY <3>2, <4>1, <2>3, <2>4, <2>5, <1>7
      <3> QED
        BY <3>1, <3>2
    <2>7. ASSUME NEW i \in Completions \cup {n + 1}
          PROVE  /\ Within(audit'[i].gradients, deliveries)
                 /\ Apart(audit'[i].gradients, state.pending_gradients)
                 /\ \A b \in Aggregators : Apart(audit'[i].gradients, completing'[b].gradients)
                 /\ \A j \in Completions \cup {n + 1} : i # j =>
                      Apart(audit'[i].gradients, audit'[j].gradients)
      <3>1. audit'[n + 1].gradients = gs
        BY <1>3, <1>4
      <3>2. CASE i = n + 1
        BY <3>1, <3>2, <2>2, <2>3, <2>5, <2>6
      <3>3. CASE i \in Completions
        <4>1. /\ Within(audit[i].gradients, deliveries)
              /\ Apart(audit[i].gradients, state.pending_gradients)
              /\ \A j \in Completions : i # j => Apart(audit[i].gradients, audit[j].gradients)
          BY <3>3 DEF ReceiptsApart
        <4> QED
          BY <3>1, <3>3, <4>1, <2>2, <2>5, <2>6
      <3> QED
        BY <3>2, <3>3
    <2>8. Within(state.pending_gradients, deliveries)
      BY DEF ReceiptsApart
    <2> QED
      BY <2>1, <2>6, <2>7, <2>8, <1>1 DEF ReceiptsApart
  <1>17. GradientsOfRound'
    <2> SUFFICES ASSUME NEW i \in 1..Len(state.pending_gradients)
                 PROVE  \E j \in Entries("gradient_received", state.current_round)' :
                          Last(audit'[j].gradients) = state.pending_gradients[i]
      BY <1>1 DEF GradientsOfRound
    <2>1. PICK j \in Entries("gradient_received", state.current_round) :
            Last(audit[j].gradients) = state.pending_gradients[i]
      BY DEF GradientsOfRound
    <2>2. PICK c : c = state.current_round
      OBVIOUS
    <2>3. j \in Entries("gradient_received", c)' /\ audit'[j] = audit[j]
      <3>1. j \in Entries("gradient_received", c)'
        BY <2>2, <1>6
      <3>2. audit'[j] = audit[j]
        BY <1>0, <1>5 DEF Entries
      <3> QED
        BY <3>1, <3>2
    <2>4. state'.current_round = c
      BY <2>2, <1>1
    <2>5. j \in Entries("gradient_received", state.current_round)'
      BY <2>3, <2>4 DEF Entries
    <2> QED
      BY <2>1, <2>3, <2>5
  <1> QED
    BY <1>8, <1>10, <1>12, <1>13, <1>14, <1>15, <1>16, <1>17

LEMMA TrainingNextInv == IInv /\ [TrainingNext]_trainingVars => IInv'
  <1> SUFFICES ASSUME IInv, [TrainingNext]_trainingVars PROVE IInv'
    OBVIOUS
  <1>1. ASSUME NEW q \in Quorums, start_round(q) PROVE IInv'
    BY <1>1, StartRoundInv
  <1>2. ASSUME NEW w \in Workers, SendGradient(w) PROVE IInv'
    <2>1. sent' \subseteq [round: Nat \ {0}, worker: Workers]
      BY <1>2, StateTypes DEF SendGradient, IInv, TrainingTypeOK
    <2> QED
      BY <1>2, <2>1, SendInv DEF SendGradient
  <1>3. ASSUME NEW g \in sent, receive_gradient(g) PROVE IInv'
    BY <1>3, ReceiveInv
  <1>4. ASSUME NEW a \in Aggregators, NEW r \in 1..MaxRounds, TakeRound(a, r) PROVE IInv'
    BY <1>4, TakeRoundInv
  <1>5. ASSUME NEW a \in Aggregators, ReportRound(a) PROVE IInv'
    BY <1>5, ReportRoundInv
  <1>6. CASE UNCHANGED trainingVars
    BY <1>6, SendInv DEF trainingVars, IInv, TrainingTypeOK
  <1> QED
    BY <1>1, <1>2, <1>3, <1>4, <1>5, <1>6 DEF TrainingNext

-----------------------------------------------------------------------------
(* The theorems.                                                           *)

\* The four facts the evidence rests on hold in every reachable state.
THEOREM TrainingInvariance == TrainingSpec => []IInv
  <1>1. TrainingInit => IInv
    BY TrainingInitInv
  <1>2. IInv /\ [TrainingNext]_trainingVars => IInv'
    BY TrainingNextInv
  <1> QED
    BY <1>1, <1>2, PTL DEF TrainingSpec

\* Every round_completed entry rests on an earlier gradient_quorum_reached entry
\* of its round, and no quorum is reported twice for one completion, although
\* complete_round_after_aggregation writes its entry after releasing the lock.
THEOREM CompletionsAreBacked == TrainingSpec => []CompletionsBacked
  <1>1. IInv => CompletionsBacked
    <2> SUFFICES ASSUME IInv PROVE QuorumOnce
      BY DEF IInv, CompletionsBacked
    <2> SUFFICES ASSUME NEW r \in 1..MaxRounds
                 PROVE  Cardinality(Entries("gradient_quorum_reached", r))
                          <= Cardinality(Entries("round_completed", r))
                             + Cardinality({a \in Aggregators : completing[a].round = r}) + 1
      BY DEF QuorumOnce
    <2> DEFINE Q == Cardinality(Entries("gradient_quorum_reached", r))
               D == Cardinality(Entries("round_completed", r))
               W == Cardinality({a \in Aggregators : completing[a].round = r})
               x == IF r = state.current_round /\ Len(state.pending_gradients) < required_workers
                    THEN 0 ELSE 1
    <2>1. Q \in Nat /\ D \in Nat /\ W \in Nat /\ x \in {0, 1}
      BY EntriesFinite, WorkingFinite DEF IInv
    <2>2. Q <= D + W + x
      BY DEF IInv, QuorumTally
    <2> HIDE DEF Q, D, W, x
    <2>3. Q <= D + W + 1
      BY <2>1, <2>2
    <2> QED
      BY <2>3 DEF Q, D, W
  <1> QED
    BY <1>1, TrainingInvariance, PTL

\* A receipt of a gradient goes into one completion at most, and what is pending
\* was received as a gradient of the current round, whoever aggregates
\* (receive_gradient, complete_round_after_aggregation).
THEOREM GradientsAreCounted == TrainingSpec => []GradientsCounted
  <1>1. IInv => GradientsCounted
    <2> SUFFICES ASSUME IInv PROVE GradientsUsedOnce
      BY DEF IInv, GradientsCounted
    <2> SUFFICES ASSUME NEW i \in Completions, NEW j \in Completions, i # j,
                        NEW g \in ToSet(audit[i].gradients), g \in ToSet(audit[j].gradients)
                 PROVE  FALSE
      BY DEF GradientsUsedOnce, Completions
    <2>1. audit[i].gradients \in Seq(Gradient) /\ audit[j].gradients \in Seq(Gradient)
      BY HeldTypes DEF IInv
    <2>2. PICK k \in 1..Len(audit[i].gradients) : audit[i].gradients[k] = g
      BY <2>1 DEF ToSet
    <2>3. PICK l \in 1..Len(audit[j].gradients) : audit[j].gradients[l] = g
      BY <2>1 DEF ToSet
    <2>4. Apart(audit[i].gradients, audit[j].gradients)
      BY DEF IInv, ReceiptsApart
    <2> QED
      BY <2>2, <2>3, <2>4 DEF Apart
  <1> QED
    BY <1>1, TrainingInvariance, PTL

\* A reported quorum has as many gradients as its round was announced with, or the
\* first round was announced with fewer (start_round keeps that minimum).
THEOREM QuorumsAsAnnounced == TrainingSpec => []QuorumAsAnnounced
  <1>1. IInv => QuorumAsAnnounced
    <2> DEFINE Announced(r) == audit[CHOOSE i \in Entries("round_started", r) : TRUE].min_workers
    <2> SUFFICES ASSUME IInv, NEW i \in 1..Len(audit),
                        audit[i].event = "gradient_quorum_reached"
                 PROVE  \/ Len(audit[i].gradients) >= Announced(audit[i].round)
                        \/ Announced(1) < Announced(audit[i].round)
      BY DEF QuorumAsAnnounced
    <2>1. ASSUME NEW r \in 1..state.current_round
          PROVE  /\ (CHOOSE k \in Entries("round_started", r) : TRUE) \in Entries("round_started", r)
                 /\ Announced(r) \in Nat
      <3>1. PICK k : k = CHOOSE e \in Entries("round_started", r) : TRUE
        OBVIOUS
      <3>2. k \in Entries("round_started", r)
        BY <3>1 DEF IInv, RoundsAnnounced
      <3>3. audit[k] \in AuditEvent /\ audit[k].event = "round_started"
        BY <3>2 DEF IInv, TrainingTypeOK, Entries
      <3>4. audit[k].min_workers \in Nat
        BY <3>3 DEF AuditEvent
      <3> QED
        BY <3>1, <3>2, <3>4
    <2>2. audit[i].round \in 1..state.current_round /\ 1 \in 1..state.current_round
      BY StateTypes DEF IInv, RoundsAnnounced
    <2>3. Announced(1) = state.min_workers
      BY <2>1, <2>2 DEF IInv, RoundsAnnounced
    <2>4. Announced(audit[i].round) \in Nat
      BY <2>1, <2>2
    <2>5. Len(audit[i].gradients) >= required_workers
      BY DEF IInv, QuorumsFull
    <2>6. Len(audit[i].gradients) \in Nat
      <3>1. audit[i] \in AuditEvent
        BY DEF IInv, TrainingTypeOK
      <3>2. audit[i].gradients \in Seq(Gradient)
        BY <3>1 DEF AuditEvent
      <3> QED
        BY <3>2
    <2>7. state.min_workers \in Nat /\ required_workers >= state.min_workers
      BY StateTypes DEF IInv, required_workers
    <2> HIDE DEF Announced
    <2> QED
      BY <2>3, <2>4, <2>5, <2>6, <2>7, StateTypes DEF IInv
  <1> QED
    BY <1>1, TrainingInvariance, PTL

=============================================================================
