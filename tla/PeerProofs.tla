----------------------------- MODULE PeerProofs -----------------------------
(***************************************************************************)
(* Proofs about a node's peers: the peer book with its dials, and the      *)
(* synchronisation of chains.  They share no state; BookInv and SyncInv    *)
(* are their inductive invariants.                                         *)
(*                                                                         *)
(* A dial gives up its slot before it registers, so that slot and          *)
(* registration each need an argument of their own.  Of the chains, what   *)
(* carries the rest is that every block that is stored, queued or sent is  *)
(* one that some miner made, on the parent it names (Genuine).             *)
(***************************************************************************)
EXTENDS PeerBook, ChainSync, FiniteSetTheorems, TLAPS

Sources == {"bootstrap", "dial", "handshake"}

\* The records that the code writes: quarantined from the threshold on, and not below.
KnownRecords ==
    {r \in [source : Sources, ever_connected : BOOLEAN, failed_connects : Nat,
            quarantined_until : Nat] :
        IF r.failed_connects < QUARANTINE_THRESHOLD THEN r.quarantined_until = 0
        ELSE r.quarantined_until >= QUARANTINE_BASE}

Records == KnownRecords \cup {NoRecord}

TaskSteps == {"reserve", "connect", "success", "write success", "register", "registered",
              "write registered", "failure", "write failure", "open"}

TaskStates == [at : TaskSteps, addr : Endpoints, record : Records]

DialStates == [failures : Nat, next_attempt : Int, in_flight : BOOLEAN]

PeerTypeOK ==
    /\ now \in Nat
    /\ seeds \in SeedSets
    /\ book \in [Endpoints -> Records]
    /\ dial_state \in [Endpoints -> DialStates]
    /\ connected_peers \subseteq Endpoints
    /\ dialer \in [Dialers -> TaskStates \cup {NoTask}]
    /\ handshake \in [at : {"write"}, addr : Endpoints, record : Records] \cup {NoTask}
    /\ outcome \in [Endpoints -> [failures : Nat, since : Nat]]
    /\ \A a \in Endpoints : outcome[a].since <= now

\* Only seeds of the present configuration are marked as such, in the book and in
\* the records that tasks have read and not yet written back.
SeedsMarked ==
    /\ \A a \in Endpoints : book[a].source = "bootstrap" => a \in seeds
    /\ \A d \in Dialers : dialer[d] # NoTask /\ dialer[d].record.source = "bootstrap"
                            => dialer[d].addr \in seeds
    /\ handshake # NoTask /\ handshake.record.source = "bootstrap" => handshake.addr \in seeds

\* Task d dials a, and is at one of these steps.
Dials(d, a, steps) == dialer[d].at \in steps /\ dialer[d].addr = a

RegisteredSteps == {"registered", "write registered", "open"}

\* The slot of an address is taken by the one dial in flight, which was let in when
\* its wait was over.
SlotsHeld ==
    /\ \A d \in Dialers : dialer[d].at = "connect" =>
         /\ dial_state[dialer[d].addr].in_flight
         /\ dial_state[dialer[d].addr].next_attempt <= now
    /\ \A d, e \in Dialers : dialer[d].at = "connect" /\ dialer[e].at = "connect"
                             /\ dialer[d].addr = dialer[e].addr => d = e

\* A registered address has one registered connection.
RegisteredHeld ==
    /\ \A d \in Dialers : dialer[d].at \in RegisteredSteps => dialer[d].addr \in connected_peers
    /\ \A d, e \in Dialers : dialer[d].at \in RegisteredSteps /\ dialer[e].at \in RegisteredSteps
                             /\ dialer[d].addr = dialer[e].addr => d = e
    /\ \A a \in connected_peers : \E d \in Dialers : Dials(d, a, RegisteredSteps)

\* The next attempt is as far from the last failure as the backoff says.
WaitsCounted ==
    \A a \in Endpoints : dial_state[a].failures > 0 =>
        dial_state[a].next_attempt = outcome[a].since + Backoff(dial_state[a].failures)

RecordingSteps == {"success", "write success", "register", "registered", "write registered",
                   "failure", "write failure"}

Counted(a) == IF book[a] = NoRecord THEN 0 ELSE book[a].failed_connects

\* What the book says of a while task d records an outcome.
RecordedBy(d, a) ==
    /\ dialer[d].at \in {"success", "write success"} => outcome[a].failures = 0
    /\ dialer[d].at \in {"register", "registered", "write registered"}
         => outcome[a].failures = 0 /\ Counted(a) = 0
    /\ dialer[d].at \in {"failure", "write failure"} => outcome[a].failures = Counted(a) + 1

\* What it says when nobody does.
Settled(a) ==
    /\ Counted(a) = outcome[a].failures
    /\ outcome[a].failures >= QUARANTINE_THRESHOLD
         => book[a].quarantined_until >= outcome[a].since + QUARANTINE_BASE

FollowedAt(a) ==
    /\ \A d, e \in Dialers : Dials(d, a, RecordingSteps) /\ Dials(e, a, RecordingSteps) => d = e
    /\ \A d \in Dialers : Dials(d, a, RecordingSteps) => RecordedBy(d, a)
    /\ (\A d \in Dialers : ~Dials(d, a, RecordingSteps)) => Settled(a)

Followed == \A a \in Endpoints \ raced : FollowedAt(a)

BookInv ==
    /\ PeerTypeOK
    /\ SeedsMarked
    /\ DialsRoutable
    /\ SlotsHeld
    /\ RegisteredHeld
    /\ WaitsCounted
    /\ Followed

-----------------------------------------------------------------------------
(* The operators: backoffs, records, and the book of a start.              *)

LEMMA ShiftedPositive ==
    ASSUME NEW n \in 0..6
    PROVE  Shifted(n) \in Nat /\ Shifted(n) >= 1
<1>1. n = 0 \/ n = 1 \/ n = 2 \/ n = 3 \/ n = 4 \/ n = 5 \/ n = 6
  OBVIOUS
<1>2. CASE n = 0
  <2>1. 2^0 = 1
    OBVIOUS
  <2> QED  BY <1>2, <2>1 DEF Shifted
<1>3. CASE n = 1
  <2>1. 2^1 = 2
    OBVIOUS
  <2> QED  BY <1>3, <2>1 DEF Shifted
<1>4. CASE n = 2
  <2>1. 2^2 = 4
    OBVIOUS
  <2> QED  BY <1>4, <2>1 DEF Shifted
<1>5. CASE n = 3
  <2>1. 2^3 = 8
    OBVIOUS
  <2> QED  BY <1>5, <2>1 DEF Shifted
<1>6. CASE n = 4
  <2>1. 2^4 = 16
    OBVIOUS
  <2> QED  BY <1>6, <2>1 DEF Shifted
<1>7. CASE n = 5
  <2>1. 2^5 = 32
    OBVIOUS
  <2> QED  BY <1>7, <2>1 DEF Shifted
<1>8. CASE n = 6
  <2>1. 2^6 = 64
    OBVIOUS
  <2> QED  BY <1>8, <2>1 DEF Shifted
<1> QED  BY <1>1, <1>2, <1>3, <1>4, <1>5, <1>6, <1>7, <1>8

LEMMA QuarantineBackoff ==
    ASSUME NEW failed \in Nat, failed >= QUARANTINE_THRESHOLD
    PROVE  quarantine_backoff(failed) \in Nat /\ quarantine_backoff(failed) >= QUARANTINE_BASE
<1>1. MinOf(failed - QUARANTINE_THRESHOLD, 6) \in 0..6
  BY PeerBookAssumption DEF MinOf
<1>2. PICK k \in Nat : k >= 1 /\ k = Shifted(MinOf(failed - QUARANTINE_THRESHOLD, 6))
  BY <1>1, ShiftedPositive
<1>3. QUARANTINE_BASE \in Nat
  BY PeerBookAssumption
<1>4. QUARANTINE_BASE * k \in Nat /\ QUARANTINE_BASE * k >= QUARANTINE_BASE
  BY <1>2, <1>3
<1> QED  BY <1>2, <1>4 DEF quarantine_backoff

LEMMA BackoffTyped ==
    ASSUME NEW failures \in Nat
    PROVE  Backoff(failures) \in Int
<1>1. MinOf(failures, 8) \in Nat
  BY DEF MinOf
<1>2. Shifted(MinOf(failures, 8)) \in Int
  BY <1>1 DEF Shifted
<1>3. DIAL_BACKOFF_BASE_SECS * Shifted(MinOf(failures, 8)) \in Int /\ DIAL_BACKOFF_MAX_SECS \in Int
  BY <1>2, PeerBookAssumption
<1> QED  BY <1>3 DEF Backoff, MinOf

RecordCount(r) == IF r = NoRecord THEN 0 ELSE r.failed_connects

LEMMA RecordsApart ==
    ASSUME NEW r \in Records
    PROVE  /\ r # NoRecord <=> r \in KnownRecords
           /\ r.source = "bootstrap" => r # NoRecord
           /\ RecordCount(r) \in Nat
  BY DEF Records, KnownRecords, NoRecord, Sources, RecordCount

\* What upsert_known_peer makes of a record.
LEMMA UpsertedRecord ==
    ASSUME now \in Nat, NEW r \in Records, NEW source \in Sources,
           NEW mark \in {"connected", "failed", "seen"}, NEW u, u = Upserted(r, source, mark)
    PROVE  /\ u \in KnownRecords
           /\ u.source = "bootstrap" => source = "bootstrap" \/ r.source = "bootstrap"
           /\ mark = "connected" => RecordCount(u) = 0
           /\ mark = "seen" => /\ RecordCount(u) = RecordCount(r)
                               /\ r # NoRecord => u.quarantined_until = r.quarantined_until
           /\ mark = "failed" =>
                /\ RecordCount(u) = RecordCount(r) + 1
                /\ RecordCount(u) >= QUARANTINE_THRESHOLD
                     => u.quarantined_until >= now + QUARANTINE_BASE
<1> USE PeerBookAssumption
<1>1. PICK old : old = IF r = NoRecord THEN NewRecord(source) ELSE r
  OBVIOUS
<1>2. /\ old \in KnownRecords
      /\ old.failed_connects = RecordCount(r)
      /\ old.source = "bootstrap" => source = "bootstrap" \/ r.source = "bootstrap"
      /\ r # NoRecord => old = r
  BY <1>1, RecordsApart DEF NewRecord, KnownRecords, Sources, RecordCount
<1>3. PICK new : new = [old EXCEPT !.source = IF should_replace_source(@, source) THEN source ELSE @]
  OBVIOUS
<1>4. /\ new \in KnownRecords
      /\ new.source = "bootstrap" => source = "bootstrap" \/ r.source = "bootstrap"
      /\ new.failed_connects = RecordCount(r)
      /\ new.quarantined_until = old.quarantined_until
  BY <1>2, <1>3 DEF KnownRecords, Sources
<1>5. RecordCount(r) \in Nat
  BY RecordsApart
<1>6. \A x \in KnownRecords : RecordCount(x) = x.failed_connects
  BY DEF RecordCount, KnownRecords, NoRecord, Sources
<1>7. CASE mark = "seen"
  <2>1. u = new
    BY <1>1, <1>3, <1>7 DEF Upserted
  <2> QED  BY <1>2, <1>4, <1>6, <1>7, <2>1
<1>8. CASE mark = "connected"
  <2>1. u = [new EXCEPT !.ever_connected = TRUE, !.failed_connects = 0, !.quarantined_until = 0]
    BY <1>1, <1>3, <1>8 DEF Upserted
  <2>2. /\ u \in [source : Sources, ever_connected : BOOLEAN, failed_connects : Nat,
                  quarantined_until : Nat]
        /\ u.source = new.source /\ u.failed_connects = 0 /\ u.quarantined_until = 0
    <3>1. new \in [source : Sources, ever_connected : BOOLEAN, failed_connects : Nat,
                   quarantined_until : Nat]
      BY <1>4 DEF KnownRecords
    <3>2. u.source = new.source /\ u.failed_connects = 0 /\ u.quarantined_until = 0
      BY <2>1, <3>1
    <3>3. u = [source |-> new.source, ever_connected |-> TRUE, failed_connects |-> 0,
               quarantined_until |-> 0]
      BY <2>1, <3>1, Zenon
    <3>4. new.source \in Sources
      BY <3>1
    <3>5. u \in [source : Sources, ever_connected : BOOLEAN, failed_connects : Nat,
                 quarantined_until : Nat]
      BY <3>3, <3>4
    <3> QED  BY <3>2, <3>5
  <2>3. u \in KnownRecords
    BY <2>2 DEF KnownRecords
  <2> QED  BY <1>4, <1>6, <1>8, <2>2, <2>3
<1>9. CASE mark = "failed"
  <2>1. PICK q : q = IF old.failed_connects + 1 >= QUARANTINE_THRESHOLD
                     THEN now + quarantine_backoff(old.failed_connects + 1) ELSE new.quarantined_until
    OBVIOUS
  <2>2. u = [new EXCEPT !.failed_connects = old.failed_connects + 1, !.quarantined_until = q]
    BY <1>1, <1>3, <1>9, <2>1 DEF Upserted
  <2>3. PICK n \in Nat : n = RecordCount(r) + 1
    BY <1>5
  <2>4. u = [new EXCEPT !.failed_connects = n, !.quarantined_until = q]
    BY <1>2, <2>2, <2>3
  <2>5. /\ n >= QUARANTINE_THRESHOLD => q \in Nat /\ q >= now + QUARANTINE_BASE
    BY <1>2, <2>1, <2>3, QuarantineBackoff
  <2>6. n < QUARANTINE_THRESHOLD => q = 0
    <3>1. new.failed_connects \in Nat /\ new.quarantined_until \in Nat
          /\ (new.failed_connects < QUARANTINE_THRESHOLD => new.quarantined_until = 0)
      BY <1>4 DEF KnownRecords
    <3> QED  BY <1>2, <1>4, <1>5, <2>1, <2>3, <3>1
  <2>7. q \in Nat /\ (IF n < QUARANTINE_THRESHOLD THEN q = 0 ELSE q >= QUARANTINE_BASE)
    BY <2>5, <2>6
  <2>8. u \in KnownRecords /\ u.source = new.source /\ u.failed_connects = n /\ u.quarantined_until = q
    BY <1>4, <2>4, <2>7 DEF KnownRecords
  <2> QED  BY <1>4, <1>6, <1>9, <2>3, <2>5, <2>8
<1> QED  BY <1>7, <1>8, <1>9

\* The book that a start leaves: known records only, and seeds of its own only.
LEMMA BookOfStart ==
    ASSUME now \in Nat, NEW b \in [Endpoints -> Records], NEW s \in SUBSET Endpoints,
           NEW c, c = BookAtStart(b, s)
    PROVE  /\ c \in [Endpoints -> Records]
           /\ \A a \in Endpoints : c[a].source = "bootstrap" => a \in s
           /\ \A a \in Endpoints : RecordCount(c[a]) \in {0, RecordCount(b[a])}
<1>1. PICK remembered : remembered =
        [a \in Endpoints |-> IF a \in s THEN Upserted(b[a], "bootstrap", "seen") ELSE b[a]]
  OBVIOUS
<1>2. /\ remembered \in [Endpoints -> Records]
      /\ \A a \in Endpoints : RecordCount(remembered[a]) = RecordCount(b[a])
  <2>1. ASSUME NEW a \in Endpoints, NEW u, u = Upserted(b[a], "bootstrap", "seen")
        PROVE  u \in KnownRecords /\ RecordCount(u) = RecordCount(b[a])
    <3>1. "bootstrap" \in Sources /\ "seen" \in {"connected", "failed", "seen"} /\ b[a] \in Records
      BY DEF Sources
    <3> QED  BY <2>1, <3>1, UpsertedRecord
  <2> QED  BY <1>1, <2>1 DEF Records
<1>3. PICK synced : synced = sync_bootstrap_peers(remembered, s)
  OBVIOUS
<1>4. /\ synced \in [Endpoints -> Records]
      /\ \A a \in Endpoints : synced[a].source = "bootstrap" => a \in s
      /\ \A a \in Endpoints : synced[a] = NoRecord \/ synced[a] = remembered[a]
  BY <1>2, <1>3 DEF sync_bootstrap_peers, Records, NoRecord
<1>5. c = prune_known_peers(synced)
  BY <1>1, <1>3 DEF BookAtStart
<1>6. \A a \in Endpoints : c[a] = NoRecord \/ c[a] = synced[a]
  BY <1>5 DEF prune_known_peers
<1>7. c = [a \in Endpoints |-> c[a]]
  BY <1>5 DEF prune_known_peers
<1>8. RecordCount(NoRecord) = 0 /\ NoRecord \in Records /\ NoRecord.source # "bootstrap"
  BY DEF RecordCount, Records, NoRecord
<1>9. \A a \in Endpoints : RecordCount(c[a]) \in {0, RecordCount(b[a])}
  BY <1>2, <1>4, <1>6, <1>8
<1>10. /\ \A a \in Endpoints : c[a] \in Records
       /\ \A a \in Endpoints : c[a].source = "bootstrap" => a \in s
  BY <1>4, <1>6, <1>8
<1> QED  BY <1>7, <1>9, <1>10

-----------------------------------------------------------------------------
(* A step of one dial task.                                                *)

LEMMA TaskKinds ==
    ASSUME NEW t \in TaskStates \cup {NoTask}
    PROVE  /\ t # NoTask => t \in TaskStates
           /\ t # NoTask <=> t.at # "idle"
           /\ t.at # "idle" => t.at \in TaskSteps /\ t.addr \in Endpoints /\ t.record \in Records
<1>1. CASE t \in TaskStates
  <2>1. t.at \in TaskSteps /\ t.addr \in Endpoints /\ t.record \in Records
    BY <1>1 DEF TaskStates
  <2>2. t.at # "idle"
    BY <2>1 DEF TaskSteps
  <2> QED  BY <1>1, <2>1, <2>2 DEF NoTask
<1>2. CASE t = NoTask
  BY <1>2 DEF NoTask
<1> QED  BY <1>1, <1>2

LEMMA TaskTyped ==
    ASSUME PeerTypeOK, NEW d \in Dialers
    PROVE  /\ dialer[d] # NoTask => dialer[d] \in TaskStates
           /\ dialer[d] # NoTask <=> dialer[d].at # "idle"
           /\ dialer[d].at # "idle" => /\ dialer[d].at \in TaskSteps
                                       /\ dialer[d].addr \in Endpoints
                                       /\ dialer[d].record \in Records
<1>1. dialer[d] \in TaskStates \cup {NoTask}
  BY DEF PeerTypeOK
<1> QED  BY <1>1, TaskKinds

\* Task d becomes t, and the others stay as they are.
Becomes(d, t) ==
    /\ dialer' \in [Dialers -> TaskStates \cup {NoTask}]
    /\ dialer'[d] = t
    /\ \A e \in Dialers \ {d} : dialer'[e] = dialer[e]

LEMMA TaskEnds ==
    ASSUME PeerTypeOK, NEW d \in Dialers, dialer' = [dialer EXCEPT ![d] = NoTask]
    PROVE  /\ Becomes(d, NoTask) /\ dialer'[d].at = "idle"
  BY DEF PeerTypeOK, Becomes, NoTask

LEMMA TaskBecomes ==
    ASSUME PeerTypeOK, NEW d \in Dialers, NEW t \in TaskStates,
           dialer' = [dialer EXCEPT ![d] = t]
    PROVE  Becomes(d, t)
  BY DEF PeerTypeOK, Becomes

LEMMA TaskGoes ==
    ASSUME PeerTypeOK, NEW d \in Dialers, dialer[d].at # "idle", NEW at \in TaskSteps, Goto(d, at)
    PROVE  \E t \in TaskStates :
             /\ Becomes(d, t)
             /\ t.at = at /\ t.addr = dialer[d].addr /\ t.record = dialer[d].record
<1>1. dialer[d] \in TaskStates
  BY TaskTyped
<1>2. PICK t : t = [dialer[d] EXCEPT !.at = at]
  OBVIOUS
<1>3. t \in TaskStates /\ t.at = at /\ t.addr = dialer[d].addr /\ t.record = dialer[d].record
  BY <1>1, <1>2 DEF TaskStates
<1>4. dialer' = [dialer EXCEPT ![d] = t]
  BY <1>2 DEF Goto
<1> QED  BY <1>3, <1>4, TaskBecomes

\* Where a task dials: a seed, or a public address.
LEMMA RoutesKept ==
    ASSUME PeerTypeOK, DialsRoutable, NEW d \in Dialers, NEW t, Becomes(d, t), seeds' = seeds,
           t = NoTask \/ t.addr \in seeds \cup PublicPeers
    PROVE  DialsRoutable'
  BY DEF DialsRoutable, Becomes

\* A task takes on a record that is marked as a seed only if it is one.
LEMMA MarksKept ==
    ASSUME SeedsMarked, NEW d \in Dialers, NEW t, Becomes(d, t), seeds' = seeds,
           \A a \in Endpoints : book'[a].source = "bootstrap" => a \in seeds,
           handshake' = handshake,
           t = NoTask \/ (t.record.source = "bootstrap" => t.addr \in seeds)
    PROVE  SeedsMarked'
  BY DEF SeedsMarked, Becomes

\* A task that is dialling neither before nor after the step leaves the slots.
LEMMA SlotsKept ==
    ASSUME SlotsHeld, NEW d \in Dialers, NEW t, Becomes(d, t), t.at # "connect",
           dial_state' = dial_state, now' = now
    PROVE  SlotsHeld'
  BY DEF SlotsHeld, Becomes

LEMMA RegistrationsKept ==
    ASSUME RegisteredHeld, NEW d \in Dialers, NEW t, Becomes(d, t), connected_peers' = connected_peers,
           \/ dialer[d].at \notin RegisteredSteps /\ t.at \notin RegisteredSteps
           \/ dialer[d].at \in RegisteredSteps /\ t.at \in RegisteredSteps /\ t.addr = dialer[d].addr
    PROVE  RegisteredHeld'
<1>1. \A a \in connected_peers' : \E e \in Dialers : Dials(e, a, RegisteredSteps)'
  BY DEF RegisteredHeld, Becomes, Dials
<1>2. \A e \in Dialers : dialer'[e].at \in RegisteredSteps => dialer'[e].addr \in connected_peers'
  BY DEF RegisteredHeld, Becomes
<1>3. \A e, f \in Dialers : dialer'[e].at \in RegisteredSteps /\ dialer'[f].at \in RegisteredSteps
                            /\ dialer'[e].addr = dialer'[f].addr => e = f
  BY DEF RegisteredHeld, Becomes
<1> QED  BY <1>1, <1>2, <1>3 DEF RegisteredHeld

LEMMA WaitsKept ==
    ASSUME WaitsCounted, dial_state' = dial_state, outcome' = outcome
    PROVE  WaitsCounted'
  BY DEF WaitsCounted

\* A step of a task that records no outcome of b leaves the book of b followed.
LEMMA FollowedElsewhere ==
    ASSUME NEW b \in Endpoints, FollowedAt(b), NEW d \in Dialers, NEW t, Becomes(d, t),
           ~Dials(d, b, RecordingSteps), t.at \notin RecordingSteps \/ t.addr # b,
           book'[b] = book[b], outcome'[b] = outcome[b]
    PROVE  FollowedAt(b)'
<1>1. \A e \in Dialers : Dials(e, b, RecordingSteps)' <=> Dials(e, b, RecordingSteps)
  BY DEF Becomes, Dials
<1>2. (Settled(b)' <=> Settled(b)) /\ Counted(b)' = Counted(b)
  BY DEF Settled, Counted
<1>3. ASSUME NEW e \in Dialers, Dials(e, b, RecordingSteps), RecordedBy(e, b)
      PROVE  RecordedBy(e, b)'
  <2>1. e # d /\ dialer'[e] = dialer[e]
    BY <1>3 DEF Becomes
  <2> QED  BY <1>2, <1>3, <2>1 DEF RecordedBy
<1> QED  BY <1>1, <1>2, <1>3 DEF FollowedAt

\* A task that records no outcome before or after the step leaves the book followed.
LEMMA FollowedAside ==
    ASSUME Followed, NEW d \in Dialers, NEW t, Becomes(d, t),
           dialer[d].at \notin RecordingSteps, t.at \notin RecordingSteps,
           book' = book, outcome' = outcome, raced' = raced
    PROVE  Followed'
<1>1. \A b \in Endpoints : ~Dials(d, b, RecordingSteps)
  BY DEF Dials
<1>2. \A b \in Endpoints \ raced : FollowedAt(b)'
  BY <1>1, FollowedElsewhere DEF Followed
<1> QED  BY <1>2 DEF Followed

-----------------------------------------------------------------------------
(* The actions.                                                            *)

LEMMA DialStep ==
    ASSUME BookInv, NEW d \in Dialers, NEW a \in Endpoints, dial(d, a)
    PROVE  BookInv'
<1> USE DEF BookInv
<1>1. PICK t : t = [at |-> "reserve", addr |-> a, record |-> NoRecord]
  OBVIOUS
<1>2. t \in TaskStates /\ t.at = "reserve" /\ t.addr = a /\ t.record = NoRecord /\ t # NoTask
  BY <1>1 DEF TaskStates, TaskSteps, Records, NoTask
<1>3. Becomes(d, t)
  BY <1>1, <1>2, TaskBecomes DEF dial
<1>4. dialer[d].at = "idle"
  BY DEF dial, NoTask
<1>5. PeerTypeOK'
  BY <1>3 DEF PeerTypeOK, dial, Becomes
<1>6. a \in seeds \cup PublicPeers
  BY DEF dial, list_bootstrap_peer_addresses, is_public_peer_endpoint, SeedsMarked
<1>7. DialsRoutable'
  BY <1>2, <1>3, <1>6, RoutesKept DEF dial
<1>8. SeedsMarked'
  <2>1. \A b \in Endpoints : book'[b].source = "bootstrap" => b \in seeds
    BY DEF dial, SeedsMarked
  <2>2. t.record.source # "bootstrap"
    BY <1>2 DEF NoRecord
  <2> QED  BY <1>3, <2>1, <2>2, MarksKept DEF dial
<1>9. SlotsHeld'
  BY <1>2, <1>3, SlotsKept DEF dial
<1>10. RegisteredHeld'
  BY <1>2, <1>3, <1>4, RegistrationsKept DEF dial, RegisteredSteps
<1>11. Followed'
  BY <1>2, <1>3, <1>4, FollowedAside DEF dial, RecordingSteps
<1> QED  BY <1>5, <1>7, <1>8, <1>9, <1>10, <1>11, WaitsKept DEF dial

LEMMA ReserveStep ==
    ASSUME BookInv, NEW d \in Dialers, reserve_dial_slot(d)
    PROVE  BookInv'
<1> USE DEF BookInv
<1>1. dialer[d].at = "reserve" /\ dialer[d] # NoTask
  BY DEF reserve_dial_slot, NoTask
<1>2. PICK a \in Endpoints : a = dialer[d].addr
  BY <1>1, TaskTyped
<1>3. CASE dial_state[a].in_flight \/ dial_state[a].next_attempt > now
  <2>1. Becomes(d, NoTask) /\ dial_state' = dial_state
    BY <1>2, <1>3, TaskEnds DEF reserve_dial_slot
  <2>2. NoTask.at = "idle"
    BY DEF NoTask
  <2>3. PeerTypeOK'
    BY <2>1 DEF PeerTypeOK, reserve_dial_slot, Becomes
  <2>4. DialsRoutable'
    BY <2>1, RoutesKept DEF reserve_dial_slot
  <2>5. SeedsMarked'
    BY <2>1, MarksKept DEF reserve_dial_slot, SeedsMarked
  <2>6. SlotsHeld'
    BY <2>1, <2>2, SlotsKept DEF reserve_dial_slot
  <2>7. RegisteredHeld'
    BY <1>1, <2>1, <2>2, RegistrationsKept DEF reserve_dial_slot, RegisteredSteps
  <2>8. Followed'
    BY <1>1, <2>1, <2>2, FollowedAside DEF reserve_dial_slot, RecordingSteps
  <2> QED  BY <2>1, <2>3, <2>4, <2>5, <2>6, <2>7, <2>8, WaitsKept DEF reserve_dial_slot
<1>4. CASE ~(dial_state[a].in_flight \/ dial_state[a].next_attempt > now)
  <2>1. Goto(d, "connect") /\ dial_state' = [dial_state EXCEPT ![a].in_flight = TRUE]
    BY <1>2, <1>4 DEF reserve_dial_slot
  <2>2. PICK t \in TaskStates :
          Becomes(d, t) /\ t.at = "connect" /\ t.addr = a /\ t.record = dialer[d].record
    BY ZenonT(60), <1>1, <1>2, <2>1, TaskGoes DEF TaskSteps
  <2>3. /\ dial_state' \in [Endpoints -> DialStates]
        /\ dial_state'[a].in_flight /\ dial_state'[a].next_attempt = dial_state[a].next_attempt
        /\ dial_state'[a].failures = dial_state[a].failures
        /\ \A b \in Endpoints \ {a} : dial_state'[b] = dial_state[b]
    BY <2>1 DEF PeerTypeOK, DialStates
  <2>4. PeerTypeOK'
    BY <2>2, <2>3 DEF PeerTypeOK, reserve_dial_slot, Becomes
  <2>5. DialsRoutable'
    BY <1>1, <1>2, <2>2, RoutesKept DEF reserve_dial_slot, DialsRoutable
  <2>6. SeedsMarked'
    BY <1>1, <1>2, <2>2, MarksKept DEF reserve_dial_slot, SeedsMarked
  <2>7. \A e \in Dialers : dialer[e].at = "connect" => dialer[e].addr # a
    BY <1>4 DEF SlotsHeld
  <2>8. dial_state[a].next_attempt <= now
    BY <1>4 DEF PeerTypeOK, DialStates
  <2>9. SlotsHeld'
    <3>1. \A e \in Dialers : dialer'[e].at = "connect" => dialer'[e].addr \in Endpoints
      BY <2>2, TaskKinds DEF Becomes
    <3>2. ASSUME NEW e \in Dialers, dialer'[e].at = "connect"
          PROVE  /\ dial_state'[dialer'[e].addr].in_flight
                 /\ dial_state'[dialer'[e].addr].next_attempt <= now'
      <4>1. CASE e = d
        BY <2>2, <2>3, <2>8, <4>1 DEF Becomes, reserve_dial_slot
      <4>2. CASE e # d
        BY <2>2, <2>3, <2>7, <3>1, <3>2, <4>2 DEF Becomes, reserve_dial_slot, SlotsHeld
      <4> QED  BY <4>1, <4>2
    <3>3. \A e, f \in Dialers : dialer'[e].at = "connect" /\ dialer'[f].at = "connect"
                                /\ dialer'[e].addr = dialer'[f].addr => e = f
      BY <2>2, <2>7 DEF SlotsHeld, Becomes
    <3> QED  BY <3>2, <3>3 DEF SlotsHeld
  <2>10. RegisteredHeld'
    BY <1>1, <2>2, RegistrationsKept DEF reserve_dial_slot, RegisteredSteps
  <2>11. Followed'
    BY <1>1, <2>2, FollowedAside DEF reserve_dial_slot, RecordingSteps
  <2>12. WaitsCounted'
    <3>1. \A b \in Endpoints : dial_state'[b].failures = dial_state[b].failures
                               /\ dial_state'[b].next_attempt = dial_state[b].next_attempt
      BY <2>3
    <3>2. outcome' = outcome
      BY DEF reserve_dial_slot
    <3> QED  BY <3>1, <3>2 DEF WaitsCounted
  <2> QED  BY <2>4, <2>5, <2>6, <2>9, <2>10, <2>11, <2>12
<1> QED  BY <1>3, <1>4

LEMMA RecordingNamed ==
    ASSUME PeerTypeOK, NEW a \in Endpoints
    PROVE  Recording(a) = {} <=> \A d \in Dialers : ~Dials(d, a, RecordingSteps)
<1>1. \A d \in Dialers : dialer[d].at \in RecordingSteps => dialer[d].at # "idle"
  BY DEF RecordingSteps
<1>2. \A d \in Dialers : dialer[d].at \in RecordingSteps => dialer[d] # NoTask
  BY <1>1, TaskTyped
<1> QED  BY <1>2 DEF Recording, At, Dials, RecordingSteps

\* A dial ends: it gives up its slot, and the outcome is new.  What the two outcomes
\* have in common.
LEMMA OutcomeStep ==
    ASSUME BookInv, NEW d \in Dialers, dialer[d].at = "connect",
           NEW at \in {"success", "failure"}, Goto(d, at),
           NEW a \in Endpoints, a = dialer[d].addr,
           NEW s \in DialStates, dial_state' = [dial_state EXCEPT ![a] = s],
           NEW n \in Nat, outcome' = [outcome EXCEPT ![a] = [failures |-> n, since |-> now]],
           raced' = OutcomeRaced(a),
           s.failures > 0 => s.next_attempt = now + Backoff(s.failures),
           at = "success" => n = 0,
           at = "failure" => n = outcome[a].failures + 1,
           UNCHANGED <<now, seeds, book, connected_peers, handshake>>
    PROVE  BookInv'
<1> USE DEF BookInv
<1>1. dialer[d].at # "idle" /\ dialer[d] # NoTask
  BY TaskTyped
<1>2. PICK t \in TaskStates :
        Becomes(d, t) /\ t.at = at /\ t.addr = a /\ t.record = dialer[d].record
  <2>1. at \in TaskSteps
    BY DEF TaskSteps
  <2> QED  BY <1>1, <2>1, TaskGoes
<1>3. /\ dial_state' \in [Endpoints -> DialStates] /\ dial_state'[a] = s
      /\ \A b \in Endpoints \ {a} : dial_state'[b] = dial_state[b]
  BY DEF PeerTypeOK
<1>4. /\ outcome' \in [Endpoints -> [failures : Nat, since : Nat]]
      /\ outcome'[a].failures = n /\ outcome'[a].since = now
      /\ \A b \in Endpoints \ {a} : outcome'[b] = outcome[b]
  BY DEF PeerTypeOK
<1>5. PeerTypeOK'
  <2>1. \A b \in Endpoints : outcome'[b].since <= now
    BY <1>4 DEF PeerTypeOK
  <2> QED  BY <1>2, <1>3, <1>4, <2>1 DEF PeerTypeOK, Becomes
<1>6. DialsRoutable'
  BY <1>1, <1>2, RoutesKept DEF DialsRoutable
<1>7. SeedsMarked'
  BY <1>1, <1>2, MarksKept DEF SeedsMarked
<1>8. SlotsHeld'
  <2>1. \A e \in Dialers : dialer'[e].at = "connect" =>
          e # d /\ dialer'[e] = dialer[e] /\ dialer[e].addr # a /\ dialer[e].addr \in Endpoints
    BY <1>2, TaskTyped DEF Becomes, SlotsHeld
  <2> QED  BY <1>3, <2>1 DEF SlotsHeld
<1>9. RegisteredHeld'
  BY <1>2, RegistrationsKept DEF RegisteredSteps
<1>10. WaitsCounted'
  BY <1>3, <1>4 DEF WaitsCounted
<1>11. ASSUME NEW b \in Endpoints \ raced'
       PROVE  FollowedAt(b)'
  <2>1. b \notin raced /\ FollowedAt(b)
    BY <1>11 DEF OutcomeRaced, Followed
  <2>2. CASE b # a
    <3>1. ~Dials(d, b, RecordingSteps)
      BY <2>2 DEF Dials
    <3>2. outcome'[b] = outcome[b] /\ book'[b] = book[b]
      BY <1>4, <2>2
    <3> QED  BY <1>2, <2>1, <2>2, <3>1, <3>2, FollowedElsewhere
  <2>3. CASE b = a
    <3>1. Recording(a) = {}
      BY <1>11, <2>3 DEF OutcomeRaced
    <3>2. \A e \in Dialers : ~Dials(e, a, RecordingSteps)
      BY <3>1, RecordingNamed
    <3>3. Counted(a) = outcome[a].failures /\ Counted(a)' = Counted(a)
      BY <2>1, <2>3, <3>2 DEF FollowedAt, Settled, Counted
    <3>4. \A e \in Dialers : Dials(e, a, RecordingSteps)' <=> e = d
      BY <1>2, <3>2 DEF Dials, Becomes, RecordingSteps
    <3>5. RecordedBy(d, a)'
      BY <1>2, <1>4, <3>3 DEF RecordedBy, Becomes
    <3> QED  BY <2>3, <3>4, <3>5 DEF FollowedAt
  <2> QED  BY <2>2, <2>3
<1> QED  BY <1>5, <1>6, <1>7, <1>8, <1>9, <1>10, <1>11 DEF Followed

LEMMA SuccessStep ==
    ASSUME BookInv, NEW d \in Dialers, mark_dial_success(d)
    PROVE  BookInv'
<1>1. dialer[d].at = "connect" /\ Goto(d, "success")
  BY DEF mark_dial_success
<1>2. PICK a \in Endpoints : a = dialer[d].addr
  BY <1>1, TaskTyped DEF BookInv
<1>3. PICK s \in DialStates, n \in Nat : s = FreshDial /\ ~(s.failures > 0) /\ n = 0
  <2>1. FreshDial \in DialStates /\ FreshDial.failures = 0
    BY DEF FreshDial, DialStates
  <2>2. ~(FreshDial.failures > 0) /\ 0 \in Nat
    BY <2>1
  <2> QED  BY <2>1, <2>2
<1>4. /\ dial_state' = [dial_state EXCEPT ![a] = s]
      /\ outcome' = [outcome EXCEPT ![a] = [failures |-> n, since |-> now]]
      /\ raced' = OutcomeRaced(a)
      /\ UNCHANGED <<now, seeds, book, connected_peers, handshake>>
  BY <1>2, <1>3 DEF mark_dial_success
<1> QED  BY <1>1, <1>2, <1>3, <1>4, OutcomeStep

LEMMA FailureStep ==
    ASSUME BookInv, NEW d \in Dialers, mark_dial_failure(d)
    PROVE  BookInv'
<1>1. dialer[d].at = "connect" /\ Goto(d, "failure")
  BY DEF mark_dial_failure
<1>2. PICK a \in Endpoints : a = dialer[d].addr
  BY <1>1, TaskTyped DEF BookInv
<1>3. PICK failures \in Nat : failures = dial_state[a].failures + 1
  BY DEF BookInv, PeerTypeOK, DialStates
<1>4. PICK s : s = [failures |-> failures, next_attempt |-> now + Backoff(failures), in_flight |-> FALSE]
  OBVIOUS
<1>5. s \in DialStates /\ s.next_attempt = now + Backoff(s.failures)
  <2>1. now + Backoff(failures) \in Int
    BY BackoffTyped DEF BookInv, PeerTypeOK
  <2> QED  BY <1>4, <2>1 DEF DialStates
<1>6. PICK n \in Nat : n = outcome[a].failures + 1
  BY DEF BookInv, PeerTypeOK
<1>7. /\ dial_state' = [dial_state EXCEPT ![a] = s]
      /\ outcome' = [outcome EXCEPT ![a] = [failures |-> n, since |-> now]]
      /\ raced' = OutcomeRaced(a)
      /\ UNCHANGED <<now, seeds, book, connected_peers, handshake>>
  BY <1>2, <1>3, <1>4, <1>6 DEF mark_dial_failure
<1> QED  BY <1>1, <1>2, <1>5, <1>6, <1>7, OutcomeStep

\* The record is read: the step of the task changes, and what it records does not.
LEMMA ReadStep ==
    ASSUME BookInv, NEW d \in Dialers, ReadRecord(d)
    PROVE  BookInv'
<1> USE DEF BookInv
<1>1. dialer[d].at \in {"success", "failure", "registered"}
  BY DEF ReadRecord
<1>2. dialer[d].at # "idle" /\ dialer[d] # NoTask /\ dialer[d] \in TaskStates
  BY <1>1, TaskTyped
<1>3. PICK a \in Endpoints : a = dialer[d].addr
  BY <1>2, TaskTyped
<1>4. PICK at \in {"write success", "write failure", "write registered"} :
        /\ at = CASE dialer[d].at = "success" -> "write success"
                  [] dialer[d].at = "failure" -> "write failure"
                  [] OTHER -> "write registered"
        /\ at = "write success" <=> dialer[d].at = "success"
        /\ at = "write failure" <=> dialer[d].at = "failure"
        /\ at = "write registered" <=> dialer[d].at = "registered"
  BY <1>1
<1>5. PICK t : t = [dialer[d] EXCEPT !.record = book[a], !.at = at]
  OBVIOUS
<1>6. t \in TaskStates /\ t.at = at /\ t.addr = a /\ t.record = book[a]
  <2>1. at \in TaskSteps /\ book[a] \in Records
    BY DEF TaskSteps, PeerTypeOK
  <2> QED  BY <1>2, <1>3, <1>5, <2>1 DEF TaskStates
<1>7. Becomes(d, t)
  <2>1. dialer' = [dialer EXCEPT ![d].record = book[a], ![d].at = at]
    BY <1>3, <1>4 DEF ReadRecord
  <2>2. dialer' = [dialer EXCEPT ![d] = t]
    BY <1>5, <2>1 DEF PeerTypeOK
  <2> QED  BY <1>6, <2>2, TaskBecomes
<1>8. PeerTypeOK'
  BY <1>7 DEF PeerTypeOK, ReadRecord, Becomes
<1>9. DialsRoutable'
  BY <1>2, <1>3, <1>6, <1>7, RoutesKept DEF DialsRoutable, ReadRecord
<1>10. SeedsMarked'
  BY <1>6, <1>7, MarksKept DEF SeedsMarked, ReadRecord
<1>11. SlotsHeld'
  BY <1>6, <1>7, SlotsKept DEF ReadRecord
<1>12. RegisteredHeld'
  <2>1. \/ dialer[d].at \notin RegisteredSteps /\ t.at \notin RegisteredSteps
        \/ dialer[d].at \in RegisteredSteps /\ t.at \in RegisteredSteps /\ t.addr = dialer[d].addr
    BY <1>1, <1>3, <1>4, <1>6 DEF RegisteredSteps
  <2> QED  BY <1>7, <2>1, RegistrationsKept DEF ReadRecord
<1>13. ASSUME NEW b \in Endpoints \ raced'
       PROVE  FollowedAt(b)'
  <2>1. FollowedAt(b) /\ book' = book /\ outcome' = outcome
    BY <1>13 DEF Followed, ReadRecord
  <2>2. CASE b # a
    BY <1>3, <1>6, <1>7, <2>1, <2>2, FollowedElsewhere DEF Dials
  <2>3. CASE b = a
    <3>1. dialer[d].at \in RecordingSteps /\ at \in RecordingSteps
      BY <1>1 DEF RecordingSteps
    <3>2. \A e \in Dialers : Dials(e, a, RecordingSteps)' <=> Dials(e, a, RecordingSteps)
      BY <1>3, <1>6, <1>7, <3>1 DEF Dials, Becomes
    <3>3. Dials(d, a, RecordingSteps)
      BY <1>3, <3>1 DEF Dials
    <3>4. \A e \in Dialers : Dials(e, a, RecordingSteps) => e = d
      BY <2>1, <2>3, <3>3 DEF FollowedAt
    <3>5. RecordedBy(d, a) /\ Counted(a)' = Counted(a)
      BY <2>1, <2>3, <3>3 DEF FollowedAt, Counted
    <3>6. RecordedBy(d, a)'
      BY <1>4, <1>6, <1>7, <2>1, <3>5 DEF RecordedBy, Becomes
    <3> QED  BY <2>3, <3>2, <3>3, <3>4, <3>6 DEF FollowedAt
  <2> QED  BY <2>2, <2>3
<1> QED  BY <1>8, <1>9, <1>10, <1>11, <1>12, <1>13, WaitsKept DEF Followed, ReadRecord

\* The record is written back.  A book that changed meanwhile is overwritten, and the
\* address is raced.
LEMMA WriteStep ==
    ASSUME BookInv, NEW d \in Dialers, WriteRecord(d)
    PROVE  BookInv'
<1> USE DEF BookInv
<1>1. dialer[d].at \in {"write success", "write failure", "write registered"}
  BY DEF WriteRecord
<1>2. dialer[d].at # "idle" /\ dialer[d] # NoTask /\ dialer[d] \in TaskStates
  BY <1>1, TaskTyped
<1>3. PICK a \in Endpoints, r \in Records : a = dialer[d].addr /\ r = dialer[d].record
  BY <1>2, TaskTyped
<1>4. PICK mark \in {"connected", "failed", "seen"} :
        /\ mark = IF dialer[d].at = "write failure" THEN "failed" ELSE "connected"
        /\ mark # "seen"
  OBVIOUS
<1>5. PICK u : u = Upserted(r, "dial", mark)
  OBVIOUS
<1>6. now \in Nat /\ "dial" \in Sources
  BY DEF PeerTypeOK, Sources
<1>7. /\ u \in KnownRecords
      /\ u.source = "bootstrap" => r.source = "bootstrap"
      /\ mark = "connected" => RecordCount(u) = 0
      /\ mark = "failed" =>
           /\ RecordCount(u) = RecordCount(r) + 1
           /\ RecordCount(u) >= QUARANTINE_THRESHOLD
                => u.quarantined_until >= now + QUARANTINE_BASE
  BY <1>5, <1>6, UpsertedRecord
<1>8. /\ book' = [book EXCEPT ![a] = u]
      /\ raced' = IF book[a] = r THEN raced ELSE raced \cup {a}
      /\ UNCHANGED <<now, seeds, dial_state, connected_peers, handshake, outcome>>
  BY <1>3, <1>4, <1>5 DEF WriteRecord, Raced
<1>9. /\ book' \in [Endpoints -> Records] /\ book'[a] = u
      /\ \A b \in Endpoints \ {a} : book'[b] = book[b]
  BY <1>7, <1>8 DEF PeerTypeOK, Records
<1>10. PICK t \in TaskStates \cup {NoTask} :
         /\ Becomes(d, t)
         /\ t # NoTask => t.addr = a /\ t.record = r
         /\ dialer[d].at = "write success" => t # NoTask /\ t.at = "register"
         /\ dialer[d].at = "write registered" => t # NoTask /\ t.at = "open"
         /\ dialer[d].at = "write failure" => t = NoTask
  <2>1. CASE dialer[d].at = "write success"
    <3>1. Goto(d, "register")
      BY <2>1 DEF WriteRecord
    <3>2. PICK t \in TaskStates :
            Becomes(d, t) /\ t.at = "register" /\ t.addr = a /\ t.record = r
      <4>1. "register" \in TaskSteps
        BY DEF TaskSteps
      <4> QED  BY <1>2, <1>3, <3>1, <4>1, TaskGoes
    <3> QED  BY <2>1, <3>2, TaskKinds
  <2>2. CASE dialer[d].at = "write registered"
    <3>1. Goto(d, "open")
      BY <2>2 DEF WriteRecord
    <3>2. PICK t \in TaskStates :
            Becomes(d, t) /\ t.at = "open" /\ t.addr = a /\ t.record = r
      <4>1. "open" \in TaskSteps
        BY DEF TaskSteps
      <4> QED  BY <1>2, <1>3, <3>1, <4>1, TaskGoes
    <3> QED  BY <2>2, <3>2, TaskKinds
  <2>3. CASE dialer[d].at = "write failure"
    <3>1. dialer' = [dialer EXCEPT ![d] = NoTask]
      BY <2>3 DEF WriteRecord
    <3> QED  BY <2>3, <3>1, TaskEnds
  <2> QED  BY <1>1, <2>1, <2>2, <2>3
<1>11. /\ t.at \in {"register", "open", "idle"}
       /\ dialer[d].at = "write failure" => t.at = "idle"
       /\ t.at \in {"register", "open"} => t.addr = a
  <2>1. NoTask.at = "idle"
    BY DEF NoTask
  <2> QED  BY <1>1, <1>10, <2>1
<1>12. PeerTypeOK'
  BY <1>8, <1>9, <1>10 DEF PeerTypeOK, Becomes
<1>13. r.source = "bootstrap" => a \in seeds
  BY <1>2, <1>3 DEF SeedsMarked
<1>14. DialsRoutable'
  BY <1>2, <1>3, <1>8, <1>10, RoutesKept DEF DialsRoutable
<1>15. SeedsMarked'
  <2>1. \A b \in Endpoints : book'[b].source = "bootstrap" => b \in seeds
    BY <1>7, <1>9, <1>13 DEF SeedsMarked
  <2> QED  BY <1>8, <1>10, <1>13, <2>1, MarksKept
<1>16. SlotsHeld'
  BY <1>8, <1>10, <1>11, SlotsKept
<1>17. RegisteredHeld'
  <2>1. \/ dialer[d].at \notin RegisteredSteps /\ t.at \notin RegisteredSteps
        \/ dialer[d].at \in RegisteredSteps /\ t.at \in RegisteredSteps /\ t.addr = dialer[d].addr
    BY <1>1, <1>3, <1>10, <1>11 DEF RegisteredSteps
  <2> QED  BY <1>8, <1>10, <2>1, RegistrationsKept
<1>18. ASSUME NEW b \in Endpoints \ raced'
       PROVE  FollowedAt(b)'
  <2>1. b \notin raced /\ FollowedAt(b)
    BY <1>8, <1>18 DEF Followed
  <2>2. CASE b # a
    <3>1. ~Dials(d, b, RecordingSteps)
      BY <1>3, <2>2 DEF Dials
    <3>2. t.at \notin RecordingSteps \/ t.addr # b
      BY <1>11, <2>2 DEF RecordingSteps
    <3> QED  BY <1>8, <1>9, <1>10, <2>1, <2>2, <3>1, <3>2, FollowedElsewhere
  <2>3. CASE b = a
    <3>1. book[a] = r
      BY <1>8, <1>18, <2>3
    <3>2. Dials(d, a, RecordingSteps)
      BY <1>1, <1>3 DEF Dials, RecordingSteps
    <3>3. \A e \in Dialers : Dials(e, a, RecordingSteps) => e = d
      BY <2>1, <2>3, <3>2 DEF FollowedAt
    <3>4. RecordedBy(d, a)
      BY <2>1, <2>3, <3>2 DEF FollowedAt
    <3>5. Counted(a) = RecordCount(r) /\ Counted(a)' = RecordCount(u)
      BY <1>9, <3>1 DEF Counted, RecordCount
    <3>6. \A e \in Dialers \ {d} : ~Dials(e, a, RecordingSteps)'
      BY <1>10, <3>3 DEF Dials, Becomes
    <3>7. outcome'[a] = outcome[a]
      BY <1>8
    <3>8. CASE dialer[d].at = "write success"
      <4>1. \A e \in Dialers : Dials(e, a, RecordingSteps)' <=> e = d
        BY <1>10, <3>6, <3>8 DEF Dials, Becomes, RecordingSteps
      <4>2. mark = "connected" /\ Counted(a)' = 0
        BY <1>4, <1>7, <3>5, <3>8
      <4>3. outcome'[a].failures = 0
        BY <3>4, <3>7, <3>8 DEF RecordedBy
      <4>4. dialer'[d].at = "register"
        BY <1>10, <3>8 DEF Becomes
      <4>5. RecordedBy(d, a)'
        BY <4>2, <4>3, <4>4 DEF RecordedBy
      <4> QED  BY <2>3, <4>1, <4>5 DEF FollowedAt
    <3>9. CASE dialer[d].at = "write registered"
      <4>1. \A e \in Dialers : ~Dials(e, a, RecordingSteps)'
        BY <1>10, <3>6, <3>9 DEF Dials, Becomes, RecordingSteps
      <4>2. Counted(a)' = 0 /\ outcome'[a].failures = 0
        BY <1>4, <1>7, <3>4, <3>5, <3>7, <3>9 DEF RecordedBy
      <4>3. Settled(a)'
        BY <4>2, PeerBookAssumption DEF Settled
      <4> QED  BY <2>3, <4>1, <4>3 DEF FollowedAt
    <3>10. CASE dialer[d].at = "write failure"
      <4>1. \A e \in Dialers : ~Dials(e, a, RecordingSteps)'
        BY <1>10, <1>11, <3>6, <3>10 DEF Dials, Becomes, RecordingSteps
      <4>2. Counted(a)' = outcome'[a].failures
        BY <1>4, <1>7, <3>4, <3>5, <3>7, <3>10 DEF RecordedBy
      <4>3. outcome'[a].failures >= QUARANTINE_THRESHOLD
              => book'[a].quarantined_until >= now + QUARANTINE_BASE
        BY <1>4, <1>7, <1>9, <3>5, <3>10, <4>2
      <4>4. book'[a].quarantined_until \in Nat
        BY <1>7, <1>9 DEF KnownRecords
      <4>5. outcome'[a].since \in Nat /\ outcome'[a].since <= now /\ now \in Nat
            /\ QUARANTINE_BASE \in Nat
        BY <3>7, PeerBookAssumption DEF PeerTypeOK
      <4>6. Settled(a)'
        BY <4>2, <4>3, <4>4, <4>5 DEF Settled
      <4> QED  BY <2>3, <4>1, <4>6 DEF FollowedAt
    <3> QED  BY <1>1, <3>8, <3>9, <3>10
  <2> QED  BY <2>2, <2>3
<1> QED  BY <1>8, <1>12, <1>14, <1>15, <1>16, <1>17, <1>18, WaitsKept DEF Followed

LEMMA RegisterStep ==
    ASSUME BookInv, NEW d \in Dialers, RegisterPeer(d)
    PROVE  BookInv'
<1> USE DEF BookInv
<1>1. dialer[d].at = "register" /\ dialer[d].at # "idle" /\ dialer[d] # NoTask
  BY TaskTyped DEF RegisterPeer
<1>2. PICK a \in Endpoints, r \in Records : a = dialer[d].addr /\ r = dialer[d].record
  BY <1>1, TaskTyped
<1>3. UNCHANGED <<now, seeds, book, dial_state, handshake, outcome, raced>>
  BY DEF RegisterPeer
<1>4. PICK t \in TaskStates \cup {NoTask} :
         /\ Becomes(d, t)
         /\ t.at \in {"idle", "registered"}
         /\ t # NoTask => t.at = "registered" /\ t.addr = a /\ t.record = r
         /\ t.at = "idle" => connected_peers' = connected_peers
         /\ t.at = "registered" => /\ t # NoTask /\ a \notin connected_peers
                                   /\ connected_peers' = connected_peers \cup {a}
  <2>1. CASE Cardinality(connected_peers) >= MAX_PEERS \/ a \in connected_peers
    <3>1. dialer' = [dialer EXCEPT ![d] = NoTask] /\ connected_peers' = connected_peers
      BY <1>2, <2>1 DEF RegisterPeer
    <3>2. NoTask.at = "idle"
      BY DEF NoTask
    <3> QED  BY <3>1, <3>2, TaskEnds
  <2>2. CASE ~(Cardinality(connected_peers) >= MAX_PEERS \/ a \in connected_peers)
    <3>1. Goto(d, "registered") /\ connected_peers' = connected_peers \cup {a}
      BY <1>2, <2>2 DEF RegisterPeer
    <3>2. "registered" \in TaskSteps
      BY DEF TaskSteps
    <3>3. PICK t \in TaskStates :
            Becomes(d, t) /\ t.at = "registered" /\ t.addr = a /\ t.record = r
      BY <1>1, <1>2, <3>1, <3>2, TaskGoes
    <3> QED  BY <2>2, <3>1, <3>3, TaskKinds
  <2> QED  BY <2>1, <2>2
<1>5. PeerTypeOK'
  <2>1. connected_peers' \subseteq Endpoints
    BY <1>4 DEF PeerTypeOK
  <2> QED  BY <1>3, <1>4, <2>1 DEF PeerTypeOK, Becomes
<1>6. DialsRoutable'
  BY <1>1, <1>2, <1>3, <1>4, RoutesKept DEF DialsRoutable
<1>7. SeedsMarked'
  BY <1>1, <1>2, <1>3, <1>4, MarksKept DEF SeedsMarked
<1>8. SlotsHeld'
  BY <1>3, <1>4, SlotsKept
<1>9. RegisteredHeld'
  <2>1. CASE t.at = "idle"
    BY <1>1, <1>4, <2>1, RegistrationsKept DEF RegisteredSteps
  <2>2. CASE t.at = "registered"
    <3>1. t.addr = a /\ a \notin connected_peers /\ connected_peers' = connected_peers \cup {a}
      BY <1>4, <2>2
    <3>2. \A e \in Dialers \ {d} : dialer'[e] = dialer[e]
      BY <1>4 DEF Becomes
    <3>3. dialer'[d].at = "registered" /\ dialer'[d].addr = a
      BY <1>4, <2>2, <3>1 DEF Becomes
    <3>4. \A e \in Dialers : dialer'[e].at \in RegisteredSteps => dialer'[e].addr \in connected_peers'
      BY <3>1, <3>2, <3>3 DEF RegisteredHeld
    <3>5. \A e \in Dialers \ {d} : dialer[e].at \in RegisteredSteps => dialer[e].addr # a
      BY <3>1 DEF RegisteredHeld
    <3>6. \A e, f \in Dialers : dialer'[e].at \in RegisteredSteps /\ dialer'[f].at \in RegisteredSteps
                                /\ dialer'[e].addr = dialer'[f].addr => e = f
      BY <3>2, <3>3, <3>5 DEF RegisteredHeld
    <3>7. ASSUME NEW b \in connected_peers'
          PROVE  \E e \in Dialers : Dials(e, b, RegisteredSteps)'
      <4>1. CASE b = a
        BY <3>3, <4>1 DEF Dials, RegisteredSteps
      <4>2. CASE b # a
        <5>1. PICK e \in Dialers : Dials(e, b, RegisteredSteps)
          BY <3>1, <3>7, <4>2 DEF RegisteredHeld
        <5>2. e # d
          BY <1>1, <5>1 DEF Dials, RegisteredSteps
        <5> QED  BY <3>2, <5>1, <5>2 DEF Dials
      <4> QED  BY <4>1, <4>2
    <3> QED  BY <3>4, <3>6, <3>7 DEF RegisteredHeld
  <2> QED  BY <1>4, <2>1, <2>2
<1>10. ASSUME NEW b \in Endpoints \ raced'
       PROVE  FollowedAt(b)'
  <2>1. FollowedAt(b)
    BY <1>3, <1>10 DEF Followed
  <2>2. CASE b # a
    <3>1. ~Dials(d, b, RecordingSteps)
      BY <1>2, <2>2 DEF Dials
    <3>2. t.at \notin RecordingSteps \/ t.addr # b
      BY <1>4, <2>2, TaskKinds DEF RecordingSteps
    <3> QED  BY <1>3, <1>4, <2>1, <3>1, <3>2, FollowedElsewhere
  <2>3. CASE b = a
    <3>1. Dials(d, a, RecordingSteps)
      BY <1>1, <1>2 DEF Dials, RecordingSteps
    <3>2. \A e \in Dialers : Dials(e, a, RecordingSteps) => e = d
      BY <2>1, <2>3, <3>1 DEF FollowedAt
    <3>3. outcome[a].failures = 0 /\ Counted(a) = 0
      BY <1>1, <2>1, <2>3, <3>1 DEF FollowedAt, RecordedBy
    <3>4. outcome'[a].failures = 0 /\ Counted(a)' = 0
      BY <1>3, <3>3 DEF Counted
    <3>5. \A e \in Dialers \ {d} : ~Dials(e, a, RecordingSteps)'
      BY <1>4, <3>2 DEF Dials, Becomes
    <3>6. Settled(a)'
      BY <3>4, PeerBookAssumption DEF Settled
    <3>7. dialer'[d].at \in {"idle", "registered"}
      BY <1>4 DEF Becomes
    <3>8. RecordedBy(d, a)'
      BY <3>4, <3>7 DEF RecordedBy
    <3> QED  BY <2>3, <3>5, <3>6, <3>8 DEF FollowedAt
  <2> QED  BY <2>2, <2>3
<1> QED  BY <1>3, <1>5, <1>6, <1>7, <1>8, <1>9, <1>10, WaitsKept DEF Followed

LEMMA DisconnectStep ==
    ASSUME BookInv, NEW d \in Dialers, Disconnect(d)
    PROVE  BookInv'
<1> USE DEF BookInv
<1>1. dialer[d].at = "open" /\ dialer[d].at # "idle"
  BY DEF Disconnect
<1>2. PICK a \in Endpoints : a = dialer[d].addr
  BY <1>1, TaskTyped
<1>3. /\ UNCHANGED <<now, seeds, book, dial_state, handshake, outcome, raced>>
      /\ connected_peers' = connected_peers \ {a}
  BY <1>2 DEF Disconnect
<1>4. Becomes(d, NoTask) /\ dialer'[d].at = "idle" /\ NoTask.at = "idle"
  BY TaskEnds DEF Disconnect, NoTask
<1>5. PeerTypeOK'
  BY <1>3, <1>4 DEF PeerTypeOK, Becomes
<1>6. DialsRoutable'
  BY <1>3, <1>4, RoutesKept
<1>7. SeedsMarked'
  BY <1>3, <1>4, MarksKept DEF SeedsMarked
<1>8. SlotsHeld'
  BY <1>3, <1>4, SlotsKept
<1>9. RegisteredHeld'
  <2>1. \A e \in Dialers \ {d} : dialer'[e] = dialer[e]
    BY <1>4 DEF Becomes
  <2>2. \A e \in Dialers \ {d} : dialer[e].at \in RegisteredSteps => dialer[e].addr # a
    BY <1>1, <1>2 DEF RegisteredHeld, RegisteredSteps
  <2>3. dialer'[d].at \notin RegisteredSteps
    BY <1>4 DEF RegisteredSteps
  <2>4. \A e \in Dialers : dialer'[e].at \in RegisteredSteps => dialer'[e].addr \in connected_peers'
    BY <1>3, <2>1, <2>2, <2>3 DEF RegisteredHeld
  <2>5. \A e, f \in Dialers : dialer'[e].at \in RegisteredSteps /\ dialer'[f].at \in RegisteredSteps
                              /\ dialer'[e].addr = dialer'[f].addr => e = f
    BY <2>1, <2>3 DEF RegisteredHeld
  <2>6. ASSUME NEW b \in connected_peers'
        PROVE  \E e \in Dialers : Dials(e, b, RegisteredSteps)'
    <3>1. PICK e \in Dialers : Dials(e, b, RegisteredSteps)
      BY <1>3, <2>6 DEF RegisteredHeld
    <3>2. e # d
      BY <1>2, <1>3, <2>6, <3>1 DEF Dials
    <3> QED  BY <2>1, <3>1, <3>2 DEF Dials
  <2> QED  BY <2>4, <2>5, <2>6 DEF RegisteredHeld
<1>10. Followed'
  BY <1>1, <1>3, <1>4, FollowedAside DEF RecordingSteps
<1> QED  BY <1>3, <1>5, <1>6, <1>7, <1>8, <1>9, <1>10, WaitsKept

\* Without a step of a task, and with the counts of the book as they were, the book
\* stays followed.
LEMMA FollowedByBook ==
    ASSUME NEW b \in Endpoints, FollowedAt(b), dialer' = dialer, outcome'[b] = outcome[b],
           Counted(b)' = Counted(b), Settled(b) => Settled(b)'
    PROVE  FollowedAt(b)'
<1>1. \A e \in Dialers : /\ Dials(e, b, RecordingSteps)' <=> Dials(e, b, RecordingSteps)
                         /\ RecordedBy(e, b) => RecordedBy(e, b)'
  BY DEF Dials, RecordedBy
<1> QED  BY <1>1 DEF FollowedAt

LEMMA SecondStep ==
    ASSUME BookInv, SecondPasses
    PROVE  BookInv'
<1> USE DEF BookInv
<1>1. /\ now' = now + 1
      /\ UNCHANGED <<seeds, book, dial_state, connected_peers, dialer, handshake, outcome, raced>>
  BY DEF SecondPasses
<1>2. PeerTypeOK'
  <2>1. \A a \in Endpoints : outcome'[a].since <= now'
    BY <1>1 DEF PeerTypeOK
  <2> QED  BY <1>1, <2>1 DEF PeerTypeOK
<1>3. SeedsMarked' /\ DialsRoutable'
  BY <1>1 DEF SeedsMarked, DialsRoutable
<1>4. SlotsHeld'
  <2>1. \A d \in Dialers : dialer[d].at = "connect" => dial_state[dialer[d].addr].next_attempt <= now + 1
    <3>1. \A d \in Dialers : dialer[d].at = "connect" =>
            dial_state[dialer[d].addr].next_attempt \in Int /\ now \in Nat
      BY TaskTyped DEF PeerTypeOK, DialStates
    <3> QED  BY <3>1 DEF SlotsHeld
  <2> QED  BY <1>1, <2>1 DEF SlotsHeld
<1>5. RegisteredHeld'
  BY <1>1 DEF RegisteredHeld, Dials
<1>6. Followed'
  <2>1. \A b \in Endpoints : Counted(b)' = Counted(b) /\ (Settled(b) => Settled(b)')
    BY <1>1 DEF Counted, Settled
  <2> QED  BY <1>1, <2>1, FollowedByBook DEF Followed
<1> QED  BY <1>1, <1>2, <1>3, <1>4, <1>5, <1>6, WaitsKept

\* Of a start: no task, no slot, no connection, and outcomes as the book has them.
Started ==
    /\ now \in Nat /\ seeds \in SeedSets /\ book \in [Endpoints -> Records]
    /\ \A a \in Endpoints : book[a].source = "bootstrap" => a \in seeds
    /\ dial_state = [a \in Endpoints |-> FreshDial] /\ connected_peers = {}
    /\ dialer = [d \in Dialers |-> NoTask] /\ handshake = NoTask
    /\ outcome \in [Endpoints -> [failures : Nat, since : Nat]]
    /\ \A a \in Endpoints : outcome[a].failures = Counted(a) /\ outcome[a].since = 0

LEMMA StartedWell == Started => BookInv
<1> SUFFICES ASSUME Started
             PROVE  BookInv
  OBVIOUS
<1> USE PeerBookAssumption DEF Started
<1>1. NoTask.at = "idle" /\ FreshDial \in DialStates /\ FreshDial.failures = 0
  BY DEF NoTask, FreshDial, DialStates
<1>2. \A d \in Dialers : dialer[d] = NoTask /\ dialer[d].at = "idle"
  BY <1>1
<1>3. \A a \in Endpoints : /\ Counted(a) \in Nat
                            /\ outcome[a].failures = Counted(a) /\ outcome[a].since = 0
  <2>1. \A a \in Endpoints : Counted(a) = RecordCount(book[a])
    BY DEF Counted, RecordCount
  <2>2. \A a \in Endpoints : Counted(a) \in Nat
    BY <2>1, RecordsApart
  <2> QED  BY <2>2
<1>4. PeerTypeOK
  <2>1. dial_state \in [Endpoints -> DialStates] /\ dialer \in [Dialers -> TaskStates \cup {NoTask}]
    BY <1>1
  <2>2. \A a \in Endpoints : outcome[a].since <= now
    BY <1>3
  <2> QED  BY <2>1, <2>2 DEF PeerTypeOK
<1>5. SeedsMarked /\ DialsRoutable
  BY <1>2 DEF SeedsMarked, DialsRoutable
<1>6. SlotsHeld /\ RegisteredHeld
  BY <1>2 DEF SlotsHeld, RegisteredHeld, RegisteredSteps
<1>7. WaitsCounted
  BY <1>1 DEF WaitsCounted
<1>8. ASSUME NEW a \in Endpoints
      PROVE  FollowedAt(a)
  <2>1. \A d \in Dialers : ~Dials(d, a, RecordingSteps)
    BY <1>2 DEF Dials, RecordingSteps
  <2>2. Settled(a)
    <3>1. Counted(a) = outcome[a].failures /\ outcome[a].since = 0
      BY <1>3
    <3>2. CASE book[a] = NoRecord
      <4>1. outcome[a].failures = 0
        BY <3>1, <3>2 DEF Counted
      <4> QED  BY <3>1, <4>1 DEF Settled
    <3>3. CASE book[a] # NoRecord
      <4>1. book[a] \in KnownRecords /\ Counted(a) = book[a].failed_connects
        BY <3>3, RecordsApart DEF Counted
      <4>2. Counted(a) >= QUARANTINE_THRESHOLD => book[a].quarantined_until >= QUARANTINE_BASE
        BY <1>3, <4>1 DEF KnownRecords
      <4> QED  BY <1>3, <3>1, <4>2 DEF Settled
    <3> QED  BY <3>2, <3>3
  <2> QED  BY <2>1, <2>2 DEF FollowedAt
<1>9. Followed
  BY <1>8 DEF Followed
<1> QED  BY <1>4, <1>5, <1>6, <1>7, <1>9 DEF BookInv

LEMMA RestartStep ==
    ASSUME BookInv, RestartNode
    PROVE  BookInv'
<1>1. PICK s \in SeedSets : seeds' = s /\ book' = BookAtStart(book, s)
  BY DEF RestartNode
<1>2. /\ book' \in [Endpoints -> Records]
      /\ \A a \in Endpoints : book'[a].source = "bootstrap" => a \in s
  BY <1>1, BookOfStart, PeerBookAssumption DEF BookInv, PeerTypeOK
<1>3. /\ now' = now /\ now \in Nat
      /\ dial_state' = [a \in Endpoints |-> FreshDial] /\ connected_peers' = {}
      /\ dialer' = [d \in Dialers |-> NoTask] /\ handshake' = NoTask
      /\ outcome' = Failures(book')
  BY DEF RestartNode, BookInv, PeerTypeOK
<1>4. /\ outcome' \in [Endpoints -> [failures : Nat, since : Nat]]
      /\ \A a \in Endpoints : outcome'[a].failures = Counted(a)' /\ outcome'[a].since = 0
  <2>1. \A a \in Endpoints : Counted(a)' = RecordCount(book'[a]) /\ Counted(a)' \in Nat
    BY <1>2, RecordsApart DEF Counted, RecordCount
  <2>2. outcome' = [a \in Endpoints |-> [failures |-> Counted(a)', since |-> 0]]
    BY <1>3, Zenon DEF Failures, Counted
  <2> QED  BY <2>1, <2>2
<1>5. Started'
  BY <1>1, <1>2, <1>3, <1>4 DEF Started
<1> QED  BY <1>5, StartedWell, PTL

LEMMA HandshakeReadStep ==
    ASSUME BookInv, NEW a \in Endpoints, ReadForHandshake(a)
    PROVE  BookInv'
<1> USE DEF BookInv
<1>1. PICK h : h = [at |-> "write", addr |-> a, record |-> book[a]] /\ handshake' = h
  BY DEF ReadForHandshake
<1>2. /\ h \in [at : {"write"}, addr : Endpoints, record : Records]
      /\ h.addr = a /\ h.record = book[a]
  BY <1>1 DEF PeerTypeOK
<1>3. UNCHANGED <<now, seeds, book, dial_state, connected_peers, dialer, outcome, raced>>
  BY DEF ReadForHandshake
<1>4. PeerTypeOK'
  BY <1>1, <1>2, <1>3 DEF PeerTypeOK
<1>5. SeedsMarked' /\ DialsRoutable'
  BY <1>1, <1>2, <1>3 DEF SeedsMarked, DialsRoutable
<1>6. SlotsHeld' /\ RegisteredHeld'
  BY <1>3 DEF SlotsHeld, RegisteredHeld, Dials
<1>7. Followed'
  <2>1. \A b \in Endpoints : Counted(b)' = Counted(b) /\ (Settled(b) => Settled(b)')
    BY <1>3 DEF Counted, Settled
  <2> QED  BY <1>3, <2>1, FollowedByBook DEF Followed
<1> QED  BY <1>3, <1>4, <1>5, <1>6, <1>7, WaitsKept

LEMMA HandshakeWriteStep ==
    ASSUME BookInv, WriteForHandshake
    PROVE  BookInv'
<1> USE DEF BookInv
<1>1. handshake # NoTask /\ handshake \in [at : {"write"}, addr : Endpoints, record : Records]
  BY DEF WriteForHandshake, PeerTypeOK
<1>2. PICK a \in Endpoints, r \in Records : a = handshake.addr /\ r = handshake.record
  BY <1>1
<1>3. PICK u : u = Upserted(r, "handshake", "seen")
  OBVIOUS
<1>4. now \in Nat /\ "handshake" \in Sources /\ "seen" \in {"connected", "failed", "seen"}
  BY DEF PeerTypeOK, Sources
<1>5. /\ u \in KnownRecords
      /\ u.source = "bootstrap" => r.source = "bootstrap"
      /\ RecordCount(u) = RecordCount(r)
      /\ r # NoRecord => u.quarantined_until = r.quarantined_until
  BY <1>3, <1>4, UpsertedRecord
<1>6. /\ book' = [book EXCEPT ![a] = u]
      /\ raced' = IF book[a] = r THEN raced ELSE raced \cup {a}
      /\ handshake' = NoTask
      /\ UNCHANGED <<now, seeds, dial_state, connected_peers, dialer, outcome>>
  BY <1>2, <1>3 DEF WriteForHandshake, Raced
<1>7. /\ book' \in [Endpoints -> Records] /\ book'[a] = u
      /\ \A b \in Endpoints \ {a} : book'[b] = book[b]
  BY <1>5, <1>6 DEF PeerTypeOK, Records
<1>8. PeerTypeOK'
  BY <1>6, <1>7 DEF PeerTypeOK
<1>9. SeedsMarked'
  <2>1. r.source = "bootstrap" => a \in seeds
    BY <1>1, <1>2 DEF SeedsMarked
  <2>2. \A b \in Endpoints : book'[b].source = "bootstrap" => b \in seeds
    BY <1>5, <1>7, <2>1 DEF SeedsMarked
  <2> QED  BY <1>6, <2>2 DEF SeedsMarked
<1>10. DialsRoutable' /\ SlotsHeld' /\ RegisteredHeld'
  BY <1>6 DEF DialsRoutable, SlotsHeld, RegisteredHeld, Dials
<1>11. ASSUME NEW b \in Endpoints \ raced'
       PROVE  FollowedAt(b)'
  <2>1. FollowedAt(b) /\ outcome' = outcome
    BY <1>6, <1>11 DEF Followed
  <2>2. CASE b # a
    <3>1. Counted(b)' = Counted(b) /\ (Settled(b) => Settled(b)')
      BY <1>6, <1>7, <2>2 DEF Counted, Settled
    <3> QED  BY <1>6, <2>1, <3>1, FollowedByBook
  <2>3. CASE b = a
    <3>1. book[a] = r
      BY <1>6, <1>11, <2>3
    <3>2. Counted(a) = RecordCount(r) /\ Counted(a)' = RecordCount(u)
      BY <1>7, <3>1 DEF Counted, RecordCount
    <3>3. Counted(a)' = Counted(a)
      BY <1>5, <3>2
    <3>4. ASSUME Settled(a)
          PROVE  Settled(a)'
      <4>1. CASE r = NoRecord
        <5>1. outcome[a].failures = 0
          BY <3>2, <3>4, <4>1 DEF Settled, RecordCount
        <5> QED  BY <2>1, <3>3, <3>4, <5>1, PeerBookAssumption DEF Settled
      <4>2. CASE r # NoRecord
        BY <1>5, <1>7, <2>1, <3>1, <3>3, <3>4, <4>2 DEF Settled
      <4> QED  BY <4>1, <4>2
    <3> QED  BY <1>6, <2>1, <2>3, <3>3, <3>4, FollowedByBook
  <2> QED  BY <2>2, <2>3
<1> QED  BY <1>6, <1>8, <1>9, <1>10, <1>11, WaitsKept DEF Followed

-----------------------------------------------------------------------------
(* The theorems.                                                           *)

\* The invariant behind the three properties of connect_peer, its dial state, the
\* registration of connections and the peer book.
THEOREM PeerBookInvariance == PeerBookSpec => []BookInv
<1>1. PeerBookInit => BookInv
  <2> SUFFICES ASSUME PeerBookInit
               PROVE  Started
    BY StartedWell
  <2> USE PeerBookAssumption DEF PeerBookInit
  <2>1. PICK b : b = [a \in Endpoints |-> NoRecord]
    OBVIOUS
  <2>2. /\ b \in [Endpoints -> Records] /\ book = BookAtStart(b, seeds) /\ seeds \in SUBSET Endpoints
        /\ now \in Nat
    BY <2>1 DEF Records
  <2>3. /\ book \in [Endpoints -> Records]
        /\ \A a \in Endpoints : book[a].source = "bootstrap" => a \in seeds
        /\ \A a \in Endpoints : RecordCount(book[a]) \in {0, RecordCount(b[a])}
    BY <2>2, BookOfStart
  <2>4. \A a \in Endpoints : Counted(a) = 0
    BY <2>1, <2>3 DEF Counted, RecordCount
  <2>5. /\ outcome \in [Endpoints -> [failures : Nat, since : Nat]]
        /\ \A a \in Endpoints : outcome[a].failures = 0 /\ outcome[a].since = 0
    OBVIOUS
  <2> QED  BY <2>2, <2>3, <2>4, <2>5 DEF Started
<1>2. BookInv /\ [PeerBookNext]_peerVars => BookInv'
  <2> SUFFICES ASSUME BookInv, [PeerBookNext]_peerVars
               PROVE  BookInv'
    OBVIOUS
  <2>1. CASE PeerBookNext
    BY <2>1, SecondStep, RestartStep, DialStep, ReserveStep, SuccessStep, FailureStep, ReadStep,
       WriteStep, RegisterStep, DisconnectStep, HandshakeReadStep, HandshakeWriteStep
       DEF PeerBookNext
  <2>2. CASE UNCHANGED peerVars
    <3>1. UNCHANGED <<now, seeds, book, dial_state, connected_peers, dialer, handshake, outcome, raced>>
      BY <2>2 DEF peerVars
    <3>2. (PeerTypeOK /\ SeedsMarked /\ DialsRoutable /\ WaitsCounted)'
      BY <3>1 DEF BookInv, PeerTypeOK, SeedsMarked, DialsRoutable, WaitsCounted
    <3>3. (SlotsHeld /\ RegisteredHeld)'
      BY <3>1 DEF BookInv, SlotsHeld, RegisteredHeld, Dials
    <3>4. \A b \in Endpoints : Counted(b)' = Counted(b) /\ (Settled(b) => Settled(b)')
      BY <3>1 DEF Counted, Settled
    <3>5. Followed'
      BY <3>1, <3>4, FollowedByBook DEF BookInv, Followed
    <3> QED  BY <3>2, <3>3, <3>5 DEF BookInv
  <2> QED  BY <2>1, <2>2
<1> QED  BY <1>1, <1>2, PTL DEF PeerBookSpec

\* An address is dialled once at a time, and has one registered connection exactly
\* when the list of connected peers has it, although connect_peer gives up the slot
\* before the connection is registered.
THEOREM OneConnectionEach == PeerBookSpec => []OneConnection
<1>1. BookInv => OneConnection
  <2> SUFFICES ASSUME BookInv, NEW a \in Endpoints
               PROVE  /\ Cardinality(At(a, {"connect"})) <= 1
                      /\ Cardinality(At(a, {"registered", "write registered", "open"}))
                           = IF a \in connected_peers THEN 1 ELSE 0
    BY DEF OneConnection
  <2> USE DEF BookInv
  <2>1. ASSUME NEW S, \A d, e \in S : d = e
        PROVE  /\ S = {} => Cardinality(S) = 0
               /\ S # {} => Cardinality(S) = 1
    <3>1. CASE S = {}
      BY <3>1, FS_EmptySet
    <3>2. CASE S # {}
      <4>1. PICK d : S = {d}
        BY <2>1, <3>2
      <4> QED  BY <3>2, <4>1, FS_Singleton
    <3> QED  BY <3>1, <3>2
  <2>2. Cardinality(At(a, {"connect"})) <= 1
    <3>1. \A d, e \in At(a, {"connect"}) : d = e
      BY DEF At, SlotsHeld
    <3>2. Cardinality(At(a, {"connect"})) \in {0, 1}
      BY <2>1, <3>1
    <3> QED  BY <3>2
  <2>3. \A d \in Dialers : dialer[d].at \in RegisteredSteps => dialer[d] # NoTask
    <3>1. \A d \in Dialers : dialer[d].at \in RegisteredSteps => dialer[d].at # "idle"
      BY DEF RegisteredSteps
    <3> QED  BY <3>1, TaskTyped
  <2>4. \A d, e \in At(a, RegisteredSteps) : d = e
    BY DEF At, RegisteredHeld
  <2>5. a \in connected_peers <=> At(a, RegisteredSteps) # {}
    BY <2>3 DEF At, RegisteredHeld, Dials
  <2>6. Cardinality(At(a, RegisteredSteps)) = IF a \in connected_peers THEN 1 ELSE 0
    BY <2>1, <2>4, <2>5
  <2> QED  BY <2>2, <2>6 DEF RegisteredSteps
<1> QED  BY <1>1, PeerBookInvariance, PTL

\* Every dial has waited for the backoff of its failures, and goes to a seed of the
\* present configuration or to a public address.
THEOREM DialsAlwaysJustified == PeerBookSpec => []DialsJustified
<1>1. BookInv => DialsJustified
  <2> SUFFICES ASSUME BookInv
               PROVE  DialsBackOff
    BY DEF BookInv, DialsJustified
  <2> SUFFICES ASSUME NEW a \in Endpoints, At(a, {"connect"}) # {}, dial_state[a].failures > 0
               PROVE  now >= outcome[a].since + Backoff(dial_state[a].failures)
    BY DEF DialsBackOff, Backoff
  <2>1. PICK d \in Dialers : dialer[d].at = "connect" /\ dialer[d].addr = a
    BY DEF At
  <2>2. dial_state[a].next_attempt <= now
    BY <2>1 DEF BookInv, SlotsHeld
  <2>3. dial_state[a].next_attempt = outcome[a].since + Backoff(dial_state[a].failures)
    BY DEF BookInv, WaitsCounted
  <2>4. dial_state[a].next_attempt \in Int /\ now \in Int
    BY DEF BookInv, PeerTypeOK, DialStates
  <2> QED  BY <2>2, <2>3, <2>4
<1> QED  BY <1>1, PeerBookInvariance, PTL

\* The peer book counts the failures since the last success, and quarantines from the
\* threshold on, for every address whose unlocked updates did not meet.
THEOREM BookAlwaysFollows == PeerBookSpec => []BookFollowsDials
<1>1. BookInv => BookFollowsDials
  <2> SUFFICES ASSUME BookInv, NEW a \in Endpoints \ raced, Recording(a) = {}, book[a] # NoRecord
               PROVE  /\ book[a].failed_connects = outcome[a].failures
                      /\ IF outcome[a].failures < QUARANTINE_THRESHOLD
                         THEN book[a].quarantined_until = 0
                         ELSE book[a].quarantined_until >= outcome[a].since + QUARANTINE_BASE
    BY DEF BookFollowsDials
  <2>1. \A d \in Dialers : ~Dials(d, a, RecordingSteps)
    BY RecordingNamed DEF BookInv
  <2>2. Settled(a)
    BY <2>1 DEF BookInv, Followed, FollowedAt
  <2>3. book[a] \in KnownRecords
    BY RecordsApart DEF BookInv, PeerTypeOK
  <2>4. book[a].failed_connects = outcome[a].failures
    BY <2>2 DEF Settled, Counted
  <2>5. /\ outcome[a].failures < QUARANTINE_THRESHOLD => book[a].quarantined_until = 0
        /\ outcome[a].failures \in Nat
    BY <2>3, <2>4 DEF KnownRecords
  <2> QED  BY <2>2, <2>4, <2>5, PeerBookAssumption DEF Settled
<1> QED  BY <1>1, PeerBookInvariance, PTL

-----------------------------------------------------------------------------
-----------------------------------------------------------------------------
(* The inductive invariant.                                                *)

\* The blocks a miner has produced and holds.
Known ==
    {b \in Block : \E m \in Miners :
        /\ b.hash = <<m, b.height>>
        /\ b.height \in 1..Len(chain[m])
        /\ chain[m][b.height] = b}

\* The messages that carry such blocks only, or ask for heights that may exist.
KnownMessage ==
    [type: {"Handshake"}, height: Nat]
    \cup [type: {"GetBlocks"}, from: Nat \ {0}, to: Nat]
    \cup [type: {"Blocks"}, blocks: Seq(Known)]

\* Every block, wherever it is stored or under way, is some miner's own.
Genuine ==
    /\ chain \in [Nodes -> Seq(Known)]
    /\ produced \in [Nodes -> Known \cup {NoBlock}]
    /\ replies \in [Nodes -> [Nodes -> Seq(KnownMessage)]]
    /\ gossip \in [Nodes -> [Nodes -> Seq(Known)]]
    /\ syncing \in [Nodes -> [Nodes -> Seq(Known)]]

SyncInv == TypeOK /\ Genuine /\ ChainsLinked /\ CommonPast

-----------------------------------------------------------------------------
(* Sequences and tables of them.                                           *)

LEMMA SeqMonotone ==
  ASSUME NEW S, NEW T, S \subseteq T
  PROVE  Seq(S) \subseteq Seq(T)
  <1> SUFFICES ASSUME NEW s \in Seq(S) PROVE s \in Seq(T)
    OBVIOUS
  <1>1. s \in [1..Len(s) -> S] /\ Len(s) \in Nat
    OBVIOUS
  <1>2. s \in [1..Len(s) -> T]
    BY <1>1
  <1> QED
    BY <1>1, <1>2

\* What the queue operations keep.
LEMMA QueueTypes ==
  ASSUME NEW S, NEW s \in Seq(S)
  PROVE  /\ \A x \in S : Append(s, x) \in Seq(S)
         /\ s # <<>> => Head(s) \in S /\ Tail(s) \in Seq(S) /\ Len(Tail(s)) = Len(s) - 1
         /\ <<>> \in Seq(S)
  OBVIOUS

LEMMA SubSeqType ==
  ASSUME NEW S, NEW s \in Seq(S), NEW from \in Nat \ {0}, NEW to \in Int, to <= Len(s)
  PROVE  SubSeq(s, from, to) \in Seq(S)
  OBVIOUS

\* One cell of a table indexed by two nodes changes.
LEMMA TableUpdate ==
  ASSUME NEW S, NEW f \in [Nodes -> [Nodes -> S]], NEW n \in Nodes, NEW p \in Nodes, NEW x \in S
  PROVE  /\ [f EXCEPT ![n][p] = x] \in [Nodes -> [Nodes -> S]]
         /\ \A m \in Nodes, q \in Nodes :
              [f EXCEPT ![n][p] = x][m][q] = IF m = n /\ q = p THEN x ELSE f[m][q]
  OBVIOUS

LEMMA TableMonotone ==
  ASSUME NEW S, NEW T, S \subseteq T
  PROVE  [Nodes -> [Nodes -> Seq(S)]] \subseteq [Nodes -> [Nodes -> Seq(T)]]
  <1>1. Seq(S) \subseteq Seq(T)
    BY SeqMonotone
  <1> QED
    BY <1>1

-----------------------------------------------------------------------------
(* Chains only grow.                                                       *)

\* Genuine blocks have the types that TypeOK asks for.
LEMMA KnownTypes == Known \subseteq Block /\ KnownMessage \subseteq Message
  <1>1. Known \subseteq Block
    BY DEF Known
  <1>2. Seq(Known) \subseteq Seq(Block)
    BY <1>1, SeqMonotone
  <1> QED
    BY <1>1, <1>2 DEF KnownMessage, Message

\* A chain that is not touched, or gets one block more.
Grows(n) ==
    \/ chain'[n] = chain[n]
    \/ \E b \in Block : chain'[n] = Append(chain[n], b)

LEMMA KnownStays ==
  ASSUME TypeOK, \A n \in Nodes : Grows(n)
  PROVE  Known \subseteq Known' /\ KnownMessage \subseteq KnownMessage'
  <1>1. Known \subseteq Known'
    <2> SUFFICES ASSUME NEW b \in Known PROVE b \in Known'
      OBVIOUS
    <2>1. PICK m \in Miners : /\ b.hash = <<m, b.height>>
                              /\ b.height \in 1..Len(chain[m])
                              /\ chain[m][b.height] = b
      BY DEF Known
    <2>2. m \in Nodes /\ chain[m] \in Seq(Block)
      BY SyncAssumption DEF TypeOK
    <2>3. b.height \in 1..Len(chain'[m]) /\ chain'[m][b.height] = b
      <3>1. CASE chain'[m] = chain[m]
        BY <2>1, <3>1
      <3>2. ASSUME NEW c \in Block, chain'[m] = Append(chain[m], c)
            PROVE  b.height \in 1..Len(chain'[m]) /\ chain'[m][b.height] = b
        BY <2>1, <2>2, <3>2
      <3> QED
        BY <2>2, <3>1, <3>2 DEF Grows
    <2> QED
      BY <2>1, <2>3 DEF Known
  <1>2. Seq(Known) \subseteq Seq(Known')
    BY <1>1, SeqMonotone
  <1> QED
    BY <1>1, <1>2 DEF KnownMessage

\* With the chains as they are the other parts of Genuine need not be looked at
\* where they did not change.
LEMMA StillGenuine ==
  ASSUME TypeOK, Genuine, \A n \in Nodes : Grows(n)
  PROVE  /\ produced' = produced => produced' \in [Nodes -> Known' \cup {NoBlock}]
         /\ replies \in [Nodes -> [Nodes -> Seq(KnownMessage')]]
         /\ gossip \in [Nodes -> [Nodes -> Seq(Known')]]
         /\ syncing \in [Nodes -> [Nodes -> Seq(Known')]]
         /\ chain \in [Nodes -> Seq(Known')]
  <1>1. Known \subseteq Known' /\ KnownMessage \subseteq KnownMessage'
    BY KnownStays
  <1>2. Seq(Known) \subseteq Seq(Known')
    BY <1>1, SeqMonotone
  <1>3. /\ [Nodes -> [Nodes -> Seq(Known)]] \subseteq [Nodes -> [Nodes -> Seq(Known')]]
        /\ [Nodes -> [Nodes -> Seq(KnownMessage)]] \subseteq [Nodes -> [Nodes -> Seq(KnownMessage')]]
    BY <1>1, TableMonotone
  <1> QED
    BY <1>1, <1>2, <1>3 DEF Genuine

\* An unchanged chain table is one that grows.
LEMMA UnchangedGrows ==
  ASSUME chain' = chain
  PROVE  \A n \in Nodes : Grows(n)
  BY DEF Grows

\* One node appends a genuine block that extends its tip: the chains stay
\* linked, and whoever shares the new block shares what is below it.
LEMMA AppendKeeps ==
  ASSUME TypeOK, Genuine, ChainsLinked, CommonPast,
         NEW n \in Nodes, NEW b \in Block, Extends(n, b),
         chain' = [chain EXCEPT ![n] = Append(@, b)],
         b \in Known'
  PROVE  /\ \A q \in Nodes : Grows(q)
         /\ chain' \in [Nodes -> Seq(Known')]
         /\ chain' \in [Nodes -> Seq(Block)]
         /\ ChainsLinked'
         /\ CommonPast'
  <1> DEFINE k == Len(chain[n])
  <1>1. /\ chain \in [Nodes -> Seq(Block)] /\ chain[n] \in Seq(Block) /\ k \in Nat
        /\ chain'[n] = Append(chain[n], b)
        /\ \A q \in Nodes : q # n => chain'[q] = chain[q]
    BY DEF TypeOK
  <1>2. \A q \in Nodes : Grows(q)
    BY <1>1 DEF Grows
  <1>3. chain \in [Nodes -> Seq(Known')]
    BY <1>2, StillGenuine
  <1>4. chain' \in [Nodes -> Seq(Known')]
    <2>1. Append(chain[n], b) \in Seq(Known')
      BY <1>3, QueueTypes
    <2> QED
      BY <2>1, <1>3
  <1>5. chain' \in [Nodes -> Seq(Block)]
    BY <1>1
  <1>6. /\ Len(chain'[n]) = k + 1 /\ chain'[n][k + 1] = b
        /\ \A i \in 1..k : chain'[n][i] = chain[n][i]
    BY <1>1
  <1>7. /\ b.height = k + 1
        /\ b.prev_hash = IF k = 0 THEN "genesis" ELSE chain[n][k].hash
    BY <1>1 DEF Extends, TipHash
  <1> HIDE DEF k
  <1>8. ChainsLinked'
    <2> SUFFICES ASSUME NEW q \in Nodes, NEW i \in 1..Len(chain'[q])
                 PROVE  /\ chain'[q][i].height = i
                        /\ chain'[q][i].prev_hash
                             = IF i = 1 THEN "genesis" ELSE chain'[q][i - 1].hash
      BY DEF ChainsLinked
    <2>1. CASE q # n
      BY <2>1, <1>1 DEF ChainsLinked
    <2>2. CASE q = n /\ i = k + 1
      <3>1. i # 1 => i - 1 = k /\ k \in 1..k
        BY <2>2, <1>1
      <3> QED
        BY <2>2, <3>1, <1>1, <1>6, <1>7
    <2>3. CASE q = n /\ i # k + 1
      <3>1. i \in 1..k /\ (i # 1 => i - 1 \in 1..k)
        BY <2>3, <1>1, <1>6
      <3> QED
        BY <2>3, <3>1, <1>6 DEF ChainsLinked, k
    <2> QED
      BY <2>1, <2>2, <2>3
  <1>9. \A c \in Known' : c.hash = b.hash => c = b
    <2> SUFFICES ASSUME NEW c \in Known', c.hash = b.hash PROVE c = b
      OBVIOUS
    <2>1. PICK m \in Miners : b.hash = <<m, b.height>> /\ chain'[m][b.height] = b
      BY DEF Known
    <2>2. PICK l \in Miners : c.hash = <<l, c.height>> /\ chain'[l][c.height] = c
      BY DEF Known
    <2>3. l = m /\ c.height = b.height
      BY <2>1, <2>2
    <2> QED
      BY <2>1, <2>2, <2>3
  \* Another chain that has b at the new height has n's old tip below it.
  <1>10. ASSUME NEW p \in Nodes, p # n, k + 1 <= Len(chain[p]),
                chain[p][k + 1].hash = b.hash
         PROVE  /\ chain[p][k + 1] = b
                /\ \A j \in 1..k : chain[n][j] = chain[p][j]
    <2>1. chain[p] \in Seq(Known') /\ chain[p] \in Seq(Block) /\ Len(chain[p]) \in Nat
      BY <1>1, <1>3
    <2>2. k + 1 \in 1..Len(chain[p])
      BY <1>1, <1>10, <2>1
    <2>3. chain[p][k + 1] = b
      BY <1>9, <1>10, <2>1, <2>2
    <2>4. CASE k = 0
      BY <2>3, <2>4
    <2>5. CASE k # 0
      <3>1. chain[p][k].hash = chain[n][k].hash
        <4>1. k + 1 # 1 /\ (k + 1) - 1 = k
          BY <2>5, <1>1
        <4>2. chain[p][k + 1].prev_hash = chain[p][k].hash
          BY <4>1, <2>2 DEF ChainsLinked
        <4> QED
          BY <4>2, <2>3, <2>5, <1>7
      <3>2. k \in 1..Len(chain[n]) /\ k <= Len(chain[p])
        BY <2>1, <2>2, <2>5, <1>1 DEF k
      <3>3. \A j \in 1..k : chain[n][j] = chain[p][j]
        BY <3>1, <3>2 DEF CommonPast
      <3> QED
        BY <2>3, <3>3
    <2> QED
      BY <2>4, <2>5
  <1>11. CommonPast'
    <2> SUFFICES ASSUME NEW q \in Nodes, NEW p \in Nodes, NEW i \in 1..Len(chain'[q]),
                        i <= Len(chain'[p]), chain'[q][i].hash = chain'[p][i].hash,
                        NEW j \in 1..i
                 PROVE  chain'[q][j] = chain'[p][j]
      BY SMTT(30) DEF CommonPast
    <2>0. i \in Nat /\ j \in Nat /\ j <= i /\ 1 <= j
      OBVIOUS
    <2>1. CASE q = p
      BY <2>1
    <2>2. CASE q # n /\ p # n
      BY <2>2, <1>1 DEF CommonPast
    <2>3. CASE q = n /\ p # n
      <3>1. chain'[p] = chain[p]
        BY <2>3, <1>1
      <3>2. CASE i = k + 1
        <4>1. chain[p][k + 1] = b /\ \A h \in 1..k : chain[n][h] = chain[p][h]
          BY <2>3, <3>1, <3>2, <1>6, <1>10
        <4>2. j = k + 1 \/ j \in 1..k
          BY <3>2, <2>0, <1>1
        <4> QED
          BY <2>3, <3>1, <4>1, <4>2, <1>6
      <3>3. CASE i # k + 1
        <4>1. i \in 1..k /\ j \in 1..k
          BY <2>3, <3>3, <2>0, <1>1, <1>6
        <4>2. chain[n][i].hash = chain[p][i].hash /\ i <= Len(chain[p])
          BY <2>3, <3>1, <4>1, <1>6
        <4>3. chain[n][j] = chain[p][j]
          BY <4>1, <4>2 DEF CommonPast, k
        <4> QED
          BY <4>1, <4>3, <2>3, <3>1, <1>6
      <3> QED
        BY <3>2, <3>3
    <2>4. CASE q # n /\ p = n
      <3>1. chain'[q] = chain[q]
        BY <2>4, <1>1
      <3>2. CASE i = k + 1
        <4>0. k + 1 <= Len(chain[q])
          BY <3>1, <3>2, <1>1
        <4>1. chain[q][k + 1] = b /\ \A h \in 1..k : chain[n][h] = chain[q][h]
          BY <4>0, <2>4, <3>1, <3>2, <1>6, <1>10
        <4>2. j = k + 1 \/ j \in 1..k
          BY <3>2, <2>0, <1>1
        <4> QED
          BY <2>4, <3>1, <4>1, <4>2, <1>6
      <3>3. CASE i # k + 1
        <4>1. i \in 1..k /\ j \in 1..k
          BY <2>4, <3>3, <2>0, <1>1, <1>6
        <4>2. chain[n][i].hash = chain[q][i].hash /\ i \in 1..Len(chain[q]) /\ i <= Len(chain[n])
          BY <2>4, <3>1, <4>1, <1>6, <1>1 DEF k
        <4>3. chain[q][j] = chain[n][j]
          BY <4>1, <4>2 DEF CommonPast, k
        <4> QED
          BY <4>1, <4>3, <2>4, <3>1, <1>6
      <3> QED
        BY <3>2, <3>3
    <2> QED
      BY <2>1, <2>2, <2>3, <2>4
  <1> QED
    BY <1>2, <1>4, <1>5, <1>8, <1>11

-----------------------------------------------------------------------------
(* Each step preserves the invariant.                                      *)

LEMMA InitInv == Init => SyncInv
  <1> SUFFICES ASSUME Init PROVE SyncInv
    OBVIOUS
  <1> USE DEF Init
  <1>1. \A S : <<>> \in Seq(S)
    OBVIOUS
  <1>2. GossipSize \in Nat /\ Len(<<>>) = 0
    BY SyncAssumption
  <1>3. TypeOK
    BY <1>1, <1>2 DEF TypeOK
  <1>4. Genuine
    BY <1>1 DEF Genuine
  <1>5. ChainsLinked /\ CommonPast
    BY DEF ChainsLinked, CommonPast
  <1> QED
    BY <1>3, <1>4, <1>5 DEF SyncInv

\* What a step that leaves the chains alone has nothing to say about.
LEMMA ChainUntouched ==
  ASSUME SyncInv, chain' = chain
  PROVE  /\ \A n \in Nodes : Grows(n)
         /\ chain' \in [Nodes -> Seq(Known')]
         /\ chain' \in [Nodes -> Seq(Block)]
         /\ ChainsLinked'
         /\ CommonPast'
  <1>1. \A n \in Nodes : Grows(n)
    BY UnchangedGrows
  <1>2. chain' \in [Nodes -> Seq(Known')]
    BY <1>1, StillGenuine DEF SyncInv
  <1>3. ChainsLinked' /\ CommonPast'
    BY DEF SyncInv, ChainsLinked, CommonPast
  <1> QED
    BY <1>1, <1>2, <1>3 DEF SyncInv, TypeOK

\* A step that changes the connection states only.
LEMMA HandlerInv ==
  ASSUME SyncInv, handler' \in [Nodes -> [Nodes -> {"closed", "registered", "subscribed", "open"}]],
         UNCHANGED <<chain, produced, replies, gossip, syncing, drops>>
  PROVE  SyncInv'
  <1>1. TypeOK'
    BY DEF SyncInv, TypeOK
  <1>2. Genuine'
    BY ChainUntouched, StillGenuine DEF SyncInv, Genuine
  <1> QED
    BY <1>1, <1>2, ChainUntouched DEF SyncInv

LEMMA ConnectInv ==
  ASSUME SyncInv, NEW n \in Nodes, NEW p \in Nodes, Connect(n, p)
  PROVE  SyncInv'
  BY HandlerInv DEF Connect, SyncInv, TypeOK

LEMMA SubscribeInv ==
  ASSUME SyncInv, NEW n \in Nodes, NEW p \in Nodes, Subscribe(n, p)
  PROVE  SyncInv'
  BY HandlerInv DEF Subscribe, SyncInv, TypeOK

\* A step that changes what is under way between nodes, and perhaps the
\* connections, in genuine ways.
LEMMA TrafficInv ==
  ASSUME SyncInv,
         UNCHANGED <<chain, produced>>,
         handler' \in [Nodes -> [Nodes -> {"closed", "registered", "subscribed", "open"}]],
         replies' \in [Nodes -> [Nodes -> Seq(KnownMessage)]],
         gossip' \in [Nodes -> [Nodes -> Seq(Known)]],
         \A n, p \in Nodes : Len(gossip'[n][p]) <= GossipSize,
         syncing' \in [Nodes -> [Nodes -> Seq(Known)]],
         drops' \in Nat
  PROVE  SyncInv'
  <1>1. \A n \in Nodes : Grows(n)
    BY ChainUntouched
  <1>2. Known \subseteq Known' /\ KnownMessage \subseteq KnownMessage'
    BY <1>1, KnownStays DEF SyncInv
  <1>3. Genuine'
    <2>1. /\ replies' \in [Nodes -> [Nodes -> Seq(KnownMessage')]]
          /\ gossip' \in [Nodes -> [Nodes -> Seq(Known')]]
          /\ syncing' \in [Nodes -> [Nodes -> Seq(Known')]]
      BY <1>2, TableMonotone
    <2>2. produced' \in [Nodes -> Known' \cup {NoBlock}]
      BY <1>1, StillGenuine DEF SyncInv
    <2> QED
      BY <2>1, <2>2, ChainUntouched DEF Genuine
  <1>4. TypeOK'
    <2>1. /\ replies' \in [Nodes -> [Nodes -> Seq(Message)]]
          /\ gossip' \in [Nodes -> [Nodes -> Seq(Block)]]
          /\ syncing' \in [Nodes -> [Nodes -> Seq(Block)]]
      BY KnownTypes, TableMonotone
    <2> QED
      BY <2>1 DEF SyncInv, TypeOK
  <1> QED
    BY <1>3, <1>4, ChainUntouched DEF SyncInv

LEMMA SendHandshakeInv ==
  ASSUME SyncInv, NEW n \in Nodes, NEW p \in Nodes, SendHandshake(n, p)
  PROVE  SyncInv'
  <1> DEFINE msg == [type |-> "Handshake", height |-> Len(chain[n])]
  <1>1. msg \in KnownMessage
    BY DEF SyncInv, TypeOK, KnownMessage
  <1> HIDE DEF msg
  <1>2. replies[n][p] \in Seq(KnownMessage)
    BY DEF SyncInv, Genuine
  <1>3. replies' = [replies EXCEPT ![n][p] = Append(replies[n][p], msg)]
    BY DEF SendHandshake, msg
  <1>4. replies' \in [Nodes -> [Nodes -> Seq(KnownMessage)]]
    BY SMTT(30), <1>1, <1>2, <1>3, QueueTypes, TableUpdate DEF SyncInv, Genuine
  <1>5. handler' \in [Nodes -> [Nodes -> {"closed", "registered", "subscribed", "open"}]]
    BY DEF SyncInv, TypeOK, SendHandshake
  <1> QED
    BY <1>4, <1>5, TrafficInv DEF SendHandshake, SyncInv, TypeOK, Genuine

LEMMA DropInv ==
  ASSUME SyncInv, NEW n \in Nodes, NEW p \in Nodes, Drop(n, p)
  PROVE  SyncInv'
  <1>0. \A S : <<>> \in Seq(S)
    OBVIOUS
  <1>1. handler' \in [Nodes -> [Nodes -> {"closed", "registered", "subscribed", "open"}]]
    BY DEF SyncInv, TypeOK, Drop
  <1>2. \A S : \A f \in [Nodes -> [Nodes -> Seq(S)]] :
          [f EXCEPT ![n][p] = <<>>, ![p][n] = <<>>] \in [Nodes -> [Nodes -> Seq(S)]]
    <2> SUFFICES ASSUME NEW S, NEW f \in [Nodes -> [Nodes -> Seq(S)]]
                 PROVE  [f EXCEPT ![n][p] = <<>>, ![p][n] = <<>>] \in [Nodes -> [Nodes -> Seq(S)]]
      OBVIOUS
    <2> DEFINE g == [f EXCEPT ![n][p] = <<>>]
    <2>1. g \in [Nodes -> [Nodes -> Seq(S)]]
      BY <1>0, TableUpdate
    <2> HIDE DEF g
    <2>2. [g EXCEPT ![p][n] = <<>>] \in [Nodes -> [Nodes -> Seq(S)]]
      BY <1>0, <2>1, TableUpdate
    <2> QED
      BY <2>2 DEF g
  <1>3. /\ replies' \in [Nodes -> [Nodes -> Seq(KnownMessage)]]
        /\ gossip' \in [Nodes -> [Nodes -> Seq(Known)]]
        /\ syncing' \in [Nodes -> [Nodes -> Seq(Known)]]
    BY <1>2 DEF Drop, SyncInv, Genuine
  <1>4. \A m, q \in Nodes : Len(gossip'[m][q]) <= GossipSize
    <2> TAKE m, q \in Nodes
    <2>1. gossip'[m][q] = gossip[m][q] \/ gossip'[m][q] = <<>>
      BY DEF Drop, SyncInv, TypeOK
    <2>2. Len(gossip[m][q]) <= GossipSize
      BY DEF SyncInv, TypeOK
    <2>3. Len(<<>>) <= GossipSize
      BY SyncAssumption
    <2> QED
      BY <2>1, <2>2, <2>3
  <1>5. UNCHANGED <<chain, produced>> /\ drops' \in Nat
    BY DEF Drop, SyncInv, TypeOK
  <1> QED
    BY <1>1, <1>3, <1>4, <1>5, TrafficInv

\* A miner's new block is genuine once it is in the miner's own chain.
LEMMA ProduceInv ==
  ASSUME SyncInv, NEW m \in Nodes, Produce(m)
  PROVE  SyncInv'
  <1> DEFINE b == [height |-> Len(chain[m]) + 1, hash |-> <<m, Len(chain[m]) + 1>>,
                   prev_hash |-> TipHash(m)]
  <1>1. /\ m \in Miners
        /\ chain' = [chain EXCEPT ![m] = Append(@, b)]
        /\ produced' = [produced EXCEPT ![m] = b]
        /\ UNCHANGED <<handler, replies, gossip, syncing, drops>>
    BY DEF Produce
  <1>2. chain[m] \in Seq(Block) /\ Len(chain[m]) \in Nat
    BY DEF SyncInv, TypeOK
  <1>3. TipHash(m) \in Hash \cup {"genesis"}
    <2>1. chain[m] # <<>> => chain[m][Len(chain[m])] \in Block
      BY <1>2
    <2> QED
      BY <2>1 DEF TipHash, Block
  <1>4. b \in Block /\ b.height = Len(chain[m]) + 1 /\ b.hash = <<m, b.height>>
        /\ b.prev_hash = TipHash(m)
    BY <1>2, <1>3 DEF Block, Hash
  <1> HIDE DEF b
  <1>5. b \in Known'
    <2>1. chain'[m] = Append(chain[m], b)
      BY <1>1 DEF SyncInv, TypeOK
    <2>2. b.height \in 1..Len(chain'[m]) /\ chain'[m][b.height] = b
      BY <1>2, <1>4, <2>1
    <2> QED
      BY <1>1, <1>4, <2>2 DEF Known
  <1>6. /\ \A q \in Nodes : Grows(q)
        /\ chain' \in [Nodes -> Seq(Known')]
        /\ chain' \in [Nodes -> Seq(Block)]
        /\ ChainsLinked'
        /\ CommonPast'
    BY <1>1, <1>4, <1>5, AppendKeeps DEF SyncInv, Extends
  <1>7. Genuine'
    <2>1. Known \subseteq Known'
      BY <1>6, KnownStays DEF SyncInv
    <2>2. produced' \in [Nodes -> Known' \cup {NoBlock}]
      BY <1>1, <1>5, <2>1 DEF SyncInv, Genuine
    <2> QED
      BY <1>1, <1>6, <2>2, StillGenuine DEF SyncInv, Genuine
  <1>8. TypeOK'
    BY <1>1, <1>4, <1>6 DEF SyncInv, TypeOK
  <1> QED
    BY <1>6, <1>7, <1>8 DEF SyncInv

\* A broadcast puts the block behind the ones a peer has not read yet, or in the
\* place of the oldest.
LEMMA BroadcastInv ==
  ASSUME SyncInv, NEW m \in Nodes, Broadcast(m)
  PROVE  SyncInv'
  <1>1. /\ produced[m] # NoBlock
        /\ gossip' = [gossip EXCEPT ![m] =
                        [p \in Nodes |-> IF handler[m][p] \in {"subscribed", "open"}
                                         THEN Buffered(gossip[m][p], produced[m])
                                         ELSE gossip[m][p]]]
        /\ produced' = [produced EXCEPT ![m] = NoBlock]
        /\ UNCHANGED <<chain, handler, replies, syncing, drops>>
    BY DEF Broadcast
  <1>2. produced[m] \in Known /\ gossip[m] \in [Nodes -> Seq(Known)]
    BY <1>1 DEF SyncInv, Genuine
  <1>3. \A p \in Nodes : /\ Buffered(gossip[m][p], produced[m]) \in Seq(Known)
                         /\ Len(Buffered(gossip[m][p], produced[m])) <= GossipSize
    <2> TAKE p \in Nodes
    <2> DEFINE s == gossip[m][p]
    <2>1. s \in Seq(Known) /\ Len(s) \in Nat /\ Len(s) <= GossipSize /\ GossipSize \in Nat \ {0}
      BY <1>2, SyncAssumption DEF SyncInv, TypeOK
    <2> HIDE DEF s
    <2>2. CASE Len(s) < GossipSize
      BY <2>1, <2>2, <1>2 DEF Buffered, s
    <2>3. CASE ~(Len(s) < GossipSize)
      <3>1. s # <<>> /\ Len(s) = GossipSize
        BY <2>1, <2>3
      <3>2. Tail(s) \in Seq(Known) /\ Len(Tail(s)) = Len(s) - 1
        BY <2>1, <3>1, QueueTypes
      <3>3. Append(Tail(s), produced[m]) \in Seq(Known) /\ Len(Append(Tail(s), produced[m])) = Len(s)
        BY <2>1, <3>2, <1>2
      <3> QED
        BY <2>1, <2>3, <3>1, <3>3 DEF Buffered, s
    <2> QED
      BY <2>2, <2>3
  <1>4. gossip \in [Nodes -> [Nodes -> Seq(Known)]]
    BY DEF SyncInv, Genuine
  <1>5. gossip' \in [Nodes -> [Nodes -> Seq(Known)]]
    BY <1>1, <1>2, <1>3, <1>4
  <1>6. \A n, p \in Nodes : Len(gossip'[n][p]) <= GossipSize
    <2> TAKE n, p \in Nodes
    <2>1. \/ gossip'[n][p] = gossip[n][p]
          \/ n = m /\ gossip'[n][p] = Buffered(gossip[m][p], produced[m])
      BY <1>1, <1>4
    <2> QED
      BY <2>1, <1>3 DEF SyncInv, TypeOK
  <1>7. \A n \in Nodes : Grows(n)
    BY <1>1, ChainUntouched
  <1>8. Genuine'
    <2>1. Known \subseteq Known'
      BY <1>7, KnownStays DEF SyncInv
    <2>2. gossip' \in [Nodes -> [Nodes -> Seq(Known')]]
      BY <1>5, <2>1, TableMonotone
    <2>3. produced' \in [Nodes -> Known' \cup {NoBlock}]
      BY <1>1, <2>1 DEF SyncInv, Genuine
    <2> QED
      BY <1>1, <1>7, <2>2, <2>3, StillGenuine, ChainUntouched DEF SyncInv, Genuine
  <1>9. TypeOK'
    <2>1. gossip' \in [Nodes -> [Nodes -> Seq(Block)]]
      BY <1>5, KnownTypes, TableMonotone
    <2>2. produced' \in [Nodes -> Block \cup {NoBlock}]
      BY <1>1 DEF SyncInv, TypeOK
    <2> QED
      BY <1>1, <1>6, <2>1, <2>2 DEF SyncInv, TypeOK
  <1> QED
    BY <1>1, <1>8, <1>9, ChainUntouched DEF SyncInv

\* A node asks for heights from 1 on.
LEMMA RequestType ==
  ASSUME SyncInv, NEW n \in Nodes, NEW h \in Nat
  PROVE  Request(n, h) \in KnownMessage
  <1>1. Len(chain[n]) \in Nat
    BY DEF SyncInv, TypeOK
  <1> QED
    BY <1>1 DEF Request, KnownMessage

\* A block that node n receives, of a broadcast or of a synced range, is applied
\* or refused; either way the chains are as the invariant wants them.
LEMMA ApplyKeeps ==
  ASSUME SyncInv, NEW n \in Nodes, NEW b \in Known,
         chain' = IF Extends(n, b) THEN [chain EXCEPT ![n] = Append(@, b)] ELSE chain
  PROVE  /\ \A q \in Nodes : Grows(q)
         /\ chain' \in [Nodes -> Seq(Known')]
         /\ chain' \in [Nodes -> Seq(Block)]
         /\ ChainsLinked'
         /\ CommonPast'
  <1>1. CASE ~Extends(n, b)
    BY <1>1, ChainUntouched
  <1>2. CASE Extends(n, b)
    <2>1. b \in Block /\ chain' = [chain EXCEPT ![n] = Append(@, b)]
      BY <1>2, KnownTypes
    <2>2. \A q \in Nodes : Grows(q)
      BY <2>1 DEF Grows, SyncInv, TypeOK
    <2>3. b \in Known'
      BY <2>2, KnownStays DEF SyncInv
    <2> QED
      BY <1>2, <2>1, <2>3, AppendKeeps DEF SyncInv
  <1> QED
    BY <1>1, <1>2

LEMMA RecvNewBlockInv ==
  ASSUME SyncInv, NEW n \in Nodes, NEW p \in Nodes, RecvNewBlock(n, p)
  PROVE  SyncInv'
  <1> DEFINE b == Head(gossip[p][n])
  <1>1. /\ gossip[p][n] # <<>>
        /\ gossip' = [gossip EXCEPT ![p][n] = Tail(gossip[p][n])]
        /\ chain' = IF Extends(n, b) THEN [chain EXCEPT ![n] = Append(@, b)] ELSE chain
        /\ replies' = IF b.height > Len(chain[n]) + 1
                      THEN Reply(n, p, Request(n, b.height)) ELSE replies
        /\ UNCHANGED <<produced, handler, syncing, drops>>
    BY DEF RecvNewBlock
  <1>2. gossip[p][n] \in Seq(Known) /\ gossip \in [Nodes -> [Nodes -> Seq(Known)]]
    BY DEF SyncInv, Genuine
  <1>3. /\ b \in Known /\ Tail(gossip[p][n]) \in Seq(Known)
        /\ Len(Tail(gossip[p][n])) = Len(gossip[p][n]) - 1
    BY <1>1, <1>2, QueueTypes
  <1> HIDE DEF b
  <1>4. b \in Block /\ b.height \in Nat
    BY <1>3, KnownTypes DEF Block
  <1>5. /\ \A q \in Nodes : Grows(q)
        /\ chain' \in [Nodes -> Seq(Known')]
        /\ chain' \in [Nodes -> Seq(Block)]
        /\ ChainsLinked'
        /\ CommonPast'
    BY <1>1, <1>3, ApplyKeeps
  <1>6. replies' \in [Nodes -> [Nodes -> Seq(KnownMessage)]]
    <2>1. replies \in [Nodes -> [Nodes -> Seq(KnownMessage)]]
      BY DEF SyncInv, Genuine
    <2>2. Request(n, b.height) \in KnownMessage
      BY <1>4, RequestType
    <2>3. Append(replies[n][p], Request(n, b.height)) \in Seq(KnownMessage)
      BY <2>1, <2>2, QueueTypes
    <2>4. Reply(n, p, Request(n, b.height)) \in [Nodes -> [Nodes -> Seq(KnownMessage)]]
      BY <2>1, <2>3, TableUpdate DEF Reply
    <2> QED
      BY <1>1, <2>1, <2>4
  <1>7. /\ gossip' \in [Nodes -> [Nodes -> Seq(Known)]]
        /\ \A m, q \in Nodes : Len(gossip'[m][q]) <= GossipSize
    <2>1. gossip' \in [Nodes -> [Nodes -> Seq(Known)]]
      BY <1>1, <1>2, <1>3, TableUpdate
    <2>2. ASSUME NEW m \in Nodes, NEW q \in Nodes PROVE Len(gossip'[m][q]) <= GossipSize
      <3>1. gossip'[m][q] = gossip[m][q] \/ (gossip'[m][q] = Tail(gossip[p][n]))
        BY <1>1, <1>2, <1>3, TableUpdate
      <3>2. Len(gossip[m][q]) <= GossipSize /\ Len(gossip[p][n]) <= GossipSize
        BY DEF SyncInv, TypeOK
      <3>3. GossipSize \in Nat /\ Len(gossip[p][n]) \in Nat
        BY <1>2, SyncAssumption
      <3> DEFINE t == Tail(gossip[p][n])
                 k == Len(gossip[p][n])
      <3>4. Len(t) = k - 1 /\ k \in Nat /\ k <= GossipSize
        BY <1>3, <3>2, <3>3
      <3>5. gossip'[m][q] = gossip[m][q] \/ gossip'[m][q] = t
        BY <3>1
      <3> HIDE DEF t, k
      <3>6. Len(t) <= GossipSize
        BY <3>3, <3>4
      <3> QED
        BY <3>2, <3>5, <3>6
    <2> QED
      BY <2>1, <2>2
  <1>8. Genuine'
    <2>1. Known \subseteq Known' /\ KnownMessage \subseteq KnownMessage'
      BY <1>5, KnownStays DEF SyncInv
    <2>2. /\ replies' \in [Nodes -> [Nodes -> Seq(KnownMessage')]]
          /\ gossip' \in [Nodes -> [Nodes -> Seq(Known')]]
      BY <1>6, <1>7, <2>1, TableMonotone
    <2> QED
      BY <1>1, <1>5, <2>2, StillGenuine DEF SyncInv, Genuine
  <1>9. TypeOK'
    <2>1. /\ replies' \in [Nodes -> [Nodes -> Seq(Message)]]
          /\ gossip' \in [Nodes -> [Nodes -> Seq(Block)]]
      BY <1>6, <1>7, KnownTypes, TableMonotone
    <2> QED
      BY <1>1, <1>5, <1>7, <2>1 DEF SyncInv, TypeOK
  <1> QED
    BY <1>5, <1>8, <1>9 DEF SyncInv

LEMMA ApplySyncedInv ==
  ASSUME SyncInv, NEW n \in Nodes, NEW p \in Nodes, ApplySynced(n, p)
  PROVE  SyncInv'
  <1> DEFINE b == Head(syncing[n][p])
  <1>1. /\ syncing[n][p] # <<>>
        /\ chain' = IF Extends(n, b) THEN [chain EXCEPT ![n] = Append(@, b)] ELSE chain
        /\ syncing' = [syncing EXCEPT ![n][p] = Tail(syncing[n][p])]
        /\ UNCHANGED <<produced, handler, replies, gossip, drops>>
    BY DEF ApplySynced
  <1>2. syncing[n][p] \in Seq(Known) /\ syncing \in [Nodes -> [Nodes -> Seq(Known)]]
    BY DEF SyncInv, Genuine
  <1>3. b \in Known /\ Tail(syncing[n][p]) \in Seq(Known)
    BY <1>1, <1>2, QueueTypes
  <1> HIDE DEF b
  <1>4. /\ \A q \in Nodes : Grows(q)
        /\ chain' \in [Nodes -> Seq(Known')]
        /\ chain' \in [Nodes -> Seq(Block)]
        /\ ChainsLinked'
        /\ CommonPast'
    BY <1>1, <1>3, ApplyKeeps
  <1>5. syncing' \in [Nodes -> [Nodes -> Seq(Known)]]
    BY <1>1, <1>2, <1>3, TableUpdate
  <1>6. Genuine'
    <2>1. Known \subseteq Known'
      BY <1>4, KnownStays DEF SyncInv
    <2>2. syncing' \in [Nodes -> [Nodes -> Seq(Known')]]
      BY <1>5, <2>1, TableMonotone
    <2> QED
      BY <1>1, <1>4, <2>2, StillGenuine DEF SyncInv, Genuine
  <1>7. TypeOK'
    <2>1. syncing' \in [Nodes -> [Nodes -> Seq(Block)]]
      BY <1>5, KnownTypes, TableMonotone
    <2> QED
      BY <1>1, <1>4, <2>1 DEF SyncInv, TypeOK
  <1> QED
    BY <1>4, <1>6, <1>7 DEF SyncInv

\* n takes the next message of p, and answers or not: its own queue becomes q.
LEMMA AnswerType ==
  ASSUME SyncInv, NEW n \in Nodes, NEW p \in Nodes, replies[p][n] # <<>>,
         NEW q \in Seq(KnownMessage)
  PROVE  [replies EXCEPT ![p][n] = Tail(@), ![n][p] = q]
            \in [Nodes -> [Nodes -> Seq(KnownMessage)]]
  <1> DEFINE f == [replies EXCEPT ![p][n] = Tail(@)]
  <1>1. replies \in [Nodes -> [Nodes -> Seq(KnownMessage)]] /\ replies[p][n] \in Seq(KnownMessage)
    BY DEF SyncInv, Genuine
  <1>2. Tail(replies[p][n]) \in Seq(KnownMessage)
    BY <1>1, QueueTypes
  <1>3. f \in [Nodes -> [Nodes -> Seq(KnownMessage)]]
    BY <1>1, <1>2, TableUpdate
  <1> HIDE DEF f
  <1>4. [f EXCEPT ![n][p] = q] \in [Nodes -> [Nodes -> Seq(KnownMessage)]]
    BY <1>3, TableUpdate
  <1> QED
    BY <1>4 DEF f

LEMMA RecvHandshakeInv ==
  ASSUME SyncInv, NEW n \in Nodes, NEW p \in Nodes, RecvHandshake(n, p)
  PROVE  SyncInv'
  <1> DEFINE head == Head(replies[p][n])
             h == head.height
  <1>1. /\ replies[p][n] # <<>> /\ head.type = "Handshake"
        /\ replies' = [replies EXCEPT
             ![p][n] = Tail(@),
             ![n][p] = IF h > Len(chain[n]) THEN Append(@, Request(n, h)) ELSE @]
        /\ UNCHANGED <<chain, produced, handler, gossip, syncing, drops>>
    BY DEF RecvHandshake, Incoming
  <1>2. head \in KnownMessage
    BY <1>1, QueueTypes DEF SyncInv, Genuine
  <1>3. h \in Nat
    BY <1>1, <1>2 DEF KnownMessage
  <1>4. Request(n, h) \in KnownMessage
    BY <1>3, RequestType
  <1>5. replies' \in [Nodes -> [Nodes -> Seq(KnownMessage)]]
    <2> DEFINE q == IF h > Len(chain[n]) THEN Append(replies[n][p], Request(n, h)) ELSE replies[n][p]
    <2>1. replies' = [replies EXCEPT ![p][n] = Tail(@), ![n][p] = q]
      BY <1>1
    <2>2. replies[n][p] \in Seq(KnownMessage)
      BY DEF SyncInv, Genuine
    <2>3. q \in Seq(KnownMessage)
      BY <1>4, <2>2, QueueTypes
    <2> HIDE DEF q
    <2>4. replies[p][n] # <<>>
      BY <1>1
    <2>5. [replies EXCEPT ![p][n] = Tail(@), ![n][p] = q]
            \in [Nodes -> [Nodes -> Seq(KnownMessage)]]
      BY <2>3, <2>4, AnswerType
    <2> QED
      BY <2>1, <2>5
  <1> QED
    BY <1>1, <1>5, TrafficInv DEF SyncInv, TypeOK, Genuine

\* A range is answered with blocks of the answering node's own chain.
LEMMA RecvGetBlocksInv ==
  ASSUME SyncInv, NEW n \in Nodes, NEW p \in Nodes, RecvGetBlocks(n, p)
  PROVE  SyncInv'
  <1> DEFINE msg == Head(replies[p][n])
             to_clamped == IF msg.to < msg.from + MaxRange THEN msg.to ELSE msg.from + MaxRange
             blocks == get_blocks(n, msg.from, to_clamped)
             answer == [type |-> "Blocks", blocks |-> blocks]
  <1>1. /\ replies[p][n] # <<>> /\ msg.type = "GetBlocks"
        /\ replies' = [replies EXCEPT
             ![p][n] = Tail(@),
             ![n][p] = IF blocks # <<>> THEN Append(@, answer) ELSE @]
        /\ UNCHANGED <<chain, produced, handler, gossip, syncing, drops>>
    BY DEF RecvGetBlocks, Incoming
  <1>2. msg \in KnownMessage
    BY <1>1, QueueTypes DEF SyncInv, Genuine
  <1>3. msg.from \in Nat \ {0} /\ msg.to \in Nat
    BY <1>1, <1>2 DEF KnownMessage
  <1>4. to_clamped \in Nat
    BY <1>3, SyncAssumption
  <1> HIDE DEF to_clamped, msg
  <1>5. blocks \in Seq(Known)
    <2> DEFINE last == IF to_clamped < Len(chain[n]) THEN to_clamped ELSE Len(chain[n])
    <2>1. chain[n] \in Seq(Known) /\ Len(chain[n]) \in Nat
      BY DEF SyncInv, Genuine, TypeOK
    <2>2. last \in Nat /\ last <= Len(chain[n])
      BY <1>4, <2>1
    <2>3. blocks = SubSeq(chain[n], msg.from, last)
      BY DEF get_blocks
    <2> HIDE DEF last
    <2> QED
      BY <1>3, <2>1, <2>2, <2>3, SubSeqType
  <1> HIDE DEF blocks
  <1>6. answer \in KnownMessage
    BY <1>5 DEF KnownMessage
  <1>7. replies' \in [Nodes -> [Nodes -> Seq(KnownMessage)]]
    <2> DEFINE q == IF blocks # <<>> THEN Append(replies[n][p], answer) ELSE replies[n][p]
    <2>1. replies' = [replies EXCEPT ![p][n] = Tail(@), ![n][p] = q]
      BY <1>1
    <2>2. replies[n][p] \in Seq(KnownMessage)
      BY DEF SyncInv, Genuine
    <2> HIDE DEF answer
    <2>3. q \in Seq(KnownMessage)
      BY <1>6, <2>2, QueueTypes
    <2> HIDE DEF q
    <2>4. replies[p][n] # <<>>
      BY <1>1
    <2>5. [replies EXCEPT ![p][n] = Tail(@), ![n][p] = q]
            \in [Nodes -> [Nodes -> Seq(KnownMessage)]]
      BY <2>3, <2>4, AnswerType
    <2> QED
      BY <2>1, <2>5
  <1> QED
    BY <1>1, <1>7, TrafficInv DEF SyncInv, TypeOK, Genuine

LEMMA RecvBlocksInv ==
  ASSUME SyncInv, NEW n \in Nodes, NEW p \in Nodes, RecvBlocks(n, p)
  PROVE  SyncInv'
  <1> DEFINE msg == Head(replies[p][n])
  <1>1. /\ replies[p][n] # <<>> /\ msg.type = "Blocks"
        /\ syncing' = [syncing EXCEPT ![n][p] = msg.blocks]
        /\ replies' = [replies EXCEPT ![p][n] = Tail(replies[p][n])]
        /\ UNCHANGED <<chain, produced, handler, gossip, drops>>
    BY DEF RecvBlocks, Incoming
  <1>2. msg \in KnownMessage /\ Tail(replies[p][n]) \in Seq(KnownMessage)
    BY <1>1, QueueTypes DEF SyncInv, Genuine
  <1>3. msg.blocks \in Seq(Known)
    BY <1>1, <1>2 DEF KnownMessage
  <1>4. replies' \in [Nodes -> [Nodes -> Seq(KnownMessage)]]
    BY <1>1, <1>2, TableUpdate DEF SyncInv, Genuine
  <1> HIDE DEF msg
  <1>5. syncing' \in [Nodes -> [Nodes -> Seq(Known)]]
    BY <1>1, <1>3, TableUpdate DEF SyncInv, Genuine
  <1> QED
    BY <1>1, <1>4, <1>5, TrafficInv DEF SyncInv, TypeOK, Genuine

LEMMA NextInv == SyncInv /\ [Next]_vars => SyncInv'
  <1> SUFFICES ASSUME SyncInv, [Next]_vars PROVE SyncInv'
    OBVIOUS
  <1>1. ASSUME NEW m \in Nodes, Produce(m) \/ Broadcast(m) PROVE SyncInv'
    BY <1>1, ProduceInv, BroadcastInv
  <1>2. ASSUME NEW n \in Nodes, NEW p \in Nodes, Connect(n, p) \/ Drop(n, p) PROVE SyncInv'
    BY <1>2, ConnectInv, DropInv
  <1>3. ASSUME NEW n \in Nodes, NEW p \in Nodes, HandlerStep(n, p) PROVE SyncInv'
    BY <1>3, SubscribeInv, SendHandshakeInv, RecvNewBlockInv, RecvHandshakeInv,
       RecvGetBlocksInv, RecvBlocksInv, ApplySyncedInv DEF HandlerStep
  <1>4. CASE UNCHANGED vars
    BY <1>4, HandlerInv DEF vars, SyncInv, TypeOK
  <1> QED
    BY <1>1, <1>2, <1>3, <1>4 DEF Next

-----------------------------------------------------------------------------
(* The theorems.                                                           *)

\* Everything stored or under way is a block that its miner holds, chains are
\* linked and shared blocks have a shared past: no step of a producer, a handler
\* or the network changes that.
THEOREM SyncInvariance == Spec => []SyncInv
  <1>1. Init => SyncInv
    BY InitInv
  <1>2. SyncInv /\ [Next]_vars => SyncInv'
    BY NextInv
  <1> QED
    BY <1>1, <1>2, PTL DEF Spec

\* Every node's chain is linked from genesis and two chains that share a block
\* agree on all below it, with any number of nodes and miners, whatever handshakes,
\* gossip, synced ranges and lost connections do (apply_block, handle_peer_connection).
THEOREM ForksShareTheirPast == Spec => []PastAgreed
  <1>1. SyncInv => PastAgreed
    BY DEF SyncInv, PastAgreed
  <1> QED
    BY <1>1, SyncInvariance, PTL

\* With a single miner there are no forks: each node holds a prefix of the miner's
\* chain.
THEOREM SingleMinerFollowed == Spec => []FollowsMiner
  <1>1. SyncInv => FollowsMiner
    <2> SUFFICES ASSUME SyncInv, NEW m \in Miners, Miners = {m}, NEW n \in Nodes
                 PROVE  /\ Len(chain[n]) <= Len(chain[m])
                        /\ \A i \in 1..Len(chain[n]) : chain[n][i] = chain[m][i]
      BY DEF FollowsMiner
    <2>1. chain[n] \in Seq(Known) /\ chain[n] \in Seq(Block) /\ m \in Nodes /\ chain[m] \in Seq(Block)
      BY SyncAssumption DEF SyncInv, Genuine, TypeOK
    <2>2. \A i \in 1..Len(chain[n]) : i \in 1..Len(chain[m]) /\ chain[n][i] = chain[m][i]
      <3> TAKE i \in 1..Len(chain[n])
      <3>1. chain[n][i] \in Known /\ chain[n][i].height = i
        BY <2>1 DEF SyncInv, ChainsLinked
      <3> QED
        BY <3>1 DEF Known
    <2>3. Len(chain[n]) <= Len(chain[m])
      <3>1. Len(chain[n]) \in Nat /\ Len(chain[m]) \in Nat
        BY <2>1
      <3>2. Len(chain[n]) # 0 => Len(chain[n]) \in 1..Len(chain[m])
        BY <2>2, <3>1
      <3> QED
        BY <3>1, <3>2
    <2> QED
      BY <2>2, <2>3
  <1> QED
    BY <1>1, SyncInvariance, PTL

=============================================================================
