------------------------------ MODULE PeerBook ------------------------------
(***************************************************************************)
(* Finding and dialling peers: the persistent peer book (store.rs), the    *)
(* dialler with its backoff and the registration of connections (p2p.rs),  *)
(* and the start-up and redial loop that choose whom to dial (node.rs,     *)
(* peer.rs).                                                               *)
(*                                                                         *)
(* A dial runs in a task of its own.  It looks at the connected peers, and *)
(* under another lock at the dial state; it clears the dial state before   *)
(* it registers its connection.  An update of the peer book reads the      *)
(* record and writes it back without a lock, while other dials and the     *)
(* handshakes of other connections do the same.                            *)
(*                                                                         *)
(* Left out: the order and the limit of the listed peers, and inbound      *)
(* connections, whose addresses are nobody's listening addresses.          *)
(***************************************************************************)
EXTENDS Integers, FiniteSets

CONSTANTS
    Endpoints,      \* normalized addresses of peers
    PublicPeers,    \* those that the internet can reach
    SeedSets,       \* the seeds a start may be configured with
    Dialers,        \* bound: dial tasks alive at a time
    MAX_PEERS,
    DIAL_BACKOFF_BASE_SECS, DIAL_BACKOFF_MAX_SECS,
    QUARANTINE_THRESHOLD, QUARANTINE_BASE,
    PRUNE_FAILURES,
    MaxSeconds,     \* bound: the clock
    MaxDials,       \* bound: dials
    MaxStarts       \* bound: restarts

ASSUME PeerBookAssumption ==
    /\ PublicPeers \subseteq Endpoints
    /\ SeedSets \subseteq SUBSET Endpoints
    /\ MAX_PEERS \in Nat
    /\ DIAL_BACKOFF_BASE_SECS \in Nat \ {0} /\ DIAL_BACKOFF_MAX_SECS \in Nat
    /\ QUARANTINE_THRESHOLD \in Nat \ {0} /\ QUARANTINE_BASE \in Nat
    /\ PRUNE_FAILURES \in Nat /\ MaxSeconds \in Nat /\ MaxDials \in Nat /\ MaxStarts \in Nat

VARIABLES
    now,            \* seconds
    seeds,          \* static_bootstrap of this start
    book,           \* the peer book
    dial_state,     \* dial_state[a]: [failures, next_attempt, in_flight]
    connected_peers,
    dialer,         \* dialer[d]: where dial task d is
    handshake,      \* a handshake that is remembering an address
    starts, dials,
    outcome,        \* history: outcome[a]: failures since the last success, and when
    raced           \* history: addresses with two updates at a time

peerVars == <<now, seeds, book, dial_state, connected_peers, dialer, handshake,
              starts, dials, outcome, raced>>

NoRecord == [source |-> "none"]
NewRecord(source) == [source |-> source, ever_connected |-> FALSE, failed_connects |-> 0,
                      quarantined_until |-> 0]
FreshDial == [failures |-> 0, next_attempt |-> 0, in_flight |-> FALSE]
NoTask == [at |-> "idle"]

\* 1 << n
Shifted(n) == 2 ^ n
MinOf(a, b) == IF a < b THEN a ELSE b

-----------------------------------------------------------------------------
(* The peer book.                                                          *)

\* A host name, or an address in none of the private, local and reserved ranges.
is_public_peer_endpoint(a) == a \in PublicPeers

quarantine_backoff(failed) == QUARANTINE_BASE * Shifted(MinOf(failed - QUARANTINE_THRESHOLD, 6))

should_replace_source(current, incoming) == incoming = "bootstrap" \/ current # "bootstrap"

\* Mutant of Upserted: a success leaves the failures in the record.
UpsertedKeepsFailures(record, source, mark) ==
    LET old == IF record = NoRecord THEN NewRecord(source) ELSE record
        new == [old EXCEPT !.source = IF should_replace_source(@, source) THEN source ELSE @]
        failed == old.failed_connects + 1
    IN  CASE mark = "connected" -> [new EXCEPT !.ever_connected = TRUE]
          [] mark = "failed" ->
               [new EXCEPT !.failed_connects = failed,
                           !.quarantined_until = IF failed >= QUARANTINE_THRESHOLD
                                                 THEN now + quarantine_backoff(failed) ELSE @]
          [] OTHER -> new

\* upsert_known_peer: the record it writes for the one it has read.
Upserted(record, source, mark) ==
    LET old == IF record = NoRecord THEN NewRecord(source) ELSE record
        new == [old EXCEPT !.source = IF should_replace_source(@, source) THEN source ELSE @]
        failed == old.failed_connects + 1
    IN  CASE mark = "connected" ->
               [new EXCEPT !.ever_connected = TRUE, !.failed_connects = 0, !.quarantined_until = 0]
          [] mark = "failed" ->
               [new EXCEPT !.failed_connects = failed,
                           !.quarantined_until = IF failed >= QUARANTINE_THRESHOLD
                                                 THEN now + quarantine_backoff(failed) ELSE @]
          [] OTHER -> new

\* Mutant of sync_bootstrap_peers: old seeds stay.
SyncNothing(b, s) == b

\* Seeds of an earlier configuration are forgotten.
sync_bootstrap_peers(b, s) ==
    [a \in Endpoints |-> IF b[a].source = "bootstrap" /\ a \notin s THEN NoRecord ELSE b[a]]

\* So are addresses nobody can dial, and peers that never answered.
prune_known_peers(b) ==
    [a \in Endpoints |->
        IF b[a] # NoRecord
           /\ \/ b[a].source # "bootstrap" /\ ~is_public_peer_endpoint(a)
              \/ ~b[a].ever_connected /\ b[a].failed_connects >= PRUNE_FAILURES
        THEN NoRecord ELSE b[a]]

list_bootstrap_peer_addresses ==
    {a \in Endpoints : /\ book[a] # NoRecord
                       /\ book[a].quarantined_until <= now
                       /\ book[a].source = "bootstrap" \/ is_public_peer_endpoint(a)}

-----------------------------------------------------------------------------
(* Starting.                                                               *)

\* The book of a start: seeds are remembered, then it is reconciled and pruned.
BookAtStart(b, s) ==
    LET remembered == [a \in Endpoints |-> IF a \in s THEN Upserted(b[a], "bootstrap", "seen") ELSE b[a]]
    IN  prune_known_peers(sync_bootstrap_peers(remembered, s))

Failures(b) == [a \in Endpoints |-> [failures |-> IF b[a] = NoRecord THEN 0 ELSE b[a].failed_connects,
                                     since |-> 0]]

PeerBookInit ==
    /\ now = 0
    /\ seeds \in SeedSets
    /\ book = BookAtStart([a \in Endpoints |-> NoRecord], seeds)
    /\ dial_state = [a \in Endpoints |-> FreshDial]
    /\ connected_peers = {}
    /\ dialer = [d \in Dialers |-> NoTask]
    /\ handshake = NoTask
    /\ starts = 1
    /\ dials = 0
    /\ outcome = [a \in Endpoints |-> [failures |-> 0, since |-> 0]]
    /\ raced = {}

\* The node stops, and is started again with other seeds; the book is on disk.
RestartNode ==
    /\ starts < MaxStarts
    /\ starts' = starts + 1
    /\ \E s \in SeedSets : seeds' = s /\ book' = BookAtStart(book, s)
    /\ dial_state' = [a \in Endpoints |-> FreshDial]
    /\ connected_peers' = {}
    /\ dialer' = [d \in Dialers |-> NoTask]
    /\ handshake' = NoTask
    /\ outcome' = Failures(book')
    /\ raced' = {}
    /\ UNCHANGED <<now, dials>>

SecondPasses ==
    /\ now < MaxSeconds
    /\ now' = now + 1
    /\ UNCHANGED <<seeds, book, dial_state, connected_peers, dialer, handshake, starts, dials,
                   outcome, raced>>

-----------------------------------------------------------------------------
(* A dial.                                                                 *)

At(a, steps) == {d \in Dialers : dialer[d] # NoTask /\ dialer[d].addr = a /\ dialer[d].at \in steps}

\* A dial between its outcome and the last update of the book that it makes.
Recording(a) == At(a, {"success", "write success", "register", "registered", "write registered",
                       "failure", "write failure"})

OutcomeRaced(a) == IF Recording(a) = {} THEN raced ELSE raced \cup {a}

Goto(d, at) == dialer' = [dialer EXCEPT ![d] = [dialer[d] EXCEPT !.at = at]]

\* The redial loop, or the start, spawns a dial of a seed or of a listed peer; the
\* dial sees that the peer is not connected.
dial(d, a) ==
    /\ dialer[d] = NoTask
    /\ a \in seeds \cup list_bootstrap_peer_addresses
    /\ a \notin connected_peers
    /\ dials < MaxDials
    /\ dials' = dials + 1
    /\ dialer' = [dialer EXCEPT ![d] = [at |-> "reserve", addr |-> a, record |-> NoRecord]]
    /\ UNCHANGED <<now, seeds, book, dial_state, connected_peers, handshake, starts, outcome, raced>>

\* Mutant of reserve_dial_slot: a dial in flight is not noticed.
ReserveTwice(d) ==
    /\ dialer[d].at = "reserve"
    /\ LET a == dialer[d].addr IN
       IF dial_state[a].next_attempt > now
       THEN dialer' = [dialer EXCEPT ![d] = NoTask] /\ UNCHANGED dial_state
       ELSE /\ dial_state' = [dial_state EXCEPT ![a].in_flight = TRUE]
            /\ Goto(d, "connect")
    /\ UNCHANGED <<now, seeds, book, connected_peers, handshake, starts, dials, outcome, raced>>

\* reserve_dial_slot, under the lock of the dial state.
reserve_dial_slot(d) ==
    /\ dialer[d].at = "reserve"
    /\ LET a == dialer[d].addr IN
       IF dial_state[a].in_flight \/ dial_state[a].next_attempt > now
       THEN dialer' = [dialer EXCEPT ![d] = NoTask] /\ UNCHANGED dial_state
       ELSE /\ dial_state' = [dial_state EXCEPT ![a].in_flight = TRUE]
            /\ Goto(d, "connect")
    /\ UNCHANGED <<now, seeds, book, connected_peers, handshake, starts, dials, outcome, raced>>

mark_dial_success(d) ==
    /\ dialer[d].at = "connect"
    /\ dial_state' = [dial_state EXCEPT ![dialer[d].addr] = FreshDial]
    /\ outcome' = [outcome EXCEPT ![dialer[d].addr] = [failures |-> 0, since |-> now]]
    /\ raced' = OutcomeRaced(dialer[d].addr)
    /\ Goto(d, "success")
    /\ UNCHANGED <<now, seeds, book, connected_peers, handshake, starts, dials>>

\* Mutant of Backoff: the first failure does not count.
BackoffFromZero(failures) == MinOf(DIAL_BACKOFF_BASE_SECS * Shifted(MinOf(failures - 1, 8)), DIAL_BACKOFF_MAX_SECS)

Backoff(failures) == MinOf(DIAL_BACKOFF_BASE_SECS * Shifted(MinOf(failures, 8)), DIAL_BACKOFF_MAX_SECS)

\* The connection is refused, or the dial times out.
mark_dial_failure(d) ==
    /\ dialer[d].at = "connect"
    /\ LET a == dialer[d].addr
           failures == dial_state[a].failures + 1
       IN  /\ dial_state' = [dial_state EXCEPT ![a] =
                [failures |-> failures, next_attempt |-> now + Backoff(failures), in_flight |-> FALSE]]
           /\ outcome' = [outcome EXCEPT ![a] = [failures |-> @.failures + 1, since |-> now]]
    /\ raced' = OutcomeRaced(dialer[d].addr)
    /\ Goto(d, "failure")
    /\ UNCHANGED <<now, seeds, book, connected_peers, handshake, starts, dials>>

\* mark_peer_connected and mark_peer_failed: the record is read, then written.
ReadRecord(d) ==
    /\ dialer[d].at \in {"success", "failure", "registered"}
    /\ dialer' = [dialer EXCEPT ![d].record = book[dialer[d].addr],
                                ![d].at = CASE dialer[d].at = "success" -> "write success"
                                            [] dialer[d].at = "failure" -> "write failure"
                                            [] OTHER -> "write registered"]
    /\ UNCHANGED <<now, seeds, book, dial_state, connected_peers, handshake, starts, dials, outcome, raced>>

Raced(task) == IF book[task.addr] = task.record THEN raced ELSE raced \cup {task.addr}

WriteRecord(d) ==
    /\ dialer[d].at \in {"write success", "write failure", "write registered"}
    /\ LET a == dialer[d].addr
           mark == IF dialer[d].at = "write failure" THEN "failed" ELSE "connected"
       IN  /\ book' = [book EXCEPT ![a] = Upserted(dialer[d].record, "dial", mark)]
           /\ raced' = Raced(dialer[d])
    /\ CASE dialer[d].at = "write success" -> Goto(d, "register")
         [] dialer[d].at = "write failure" -> dialer' = [dialer EXCEPT ![d] = NoTask]
         [] OTHER -> Goto(d, "open")
    /\ UNCHANGED <<now, seeds, dial_state, connected_peers, handshake, starts, dials, outcome>>

\* Mutant of RegisterPeer: the address is not looked for among the connected.
RegisterTwice(d) ==
    /\ dialer[d].at = "register"
    /\ IF Cardinality(connected_peers) >= MAX_PEERS
       THEN dialer' = [dialer EXCEPT ![d] = NoTask] /\ UNCHANGED connected_peers
       ELSE connected_peers' = connected_peers \cup {dialer[d].addr} /\ Goto(d, "registered")
    /\ UNCHANGED <<now, seeds, book, dial_state, handshake, starts, dials, outcome, raced>>

\* handle: a connection too many, or a second one to the same address, is dropped.
RegisterPeer(d) ==
    /\ dialer[d].at = "register"
    /\ IF Cardinality(connected_peers) >= MAX_PEERS \/ dialer[d].addr \in connected_peers
       THEN dialer' = [dialer EXCEPT ![d] = NoTask] /\ UNCHANGED connected_peers
       ELSE connected_peers' = connected_peers \cup {dialer[d].addr} /\ Goto(d, "registered")
    /\ UNCHANGED <<now, seeds, book, dial_state, handshake, starts, dials, outcome, raced>>

Disconnect(d) ==
    /\ dialer[d].at = "open"
    /\ connected_peers' = connected_peers \ {dialer[d].addr}
    /\ dialer' = [dialer EXCEPT ![d] = NoTask]
    /\ UNCHANGED <<now, seeds, book, dial_state, handshake, starts, dials, outcome, raced>>

-----------------------------------------------------------------------------
(* Another connection's handshake names a public address.                  *)

ReadForHandshake(a) ==
    /\ handshake = NoTask
    /\ is_public_peer_endpoint(a)
    /\ handshake' = [at |-> "write", addr |-> a, record |-> book[a]]
    /\ UNCHANGED <<now, seeds, book, dial_state, connected_peers, dialer, starts, dials, outcome, raced>>

WriteForHandshake ==
    /\ handshake # NoTask
    /\ book' = [book EXCEPT ![handshake.addr] = Upserted(handshake.record, "handshake", "seen")]
    /\ raced' = Raced(handshake)
    /\ handshake' = NoTask
    /\ UNCHANGED <<now, seeds, dial_state, connected_peers, dialer, starts, dials, outcome>>

PeerBookNext ==
    \/ SecondPasses
    \/ RestartNode
    \/ \E d \in Dialers, a \in Endpoints : dial(d, a)
    \/ \E d \in Dialers :
         \/ reserve_dial_slot(d) \/ mark_dial_success(d) \/ mark_dial_failure(d)
         \/ ReadRecord(d) \/ WriteRecord(d) \/ RegisterPeer(d) \/ Disconnect(d)
    \/ \E a \in Endpoints : ReadForHandshake(a)
    \/ WriteForHandshake

PeerBookSpec == PeerBookInit /\ [][PeerBookNext]_peerVars

-----------------------------------------------------------------------------
(* Properties.                                                             *)

\* An address is dialled once at a time, and has one registered connection, as
\* the list of connected peers says: although a dial gives up its slot before it
\* registers.
OneConnection ==
    \A a \in Endpoints :
        /\ Cardinality(At(a, {"connect"})) <= 1
        /\ Cardinality(At(a, {"registered", "write registered", "open"}))
               = IF a \in connected_peers THEN 1 ELSE 0

\* A dial that connects again after failures has waited: the time since the last
\* failure is at least the backoff of the number of failures since the start.
DialsBackOff ==
    \A a \in Endpoints : At(a, {"connect"}) # {} /\ dial_state[a].failures > 0 =>
        now >= outcome[a].since
               + MinOf(DIAL_BACKOFF_BASE_SECS * Shifted(MinOf(dial_state[a].failures, 8)),
                       DIAL_BACKOFF_MAX_SECS)

\* Only a seed of the present configuration, or a public address, is ever dialled,
\* whatever earlier starts and other peers have put into the book.
DialsRoutable ==
    \A d \in Dialers : dialer[d] # NoTask => dialer[d].addr \in seeds \cup PublicPeers

\* The book follows the dials: with no update of an address under way, and none
\* that met another one, it counts the failures since the last success, and
\* quarantines the peer from the threshold on and not below it.
BookFollowsDials ==
    \A a \in Endpoints \ raced : Recording(a) = {} /\ book[a] # NoRecord =>
        /\ book[a].failed_connects = outcome[a].failures
        /\ IF outcome[a].failures < QUARANTINE_THRESHOLD THEN book[a].quarantined_until = 0
           ELSE book[a].quarantined_until >= outcome[a].since + QUARANTINE_BASE

\* Every dial of connect_peer is justified: its address may be dialled under the
\* present configuration, and its last failure is long enough ago.
DialsJustified ==
    /\ DialsBackOff
    /\ DialsRoutable

=============================================================================
