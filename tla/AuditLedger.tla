----------------------------- MODULE AuditLedger -----------------------------
(***************************************************************************)
(* The AI-decision audit ledger: an in-memory hash chain behind an append  *)
(* lock (audit/ledger.rs), and the durable copy each writer makes of its   *)
(* own entry after it has released that lock (api.rs, the training         *)
(* coordinator's audit sink, store.rs).                                    *)
(*                                                                         *)
(* A writer is one request handler of POST /api/v1/audit/record or one     *)
(* training-audit event.  It runs record_decision_with_metadata, then      *)
(* append_audit_entry (insert, flush), then, when either failed,           *)
(* rollback_latest.  Only the first and the last hold append_lock, so the  *)
(* steps of several writers interleave.  A crash may fall between any two  *)
(* steps; the restart reloads the durable entries and refuses to start     *)
(* when their chain does not verify.                                       *)
(***************************************************************************)
EXTENDS Integers, Sequences, FiniteSets

CONSTANTS
    Writers,        \* concurrent request handlers and audit sinks
    Floats,         \* the values of an entry's f64 fields (confidence)
    JsonRoundTrip,  \* what serde_json gives back for a float it has written
    MaxEntries,     \* bound: entries recorded in a behaviour
    MaxCrashes,     \* bound: crashes in a behaviour
    StoreFails      \* whether sled may return an error

ASSUME ConstantsAssumption ==
    /\ JsonRoundTrip \in [Floats -> Floats]
    /\ MaxEntries \in Nat
    /\ MaxCrashes \in Nat
    /\ StoreFails \in BOOLEAN

ASSUME GenesisFloatAssumption == "none" \notin Floats

VARIABLES
    entries,        \* AuditLedger.entries, in memory
    latest_hash,    \* AuditLedger.latest_hash
    latest_block,   \* AuditLedger.latest_block
    pc,             \* pc[w]: the next step of writer w
    held,           \* held[w]: the entry w has recorded and not yet answered for
    log,            \* sled's log: the inserts into the audit tree, in order
    flushed,        \* the length of the log's prefix that is on disk
    acked,          \* entries whose append was reported as successful
    status,         \* "up", "down" after a crash, "refused" after a failed start
    nextId,         \* source of fresh entry ids (uuid_v4)
    crashes         \* crashes so far (bounded by MaxCrashes)

vars == <<entries, latest_hash, latest_block, pc, held, log, flushed, acked,
          status, nextId, crashes>>

-----------------------------------------------------------------------------
(* Entries and their hashes.                                               *)

\* A Keccak-256 digest, as the content it commits to.  The link is the id of
\* the entry whose hash is the previous_hash (ids are unique).
HashValue == [id: Nat, height: Nat, confidence: Floats \cup {"none"}, link: Nat]

\* "0".repeat(64), the previous_hash of the first entry.
GenesisHash == [id |-> 0, height |-> 0, confidence |-> "none", link |-> 0]

Entry == [id: Nat, height: Nat, previous_hash: HashValue, confidence: Floats,
          hash: HashValue]

\* A value outside Entry, for a writer that holds none.
NoEntry == [id |-> 0]

compute_hash(id, height, previous_hash, confidence) ==
    [id |-> id, height |-> height, confidence |-> confidence,
     link |-> previous_hash.id]

new_with_metadata(id, height, previous_hash, confidence) ==
    [id |-> id, height |-> height, previous_hash |-> previous_hash,
     confidence |-> confidence,
     hash |-> compute_hash(id, height, previous_hash, confidence)]

verify(e) == e.hash = compute_hash(e.id, e.height, e.previous_hash, e.confidence)

\* The hash that an entry appended to chain s must name as its previous one.
TipHash(s) == IF s = <<>> THEN GenesisHash ELSE s[Len(s)].hash

TipHeight(s) == IF s = <<>> THEN 0 ELSE s[Len(s)].height

verify_chain(s) ==
    \A i \in 1..Len(s) :
        /\ s[i].previous_hash = IF i = 1 THEN GenesisHash ELSE s[i - 1].hash
        /\ verify(s[i])

-----------------------------------------------------------------------------
(* The durable tree.                                                       *)

\* The audit tree after the first n inserts of the log: it is keyed by block
\* height, so an insert replaces the entry that was stored at its height.
TreeAt(n) ==
    {log[i] : i \in {i \in 1..n :
                        \A j \in (i + 1)..n : log[j].height # log[i].height}}

\* An entry as it comes back from its JSON: only the floats may change.
Reparsed(e) == [e EXCEPT !.confidence = JsonRoundTrip[e.confidence]]

\* The orders of the tree's entries that from_entries' sort may produce: one,
\* since the keys of the tree are distinct.
SortedTree ==
    LET T == TreeAt(Len(log)) IN
    UNION {{s \in [1..n -> T] :
                /\ \A i, j \in 1..n : i < j => s[i].height < s[j].height
                /\ \A e \in T : \E i \in 1..n : s[i] = e}
           : n \in 0..Len(log)}

load_audit_entries == {[i \in 1..Len(s) |-> Reparsed(s[i])] : s \in SortedTree}

-----------------------------------------------------------------------------
Init ==
    /\ entries = <<>>
    /\ latest_hash = GenesisHash
    /\ latest_block = 0
    /\ pc = [w \in Writers |-> "idle"]
    /\ held = [w \in Writers |-> NoEntry]
    /\ log = <<>>
    /\ flushed = 0
    /\ acked = {}
    /\ status = "up"
    /\ nextId = 1
    /\ crashes = 0

\* Mutant of Record: latest_block is read and not advanced.
RecordSameHeight(w) ==
    /\ status = "up"
    /\ pc[w] = "idle"
    /\ nextId <= MaxEntries
    /\ \E confidence \in Floats :
         LET e == new_with_metadata(nextId, latest_block + 1, latest_hash, confidence)
         IN  /\ latest_hash' = e.hash
             /\ entries' = Append(entries, e)
             /\ held' = [held EXCEPT ![w] = e]
    /\ pc' = [pc EXCEPT ![w] = "insert"]
    /\ nextId' = nextId + 1
    /\ UNCHANGED <<latest_block, log, flushed, acked, status, crashes>>

\* record_decision_with_metadata, whole: it runs under append_lock, and the
\* readers of the ledger lock only `entries`, which it changes last.
Record(w) ==
    /\ status = "up"
    /\ pc[w] = "idle"
    /\ nextId <= MaxEntries
    /\ \E confidence \in Floats :
         LET e == new_with_metadata(nextId, latest_block + 1, latest_hash, confidence)
         IN  /\ latest_block' = latest_block + 1
             /\ latest_hash' = e.hash
             /\ entries' = Append(entries, e)
             /\ held' = [held EXCEPT ![w] = e]
    /\ pc' = [pc EXCEPT ![w] = "insert"]
    /\ nextId' = nextId + 1
    /\ UNCHANGED <<log, flushed, acked, status, crashes>>

\* append_audit_entry, first half: the insert reaches sled's log.
Insert(w) ==
    /\ pc[w] = "insert"
    /\ log' = Append(log, held[w])
    /\ pc' = [pc EXCEPT ![w] = "flush"]
    /\ UNCHANGED <<entries, latest_hash, latest_block, held, flushed, acked,
                   status, nextId, crashes>>

\* Mutant of Flush: the flushed position is one past the log's end.
FlushPastEnd(w) ==
    /\ pc[w] = "flush"
    /\ flushed' = Len(log) + 1
    /\ acked' = acked \cup {held[w]}
    /\ pc' = [pc EXCEPT ![w] = "idle"]
    /\ held' = [held EXCEPT ![w] = NoEntry]
    /\ UNCHANGED <<entries, latest_hash, latest_block, log, status, nextId, crashes>>

\* append_audit_entry, second half: the flush succeeds, the caller answers.
Flush(w) ==
    /\ pc[w] = "flush"
    /\ flushed' = Len(log)
    /\ acked' = acked \cup {held[w]}
    /\ pc' = [pc EXCEPT ![w] = "idle"]
    /\ held' = [held EXCEPT ![w] = NoEntry]
    /\ UNCHANGED <<entries, latest_hash, latest_block, log, status, nextId, crashes>>

\* The insert or the flush returns an error; a failed flush leaves the insert
\* in the log.
StoreError(w) ==
    /\ StoreFails
    /\ pc[w] \in {"insert", "flush"}
    /\ pc' = [pc EXCEPT ![w] = "rollback"]
    /\ UNCHANGED <<entries, latest_hash, latest_block, held, log, flushed, acked,
                   status, nextId, crashes>>

\* sled writes its log back in the background as well.
BackgroundFlush ==
    /\ status = "up"
    /\ \E n \in (flushed + 1)..Len(log) : flushed' = n
    /\ UNCHANGED <<entries, latest_hash, latest_block, pc, held, log, acked,
                   status, nextId, crashes>>

\* The rollback with the entry-id check and the two tip resets as parameters.
RollbackWith(w, matches, hash, height) ==
    /\ pc[w] = "rollback"
    /\ IF entries # <<>> /\ matches
       THEN /\ entries' = SubSeq(entries, 1, Len(entries) - 1)
            /\ latest_hash' = hash
            /\ latest_block' = height
       ELSE UNCHANGED <<entries, latest_hash, latest_block>>
    /\ pc' = [pc EXCEPT ![w] = "idle"]
    /\ held' = [held EXCEPT ![w] = NoEntry]
    /\ UNCHANGED <<log, flushed, acked, status, nextId, crashes>>

\* Mutants of Rollback: the last entry goes whoever wrote it; the tip hash, or
\* the tip height, of the popped entry stays.
RollbackAnyLatest(w) ==
    LET rest == SubSeq(entries, 1, Len(entries) - 1)
    IN  RollbackWith(w, TRUE, TipHash(rest), TipHeight(rest))

RollbackKeepsHash(w) ==
    LET rest == SubSeq(entries, 1, Len(entries) - 1)
    IN  RollbackWith(w, entries[Len(entries)].id = held[w].id, latest_hash, TipHeight(rest))

RollbackKeepsHeight(w) ==
    LET rest == SubSeq(entries, 1, Len(entries) - 1)
    IN  RollbackWith(w, entries[Len(entries)].id = held[w].id, TipHash(rest), latest_block)

\* rollback_latest: pops the last entry, only when it is the writer's own; the
\* caller then reports the failure.
Rollback(w) ==
    /\ pc[w] = "rollback"
    /\ IF entries # <<>> /\ entries[Len(entries)].id = held[w].id
       THEN LET rest == SubSeq(entries, 1, Len(entries) - 1) IN
            /\ entries' = rest
            /\ latest_hash' = TipHash(rest)
            /\ latest_block' = TipHeight(rest)
       ELSE UNCHANGED <<entries, latest_hash, latest_block>>
    /\ pc' = [pc EXCEPT ![w] = "idle"]
    /\ held' = [held EXCEPT ![w] = NoEntry]
    /\ UNCHANGED <<log, flushed, acked, status, nextId, crashes>>

\* The process stops between two steps.  What sled had not flushed may be lost,
\* from the end of its log.
Crash ==
    /\ status = "up"
    /\ crashes < MaxCrashes
    /\ crashes' = crashes + 1
    /\ status' = "down"
    /\ \E n \in flushed..Len(log) :
         /\ log' = SubSeq(log, 1, n)
         /\ flushed' = n
    /\ entries' = <<>>
    /\ latest_hash' = GenesisHash
    /\ latest_block' = 0
    /\ pc' = [w \in Writers |-> "idle"]
    /\ held' = [w \in Writers |-> NoEntry]
    /\ UNCHANGED <<acked, nextId>>

\* Node startup: load_audit_entries, from_entries and try_from_entries.  A
\* refused node can be started again, with the same result.
Restart ==
    /\ status \in {"down", "refused"}
    /\ \E s \in load_audit_entries :
         IF verify_chain(s)
         THEN /\ entries' = s
              /\ latest_hash' = TipHash(s)
              /\ latest_block' = TipHeight(s)
              /\ status' = "up"
         ELSE /\ status' = "refused"
              /\ UNCHANGED <<entries, latest_hash, latest_block>>
    /\ UNCHANGED <<pc, held, log, flushed, acked, nextId, crashes>>

WriterStep(w) == Record(w) \/ Insert(w) \/ Flush(w) \/ StoreError(w) \/ Rollback(w)

Next ==
    \/ \E w \in Writers : WriterStep(w)
    \/ BackgroundFlush
    \/ Crash
    \/ Restart

Spec == Init /\ [][Next]_vars

-----------------------------------------------------------------------------
(* Properties.                                                             *)

TypeOK ==
    /\ entries \in Seq(Entry)
    /\ latest_hash \in HashValue
    /\ latest_block \in Nat
    /\ pc \in [Writers -> {"idle", "insert", "flush", "rollback"}]
    /\ held \in [Writers -> Entry \cup {NoEntry}]
    /\ log \in Seq(Entry)
    /\ flushed \in 0..Len(log)
    /\ acked \subseteq Entry
    /\ status \in {"up", "down", "refused"}
    /\ nextId \in Nat \ {0}
    /\ crashes \in Nat

\* The live chain verifies, its heights run 1, 2, 3, ... without a gap, and the
\* two cached tip fields agree with its last entry: through concurrent appends,
\* rollbacks and restarts from whatever a crash left on disk.
ChainIntact ==
    status = "up" =>
        /\ verify_chain(entries)
        /\ \A i \in 1..Len(entries) :
             entries[i].height = IF i = 1 THEN 1 ELSE entries[i - 1].height + 1
        /\ latest_hash = TipHash(entries)
        /\ latest_block = TipHeight(entries)

\* An entry whose append was reported as successful stays in the durable tree,
\* whatever prefix of the unflushed log a crash keeps: no later append, by any
\* writer, overwrites its height.
AckedDurable ==
    \A n \in flushed..Len(log) : acked \subseteq TreeAt(n)

\* A running node serves every entry it has acknowledged, unchanged: no
\* rollback of another writer removes it and no restart drops it.
AckedServed ==
    status = "up" => \A e \in acked : \E i \in 1..Len(entries) : entries[i] = e

\* When no request is in flight the durable tree holds exactly the live chain,
\* so that an orderly stop is followed by a start that verifies.
QuiescentDurable ==
    (status = "up" /\ \A w \in Writers : pc[w] = "idle")
        => \A i \in 1..Len(entries) : entries[i] \in TreeAt(Len(log))

\* A failed durable append does not race with a successful one: when no request
\* is in flight, the predecessor of every acknowledged entry is durable too, so
\* that the durable chain verifies at the next start.
AckedLinked ==
    (status = "up" /\ \A w \in Writers : pc[w] = "idle")
        => \A e \in acked :
             \/ e.previous_hash = GenesisHash
             \/ \E d \in TreeAt(Len(log)) : d.hash = e.previous_hash

\* The node never refuses its own audit log.
NeverRefused == status # "refused"

-----------------------------------------------------------------------------
(* What the invariants above rest on: together they are inductive.         *)

Occurs(e, s) == \E i \in 1..Len(s) : s[i] = e

\* The heights of the live chain strictly increase.
HeightsIncrease ==
    \A i, j \in 1..Len(entries) : i < j => entries[i].height < entries[j].height

\* A writer's unanswered entry is in the live chain, is nobody else's, has not
\* been acknowledged, and is in the tree once it has been inserted.
InFlight ==
    \A w \in Writers : pc[w] # "idle" =>
        /\ status = "up"
        /\ held[w] \in Entry
        /\ Occurs(held[w], entries)
        /\ held[w] \notin acked
        /\ pc[w] = "flush" => held[w] \in TreeAt(Len(log))
        /\ \A v \in Writers \ {w} : pc[v] # "idle" => held[v] # held[w]

\* What is written was a well-formed entry of some chain.
LogWellFormed ==
    \A i \in 1..Len(log) :
        /\ verify(log[i])
        /\ log[i].height = log[i].previous_hash.height + 1

\* Entry ids name entries, in memory and on disk together.
IdsUnique ==
    \A e, f \in {entries[i] : i \in 1..Len(entries)} \cup {log[i] : i \in 1..Len(log)} :
        /\ e.id < nextId
        /\ e.id = f.id => e = f

IInv ==
    /\ TypeOK
    /\ ChainIntact
    /\ HeightsIncrease
    /\ InFlight
    /\ LogWellFormed
    /\ IdsUnique
    /\ AckedDurable
    /\ AckedServed

=============================================================================
