----------------------------- MODULE AuditLanes -----------------------------
(***************************************************************************)
(* The lanes of the audit log (audit/ledger.rs): how an entry's lane is    *)
(* derived, the migration of entries stored before lanes existed           *)
(* (store.rs), and the export of the log as a training corpus.             *)
(*                                                                         *)
(* A start reads the stored entries, gives a lane to those without one,    *)
(* checks the chain under the hash each entry was written with, stamps the *)
(* whole chain again with the current hash and rewrites the tree: every    *)
(* key is removed, then every entry inserted, then one flush.  None of it  *)
(* is atomic: a crash, or an error of the store, keeps what sled has       *)
(* written so far.  A hash is the content it commits to.                   *)
(*                                                                         *)
(* The words that name a lane are in normal form (lower case, dashes); the *)
(* f64 fields, whose JSON form AuditLedger models, are left out, and       *)
(* metadata is the set of its keys, each with the class of its value.      *)
(***************************************************************************)
EXTENDS Integers, Sequences, FiniteSets, Functions, FiniteSetsExt

CONSTANTS
    Histories,      \* the logs that older versions may have left: sequences of
                    \* [legacy, body, context, metadata]
    NewDecisions,   \* [body, context, metadata] of decisions recorded from now on
    EndsIn00,       \* lane words that end in "-00"
    MaxNew,         \* bound: decisions recorded
    MaxStops        \* bound: crashes and store errors

VARIABLES
    recorded,   \* history: the decisions of the log that older versions left
    fresh,      \* history: the decisions recorded since
    altered,    \* history: the place of a stored entry that was altered, or 0
    disk,       \* the audit_entries tree: height -> entry
    writes,     \* writes of a migration that are not on disk yet
    served,     \* the entries of the running ledger
    phase,      \* "down", "migrating", "up" or "refused"
    cut,        \* history: a migration was stopped half-way
    stops,
    corpus      \* the last training export of this process

laneVars == <<recorded, fresh, altered, disk, writes, served, phase, cut, stops, corpus>>

-----------------------------------------------------------------------------
(* Lanes.                                                                  *)

PublicWords == {"public", "pub", "public-network", "public-lane",
                "public-redacted", "open", "redacted"}

SealedWords == {"00", "0-0", "zero-zero", "zerozero", "private-00",
                "mission-control", "mission-control-00", "sealed", "classified",
                "restricted", "defense", "defense-grade"}

\* No public word ends in "-00"; an altered body is another body; metadata is finite.
ASSUME LanesAssumption ==
    /\ EndsIn00 \cap PublicWords = {}
    /\ \A h \in Histories :
         /\ h \in Seq(Range(h))
         /\ \A i \in 1..Len(h) : /\ h[i].legacy \in BOOLEAN
                                 /\ h[i].body # "altered"
                                 /\ IsFiniteSet(DOMAIN h[i].metadata)
    /\ \A d \in NewDecisions : IsFiniteSet(DOMAIN d.metadata)

normalize_audit_lane(word) ==
    CASE word \in PublicWords            -> "public"
      [] word \in (SealedWords \cup EndsIn00) \ PublicWords -> "zero-zero"
      [] OTHER                           -> "private"

\* The metadata keys that may name the lane, in the order they are looked up.
LaneKeys == <<"lane", "arobi_lane", "audit_lane", "ability_profile", "classification">>

\* Mutant of Requested: the network context goes before the metadata.
RequestedOfContext(context, metadata) == context

Requested(context, metadata) ==
    LET named == {i \in DOMAIN LaneKeys : LaneKeys[i] \in DOMAIN metadata}
    IN  IF named = {} THEN context
        ELSE metadata[LaneKeys[CHOOSE i \in named : \A j \in named : i <= j]]

\* lane_id; the export scope, the training policy and the retention class
\* follow from it.
from_context(context, metadata) == normalize_audit_lane(Requested(context, metadata))

training_policy(lane) ==
    CASE lane = "public"    -> "allowed-redacted"
      [] lane = "zero-zero" -> "blocked"
      [] OTHER              -> "allowed-internal"

-----------------------------------------------------------------------------
(* Entries.                                                                *)

GenesisLink == <<"genesis">>

\* The hash before lanes leaves the context, the metadata and the lane out.
compute_legacy_pre_lane_hash(e) == <<"legacy", e.height, e.body, e.previous>>

compute_lane_hash(e) ==
    <<"current", e.height, e.body, e.context, e.metadata, e.lane, e.previous>>

lane_verify(e) == e.hash = compute_lane_hash(e)

Stamped(e) == [e EXCEPT !.hash = compute_lane_hash(e)]

Unstamped(decision, height, previous, lane) ==
    [height |-> height, body |-> decision.body, context |-> decision.context,
     metadata |-> decision.metadata, previous |-> previous, lane |-> lane, hash |-> <<>>]

NewEntry(decision, height, previous) ==
    Stamped(Unstamped(decision, height, previous,
                      from_context(decision.context, decision.metadata)))

\* An entry of an older version: its JSON has no lane.
LegacyEntry(decision, height, previous) ==
    LET e == Unstamped(decision, height, previous, "missing")
    IN  [e EXCEPT !.hash = compute_legacy_pre_lane_hash(e)]

LastHash(s) == IF s = <<>> THEN GenesisLink ELSE s[Len(s)].hash

\* The log that the decisions of h were stored as.
StoredLog(h) ==
    LET log[k \in 1..Len(h)] ==
            LET previous == IF k = 1 THEN GenesisLink ELSE log[k - 1].hash
            IN  IF h[k].legacy THEN LegacyEntry(h[k], k, previous)
                               ELSE NewEntry(h[k], k, previous)
    IN  log

ChainVerifies(s) ==
    \A i \in DOMAIN s :
        /\ s[i].previous = IF i = 1 THEN GenesisLink ELSE s[i - 1].hash
        /\ lane_verify(s[i])

NoCorpus == [internal |-> FALSE, records |-> <<>>, counters |-> <<>>]

LanesInit ==
    \E h \in Histories : \E i \in 0..Len(h) :
        /\ recorded = h
        /\ fresh = <<>>
        /\ altered = i
        /\ disk = [k \in 1..Len(h) |->
                     IF k = i THEN [StoredLog(h)[k] EXCEPT !.body = "altered"]
                              ELSE StoredLog(h)[k]]
        /\ writes = <<>>
        /\ served = <<>>
        /\ phase = "down"
        /\ cut = FALSE
        /\ stops = 0
        /\ corpus = NoCorpus

-----------------------------------------------------------------------------
(* Start: load_audit_entries, with the migration, then try_from_entries.   *)

\* The keys of a tree as sled iterates over them: the smallest, then always the next.
InOrder(keys) ==
    LET key[i \in 1..Cardinality(keys)] ==
            IF i = 1 THEN Min(keys) ELSE Min({k \in keys : k > key[i - 1]})
    IN  key

\* The stored entries in the order of their heights, each with its lane and
\* whether that was missing.
Loaded ==
    LET keys == InOrder(DOMAIN disk)
    IN  [i \in DOMAIN keys |->
           LET e == disk[keys[i]] IN
           [legacy |-> e.lane = "missing",
            entry  |-> IF e.lane = "missing"
                       THEN [e EXCEPT !.lane = from_context(e.context, e.metadata)]
                       ELSE e]]

\* Mutants of LegacyChainVerifies: the links, or the old hashes, are not looked at.
LegacyHashesVerify(l) ==
    \A i \in DOMAIN l :
        LET e == l[i].entry IN
        IF l[i].legacy THEN e.hash = compute_legacy_pre_lane_hash(e) ELSE lane_verify(e)

LegacyLinksVerify(l) ==
    \A i \in DOMAIN l :
        LET e == l[i].entry IN
        /\ e.previous = IF i = 1 THEN GenesisLink ELSE l[i - 1].entry.hash
        /\ l[i].legacy \/ lane_verify(e)

\* Whether every entry is linked to the one before and has the hash of the
\* version that wrote it.
LegacyChainVerifies(l) ==
    \A i \in DOMAIN l :
        LET e == l[i].entry IN
        /\ e.previous = IF i = 1 THEN GenesisLink ELSE l[i - 1].entry.hash
        /\ IF l[i].legacy THEN e.hash = compute_legacy_pre_lane_hash(e)
                          ELSE lane_verify(e)

\* The whole chain, stamped with the current hash.
Restamped(l) ==
    LET done[k \in 1..Len(l)] ==
            Stamped([l[k].entry EXCEPT
                        !.previous = IF k = 1 THEN GenesisLink ELSE done[k - 1].hash])
    IN  done

\* replace_audit_entries: sled's clear removes the keys one by one.
RewriteTree(s) ==
    LET keys == InOrder(DOMAIN disk)
    IN  [i \in DOMAIN keys |-> [op |-> "remove", key |-> keys[i]]]
          \o [i \in DOMAIN s |-> [op |-> "insert", key |-> s[i].height, entry |-> s[i]]]

\* No entry without a lane: the chain is verified as it is.
StartCurrent ==
    /\ phase \in {"down", "refused"}
    /\ \A i \in DOMAIN Loaded : ~Loaded[i].legacy
    /\ LET s == [i \in DOMAIN Loaded |-> Loaded[i].entry]
       IN  IF ChainVerifies(s) THEN phase' = "up" /\ served' = s
                               ELSE phase' = "refused" /\ UNCHANGED served
    /\ UNCHANGED <<recorded, fresh, altered, disk, writes, cut, stops, corpus>>

\* migrate_legacy_lane_entries; an error is a refused start.
StartMigration ==
    /\ phase \in {"down", "refused"}
    /\ \E i \in DOMAIN Loaded : Loaded[i].legacy
    /\ IF LegacyChainVerifies(Loaded)
       THEN /\ served' = Restamped(Loaded)
            /\ writes' = RewriteTree(Restamped(Loaded))
            /\ phase' = "migrating"
       ELSE /\ phase' = "refused"
            /\ UNCHANGED <<served, writes>>
    /\ UNCHANGED <<recorded, fresh, altered, disk, cut, stops, corpus>>

\* The values of f, and those of g for other keys.
Over(f, g) == [k \in DOMAIN f \cup DOMAIN g |-> IF k \in DOMAIN f THEN f[k] ELSE g[k]]

\* One more write of the migration is on disk.
WriteOne ==
    /\ phase = "migrating"
    /\ writes # <<>>
    /\ disk' = LET w == Head(writes) IN
               IF w.op = "remove"
               THEN [k \in DOMAIN disk \ {w.key} |-> disk[k]]
               ELSE Over([k \in {w.key} |-> w.entry], disk)
    /\ writes' = Tail(writes)
    /\ UNCHANGED <<recorded, fresh, altered, served, phase, cut, stops, corpus>>

\* The flush has returned and the migrated chain is verified.
FinishMigration ==
    /\ phase = "migrating"
    /\ writes = <<>>
    /\ phase' = IF ChainVerifies(served) THEN "up" ELSE "refused"
    /\ UNCHANGED <<recorded, fresh, altered, disk, writes, served, cut, stops, corpus>>

\* A crash, or an error of the store during the migration.
Halt ==
    /\ phase \in {"migrating", "up"}
    /\ stops < MaxStops
    /\ stops' = stops + 1
    /\ cut' = (cut \/ writes # <<>>)
    /\ phase' = "down"
    /\ served' = <<>>
    /\ writes' = <<>>
    /\ corpus' = NoCorpus
    /\ UNCHANGED <<recorded, fresh, altered, disk>>

\* A decision is recorded and made durable (AuditLedger models how).
RecordDecision(d) ==
    /\ phase = "up"
    /\ Len(fresh) < MaxNew
    /\ LET e == NewEntry(d, (IF served = <<>> THEN 0 ELSE served[Len(served)].height) + 1,
                         LastHash(served))
       IN  /\ served' = Append(served, e)
           /\ disk' = Over([k \in {e.height} |-> e], disk)
    /\ fresh' = Append(fresh, d)
    /\ UNCHANGED <<recorded, altered, writes, phase, cut, stops, corpus>>

-----------------------------------------------------------------------------
(* The training corpus.                                                    *)

\* Keys, by the marks that the three predicates look for.
is_sensitive_training_metadata_key(key) == key \in {"wallet", "subject_id"}

is_public_training_metadata_key(key) ==
    key \in {"lane", "arobi_lane", "audit_lane", "source_system", "route",
             "safety_signal"}

is_training_metadata_value_safe(key, value, redacted) ==
    /\ value \notin {"secret", "classified"}
    /\ redacted => /\ value # "identity"
                   /\ ~(value = "accusing" /\ key = "safety_signal")

\* Mutant of sanitize_training_metadata: the keys are filtered, the values not.
SanitizeKeys(metadata, redacted) ==
    LET kept == {k \in DOMAIN metadata :
                   /\ ~is_sensitive_training_metadata_key(k)
                   /\ redacted => is_public_training_metadata_key(k)}
    IN  [k \in kept |-> metadata[k]]

sanitize_training_metadata(metadata, redacted) ==
    LET kept == {k \in DOMAIN metadata :
                   /\ ~is_sensitive_training_metadata_key(k)
                   /\ redacted => is_public_training_metadata_key(k)
                   /\ is_training_metadata_value_safe(k, metadata[k], redacted)}
    IN  [k \in kept |-> metadata[k]]

\* A round that was recorded as completed before its gradients were aggregated.
is_legacy_pending_training_completion(metadata) ==
    /\ {"source_system", "event", "aggregation_metric_status"} \subseteq DOMAIN metadata
    /\ metadata["source_system"] = "training_coordinator"
    /\ metadata["event"] = "round_completed"
    /\ metadata["aggregation_metric_status"] = "pending_real_aggregation_metric"

\* The old values stay under the legacy_ names; a record that already has
\* those names keeps them.
reclassify_legacy_pending_training_record(r) ==
    [r EXCEPT
       !.metadata = Over([event |-> "gradient_quorum_reached",
                          aggregation_metric_status |-> "pending_aggregation",
                          q_training_migration |-> "v3.2.11"],
                         Over(r.metadata,
                              [legacy_event |-> r.metadata["event"],
                               legacy_aggregation_metric_status |->
                                   r.metadata["aggregation_metric_status"]])),
       !.decision = "gradient_quorum_reached",
       !.reasoning = "with note"]

training_record_from_entry(e) ==
    LET redacted == training_policy(e.lane) = "allowed-redacted"
        record == [height    |-> e.height,
                   lane      |-> e.lane,
                   decision  |-> e.body,
                   reasoning |-> IF redacted THEN "none" ELSE "full",
                   context   |-> IF redacted THEN e.lane ELSE e.context,
                   metadata  |-> sanitize_training_metadata(e.metadata, redacted)]
    IN  IF is_legacy_pending_training_completion(record.metadata)
        THEN reclassify_legacy_pending_training_record(record)
        ELSE record

\* Mutant of Disposition: include_internal opens every lane but the public one.
DispositionByFlag(e, include_internal) ==
    IF lane_verify(e) /\ (e.lane = "public" \/ include_internal) THEN "exported" ELSE "blocked"

\* What becomes of an entry: "exported", "skipped" or "blocked".
Disposition(e, include_internal) ==
    IF ~lane_verify(e) \/ training_policy(e.lane) = "blocked" THEN "blocked"
    ELSE IF training_policy(e.lane) = "allowed-internal" /\ ~include_internal THEN "skipped"
    ELSE "exported"

Lanes == {"public", "private", "zero-zero"}

\* Mutant of LaneCounters: a skipped entry is counted as blocked too.
CountersTwice(lane, include_internal, s) ==
    LET of(d) == {i \in DOMAIN s : s[i].lane = lane /\ Disposition(s[i], include_internal) = d}
    IN  [source   |-> Cardinality({i \in DOMAIN s : s[i].lane = lane}),
         exported |-> Cardinality(of("exported")),
         skipped  |-> Cardinality(of("skipped")),
         blocked  |-> Cardinality(of("blocked") \cup of("skipped")),
         removed  |-> 0]

\* The manifest: the counters of each lane.  Removed metadata is counted as the
\* difference in size, not below zero.
LaneCounters(lane, include_internal, s) ==
    LET of(d) == {i \in DOMAIN s : s[i].lane = lane /\ Disposition(s[i], include_internal) = d}
        lost(i) == Cardinality(DOMAIN s[i].metadata)
                     - Cardinality(DOMAIN training_record_from_entry(s[i]).metadata)
    IN  [source   |-> Cardinality({i \in DOMAIN s : s[i].lane = lane}),
         exported |-> Cardinality(of("exported")),
         skipped  |-> Cardinality(of("skipped")),
         blocked  |-> Cardinality(of("blocked")),
         removed  |-> SumFunctionOnSet([i \in DOMAIN s |-> IF lost(i) < 0 THEN 0 ELSE lost(i)],
                                       of("exported"))]

\* The loop over the entries.
ExportedRecords(include_internal, s) ==
    LET records[i \in 0..Len(s)] ==
            IF i = 0 THEN <<>>
            ELSE IF Disposition(s[i], include_internal) = "exported"
                 THEN Append(records[i - 1], training_record_from_entry(s[i]))
                 ELSE records[i - 1]
    IN  records[Len(s)]

export_training_corpus_with_manifest(include_internal) ==
    /\ phase = "up"
    /\ corpus' = [internal |-> include_internal,
                  records  |-> ExportedRecords(include_internal, served),
                  counters |-> [l \in Lanes |-> LaneCounters(l, include_internal, served)]]
    /\ UNCHANGED <<recorded, fresh, altered, disk, writes, served, phase, cut, stops>>

LanesNext ==
    \/ StartCurrent
    \/ StartMigration
    \/ WriteOne
    \/ FinishMigration
    \/ Halt
    \/ \E d \in NewDecisions : RecordDecision(d)
    \/ \E internal \in BOOLEAN : export_training_corpus_with_manifest(internal)

LanesSpec == LanesInit /\ [][LanesNext]_laneVars

-----------------------------------------------------------------------------
(* Properties.                                                             *)

DecisionOf(d) == [body |-> d.body, context |-> d.context, metadata |-> d.metadata]

DecisionsOf(s) == [i \in DOMAIN s |-> DecisionOf(s[i])]

\* A running ledger serves what was recorded, in order and unchanged, through
\* the migration and every restart.  When a migration was cut short it may
\* have lost the end of the older log, never its beginning or its middle, and
\* nothing of what was recorded since.
HistoryKept ==
    phase = "up" =>
        \E n \in 0..Len(recorded) :
            /\ cut \/ n = Len(recorded)
            /\ DecisionsOf(served) = SubSeq(DecisionsOf(recorded), 1, n) \o DecisionsOf(fresh)

\* A log with an altered entry is never accepted, migrated or not: the start
\* fails before anything is rewritten, and so does every later one.
AlteredRefused ==
    altered # 0 => /\ phase \in {"down", "refused"}
                   /\ \E k \in DOMAIN disk : disk[k].body = "altered"

SealedRequest(word) == word \in SealedWords \cup EndsIn00

\* No decision that asked for the sealed lane is exported, whenever it was
\* recorded and whatever the caller asks for; a private one only on request;
\* and a public record has no reasoning, no key outside the public ones and no
\* value that names a secret or a person.
CorpusClean ==
    \A i \in DOMAIN corpus.records :
        LET r == corpus.records[i]
            e == served[r.height]
            named == DOMAIN e.metadata \cap {LaneKeys[k] : k \in DOMAIN LaneKeys}
        IN  /\ "lane" \in named => ~SealedRequest(e.metadata["lane"])
            /\ named = {} => ~SealedRequest(e.context)
            /\ r.lane = "private" => corpus.internal
            /\ r.lane = "public" =>
                 /\ r.reasoning = "none"
                 /\ \A k \in DOMAIN r.metadata :
                      /\ is_public_training_metadata_key(k)
                      /\ r.metadata[k] \notin {"secret", "identity", "classified"}

\* The manifest accounts for every entry once: in each lane the exported, the
\* skipped and the blocked ones add up to the source, and the removed keys are
\* those that the records lack, unless a record was reclassified: that adds
\* keys, which hide as many removed ones.
ManifestAccounts ==
    corpus # NoCorpus =>
        LET c == corpus.counters
            reclassified == \E i \in DOMAIN corpus.records :
                              "q_training_migration" \in DOMAIN corpus.records[i].metadata
            lacking(i) == LET r == corpus.records[i]
                          IN  Cardinality(DOMAIN served[r.height].metadata \ DOMAIN r.metadata)
        IN  /\ \A l \in Lanes : c[l].source = c[l].exported + c[l].skipped + c[l].blocked
            /\ SumFunctionOnSet([l \in Lanes |-> c[l].exported], Lanes) = Len(corpus.records)
            /\ reclassified \/ SumFunctionOnSet([l \in Lanes |-> c[l].removed], Lanes)
                                 = SumFunctionOnSet([i \in DOMAIN corpus.records |-> lacking(i)],
                                                    DOMAIN corpus.records)

\* What a start gives back is what was recorded: the history is kept through
\* migrations and restarts, and one that was altered is refused.
HistorySound ==
    /\ HistoryKept
    /\ AlteredRefused

=============================================================================
