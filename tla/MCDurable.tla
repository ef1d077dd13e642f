------------------------------ MODULE MCDurable ------------------------------
(* What the node keeps, for TLC: the audit ledger, its lanes across an upgrade,  *)
(* the block store, the peer book, files, their coding and the records of their  *)
(* holders, and the evidence of training rounds.  They share no tree and no      *)
(* lock, so each behaviour runs one of them.                                     *)
EXTENDS AuditSerial, MCChainStore, PeerBook, AuditLanes, FileStore, FileCoding,
        ChunkDht, TrainingRounds

CONSTANTS w1, w2, k1, k2, u1, u2, p1, p2, a1, a2

VARIABLE part    \* the component that runs

durableVars == <<part, disturbed, vars, storeVars, peerVars, laneVars, fileVars,
                 codingVars, dhtVars, trainingVars>>

\* Writers differ only in their names, and so do dialling tasks.
DurableSymmetry == Permutations(Writers) \cup Permutations(Dialers)

-----------------------------------------------------------------------------
(* Audit ledger: one float comes back from its JSON as its neighbour, as        *)
(* serde_json's default parser may return it for 16 or 17 digits.               *)
LedgerFloats == {"short", "long"}
LedgerRoundTrip == [f \in LedgerFloats |-> "short"]

\* Writers that take turns are followed further than writers that overlap.
AuditBound == disturbed' => nextId' <= 4 /\ crashes' <= 1

-----------------------------------------------------------------------------
(* Audit lanes: histories of older releases and of this one.                    *)
NoMetadata == [k \in {} |-> ""]

Decision(legacy, body, context, metadata) ==
    [legacy |-> legacy, body |-> body, context |-> context, metadata |-> metadata]

PendingRound ==
    [source_system |-> "training_coordinator", event |-> "round_completed",
     aggregation_metric_status |-> "pending_real_aggregation_metric",
     lane |-> "private", wallet |-> "w"]

LaneHistories ==
    {<<>>,
     <<Decision(TRUE, "a", "public", NoMetadata),
       Decision(TRUE, "b", "public", [lane |-> "defense", route |-> "plain"]),
       Decision(TRUE, "c", "private", PendingRound)>>,
     <<Decision(TRUE, "a", "ops-00", NoMetadata),
       Decision(FALSE, "b", "private", [classification |-> "open", wallet |-> "w",
                                        safety_signal |-> "accusing",
                                        route |-> "identity"])>>,
     <<Decision(FALSE, "a", "defense", [arobi_lane |-> "pub", route |-> "secret"])>>}

LaneDecisions ==
    {Decision(FALSE, "n", "public", [lane |-> "sealed"]),
     Decision(FALSE, "m", "sealed", [lane |-> "public", safety_signal |-> "plain",
                                     note |-> "plain"]),
     Decision(FALSE, "o", "paid", NoMetadata)}

LaneNamesIn00 == {"ops-00"}

-----------------------------------------------------------------------------
(* Peer book: a node that knows a public seed, and one that knows a private one. *)
PeerSeedSets == {{"lan"}, {"pub"}}

-----------------------------------------------------------------------------
(* Files: two that share a chunk, the second with a parity chunk.               *)
DataChunk(c) == [id |-> c, data |-> TRUE]
ParityChunk(c) == [id |-> c, data |-> FALSE]

TwoLayouts == [u \in Uploads |-> IF u = u1 THEN <<DataChunk("a"), DataChunk("b")>>
                                 ELSE <<DataChunk("b"), DataChunk("c"), ParityChunk("d")>>]

OneLabel == {<<u1, u2>>}

-----------------------------------------------------------------------------
DurableInit ==
    /\ part \in {"audit", "store", "peers", "lanes", "files", "coding", "dht", "training"}
    /\ SerialInit
    /\ StoreInit
    /\ PeerBookInit
    /\ LanesInit
    /\ FileStoreInit
    /\ CodingInit
    /\ DhtInit
    /\ TrainingInit
    /\ part # "peers" => seeds = {"lan"}
    /\ part # "lanes" => recorded = <<>>

\* Only the component p may change.
Only(p) ==
    /\ UNCHANGED part
    /\ IF p = "audit" THEN TRUE ELSE UNCHANGED <<disturbed, vars>>
    /\ IF p = "store" THEN TRUE ELSE UNCHANGED storeVars
    /\ IF p = "peers" THEN TRUE ELSE UNCHANGED peerVars
    /\ IF p = "lanes" THEN TRUE ELSE UNCHANGED laneVars
    /\ IF p = "files" THEN TRUE ELSE UNCHANGED fileVars
    /\ IF p = "coding" THEN TRUE ELSE UNCHANGED codingVars
    /\ IF p = "dht" THEN TRUE ELSE UNCHANGED dhtVars
    /\ IF p = "training" THEN TRUE ELSE UNCHANGED trainingVars

AuditNext == SerialNext /\ AuditBound

DurableNext ==
    \/ part = "audit" /\ AuditNext /\ Only("audit")
    \/ part = "store" /\ StoreNext /\ Only("store")
    \/ part = "peers" /\ PeerBookNext /\ Only("peers")
    \/ part = "lanes" /\ LanesNext /\ Only("lanes")
    \/ part = "files" /\ FileStoreNext /\ Only("files")
    \/ part = "coding" /\ CodingNext /\ Only("coding")
    \/ part = "dht" /\ DhtNext /\ Only("dht")
    \/ part = "training" /\ TrainingNext /\ Only("training")

DurableSpec == DurableInit /\ [][DurableNext]_durableVars

=============================================================================
