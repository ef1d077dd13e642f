------------------------------ MODULE ChunkDht ------------------------------
(***************************************************************************)
(* The distributed hash table of the file system (fs/dht.rs): the k-bucket *)
(* of peers at one distance, the records of who holds a chunk, and the     *)
(* storage keeper that announces this node's chunks and evicts what is     *)
(* stale (agents/storage_keeper.rs).  Every operation runs under the write *)
(* lock of the table it changes.                                           *)
(*                                                                         *)
(* Peers of different buckets do not meet, so one bucket is enough.  A     *)
(* peer's last_seen is the time of the call, as the keeper passes it.      *)
(***************************************************************************)
EXTENDS Integers, FiniteSets

CONSTANTS
    DhtPeers,        \* peers of one bucket
    DhtHolders,      \* holders of chunks, this node among them
    DhtChunks,
    K_BUCKET_SIZE,
    MAX_DHT_RECORDS,
    MaxAge,          \* dht_max_age_ms
    MaxTime          \* bound: the clock

ASSUME DhtAssumption ==
    /\ K_BUCKET_SIZE \in Nat \ {0} /\ MAX_DHT_RECORDS \in Nat \ {0}
    /\ MaxAge \in Nat /\ MaxTime \in Nat
    /\ IsFiniteSet(DhtChunks)

VARIABLES
    clock,          \* the time in milliseconds
    bucket,         \* peers of the bucket -> last_seen
    dht_records,    \* chunks -> [holders -> last_seen, last_verified]
    seen,           \* history: when each peer was added last, since a removal
    announced,      \* history: when each peer announced each chunk last
    evicted         \* history: the time of the latest eviction pass

dhtVars == <<clock, bucket, dht_records, seen, announced, evicted>>

Never == -1

DhtInit ==
    /\ clock = 0
    /\ bucket = [p \in {} |-> 0]
    /\ dht_records = [c \in {} |-> 0]
    /\ seen = [p \in DhtPeers |-> Never]
    /\ announced = [c \in DhtChunks |-> [p \in DhtHolders |-> Never]]
    /\ evicted = Never

\* f with x mapped to v, whether or not x was in its domain.
Put(f, x, v) == [y \in DOMAIN f \cup {x} |-> IF y = x THEN v ELSE f[y]]
Drop(f, x) == [y \in DOMAIN f \ {x} |-> f[y]]

TimePasses ==
    /\ clock < MaxTime
    /\ clock' = clock + 1
    /\ UNCHANGED <<bucket, dht_records, seen, announced, evicted>>

-----------------------------------------------------------------------------
(* Routing.                                                                *)

\* Mutant of add_peer: a full bucket takes no new peer.
AddPeerIfRoom(p) ==
    /\ IF p \in DOMAIN bucket \/ Cardinality(DOMAIN bucket) < K_BUCKET_SIZE
       THEN bucket' = Put(bucket, p, clock)
       ELSE UNCHANGED bucket
    /\ seen' = [seen EXCEPT ![p] = clock]
    /\ UNCHANGED <<clock, dht_records, announced, evicted>>

\* A known peer is updated, a new one added; a full bucket gives up the one that
\* was seen least recently, if that was before the new one.
add_peer(p) ==
    /\ IF p \in DOMAIN bucket \/ Cardinality(DOMAIN bucket) < K_BUCKET_SIZE
       THEN bucket' = Put(bucket, p, clock)
       ELSE \E q \in DOMAIN bucket :
              /\ \A r \in DOMAIN bucket : bucket[q] <= bucket[r]
              /\ bucket' = IF bucket[q] < clock THEN Put(Drop(bucket, q), p, clock) ELSE bucket
    /\ seen' = [seen EXCEPT ![p] = clock]
    /\ UNCHANGED <<clock, dht_records, announced, evicted>>

\* The bucket has room again: what was dropped before is not missed.
remove_peer(p) ==
    /\ bucket' = Drop(bucket, p)
    /\ seen' = [q \in DhtPeers |-> IF q \in DOMAIN bucket \ {p} THEN seen[q] ELSE Never]
    /\ UNCHANGED <<clock, dht_records, announced, evicted>>

-----------------------------------------------------------------------------
(* Chunk records.                                                          *)

\* The records with room for chunk c: at the limit, one of those verified least
\* recently goes.
WithRoom(c) ==
    LET recs == DOMAIN dht_records
        Verified(d) == dht_records[d].last_verified
        oldest == {d \in recs : \A e \in recs : Verified(d) <= Verified(e)}
    IN  IF Cardinality(recs) >= MAX_DHT_RECORDS /\ c \notin recs
        THEN {Drop(dht_records, d) : d \in oldest}
        ELSE {dht_records}

\* Mutant of announce_chunk: a repeated announcement does not verify the record.
AnnounceOnce(c, p) ==
    /\ \E recs \in WithRoom(c) :
         dht_records' = Put(recs, c,
             IF c \in DOMAIN recs
             THEN [holders |-> Put(recs[c].holders, p, clock), last_verified |-> recs[c].last_verified]
             ELSE [holders |-> [h \in {p} |-> clock], last_verified |-> clock])
    /\ announced' = [announced EXCEPT ![c][p] = clock]
    /\ UNCHANGED <<clock, bucket, seen, evicted>>

\* announce_chunk, for this node (store_chunk) or another holder.
announce_chunk(c, p) ==
    /\ \E recs \in WithRoom(c) :
         dht_records' = Put(recs, c,
             [holders |-> IF c \in DOMAIN recs THEN Put(recs[c].holders, p, clock)
                                               ELSE [h \in {p} |-> clock],
              last_verified |-> clock])
    /\ announced' = [announced EXCEPT ![c][p] = clock]
    /\ UNCHANGED <<clock, bucket, seen, evicted>>

\* Mutant of Fresh: a holder of exactly the greatest age is stale.
FreshIfYounger(last_seen) == last_seen > clock - MaxAge

\* A holder is kept while its age is at most max_age_ms.
Fresh(last_seen) == last_seen >= (IF clock < MaxAge THEN 0 ELSE clock - MaxAge)

\* The keeper's tick: stale holders go, then the records without holders.
evict_stale_holders ==
    /\ LET Kept(c) == {h \in DOMAIN dht_records[c].holders : Fresh(dht_records[c].holders[h])}
       IN  dht_records' = [c \in {c \in DOMAIN dht_records : Kept(c) # {}} |->
                             [dht_records[c] EXCEPT !.holders =
                                [h \in Kept(c) |-> dht_records[c].holders[h]]]]
    /\ evicted' = clock
    /\ UNCHANGED <<clock, bucket, seen, announced>>

DhtNext ==
    \/ TimePasses
    \/ \E p \in DhtPeers : add_peer(p) \/ remove_peer(p)
    \/ \E c \in DhtChunks, p \in DhtHolders : announce_chunk(c, p)
    \/ evict_stale_holders

DhtSpec == DhtInit /\ [][DhtNext]_dhtVars

-----------------------------------------------------------------------------
(* Properties.                                                             *)

\* A peer is left out of its bucket only for others that were seen no earlier,
\* and never for an older one, through any sequence of additions.
BucketKeepsRecent ==
    /\ Cardinality(DOMAIN bucket) <= K_BUCKET_SIZE
    /\ \A p \in DhtPeers : seen[p] # Never /\ p \notin DOMAIN bucket =>
         /\ Cardinality(DOMAIN bucket) = K_BUCKET_SIZE
         /\ \A q \in DOMAIN bucket : bucket[q] >= seen[p]

\* The chunks other than c that were announced at time t or later.
OthersSince(c, t) == {d \in DhtChunks \ {c} : \E q \in DhtHolders : announced[d][q] >= t}

\* A holder that announced a chunk is found, unless an eviction pass came after
\* its announcement had become too old, or as many other chunks as the table
\* holds were announced no earlier.
HoldersFound ==
    \A c \in DhtChunks, p \in DhtHolders : announced[c][p] # Never =>
        \/ c \in DOMAIN dht_records /\ p \in DOMAIN dht_records[c].holders
        \/ evicted - announced[c][p] > MaxAge
        \/ Cardinality(OthersSince(c, announced[c][p])) >= MAX_DHT_RECORDS

\* The table forgets a peer or a holder only for its age or for fresher ones,
\* through any sequence of additions, announcements and evictions.
FreshestKept ==
    /\ BucketKeepsRecent
    /\ HoldersFound

=============================================================================
