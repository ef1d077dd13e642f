# Formal models of the Arobi Network node

TLA+ models of the concurrent and failure-prone parts of the node (`src/src/`),
the TLC configurations that check them on small instances, and TLAPS proofs
about all of them: the audit ledger and its lanes, the chain store, the node with
its pool and producer, synchronisation, training, files, peers, compute and the
agents' services. Source lines below are relative to `src/src/`.

1. [The system](#the-system): components, state, interactions, what is hard
2. [The modules](#the-modules) and how they correspond to the code
3. [The runs](#the-runs): what TLC checks, the bounds, the fairness
4. [The proofs](#the-proofs)
5. [Where code and documents disagree](#where-code-and-documents-disagree)
6. [What is not modelled](#what-is-not-modelled)
7. [The plan](#the-plan)

## The system

A node is one process: an HTTP API (axum), a TCP peer-to-peer layer, a block
producer, and several "agents", all tasks of one tokio runtime that share
`Arc`s. Everything durable is in one sled database (`store.rs`) and a directory
of chunk files (`fs/local_store.rs`).

| Component | State | Operations | Correct when |
|---|---|---|---|
| Audit ledger (`audit/ledger.rs`, `store.rs`, `api.rs` 4532-4588) | in-memory hash chain, cached tip hash and height, the sled tree keyed by height | record, durable append, rollback, load and verify at start | the live chain always verifies; what was acknowledged is never lost, overwritten or changed; the log a node wrote is one it can start from |
| Audit lanes and corpus export (`audit/ledger.rs`, `store.rs`) | the lane of each entry, the migrated tree, the exported records and manifest | classify, migrate and rewrite at start, export | migration keeps history; sealed and private entries stay out of the corpus; the manifest adds up |
| Chain store (`store.rs` 86-380) | trees for blocks, transactions, balances, nonces, tip | `apply_block`, `write_genesis`, reads | a block is applied as a whole or not at all; the supply is constant; the tip names a stored block |
| Mempool, submission, producer (`mempool.rs`, `consensus.rs`, `api.rs`) | pooled transactions, the tick in progress | add, take, remove, evict; submit, agent action, wallet and treasury transfers; produce | nothing is confirmed twice; nobody spends what they do not have; the pool is bounded and loses nothing it should keep; every tick makes a block |
| Block gossip and sync (`p2p.rs`) | connections, the block broadcast channel, messages under way | handshake, NewBlock, GetBlocks, Blocks | chains are linked and share their past; a follower holds a prefix of its miner's chain and catches up |
| Peer book and dialling (`store.rs` 520-730, `p2p.rs`, `peer.rs`, `node.rs`) | known peers, failure counts, quarantine, dial slots, connections | bootstrap, list, dial, register, success, failure, prune | one connection per address; dials back off; the book agrees with what the dials met |
| Training coordinator (`agents/training_coordinator.rs`) | per model: round, pending gradients, quorum size, checkpoint | start round, receive gradient, complete round | completion evidence rests on a quorum of its own round; a gradient is used once |
| Compute marketplace (`compute/*`, `agents/compute_scheduler.rs`) | capabilities, jobs, bids, reputation | submit, bid, assign, result, verify, credit | a completed job stays completed; workers can do what they are assigned; credit is earned |
| Model registry and routing (`llm/registry.rs`, `agents/inference_router.rs`) | models, stages, their nodes, the maps' guards | register, claim, heartbeat, mark ready, count, route | routes cover the model; no task waits for itself |
| Token decoding (`llm/pipeline.rs`, `architecture.rs`, `kv_cache.rs`, `stage.rs`) | text, caches of layers and heads, a stage's cache | prefill, decode, forward of a stage | the text ends on time; every cache is at the position of the text; heads are kept apart |
| Chunk store and file endpoints (`fs/local_store.rs`, `api.rs`, `p2p.rs`) | chunk index, blobs, manifests | upload, download, put, delete, chunk and manifest messages | what is indexed is there; what was answered can be downloaded |
| Erasure coding and proofs (`fs/chunker.rs`, `fs/proof.rs`) | chunks, parity, manifest, challenges | chunk, encode, reassemble, reconstruct, challenge, prove, verify | every byte comes back; a proof binds its holder to the whole range |
| Chunk routing table (`fs/dht.rs`, `agents/storage_keeper.rs`) | k-buckets, holder records | add peer, announce, find, evict | only what is stale or has fresher rivals is forgotten |
| Secure memory, pairing, chat proxy (`api.rs`) | access profiles, encrypted memories, legacy notes | register, ingest, recall, context, chat | sensitive memories open to their pairing only; what is claimed to be sent was |
| Employee bindings (`api.rs`, `store.rs`) | bindings, heartbeats | bind, bulk bind, forced rebind, summarise | only force changes a master; what a request does not give is kept |
| Agent relay (`api.rs`, `p2p.rs`) | presence, chats, relay envelopes on each node, gossip under way | heartbeat, chat, relay, deliver, reconnect | what was acknowledged stays, once |
| Tool executor (`agents/tool_executor.rs`) | policy, temporary files, processes, knowledge trees | orchestrate, shell, code, store, query | a request runs its own code, answers for all its jobs and leaves nothing behind |
| Rate limiter and access gate (`rate_limit.rs`, `api.rs`) | a counter and window per address | check, clean up, authorise | bursts are bounded, refusals have a cause, a tunnel is not local |

How they interact:

- the API handlers, the training coordinator's audit sink and the node's start
  share the audit ledger and its tree. The ledger's `append_lock` covers the
  change in memory only; the durable append comes after it;
- the producer and every peer connection call `Store::apply_block`, which takes
  no lock; the API handlers read the same trees while they check a transaction;
- the producer hands blocks to a bounded broadcast channel; each connection's
  write task merges it with the replies of that connection's read loop;
- a pair of nodes that dial each other hold two connections, so gossip arrives
  twice;
- peer messages for the compute, training and inference subsystems go to their
  agents directly or through channels (`node.rs` 225-323).

What is hard about it: check-then-act sequences with a lock released in the
middle (audit append, mempool, `apply_block`, the scheduler, uploads, bindings,
pairing), several sled writes where a crash may fall in between, lossy and
duplicated gossip, blocks that arrive while one is being produced, failures of
one step of several, guards that outlive their use, and the synchronisation
liveness. `hazards` in `PROJECT.json` lists the places with the properties that
watch them.

## The modules

**Audit.** `AuditLedger` (`audit/ledger.rs`, `store.rs`, `api.rs`, `node.rs`). A
writer is one request to `POST /api/v1/audit/record` or one training audit
event. `Record` is `record_decision_with_metadata`, atomic because it holds
`append_lock`; `Insert` and `Flush` are the two halves of `append_audit_entry`;
`StoreError` and `Rollback` are the error path through `rollback_latest`, which
pops the last entry only if it is the writer's own. `log` is sled's log of
inserts and `flushed` its durable prefix; `Crash` keeps any prefix from
`flushed` on, and `Restart` is the start of the node: load, sort, verify, refuse
or go on. A digest is the record of what it commits to, so equality of hashes is
equality of contents; the confidence stands for the entry's floats, and
`JsonRoundTrip` is what comes back after writing and parsing a float in decimal,
which need not be the float that was hashed.

`AuditLog` states what the ledger promises its callers, with no word of locks,
logs or flushes: a chain that grows at its end, of which only an entry nobody
was promised may be withdrawn, and which comes back after a stop linked and with
every promised entry. `AuditRefinement` maps the ledger onto it (chain: the live
entries; up: the status) and states that the ledger implements it
(`KeepsPromise`). `AuditSerial` is the ledger with a history variable,
`disturbed`: two requests have overlapped, or JSON has changed a float. As long as
it is false the node always starts again from its own log (`SerialRecovers`).

`AuditLanes` has the lane rules, the migration of a log that was written before
lanes existed (verified under the old hash, stamped anew, the tree cleared and
refilled, with crashes and store errors anywhere in it), and the export of a
training corpus with its blocking, sanitising, reclassification and manifest.

**Chain.** `ChainRules` has the pure part of `Store::apply_block`: the
validation pass (nonces, balances, the founder's vested balance) and the write
pass as the sequence of single-key operations the code makes, with u64
arithmetic that saturates or wraps where the code's does (`U64Modulus` stands
for 2^64). `ChainStore` runs it one sled operation at a time, with several
callers and crashes that keep a prefix of the writes. `ChainNode` runs it as a
whole inside a mining node: `Mempool::add` in two steps, a tick of the producer
in four (and the proof that fails), the handlers that submit transactions, the
eviction, the clock, and the blocks of another miner. The split keeps both
small: `ChainStore` says what one call does under interleaving, `ChainNode` what
a sequence of calls does under stale reads.

`ChainSync` (`p2p.rs`, `consensus.rs`) has the connections between nodes. Blocks
are height, hash and link. A handler subscribes to the broadcast, reads the
height, sends the handshake, then handles one message at a time; replies and
broadcast blocks travel in two queues that are merged in any order, as the write
task does. The broadcast keeps the latest `GossipSize` blocks per receiver. A
connection may be lost with all that is under way on it.

`PeerBook` (`store.rs`, `p2p.rs`, `peer.rs`, `node.rs`) has the start-up and
redial loop that choose addresses, dials in tasks of their own (slot, backoff,
connect, registration), the two-step updates of the book, quarantine, pruning
and restarts with another configuration.

**Training.** `TrainingRounds` (`agents/training_coordinator.rs`) has the rounds
of one model. `start_round` and `receive_gradient` are atomic (they hold the
write lock over their audit entry); the completion is two steps, since it
releases the lock before it writes its audit entry. Checkpoint ids, hashes and
sample counts are left out. Gradients are delivered in any order, late, and
repeatedly.

**Files.** `FileStore` has index, blobs and manifests with every write, failure
and removal as a step. `FileCoding` computes: the bytes of a file are its
positions, a parity byte is the column it is computed from, and reconstruction
is what enough bytes of a column determine; reassembly, reconstruction and
proofs are checked against the file itself. `ChunkDht` has one k-bucket (peers of
different buckets do not meet) and the holder records.

**Compute and inference.** `ComputeMarket` has the scheduler's operations in the
steps between their locks, the agent in front of it and the reputation in whole
points. `ModelRegistry` has the guards on the DashMap's shards as state, so that
a task that waits for a guard it holds itself is a task that stays where it is.
`Decoding` has the loop of `generate`, the caches of each layer and head, and the
stage executor, with cached values standing for the head and position that made
them; which token is sampled is left open.

**API.** `SecureMemory` has registration, ingest, recall, context and chat with
each read and write of the store as a step, a perfect cipher and injective
pairing hashes. `OpenClawBindings` has the bind requests, read and write apart.
`AgentRelay` has two nodes, two connections between them, and what each stores
and gossips. `ToolExecutor` has the runtime policy, concurrent orchestration
requests, temporary files and processes that outlive their timeout. `ApiGate`
has the rate limiter's windows and clean-up and the rules of local and token
access.

The `MC…` modules give values to constants: accounts, candidate blocks, links,
requests and symmetry sets. `MCDurable` and `MCServices` put several components
into one specification: the variable `part` picks one of them in the initial
state, and only that one moves. This is exact, because those components share
no variable (in the code: no tree, map or lock); where components do share
state (pool, producer and store; ledger, log and start) they are composed in one
module. Definitions whose comment begins with "Mutant of" are plausible errors
in the code they are named after; each property, and each safety part of a
property that is a conjunction of named parts, is known to fail when its mutant replaces the
definition (`mutants` in `PROJECT.json`).

## The runs

| Run | Configuration | Checks |
|---|---|---|
| `durable` | `Durable.cfg` | audit: `TypeOK`, `ChainIntact`, `AckedDurable`, `AckedServed`, `SerialRecovers`, `KeepsPromise`; store: `StoreSound`; peers: `OneConnection`, `DialsJustified`, `BookFollowsDials`; lanes: `HistorySound`, `CorpusClean`, `ManifestAccounts`; files: `IndexSound`, `AnsweredDownloads`, `FilesRestored`, `ProofBinds`, `FreshestKept`; training: `CompletionsBacked`, `GradientsCounted`, `QuorumAsAnnounced` |
| `services` | `Services.cfg` | market: `JobsHonoured`, `CreditEarned`, `CompletionFinal`; registry: `RegistryConsistent`; decoding: `EndsOnTime`, `CachesAligned`; memory: `PairingGuards`, `RecallReaches`; `BindingsSound`; relay: `AcknowledgedKept`; tools: `RequestsAccounted`; gate: `GateSound` |
| `node_safety` | `ChainNodeSafety.cfg` | `TokensConserved`, `ConfirmedOnce`, `MempoolBounded`, `PoolKeepsUnconfirmed` |
| `sync_forks` | `ChainSyncForks.cfg` | `PastAgreed` |
| `sync_catch_up` | `ChainSyncCatchUp.cfg` | `FollowsMiner`, `CatchesUp` (liveness) |
| `audit_rollback_race` | `AuditRollbackRace.cfg` | `AckedLinked` is violated |
| `store_crash_atomic` | `ChainStoreCrashAtomic.cfg` | `CommitAtomic` is violated |
| `store_race` | `ChainStoreRace.cfg` | `StoreSupplyConserved` is violated |
| `node_tick` | `ChainNodeTick.cfg` | `TickAppends` is violated |
| `training_duplicates` | `TrainingDuplicates.cfg` | `QuorumCountsWorkers` is violated |
| `registry_claim` | `ModelRegistryClaim.cfg` | `ClaimAnswered` is violated (liveness) |
| `kv_heads` | `DecodingHeads.cfg` | `CacheKeepsHeads` is violated |

What they show:

- **Audit ledger.** However writers, failures and crashes interleave, a running
  node has a chain that verifies, and keeps every entry it has acknowledged, on
  disk and in what it serves, bit for bit; it implements `AuditLog`. With one
  append at a time it also never refuses its own log. With two that is not so:
  see below.
- **Audit lanes.** A migration keeps the history, or, cut short by a crash, a
  beginning of it; a log with an altered entry is never accepted. No sealed
  decision is exported. The manifest adds up but for records that were
  reclassified.
- **Chain store.** Called by one task, `apply_block` leaves the trees in the
  state that replaying the stored blocks gives; a crash can break that, but never
  makes the tip name a block that is not stored. Called by two tasks at once, it
  can destroy and create tokens.
- **Node.** With `apply_block` atomic, nothing is confirmed twice although the
  pool keeps what peers have confirmed, and no balance wraps although
  `apply_block` checks the founder against the vested total and not against the
  balance: it is the pool's check that prevents it. This rests on the peer miner
  running the same checks (`PeerBlock` requires it).
- **Sync.** A follower never leaves its miner's chain, and reaches it, over a
  channel that drops blocks and connections that are lost.
- **Peers.** Although a dial gives up its slot before it registers, one
  connection per address is registered. The book agrees with the dials except
  where two unlocked updates of a record met.
- **Training.** Completions rest on quorums of their own round and gradients are
  never used twice, even when two aggregators race and a round is completed more
  than once. The quorum of a round is the announced one, or that of the model's
  first round.
- **Files.** An index entry has its blob unless a write of it failed or it was
  deleted meanwhile, and a file whose upload was answered can be downloaded
  unless its chunks were so damaged or its manifest was replaced. All bytes of a
  file come back for every size around the limits of chunks and groups, from any
  sufficient set of shards.
- **Market.** A verdict is final, with redundancies of one and two, and assigned
  workers can do their jobs, unless two submissions of one id raced.
- **Registry and decoding.** Routes and counts are consistent with the entry they
  are for. Caches follow the text, and a stage that failed half way is not left
  half updated.
- **API services.** Sensitive memories open to the pairing they were written
  with, whatever registrations come between checks and reads, and are lost to
  everybody when their wallet is paired anew. Of bindings only what a request
  gives is changed, if it saw the binding it replaces. Acknowledged messages
  stay, once, unless their sender sends two in one millisecond. Concurrent tool
  requests run their own code unless they fall into one millisecond. The rate
  limiter lets twice its limit through around the end of a window and never more.

Where a property has an exception ("unless two fall into one millisecond"), the
exception is what the code really does; the property shows that nothing else
breaks the rule, and its mutants that the rule can be broken otherwise.

Bounds, and why they are enough for the questions asked (the properties under
[The proofs](#the-proofs) are proved for every size as well):

- audit in `durable`: 2 writers. Undisturbed behaviours (see `AuditSerial`) go on
  to 5 entries and 2 crashes, so that a recovered log is written to and recovered
  again; disturbed ones to 3 entries and 1 crash: an append, a
  rollback that is overtaken, and an append after it need 3 entries;
- lanes: 4 stored histories that mix old and new entries and all lanes, 3 kinds
  of new decision, 2 stops at any step of the migration, and an alteration;
- store: two rival blocks of height 1, two of height 2 and a third height, two
  crashes; a rejected block, a fork and a founder grant all occur;
- peers: a private and a public address, 2 dialling tasks, 3 dials, 2 starts with
  different seeds, a clock of 2 s against backoffs of 1 s and more;
- files: 2 uploads that share a chunk, one with a parity chunk, and a limit of 2
  chunks, less than either needs with the other; sizes 1, one chunk, one group,
  and one byte more or less than each; a table of 2 records for 3 chunks and a
  bucket of one peer;
- training: 2 workers, 2 aggregators, 2 rounds, 4 deliveries, quorums of 1 (from
  `min_workers` 0) and 2: the same round can be completed twice, and gradients of
  round 1 arrive in round 2;
- market: 2 nodes with and without a GPU, one job id and 2 submitters that race
  for it, redundancy 1 and 2, 2 different results;
- registry: 3 tasks on one shard, models of 1 and 2 stages, so that a route may
  be read across a registration; decoding: 2 layers, 2 heads, limits of 0, 1 and
  3 tokens, a rotary table of 4 positions, stop sequences of 0, 1 and 2 tokens;
- memory: one wallet with 2 pairings, one of them without mission control, and 4
  calls; bindings: 4 requests by 2 masters for 2 employees; relay: 2 nodes, 2
  connections with room for one message, 2 milliseconds and 2 sends; tools: 2
  requests of 5 jobs in 2 milliseconds, 4 environments; gate: a limit of 2 in a
  window of 2 s over 5 s, so that two windows and a clean-up between them occur;
- `ChainNodeSafety`: 2 requests, 2 blocks, a pool of 1, blocks of one pooled
  transaction, a clock of 2 ticks and a transaction age of 1. A pool limit of 1
  makes the race past it happen; two heights let a peer's block overtake a tick
  and a confirmed transaction come up again; the halving period of 2 changes the
  reward within the run, and the reward pool of 3 runs short. `ChainNodeTick`
  has a pool of 2, so that one sender has two transactions in it;
- `ChainSyncCatchUp`: height 4, 2 lost connections, a broadcast buffer of one
  block. The served range covers the chain: the clamped answer is followed by
  another request only when another block arrives, and the chain of the model
  ends. `ChainSyncForks`: 2 miners that fork at height 1 and grow to 2, a
  range of 1 (two blocks served).

Every configuration disables the deadlock check, because each model stops when
its bounds (chain height, entries, deliveries, requests) are used up. Symmetry
(`DurableSymmetry`, `ClientSymmetry`) is used over writers, dialling tasks and
clients, which differ in their names only, and in no run with a liveness property.

Fairness is assumed in two runs. In `sync_catch_up`, weak fairness of the
producer, the broadcast and the handler's own steps says that the runtime runs a
task that can run; weak fairness of `Connect` that the redial loop goes on
dialling and that dials succeed eventually, which the bound on lost connections
makes meaningful. Strong fairness of the two receive actions of a handler says
that neither the replies nor the broadcast starve: `select!` in the write task
polls its branches in random order. `CatchesUp` is not claimed for several
miners: without a fork choice two miners that produce the same height never agree
again. In `registry_claim`, weak fairness of every task says that the runtime runs
a task whose next step is possible; the claim is not answered even so.

## The proofs

Seven modules, with the lemmas of an eighth, prove 39 of the 40 properties that the
passing runs check, as theorems of the components' specifications; the 40th, `CatchesUp`, is a liveness
property. They hold for every value of the constants that the named assumptions
allow: any set of writers, nodes, tasks, files or requests, any bound on heights,
clocks or crashes. TLC evaluates the assumptions in every run that uses the module.

| Module | Theorem | Property |
|---|---|---|
| `AuditLedgerProofs` | `TypeCorrect` | `TypeOK` |
| | `ChainAlwaysIntact` | `ChainIntact` |
| | `AcknowledgedStaysDurable` | `AckedDurable` |
| | `AcknowledgedStaysServed` | `AckedServed` |
| | `LedgerKeepsPromise` | `KeepsPromise`, the refinement of `AuditLog` |
| | `SerialAlwaysRecovers` | `SerialRecovers` |
| | `HistoryAlwaysSound` | `HistorySound` |
| | `CorpusAlwaysClean` | `CorpusClean` |
| | `ManifestAlwaysAccounts` | `ManifestAccounts` |
| `ChainStoreProofs` | `StoreAlwaysSound` | `StoreSound`, while one task applies blocks |
| `ChainNodeProofs` | `TokensAlwaysConserved` | `TokensConserved` |
| | `ConfirmedAlwaysOnce` | `ConfirmedOnce` |
| | `PoolAlwaysBounded` | `MempoolBounded` |
| | `PoolLosesOnlyConfirmed` | `PoolKeepsUnconfirmed`, an action property |
| `PeerProofs` | `ForksShareTheirPast` | `PastAgreed` |
| | `SingleMinerFollowed` | `FollowsMiner` |
| | `OneConnectionEach` | `OneConnection` |
| | `DialsAlwaysJustified` | `DialsJustified` |
| | `BookAlwaysFollows` | `BookFollowsDials` |
| `FileStoreProofs` | `IndexAlwaysSound` | `IndexSound` |
| | `AnsweredAlwaysDownloads` | `AnsweredDownloads` |
| | `FreshestAlwaysKept` | `FreshestKept` |
| | `ProofAlwaysBinds` | `ProofBinds` |
| | `FilesAlwaysRestored` | `FilesRestored`, with two more data than parity shards |
| `ComputeProofs` | `JobsAlwaysHonoured` | `JobsHonoured` |
| | `CompletionAlwaysFinal` | `CompletionFinal`, an action property |
| | `CreditAlwaysEarned` | `CreditEarned` |
| | `RoutesAndCountsConsistent` | `RegistryConsistent` |
| | `AlwaysEndsOnTime` | `EndsOnTime` |
| | `CachesAlwaysAligned` | `CachesAligned` |
| | `CompletionsAreBacked` | `CompletionsBacked` |
| | `GradientsAreCounted` | `GradientsCounted` |
| | `QuorumsAsAnnounced` | `QuorumAsAnnounced` |
| `AgentProofs` | `PairingAlwaysGuards` | `PairingGuards` |
| | `RecallAlwaysReaches` | `RecallReaches` |
| | `BindingsAlwaysSound` | `BindingsSound`, an action property |
| | `AcknowledgedAlwaysKept` | `AcknowledgedKept` |
| | `RequestsAlwaysAccounted` | `RequestsAccounted` |
| | `GateAlwaysSound` | `GateSound` |

Each rests on an inductive invariant: it holds initially (`InitInv` and its like),
every action keeps it (one lemma per action), and the properties follow from it.
None of the properties is inductive alone; what each invariant adds, and why, is
below. `DataLemmas`, the eighth module, has what they share: the least-number
principle, induction up to a bound and over the subsets of a finite set, sums over
sets, and concatenation one sequence at a time.

**Audit ledger.** Assumptions: `ConstantsAssumption` and `GenesisFloatAssumption`
(the types of the constants, and that the placeholder of the genesis hash is no
float). Nothing is assumed of `JsonRoundTrip`, nor that the store works. `IInv`
adds:

- `HeightsIncrease`: heights in memory are distinct, so that no two live entries
  share a key of the tree;
- `InFlight`: an entry that a writer has recorded and not answered for is in the
  live chain, is held by nobody else, is not acknowledged, and is in the tree
  between its insert and its flush. This is what a flush needs to acknowledge it
  and what a rollback needs in order not to pop an acknowledged one;
- `LogWellFormed`: whatever is in sled's log hashes correctly and has the height
  after its predecessor's, which gives a restarted chain its gapless heights:
  `verify_chain` compares hashes only;
- `IdsUnique`: an entry id names one entry, in memory and in the log together,
  so that a rollback by id pops the writer's own entry.

The central step is the insert (`InsertInv`): it replaces whatever the tree has
at the entry's height. An acknowledged entry of that height is served
(`AckedServed`), so it is in the live chain together with the one being inserted,
and by `HeightsIncrease` they are the same; hence nothing acknowledged is
overwritten. The restart (`RestartInv`) goes the other way: a log that verifies
has floats that came back exactly (`VerifiedHash`), so what is loaded is what was
acknowledged. The refinement takes one step per action from the same invariant:
`Record` is an append of the abstract log, `Rollback` a withdrawal (of an entry
nobody was promised, by `InFlight`), `Crash` and `Restart` its stop and start, and
everything else stutters.

*Writers that take turns.* `Serial` says, while nothing is disturbed, what any
crash may leave: every prefix of the log from the flushed one on holds the settled
chain and at most one entry on top of it (`OneOnTop`), the one in flight or one whose
writer has given it up. Such an entry still links to the chain, so the log verifies;
the next append takes its height. The audit endpoint gives no such turns, and
`audit_rollback_race` shows what follows.

*Lanes.* Assumption: `LanesAssumption` (a log that an older version left is a
sequence of entries with finite metadata, none already altered, and no word for the
public lane ends in `-00`). `LogInv` says what the tree holds in each phase: the
recorded log or a beginning of it, old entries before new ones, with what was
appended since; during a migration how many entries were rewritten, and what a crash
at this point would leave; after an alteration the place that no start can get past
(`Marred`). `CorpusInv` goes through the export loop entry by entry: each exported record has a
source in the served log, in its order, and the counters of the manifest are the
sums over what was passed so far (`Accounts`).

**Chain store.** Assumptions: those of the rules and `StoreAssumption` (candidate
blocks have a height in range, a hash that is not the genesis block's, and account
names). The theorem has a hypothesis, `OneCaller`: one task calls `apply_block`. The
code does not guarantee it (the producer and each connection call it without a lock),
and the run `store_race` shows that without it tokens are created or lost; a single
task is what the comment on `apply_block` takes for granted. `StoreInv` says of a
call half way that the trees are those of its start with the operations before `pos`
made, that what it has read for the operation at `pos` is still in the tree, and that
every state a crash may leave (`recoverable`) is sound; between calls, in a process
that has not crashed, the trees are what replaying the blocks gives (`Whole`). The
lemmas on single operations are those of `ChainNodeProofs`.

**Node.** Assumptions: `RulesAssumption` and `SupplyAssumption` (finitely many
accounts, `"GENESIS"` is none of them, and what genesis mints is below the modulus
of u64: `config.rs` 32 mints 2.4e18, and 2^64 is 1.8e19), `NodeAssumption` (types
of the limits, that nobody holds the key of the reward pool, and that all the transactions of a chain of the greatest height are
fewer than the modulus, so that no nonce wraps). Three invariants, each on top of the one before:

- `PoolInv`: the pooled transactions together with the requests past the check of
  the limit stay below `MAX_SIZE` plus the number of requests; the race between
  check and insert is counted, and `MempoolBounded` follows;
- `NodeInv`: ids of clients' transactions, agent actions and rewards are kept
  apart, an agent action, which has no nonce, is in one place at a time (about to be
  added, pooled, or in the chain; in two only until the tick that confirmed it has
  removed it from the pool), the stored blocks are a chain in which no id comes twice, and
  every confirmed transaction of a sender has a nonce below the sender's next one.
  The last is what refuses a confirmed transaction that still is in the pool;
- `FundsSound` with `CountsSound`: all tokens are there, and whatever is pooled,
  about to be added or drafted is *covered*: its nonce is at most the sender's
  next, and if it is the next, the sender can pay for it. `apply_block` checks the
  founder against the vesting table and not against the balance; that no balance
  wraps all the same is because a transaction of the next nonce is covered, and
  the writes of a block keep others covered, for they only ever take from a sender
  whose nonce moves on. A drafted block that still extends the tip has a reward
  that the reward pool can pay.

`apply_block` folds over a block's transactions, so the last needs induction over
data. The library's induction theorems are of no use here, as they take an
operator for a parameter; the proofs state the least-number principle about *sets*
of numbers instead (`LeastOf`, `Reaches`), and the existence of each recursive
function as a lemma of its own (`RunChainExists`, `TxChainExists`, `SumExists`).
With these, the sum of balances before and after an update is `SupplyChange`, and
`Committed` goes through a block one transaction at a time.

**Sync.** Assumption: `SyncAssumption`. `Genuine`: every block that is stored, on
its way or in a buffer is one some miner made, at its height and on its parent.
Without it nothing is known of what arrives. `ChainsLinked` and `CommonPast` are
then kept by the check of the parent hash that precedes every write.

**Training.** Assumption: `TrainingAssumption`. The invariant relates a round's
pending, completing and completed gradients: they are of the round
(`GradientsOfRound`), no receipt is in two of them (`ReceiptsApart`), a reported
quorum has the gradients its round needs (`QuorumsFull`), and there is one for each
completion made or under way and for the gradients that wait or were dropped
(`QuorumTally`). What an aggregator took under the lock remains what it was
(`AwaitingBacked`, `CompletionBacked`) until its audit entry is written.

**Files.** Assumptions: `FileStoreAssumption`, `DhtAssumption`,
`FileCodingAssumption`. `Progress` and `UploadsBacked` say of an upload half way that the chunks it has passed are
*backed*: on disk, being written, or damaged by a failure or a deletion; that being
backed is stable under every step of the others carries the proof to the answer
and on to the download. `AdmittedBounded` counts the requests past the capacity
check. For the routing table, `BucketSound` and `RecordsSound` say that the times
kept are the latest ones, so that what is given up is older than all that stays.

For the coding, `Coded` says where each shard of a file stands: all groups but the
last are full, so the shards of group g come after (g - 1) times a whole group.
`ProofInv` keeps the challenged ranges within the first chunk; two answers are equal
only if every range was read to its end, since what a shorter copy has of a range is
shorter (`EqualAnswers`). `RestoreInv` says that what is stored is what `chunk_file`
made of the file and that what was reconstructed came from shards of one of its
groups; `ComesBack` puts the chunks together in the order of the manifest, and
`GroupRestored` goes through the columns of a group. The latter has a hypothesis,
`MoreData`: the parity shards and one are fewer than the data shards (2 and 4 in
`fs/types.rs` 19-20). `reconstruct_group` takes its size from the first shard that is
there; only the last chunk of a file is shorter than the others of its group, and it
is the first one there only if all the rest are parity, too few to be enough. With 3
data and 2 parity shards TLC finds a group that comes back cut off. That enough
shards determine a column is the assumption about the Reed-Solomon library.

**Peers.** Assumption: `PeerBookAssumption`. `SlotsHeld`: the slot of an address
belongs to the one dial in flight, which was let in when its wait was over;
`RegisteredHeld`: a registered address has one registered connection. Slot and
registration are two checks with the lock released between them, so each needs its
own. `WaitsCounted` puts the next attempt as far from the last failure as the
backoff says, `SeedsMarked` and `DialsRoutable` tie the dialled address to the
configuration it was chosen under, also in the records that tasks have read and not
yet written back, and `Followed` the book to the outcomes, except for records with
overlapping updates.

**Compute.** Assumptions: `MarketAssumption`, `RegistryAssumption`,
`DecodingAssumption`. Market: what a caller has read of a job and uses after the
lock (`AcceptedStored`, `BidsFit`, `AssignedCapable`, `VerdictsBacked`) still
agrees with the job, unless a racing submission replaced it. Registry: a scan or a
claim holds a read guard and a count the only guard of its shard (`GuardsHeld`), so
an entry does not move while it is read (`EntryUnmoved`). Decoding: each step of `generate` keeps the text short of
its end (`TextOnTime`) and all layers' caches at one position (`CachesFollow`).

**Agents.** Assumptions: `RelayAssumption`, `BindingsAssumption`,
`ToolsAssumption`. Memory: a history variable, `granted`, has the pairings that
were ever given mission control of a wallet; `Sealed` says of a stored memory that
it was sealed with its wallet and its pairing, which for a sensitive one was granted,
`CallSound` that what a call has checked or read holds of it still. Bindings: a request
writes over nothing that it should have refused (`BindsChecked`). Relay:
whatever the connections carry was posted on the node it comes from (`WireBacked`),
so that a second arrival changes nothing. Tools: jobs answered and jobs left make up the request (`Counted`),
and a temporary file holds what its owner wrote until it reads it (`FileWritten`,
`SpawnReads`, `FileOwned`). Gate (`GateAssumption`): the requests since the start of
the current window are counted in it, and the `window_secs` seconds before it have at
most `max_requests` (`Windows`), also when the clean-up has dropped a window.

The proofs changed the models in a few places. CASEs whose arms overlap mean an
arbitrary arm, though TLC takes the first: `Opened` and `Disposition` are now IFs,
in the order of the code, and the guards of `normalize_audit_lane` exclude each
other. The pool's insert is by key, as that of the code's map is, and
`PoolKeepsUnconfirmed` follows a transaction by its id. `EligibleBids` is any
stable order by price, `RunOps`, `Committed` and the order of a file's chunks are
recursive functions, sums are folds over sets, and the routing table remembers what
was announced for each chunk and peer. Some hypotheses were found by the proofs:
`OneCaller` and `MoreData` above.

Only model-checked are `CatchesUp` and, in a run of its own, the violation of
`ClaimAnswered`: liveness under fairness, and `ENABLED`, are out of the proof
system's reach. Type correctness of the other components is a conjunct of each
invariant and not listed by itself.

## Where code and documents disagree

Each has a run in which TLC shows it (`findings` in `PROJECT.json`):

- `audit_rollback_race`: a failed durable append that is overtaken by a
  successful one stays in memory and not on disk; the next start refuses the log.
  `docs/Audit-Atomic-Append-v3.2.6.md` says that the two cannot race.
- `store_crash_atomic`, `store_race`: `apply_block` is documented to commit
  atomically. It does not under a crash between two writes, nor when two tasks
  call it at once.
- `node_tick`: two pooled transactions with one nonce keep the producer from
  making blocks, which it is said to make at every tick.
- `training_duplicates`: the worker count of a quorum counts gradients, so a
  gradient that arrives twice counts as two workers.
- `registry_claim`: nodes are said to claim pipeline stages. A claim of a
  registered stage waits for the map guard that it holds itself.
- `kv_heads`: the key-value cache is said to hold the un-expanded heads. It holds
  the first of the expanded ones.

Seen while modelling, reproduced by the models, without a run of their own:

- transactions of agent actions and wallet transfers are stamped in seconds
  (`api.rs` 572, 2266) where the pool's age is in milliseconds, so the next eviction
  drops them; `PoolKeepsUnconfirmed` excepts them;
- `submit_signed_transfer` (`api.rs` 582) computes the id before it attaches the
  memo, so a transfer with a memo, and with it every treasury fund and payout, is
  refused by `has_expected_id`;
- a `GetBlocks` request is answered with up to `MAX_BLOCK_RANGE + 1` blocks
  (`p2p.rs` 707);
- no code sends `NewTransaction` (`p2p.rs` 702): what is submitted to a node that
  does not mine stays in its pool until it expires;
- the comment of `rate_limit.rs` (3-4) speaks of a sliding window and of 120 and
  20 requests per minute; the code has one fixed window, of 600 requests in 60 s
  (`GateSound` states what it does bound);
- storage challenges never draw the last start of a range (`fs/proof.rs` 39), so
  the last byte of a chunk larger than its ranges is not challenged;
- a forced rebind keeps the wallet that was derived from the former master
  (`api.rs` 3208);
- an agent that reports to two nodes loses its room on both, since gossiped
  heartbeats carry none (`p2p.rs` 1112);
- a chat provider with one system field gets the context note and not the memory
  that follows it, which the trace lists as included (`api.rs` 4249);
- a command that times out is not killed (`agents/tool_executor.rs` 576), and a
  JavaScript run whose environment is refused leaves its file (945).

## What is not modelled

- **Proof of Intelligence** (`poi.rs`): random challenges and floating-point
  scores. `Block::validate`, which verifies a proof, is not called on received
  blocks, and a shared proof is only logged, so the chain depends on the proof as a
  step of the tick that takes time and may fail; that step is in `ChainNode`.
- **Records keeper** (`agents/records_keeper.rs`): `process_transaction`, the only
  way into its pending map, has no caller, so its workers find nothing to do; the
  **security monitor** keeps a bounded list of what it would report.
- **Firecrawler**: fetches and parses web pages into a cache that nothing reads
  and nothing empties. **Agent manager**: construction and start flags.
- **Tensors, training, sampling, tokenizer, checkpoints, federated averaging**
  (`llm/*`): arithmetic on floats, for which TLC has no numbers. Reed-Solomon
  arithmetic is an ideal code in `FileCoding`.
- **Compute sandbox**: runs WebAssembly in a library. **Document tools** of the
  tool executor (web, PDF, CSV, reading and writing one file): input and output.
- **Cryptography and wallets**: signatures of honest wallets hold, hashes are
  injective, ciphertexts open with equal key material.
- **Tribunal reports** and queries of the audit log: no state.
- In the peer-to-peer layer: ping and pong.
- **Autonomo node records, spaces, vault limits**: single keyed records that a
  request replaces; the transactions they submit are in `ChainNode`.
- Pin records and storage statistics of the file system; latest heartbeats of
  stages, which are stored and never read.

## The plan

Done: every module above with its runs; a proof of every safety property that a
passing run checks, the refinement of `AuditLog` among them. Left:

1. a chain in `ChainSync` that is pruned as it grows, so that the clamped range of
   `GetBlocks` can be part of the liveness run, and transaction gossip with a second
   pool;
2. `ChainNode` on top of `ChainStore`, by refinement: with one caller each call of
   `apply_block` is one step, which `StoreAlwaysSound` shows of its result only.
