------------------------------ MODULE ChainNode ------------------------------
(***************************************************************************)
(* One mining node: the transaction pool (mempool.rs), the HTTP handlers   *)
(* that submit to it (api.rs), the block producer (consensus.rs) and the   *)
(* blocks of another miner that arrive from peers (p2p.rs).  apply_block   *)
(* runs as a whole here; ChainStore takes it apart.                        *)
(*                                                                         *)
(* Mempool::add checks under a read lock and the store, then inserts under *)
(* the write lock: two steps.  A tick of the producer reads the tip, takes *)
(* the pending transactions and the pool balance, computes its proof,      *)
(* applies the block, and only then removes what it confirmed: four steps, *)
(* with an await between any two.                                          *)
(***************************************************************************)
EXTENDS ChainRules

CONSTANTS
    Clients,      \* concurrent HTTP requests
    Transfers,    \* what wallets transfer: [from, to, amount, fee]
    Treasury,     \* the mission treasury's wallet
    Miner,        \* this node's address
    PeerMiner,    \* the address of the miner the peers relay
    ActionLedger, \* "autonomo_action_ledger", where agent actions are sent
    MinFee,       \* MIN_FEE
    RewardBase,   \* BLOCK_REWARD_BASE
    HalvingPeriod,\* HALVING_PERIOD_BLOCKS
    MaxHalvings,  \* MAX_HALVING_EXPONENT
    MaxSize,      \* MAX_SIZE of the pool
    BlockLimit,   \* MAX_TXS_PER_BLOCK - 1
    MaxAge,       \* MAX_AGE_MS, in ticks of the clock
    MaxClock,     \* bound: the clock, which starts at MaxAge
    MaxActions    \* bound: agent actions submitted

\* Amounts are u64; nobody holds the key of the pool; no sender can fill the chain
\* with as many transactions as a u64 counts.
ASSUME NodeAssumption ==
    /\ {Miner, PeerMiner, ActionLedger} \subseteq Accounts
    /\ \A t \in Transfers : /\ {t.from, t.to} \subseteq Accounts /\ t.from # Pool
                            /\ t.amount \in Nat /\ t.fee \in Nat
    /\ RewardBase \in Nat /\ HalvingPeriod \in Nat \ {0} /\ MaxHalvings \in Nat
    /\ MaxAge \in Nat /\ MaxClock \in Nat /\ MaxAge <= MaxClock
    /\ IsFiniteSet(Clients) /\ Clients # {} /\ MaxSize \in Nat /\ MaxActions \in Nat
    /\ BlockLimit \in Nat /\ (BlockLimit + 2) * MaxHeight < U64Modulus

VARIABLES
    db,           \* the store
    mempool,      \* Mempool.txs
    adding,       \* adding[c]: the transaction of c that passed add's checks
    producer,     \* [step, draft]: the tick in progress
    clock,        \* milliseconds, in ticks
    actions       \* agent actions submitted so far (their uuids)

vars == <<db, mempool, adding, producer, clock, actions>>

NoTx == [id |-> "none"]
NoDraft == [hash |-> "none"]

\* The node has been running for MaxAge when the behaviour starts.
Init ==
    /\ db = GenesisDb
    /\ mempool = {}
    /\ adding = [c \in Clients |-> NoTx]
    /\ producer = [step |-> "idle", draft |-> NoDraft]
    /\ clock = MaxAge
    /\ actions = 0

-----------------------------------------------------------------------------
(* Transactions.                                                           *)

\* blake3 over the fields, as the fields themselves.
compute_id(from, to, amount, fee, nonce, timestamp, data) ==
    <<from, to, amount, fee, nonce, timestamp, data>>

has_expected_id(tx) ==
    tx.id = compute_id(tx.from, tx.to, tx.amount, tx.fee, tx.nonce, tx.timestamp, tx.data)

\* Signatures hold for what wallets sign, and payloads are short enough.
validate_basic(tx) ==
    \/ tx.from = GENESIS
    \/ /\ tx.from = tx.to => tx.amount = 0 /\ tx.data # "none"
       /\ tx.amount > 0 \/ tx.data # "none"
       /\ tx.fee >= MinFee
       /\ has_expected_id(tx)

\* chrono's timestamp() counts seconds where the pool expects milliseconds.
InSeconds(ms) == ms \div 1000

\* A transaction a client has built and signed: in milliseconds, with its id.
ClientTx(t) ==
    LET nonce == db.nonces[t.from] IN
    [id |-> compute_id(t.from, t.to, t.amount, t.fee, nonce, clock, "none"),
     from |-> t.from, to |-> t.to, amount |-> t.amount, fee |-> t.fee,
     nonce |-> nonce, timestamp |-> clock, data |-> "none", created |-> clock]

\* The log entry of an agent action: a uuid, no sender, no value.
ActionTx(k) ==
    [id |-> <<"uuid", k>>, from |-> GENESIS, to |-> ActionLedger, amount |-> 0, fee |-> 0,
     nonce |-> 0, timestamp |-> InSeconds(clock), data |-> "action", created |-> clock]

\* submit_signed_transfer: the id is computed without the memo the transaction
\* then carries.
SignedTransfer(t, memo) ==
    LET nonce == db.nonces[t.from]
        stamp == InSeconds(clock) IN
    [id |-> compute_id(t.from, t.to, t.amount, t.fee, nonce, stamp, "none"),
     from |-> t.from, to |-> t.to, amount |-> t.amount, fee |-> t.fee,
     nonce |-> nonce, timestamp |-> stamp, data |-> memo, created |-> clock]

-----------------------------------------------------------------------------
(* The pool.                                                               *)

\* Mutants of add_checks: the balance is not compared with the cost; a full
\* pool takes one more.
AddChecksNoBalance(tx) ==
    /\ validate_basic(tx)
    /\ Cardinality(mempool) < MaxSize
    /\ \A m \in mempool : m.id # tx.id
    /\ tx.id \notin db.txs
    /\ tx.from # GENESIS => tx.nonce = db.nonces[tx.from]

AddChecksOffByOne(tx) ==
    /\ validate_basic(tx)
    /\ Cardinality(mempool) <= MaxSize
    /\ \A m \in mempool : m.id # tx.id
    /\ tx.id \notin db.txs
    /\ tx.from # GENESIS =>
         /\ tx.nonce = db.nonces[tx.from]
         /\ db.balances[tx.from] >= Cost(tx)

add_checks(tx) ==
    /\ validate_basic(tx)
    /\ Cardinality(mempool) < MaxSize
    /\ \A m \in mempool : m.id # tx.id
    /\ tx.id \notin db.txs
    /\ tx.from # GENESIS =>
         /\ tx.nonce = db.nonces[tx.from]
         /\ db.balances[tx.from] >= Cost(tx)

\* POST /api/v1/tx/submit, up to the end of add's checks.
SubmitTx(c) ==
    /\ adding[c] = NoTx
    /\ \E t \in Transfers :
         /\ add_checks(ClientTx(t))
         /\ adding' = [adding EXCEPT ![c] = ClientTx(t)]
    /\ UNCHANGED <<db, mempool, producer, clock, actions>>

\* POST /api/v1/autonomo/action and /nudge.
SubmitAction(c) ==
    /\ adding[c] = NoTx
    /\ actions < MaxActions
    /\ add_checks(ActionTx(actions))
    /\ adding' = [adding EXCEPT ![c] = ActionTx(actions)]
    /\ actions' = actions + 1
    /\ UNCHANGED <<db, mempool, producer, clock>>

\* POST /api/v1/wallet/transfer: the node's own wallet signs, with or without a
\* memo.
WalletRequests == {t \in Transfers : t.from = Miner} \X {"none", "memo"}

\* A treasury payout, or the funding of the treasury by the node's wallet: the
\* transfer always has a memo.
TreasuryRequests ==
    {t \in Transfers : t.from = Treasury \/ (t.from = Miner /\ t.to = Treasury)}
        \X {"memo"}

\* One of those requests, up to the end of add's checks.
SubmitSigned(c) ==
    /\ adding[c] = NoTx
    /\ \E r \in WalletRequests \cup TreasuryRequests :
         /\ add_checks(SignedTransfer(r[1], r[2]))
         /\ adding' = [adding EXCEPT ![c] = SignedTransfer(r[1], r[2])]
    /\ UNCHANGED <<db, mempool, producer, clock, actions>>

\* The end of add: the insert, keyed by id.
FinishAdd(c) ==
    /\ adding[c] # NoTx
    /\ mempool' = {m \in mempool : m.id # adding[c].id} \cup {adding[c]}
    /\ adding' = [adding EXCEPT ![c] = NoTx]
    /\ UNCHANGED <<db, producer, clock, actions>>

\* evict_expired, every five minutes; the subtraction saturates.
Expired(tx) == clock - tx.timestamp >= MaxAge

EvictExpired ==
    /\ \E tx \in mempool : Expired(tx)
    /\ mempool' = {tx \in mempool : ~Expired(tx)}
    /\ UNCHANGED <<db, adding, producer, clock, actions>>

AdvanceClock ==
    /\ clock < MaxClock
    /\ clock' = clock + 1
    /\ UNCHANGED <<db, mempool, adding, producer, actions>>

-----------------------------------------------------------------------------
(* The producer.                                                           *)

\* The reward halves every HalvingPeriod blocks, and is capped by what is left
\* in the pool.
halving_exp(height) ==
    LET exp == height \div HalvingPeriod IN IF exp < MaxHalvings THEN exp ELSE MaxHalvings

current_block_reward(height, pool_balance) ==
    LET reward == RewardBase \div (2 ^ halving_exp(height))
    IN  IF reward < pool_balance THEN reward ELSE pool_balance

RewardTx(to, height, timestamp) ==
    LET amount == current_block_reward(height, db.balances[Pool]) IN
    [id |-> compute_id(Pool, to, amount, 0, height, timestamp, "reward"),
     from |-> Pool, to |-> to, amount |-> amount, fee |-> 0, nonce |-> height,
     timestamp |-> timestamp, data |-> "reward", created |-> timestamp]

\* take_for_block: the pending transactions in some order of falling fees, cut
\* off at the limit.
TakeForBlock ==
    {SubSeq(s, 1, IF Len(s) < BlockLimit THEN Len(s) ELSE BlockLimit) :
        s \in {q \in SetToSeqs(mempool) :
                  \A i, j \in 1..Len(q) : i < j => q[i].fee >= q[j].fee}}

\* A tick begins: height, previous hash and time are read.
ReadTip ==
    /\ producer.step = "idle"
    /\ db.tip_height < MaxHeight
    /\ producer' = [step |-> "take",
                    draft |-> [height |-> db.tip_height + 1, prev_hash |-> db.tip_hash,
                              timestamp |-> clock]]
    /\ UNCHANGED <<db, mempool, adding, clock, actions>>

\* The transactions are taken, the reward is put first, the proof is computed
\* and the block gets its hash.
BuildBlock ==
    /\ producer.step = "take"
    /\ \E txs \in TakeForBlock :
         LET d == producer.draft IN
         producer' =
           [step |-> "apply",
            draft |-> [height |-> d.height, prev_hash |-> d.prev_hash,
                       hash |-> <<Miner, d.height, d.timestamp, txs>>,
                       validator |-> Miner,
                       txs |-> <<RewardTx(Miner, d.height, d.timestamp)>> \o txs]]
    /\ UNCHANGED <<db, mempool, adding, clock, actions>>

\* solve_challenge took longer than the challenge's time limit, or the reward's
\* balance could not be read: produce_block returns the error, the tick ends and
\* the pool keeps what was taken.
ProofFails ==
    /\ producer.step = "take"
    /\ producer' = [step |-> "idle", draft |-> NoDraft]
    /\ UNCHANGED <<db, mempool, adding, clock, actions>>

\* Mutant of ApplyDraft: what was taken is removed although applying it failed.
ApplyDraftAlwaysRemoves ==
    /\ producer.step = "apply"
    /\ IF Accepts(db, producer.draft)
       THEN db' = Committed(db, producer.draft)
       ELSE UNCHANGED db
    /\ producer' = [producer EXCEPT !.step = "remove"]
    /\ UNCHANGED <<mempool, adding, clock, actions>>

\* apply_block on the draft; an error ends the tick.
ApplyDraft ==
    /\ producer.step = "apply"
    /\ IF Accepts(db, producer.draft)
       THEN /\ db' = Committed(db, producer.draft)
            /\ producer' = [producer EXCEPT !.step = "remove"]
       ELSE /\ producer' = [step |-> "idle", draft |-> NoDraft]
            /\ UNCHANGED db
    /\ UNCHANGED <<mempool, adding, clock, actions>>

\* remove_confirmed, and the block is handed to the gossip.
RemoveConfirmed ==
    /\ producer.step = "remove"
    /\ mempool' = {tx \in mempool :
                     \A i \in 1..Len(producer.draft.txs) : producer.draft.txs[i].id # tx.id}
    /\ producer' = [step |-> "idle", draft |-> NoDraft]
    /\ UNCHANGED <<db, adding, clock, actions>>

\* A peer relays a block of another miner that built it on the same tip, from a
\* pool that ran the same checks.  The transactions stay in our pool.
PeerBlock ==
    /\ db.tip_height < MaxHeight
    /\ \E txs \in {<<>>} \cup
                  {<<tx>> : tx \in {ClientTx(t) : t \in Transfers} \cup mempool} :
         LET b == [height |-> db.tip_height + 1, prev_hash |-> db.tip_hash,
                   hash |-> <<PeerMiner, db.tip_height + 1, clock, txs>>,
                   validator |-> PeerMiner,
                   txs |-> <<RewardTx(PeerMiner, db.tip_height + 1, clock)>> \o txs]
         IN  /\ \A i \in 1..Len(txs) :
                  IsUserTx(txs[i]) /\ db.balances[txs[i].from] >= Cost(txs[i])
             /\ Accepts(db, b)
             /\ db' = Committed(db, b)
    /\ UNCHANGED <<mempool, adding, producer, clock, actions>>

ProducerStep == ReadTip \/ BuildBlock \/ ProofFails \/ ApplyDraft \/ RemoveConfirmed

Local ==
    \/ \E c \in Clients : SubmitTx(c) \/ SubmitAction(c) \/ SubmitSigned(c)
                          \/ FinishAdd(c)
    \/ EvictExpired
    \/ AdvanceClock
    \/ ProducerStep

Next == Local \/ PeerBlock

Spec == Init /\ [][Next]_vars

\* The node without peers.
LocalSpec == Init /\ [][Local]_vars

-----------------------------------------------------------------------------
(* Properties.                                                             *)

TypeOK ==
    /\ db.tip_height \in 0..MaxHeight
    /\ \A h \in 1..db.tip_height : db.blocks[h] # NoBlock
    /\ db.balances \in [Accounts -> 0..(U64Modulus - 1)]
    /\ db.nonces \in [Accounts -> Nat]
    /\ \A tx \in mempool : tx.from \in Accounts \cup {GENESIS} /\ tx.created \in 0..MaxClock
    /\ producer.step \in {"idle", "take", "apply", "remove"}
    /\ clock \in MaxAge..MaxClock
    /\ actions \in 0..MaxActions

\* The transactions of the stored chain, each with its place.
Confirmed ==
    UNION {{<<h, i>> : i \in 1..Len(db.blocks[h].txs)} : h \in 1..db.tip_height}

TxAt(p) == db.blocks[p[1]].txs[p[2]]

\* A transaction is confirmed at most once, though the pool keeps what peers
\* have confirmed, clients repeat themselves and a tick may be overtaken.
ConfirmedOnce == \A p, q \in Confirmed : TxAt(p).id = TxAt(q).id => p = q

\* No balance wraps around: the vesting rule of apply_block lets the founder
\* spend up to the vested total whatever is left, so this rests on what the
\* pool has admitted.
NoOverdraft == \A a \in Accounts : db.balances[a] <= Supply(InitialBalance)

\* Tokens are neither made nor lost, fees and capped rewards included.
SupplyConserved == Supply(db.balances) = Supply(InitialBalance)

\* The pool exceeds its limit at most by the requests that were admitted before
\* any of them inserted.
MempoolBounded == Cardinality(mempool) <= MaxSize + Cardinality(Clients) - 1

\* Every tick of the producer ends in a block.
TickAppends ==
    [][producer.step = "apply" /\ producer'.step # "apply"
         => db'.tip_height = db.tip_height + 1]_vars

\* A transaction leaves the pool because the chain has confirmed it or because it
\* is old, never because a tick failed or was overtaken.  Transactions stamped in
\* seconds look old from the start and are excepted.
PoolKeepsUnconfirmed ==
    [][\A tx \in mempool : (\A m \in mempool' : m.id # tx.id) =>
         \/ tx.id \in db.txs
         \/ clock - tx.created >= MaxAge
         \/ tx.timestamp # tx.created]_vars

\* Balances are u64 that never wrapped, and together they are the initial supply,
\* through every block the producer or a peer gets past apply_block.
TokensConserved ==
    /\ TypeOK
    /\ NoOverdraft
    /\ SupplyConserved

=============================================================================
