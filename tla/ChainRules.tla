----------------------------- MODULE ChainRules -----------------------------
(***************************************************************************)
(* What Store::apply_block (store.rs) checks of a block and what it        *)
(* writes, as operators on the key-value state: the validation pass, and   *)
(* the write pass as the sequence of single-key operations the code makes. *)
(* ChainStore runs those operations one at a time; ChainNode applies the   *)
(* whole sequence.                                                         *)
(***************************************************************************)
EXTENDS Integers, Sequences, FiniteSets, Functions, FiniteSetsExt, SequencesExt

CONSTANTS
    Accounts,        \* addresses with a balance, validators and pool included
    Pool,            \* NODE_OPS_POOL_ADDRESS, which nobody signs for
    Founder,         \* FOUNDER_ADDRESS, whose spendable balance is vested
    FounderTotal,    \* FounderTotal[t]: founder_total_balance at timestamp t
    InitialBalance,  \* what write_genesis mints
    MaxHeight,       \* bound: the height of the chain
    U64Modulus       \* 2^64, scaled down: where release arithmetic wraps

ASSUME RulesAssumption ==
    /\ Pool \in Accounts
    /\ "GENESIS" \notin Accounts
    /\ InitialBalance \in [Accounts -> Nat]
    /\ MaxHeight \in Nat
    /\ U64Modulus \in Nat \ {0}

\* A transaction's `from` may also be GENESIS, which is no account.
GENESIS == "GENESIS"

\* No block is stored under a height.
NoBlock == [hash |-> "none"]

genesis_hash == "genesis"

\* The trees of the store, after write_genesis.
GenesisDb ==
    [tip_height |-> 0,
     tip_hash   |-> genesis_hash,
     blocks     |-> [h \in 1..MaxHeight |-> NoBlock],
     balances   |-> InitialBalance,
     nonces     |-> [a \in Accounts |-> 0],
     txs        |-> {}]

-----------------------------------------------------------------------------
(* The validation pass.                                                    *)

\* GENESIS and the consensus pools sign nothing and have no nonce.
IsUserTx(tx) == tx.from \notin {GENESIS, Pool}

Cost(tx) == tx.amount + tx.fee

spendable_balance(db, tx) ==
    IF tx.from = Founder THEN FounderTotal[tx.timestamp] ELSE db.balances[tx.from]

\* What earlier transactions of the same block by the same sender cost.
already_spent(txs, i) ==
    FoldLeft(LAMBDA sum, j : sum + Cost(txs[j]), 0,
             SelectSeq([j \in 1..(i - 1) |-> j], LAMBDA j : txs[j].from = txs[i].from))

expected_nonce(db, txs, i) ==
    db.nonces[txs[i].from] + Cardinality({j \in 1..(i - 1) : txs[j].from = txs[i].from})

\* Mutant of Valid: a nonce that has been used is still good.
ValidOldNonce(db, b) ==
    \A i \in 1..Len(b.txs) : IsUserTx(b.txs[i]) =>
        /\ b.txs[i].nonce <= expected_nonce(db, b.txs, i)
        /\ spendable_balance(db, b.txs[i]) >= already_spent(b.txs, i) + Cost(b.txs[i])

Valid(db, b) ==
    \A i \in 1..Len(b.txs) : IsUserTx(b.txs[i]) =>
        /\ b.txs[i].nonce = expected_nonce(db, b.txs, i)
        /\ spendable_balance(db, b.txs[i]) >= already_spent(b.txs, i) + Cost(b.txs[i])

-----------------------------------------------------------------------------
(* The write pass.  An operation reads the value under a key and writes    *)
(* what Value says, or just writes.                                        *)

Op(tree, key, kind, arg) == [tree |-> tree, key |-> key, kind |-> kind, arg |-> arg]

\* u64 arithmetic of a release build: + and - wrap, saturating_sub stops at 0.
Value(op, current) ==
    CASE op.kind = "credit" -> (current + op.arg) % U64Modulus
      [] op.kind = "debit"  -> (current - op.arg) % U64Modulus
      [] op.kind = "drain"  -> IF current < op.arg THEN 0 ELSE current - op.arg
      [] op.kind = "put"    -> op.arg

\* Mutant of TxOps: the validator's credit for the fee is left out.
TxOpsNoFee(b, tx) ==
    CASE tx.from = GENESIS ->
           <<Op("balances", tx.to, "credit", tx.amount), Op("txs", tx.id, "put", tx)>>
      [] tx.from = Pool ->
           <<Op("balances", tx.from, "drain", tx.amount),
             Op("balances", tx.to, "credit", tx.amount), Op("txs", tx.id, "put", tx)>>
      [] OTHER ->
           <<Op("balances", tx.from, "debit", Cost(tx)), Op("nonces", tx.from, "credit", 1),
             Op("balances", tx.to, "credit", tx.amount), Op("txs", tx.id, "put", tx)>>

TxOps(b, tx) ==
    CASE tx.from = GENESIS ->
           <<Op("balances", tx.to, "credit", tx.amount), Op("txs", tx.id, "put", tx)>>
      [] tx.from = Pool ->
           <<Op("balances", tx.from, "drain", tx.amount),
             Op("balances", tx.to, "credit", tx.amount), Op("txs", tx.id, "put", tx)>>
      [] OTHER ->
           <<Op("balances", tx.from, "debit", Cost(tx)), Op("nonces", tx.from, "credit", 1)>>
           \o (IF tx.fee > 0 /\ b.validator # GENESIS
               THEN <<Op("balances", b.validator, "credit", tx.fee)>> ELSE <<>>)
           \o <<Op("balances", tx.to, "credit", tx.amount), Op("txs", tx.id, "put", tx)>>

\* Mutants of BlockOps: the tip height is that of the next block; the tip moves
\* before the block is stored.
BlockOpsNextHeight(b) ==
    <<Op("blocks", b.height, "put", b), Op("meta", "tip_height", "put", b.height + 1),
      Op("meta", "tip_hash", "put", b.hash)>>

BlockOpsTipFirst(b) ==
    <<Op("meta", "tip_height", "put", b.height), Op("meta", "tip_hash", "put", b.hash),
      Op("blocks", b.height, "put", b)>>

BlockOps(b) ==
    <<Op("blocks", b.height, "put", b), Op("meta", "tip_height", "put", b.height),
      Op("meta", "tip_hash", "put", b.hash)>>

WriteOps(b) == FlattenSeq([i \in 1..Len(b.txs) |-> TxOps(b, b.txs[i])]) \o BlockOps(b)

\* The value an operation reads before it writes.
Get(db, op) == IF op.tree = "balances" THEN db.balances[op.key] ELSE db.nonces[op.key]

\* The trees with v written under the operation's key.
Set(db, op, v) ==
    CASE op.tree = "balances" -> [db EXCEPT !.balances[op.key] = v]
      [] op.tree = "nonces"   -> [db EXCEPT !.nonces[op.key] = v]
      [] op.tree = "txs"      -> [db EXCEPT !.txs = @ \cup {op.key}]
      [] op.tree = "blocks"   -> [db EXCEPT !.blocks[op.key] = v]
      [] op.tree = "meta"     -> IF op.key = "tip_height"
                                 THEN [db EXCEPT !.tip_height = v]
                                 ELSE [db EXCEPT !.tip_hash = v]

RunOp(db, op) ==
    Set(db, op, IF op.kind = "put" THEN op.arg ELSE Value(op, Get(db, op)))

\* The operations run one after the other.
RunOps(db, ops) ==
    LET run[i \in 0..Len(ops)] == IF i = 0 THEN db ELSE RunOp(run[i - 1], ops[i])
    IN  run[Len(ops)]

\* The write pass run without interruption: transaction by transaction, then the
\* block and the tip.
Committed(db, b) ==
    LET after[i \in 0..Len(b.txs)] ==
            IF i = 0 THEN db ELSE RunOps(after[i - 1], TxOps(b, b.txs[i]))
    IN  RunOps(after[Len(b.txs)], BlockOps(b))

\* The guard of apply_block: the block extends the tip and its transactions are
\* valid.
Accepts(db, b) ==
    /\ b.height = db.tip_height + 1
    /\ b.prev_hash = db.tip_hash
    /\ Valid(db, b)

-----------------------------------------------------------------------------
(* What the properties compare with.                                       *)

\* The sum of all balances.
Supply(balances) == SumFunctionOnSet(balances, Accounts)

\* What write_genesis mints, TOTAL_SUPPLY, fits a u64.
ASSUME SupplyAssumption ==
    /\ IsFiniteSet(Accounts)
    /\ Supply(InitialBalance) < U64Modulus

\* The state that applying the stored blocks 1..h one after the other gives.
Replay(db, h) ==
    LET replay[i \in 0..h] ==
            IF i = 0 THEN GenesisDb ELSE Committed(replay[i - 1], db.blocks[i])
    IN  replay[h]

=============================================================================
