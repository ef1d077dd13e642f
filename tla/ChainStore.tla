----------------------------- MODULE ChainStore -----------------------------
(***************************************************************************)
(* Store::apply_block, one sled operation at a time.  The block producer   *)
(* and every peer connection call it from tasks of their own, and it takes *)
(* no lock.  Between its first read and its flush other calls may run and  *)
(* the process may stop; what sled had not flushed is then lost from the   *)
(* end of its log.                                                         *)
(***************************************************************************)
EXTENDS ChainRules

CONSTANTS
    Threads,     \* tasks that call apply_block
    Candidates,  \* blocks they call it with
    MaxStoreCrashes \* bound: crashes in a behaviour

\* Blocks are well formed and their hashes tell them apart, from the genesis block
\* too.  u64 fields are naturals; a validator may be GENESIS, which earns no fee.
ASSUME StoreAssumption ==
    /\ MaxStoreCrashes \in Nat
    /\ NoBlock \notin Candidates
    /\ \A b \in Candidates :
         /\ b.height \in 1..MaxHeight
         /\ b.hash # genesis_hash
         /\ b.validator \in Accounts \cup {GENESIS}
         /\ Len(b.txs) \in Nat
         /\ \A i \in 1..Len(b.txs) :
              /\ b.txs[i].from \in Accounts \cup {GENESIS}
              /\ b.txs[i].to \in Accounts
              /\ b.txs[i].amount \in Nat
              /\ b.txs[i].fee \in Nat
    /\ \A b, c \in Candidates : b.hash = c.hash => b = c

VARIABLES
    trees,       \* the store as the running process sees it
    recoverable, \* the trees a crash may leave: one per write since the last flush
    at,          \* at[t]: "idle", "hash", "validate", "write"
    block,       \* block[t]: the block t is applying
    pos,         \* pos[t]: the next operation of the write pass
    reg,         \* reg[t]: the value t has read for that operation
    storeCrashes

storeVars == <<trees, recoverable, at, block, pos, reg, storeCrashes>>

\* No value has been read for the current operation.
Unread == -1

StoreInit ==
    /\ trees = GenesisDb
    /\ recoverable = {GenesisDb}
    /\ at = [t \in Threads |-> "idle"]
    /\ block = [t \in Threads |-> NoBlock]
    /\ pos = [t \in Threads |-> 1]
    /\ reg = [t \in Threads |-> Unread]
    /\ storeCrashes = 0

\* Mutant of Return: the next write pass would start before its first operation.
ReturnBeforeFirst(t) ==
    /\ at' = [at EXCEPT ![t] = "idle"]
    /\ block' = [block EXCEPT ![t] = NoBlock]
    /\ pos' = [pos EXCEPT ![t] = 0]

\* apply_block returns, with an error or after its flush.
Return(t) ==
    /\ at' = [at EXCEPT ![t] = "idle"]
    /\ block' = [block EXCEPT ![t] = NoBlock]
    /\ pos' = [pos EXCEPT ![t] = 1]

\* The height check; a block of another height is rejected at once.
CheckHeight(t) ==
    /\ at[t] = "idle"
    /\ \E b \in Candidates :
         /\ b.height = trees.tip_height + 1
         /\ block' = [block EXCEPT ![t] = b]
    /\ at' = [at EXCEPT ![t] = "hash"]
    /\ UNCHANGED <<trees, recoverable, pos, reg, storeCrashes>>

\* Mutant of CheckHash: any block of the next height goes on.
CheckHashSkipped(t) ==
    /\ at[t] = "hash"
    /\ at' = [at EXCEPT ![t] = "validate"]
    /\ UNCHANGED <<trees, recoverable, block, pos, reg, storeCrashes>>

CheckHash(t) ==
    /\ at[t] = "hash"
    /\ IF block[t].prev_hash = trees.tip_hash
       THEN at' = [at EXCEPT ![t] = "validate"] /\ UNCHANGED <<block, pos>>
       ELSE Return(t)
    /\ UNCHANGED <<trees, recoverable, reg, storeCrashes>>

Validate(t) ==
    /\ at[t] = "validate"
    /\ IF Valid(trees, block[t])
       THEN at' = [at EXCEPT ![t] = "write"] /\ UNCHANGED <<block, pos>>
       ELSE Return(t)
    /\ UNCHANGED <<trees, recoverable, reg, storeCrashes>>

\* The next operation of the write pass.
CurrentOp(t) == WriteOps(block[t])[pos[t]]

Writing(t) == at[t] = "write" /\ pos[t] <= Len(WriteOps(block[t]))

\* get_balance or get_nonce of a read-modify-write.
Read(t) ==
    /\ Writing(t)
    /\ CurrentOp(t).kind # "put"
    /\ reg[t] = Unread
    /\ reg' = [reg EXCEPT ![t] = Get(trees, CurrentOp(t))]
    /\ UNCHANGED <<trees, recoverable, at, block, pos, storeCrashes>>

\* set_balance_raw, set_nonce_raw or an insert.
Write(t) ==
    /\ Writing(t)
    /\ CurrentOp(t).kind = "put" \/ reg[t] # Unread
    /\ trees' = Set(trees, CurrentOp(t),
                    IF CurrentOp(t).kind = "put" THEN CurrentOp(t).arg
                                                 ELSE Value(CurrentOp(t), reg[t]))
    /\ recoverable' = recoverable \cup {trees'}
    /\ pos' = [pos EXCEPT ![t] = @ + 1]
    /\ reg' = [reg EXCEPT ![t] = Unread]
    /\ UNCHANGED <<at, block, storeCrashes>>

FlushBlock(t) ==
    /\ at[t] = "write"
    /\ ~Writing(t)
    /\ recoverable' = {trees}
    /\ Return(t)
    /\ UNCHANGED <<trees, reg, storeCrashes>>

\* The process stops and is started again on what is on disk.
CrashAndRestart ==
    /\ storeCrashes < MaxStoreCrashes
    /\ storeCrashes' = storeCrashes + 1
    /\ \E d \in recoverable : trees' = d /\ recoverable' = {d}
    /\ at' = [t \in Threads |-> "idle"]
    /\ block' = [t \in Threads |-> NoBlock]
    /\ pos' = [t \in Threads |-> 1]
    /\ reg' = [t \in Threads |-> Unread]

StoreNext ==
    \/ \E t \in Threads : CheckHeight(t) \/ CheckHash(t) \/ Validate(t)
                          \/ Read(t) \/ Write(t) \/ FlushBlock(t)
    \/ CrashAndRestart

StoreSpec == StoreInit /\ [][StoreNext]_storeVars

-----------------------------------------------------------------------------
(* Properties.                                                             *)

AllIdle == \A t \in Threads : at[t] = "idle"

StoreTypeOK ==
    /\ trees \in recoverable
    /\ \A d \in recoverable :
         /\ d.tip_height \in 0..MaxHeight
         /\ d.balances \in [Accounts -> 0..(U64Modulus - 1)]
         /\ d.nonces \in [Accounts -> Nat]
         /\ \A h \in 1..MaxHeight : d.blocks[h] \in Candidates \cup {NoBlock}
    /\ at \in [Threads -> {"idle", "hash", "validate", "write"}]
    /\ block \in [Threads -> Candidates \cup {NoBlock}]
    /\ pos \in [Threads -> Nat \ {0}]
    /\ reg \in [Threads -> Int]

\* The block the tip hash names is stored, the tip height has reached it and its
\* transactions are indexed, in whatever state a crash leaves the trees: the
\* write pass moves the tip last.
TipIsStored ==
    \A d \in recoverable : \A b \in Candidates : d.tip_hash = b.hash =>
        /\ d.blocks[b.height] = b
        /\ d.tip_height >= b.height
        /\ \A i \in 1..Len(b.txs) : b.txs[i].id \in d.txs

\* Between calls the trees are exactly what the stored blocks give when they are
\* applied one after the other: each call commits its block as a whole or not at
\* all.
CommitAtomic ==
    AllIdle =>
        LET r == Replay(trees, trees.tip_height) IN
        /\ \A h \in 1..trees.tip_height :
             /\ trees.blocks[h] # NoBlock
             /\ trees.blocks[h].prev_hash = IF h = 1 THEN genesis_hash ELSE trees.blocks[h - 1].hash
        /\ trees.tip_hash = r.tip_hash
        /\ trees.balances = r.balances
        /\ trees.nonces = r.nonces
        /\ trees.txs = r.txs

\* A process that has not crashed commits each block as a whole: the height, hash
\* and transaction checks together keep a block off a chain it was not built for.
AtomicWithoutCrash == storeCrashes = 0 => CommitAtomic

\* Between calls no token has appeared or vanished.
StoreSupplyConserved == AllIdle => Supply(trees.balances) = Supply(InitialBalance)

\* The trees are sound: they have their types, the tip names a stored block in
\* whatever state a crash leaves them, and a process that has not crashed has
\* exactly what replaying its blocks gives.
StoreSound ==
    /\ StoreTypeOK
    /\ TipIsStored
    /\ AtomicWithoutCrash

=============================================================================
