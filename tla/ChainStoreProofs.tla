-------------------------- MODULE ChainStoreProofs --------------------------
(***************************************************************************)
(* Proofs about ChainStore: while one task calls Store::apply_block, the   *)
(* store stays sound whatever a crash leaves of its write passes.  What    *)
(* single operations and whole blocks do to the trees comes from           *)
(* ChainNodeProofs.                                                        *)
(***************************************************************************)
EXTENDS ChainStore, ChainNodeProofs

\* Two write passes that start with the same operations go through the same trees.
LEMMA RunAgree ==
    ASSUME NEW d0, NEW p, NEW q, NEW n \in Nat, NEW m \in Nat, n <= m,
           \A i \in 1..n : p[i] = q[i],
           NEW r1, RunChain(r1, d0, p, n), NEW r2, RunChain(r2, d0, q, m)
    PROVE  \A i \in 0..n : r1[i] = r2[i]
<1> DEFINE Good == {i \in 0..n : r1[i] = r2[i]}
<1>1. 0 \in Good
    BY DEF RunChain
<1>2. ASSUME NEW i \in 0..(n - 1), i \in Good PROVE i + 1 \in Good
  <2>1. i + 1 \in 0..n /\ i + 1 \in 0..m /\ i + 1 # 0 /\ (i + 1) - 1 = i /\ i + 1 \in 1..n
    OBVIOUS
  <2>2. r1[i + 1] = RunOp(r1[i], p[i + 1])
    BY <2>1 DEF RunChain
  <2>3. r2[i + 1] = RunOp(r2[i], q[i + 1])
    BY <2>1 DEF RunChain
  <2>4. r1[i] = r2[i] /\ p[i + 1] = q[i + 1]
    BY <1>2, <2>1
  <2>5. QED
    BY <2>1, <2>2, <2>3, <2>4
<1> HIDE DEF Good
<1>3. 0..n \subseteq Good
    BY <1>1, <1>2, Reaches
<1>4. QED
    BY <1>3 DEF Good

\* RunOps is the end of any such pass.
LEMMA RunOpsEnd ==
    ASSUME NEW d0, NEW ops, Len(ops) \in Nat, NEW run, RunChain(run, d0, ops, Len(ops))
    PROVE  RunOps(d0, ops) = run[Len(ops)]
<1>1. PICK n \in Nat : n = Len(ops)
    OBVIOUS
<1>2. PICK r : RunChain(r, d0, ops, n) /\ RunOps(d0, ops) = r[n]
    BY <1>1, RunOpsIs
<1>3. \A i \in 0..n : run[i] = r[i]
  <2>1. RunChain(run, d0, ops, n) /\ n <= n
    BY <1>1
  <2>2. QED
    BY <2>1, <1>2, RunAgree
<1>4. QED
    BY <1>1, <1>2, <1>3

\* Operations in two parts: the second goes on from where the first ends.
LEMMA RunConcat ==
    ASSUME NEW S, NEW s \in Seq(S), NEW t \in Seq(S), NEW d
    PROVE  RunOps(d, s \o t) = RunOps(RunOps(d, s), t)
<1>1. PICK n \in Nat, m \in Nat : n = Len(s) /\ m = Len(t)
    OBVIOUS
<1>2. PICK u : u = s \o t
    OBVIOUS
<1>3. /\ u \in Seq(S) /\ Len(u) = n + m
      /\ \A i \in 1..(n + m) : u[i] = IF i <= n THEN s[i] ELSE t[i - n]
    BY <1>1, <1>2, ConcatProperties
<1>k. PICK k \in Nat : k = n + m
    OBVIOUS
<1>4. PICK run : RunChain(run, d, u, k)
    BY RunChainExists
<1>5. PICK r1 : RunChain(r1, d, s, n) /\ RunOps(d, s) = r1[n]
    BY <1>1, RunOpsIs
<1>6. PICK e : e = RunOps(d, s)
    OBVIOUS
<1>7. PICK r2 : RunChain(r2, e, t, m) /\ RunOps(e, t) = r2[m]
    BY <1>1, RunOpsIs
<1>8. run[n] = e
  <2>1. \A i \in 1..n : i \in 1..(n + m) /\ s[i] = u[i]
    BY <1>3
  <2>2. r1[0] = d /\ \A i \in 1..n : r1[i] = RunOp(r1[i - 1], s[i])
    BY <1>5 DEF RunChain
  <2>3. run[0] = d /\ \A i \in 1..n : run[i] = RunOp(run[i - 1], u[i])
    BY <1>k, <1>4 DEF RunChain
  <2> DEFINE Same == {i \in 0..n : r1[i] = run[i]}
  <2>4. 0 \in Same
    BY <2>2, <2>3
  <2>5. ASSUME NEW i \in 0..(n - 1), i \in Same PROVE i + 1 \in Same
    <3>1. i + 1 \in 1..n /\ (i + 1) - 1 = i /\ i + 1 \in 0..n /\ r1[i] = run[i]
      BY <2>5
    <3>2. r1[i + 1] = RunOp(r1[i], s[i + 1]) /\ run[i + 1] = RunOp(run[i], u[i + 1])
      BY <3>1, <2>2, <2>3
    <3>3. QED
      BY <3>1, <3>2, <2>1
  <2> HIDE DEF Same
  <2>6. 0..n \subseteq Same
    BY <2>4, <2>5, Reaches
  <2>7. QED
    BY <2>6, <1>5, <1>6 DEF Same
<1> DEFINE Good == {j \in 0..m : run[n + j] = r2[j]}
<1>9. 0 \in Good
  <2>1. r2[0] = e
    BY <1>7 DEF RunChain
  <2>2. n + 0 = n
    OBVIOUS
  <2>3. QED
    BY <2>1, <2>2, <1>8
<1>10. ASSUME NEW j \in 0..(m - 1), j \in Good PROVE j + 1 \in Good
  <2>1. /\ j + 1 \in 0..m /\ (j + 1) - 1 = j /\ j + 1 # 0
        /\ n + (j + 1) \in 0..(n + m) /\ n + (j + 1) # 0 /\ (n + (j + 1)) - 1 = n + j
        /\ n + (j + 1) \in 1..(n + m) /\ ~(n + (j + 1) <= n) /\ (n + (j + 1)) - n = j + 1
    OBVIOUS
  <2>2. r2[j + 1] = RunOp(r2[j], t[j + 1])
    BY <2>1, <1>7 DEF RunChain
  <2>3. run[n + (j + 1)] = RunOp(run[n + j], u[n + (j + 1)])
    BY <2>1, <1>k, <1>4 DEF RunChain
  <2>4. u[n + (j + 1)] = t[j + 1]
    BY <2>1, <1>3
  <2>5. run[n + j] = r2[j]
    BY <1>10
  <2>6. QED
    BY <2>1, <2>2, <2>3, <2>4, <2>5
<1> HIDE DEF Good
<1>11. 0..m \subseteq Good
    BY <1>9, <1>10, Reaches
<1>12. run[n + m] = r2[m]
    BY <1>11 DEF Good
<1>13. RunOps(d, u) = run[n + m]
  <2>1. Len(u) = k
    BY <1>k, <1>3
  <2>2. RunOps(d, u) = run[k]
    BY <2>1, <1>4, RunOpsEnd
  <2>3. QED
    BY <1>k, <2>2
<1>14. QED
    BY <1>2, <1>6, <1>7, <1>12, <1>13

-----------------------------------------------------------------------------
\* The operations a block's transactions may make.
TxOpOf(b) ==
    {Op("balances", a, k, x) : a \in Accounts, k \in {"credit", "debit", "drain"}, x \in Nat}
    \cup {Op("nonces", a, "credit", 1) : a \in Accounts}
    \cup {Op("txs", b.txs[i].id, "put", b.txs[i]) : i \in 1..Len(b.txs)}

\* A transaction's operations are among them, and the last one indexes it.
LEMMA TxOpsShape ==
    ASSUME NEW b \in Candidates, NEW i \in 1..Len(b.txs), NEW s, s = TxOps(b, b.txs[i])
    PROVE  /\ s \in Seq(TxOpOf(b)) /\ Len(s) \in Nat /\ Len(s) # 0
           /\ s[Len(s)] = Op("txs", b.txs[i].id, "put", b.txs[i])
<1>1. PICK tx : tx = b.txs[i]
    OBVIOUS
<1>2. /\ tx.from \in Accounts \cup {GENESIS} /\ tx.to \in Accounts
      /\ tx.amount \in Nat /\ tx.fee \in Nat /\ b.validator \in Accounts \cup {GENESIS}
    BY <1>1, StoreAssumption
<1>3. PICK S : S = TxOpOf(b)
    OBVIOUS
<1>p. PICK o1 : o1 = Op("balances", tx.from, "debit", Cost(tx))
    OBVIOUS
<1>q. PICK o2 : o2 = Op("nonces", tx.from, "credit", 1)
    OBVIOUS
<1>r. PICK o3 : o3 = Op("balances", b.validator, "credit", tx.fee)
    OBVIOUS
<1>s. PICK o4 : o4 = Op("balances", tx.to, "credit", tx.amount)
    OBVIOUS
<1>t. PICK o5 : o5 = Op("txs", tx.id, "put", tx)
    OBVIOUS
<1>u. PICK o6 : o6 = Op("balances", tx.from, "drain", tx.amount)
    OBVIOUS
<1>4. /\ tx.from # GENESIS => o1 \in S /\ o2 \in S /\ o6 \in S
      /\ b.validator # GENESIS => o3 \in S
      /\ o4 \in S /\ o5 \in S
  <2>1. Cost(tx) \in Nat
    BY <1>2 DEF Cost
  <2>2. tx.from # GENESIS => tx.from \in Accounts
    BY <1>2
  <2>3. b.validator # GENESIS => b.validator \in Accounts
    BY <1>2
  <2>4. \A a \in Accounts : \A k \in {"credit", "debit", "drain"} : \A x \in Nat :
            Op("balances", a, k, x) \in S
    BY <1>3 DEF TxOpOf
  <2>5. \A a \in Accounts : Op("nonces", a, "credit", 1) \in S
    BY <1>3 DEF TxOpOf
  <2>6. o5 \in S
    BY <1>1, <1>3, <1>t DEF TxOpOf
  <2>7. tx.from # GENESIS => o1 \in S /\ o6 \in S
    BY <2>1, <2>2, <2>4, <1>2, <1>p, <1>u
  <2>8. o4 \in S /\ (b.validator # GENESIS => o3 \in S)
    BY <2>3, <2>4, <1>2, <1>r, <1>s
  <2>9. QED
    BY <2>2, <2>5, <2>6, <2>7, <2>8, <1>q
<1>5. CASE tx.from = GENESIS
  <2>1. s = <<o4, o5>>
    BY <1>1, <1>5, <1>s, <1>t, PoolIsNotGenesis DEF TxOps
  <2>2. s \in Seq(S) /\ Len(s) = 2 /\ s[2] = o5
    BY <2>1, <1>4
  <2>3. QED
    BY <2>2, <1>1, <1>3, <1>t
<1>6. CASE tx.from = Pool
  <2>1. s = <<o6, o4, o5>> /\ tx.from # GENESIS
    BY <1>1, <1>6, <1>s, <1>t, <1>u, PoolIsNotGenesis DEF TxOps
  <2>2. QED
    BY <2>1, <1>1, <1>3, <1>4, <1>t
<1>7. CASE tx.from # GENESIS /\ tx.from # Pool
  <2>1. s = <<o1, o2>> \o (IF tx.fee > 0 /\ b.validator # GENESIS THEN <<o3>> ELSE <<>>)
              \o <<o4, o5>>
    BY <1>1, <1>7, <1>p, <1>q, <1>r, <1>s, <1>t DEF TxOps
  <2>2. CASE tx.fee > 0 /\ b.validator # GENESIS
    <3>1. s = <<o1, o2>> \o <<o3>> \o <<o4, o5>>
      BY <2>1, <2>2
    <3>2. s = <<o1, o2, o3, o4, o5>>
      BY <3>1, Between
    <3>3. QED
      BY <2>2, <3>2, <1>1, <1>3, <1>4, <1>7, <1>t
  <2>3. CASE ~(tx.fee > 0 /\ b.validator # GENESIS)
    <3>1. s = <<o1, o2>> \o <<>> \o <<o4, o5>>
      BY <2>1, <2>3
    <3>2. s = <<o1, o2, o4, o5>>
      BY <3>1, Between
    <3>3. QED
      BY <3>2, <1>1, <1>3, <1>4, <1>7, <1>t
  <2>4. QED
    BY <2>2, <2>3
<1>8. QED
    BY <1>5, <1>6, <1>7

\* The trees, with their types.
StoreOK(d) ==
    /\ DbOK(d)
    /\ d.tip_height \in 0..MaxHeight
    /\ \A a \in Accounts : d.balances[a] < U64Modulus
    /\ d.blocks \in [1..MaxHeight -> Candidates \cup {NoBlock}]

\* No value that is written to a balance exceeds a u64.
LEMMA ValueFits ==
    ASSUME NEW a, NEW k \in {"credit", "debit", "drain"}, NEW x \in Nat, NEW c \in Nat,
           c < U64Modulus
    PROVE  /\ Value(Op("balances", a, k, x), c) \in Nat
           /\ Value(Op("balances", a, k, x), c) < U64Modulus
<1>1. PICK op : op = Op("balances", a, k, x)
    OBVIOUS
<1>2. op.kind = k /\ op.arg = x
    BY <1>1 DEF Op
<1>3. U64Modulus \in Nat /\ U64Modulus > 0
    BY RulesAssumption
<1>4. CASE k = "credit"
  <2>1. Value(op, c) = (c + x) % U64Modulus
    BY <1>2, <1>4 DEF Value
  <2>2. PICK v \in Int : v = c + x
    OBVIOUS
  <2>3. v % U64Modulus \in Nat /\ v % U64Modulus < U64Modulus
    BY <1>3
  <2>4. QED
    BY <1>1, <2>1, <2>2, <2>3
<1>5. CASE k = "debit"
  <2>1. Value(op, c) = (c - x) % U64Modulus
    BY <1>2, <1>5 DEF Value
  <2>2. PICK v \in Int : v = c - x
    OBVIOUS
  <2>3. v % U64Modulus \in Nat /\ v % U64Modulus < U64Modulus
    BY <1>3
  <2>4. QED
    BY <1>1, <2>1, <2>2, <2>3
<1>6. CASE k = "drain"
  <2>1. Value(op, c) = IF c < x THEN 0 ELSE c - x
    BY <1>2, <1>6 DEF Value
  <2>2. QED
    BY <1>1, <1>3, <2>1
<1>7. QED
    BY <1>4, <1>5, <1>6

\* One operation of a transaction: the chain stays, the index grows.
LEMMA OneTxOp ==
    ASSUME NEW d, StoreOK(d), NEW b, NEW op \in TxOpOf(b), NEW e, e = RunOp(d, op)
    PROVE  StoreOK(e) /\ SameChain(e, d) /\ d.txs \subseteq e.txs
<1>1. DbOK(d)
    BY DEF StoreOK
<1>2. CASE \E a \in Accounts, k \in {"credit", "debit", "drain"}, x \in Nat :
              op = Op("balances", a, k, x)
  <2>1. PICK a \in Accounts, k \in {"credit", "debit", "drain"}, x \in Nat :
              op = Op("balances", a, k, x)
    BY <1>2
  <2>2. PICK c \in Nat : c = d.balances[a] /\ c < U64Modulus
    BY DEF StoreOK, DbOK
  <2>3. PICK v : v = Value(Op("balances", a, k, x), c)
    OBVIOUS
  <2>4. v \in Nat /\ v < U64Modulus
    BY <2>2, <2>3, ValueFits
  <2>5. /\ DbOK(e) /\ SameChain(e, d) /\ e.txs = d.txs
        /\ e.balances = [d.balances EXCEPT ![a] = v]
    <3>1. e = RunOp(d, Op("balances", a, k, x)) /\ k # "put"
      BY <2>1
    <3>2. v = Value(Op("balances", a, k, x), d.balances[a])
      BY <2>2, <2>3
    <3>3. QED
      BY <1>1, <2>4, <3>1, <3>2, BalanceOp
  <2>6. ASSUME NEW y \in Accounts PROVE e.balances[y] < U64Modulus
    <3>1. PICK f : f = d.balances
      OBVIOUS
    <3>2. f \in [Accounts -> Nat] /\ f[y] < U64Modulus
      BY <3>1 DEF StoreOK, DbOK
    <3>3. e.balances[y] = IF y = a THEN v ELSE f[y]
      BY <2>5, <3>1, <3>2
    <3>4. QED
      BY <2>4, <3>2, <3>3
  <2>7. QED
    BY <2>5, <2>6 DEF StoreOK, SameChain
<1>3. CASE \E a \in Accounts : op = Op("nonces", a, "credit", 1)
  <2>1. PICK a \in Accounts : op = Op("nonces", a, "credit", 1)
    BY <1>3
  <2>2. DbOK(e) /\ SameChain(e, d) /\ e.balances = d.balances /\ e.txs = d.txs
    <3>1. PICK o : o = Op("nonces", a, "credit", 1)
      OBVIOUS
    <3>2. e = RunOp(d, o)
      BY <2>1, <3>1
    <3>3. /\ DbOK(e) /\ SameChain(e, d) /\ e.balances = d.balances /\ e.txs = d.txs
          /\ e.nonces = [d.nonces EXCEPT ![a] = Wrap(d.nonces[a] + 1)]
      BY SMTT(30), <1>1, <3>1, <3>2, a \in Accounts, NonceOp
    <3>4. QED
      BY <3>3
  <2>3. QED
    BY <2>2 DEF StoreOK, SameChain
<1>4. CASE \E i \in 1..Len(b.txs) : op = Op("txs", b.txs[i].id, "put", b.txs[i])
  <2>1. PICK i \in 1..Len(b.txs) : op = Op("txs", b.txs[i].id, "put", b.txs[i])
    BY <1>4
  <2>2. PICK tx, id : tx = b.txs[i] /\ id = b.txs[i].id
    OBVIOUS
  <2>3. e = RunOp(d, Op("txs", id, "put", tx))
    BY <2>1, <2>2
  <2>4. DbOK(e) /\ SameChain(e, d) /\ e.balances = d.balances /\ e.txs = d.txs \cup {id}
    BY <1>1, <2>3, IndexOp
  <2>5. QED
    BY <2>4 DEF StoreOK, SameChain
<1>5. QED
    BY <1>2, <1>3, <1>4 DEF TxOpOf

\* The same for a run of them.
Indexing(run, d, n) ==
    \A k \in 0..n : StoreOK(run[k]) /\ SameChain(run[k], d) /\ d.txs \subseteq run[k].txs

LEMMA RunTxOps ==
    ASSUME NEW d, StoreOK(d), NEW b, NEW s \in Seq(TxOpOf(b)), NEW n \in Nat, n <= Len(s),
           NEW run, RunChain(run, d, s, n)
    PROVE  Indexing(run, d, n)
<1> DEFINE Good == {k \in 0..n : StoreOK(run[k]) /\ SameChain(run[k], d) /\ d.txs \subseteq run[k].txs}
<1>1. 0 \in Good
  <2>1. run[0] = d
    BY DEF RunChain
  <2>2. QED
    BY <2>1 DEF SameChain
<1>2. ASSUME NEW k \in 0..(n - 1), k \in Good PROVE k + 1 \in Good
  <2>1. k + 1 \in 0..n /\ k + 1 # 0 /\ (k + 1) - 1 = k /\ k + 1 \in 1..Len(s)
    OBVIOUS
  <2>2. run[k + 1] = RunOp(run[k], s[k + 1]) /\ s[k + 1] \in TxOpOf(b)
    BY <2>1 DEF RunChain
  <2>3. PICK c, e, op : c = run[k] /\ e = run[k + 1] /\ op = s[k + 1]
    OBVIOUS
  <2>4. StoreOK(c) /\ SameChain(c, d) /\ d.txs \subseteq c.txs
    BY <1>2, <2>3
  <2>5. StoreOK(e) /\ SameChain(e, c) /\ c.txs \subseteq e.txs
    BY <2>2, <2>3, <2>4, OneTxOp
  <2>6. StoreOK(e) /\ SameChain(e, d) /\ d.txs \subseteq e.txs
    BY <2>4, <2>5 DEF SameChain
  <2>7. QED
    BY <2>1, <2>3, <2>6
<1> HIDE DEF Good
<1>3. 0..n \subseteq Good
    BY <1>1, <1>2, Reaches
<1>4. QED
    BY <1>3 DEF Good, Indexing

\* One transaction: its id is indexed.
LEMMA OneTx ==
    ASSUME NEW d, StoreOK(d), NEW b \in Candidates, NEW i \in 1..Len(b.txs),
           NEW e, e = RunOps(d, TxOps(b, b.txs[i]))
    PROVE  StoreOK(e) /\ SameChain(e, d) /\ d.txs \subseteq e.txs /\ b.txs[i].id \in e.txs
<1>1. PICK s : s = TxOps(b, b.txs[i])
    OBVIOUS
<1>2. PICK tx : tx = b.txs[i]
    OBVIOUS
<1>3. /\ s \in Seq(TxOpOf(b)) /\ Len(s) \in Nat /\ Len(s) # 0
      /\ s[Len(s)] = Op("txs", tx.id, "put", tx)
    BY <1>1, <1>2, TxOpsShape
<1>4. PICK n \in Nat : n = Len(s) /\ n # 0
    BY <1>3
<1>5. PICK run : RunChain(run, d, s, n) /\ e = run[n]
    BY <1>1, <1>4, RunOpsIs
<1>6. \A k \in 0..n : StoreOK(run[k]) /\ SameChain(run[k], d) /\ d.txs \subseteq run[k].txs
  <2>1. Indexing(run, d, n)
    BY <1>3, <1>4, <1>5, RunTxOps
  <2>2. QED
    BY <2>1 DEF Indexing
<1>7. run[n] = RunOp(run[n - 1], s[n]) /\ n - 1 \in 0..n
  <2>1. n \in 0..n /\ n # 0 /\ n - 1 \in 0..n
    BY <1>4
  <2>2. run[n] = IF n = 0 THEN d ELSE RunOp(run[n - 1], s[n])
    BY ONLY <1>5, <2>1 DEF RunChain
  <2>3. QED
    BY <2>1, <2>2
<1>8. PICK c : c = run[n - 1]
    OBVIOUS
<1>9. DbOK(c) /\ e = RunOp(c, Op("txs", tx.id, "put", tx))
    BY <1>3, <1>4, <1>5, <1>6, <1>7, <1>8 DEF StoreOK
<1>10. e.txs = c.txs \cup {tx.id}
  <2>1. PICK id : id = tx.id
    OBVIOUS
  <2>2. QED
    BY <1>9, <2>1, IndexOp
<1>11. QED
    BY <1>2, <1>4, <1>5, <1>6, <1>10

\* The write pass of a block: the operations of its transactions, then those of the
\* block.  Run one after the other they give what Committed says.
LEMMA WritePass ==
    ASSUME NEW b \in Candidates
    PROVE  \E f \in Seq(TxOpOf(b)) :
              /\ WriteOps(b) = f \o BlockOps(b)
              /\ \A d : StoreOK(d) =>
                    /\ Committed(d, b) = RunOps(RunOps(d, f), BlockOps(b))
                    /\ \A i \in 1..Len(b.txs) : b.txs[i].id \in RunOps(d, f).txs
<1>1. PICK n \in Nat : n = Len(b.txs)
    BY StoreAssumption
<1>2. PICK seqs : seqs = [i \in 1..Len(b.txs) |-> TxOps(b, b.txs[i])]
    OBVIOUS
<1>3. Len(seqs) = n /\ \A i \in 1..n : seqs[i] = TxOps(b, b.txs[i])
    BY <1>1, <1>2
<1>S. PICK S : S = TxOpOf(b)
    OBVIOUS
<1>4. \A i \in 1..n : seqs[i] \in Seq(S)
    BY <1>1, <1>3, <1>S, TxOpsShape
<1>5. WriteOps(b) = FlattenSeq(seqs) \o BlockOps(b)
    BY <1>2 DEF WriteOps
<1>6. CASE n = 0
  <2>1. PICK f : f = FlattenSeq(seqs)
    OBVIOUS
  <2>2. f = seqs
    BY <1>3, <1>6, <2>1 DEF FlattenSeq
  <2>3. f = <<>>
    <3>1. seqs \in Seq({TxOps(b, b.txs[i]) : i \in 1..Len(b.txs)}) /\ Len(seqs) = 0
      BY <1>1, <1>2, <1>3, <1>6
    <3>2. QED
      BY <2>2, <3>1, EmptySeq
  <2>4. f \in Seq(S) /\ Len(f) = 0
    BY <2>3
  <2>5. ASSUME NEW d PROVE Committed(d, b) = RunOps(RunOps(d, f), BlockOps(b))
    <3>1. PICK after : TxChain(after, d, b, n) /\ Committed(d, b) = RunOps(after[n], BlockOps(b))
      BY <1>1, CommittedIs
    <3>2. after[n] = d
      <4>1. 0 \in 0..n
        OBVIOUS
      <4>2. after[0] = d
        BY ONLY <3>1, <4>1 DEF TxChain
      <4>3. QED
        BY <1>6, <4>2
    <3>3. PICK run : RunChain(run, d, f, 0) /\ RunOps(d, f) = run[0]
      <4>1. PICK m : m = Len(f)
        OBVIOUS
      <4>2. m = 0 /\ m \in Nat
        BY <2>4, <4>1
      <4>3. PICK run : RunChain(run, d, f, m) /\ RunOps(d, f) = run[m]
        BY ONLY <4>1, <4>2, RunOpsIs
      <4>4. QED
        BY <4>2, <4>3
    <3>4. run[0] = d
      <4>1. 0 \in 0..0
        OBVIOUS
      <4>2. QED
        BY ONLY <3>3, <4>1 DEF RunChain
    <3>5. QED
      BY <3>1, <3>2, <3>3, <3>4
  <2>6. \A i \in 1..Len(b.txs) : FALSE
    BY <1>1, <1>6
  <2>7. /\ WriteOps(b) = f \o BlockOps(b) /\ f \in Seq(TxOpOf(b))
        /\ \A d : StoreOK(d) =>
              /\ Committed(d, b) = RunOps(RunOps(d, f), BlockOps(b))
              /\ \A i \in 1..Len(b.txs) : b.txs[i].id \in RunOps(d, f).txs
    BY <1>5, <1>S, <2>1, <2>4, <2>5, <2>6
  <2>8. QED
    BY ONLY <2>7
<1>7. CASE n # 0
  <2>1. PICK fl : Flattened(fl, seqs, n) /\ FlattenSeq(seqs) = fl[n]
    BY <1>3, <1>7, FlattenIs
  <2>2. \A i \in 1..n : fl[i] \in Seq(S)
    BY <1>4, <2>1, FlattenedSeq
  <2>3. /\ fl[1] = seqs[1]
        /\ \A i \in 1..(n - 1) : fl[i + 1] = fl[i] \o seqs[i + 1]
    <3>1. 1 \in 1..n
      BY <1>7
    <3>2. fl[1] = seqs[1]
      BY <2>1, <3>1 DEF Flattened
    <3>3. ASSUME NEW i \in 1..(n - 1) PROVE fl[i + 1] = fl[i] \o seqs[i + 1]
      <4>1. i + 1 \in 1..n /\ i + 1 # 1 /\ (i + 1) - 1 = i
        OBVIOUS
      <4>2. fl[i + 1] = IF i + 1 = 1 THEN seqs[i + 1] ELSE fl[(i + 1) - 1] \o seqs[i + 1]
        BY <2>1, <4>1 DEF Flattened
      <4>3. QED
        BY <4>1, <4>2
    <3>4. QED
      BY <3>2, <3>3
  <2>4. ASSUME NEW d, StoreOK(d)
        PROVE  /\ Committed(d, b) = RunOps(RunOps(d, fl[n]), BlockOps(b))
               /\ \A i \in 1..Len(b.txs) : b.txs[i].id \in RunOps(d, fl[n]).txs
    <3>1. PICK after : TxChain(after, d, b, n) /\ Committed(d, b) = RunOps(after[n], BlockOps(b))
      BY <1>1, CommittedIs
    <3>2. after[0] = d /\ \A i \in 0..(n - 1) : after[i + 1] = RunOps(after[i], TxOps(b, b.txs[i + 1]))
      BY <3>1 DEF TxChain
    <3> DEFINE Good == {i \in 0..n :
                  /\ StoreOK(after[i])
                  /\ i # 0 => after[i] = RunOps(d, fl[i])
                  /\ \A j \in 1..i : b.txs[j].id \in after[i].txs}
    <3>3. 0 \in Good
      BY <2>4, <3>2
    <3>4. ASSUME NEW i \in 0..(n - 1), i \in Good PROVE i + 1 \in Good
      <4>1. i + 1 \in 1..n /\ i + 1 \in 1..Len(b.txs) /\ i + 1 \in 0..n
        BY <1>1
      <4>2. PICK c, e : c = after[i] /\ e = after[i + 1]
        OBVIOUS
      <4>3. StoreOK(c) /\ e = RunOps(c, TxOps(b, b.txs[i + 1]))
        BY <3>2, <3>4, <4>2
      <4>4. StoreOK(e) /\ c.txs \subseteq e.txs /\ b.txs[i + 1].id \in e.txs
        BY <4>1, <4>3, OneTx
      <4>5. \A j \in 1..(i + 1) : b.txs[j].id \in e.txs
        <5>1. \A j \in 1..i : b.txs[j].id \in c.txs
          BY <3>4, <4>2
        <5>2. \A j \in 1..(i + 1) : j \in 1..i \/ j = i + 1
          OBVIOUS
        <5>3. QED
          BY <4>4, <5>1, <5>2
      <4>6. e = RunOps(d, fl[i + 1])
        <5>1. seqs[i + 1] = TxOps(b, b.txs[i + 1]) /\ seqs[i + 1] \in Seq(S)
          BY <1>3, <1>4, <4>1
        <5>2. CASE i = 0
          <6>1. fl[i + 1] = seqs[i + 1] /\ c = d
            BY <2>3, <3>2, <4>2, <5>2
          <6>2. QED
            BY <4>3, <5>1, <6>1
        <5>3. CASE i # 0
          <6>1. i \in 1..n /\ i \in 1..(n - 1)
            BY <5>3
          <6>2. fl[i] \in Seq(S) /\ fl[i + 1] = fl[i] \o seqs[i + 1]
            BY <2>2, <2>3, <6>1
          <6>3. c = RunOps(d, fl[i])
            BY <3>4, <4>2, <5>3
          <6>4. PICK p, q : p = fl[i] /\ q = seqs[i + 1]
            OBVIOUS
          <6>5. p \in Seq(S) /\ q \in Seq(S)
            BY <5>1, <6>2, <6>4
          <6>6. RunOps(d, p \o q) = RunOps(RunOps(d, p), q)
            BY <6>5, RunConcat
          <6>7. QED
            BY <4>3, <5>1, <6>2, <6>3, <6>4, <6>6
        <5>4. QED
          BY <5>2, <5>3
      <4>7. QED
        BY <4>1, <4>2, <4>4, <4>5, <4>6
    <3> HIDE DEF Good
    <3>5. 0..n \subseteq Good
      BY <3>3, <3>4, Reaches
    <3>6. /\ after[n] = RunOps(d, fl[n])
          /\ \A j \in 1..n : b.txs[j].id \in after[n].txs
      BY <1>7, <3>5 DEF Good
    <3>7. QED
      BY <1>1, <3>1, <3>6
  <2>5. fl[n] \in Seq(S)
    BY <1>7, <2>2
  <2>6. WriteOps(b) = fl[n] \o BlockOps(b)
    BY <1>5, <2>1
  <2>7. QED
    BY <1>S, <2>4, <2>5, <2>6
<1>8. QED
    BY <1>6, <1>7

\* The three operations that end a write pass.
LEMMA PutBlock ==
    ASSUME NEW d, StoreOK(d), NEW b \in Candidates,
           NEW e, e = RunOp(d, Op("blocks", b.height, "put", b))
    PROVE  /\ StoreOK(e) /\ e.tip_height = d.tip_height /\ e.tip_hash = d.tip_hash
           /\ e.txs = d.txs /\ e.blocks = [d.blocks EXCEPT ![b.height] = b]
<1>1. PICK o : o = Op("blocks", b.height, "put", b)
    OBVIOUS
<1>2. o.tree = "blocks" /\ o.key = b.height /\ o.kind = "put" /\ o.arg = b
    BY <1>1 DEF Op
<1>3. e = Set(d, o, b)
    BY <1>1, <1>2 DEF RunOp
<1>4. e = [d EXCEPT !.blocks[b.height] = b]
    BY <1>2, <1>3 DEF Set
<1>5. PICK f : f = [d.blocks EXCEPT ![b.height] = b]
    OBVIOUS
<1>6. e = [d EXCEPT !.blocks = f]
    BY <1>4, <1>5
<1>7. d = [tip_height |-> d.tip_height, tip_hash |-> d.tip_hash, blocks |-> d.blocks,
           balances |-> d.balances, nonces |-> d.nonces, txs |-> d.txs]
    BY DEF StoreOK, DbOK
<1>8. e = [tip_height |-> d.tip_height, tip_hash |-> d.tip_hash, blocks |-> f,
           balances |-> d.balances, nonces |-> d.nonces, txs |-> d.txs]
    BY <1>6, <1>7
<1>9. f \in [1..MaxHeight -> Candidates \cup {NoBlock}]
    BY <1>5, StoreAssumption DEF StoreOK
<1>10. DbOK(e)
    BY <1>8 DEF StoreOK, DbOK
<1>11. /\ e.tip_height = d.tip_height /\ e.tip_hash = d.tip_hash /\ e.txs = d.txs
       /\ e.blocks = f /\ e.balances = d.balances
    BY <1>8
<1>12. e.tip_height \in 0..MaxHeight /\ \A a \in Accounts : e.balances[a] < U64Modulus
    BY <1>11 DEF StoreOK
<1>13. StoreOK(e)
    BY <1>9, <1>10, <1>11, <1>12 DEF StoreOK
<1>14. QED
    BY <1>5, <1>11, <1>13

LEMMA PutHeight ==
    ASSUME NEW d, StoreOK(d), NEW b \in Candidates,
           NEW e, e = RunOp(d, Op("meta", "tip_height", "put", b.height))
    PROVE  /\ StoreOK(e) /\ e.tip_height = b.height /\ e.tip_hash = d.tip_hash
           /\ e.txs = d.txs /\ e.blocks = d.blocks
<1>1. PICK o : o = Op("meta", "tip_height", "put", b.height)
    OBVIOUS
<1>2. o.tree = "meta" /\ o.key = "tip_height" /\ o.kind = "put" /\ o.arg = b.height
    BY <1>1 DEF Op
<1>3. e = Set(d, o, b.height)
    BY <1>1, <1>2 DEF RunOp
<1>4. e = [d EXCEPT !.tip_height = b.height]
    BY <1>2, <1>3 DEF Set
<1>5. d = [tip_height |-> d.tip_height, tip_hash |-> d.tip_hash, blocks |-> d.blocks,
           balances |-> d.balances, nonces |-> d.nonces, txs |-> d.txs]
    BY DEF StoreOK, DbOK
<1>6. e = [tip_height |-> b.height, tip_hash |-> d.tip_hash, blocks |-> d.blocks,
           balances |-> d.balances, nonces |-> d.nonces, txs |-> d.txs]
    BY <1>4, <1>5
<1>7. b.height \in 0..MaxHeight
    BY StoreAssumption, RulesAssumption
<1>8. DbOK(e)
    BY <1>6 DEF StoreOK, DbOK
<1>9. QED
    BY <1>6, <1>7, <1>8 DEF StoreOK

LEMMA PutHash ==
    ASSUME NEW d, StoreOK(d), NEW b \in Candidates,
           NEW e, e = RunOp(d, Op("meta", "tip_hash", "put", b.hash))
    PROVE  /\ StoreOK(e) /\ e.tip_height = d.tip_height /\ e.tip_hash = b.hash
           /\ e.txs = d.txs /\ e.blocks = d.blocks
<1>1. PICK o : o = Op("meta", "tip_hash", "put", b.hash)
    OBVIOUS
<1>2. o.tree = "meta" /\ o.key = "tip_hash" /\ o.kind = "put" /\ o.arg = b.hash
    BY <1>1 DEF Op
<1>3. e = Set(d, o, b.hash)
    BY <1>1, <1>2 DEF RunOp
<1>4. e = [d EXCEPT !.tip_hash = b.hash]
    BY <1>2, <1>3 DEF Set
<1>5. d = [tip_height |-> d.tip_height, tip_hash |-> d.tip_hash, blocks |-> d.blocks,
           balances |-> d.balances, nonces |-> d.nonces, txs |-> d.txs]
    BY DEF StoreOK, DbOK
<1>6. e = [tip_height |-> d.tip_height, tip_hash |-> b.hash, blocks |-> d.blocks,
           balances |-> d.balances, nonces |-> d.nonces, txs |-> d.txs]
    BY <1>4, <1>5
<1>7. DbOK(e)
    BY <1>6 DEF StoreOK, DbOK
<1>8. QED
    BY <1>6, <1>7 DEF StoreOK

\* The block that the tip names is stored below the tip height, with its
\* transactions indexed.
TipOf(d) ==
    \A c \in Candidates : d.tip_hash = c.hash =>
        /\ d.blocks[c.height] = c
        /\ d.tip_height >= c.height
        /\ \A i \in 1..Len(c.txs) : c.txs[i].id \in d.txs

\* It stays so when the index grows, a block is stored above the tip or the tip
\* height rises.
LEMMA TipStays ==
    ASSUME NEW d, StoreOK(d), TipOf(d), NEW e, StoreOK(e), e.tip_hash = d.tip_hash,
           d.txs \subseteq e.txs, e.tip_height >= d.tip_height,
           \A h \in 1..d.tip_height : e.blocks[h] = d.blocks[h]
    PROVE  TipOf(e)
<1> SUFFICES ASSUME NEW c \in Candidates, e.tip_hash = c.hash
             PROVE  /\ e.blocks[c.height] = c
                    /\ e.tip_height >= c.height
                    /\ \A i \in 1..Len(c.txs) : c.txs[i].id \in e.txs
    BY DEF TipOf
<1>1. /\ d.blocks[c.height] = c /\ d.tip_height >= c.height
      /\ \A i \in 1..Len(c.txs) : c.txs[i].id \in d.txs
    BY DEF TipOf
<1>2. /\ c.height \in 1..MaxHeight /\ d.tip_height \in Nat /\ e.tip_height \in Nat
    BY StoreAssumption, RulesAssumption DEF StoreOK
<1>3. c.height \in 1..d.tip_height
    BY <1>1, <1>2
<1>4. QED
    BY <1>1, <1>2, <1>3

\* Operations of the block's transactions, or that read nothing.
OpsOf(ops, b) == \A k \in 1..Len(ops) : ops[k] \in TxOpOf(b) \/ ops[k].kind = "put"

\* A write pass on trees whose tip is below the block.  Whatever part of it has run,
\* the trees have their types and their tip is stored; run to its end it gives what
\* Committed says.
LEMMA PassSound ==
    ASSUME NEW d, StoreOK(d), TipOf(d), NEW b \in Candidates, b.height = d.tip_height + 1,
           NEW ops, ops = WriteOps(b),
           NEW run, RunChain(run, d, ops, Len(ops))
    PROVE  /\ Len(ops) \in Nat
           /\ \A k \in 0..Len(ops) : StoreOK(run[k]) /\ TipOf(run[k])
           /\ OpsOf(ops, b)
           /\ run[Len(ops)] = Committed(d, b)
           /\ run[Len(ops)].tip_height = b.height /\ run[Len(ops)].tip_hash = b.hash
           /\ run[Len(ops)].blocks = [d.blocks EXCEPT ![b.height] = b]
<1>1. PICK f \in Seq(TxOpOf(b)) :
              /\ WriteOps(b) = f \o BlockOps(b)
              /\ \A c : StoreOK(c) =>
                    /\ Committed(c, b) = RunOps(RunOps(c, f), BlockOps(b))
                    /\ \A i \in 1..Len(b.txs) : b.txs[i].id \in RunOps(c, f).txs
    BY WritePass
<1>2. PICK n \in Nat : n = Len(f)
    OBVIOUS
<1>o. PICK o1, o2, o3 : /\ o1 = Op("blocks", b.height, "put", b)
                        /\ o2 = Op("meta", "tip_height", "put", b.height)
                        /\ o3 = Op("meta", "tip_hash", "put", b.hash)
    OBVIOUS
<1>3. PICK g : g = BlockOps(b)
    OBVIOUS
<1>4. g = <<o1, o2, o3>>
    BY <1>3, <1>o DEF BlockOps
<1>S. PICK S : S = TxOpOf(b) \cup {o1, o2, o3}
    OBVIOUS
<1>5. f \in Seq(S) /\ g \in Seq(S) /\ Len(g) = 3 /\ g[1] = o1 /\ g[2] = o2 /\ g[3] = o3
    BY <1>4, <1>S
<1>6. /\ Len(ops) = n + 3
      /\ \A i \in 1..(n + 3) : ops[i] = IF i <= n THEN f[i] ELSE g[i - n]
  <2>1. PICK u : u = f \o g
    OBVIOUS
  <2>2. /\ Len(u) = Len(f) + Len(g)
        /\ \A i \in 1..(Len(f) + Len(g)) : u[i] = IF i <= Len(f) THEN f[i] ELSE g[i - Len(f)]
    BY <1>5, <2>1, ConcatProperties
  <2>3. ops = u
    BY <1>1, <1>3, <2>1
  <2>4. QED
    BY <1>2, <1>5, <2>2, <2>3
<1>7. /\ \A i \in 1..n : ops[i] = f[i]
      /\ ops[n + 1] = o1 /\ ops[n + 2] = o2 /\ ops[n + 3] = o3
    BY <1>5, <1>6
<1>8. /\ run[0] = d
      /\ \A i \in 1..(n + 3) : run[i] = RunOp(run[i - 1], ops[i])
    BY <1>6 DEF RunChain
<1>9. PICK r : RunChain(r, d, f, n) /\ RunOps(d, f) = r[n]
    BY <1>2, RunOpsIs
<1>10. \A i \in 0..n : r[i] = run[i]
  <2>1. r[0] = d /\ \A i \in 1..n : r[i] = RunOp(r[i - 1], f[i])
    BY <1>9 DEF RunChain
  <2> DEFINE Same == {i \in 0..n : r[i] = run[i]}
  <2>2. 0 \in Same
    BY <2>1, <1>8
  <2>3. ASSUME NEW i \in 0..(n - 1), i \in Same PROVE i + 1 \in Same
    <3>1. i + 1 \in 1..n /\ i + 1 \in 1..(n + 3) /\ (i + 1) - 1 = i /\ i + 1 \in 0..n /\ r[i] = run[i]
      BY <2>3
    <3>2. r[i + 1] = RunOp(r[i], f[i + 1]) /\ run[i + 1] = RunOp(run[i], ops[i + 1])
      BY <3>1, <2>1, <1>8
    <3>3. QED
      BY <3>1, <3>2, <1>7
  <2> HIDE DEF Same
  <2>4. 0..n \subseteq Same
    BY <2>2, <2>3, Reaches
  <2>5. QED
    BY <2>4 DEF Same
<1>11. \A k \in 0..n : StoreOK(run[k]) /\ SameChain(run[k], d) /\ d.txs \subseteq run[k].txs
  <2>1. Indexing(r, d, n)
    BY <1>2, <1>9, RunTxOps
  <2>2. QED
    BY <2>1, <1>10 DEF Indexing
<1>12. ASSUME NEW k \in 0..n PROVE TipOf(run[k])
  <2>1. PICK c : c = run[k]
    OBVIOUS
  <2>2. StoreOK(c) /\ SameChain(c, d) /\ d.txs \subseteq c.txs
    BY <1>11, <2>1
  <2>3. c.tip_hash = d.tip_hash /\ c.tip_height >= d.tip_height /\ c.blocks = d.blocks
    BY <2>2, RulesAssumption DEF SameChain, StoreOK
  <2>4. TipOf(c)
    BY <2>2, <2>3, TipStays
  <2>5. QED
    BY <2>1, <2>4
<1>c. PICK c0, c1, c2, c3 : c0 = run[n] /\ c1 = run[n + 1] /\ c2 = run[n + 2] /\ c3 = run[n + 3]
    OBVIOUS
<1>13. c1 = RunOp(c0, o1) /\ c2 = RunOp(c1, o2) /\ c3 = RunOp(c2, o3)
  <2>1. /\ n + 1 \in 1..(n + 3) /\ (n + 1) - 1 = n /\ n + 2 \in 1..(n + 3) /\ (n + 2) - 1 = n + 1
        /\ n + 3 \in 1..(n + 3) /\ (n + 3) - 1 = n + 2
    OBVIOUS
  <2>2. /\ run[n + 1] = RunOp(run[n], ops[n + 1])
        /\ run[n + 2] = RunOp(run[n + 1], ops[n + 2])
        /\ run[n + 3] = RunOp(run[n + 2], ops[n + 3])
    BY <1>8, <2>1
  <2>3. QED
    BY <2>2, <1>7, <1>c
<1>14. /\ StoreOK(c0) /\ TipOf(c0) /\ SameChain(c0, d)
       /\ \A i \in 1..Len(b.txs) : b.txs[i].id \in c0.txs
       /\ c0 = RunOps(d, f)
  <2>1. n \in 0..n
    OBVIOUS
  <2>2. c0 = RunOps(d, f)
    BY <1>9, <1>10, <1>c, <2>1
  <2>3. QED
    BY <1>1, <1>11, <1>12, <1>c, <2>1, <2>2
<1>15. /\ StoreOK(c1) /\ c1.tip_height = c0.tip_height /\ c1.tip_hash = c0.tip_hash
       /\ c1.txs = c0.txs /\ c1.blocks = [c0.blocks EXCEPT ![b.height] = b]
    BY <1>13, <1>14, <1>o, PutBlock
<1>16. /\ StoreOK(c2) /\ c2.tip_height = b.height /\ c2.tip_hash = c1.tip_hash
       /\ c2.txs = c1.txs /\ c2.blocks = c1.blocks
    BY <1>13, <1>15, <1>o, PutHeight
<1>17. /\ StoreOK(c3) /\ c3.tip_height = c2.tip_height /\ c3.tip_hash = b.hash
       /\ c3.txs = c2.txs /\ c3.blocks = c2.blocks
    BY <1>13, <1>16, <1>o, PutHash
<1>18. /\ b.height \in 1..MaxHeight /\ d.tip_height \in Nat /\ c0.tip_height = d.tip_height
       /\ c0.blocks = d.blocks /\ c0.blocks \in [1..MaxHeight -> Candidates \cup {NoBlock}]
       /\ MaxHeight \in Nat
    BY <1>14, StoreAssumption, RulesAssumption DEF StoreOK, SameChain
<1>19. TipOf(c1)
  <2>1. \A h \in 1..c0.tip_height : c1.blocks[h] = c0.blocks[h]
    BY <1>15, <1>18
  <2>2. c1.tip_height >= c0.tip_height /\ c0.txs \subseteq c1.txs
    BY <1>15, <1>18
  <2>3. QED
    BY <1>14, <1>15, <2>1, <2>2, TipStays
<1>20. TipOf(c2)
  <2>1. \A h \in 1..c1.tip_height : c2.blocks[h] = c1.blocks[h]
    BY <1>16
  <2>2. c2.tip_height >= c1.tip_height /\ c1.txs \subseteq c2.txs
    BY <1>15, <1>16, <1>18
  <2>3. QED
    BY <1>15, <1>16, <1>19, <2>1, <2>2, TipStays
<1>21. TipOf(c3)
  <2> SUFFICES ASSUME NEW c \in Candidates, c3.tip_hash = c.hash
               PROVE  /\ c3.blocks[c.height] = c
                      /\ c3.tip_height >= c.height
                      /\ \A i \in 1..Len(c.txs) : c.txs[i].id \in c3.txs
    BY DEF TipOf
  <2>1. c = b
    BY <1>17, StoreAssumption
  <2>2. c3.blocks[b.height] = b
    BY <1>15, <1>16, <1>17, <1>18
  <2>3. c3.tip_height >= b.height
    BY <1>16, <1>17, <1>18
  <2>4. \A i \in 1..Len(b.txs) : b.txs[i].id \in c3.txs
    BY <1>14, <1>15, <1>16, <1>17
  <2>5. QED
    BY <2>1, <2>2, <2>3, <2>4
<1>22. \A k \in 0..Len(ops) : StoreOK(run[k]) /\ TipOf(run[k])
  <2>1. \A k \in 0..(n + 3) : k \in 0..n \/ k = n + 1 \/ k = n + 2 \/ k = n + 3
    OBVIOUS
  <2>2. QED
    BY <2>1, <1>6, <1>11, <1>12, <1>15, <1>16, <1>17, <1>19, <1>20, <1>21, <1>c
<1>23. ASSUME NEW k \in 1..Len(ops) PROVE ops[k] \in TxOpOf(b) \/ ops[k].kind = "put"
  <2>1. k \in 1..n \/ k = n + 1 \/ k = n + 2 \/ k = n + 3
    BY <1>6
  <2>2. k \in 1..n => f[k] \in TxOpOf(b)
    BY <1>2
  <2>3. o1.kind = "put" /\ o2.kind = "put" /\ o3.kind = "put"
    BY <1>o DEF Op
  <2>4. QED
    BY <2>1, <2>2, <2>3, <1>7
<1>24. c3 = Committed(d, b)
  <2>1. RunOps(c0, <<o1, o2, o3>>) = RunOp(RunOp(RunOp(c0, o1), o2), o3)
    BY RunOf3
  <2>2. QED
    BY <2>1, <1>1, <1>3, <1>4, <1>13, <1>14
<1>25. c3.blocks = [d.blocks EXCEPT ![b.height] = b]
    BY <1>15, <1>16, <1>17, <1>18
<1>26. OpsOf(ops, b)
    BY <1>23 DEF OpsOf
<1>27. QED
    BY <1>6, <1>16, <1>17, <1>22, <1>24, <1>25, <1>26, <1>c

-----------------------------------------------------------------------------
(* Replaying the stored blocks.                                             *)

ReplayChain(r, d, h) ==
    r = [i \in 0..h |-> IF i = 0 THEN GenesisDb ELSE Committed(r[i - 1], d.blocks[i])]

\* Replay is defined: the recursive function over the blocks exists.
LEMMA ReplayChainExists ==
    ASSUME NEW d, NEW h \in Nat
    PROVE  \E r : ReplayChain(r, d, h)
<1> DEFINE Good == {k \in Nat : \E r : ReplayChain(r, d, k)}
<1>1. 0 \in Good
  <2>1. ReplayChain([i \in 0..0 |-> GenesisDb], d, 0)
    BY DEF ReplayChain
  <2>2. QED
    BY <2>1
<1>2. ASSUME NEW k \in Nat, k \in Good
      PROVE  k + 1 \in Good
  <2>1. PICK f : ReplayChain(f, d, k)
    BY <1>2
  <2>2. PICK g : g = [i \in 0..(k + 1) |->
                        IF i <= k THEN f[i] ELSE Committed(f[k], d.blocks[k + 1])]
    OBVIOUS
  <2>3. \A i \in 0..k : f[i] = IF i = 0 THEN GenesisDb ELSE Committed(f[i - 1], d.blocks[i])
    BY <2>1 DEF ReplayChain
  <2>4. \A i \in 0..(k + 1) : g[i] = IF i <= k THEN f[i] ELSE Committed(f[k], d.blocks[k + 1])
    BY <2>2
  <2>5. \A i \in 0..(k + 1) : g[i] = IF i = 0 THEN GenesisDb ELSE Committed(g[i - 1], d.blocks[i])
    BY <2>3, <2>4
  <2>6. ReplayChain(g, d, k + 1)
    BY <2>2, <2>5 DEF ReplayChain
  <2>7. QED
    BY <2>6
<1> HIDE DEF Good
<1>3. 0..h \subseteq Good
    BY <1>1, <1>2, Reaches
<1>4. h \in Good
    BY <1>3
<1>5. QED
    BY <1>4 DEF Good

\* Replay is the last of the stores the blocks go through.
LEMMA ReplayIs ==
    ASSUME NEW d, NEW h \in Nat
    PROVE  \E r : ReplayChain(r, d, h) /\ Replay(d, h) = r[h]
<1> DEFINE R == CHOOSE f : f = [i \in 0..h |->
                    IF i = 0 THEN GenesisDb ELSE Committed(f[i - 1], d.blocks[i])]
<1>1. \E r : ReplayChain(r, d, h)
    BY ReplayChainExists
<1>2. ReplayChain(R, d, h)
    BY <1>1 DEF ReplayChain
<1>3. Replay(d, h) = R[h]
    BY DEF Replay
<1>4. QED
    BY <1>2, <1>3

SameBelow(e, d, h) == \A i \in 1..h : e.blocks[i] = d.blocks[i]

\* One more block: it is committed on what replaying the ones below it gives.
LEMMA ReplayNext ==
    ASSUME NEW d, NEW e, NEW h \in Nat, NEW k \in Nat, k = h + 1,
           SameBelow(e, d, h)
    PROVE  Replay(e, k) = Committed(Replay(d, h), e.blocks[k])
<1>1. PICK r : ReplayChain(r, d, h) /\ Replay(d, h) = r[h]
    BY ReplayIs
<1>2. PICK s : ReplayChain(s, e, k) /\ Replay(e, k) = s[k]
    BY ReplayIs
<1>3. r[0] = GenesisDb /\ \A i \in 1..h : r[i] = Committed(r[i - 1], d.blocks[i])
    BY <1>1 DEF ReplayChain
<1>4. s[0] = GenesisDb /\ \A i \in 1..k : s[i] = Committed(s[i - 1], e.blocks[i])
    BY <1>2 DEF ReplayChain
<1> DEFINE Same == {i \in 0..h : r[i] = s[i]}
<1>5. 0 \in Same
    BY <1>3, <1>4
<1>6. ASSUME NEW i \in 0..(h - 1), i \in Same PROVE i + 1 \in Same
  <2>1. i + 1 \in 1..h /\ i + 1 \in 1..k /\ (i + 1) - 1 = i /\ i + 1 \in 0..h /\ r[i] = s[i]
    BY <1>6
  <2>2. r[i + 1] = Committed(r[i], d.blocks[i + 1]) /\ s[i + 1] = Committed(s[i], e.blocks[i + 1])
    BY <2>1, <1>3, <1>4
  <2>3. e.blocks[i + 1] = d.blocks[i + 1]
    BY <2>1 DEF SameBelow
  <2>4. QED
    BY <2>1, <2>2, <2>3
<1> HIDE DEF Same
<1>7. 0..h \subseteq Same
    BY <1>5, <1>6, Reaches
<1>8. r[h] = s[h]
    BY <1>7 DEF Same
<1>9. k \in 1..k /\ k - 1 = h
    OBVIOUS
<1>10. s[k] = Committed(s[h], e.blocks[k])
    BY <1>4, <1>9
<1>11. QED
    BY <1>1, <1>2, <1>8, <1>10

-----------------------------------------------------------------------------
(* The store is whole between two calls.                                    *)

\* The trees are what their blocks give, and each block names the one below it.
Whole(d) ==
    /\ d = Replay(d, d.tip_height)
    /\ \A h \in 1..d.tip_height :
         /\ d.blocks[h] # NoBlock
         /\ d.blocks[h].prev_hash = IF h = 1 THEN genesis_hash ELSE d.blocks[h - 1].hash
    /\ d.tip_hash = IF d.tip_height = 0 THEN genesis_hash ELSE d.blocks[d.tip_height].hash

\* They are when the next block is committed on them.
LEMMA WholeGrows ==
    ASSUME NEW d, StoreOK(d), Whole(d), NEW b \in Candidates, b.height = d.tip_height + 1,
           b.prev_hash = d.tip_hash, NEW e, e = Committed(d, b), e.tip_height = b.height,
           e.tip_hash = b.hash, e.blocks = [d.blocks EXCEPT ![b.height] = b]
    PROVE  Whole(e)
<1>1. PICK h \in Nat, k \in Nat : h = d.tip_height /\ k = b.height
    BY StoreAssumption, RulesAssumption DEF StoreOK
<1>2. k = h + 1 /\ k \in 1..MaxHeight
    BY <1>1, StoreAssumption
<1>3. d.blocks \in [1..MaxHeight -> Candidates \cup {NoBlock}]
    BY DEF StoreOK
<1>4. e.blocks[k] = b /\ \A i \in 1..h : e.blocks[i] = d.blocks[i]
    BY <1>1, <1>2, <1>3, RulesAssumption
<1>5. Replay(e, k) = Committed(Replay(d, h), e.blocks[k])
  <2>1. SameBelow(e, d, h)
    BY <1>4 DEF SameBelow
  <2>. k = h + 1
    BY <1>2
  <2>2. QED
    BY ONLY h \in Nat, k \in Nat, k = h + 1, SameBelow(e, d, h), ReplayNext
<1>6. Replay(d, h) = d
    BY <1>1 DEF Whole
<1>7. e = Replay(e, e.tip_height)
    BY <1>1, <1>4, <1>5, <1>6
<1>8. d.tip_hash = IF h = 0 THEN genesis_hash ELSE d.blocks[h].hash
    BY <1>1 DEF Whole
<1>9. ASSUME NEW i \in 1..k
      PROVE  /\ e.blocks[i] # NoBlock
             /\ e.blocks[i].prev_hash = IF i = 1 THEN genesis_hash ELSE e.blocks[i - 1].hash
  <2>1. CASE i = k
    <3>1. e.blocks[i] = b /\ b # NoBlock
      BY <2>1, <1>4, StoreAssumption
    <3>2. h # 0 => e.blocks[i - 1] = d.blocks[h]
      <4>1. h # 0 => h \in 1..h /\ i - 1 = h
        BY <2>1, <1>2
      <4>2. QED
        BY <4>1, <1>4
    <3>3. i = 1 <=> h = 0
      BY <2>1, <1>2
    <3>4. QED
      BY <3>1, <3>2, <3>3, <1>8
  <2>2. CASE i # k
    <3>1. i \in 1..h /\ (i # 1 => i - 1 \in 1..h)
      BY <2>2, <1>2
    <3>2. /\ d.blocks[i] # NoBlock
          /\ d.blocks[i].prev_hash = IF i = 1 THEN genesis_hash ELSE d.blocks[i - 1].hash
      BY <3>1, <1>1 DEF Whole
    <3>3. QED
      BY <3>1, <3>2, <1>4
  <2>3. QED
    BY <2>1, <2>2
<1>10. e.tip_hash = IF e.tip_height = 0 THEN genesis_hash ELSE e.blocks[e.tip_height].hash
    BY <1>1, <1>2, <1>4
<1>11. QED
    BY <1>1, <1>7, <1>9, <1>10 DEF Whole

\* What write_genesis leaves is whole.
LEMMA GenesisSound == StoreOK(GenesisDb) /\ TipOf(GenesisDb) /\ Whole(GenesisDb)
<1>1. PICK d : d = GenesisDb
    OBVIOUS
<1>2. /\ d.tip_height = 0 /\ d.tip_hash = genesis_hash /\ d.balances = InitialBalance
      /\ d.blocks = [h \in 1..MaxHeight |-> NoBlock] /\ d.nonces = [a \in Accounts |-> 0]
    BY <1>1 DEF GenesisDb
<1>3. DbOK(d)
    BY <1>1, RulesAssumption DEF DbOK, GenesisDb
<1>4. ASSUME NEW a \in Accounts PROVE d.balances[a] < U64Modulus
  <2>1. PICK s \in Nat : s = Supply(InitialBalance)
    BY RulesAssumption, SupplyNat
  <2>2. InitialBalance[a] <= s /\ s < U64Modulus
    BY <2>1, RulesAssumption, SupplyAssumption, SupplyNat
  <2>3. InitialBalance[a] \in Nat /\ U64Modulus \in Nat
    BY RulesAssumption
  <2>4. QED
    BY <2>2, <2>3, <1>2
<1>5. d.tip_height \in 0..MaxHeight /\ d.blocks \in [1..MaxHeight -> Candidates \cup {NoBlock}]
    BY <1>2, RulesAssumption
<1>6. StoreOK(d)
    BY <1>3, <1>4, <1>5 DEF StoreOK
<1>7. TipOf(d)
    BY <1>2, StoreAssumption DEF TipOf
<1>8. d = Replay(d, 0)
  <2>1. PICK r : ReplayChain(r, d, 0) /\ Replay(d, 0) = r[0]
    BY ReplayIs
  <2>2. r[0] = GenesisDb
    BY <2>1 DEF ReplayChain
  <2>3. QED
    BY <1>1, <2>1, <2>2
<1>9. Whole(d)
    BY <1>2, <1>8 DEF Whole
<1>10. QED
    BY <1>1, <1>6, <1>7, <1>9

-----------------------------------------------------------------------------
(* The invariant of a store that one task writes.                           *)

\* apply_block is called from one task only.
OneCaller == \A s, t \in Threads : s = t

\* A write pass of b has reached operation p of those it makes on the trees it
\* started from, which are d by now; v is what it has read for operation p.
InPass(d, b, p, v, crashed) ==
    \E run :
        /\ RunChain(run, run[0], WriteOps(b), Len(WriteOps(b)))
        /\ StoreOK(run[0]) /\ TipOf(run[0]) /\ b.height = run[0].tip_height + 1
        /\ ~crashed => Whole(run[0]) /\ b.prev_hash = run[0].tip_hash
        /\ p \in 1..(Len(WriteOps(b)) + 1)
        /\ d = run[p - 1]
        /\ v # Unread => p <= Len(WriteOps(b)) /\ v = Get(d, WriteOps(b)[p])

CallOK(t) ==
    /\ at[t] # "write" => pos[t] = 1 /\ reg[t] = Unread
    /\ at[t] # "idle" => block[t] \in Candidates
    /\ at[t] \in {"hash", "validate"} => block[t].height = trees.tip_height + 1
    /\ at[t] = "validate" => block[t].prev_hash = trees.tip_hash
    /\ at[t] = "write" => InPass(trees, block[t], pos[t], reg[t], storeCrashes # 0)

StoreInv ==
    /\ at \in [Threads -> {"idle", "hash", "validate", "write"}]
    /\ block \in [Threads -> Candidates \cup {NoBlock}]
    /\ pos \in [Threads -> Nat \ {0}]
    /\ reg \in [Threads -> Int]
    /\ storeCrashes \in Nat
    /\ trees \in recoverable
    /\ \A d \in recoverable : StoreOK(d) /\ TipOf(d)
    /\ storeCrashes = 0 /\ (\A t \in Threads : at[t] # "write") => Whole(trees)
    /\ \A t \in Threads : CallOK(t)

LEMMA StoreInvInit == StoreInit => StoreInv
<1> SUFFICES ASSUME StoreInit PROVE StoreInv
    OBVIOUS
<1>1. \A t \in Threads : at[t] = "idle" /\ pos[t] = 1 /\ reg[t] = Unread
    BY DEF StoreInit
<1>2. \A t \in Threads : CallOK(t)
    BY <1>1 DEF CallOK
<1>3. trees = GenesisDb /\ recoverable = {GenesisDb}
    BY DEF StoreInit
<1>4. /\ trees \in recoverable /\ \A d \in recoverable : StoreOK(d) /\ TipOf(d)
      /\ Whole(trees)
    BY <1>3, GenesisSound
<1>5. /\ at \in [Threads -> {"idle", "hash", "validate", "write"}]
      /\ block \in [Threads -> Candidates \cup {NoBlock}]
      /\ pos \in [Threads -> Nat \ {0}]
      /\ reg \in [Threads -> Int]
      /\ storeCrashes \in Nat
    BY DEF StoreInit, Unread
<1>6. QED
    BY <1>2, <1>4, <1>5 DEF StoreInv

\* What a call that moves on or returns without touching the trees keeps: the call's
\* own part of the invariant is left to show.
LEMMA CallMoves ==
    ASSUME StoreInv, OneCaller, NEW t \in Threads, UNCHANGED <<trees, storeCrashes>>,
           recoverable' = recoverable \/ recoverable' = {trees},
           NEW s \in {"idle", "hash", "validate", "write"}, at' = [at EXCEPT ![t] = s],
           block' \in [Threads -> Candidates \cup {NoBlock}],
           pos' \in [Threads -> Nat \ {0}], reg' \in [Threads -> Int],
           s # "write" /\ storeCrashes = 0 => Whole(trees),
           CallOK(t)'
    PROVE  StoreInv'
<1>1. at' \in [Threads -> {"idle", "hash", "validate", "write"}] /\ at'[t] = s
    BY DEF StoreInv
<1>2. ASSUME NEW u \in Threads PROVE CallOK(u)'
    BY DEF OneCaller
<1>3. trees' \in recoverable' /\ \A d \in recoverable' : StoreOK(d) /\ TipOf(d)
    BY DEF StoreInv
<1>4. storeCrashes' = 0 /\ (\A u \in Threads : at'[u] # "write") => Whole(trees')
    BY <1>1
<1>5. storeCrashes' \in Nat
    BY DEF StoreInv
<1>6. QED
    BY <1>1, <1>2, <1>3, <1>4, <1>5 DEF StoreInv

LEMMA OthersIdle ==
    ASSUME StoreInv, OneCaller, NEW t \in Threads, at[t] # "write", storeCrashes = 0
    PROVE  Whole(trees)
<1>1. \A u \in Threads : at[u] # "write"
    BY DEF OneCaller
<1>2. QED
    BY <1>1 DEF StoreInv

\* An operation that reads finds a natural number.
LEMMA ReadsNat ==
    ASSUME NEW d, StoreOK(d), NEW b, NEW op, op \in TxOpOf(b) \/ op.kind = "put",
           op.kind # "put"
    PROVE  Get(d, op) \in Nat
<1>1. op \in TxOpOf(b)
    OBVIOUS
<1>2. d.balances \in [Accounts -> Nat] /\ d.nonces \in [Accounts -> Nat]
    BY DEF StoreOK, DbOK
<1>3. CASE \E a \in Accounts, k \in {"credit", "debit", "drain"}, x \in Nat :
              op = Op("balances", a, k, x)
  <2>1. PICK a \in Accounts : op.tree = "balances" /\ op.key = a
    BY <1>3 DEF Op
  <2>2. QED
    BY <1>2, <2>1 DEF Get
<1>4. CASE \E a \in Accounts : op = Op("nonces", a, "credit", 1)
  <2>1. PICK a \in Accounts : op.tree = "nonces" /\ op.key = a
    BY <1>4 DEF Op
  <2>2. QED
    BY <1>2, <2>1 DEF Get
<1>5. CASE \E i \in 1..Len(b.txs) : op = Op("txs", b.txs[i].id, "put", b.txs[i])
    BY <1>5 DEF Op
<1>6. QED
    BY <1>1, <1>3, <1>4, <1>5 DEF TxOpOf

LEMMA CheckHeightKeeps ==
    ASSUME StoreInv, OneCaller, NEW t \in Threads, CheckHeight(t)
    PROVE  StoreInv'
<1>1. /\ at[t] = "idle" /\ UNCHANGED <<trees, recoverable, pos, reg, storeCrashes>>
      /\ at' = [at EXCEPT ![t] = "hash"]
    BY DEF CheckHeight
<1>2. PICK b \in Candidates : b.height = trees.tip_height + 1 /\ block' = [block EXCEPT ![t] = b]
    BY DEF CheckHeight
<1>3. /\ at'[t] = "hash" /\ block'[t] = b /\ block' \in [Threads -> Candidates \cup {NoBlock}]
      /\ pos[t] = 1 /\ reg[t] = Unread
    BY <1>1, <1>2 DEF StoreInv, CallOK
<1>4. CallOK(t)'
    BY <1>1, <1>2, <1>3 DEF CallOK
<1>5. storeCrashes = 0 => Whole(trees)
    BY <1>1, OthersIdle
<1>6. /\ pos' \in [Threads -> Nat \ {0}] /\ reg' \in [Threads -> Int]
      /\ UNCHANGED <<trees, storeCrashes>> /\ recoverable' = recoverable
    BY <1>1 DEF StoreInv
<1>7. QED
    BY <1>1, <1>3, <1>4, <1>5, <1>6, CallMoves

\* apply_block returns from before its write pass.
LEMMA ReturnKeeps ==
    ASSUME StoreInv, OneCaller, NEW t \in Threads, at[t] # "write", Return(t),
           UNCHANGED <<trees, recoverable, reg, storeCrashes>>
    PROVE  StoreInv'
<1>1. /\ at' = [at EXCEPT ![t] = "idle"]
      /\ block' \in [Threads -> Candidates \cup {NoBlock}]
      /\ pos' \in [Threads -> Nat \ {0}] /\ reg' \in [Threads -> Int] /\ pos'[t] = 1
    BY DEF Return, StoreInv
<1>2. at'[t] = "idle" /\ reg'[t] = Unread
    BY <1>1 DEF StoreInv, CallOK
<1>3. CallOK(t)'
    BY <1>1, <1>2 DEF CallOK
<1>4. storeCrashes = 0 => Whole(trees)
    BY OthersIdle
<1>5. UNCHANGED <<trees, storeCrashes>> /\ recoverable' = recoverable
    OBVIOUS
<1>6. QED
    BY <1>1, <1>3, <1>4, <1>5, CallMoves

LEMMA CheckHashKeeps ==
    ASSUME StoreInv, OneCaller, NEW t \in Threads, CheckHash(t)
    PROVE  StoreInv'
<1>1. at[t] = "hash" /\ UNCHANGED <<trees, recoverable, reg, storeCrashes>>
    BY DEF CheckHash
<1>2. CASE block[t].prev_hash = trees.tip_hash
  <2>1. at' = [at EXCEPT ![t] = "validate"] /\ UNCHANGED <<block, pos>>
    BY <1>2 DEF CheckHash
  <2>2. /\ at'[t] = "validate" /\ pos[t] = 1 /\ reg[t] = Unread
        /\ block[t] \in Candidates /\ block[t].height = trees.tip_height + 1
    BY <1>1, <2>1 DEF StoreInv, CallOK
  <2>3. CallOK(t)'
    BY <1>1, <1>2, <2>1, <2>2 DEF CallOK
  <2>4. storeCrashes = 0 => Whole(trees)
    BY <1>1, OthersIdle
  <2>5. /\ block' \in [Threads -> Candidates \cup {NoBlock}]
        /\ pos' \in [Threads -> Nat \ {0}] /\ reg' \in [Threads -> Int]
        /\ UNCHANGED <<trees, storeCrashes>> /\ recoverable' = recoverable
    BY <1>1, <2>1 DEF StoreInv
  <2>6. QED
    BY <2>1, <2>3, <2>4, <2>5, CallMoves
<1>3. CASE block[t].prev_hash # trees.tip_hash
  <2>1. Return(t)
    BY <1>3 DEF CheckHash
  <2>2. QED
    BY <1>1, <2>1, ReturnKeeps
<1>4. QED
    BY <1>2, <1>3

LEMMA ValidateKeeps ==
    ASSUME StoreInv, OneCaller, NEW t \in Threads, Validate(t)
    PROVE  StoreInv'
<1>1. at[t] = "validate" /\ UNCHANGED <<trees, recoverable, reg, storeCrashes>>
    BY DEF Validate
<1>2. CASE Valid(trees, block[t])
  <2>1. at' = [at EXCEPT ![t] = "write"] /\ UNCHANGED <<block, pos>>
    BY <1>2 DEF Validate
  <2>2. /\ at'[t] = "write" /\ pos[t] = 1 /\ reg[t] = Unread
        /\ block[t] \in Candidates /\ block[t].height = trees.tip_height + 1
        /\ block[t].prev_hash = trees.tip_hash
    BY <1>1, <2>1 DEF StoreInv, CallOK
  <2>3. PICK b : b = block[t]
    OBVIOUS
  <2>4. PICK ops : ops = WriteOps(b)
    OBVIOUS
  <2>5. StoreOK(trees) /\ TipOf(trees) /\ (storeCrashes = 0 => Whole(trees))
    BY <1>1, OthersIdle DEF StoreInv
  <2>6. Len(ops) \in Nat
    <3>1. PICK f \in Seq(TxOpOf(b)) : WriteOps(b) = f \o BlockOps(b)
      BY <2>2, <2>3, WritePass
    <3>2. PICK g : g = BlockOps(b)
      OBVIOUS
    <3>3. Len(g) = 3
      BY <3>2 DEF BlockOps
    <3>4. g \in Seq(Range(g))
      BY <3>2 DEF BlockOps, Range
    <3>5. PICK S : S = TxOpOf(b) \cup Range(g)
      OBVIOUS
    <3>6. f \in Seq(S) /\ g \in Seq(S)
      BY <3>4, <3>5
    <3>7. Len(f \o g) = Len(f) + Len(g)
      BY <3>6, ConcatProperties
    <3>8. QED
      BY <3>1, <3>2, <3>3, <3>7, <2>4
  <2>7. PICK run : RunChain(run, trees, ops, Len(ops))
    BY <2>6, RunChainExists
  <2>8. run[0] = trees
    BY <2>6, <2>7 DEF RunChain
  <2>9. InPass(trees, b, 1, Unread, storeCrashes # 0)
    <3>1. RunChain(run, run[0], WriteOps(b), Len(WriteOps(b)))
      BY <2>4, <2>7, <2>8
    <3>2. StoreOK(run[0]) /\ TipOf(run[0]) /\ b.height = run[0].tip_height + 1
      BY <2>2, <2>3, <2>5, <2>8
    <3>3. ~(storeCrashes # 0) => Whole(run[0]) /\ b.prev_hash = run[0].tip_hash
      BY <2>2, <2>3, <2>5, <2>8
    <3>4. 1 \in 1..(Len(WriteOps(b)) + 1) /\ trees = run[1 - 1]
      BY <2>4, <2>6, <2>8
    <3>5. QED
      BY <3>1, <3>2, <3>3, <3>4 DEF InPass
  <2>10. CallOK(t)'
    BY <1>1, <2>1, <2>2, <2>3, <2>9 DEF CallOK
  <2>11. /\ block' \in [Threads -> Candidates \cup {NoBlock}]
         /\ pos' \in [Threads -> Nat \ {0}] /\ reg' \in [Threads -> Int]
         /\ UNCHANGED <<trees, storeCrashes>> /\ recoverable' = recoverable
    BY <1>1, <2>1 DEF StoreInv
  <2>12. QED
    BY <2>1, <2>10, <2>11, CallMoves
<1>3. CASE ~Valid(trees, block[t])
  <2>1. Return(t)
    BY <1>3 DEF Validate
  <2>2. QED
    BY <1>1, <2>1, ReturnKeeps
<1>4. QED
    BY <1>2, <1>3

LEMMA ReadKeeps ==
    ASSUME StoreInv, OneCaller, NEW t \in Threads, Read(t)
    PROVE  StoreInv'
<1>1. /\ at[t] = "write" /\ UNCHANGED <<trees, recoverable, at, block, pos, storeCrashes>>
      /\ pos[t] <= Len(WriteOps(block[t])) /\ CurrentOp(t).kind # "put"
      /\ reg' = [reg EXCEPT ![t] = Get(trees, CurrentOp(t))]
    BY DEF Read, Writing
<1>2. PICK b, p, op : b = block[t] /\ p = pos[t] /\ op = CurrentOp(t)
    OBVIOUS
<1>3. op = WriteOps(b)[p]
    BY <1>2 DEF CurrentOp
<1>4. b \in Candidates /\ InPass(trees, b, p, reg[t], storeCrashes # 0)
    BY <1>1, <1>2 DEF StoreInv, CallOK
<1>5. PICK run :
        /\ RunChain(run, run[0], WriteOps(b), Len(WriteOps(b)))
        /\ StoreOK(run[0]) /\ TipOf(run[0]) /\ b.height = run[0].tip_height + 1
        /\ ~(storeCrashes # 0) => Whole(run[0]) /\ b.prev_hash = run[0].tip_hash
        /\ p \in 1..(Len(WriteOps(b)) + 1)
        /\ trees = run[p - 1]
    BY <1>4 DEF InPass
<1>6. InPass(trees, b, p, Get(trees, op), storeCrashes # 0)
  <2>1. p <= Len(WriteOps(b)) /\ Get(trees, op) = Get(trees, WriteOps(b)[p])
    BY <1>1, <1>2, <1>3
  <2>2. QED
    BY <1>5, <2>1 DEF InPass
<1>7. Get(trees, op) \in Int
  <2>1. PICK ops, d : ops = WriteOps(b) /\ d = run[0]
    OBVIOUS
  <2>2. RunChain(run, d, ops, Len(ops)) /\ StoreOK(d) /\ TipOf(d) /\ b.height = d.tip_height + 1
    BY <1>5, <2>1
  <2>3. Len(ops) \in Nat /\ OpsOf(ops, b)
    BY <1>4, <2>1, <2>2, PassSound
  <2>4. p \in 1..Len(ops)
    BY <1>1, <1>2, <1>5, <2>1, <2>3
  <2>5. op \in TxOpOf(b) \/ op.kind = "put"
    BY <1>3, <2>1, <2>3, <2>4 DEF OpsOf
  <2>6. StoreOK(trees)
    BY DEF StoreInv
  <2>7. Get(trees, op) \in Nat
    BY <1>1, <1>2, <2>5, <2>6, ReadsNat
  <2>8. QED
    BY <2>7
<1>8. reg' \in [Threads -> Int] /\ reg'[t] = Get(trees, op)
    BY <1>1, <1>2, <1>7 DEF StoreInv
<1>9. CallOK(t)'
    BY <1>1, <1>2, <1>4, <1>6, <1>8 DEF CallOK
<1>10. at' = [at EXCEPT ![t] = "write"]
    BY <1>1 DEF StoreInv
<1>11. /\ block' \in [Threads -> Candidates \cup {NoBlock}] /\ pos' \in [Threads -> Nat \ {0}]
       /\ UNCHANGED <<trees, storeCrashes>> /\ recoverable' = recoverable
    BY <1>1 DEF StoreInv
<1>12. QED
    BY <1>8, <1>9, <1>10, <1>11, CallMoves

LEMMA WriteKeeps ==
    ASSUME StoreInv, OneCaller, NEW t \in Threads, Write(t)
    PROVE  StoreInv'
<1>1. /\ at[t] = "write" /\ UNCHANGED <<at, block, storeCrashes>>
      /\ pos[t] <= Len(WriteOps(block[t]))
      /\ CurrentOp(t).kind = "put" \/ reg[t] # Unread
      /\ trees' = Set(trees, CurrentOp(t),
                      IF CurrentOp(t).kind = "put" THEN CurrentOp(t).arg
                                                   ELSE Value(CurrentOp(t), reg[t]))
      /\ recoverable' = recoverable \cup {trees'}
      /\ pos' = [pos EXCEPT ![t] = pos[t] + 1]
      /\ reg' = [reg EXCEPT ![t] = Unread]
    BY DEF Write, Writing
<1>2. PICK b, p, op : b = block[t] /\ p = pos[t] /\ op = CurrentOp(t)
    OBVIOUS
<1>3. PICK ops : ops = WriteOps(b)
    OBVIOUS
<1>4. op = ops[p]
    BY <1>2, <1>3 DEF CurrentOp
<1>5. b \in Candidates /\ InPass(trees, b, p, reg[t], storeCrashes # 0)
    BY <1>1, <1>2 DEF StoreInv, CallOK
<1>6. PICK run :
        /\ RunChain(run, run[0], ops, Len(ops))
        /\ StoreOK(run[0]) /\ TipOf(run[0]) /\ b.height = run[0].tip_height + 1
        /\ ~(storeCrashes # 0) => Whole(run[0]) /\ b.prev_hash = run[0].tip_hash
        /\ p \in 1..(Len(ops) + 1)
        /\ trees = run[p - 1]
        /\ reg[t] # Unread => p <= Len(ops) /\ reg[t] = Get(trees, ops[p])
    BY <1>3, <1>5 DEF InPass
<1>7. Len(ops) \in Nat /\ \A k \in 0..Len(ops) : StoreOK(run[k]) /\ TipOf(run[k])
    BY <1>3, <1>5, <1>6, PassSound
<1>8. p \in 1..Len(ops) /\ p \in 0..Len(ops) /\ p # 0
    BY <1>1, <1>2, <1>3, <1>6, <1>7
<1>9. trees' = RunOp(trees, op)
  <2>1. op.kind # "put" => reg[t] = Get(trees, op)
    BY <1>1, <1>2, <1>4, <1>6
  <2>2. QED
    BY <1>1, <1>2, <2>1 DEF RunOp
<1>10. run[p] = RunOp(run[p - 1], ops[p])
    BY <1>6, <1>7, <1>8 DEF RunChain
<1>11. trees' = run[p]
    BY <1>4, <1>6, <1>9, <1>10
<1>12. StoreOK(trees') /\ TipOf(trees')
    BY <1>7, <1>8, <1>11
<1>13. PICK q \in Nat : q = p + 1
    BY <1>8
<1>14. q \in 1..(Len(ops) + 1) /\ q - 1 = p
    BY <1>7, <1>8, <1>13
<1>15. InPass(trees', b, q, Unread, storeCrashes # 0)
    BY <1>3, <1>6, <1>11, <1>14 DEF InPass
<1>16. pos'[t] = q /\ reg'[t] = Unread /\ pos' \in [Threads -> Nat \ {0}] /\ reg' \in [Threads -> Int]
  <2>1. q \in Nat \ {0}
    BY <1>14
  <2>2. pos' = [pos EXCEPT ![t] = q]
    BY <1>1, <1>2, <1>13
  <2>3. QED
    BY <1>1, <2>1, <2>2 DEF StoreInv, Unread
<1>17. CallOK(t)'
    BY <1>1, <1>2, <1>5, <1>15, <1>16 DEF CallOK
<1>18. \A u \in Threads : CallOK(u)'
    BY <1>17 DEF OneCaller
<1>19. trees' \in recoverable' /\ \A d \in recoverable' : StoreOK(d) /\ TipOf(d)
  <2>1. PICK e : e = trees'
    OBVIOUS
  <2>2. recoverable' = recoverable \cup {e} /\ StoreOK(e) /\ TipOf(e)
    BY <1>1, <1>12, <2>1
  <2>3. \A d \in recoverable : StoreOK(d) /\ TipOf(d)
    BY DEF StoreInv
  <2>4. QED
    BY <2>1, <2>2, <2>3
<1>20. at'[t] = "write"
    BY <1>1
<1>21. /\ at' \in [Threads -> {"idle", "hash", "validate", "write"}]
       /\ block' \in [Threads -> Candidates \cup {NoBlock}] /\ storeCrashes' \in Nat
    BY <1>1 DEF StoreInv
<1>22. QED
    BY <1>16, <1>18, <1>19, <1>20, <1>21 DEF StoreInv

LEMMA FlushKeeps ==
    ASSUME StoreInv, OneCaller, NEW t \in Threads, FlushBlock(t)
    PROVE  StoreInv'
<1>1. /\ at[t] = "write" /\ ~(pos[t] <= Len(WriteOps(block[t])))
      /\ recoverable' = {trees} /\ UNCHANGED <<trees, reg, storeCrashes>>
      /\ at' = [at EXCEPT ![t] = "idle"]
      /\ block' = [block EXCEPT ![t] = NoBlock]
      /\ pos' = [pos EXCEPT ![t] = 1]
    BY DEF FlushBlock, Writing, Return
<1>2. PICK b, p : b = block[t] /\ p = pos[t]
    OBVIOUS
<1>3. PICK ops : ops = WriteOps(b)
    OBVIOUS
<1>4. b \in Candidates /\ InPass(trees, b, p, reg[t], storeCrashes # 0)
    BY <1>1, <1>2 DEF StoreInv, CallOK
<1>5. PICK run :
        /\ RunChain(run, run[0], ops, Len(ops))
        /\ StoreOK(run[0]) /\ TipOf(run[0]) /\ b.height = run[0].tip_height + 1
        /\ ~(storeCrashes # 0) => Whole(run[0]) /\ b.prev_hash = run[0].tip_hash
        /\ p \in 1..(Len(ops) + 1)
        /\ trees = run[p - 1]
        /\ reg[t] # Unread => p <= Len(ops)
    BY <1>3, <1>4 DEF InPass
<1>6. PICK d : d = run[0]
    OBVIOUS
<1>7. /\ Len(ops) \in Nat
      /\ run[Len(ops)] = Committed(d, b)
      /\ run[Len(ops)].tip_height = b.height /\ run[Len(ops)].tip_hash = b.hash
      /\ run[Len(ops)].blocks = [d.blocks EXCEPT ![b.height] = b]
    BY <1>3, <1>4, <1>5, <1>6, PassSound
<1>8. p - 1 = Len(ops) /\ reg[t] = Unread
    BY <1>1, <1>2, <1>3, <1>5, <1>7
<1>9. trees = run[Len(ops)]
    BY <1>5, <1>8
<1>10. storeCrashes = 0 => Whole(trees)
    BY <1>4, <1>5, <1>6, <1>7, <1>9, WholeGrows
<1>11. /\ at'[t] = "idle" /\ pos'[t] = 1 /\ reg'[t] = Unread
       /\ block' \in [Threads -> Candidates \cup {NoBlock}]
       /\ pos' \in [Threads -> Nat \ {0}] /\ reg' \in [Threads -> Int]
    BY <1>1, <1>8 DEF StoreInv
<1>12. CallOK(t)'
    BY <1>11 DEF CallOK
<1>13. UNCHANGED <<trees, storeCrashes>> /\ recoverable' = {trees}
    BY <1>1
<1>14. QED
    BY <1>1, <1>10, <1>11, <1>12, <1>13, CallMoves

LEMMA CrashKeeps ==
    ASSUME StoreInv, CrashAndRestart
    PROVE  StoreInv'
<1>1. PICK d \in recoverable : trees' = d /\ recoverable' = {d}
    BY DEF CrashAndRestart
<1>2. StoreOK(d) /\ TipOf(d)
    BY DEF StoreInv
<1>3. storeCrashes' \in Nat /\ storeCrashes' # 0
    BY DEF StoreInv, CrashAndRestart
<1>4. \A t \in Threads : at'[t] = "idle" /\ pos'[t] = 1 /\ reg'[t] = Unread
    BY DEF CrashAndRestart
<1>5. \A t \in Threads : CallOK(t)'
    BY <1>4 DEF CallOK
<1>6. /\ at' \in [Threads -> {"idle", "hash", "validate", "write"}]
      /\ block' \in [Threads -> Candidates \cup {NoBlock}]
      /\ pos' \in [Threads -> Nat \ {0}] /\ reg' \in [Threads -> Int]
    BY DEF CrashAndRestart, Unread
<1>7. trees' \in recoverable' /\ \A e \in recoverable' : StoreOK(e) /\ TipOf(e)
    BY <1>1, <1>2
<1>8. QED
    BY <1>3, <1>5, <1>6, <1>7 DEF StoreInv

\* Whoever writes the store from one task keeps it sound.
LEMMA StoreInvGivesSound == StoreInv => StoreSound
<1> SUFFICES ASSUME StoreInv PROVE StoreSound
    OBVIOUS
<1>1. ASSUME NEW d \in recoverable
      PROVE  /\ d.tip_height \in 0..MaxHeight
             /\ d.balances \in [Accounts -> 0..(U64Modulus - 1)]
             /\ d.nonces \in [Accounts -> Nat]
             /\ \A h \in 1..MaxHeight : d.blocks[h] \in Candidates \cup {NoBlock}
  <2>1. StoreOK(d)
    BY DEF StoreInv
  <2>2. d.balances \in [Accounts -> Nat] /\ \A a \in Accounts : d.balances[a] < U64Modulus
    BY <2>1 DEF StoreOK, DbOK
  <2>3. \A a \in Accounts : d.balances[a] \in 0..(U64Modulus - 1)
    BY <2>2, RulesAssumption
  <2>4. d.balances \in [Accounts -> 0..(U64Modulus - 1)]
    BY <2>2, <2>3
  <2>5. QED
    BY <2>1, <2>4 DEF StoreOK, DbOK
<1>2. StoreTypeOK
    BY <1>1 DEF StoreInv, StoreTypeOK
<1>3. TipIsStored
    BY DEF StoreInv, TipOf, TipIsStored
<1>4. AtomicWithoutCrash
  <2> SUFFICES ASSUME storeCrashes = 0, AllIdle PROVE CommitAtomic
    BY DEF AtomicWithoutCrash, CommitAtomic
  <2>1. Whole(trees)
    BY DEF StoreInv, AllIdle
  <2>2. PICK r : r = Replay(trees, trees.tip_height)
    OBVIOUS
  <2>3. r = trees
    BY <2>1, <2>2 DEF Whole
  <2>4. QED
    BY <2>1, <2>2, <2>3 DEF Whole, CommitAtomic
<1>5. QED
    BY <1>2, <1>3, <1>4 DEF StoreSound

LEMMA StoreInvStep == OneCaller /\ StoreInv /\ [StoreNext]_storeVars => StoreInv'
<1> SUFFICES ASSUME OneCaller, StoreInv, [StoreNext]_storeVars PROVE StoreInv'
    OBVIOUS
<1>1. ASSUME NEW t \in Threads, CheckHeight(t) PROVE StoreInv'
    BY <1>1, CheckHeightKeeps
<1>2. ASSUME NEW t \in Threads, CheckHash(t) PROVE StoreInv'
    BY <1>2, CheckHashKeeps
<1>3. ASSUME NEW t \in Threads, Validate(t) PROVE StoreInv'
    BY <1>3, ValidateKeeps
<1>4. ASSUME NEW t \in Threads, Read(t) PROVE StoreInv'
    BY <1>4, ReadKeeps
<1>5. ASSUME NEW t \in Threads, Write(t) PROVE StoreInv'
    BY <1>5, WriteKeeps
<1>6. ASSUME NEW t \in Threads, FlushBlock(t) PROVE StoreInv'
    BY <1>6, FlushKeeps
<1>7. CASE CrashAndRestart
    BY <1>7, CrashKeeps
<1>8. CASE UNCHANGED storeVars
    BY <1>8 DEF storeVars, StoreInv, CallOK
<1>9. QED
    BY <1>1, <1>2, <1>3, <1>4, <1>5, <1>6, <1>7, <1>8 DEF StoreNext

\* While one task calls apply_block, the trees have their types, their tip names a
\* stored and indexed block in whatever state a crash leaves them, and until the first
\* crash they are, between calls, exactly what replaying the stored blocks gives.
THEOREM StoreAlwaysSound == OneCaller => (StoreSpec => []StoreSound)
<1> SUFFICES ASSUME OneCaller PROVE StoreSpec => []StoreSound
    OBVIOUS
<1>1. StoreInit => StoreInv
    BY StoreInvInit
<1>2. StoreInv /\ [StoreNext]_storeVars => StoreInv'
    BY StoreInvStep
<1>3. StoreInv => StoreSound
    BY StoreInvGivesSound
<1>4. QED
    BY <1>1, <1>2, <1>3, PTL DEF StoreSpec
=============================================================================
