--------------------------- MODULE ChainNodeProofs ---------------------------
(***************************************************************************)
(* Theorems about ChainNode: no transaction is confirmed twice, the pool   *)
(* loses nothing but what is confirmed or old, it stays within its limit   *)
(* and the requests in flight, and tokens are neither made nor lost.       *)
(*                                                                         *)
(* The write pass is a recursive function over the block's transactions    *)
(* and, for each, over its operations.  What it leaves for any block is    *)
(* proved by induction (Reaches of DataLemmas).                            *)
(***************************************************************************)
EXTENDS ChainNode, DataLemmas

-----------------------------------------------------------------------------
(* What the operations of a write pass do, one after the other.             *)

RunChain(run, d0, ops, n) ==
    run = [i \in 0..n |-> IF i = 0 THEN d0 ELSE RunOp(run[i - 1], ops[i])]

\* RunOps is defined: the recursive function exists.
LEMMA RunChainExists ==
    ASSUME NEW d0, NEW ops, NEW n \in Nat
    PROVE  \E run : RunChain(run, d0, ops, n)
<1> DEFINE Good == {k \in Nat : \E run : RunChain(run, d0, ops, k)}
<1>1. 0 \in Good
  <2>1. RunChain([i \in 0..0 |-> d0], d0, ops, 0)
    BY DEF RunChain
  <2>2. QED
    BY <2>1
<1>2. ASSUME NEW k \in Nat, k \in Good
      PROVE  k + 1 \in Good
  <2>1. PICK f : RunChain(f, d0, ops, k)
    BY <1>2
  <2> PICK g : g = [i \in 0..(k + 1) |-> IF i <= k THEN f[i] ELSE RunOp(f[k], ops[k + 1])]
    OBVIOUS
  <2>2. \A i \in 0..k : f[i] = IF i = 0 THEN d0 ELSE RunOp(f[i - 1], ops[i])
    BY <2>1 DEF RunChain
  <2>3. \A i \in 0..(k + 1) : g[i] = IF i <= k THEN f[i] ELSE RunOp(f[k], ops[k + 1])
    OBVIOUS
  <2>4. \A i \in 0..(k + 1) : g[i] = IF i = 0 THEN d0 ELSE RunOp(g[i - 1], ops[i])
    BY <2>2, <2>3
  <2>5. RunChain(g, d0, ops, k + 1)
    BY <2>4 DEF RunChain
  <2>6. QED
    BY <2>5
<1> HIDE DEF Good
<1>3. 0..n \subseteq Good
    BY <1>1, <1>2, Reaches
<1>4. n \in Good
    BY <1>3
<1>5. QED
    BY <1>4 DEF Good

\* RunOps is the last of the stores its operations go through.
LEMMA RunOpsIs ==
    ASSUME NEW d0, NEW ops, Len(ops) \in Nat
    PROVE  \E run : RunChain(run, d0, ops, Len(ops)) /\ RunOps(d0, ops) = run[Len(ops)]
<1> DEFINE R == CHOOSE f : f = [i \in 0..Len(ops) |-> IF i = 0 THEN d0 ELSE RunOp(f[i - 1], ops[i])]
<1>1. \E run : RunChain(run, d0, ops, Len(ops))
    BY RunChainExists
<1>2. RunChain(R, d0, ops, Len(ops))
    BY <1>1 DEF RunChain
<1>3. RunOps(d0, ops) = R[Len(ops)]
    BY DEF RunOps
<1>4. QED
    BY <1>2, <1>3

\* Two to five operations, unrolled.
LEMMA RunOf2 ==
    ASSUME NEW d0, NEW a, NEW b
    PROVE  RunOps(d0, <<a, b>>) = RunOp(RunOp(d0, a), b)
<1> PICK ops : ops = <<a, b>>
    OBVIOUS
<1>1. Len(ops) = 2 /\ ops[1] = a /\ ops[2] = b
    OBVIOUS
<1>2. PICK run : RunChain(run, d0, ops, 2) /\ RunOps(d0, ops) = run[2]
    BY <1>1, RunOpsIs
<1>3. run[0] = d0 /\ run[1] = RunOp(run[0], a) /\ run[2] = RunOp(run[1], b)
    BY <1>1, <1>2 DEF RunChain
<1>4. QED
    BY <1>2, <1>3

LEMMA RunOf3 ==
    ASSUME NEW d0, NEW a, NEW b, NEW c
    PROVE  RunOps(d0, <<a, b, c>>) = RunOp(RunOp(RunOp(d0, a), b), c)
<1> PICK ops : ops = <<a, b, c>>
    OBVIOUS
<1>1. Len(ops) = 3 /\ ops[1] = a /\ ops[2] = b /\ ops[3] = c
    OBVIOUS
<1>2. PICK run : RunChain(run, d0, ops, 3) /\ RunOps(d0, ops) = run[3]
    BY <1>1, RunOpsIs
<1>3. /\ run[0] = d0 /\ run[1] = RunOp(run[0], a) /\ run[2] = RunOp(run[1], b)
      /\ run[3] = RunOp(run[2], c)
    BY <1>1, <1>2 DEF RunChain
<1>4. QED
    BY <1>2, <1>3

LEMMA RunOf4 ==
    ASSUME NEW d0, NEW a, NEW b, NEW c, NEW d
    PROVE  RunOps(d0, <<a, b, c, d>>) = RunOp(RunOp(RunOp(RunOp(d0, a), b), c), d)
<1> PICK ops : ops = <<a, b, c, d>>
    OBVIOUS
<1>1. Len(ops) = 4 /\ ops[1] = a /\ ops[2] = b /\ ops[3] = c /\ ops[4] = d
    OBVIOUS
<1>2. PICK run : RunChain(run, d0, ops, 4) /\ RunOps(d0, ops) = run[4]
    BY <1>1, RunOpsIs
<1>3. /\ run[0] = d0 /\ run[1] = RunOp(run[0], a) /\ run[2] = RunOp(run[1], b)
      /\ run[3] = RunOp(run[2], c) /\ run[4] = RunOp(run[3], d)
    BY <1>1, <1>2 DEF RunChain
<1>4. QED
    BY <1>2, <1>3

LEMMA RunOf5 ==
    ASSUME NEW d0, NEW a, NEW b, NEW c, NEW d, NEW e
    PROVE  RunOps(d0, <<a, b, c, d, e>>) = RunOp(RunOp(RunOp(RunOp(RunOp(d0, a), b), c), d), e)
<1> PICK ops : ops = <<a, b, c, d, e>>
    OBVIOUS
<1>1. Len(ops) = 5 /\ ops[1] = a /\ ops[2] = b /\ ops[3] = c /\ ops[4] = d /\ ops[5] = e
    OBVIOUS
<1>2. PICK run : RunChain(run, d0, ops, 5) /\ RunOps(d0, ops) = run[5]
    BY <1>1, RunOpsIs
<1>3. /\ run[0] = d0 /\ run[1] = RunOp(run[0], a) /\ run[2] = RunOp(run[1], b)
      /\ run[3] = RunOp(run[2], c) /\ run[4] = RunOp(run[3], d) /\ run[5] = RunOp(run[4], e)
    BY <1>1, <1>2 DEF RunChain
<1>4. QED
    BY <1>2, <1>3

\* The trees, with the types of the two that are computed with.
DbOK(d) ==
    /\ d = [tip_height |-> d.tip_height, tip_hash |-> d.tip_hash, blocks |-> d.blocks,
            balances |-> d.balances, nonces |-> d.nonces, txs |-> d.txs]
    /\ d.balances \in [Accounts -> Nat]
    /\ d.nonces \in [Accounts -> Nat]

\* d with other balances and nonces, the rest alone.
SameChain(e, d) == e.tip_height = d.tip_height /\ e.tip_hash = d.tip_hash /\ e.blocks = d.blocks

Wrap(v) == v % U64Modulus

\* One operation on a balance.
LEMMA BalanceOp ==
    ASSUME NEW d, DbOK(d), NEW a \in Accounts, NEW kind, kind # "put", NEW x,
           NEW e, e = RunOp(d, Op("balances", a, kind, x)),
           NEW v \in Nat, v = Value(Op("balances", a, kind, x), d.balances[a])
    PROVE  /\ DbOK(e) /\ SameChain(e, d) /\ e.nonces = d.nonces /\ e.txs = d.txs
           /\ e.balances = [d.balances EXCEPT ![a] = v]
<1> PICK op : op = Op("balances", a, kind, x)
    OBVIOUS
<1>1. op.tree = "balances" /\ op.key = a /\ op.kind = kind
    BY DEF Op
<1>2. Get(d, op) = d.balances[a]
    BY <1>1 DEF Get
<1>3. e = Set(d, op, v)
    BY <1>1, <1>2 DEF RunOp
<1>4. e = [d EXCEPT !.balances[a] = v]
    BY <1>1, <1>3 DEF Set
<1> PICK f : f = [d.balances EXCEPT ![a] = v]
    OBVIOUS
<1>5. f \in [Accounts -> Nat]
    BY DEF DbOK
<1>6. e = [d EXCEPT !.balances = f]
    BY <1>4
<1>7. d = [tip_height |-> d.tip_height, tip_hash |-> d.tip_hash, blocks |-> d.blocks,
           balances |-> d.balances, nonces |-> d.nonces, txs |-> d.txs]
    BY DEF DbOK
<1>8. e = [tip_height |-> d.tip_height, tip_hash |-> d.tip_hash, blocks |-> d.blocks,
           balances |-> f, nonces |-> d.nonces, txs |-> d.txs]
    BY <1>6, <1>7
<1>9. d.nonces \in [Accounts -> Nat]
    BY DEF DbOK
<1>10. QED
    BY <1>5, <1>8, <1>9 DEF DbOK, SameChain

\* The operation on a nonce.
LEMMA NonceOp ==
    ASSUME NEW d, DbOK(d), NEW a \in Accounts,
           NEW e, e = RunOp(d, Op("nonces", a, "credit", 1))
    PROVE  /\ DbOK(e) /\ SameChain(e, d) /\ e.balances = d.balances /\ e.txs = d.txs
           /\ e.nonces = [d.nonces EXCEPT ![a] = Wrap(d.nonces[a] + 1)]
<1> PICK op : op = Op("nonces", a, "credit", 1)
    OBVIOUS
<1>1. op.tree = "nonces" /\ op.key = a /\ op.kind = "credit" /\ op.arg = 1
    BY DEF Op
<1> PICK n \in Nat : n = d.nonces[a]
    BY DEF DbOK
<1> PICK v : v = Wrap(n + 1)
    OBVIOUS
<1>2. v \in Nat
    BY RulesAssumption DEF Wrap
<1>3. Get(d, op) = n
    BY <1>1 DEF Get
<1>4. Value(op, n) = v
    BY <1>1 DEF Value, Wrap
<1>5. e = Set(d, op, v)
    BY <1>1, <1>3, <1>4 DEF RunOp
<1>6. e = [d EXCEPT !.nonces[a] = v]
    BY <1>1, <1>5 DEF Set
<1> PICK f : f = [d.nonces EXCEPT ![a] = v]
    OBVIOUS
<1>7. f \in [Accounts -> Nat]
    BY <1>2 DEF DbOK
<1>8. e = [d EXCEPT !.nonces = f]
    BY <1>6
<1>9. d = [tip_height |-> d.tip_height, tip_hash |-> d.tip_hash, blocks |-> d.blocks,
           balances |-> d.balances, nonces |-> d.nonces, txs |-> d.txs]
    BY DEF DbOK
<1>10. e = [tip_height |-> d.tip_height, tip_hash |-> d.tip_hash, blocks |-> d.blocks,
            balances |-> d.balances, nonces |-> f, txs |-> d.txs]
    BY <1>8, <1>9
<1>11. d.balances \in [Accounts -> Nat]
    BY DEF DbOK
<1>12. QED
    BY <1>7, <1>10, <1>11 DEF DbOK, SameChain

\* A transaction is indexed by its id.
LEMMA IndexOp ==
    ASSUME NEW d, DbOK(d), NEW tx, NEW id,
           NEW e, e = RunOp(d, Op("txs", id, "put", tx))
    PROVE  /\ DbOK(e) /\ SameChain(e, d) /\ e.balances = d.balances /\ e.nonces = d.nonces
           /\ e.txs = d.txs \cup {id}
<1> PICK op : op = Op("txs", id, "put", tx)
    OBVIOUS
<1>1. op.tree = "txs" /\ op.key = id /\ op.kind = "put" /\ op.arg = tx
    BY DEF Op
<1>2. e = Set(d, op, tx)
    BY <1>1 DEF RunOp
<1>3. e = [d EXCEPT !.txs = d.txs \cup {id}]
    BY <1>1, <1>2 DEF Set
<1>4. d = [tip_height |-> d.tip_height, tip_hash |-> d.tip_hash, blocks |-> d.blocks,
           balances |-> d.balances, nonces |-> d.nonces, txs |-> d.txs]
    BY DEF DbOK
<1>5. e = [tip_height |-> d.tip_height, tip_hash |-> d.tip_hash, blocks |-> d.blocks,
           balances |-> d.balances, nonces |-> d.nonces, txs |-> d.txs \cup {id}]
    BY <1>3, <1>4
<1>6. d.balances \in [Accounts -> Nat] /\ d.nonces \in [Accounts -> Nat]
    BY DEF DbOK
<1>7. QED
    BY <1>5, <1>6 DEF DbOK, SameChain

\* The block is stored and the tip moves.
LEMMA TipOps ==
    ASSUME NEW d, DbOK(d), NEW b, NEW e, e = RunOps(d, BlockOps(b))
    PROVE  /\ DbOK(e) /\ e.balances = d.balances /\ e.nonces = d.nonces /\ e.txs = d.txs
           /\ e.tip_height = b.height /\ e.tip_hash = b.hash
           /\ e.blocks = [d.blocks EXCEPT ![b.height] = b]
<1> PICK o1 : o1 = Op("blocks", b.height, "put", b)
    OBVIOUS
<1> PICK o2 : o2 = Op("meta", "tip_height", "put", b.height)
    OBVIOUS
<1> PICK o3 : o3 = Op("meta", "tip_hash", "put", b.hash)
    OBVIOUS
<1> PICK d1 : d1 = RunOp(d, o1)
    OBVIOUS
<1> PICK d2 : d2 = RunOp(d1, o2)
    OBVIOUS
<1>1. e = RunOp(d2, o3)
    BY RunOf3 DEF BlockOps
<1>2. o1.tree = "blocks" /\ o1.key = b.height /\ o1.kind = "put" /\ o1.arg = b
    BY DEF Op
<1>3. o2.tree = "meta" /\ o2.key = "tip_height" /\ o2.kind = "put" /\ o2.arg = b.height
    BY DEF Op
<1>4. o3.tree = "meta" /\ o3.key = "tip_hash" /\ o3.kind = "put" /\ o3.arg = b.hash
    BY DEF Op
<1> PICK f : f = [d.blocks EXCEPT ![b.height] = b]
    OBVIOUS
<1>5. d = [tip_height |-> d.tip_height, tip_hash |-> d.tip_hash, blocks |-> d.blocks,
           balances |-> d.balances, nonces |-> d.nonces, txs |-> d.txs]
    BY DEF DbOK
<1>6. d1 = Set(d, o1, b) /\ d2 = Set(d1, o2, b.height) /\ e = Set(d2, o3, b.hash)
    BY <1>1, <1>2, <1>3, <1>4 DEF RunOp
<1>7. d1 = [d EXCEPT !.blocks[b.height] = b]
    BY <1>2, <1>6 DEF Set
<1>8. d1 = [d EXCEPT !.blocks = f]
    BY <1>7
<1>9. d1 = [tip_height |-> d.tip_height, tip_hash |-> d.tip_hash, blocks |-> f,
            balances |-> d.balances, nonces |-> d.nonces, txs |-> d.txs]
    BY <1>5, <1>8
<1>10. d2 = [d1 EXCEPT !.tip_height = b.height]
    BY <1>3, <1>6 DEF Set
<1>11. d2 = [tip_height |-> b.height, tip_hash |-> d.tip_hash, blocks |-> f,
             balances |-> d.balances, nonces |-> d.nonces, txs |-> d.txs]
    BY <1>9, <1>10
<1>12. e = [d2 EXCEPT !.tip_hash = b.hash]
    BY <1>4, <1>6 DEF Set
<1>13. e = [tip_height |-> b.height, tip_hash |-> b.hash, blocks |-> f,
            balances |-> d.balances, nonces |-> d.nonces, txs |-> d.txs]
    BY <1>11, <1>12
<1>14. d.balances \in [Accounts -> Nat] /\ d.nonces \in [Accounts -> Nat]
    BY DEF DbOK
<1>15. QED
    BY <1>13, <1>14 DEF DbOK

-----------------------------------------------------------------------------
(* What one transaction does.                                               *)

TxOK(tx) ==
    /\ tx.from \in Accounts \cup {GENESIS} /\ tx.to \in Accounts
    /\ tx.amount \in Nat /\ tx.fee \in Nat

Credited(f, a, x) == [f EXCEPT ![a] = Wrap(f[a] + x)]
Debited(f, a, x) == [f EXCEPT ![a] = Wrap(f[a] - x)]
Drained(f, a, x) == [f EXCEPT ![a] = IF f[a] < x THEN 0 ELSE f[a] - x]

\* u64 arithmetic stays in u64.
LEMMA WrapIsNat == \A v \in Int : Wrap(v) \in Nat
    BY RulesAssumption DEF Wrap

\* What fits does not wrap.
LEMMA WrapSmall ==
    ASSUME NEW v \in Nat, v < U64Modulus
    PROVE  Wrap(v) = v
    BY RulesAssumption DEF Wrap

\* The three ways a balance changes.
LEMMA CreditOp ==
    ASSUME NEW d, DbOK(d), NEW a \in Accounts, NEW x \in Nat,
           NEW op, op = Op("balances", a, "credit", x), NEW e, e = RunOp(d, op)
    PROVE  /\ DbOK(e) /\ SameChain(e, d) /\ e.nonces = d.nonces /\ e.txs = d.txs
           /\ e.balances = Credited(d.balances, a, x)
<1> PICK n \in Nat : n = d.balances[a]
    BY DEF DbOK
<1> PICK v \in Nat : v = Wrap(n + x)
    BY WrapIsNat
<1>1. v = Value(Op("balances", a, "credit", x), n)
    BY DEF Value, Op, Wrap
<1>2. QED
    BY <1>1, BalanceOp DEF Credited

LEMMA DebitOp ==
    ASSUME NEW d, DbOK(d), NEW a \in Accounts, NEW x \in Nat,
           NEW op, op = Op("balances", a, "debit", x), NEW e, e = RunOp(d, op)
    PROVE  /\ DbOK(e) /\ SameChain(e, d) /\ e.nonces = d.nonces /\ e.txs = d.txs
           /\ e.balances = Debited(d.balances, a, x)
<1> PICK n \in Nat : n = d.balances[a]
    BY DEF DbOK
<1> PICK v \in Nat : v = Wrap(n - x)
    BY WrapIsNat
<1>1. v = Value(Op("balances", a, "debit", x), n)
    BY DEF Value, Op, Wrap
<1>2. QED
    BY <1>1, BalanceOp DEF Debited

LEMMA DrainOp ==
    ASSUME NEW d, DbOK(d), NEW a \in Accounts, NEW x \in Nat,
           NEW op, op = Op("balances", a, "drain", x), NEW e, e = RunOp(d, op)
    PROVE  /\ DbOK(e) /\ SameChain(e, d) /\ e.nonces = d.nonces /\ e.txs = d.txs
           /\ e.balances = Drained(d.balances, a, x)
<1> PICK n \in Nat : n = d.balances[a]
    BY DEF DbOK
<1> PICK v \in Nat : v = IF n < x THEN 0 ELSE n - x
    OBVIOUS
<1>1. v = Value(Op("balances", a, "drain", x), n)
    BY DEF Value, Op
<1>2. QED
    BY <1>1, BalanceOp DEF Drained

\* The pool is an account and GENESIS is none.
LEMMA PoolIsNotGenesis == Pool # GENESIS /\ Pool \in Accounts /\ GENESIS \notin Accounts
    BY RulesAssumption DEF GENESIS

\* A short sequence between two pairs.
LEMMA Between ==
    ASSUME NEW a, NEW b, NEW c, NEW d, NEW e
    PROVE  /\ <<a, b>> \o <<c>> \o <<d, e>> = <<a, b, c, d, e>>
           /\ <<a, b>> \o <<>> \o <<d, e>> = <<a, b, d, e>>
<1>1. PICK S : S = {a, b, c, d, e}
    OBVIOUS
<1>2. PICK p, q, r : p = <<a, b>> /\ q = <<c>> /\ r = <<d, e>>
    OBVIOUS
<1>3. /\ p \in Seq(S) /\ Len(p) = 2 /\ p[1] = a /\ p[2] = b
      /\ q \in Seq(S) /\ Len(q) = 1 /\ q[1] = c
      /\ r \in Seq(S) /\ Len(r) = 2 /\ r[1] = d /\ r[2] = e
    BY <1>1, <1>2
<1>4. PICK u, v : u = p \o q /\ v = p \o r
    OBVIOUS
<1>5. /\ u \in Seq(S) /\ Len(u) = 3 /\ u[1] = a /\ u[2] = b /\ u[3] = c
      /\ v \in Seq(S) /\ Len(v) = 4 /\ v[1] = a /\ v[2] = b /\ v[3] = d /\ v[4] = e
  <2>0. /\ u \in Seq(S) /\ Len(u) = Len(p) + Len(q)
        /\ \A i \in 1..(Len(p) + Len(q)) : u[i] = IF i <= Len(p) THEN p[i] ELSE q[i - Len(p)]
    BY <1>3, <1>4, ConcatProperties
  <2>1. u \in Seq(S) /\ Len(u) = 3 /\ \A i \in 1..3 : u[i] = IF i <= 2 THEN p[i] ELSE q[i - 2]
    BY <1>3, <2>0
  <2>2. v \in Seq(S) /\ Len(v) = 4 /\ \A i \in 1..4 : v[i] = IF i <= 2 THEN p[i] ELSE r[i - 2]
    BY SMTT(30), <1>3, <1>4, ConcatProperties
  <2>3. QED
    BY <1>3, <2>1, <2>2
<1>6. PICK w : w = u \o r
    OBVIOUS
<1>7. w \in Seq(S) /\ Len(w) = 5 /\ w[1] = a /\ w[2] = b /\ w[3] = c /\ w[4] = d /\ w[5] = e
  <2>0. /\ w \in Seq(S) /\ Len(w) = Len(u) + Len(r)
        /\ \A i \in 1..(Len(u) + Len(r)) : w[i] = IF i <= Len(u) THEN u[i] ELSE r[i - Len(u)]
    BY <1>3, <1>5, <1>6, ConcatProperties
  <2>1. w \in Seq(S) /\ Len(w) = 5 /\ \A i \in 1..5 : w[i] = IF i <= 3 THEN u[i] ELSE r[i - 3]
    BY <1>3, <1>5, <2>0
  <2>2. QED
    BY <1>3, <1>5, <2>1
<1>8. PICK x, y : x = <<a, b, c, d, e>> /\ y = <<a, b, d, e>>
    OBVIOUS
<1>9. /\ x \in Seq(S) /\ Len(x) = 5 /\ x[1] = a /\ x[2] = b /\ x[3] = c /\ x[4] = d /\ x[5] = e
      /\ y \in Seq(S) /\ Len(y) = 4 /\ y[1] = a /\ y[2] = b /\ y[3] = d /\ y[4] = e
    BY <1>1, <1>8
<1>10. w = x
    BY <1>7, <1>9, SeqEqual
<1>11. v = y
    BY <1>5, <1>9, SeqEqual
<1>12. p \o <<>> = p
    BY <1>3, ConcatEmptySeq
<1>13. QED
    BY <1>2, <1>4, <1>6, <1>8, <1>10, <1>11, <1>12

\* What a transaction without a sender writes.
LEMMA GenesisTx ==
    ASSUME NEW d, DbOK(d), NEW b, NEW tx, TxOK(tx), tx.from = GENESIS,
           NEW e, e = RunOps(d, TxOps(b, tx))
    PROVE  /\ DbOK(e) /\ SameChain(e, d) /\ e.txs = d.txs \cup {tx.id}
           /\ e.nonces = d.nonces /\ e.balances = Credited(d.balances, tx.to, tx.amount)
<1>1. PICK o1, o2 : /\ o1 = Op("balances", tx.to, "credit", tx.amount)
                    /\ o2 = Op("txs", tx.id, "put", tx)
    OBVIOUS
<1>2. TxOps(b, tx) = <<o1, o2>>
    BY <1>1, PoolIsNotGenesis DEF TxOps
<1>3. PICK d1 : d1 = RunOp(d, o1)
    OBVIOUS
<1>4. e = RunOp(d1, o2)
    BY <1>2, <1>3, RunOf2
<1>5. tx.to \in Accounts /\ tx.amount \in Nat
    BY DEF TxOK
<1>6. /\ DbOK(d1) /\ SameChain(d1, d) /\ d1.nonces = d.nonces /\ d1.txs = d.txs
      /\ d1.balances = Credited(d.balances, tx.to, tx.amount)
    BY <1>1, <1>3, <1>5, CreditOp
<1>7. /\ DbOK(e) /\ SameChain(e, d1) /\ e.balances = d1.balances /\ e.nonces = d1.nonces
      /\ e.txs = d1.txs \cup {tx.id}
    BY <1>1, <1>4, <1>6, IndexOp
<1>8. QED
    BY <1>6, <1>7 DEF SameChain

\* What a reward writes.
LEMMA PoolTx ==
    ASSUME NEW d, DbOK(d), NEW b, NEW tx, TxOK(tx), tx.from = Pool,
           NEW e, e = RunOps(d, TxOps(b, tx))
    PROVE  /\ DbOK(e) /\ SameChain(e, d) /\ e.txs = d.txs \cup {tx.id}
           /\ e.nonces = d.nonces
           /\ e.balances = Credited(Drained(d.balances, Pool, tx.amount), tx.to, tx.amount)
<1>1. PICK o1, o2, o3 : /\ o1 = Op("balances", Pool, "drain", tx.amount)
                        /\ o2 = Op("balances", tx.to, "credit", tx.amount)
                        /\ o3 = Op("txs", tx.id, "put", tx)
    OBVIOUS
<1>2. TxOps(b, tx) = <<o1, o2, o3>>
    BY <1>1, PoolIsNotGenesis DEF TxOps
<1>3. PICK d1, d2 : d1 = RunOp(d, o1) /\ d2 = RunOp(d1, o2)
    OBVIOUS
<1>4. e = RunOp(d2, o3)
    BY <1>2, <1>3, RunOf3
<1>5. tx.to \in Accounts /\ tx.amount \in Nat
    BY DEF TxOK
<1>6. /\ DbOK(d1) /\ SameChain(d1, d) /\ d1.nonces = d.nonces /\ d1.txs = d.txs
      /\ d1.balances = Drained(d.balances, Pool, tx.amount)
    BY <1>1, <1>3, <1>5, DrainOp, PoolIsNotGenesis
<1>7. /\ DbOK(d2) /\ SameChain(d2, d1) /\ d2.nonces = d1.nonces /\ d2.txs = d1.txs
      /\ d2.balances = Credited(d1.balances, tx.to, tx.amount)
    BY <1>1, <1>3, <1>5, <1>6, CreditOp
<1>8. /\ DbOK(e) /\ SameChain(e, d2) /\ e.balances = d2.balances /\ e.nonces = d2.nonces
      /\ e.txs = d2.txs \cup {tx.id}
    BY <1>1, <1>4, <1>7, IndexOp
<1>9. QED
    BY <1>6, <1>7, <1>8 DEF SameChain

\* What a sender pays goes to the receiver and the validator.
Paid(f, b, tx) ==
    LET sent == Debited(f, tx.from, Cost(tx)) IN
    Credited(IF tx.fee > 0 THEN Credited(sent, b.validator, tx.fee) ELSE sent, tx.to, tx.amount)

UserEffect(e, d, b, tx) ==
    /\ DbOK(e) /\ SameChain(e, d) /\ e.txs = d.txs \cup {tx.id}
    /\ e.nonces = [d.nonces EXCEPT ![tx.from] = Wrap(d.nonces[tx.from] + 1)]
    /\ e.balances = Paid(d.balances, b, tx)

\* What a user's transaction writes.
LEMMA UserTx ==
    ASSUME NEW d, DbOK(d), NEW b, b.validator \in Accounts,
           NEW tx, TxOK(tx), IsUserTx(tx),
           NEW e, e = RunOps(d, TxOps(b, tx))
    PROVE  UserEffect(e, d, b, tx)
<1>1. tx.from \in Accounts /\ Cost(tx) \in Nat
    BY PoolIsNotGenesis DEF TxOK, IsUserTx, Cost
<1>2. tx.to \in Accounts /\ tx.amount \in Nat /\ tx.fee \in Nat
    BY DEF TxOK
<1>p. PICK o1 : o1 = Op("balances", tx.from, "debit", Cost(tx))
    OBVIOUS
<1>q. PICK o2 : o2 = Op("nonces", tx.from, "credit", 1)
    OBVIOUS
<1>r. PICK o3 : o3 = Op("balances", b.validator, "credit", tx.fee)
    OBVIOUS
<1>s. PICK o4 : o4 = Op("balances", tx.to, "credit", tx.amount)
    OBVIOUS
<1>t. PICK o5 : o5 = Op("txs", tx.id, "put", tx)
    OBVIOUS
<1>o. TxOps(b, tx) = <<o1, o2>> \o (IF tx.fee > 0 THEN <<o3>> ELSE <<>>) \o <<o4, o5>>
  <2>1. tx.from # GENESIS /\ tx.from # Pool /\ b.validator # GENESIS
    BY PoolIsNotGenesis DEF IsUserTx
  <2>2. QED
    BY <2>1, <1>p, <1>q, <1>r, <1>s, <1>t DEF TxOps
<1>a. PICK d1 : d1 = RunOp(d, o1)
    OBVIOUS
<1>b. PICK d2 : d2 = RunOp(d1, o2)
    OBVIOUS
<1>3. /\ DbOK(d1) /\ SameChain(d1, d) /\ d1.nonces = d.nonces /\ d1.txs = d.txs
      /\ d1.balances = Debited(d.balances, tx.from, Cost(tx))
    BY <1>1, <1>p, <1>a, DebitOp
<1>4. /\ DbOK(d2) /\ SameChain(d2, d1) /\ d2.balances = d1.balances /\ d2.txs = d1.txs
      /\ d2.nonces = [d1.nonces EXCEPT ![tx.from] = Wrap(d1.nonces[tx.from] + 1)]
    BY <1>1, <1>q, <1>b, <1>3, NonceOp
<1>5. \E d3 : /\ e = RunOp(RunOp(d3, o4), o5)
              /\ DbOK(d3) /\ SameChain(d3, d2) /\ d3.nonces = d2.nonces /\ d3.txs = d2.txs
              /\ d3.balances = IF tx.fee > 0 THEN Credited(d2.balances, b.validator, tx.fee)
                                             ELSE d2.balances
  <2>1. CASE tx.fee > 0
    <3>1. TxOps(b, tx) = <<o1, o2, o3, o4, o5>>
      BY SMTT(30), <1>o, <2>1, Between
    <3>d. PICK d3 : d3 = RunOp(d2, o3)
      OBVIOUS
    <3>2. e = RunOp(RunOp(d3, o4), o5)
      BY <1>a, <1>b, <3>d, <3>1, RunOf5
    <3>3. /\ DbOK(d3) /\ SameChain(d3, d2) /\ d3.nonces = d2.nonces /\ d3.txs = d2.txs
          /\ d3.balances = Credited(d2.balances, b.validator, tx.fee)
      <4>1. DbOK(d2) /\ tx.fee \in Nat
        BY <1>2, <1>4
      <4>2. QED
        BY <4>1, <1>r, <3>d, CreditOp
    <3>4. QED
      BY <2>1, <3>2, <3>3
  <2>2. CASE ~(tx.fee > 0)
    <3>1. TxOps(b, tx) = <<o1, o2, o4, o5>>
      BY <1>o, <2>2, Between
    <3>2. e = RunOp(RunOp(d2, o4), o5)
      BY <1>a, <1>b, <3>1, RunOf4
    <3>3. SameChain(d2, d2)
      BY DEF SameChain
    <3>4. QED
      BY <1>4, <2>2, <3>2, <3>3
  <2>3. QED
    BY <2>1, <2>2
<1>6. PICK d3 : /\ e = RunOp(RunOp(d3, o4), o5)
                /\ DbOK(d3) /\ SameChain(d3, d2) /\ d3.nonces = d2.nonces /\ d3.txs = d2.txs
                /\ d3.balances = IF tx.fee > 0 THEN Credited(d2.balances, b.validator, tx.fee)
                                               ELSE d2.balances
    BY <1>5
<1>e. PICK d4 : d4 = RunOp(d3, o4)
    OBVIOUS
<1>7. /\ DbOK(d4) /\ SameChain(d4, d3) /\ d4.nonces = d3.nonces /\ d4.txs = d3.txs
      /\ d4.balances = Credited(d3.balances, tx.to, tx.amount)
  <2>1. DbOK(d3) /\ tx.to \in Accounts /\ tx.amount \in Nat
    BY <1>2, <1>6
  <2>2. QED
    BY ONLY <2>1, <1>s, <1>e, CreditOp
<1>8. /\ DbOK(e) /\ SameChain(e, d4) /\ e.balances = d4.balances /\ e.nonces = d4.nonces
      /\ e.txs = d4.txs \cup {tx.id}
    BY <1>t, <1>e, <1>6, <1>7, IndexOp
<1>9. e.balances = Paid(d.balances, b, tx)
    BY <1>3, <1>4, <1>6, <1>7, <1>8 DEF Paid
<1>10. QED
    BY <1>3, <1>4, <1>6, <1>7, <1>8, <1>9 DEF SameChain, UserEffect

-----------------------------------------------------------------------------
(* What a block does, transaction by transaction.                           *)

BlockOK(b) ==
    /\ Len(b.txs) \in Nat
    /\ \A i \in 1..Len(b.txs) : TxOK(b.txs[i])
    /\ b.validator \in Accounts

TxChain(after, d0, b, n) ==
    after = [i \in 0..n |-> IF i = 0 THEN d0 ELSE RunOps(after[i - 1], TxOps(b, b.txs[i]))]

\* Committed is defined: the recursive function over the transactions exists.
LEMMA TxChainExists ==
    ASSUME NEW d0, NEW b, NEW n \in Nat
    PROVE  \E after : TxChain(after, d0, b, n)
<1> DEFINE Good == {k \in Nat : \E after : TxChain(after, d0, b, k)}
<1>1. 0 \in Good
  <2>1. TxChain([i \in 0..0 |-> d0], d0, b, 0)
    BY DEF TxChain
  <2>2. QED
    BY <2>1
<1>2. ASSUME NEW k \in Nat, k \in Good
      PROVE  k + 1 \in Good
  <2>1. PICK f : TxChain(f, d0, b, k)
    BY <1>2
  <2>2. PICK g : g = [i \in 0..(k + 1) |->
                        IF i <= k THEN f[i] ELSE RunOps(f[k], TxOps(b, b.txs[k + 1]))]
    OBVIOUS
  <2>3. \A i \in 0..k : f[i] = IF i = 0 THEN d0 ELSE RunOps(f[i - 1], TxOps(b, b.txs[i]))
    BY <2>1 DEF TxChain
  <2>4. \A i \in 0..(k + 1) : g[i] = IF i <= k THEN f[i] ELSE RunOps(f[k], TxOps(b, b.txs[k + 1]))
    BY <2>2
  <2>5. \A i \in 0..(k + 1) : g[i] = IF i = 0 THEN d0 ELSE RunOps(g[i - 1], TxOps(b, b.txs[i]))
    BY <2>3, <2>4
  <2>6. TxChain(g, d0, b, k + 1)
    BY <2>2, <2>5 DEF TxChain
  <2>7. QED
    BY <2>6
<1> HIDE DEF Good
<1>3. 0..n \subseteq Good
    BY <1>1, <1>2, Reaches
<1>4. n \in Good
    BY <1>3
<1>5. QED
    BY <1>4 DEF Good

\* Committed is the tip's operations on the last of those stores.
LEMMA CommittedIs ==
    ASSUME NEW d0, NEW b, Len(b.txs) \in Nat
    PROVE  \E after : /\ TxChain(after, d0, b, Len(b.txs))
                      /\ Committed(d0, b) = RunOps(after[Len(b.txs)], BlockOps(b))
<1> DEFINE A == CHOOSE f : f = [i \in 0..Len(b.txs) |->
                    IF i = 0 THEN d0 ELSE RunOps(f[i - 1], TxOps(b, b.txs[i]))]
<1>1. \E after : TxChain(after, d0, b, Len(b.txs))
    BY TxChainExists
<1>2. TxChain(A, d0, b, Len(b.txs))
    BY <1>1 DEF TxChain
<1>3. Committed(d0, b) = RunOps(A[Len(b.txs)], BlockOps(b))
    BY DEF Committed
<1>4. QED
    BY <1>2, <1>3

\* The transactions a has sent among the first i of the block.
SentBy(b, a, i) == {j \in 1..i : IsUserTx(b.txs[j]) /\ b.txs[j].from = a}

\* The transactions a sender has among the first i.
LEMMA SentByType ==
    ASSUME NEW b, NEW a, NEW i \in Nat
    PROVE  IsFiniteSet(SentBy(b, a, i)) /\ Cardinality(SentBy(b, a, i)) \in 0..i
<1>1. SentBy(b, a, i) \subseteq 1..i
    BY DEF SentBy
<1>2. IsFiniteSet(1..i) /\ Cardinality(1..i) = i
    BY FS_Interval
<1>3. QED
    BY <1>1, <1>2, FS_Subset, FS_CardinalityType

LEMMA SentByNext ==
    ASSUME NEW b, NEW a, NEW i \in Nat
    PROVE  Cardinality(SentBy(b, a, i + 1)) =
             Cardinality(SentBy(b, a, i)) +
             (IF IsUserTx(b.txs[i + 1]) /\ b.txs[i + 1].from = a THEN 1 ELSE 0)
<1>1. IsFiniteSet(SentBy(b, a, i)) /\ Cardinality(SentBy(b, a, i)) \in Nat
    BY SentByType
<1>2. i + 1 \notin SentBy(b, a, i)
    BY DEF SentBy
<1>3. CASE IsUserTx(b.txs[i + 1]) /\ b.txs[i + 1].from = a
  <2>1. SentBy(b, a, i + 1) = SentBy(b, a, i) \cup {i + 1}
    BY <1>3 DEF SentBy
  <2>2. QED
    BY <1>1, <1>2, <1>3, <2>1, FS_AddElement
<1>4. CASE ~(IsUserTx(b.txs[i + 1]) /\ b.txs[i + 1].from = a)
  <2>1. SentBy(b, a, i + 1) = SentBy(b, a, i)
    BY <1>4 DEF SentBy
  <2>2. QED
    BY <1>1, <1>4, <2>1
<1>5. QED
    BY <1>3, <1>4

\* The trees after the first i transactions: what is indexed and the nonces.
AfterTxs(e, d0, b, i) ==
    /\ DbOK(e) /\ SameChain(e, d0)
    /\ e.txs = d0.txs \cup {b.txs[j].id : j \in 1..i}
    /\ \A a \in Accounts : e.nonces[a] = d0.nonces[a] + Cardinality(SentBy(b, a, i))

\* No sender's nonce comes near the width of a u64.
NoncesFit(d0, b) == \A a \in Accounts : d0.nonces[a] + Len(b.txs) < U64Modulus

\* What the first i transactions leave, for one more.
LEMMA OneMoreTx ==
    ASSUME NEW d0, DbOK(d0), NEW b, BlockOK(b), NEW i \in 0..(Len(b.txs) - 1),
           NoncesFit(d0, b),
           NEW d, AfterTxs(d, d0, b, i),
           NEW e, e = RunOps(d, TxOps(b, b.txs[i + 1]))
    PROVE  AfterTxs(e, d0, b, i + 1)
<1>1. PICK tx : tx = b.txs[i + 1]
    OBVIOUS
<1>2. TxOK(tx) /\ b.validator \in Accounts /\ i \in Nat /\ i + 1 <= Len(b.txs) /\ Len(b.txs) \in Nat
    BY <1>1 DEF BlockOK
<1>3. DbOK(d)
    BY DEF AfterTxs
<1>4. /\ DbOK(e) /\ SameChain(e, d) /\ e.txs = d.txs \cup {tx.id}
      /\ e.nonces = IF IsUserTx(tx) THEN [d.nonces EXCEPT ![tx.from] = Wrap(d.nonces[tx.from] + 1)]
                                    ELSE d.nonces
  <2>1. CASE IsUserTx(tx)
    <3>1. e = RunOps(d, TxOps(b, tx))
      BY <1>1
    <3>2. UserEffect(e, d, b, tx)
      BY <1>2, <1>3, <2>1, <3>1, UserTx
    <3>3. QED
      BY <2>1, <3>2 DEF UserEffect
  <2>2. CASE tx.from = GENESIS
    <3>1. e = RunOps(d, TxOps(b, tx)) /\ ~IsUserTx(tx)
      BY <1>1, <2>2 DEF IsUserTx
    <3>2. QED
      BY <1>2, <1>3, <2>2, <3>1, GenesisTx
  <2>3. CASE tx.from = Pool
    <3>1. e = RunOps(d, TxOps(b, tx)) /\ ~IsUserTx(tx)
      BY <1>1, <2>3 DEF IsUserTx
    <3>2. QED
      BY <1>2, <1>3, <2>3, <3>1, PoolTx
  <2>4. QED
    BY <2>1, <2>2, <2>3 DEF IsUserTx
<1>5. SameChain(e, d0)
    BY <1>4 DEF AfterTxs, SameChain
<1>6. e.txs = d0.txs \cup {b.txs[j].id : j \in 1..(i + 1)}
  <2>1. e.txs = (d0.txs \cup {b.txs[j].id : j \in 1..i}) \cup {b.txs[i + 1].id}
    BY <1>1, <1>4 DEF AfterTxs
  <2>2. 1..(i + 1) = 1..i \cup {i + 1}
    BY <1>2
  <2>3. QED
    BY <2>1, <2>2
<1>7. ASSUME NEW a \in Accounts
      PROVE  e.nonces[a] = d0.nonces[a] + Cardinality(SentBy(b, a, i + 1))
  <2>1. PICK k \in Nat : k = Cardinality(SentBy(b, a, i)) /\ k <= i
    BY <1>2, SentByType
  <2>2. PICK n \in Nat : n = d0.nonces[a]
    BY DEF DbOK
  <2>3. d.nonces[a] = n + k
    BY <1>7, <2>1, <2>2 DEF AfterTxs
  <2>4. n + k + 1 < U64Modulus
    BY SMTT(30), <1>2, <1>7, <2>1, <2>2, RulesAssumption DEF NoncesFit
  <2>5. Wrap(n + k + 1) = n + k + 1
    <3>1. n + k + 1 \in Nat
      BY <1>2, <2>1, <2>2
    <3>2. QED
      BY <2>4, <3>1, WrapSmall
  <2>6. CASE IsUserTx(tx) /\ tx.from = a
    <3>1. e.nonces[a] = Wrap(n + k + 1)
      BY <1>3, <1>4, <1>7, <2>3, <2>6 DEF DbOK
    <3>2. Cardinality(SentBy(b, a, i + 1)) = k + 1
      BY <1>1, <1>2, <2>1, <2>6, SentByNext
    <3>3. e.nonces[a] = n + k + 1
      BY <2>5, <3>1
    <3>4. n + k + 1 = n + (k + 1)
      OBVIOUS
    <3>5. QED
      BY <2>2, <3>2, <3>3, <3>4
  <2>7. CASE ~(IsUserTx(tx) /\ tx.from = a)
    <3>1. e.nonces[a] = d.nonces[a]
      BY <1>3, <1>4, <1>7, <2>7 DEF DbOK
    <3>2. Cardinality(SentBy(b, a, i + 1)) = k
      BY <1>1, <1>2, <2>1, <2>7, SentByNext
    <3>3. QED
      BY <2>2, <2>3, <3>1, <3>2
  <2>8. QED
    BY <2>6, <2>7
<1>8. QED
    BY <1>4, <1>5, <1>6, <1>7 DEF AfterTxs

CommitEffect(e, d0, b) ==
    /\ e.tip_height = b.height /\ e.tip_hash = b.hash
    /\ e.blocks = [d0.blocks EXCEPT ![b.height] = b]
    /\ e.txs = d0.txs \cup {b.txs[j].id : j \in 1..Len(b.txs)}
    /\ \A a \in Accounts :
          e.nonces[a] = d0.nonces[a] + Cardinality(SentBy(b, a, Len(b.txs)))

\* What apply_block's write pass leaves, whatever the block holds.
LEMMA CommittedSound ==
    ASSUME NEW d0, DbOK(d0), NEW b, BlockOK(b),
           NoncesFit(d0, b),
           NEW e, e = Committed(d0, b)
    PROVE  DbOK(e) /\ CommitEffect(e, d0, b)
<1>1. PICK n \in Nat : n = Len(b.txs)
    BY DEF BlockOK
<1>2. PICK after : TxChain(after, d0, b, n) /\ e = RunOps(after[n], BlockOps(b))
    BY <1>1, CommittedIs
<1>3. /\ after[0] = d0
      /\ \A i \in 0..(n - 1) : after[i + 1] = RunOps(after[i], TxOps(b, b.txs[i + 1]))
    BY <1>1, <1>2 DEF TxChain
<1> DEFINE Good == {i \in 0..n : AfterTxs(after[i], d0, b, i)}
<1>4. 0 \in Good
  <2>1. ASSUME NEW a \in Accounts
        PROVE  d0.nonces[a] = d0.nonces[a] + Cardinality(SentBy(b, a, 0))
    <3>1. SentBy(b, a, 0) = {}
      BY DEF SentBy
    <3>2. Cardinality(SentBy(b, a, 0)) = 0
      BY <3>1, FS_EmptySet
    <3>3. d0.nonces[a] \in Nat
      BY <2>1 DEF DbOK
    <3>4. QED
      BY <3>2, <3>3
  <2>2. AfterTxs(d0, d0, b, 0)
    BY <2>1 DEF AfterTxs, SameChain
  <2>3. QED
    BY <1>3, <2>2
<1>5. ASSUME NEW i \in 0..(n - 1), i \in Good
      PROVE  i + 1 \in Good
  <2>1. AfterTxs(after[i], d0, b, i)
    BY <1>5
  <2>2. AfterTxs(after[i + 1], d0, b, i + 1)
    BY <1>1, <1>3, <2>1, OneMoreTx
  <2>3. QED
    BY <2>2
<1> HIDE DEF Good
<1>6. 0..n \subseteq Good
    BY <1>4, <1>5, Reaches
<1>7. AfterTxs(after[n], d0, b, n)
    BY <1>6 DEF Good
<1>8. PICK d : d = after[n]
    OBVIOUS
<1>9. DbOK(d) /\ SameChain(d, d0)
    BY <1>7, <1>8 DEF AfterTxs
<1>10. /\ DbOK(e) /\ e.nonces = d.nonces /\ e.txs = d.txs
       /\ e.tip_height = b.height /\ e.tip_hash = b.hash
       /\ e.blocks = [d.blocks EXCEPT ![b.height] = b]
    BY <1>2, <1>8, <1>9, TipOps
<1>11. QED
    BY <1>1, <1>7, <1>8, <1>9, <1>10 DEF AfterTxs, SameChain, CommitEffect

-----------------------------------------------------------------------------
(* The node.  There are three kinds of transactions, and their ids tell     *)
(* them apart.  A client's carries its nonce, which a block confirms only    *)
(* when it is the sender's next; an action's uuid is new, and is in one      *)
(* place at a time between its submission and its block; a reward's carries  *)
(* the height of its block.                                                  *)

ClientLike(tx) ==
    TxOK(tx) /\ IsUserTx(tx) /\ tx.nonce \in Nat /\ has_expected_id(tx)

ActionLike(tx) ==
    TxOK(tx) /\ tx.from = GENESIS /\ tx.amount = 0 /\ tx.fee = 0
    /\ \E k \in Nat : k < actions /\ tx.id = <<"uuid", k>>

Pending(tx) == ClientLike(tx) \/ ActionLike(tx)

RewardLike(tx, height) ==
    /\ TxOK(tx) /\ tx.from = Pool /\ tx.fee = 0
    /\ tx.id = compute_id(Pool, tx.to, tx.amount, 0, height, tx.timestamp, "reward")

\* A block of this node or of a peer: its reward, then transactions with ids of
\* their own.
BlockLike(b) ==
    /\ b.height \in 1..MaxHeight /\ b.validator \in Accounts
    /\ Len(b.txs) \in 1..(BlockLimit + 2)
    /\ RewardLike(b.txs[1], b.height)
    /\ \A i \in 2..Len(b.txs) : Pending(b.txs[i])
    /\ \A i, j \in 2..Len(b.txs) : b.txs[i].id = b.txs[j].id => i = j

\* The pool: pending transactions, keyed by id.
PoolSound ==
    /\ actions \in Nat
    /\ DOMAIN adding = Clients
    /\ \A m \in mempool : Pending(m)
    /\ \A m, n \in mempool : m.id = n.id => m = n
    /\ \A c \in Clients : adding[c] # NoTx => Pending(adding[c])

Drafted == producer.step \in {"apply", "remove"}

\* The tick in progress.
DraftSound ==
    /\ producer = [step |-> producer.step, draft |-> producer.draft]
    /\ producer.step \in {"idle", "take", "apply", "remove"}
    /\ producer.step = "take" => producer.draft.height \in 1..MaxHeight
    /\ Drafted => BlockLike(producer.draft)
    /\ producer.step = "remove" =>
         \A i \in 1..Len(producer.draft.txs) : producer.draft.txs[i].id \in db.txs

InDraft(id) == Drafted /\ \E i \in 1..Len(producer.draft.txs) : producer.draft.txs[i].id = id

\* An action that has not been inserted is nowhere else; one in the pool is not
\* confirmed, unless the tick is about to remove it; a draft's are not confirmed
\* before it is applied.
Alone(c) ==
    /\ adding[c].id \notin db.txs
    /\ \A m \in mempool : m.id # adding[c].id
    /\ ~InDraft(adding[c].id)
    /\ \A d \in Clients : adding[d] # NoTx /\ adding[d].id = adding[c].id => d = c

AddingNew == \A c \in Clients : adding[c] # NoTx /\ adding[c].from = GENESIS => Alone(c)

PoolNew ==
    \A m \in mempool : m.from = GENESIS /\ m.id \in db.txs =>
        producer.step = "remove" /\ InDraft(m.id)

DraftNew ==
    producer.step = "apply" =>
        \A i \in 1..Len(producer.draft.txs) :
            producer.draft.txs[i].from = GENESIS => producer.draft.txs[i].id \notin db.txs

\* The chain of a store: its blocks, and no transaction in two places.
StoredIn(d, h) ==
    /\ BlockLike(d.blocks[h]) /\ d.blocks[h].height = h
    /\ \A i \in 1..Len(d.blocks[h].txs) :
         /\ d.blocks[h].txs[i].id \in d.txs
         /\ IsUserTx(d.blocks[h].txs[i]) =>
              d.blocks[h].txs[i].nonce < d.nonces[d.blocks[h].txs[i].from]

OnceIn(d) ==
    \A h, g \in 1..d.tip_height :
      \A i \in 1..Len(d.blocks[h].txs), j \in 1..Len(d.blocks[g].txs) :
         d.blocks[h].txs[i].id = d.blocks[g].txs[j].id => h = g /\ i = j

NoncesBelow(d) == \A a \in Accounts : d.nonces[a] <= (BlockLimit + 2) * d.tip_height

ChainOf(d) ==
    /\ DbOK(d)
    /\ d.tip_height \in 0..MaxHeight /\ DOMAIN d.blocks = 1..MaxHeight
    /\ NoncesBelow(d)
    /\ \A h \in 1..d.tip_height : StoredIn(d, h)
    /\ OnceIn(d)

ChainSound == ChainOf(db)

NodeInv == PoolSound /\ DraftSound /\ AddingNew /\ PoolNew /\ DraftNew /\ ChainSound

-----------------------------------------------------------------------------
(* Ids.                                                                     *)

\* An id is made of the fields; a uuid is of another kind.
LEMMA IdsOfFields ==
    ASSUME NEW f, NEW t, NEW a, NEW e, NEW n, NEW s, NEW d,
           NEW f2, NEW t2, NEW a2, NEW e2, NEW n2, NEW s2, NEW d2,
           compute_id(f, t, a, e, n, s, d) = compute_id(f2, t2, a2, e2, n2, s2, d2)
    PROVE  f = f2 /\ n = n2
    BY DEF compute_id

LEMMA IdsOfUuids ==
    ASSUME NEW f, NEW t, NEW a, NEW e, NEW n, NEW s, NEW d, NEW k
    PROVE  compute_id(f, t, a, e, n, s, d) # <<"uuid", k>>
<1>1. Len(<<"uuid", k>>) = 2 /\ Len(<<f, t, a, e, n, s, d>>) = 7
    OBVIOUS
<1>2. QED
    BY <1>1 DEF compute_id

\* A client's, an action's and a reward's id are never the same.
LEMMA IdsByKind ==
    /\ \A x, y : ClientLike(x) /\ ActionLike(y) => x.id # y.id
    /\ \A x, y, h : RewardLike(x, h) /\ ActionLike(y) => x.id # y.id
    /\ \A x, y, h : RewardLike(x, h) /\ ClientLike(y) => x.id # y.id
<1>1. ASSUME NEW x, NEW y, ClientLike(x), ActionLike(y), x.id = y.id PROVE FALSE
    BY <1>1, IdsOfUuids DEF ClientLike, ActionLike, has_expected_id
<1>2. ASSUME NEW x, NEW y, NEW h, RewardLike(x, h), ActionLike(y), x.id = y.id PROVE FALSE
    BY <1>2, IdsOfUuids DEF RewardLike, ActionLike
<1>3. ASSUME NEW x, NEW y, NEW h, RewardLike(x, h), ClientLike(y), x.id = y.id PROVE FALSE
  <2>1. compute_id(Pool, x.to, x.amount, 0, h, x.timestamp, "reward") =
        compute_id(y.from, y.to, y.amount, y.fee, y.nonce, y.timestamp, y.data)
    BY <1>3 DEF RewardLike, ClientLike, has_expected_id
  <2>2. Pool = y.from
    BY <2>1, IdsOfFields
  <2>3. QED
    BY <1>3, <2>2 DEF ClientLike, IsUserTx
<1>4. QED
    BY <1>1, <1>2, <1>3

\* Clients' ids carry the sender and its nonce, rewards' the height.
LEMMA IdsCarry ==
    /\ \A x, y : ClientLike(x) /\ ClientLike(y) /\ x.id = y.id =>
         x.from = y.from /\ x.nonce = y.nonce
    /\ \A x, y, g, h : RewardLike(x, g) /\ RewardLike(y, h) /\ x.id = y.id => g = h
<1>1. ASSUME NEW x, NEW y, ClientLike(x), ClientLike(y), x.id = y.id
      PROVE  x.from = y.from /\ x.nonce = y.nonce
  <2>1. compute_id(x.from, x.to, x.amount, x.fee, x.nonce, x.timestamp, x.data) =
        compute_id(y.from, y.to, y.amount, y.fee, y.nonce, y.timestamp, y.data)
    BY <1>1 DEF ClientLike, has_expected_id
  <2>2. QED
    BY <2>1, IdsOfFields
<1>2. ASSUME NEW x, NEW y, NEW g, NEW h, RewardLike(x, g), RewardLike(y, h), x.id = y.id
      PROVE  g = h
  <2>1. compute_id(Pool, x.to, x.amount, 0, g, x.timestamp, "reward") =
        compute_id(Pool, y.to, y.amount, 0, h, y.timestamp, "reward")
    BY <1>2 DEF RewardLike
  <2>2. QED
    BY <2>1, IdsOfFields
<1>3. QED
    BY <1>1, <1>2

\* A pending transaction is a client's or an action.
LEMMA KindsOfPending ==
    ASSUME NEW tx, Pending(tx)
    PROVE  /\ TxOK(tx)
           /\ tx.from = GENESIS => ActionLike(tx)
           /\ tx.from # GENESIS => ClientLike(tx) /\ IsUserTx(tx)
    BY DEF Pending, ClientLike, ActionLike, IsUserTx

\* What is pending stays so: actions are only counted up.
LEMMA PendingStays ==
    ASSUME actions \in Nat, actions' \in Nat, actions <= actions', NEW tx, Pending(tx)
    PROVE  Pending(tx)'
<1>1. CASE ClientLike(tx)
    BY <1>1 DEF Pending, ClientLike
<1>2. CASE ActionLike(tx)
  <2>1. PICK k \in Nat : k < actions /\ tx.id = <<"uuid", k>>
    BY <1>2 DEF ActionLike
  <2>2. k < actions'
    BY <2>1
  <2>3. QED
    BY <1>2, <2>1, <2>2 DEF Pending, ActionLike
<1>3. QED
    BY <1>1, <1>2 DEF Pending

LEMMA BlockLikeStays ==
    ASSUME actions \in Nat, actions' \in Nat, actions <= actions', NEW b, BlockLike(b)
    PROVE  BlockLike(b)'
<1>1. \A i \in 2..Len(b.txs) : Pending(b.txs[i])'
    BY PendingStays DEF BlockLike
<1>2. QED
    BY <1>1 DEF BlockLike, RewardLike

\* A block is one the write pass is defined on.
LEMMA BlockLikeOK ==
    ASSUME NEW b, BlockLike(b)
    PROVE  BlockOK(b) /\ Len(b.txs) \in 1..(BlockLimit + 2)
<1>1. Len(b.txs) \in 1..(BlockLimit + 2) /\ Len(b.txs) \in Nat
    BY NodeAssumption DEF BlockLike
<1>2. ASSUME NEW i \in 1..Len(b.txs) PROVE TxOK(b.txs[i])
  <2>1. CASE i = 1
    BY <2>1 DEF BlockLike, RewardLike
  <2>2. CASE i # 1
    <3>1. i \in 2..Len(b.txs)
      BY <1>1, <2>2
    <3>2. QED
      BY <3>1, KindsOfPending DEF BlockLike
  <2>3. QED
    BY <2>1, <2>2
<1>3. QED
    BY <1>1, <1>2 DEF BlockOK, BlockLike

\* The ids of a block are its own.
LEMMA BlockIdsDiffer ==
    ASSUME NEW b, BlockLike(b), NEW i \in 1..Len(b.txs), NEW j \in 1..Len(b.txs),
           b.txs[i].id = b.txs[j].id
    PROVE  i = j
<1>1. Len(b.txs) \in Nat
    BY BlockLikeOK DEF BlockOK
<1>2. ASSUME NEW k \in 1..Len(b.txs), k # 1 PROVE b.txs[k].id # b.txs[1].id
  <2>1. Pending(b.txs[k])
    BY <1>1, <1>2 DEF BlockLike
  <2>2. RewardLike(b.txs[1], b.height)
    BY DEF BlockLike
  <2>3. QED
    BY <2>1, <2>2, IdsByKind DEF Pending
<1>3. CASE i = 1 \/ j = 1
    BY <1>2, <1>3
<1>4. CASE i # 1 /\ j # 1
  <2>1. i \in 2..Len(b.txs) /\ j \in 2..Len(b.txs)
    BY <1>1, <1>4
  <2>2. QED
    BY <2>1 DEF BlockLike
<1>5. QED
    BY <1>3, <1>4

-----------------------------------------------------------------------------
(* A block is committed.                                                    *)

\* OnceIn says of the node's store what ConfirmedOnce does.
LEMMA OncePlaces == OnceIn(db) <=> ConfirmedOnce
<1>1. ASSUME OnceIn(db), NEW p \in Confirmed, NEW q \in Confirmed, TxAt(p).id = TxAt(q).id
      PROVE  p = q
  <2>1. PICK h \in 1..db.tip_height : \E i \in 1..Len(db.blocks[h].txs) : p = <<h, i>>
    BY <1>1 DEF Confirmed
  <2>2. PICK i \in 1..Len(db.blocks[h].txs) : p = <<h, i>>
    BY <2>1
  <2>3. PICK g \in 1..db.tip_height : \E j \in 1..Len(db.blocks[g].txs) : q = <<g, j>>
    BY <1>1 DEF Confirmed
  <2>4. PICK j \in 1..Len(db.blocks[g].txs) : q = <<g, j>>
    BY <2>3
  <2>5. db.blocks[h].txs[i].id = db.blocks[g].txs[j].id
    BY <1>1, <2>2, <2>4 DEF TxAt
  <2>6. h = g /\ i = j
    BY <1>1, <2>5 DEF OnceIn
  <2>7. QED
    BY <2>2, <2>4, <2>6
<1>2. ASSUME ConfirmedOnce, NEW h \in 1..db.tip_height, NEW g \in 1..db.tip_height,
             NEW i \in 1..Len(db.blocks[h].txs), NEW j \in 1..Len(db.blocks[g].txs),
             db.blocks[h].txs[i].id = db.blocks[g].txs[j].id
      PROVE  h = g /\ i = j
  <2>1. PICK p, q : p = <<h, i>> /\ q = <<g, j>>
    OBVIOUS
  <2>2. p \in Confirmed /\ q \in Confirmed
    BY <2>1 DEF Confirmed
  <2>3. TxAt(p).id = TxAt(q).id
    BY <1>2, <2>1 DEF TxAt
  <2>4. p = q
    BY <1>2, <2>2, <2>3 DEF ConfirmedOnce
  <2>5. QED
    BY <2>1, <2>4
<1>3. QED
    BY <1>1, <1>2 DEF OnceIn, ConfirmedOnce

\* The heights leave room for every nonce.
LEMMA RoomForNonces ==
    ASSUME NEW n \in Nat, NEW t \in Nat, NEW x \in Nat, x <= n * t,
           NEW k \in Nat, k <= n, NEW m \in Nat, t + 1 <= m
    PROVE  x + k <= n * (t + 1) /\ n * (t + 1) <= n * m
<1>1. n * (t + 1) = n * t + n /\ n * t \in Nat
    OBVIOUS
<1>2. PICK r \in Nat : m = (t + 1) + r
  <2>1. m - (t + 1) \in Nat /\ m = (t + 1) + (m - (t + 1))
    OBVIOUS
  <2>2. QED
    BY <2>1
<1>3. n * m = n * (t + 1) + n * r /\ n * r \in Nat /\ n * (t + 1) \in Nat
    BY <1>2
<1>4. x + k <= n * (t + 1)
    BY <1>1
<1>5. n * (t + 1) <= n * m
    BY <1>3
<1>6. QED
    BY <1>4, <1>5

\* A user's transaction counts among those of its sender.
LEMMA NonceOfBlock ==
    ASSUME NEW b, Len(b.txs) \in Nat, NEW i \in 1..Len(b.txs), IsUserTx(b.txs[i]),
           NEW d, NEW a, a = b.txs[i].from, d.nonces[a] \in Nat
    PROVE  expected_nonce(d, b.txs, i) < d.nonces[a] + Cardinality(SentBy(b, a, Len(b.txs)))
<1>1. i - 1 \in Nat /\ (i - 1) + 1 = i
    OBVIOUS
<1>2. PICK S : S = {j \in 1..(i - 1) : b.txs[j].from = a}
    OBVIOUS
<1>3. S = SentBy(b, a, i - 1)
    BY <1>2 DEF SentBy, IsUserTx
<1>4. PICK T : T = SentBy(b, a, Len(b.txs))
    OBVIOUS
<1>5. IsFiniteSet(S) /\ Cardinality(S) \in Nat /\ IsFiniteSet(T) /\ Cardinality(T) \in Nat
    BY <1>1, <1>3, <1>4, SentByType
<1>6. S \cup {i} \subseteq T /\ i \notin S
    BY <1>2, <1>4 DEF SentBy, IsUserTx
<1>7. Cardinality(S \cup {i}) = Cardinality(S) + 1
    BY <1>5, <1>6, FS_AddElement
<1>8. Cardinality(S \cup {i}) <= Cardinality(T)
    BY <1>5, <1>6, FS_Subset
<1>9. expected_nonce(d, b.txs, i) = d.nonces[a] + Cardinality(S)
    BY <1>2 DEF expected_nonce
<1>10. QED
    BY <1>4, <1>5, <1>7, <1>8, <1>9

\* What a block is committed on: it is the next one, valid, and its actions are new.
Commits(d, b) ==
    /\ BlockLike(b) /\ Accepts(d, b)
    /\ \A i \in 1..Len(b.txs) : b.txs[i].from = GENESIS => b.txs[i].id \notin d.txs

\* No nonce wraps.
LEMMA NoncesHaveRoom ==
    ASSUME NEW d, ChainOf(d), NEW b, Commits(d, b)
    PROVE  NoncesFit(d, b)
<1>1. PICK n \in Nat : n = BlockLimit + 2
    BY NodeAssumption
<1>2. PICK t \in Nat : t = d.tip_height
    BY RulesAssumption DEF ChainOf, NoncesBelow
<1>3. t + 1 <= MaxHeight /\ MaxHeight \in Nat
    BY <1>2, RulesAssumption DEF Commits, BlockLike, Accepts
<1>4. PICK k \in Nat : k = Len(b.txs) /\ k <= n
    BY <1>1, BlockLikeOK, NodeAssumption DEF Commits
<1>5. ASSUME NEW a \in Accounts PROVE d.nonces[a] + k < U64Modulus
  <2>1. PICK x \in Nat : x = d.nonces[a] /\ x <= n * t
    BY <1>1, <1>2 DEF ChainOf, NoncesBelow, DbOK
  <2>2. x + k <= n * (t + 1) /\ n * (t + 1) <= n * MaxHeight
    BY <1>3, <1>4, <2>1, RoomForNonces
  <2>3. n * MaxHeight < U64Modulus /\ n * MaxHeight \in Nat /\ n * (t + 1) \in Nat
    BY <1>1, <1>3, NodeAssumption
  <2>4. QED
    BY <2>1, <2>2, <2>3, RulesAssumption
<1>6. QED
    BY <1>4, <1>5 DEF NoncesFit

\* What a block that is committed leaves of the old blocks and nonces.
Extended(d, b, e) ==
    /\ DbOK(e)
    /\ e.tip_height = d.tip_height + 1 /\ e.tip_height \in 1..MaxHeight
    /\ DOMAIN e.blocks = 1..MaxHeight /\ e.blocks[e.tip_height] = b
    /\ \A h \in 1..d.tip_height : e.blocks[h] = d.blocks[h]
    /\ e.txs = d.txs \cup {b.txs[j].id : j \in 1..Len(b.txs)}
    /\ \A a \in Accounts :
         e.nonces[a] = d.nonces[a] + Cardinality(SentBy(b, a, Len(b.txs)))

\* Committed extends the chain.
LEMMA CommitExtends ==
    ASSUME NEW d, ChainOf(d), NEW b, Commits(d, b), NEW e, e = Committed(d, b)
    PROVE  Extended(d, b, e)
<1>1. PICK t \in Nat : t = d.tip_height
    BY RulesAssumption DEF ChainOf
<1>2. BlockLike(b) /\ b.height = t + 1
    BY <1>1 DEF Commits, Accepts
<1>3. BlockOK(b)
    BY <1>2, BlockLikeOK
<1>4. t + 1 \in 1..MaxHeight /\ DOMAIN d.blocks = 1..MaxHeight /\ DbOK(d)
    BY <1>2 DEF BlockLike, ChainOf
<1>5. NoncesFit(d, b)
    BY NoncesHaveRoom
<1>6. DbOK(e) /\ CommitEffect(e, d, b)
    BY <1>3, <1>4, <1>5, CommittedSound
<1>7. PICK f, g : f = d.blocks /\ g = e.blocks
    OBVIOUS
<1>8. DOMAIN f = 1..MaxHeight /\ g = [f EXCEPT ![t + 1] = b]
    BY <1>2, <1>4, <1>6, <1>7 DEF CommitEffect
<1>9. DOMAIN g = 1..MaxHeight /\ g[t + 1] = b
    BY <1>4, <1>8
<1>10. ASSUME NEW h \in 1..t PROVE g[h] = f[h]
  <2>1. h \in 1..MaxHeight /\ h # t + 1
    BY <1>4, <1>10, RulesAssumption
  <2>2. QED
    BY <1>8, <2>1
<1>11. e.tip_height = t + 1
    BY <1>2, <1>6 DEF CommitEffect
<1>12. e.txs = d.txs \cup {b.txs[j].id : j \in 1..Len(b.txs)}
    BY <1>6 DEF CommitEffect
<1>13. \A a \in Accounts :
         e.nonces[a] = d.nonces[a] + Cardinality(SentBy(b, a, Len(b.txs)))
    BY <1>6 DEF CommitEffect
<1>14. QED
    BY <1>1, <1>4, <1>6, <1>7, <1>9, <1>10, <1>11, <1>12, <1>13 DEF Extended

\* Nonces only grow, by at most a block's transactions.
LEMMA NoncesGrow ==
    ASSUME NEW d, ChainOf(d), NEW b, Commits(d, b), NEW e, Extended(d, b, e),
           NEW a \in Accounts
    PROVE  /\ d.nonces[a] \in Nat /\ e.nonces[a] \in Nat /\ d.nonces[a] <= e.nonces[a]
           /\ e.nonces[a] <= (BlockLimit + 2) * e.tip_height
<1>1. PICK n \in Nat : n = BlockLimit + 2
    BY NodeAssumption
<1>2. PICK t \in Nat : t = d.tip_height
    BY RulesAssumption DEF ChainOf
<1>3. PICK x \in Nat : x = d.nonces[a] /\ x <= n * t
    BY <1>1, <1>2 DEF ChainOf, NoncesBelow, DbOK
<1>4. Len(b.txs) \in Nat /\ Len(b.txs) <= n
    BY <1>1, BlockLikeOK DEF Commits, BlockOK
<1>5. PICK k \in Nat : k = Cardinality(SentBy(b, a, Len(b.txs))) /\ k <= Len(b.txs)
    BY <1>4, SentByType
<1>6. k <= n
    BY <1>4, <1>5
<1>7. e.nonces[a] = x + k /\ e.tip_height = t + 1
    BY <1>2, <1>3, <1>5 DEF Extended
<1>8. x + k <= n * (t + 1)
    BY <1>2, <1>3, <1>6, RoomForNonces
<1>9. QED
    BY <1>1, <1>3, <1>7, <1>8

\* The nonce of a user's transaction in a valid block is at least the stored one,
\* and below the one the block leaves.
LEMMA NonceUsed ==
    ASSUME NEW d, ChainOf(d), NEW b, Commits(d, b), NEW e, Extended(d, b, e),
           NEW i \in 1..Len(b.txs), NEW y, y = b.txs[i], IsUserTx(y)
    PROVE  y.nonce >= d.nonces[y.from] /\ y.nonce < e.nonces[y.from]
<1>1. BlockOK(b) /\ Len(b.txs) \in Nat
    BY BlockLikeOK DEF Commits, BlockOK
<1>2. PICK a : a = y.from
    OBVIOUS
<1>3. a \in Accounts
    BY <1>1, <1>2 DEF BlockOK, TxOK, IsUserTx
<1>4. d.nonces[a] \in Nat
    BY <1>3 DEF ChainOf, DbOK
<1>5. y.nonce = expected_nonce(d, b.txs, i)
    BY DEF Commits, Accepts, Valid
<1>6. expected_nonce(d, b.txs, i) < d.nonces[a] + Cardinality(SentBy(b, a, Len(b.txs)))
    BY <1>1, <1>2, <1>4, NonceOfBlock
<1>7. e.nonces[a] = d.nonces[a] + Cardinality(SentBy(b, a, Len(b.txs)))
    BY <1>3 DEF Extended
<1>8. PICK S : S = {k \in 1..(i - 1) : b.txs[k].from = a}
    OBVIOUS
<1>9. Cardinality(S) \in Nat
  <2>1. S \subseteq 1..(i - 1)
    BY <1>8
  <2>2. IsFiniteSet(1..(i - 1))
    BY <1>1, FS_Interval
  <2>3. QED
    BY <2>1, <2>2, FS_Subset, FS_CardinalityType
<1>10. expected_nonce(d, b.txs, i) = d.nonces[a] + Cardinality(S)
    BY <1>2, <1>8 DEF expected_nonce
<1>11. QED
    BY <1>2, <1>4, <1>5, <1>6, <1>7, <1>9, <1>10

\* What a confirmed transaction is.
LEMMA ConfirmedKinds ==
    ASSUME NEW d, NEW h, StoredIn(d, h), NEW j \in 1..Len(d.blocks[h].txs),
           NEW x, x = d.blocks[h].txs[j]
    PROVE  /\ x.id \in d.txs
           /\ \/ RewardLike(x, h)
              \/ ActionLike(x)
              \/ ClientLike(x) /\ x.nonce < d.nonces[x.from]
<1>1. PICK c : c = d.blocks[h]
    OBVIOUS
<1>2. BlockLike(c) /\ c.height = h
    BY <1>1 DEF StoredIn
<1>3. Len(c.txs) \in Nat
    BY <1>2, BlockLikeOK DEF BlockOK
<1>4. x.id \in d.txs /\ (IsUserTx(x) => x.nonce < d.nonces[x.from])
    BY DEF StoredIn
<1>5. CASE j = 1
    BY <1>1, <1>2, <1>4, <1>5 DEF BlockLike
<1>6. CASE j # 1
  <2>1. j \in 2..Len(c.txs)
    BY <1>1, <1>3, <1>6
  <2>2. Pending(x)
    BY <1>1, <1>2, <2>1 DEF BlockLike
  <2>3. QED
    BY <1>4, <2>2 DEF Pending, ClientLike
<1>7. QED
    BY <1>5, <1>6

\* No transaction of the block was confirmed before.
LEMMA NoneTwice ==
    ASSUME NEW d, ChainOf(d), NEW b, Commits(d, b), NEW e, Extended(d, b, e),
           NEW h \in 1..d.tip_height, NEW j \in 1..Len(d.blocks[h].txs),
           NEW i \in 1..Len(b.txs)
    PROVE  d.blocks[h].txs[j].id # b.txs[i].id
<1> SUFFICES ASSUME NEW x, x = d.blocks[h].txs[j], NEW y, y = b.txs[i], x.id = y.id
             PROVE  FALSE
    OBVIOUS
<1>1. d.tip_height \in Nat /\ b.height = d.tip_height + 1 /\ BlockLike(b)
    BY RulesAssumption DEF ChainOf, Commits, Accepts
<1>2. Len(b.txs) \in Nat
    BY <1>1, BlockLikeOK DEF BlockOK
<1>3. StoredIn(d, h)
    BY DEF ChainOf
<1>4. /\ x.id \in d.txs
      /\ RewardLike(x, h) \/ ActionLike(x) \/ (ClientLike(x) /\ x.nonce < d.nonces[x.from])
    BY <1>3, ConfirmedKinds
<1>5. CASE i = 1
  <2>1. RewardLike(y, d.tip_height + 1)
    BY <1>1, <1>5 DEF BlockLike
  <2>2. RewardLike(x, h)
    BY <1>4, <2>1, IdsByKind
  <2>3. h = d.tip_height + 1
    BY <2>1, <2>2, IdsCarry
  <2>4. QED
    BY <1>1, <2>3
<1>6. CASE i # 1
  <2>1. Pending(y)
    <3>1. i \in 2..Len(b.txs)
      BY <1>2, <1>6
    <3>2. QED
      BY <1>1, <3>1 DEF BlockLike
  <2>2. CASE ActionLike(y)
    BY <1>4, <2>2 DEF ActionLike, Commits
  <2>3. CASE ClientLike(y)
    <3>1. ClientLike(x) /\ x.nonce < d.nonces[x.from]
      BY <1>4, <2>3, IdsByKind
    <3>2. x.from = y.from /\ x.nonce = y.nonce
      BY <2>3, <3>1, IdsCarry
    <3>3. x.nonce \in Nat /\ x.from \in Accounts
      BY <3>1 DEF ClientLike, TxOK, IsUserTx
    <3>4. d.nonces[x.from] \in Nat
      BY <3>3 DEF ChainOf, DbOK
    <3>5. y.nonce >= d.nonces[y.from]
      BY <2>3, NonceUsed DEF ClientLike
    <3>6. QED
      BY <3>1, <3>2, <3>3, <3>4, <3>5
  <2>4. QED
    BY <2>1, <2>2, <2>3 DEF Pending
<1>7. QED
    BY <1>5, <1>6

\* The old blocks are still sound, and so is the new one.
LEMMA OldBlocksStay ==
    ASSUME NEW d, ChainOf(d), NEW b, Commits(d, b), NEW e, Extended(d, b, e),
           NEW h \in 1..d.tip_height
    PROVE  StoredIn(e, h)
<1>1. PICK c : c = d.blocks[h]
    OBVIOUS
<1>2. c = e.blocks[h] /\ StoredIn(d, h)
    BY <1>1 DEF Extended, ChainOf
<1>3. ASSUME NEW i \in 1..Len(c.txs), NEW x, x = c.txs[i]
      PROVE  x.id \in e.txs /\ (IsUserTx(x) => x.nonce < e.nonces[x.from])
  <2>1. /\ x.id \in d.txs
        /\ RewardLike(x, h) \/ ActionLike(x) \/ (ClientLike(x) /\ x.nonce < d.nonces[x.from])
    BY <1>1, <1>2, <1>3, ConfirmedKinds
  <2>2. x.id \in e.txs
    BY <2>1 DEF Extended
  <2>3. ASSUME IsUserTx(x) PROVE x.nonce < e.nonces[x.from]
    <3>1. ClientLike(x) /\ x.nonce < d.nonces[x.from]
      BY <2>1, <2>3 DEF RewardLike, ActionLike, IsUserTx
    <3>2. x.nonce \in Nat /\ x.from \in Accounts
      BY <3>1 DEF ClientLike, TxOK, IsUserTx
    <3>3. d.nonces[x.from] \in Nat /\ e.nonces[x.from] \in Nat
          /\ d.nonces[x.from] <= e.nonces[x.from]
      BY <3>2, NoncesGrow
    <3>4. QED
      BY <3>1, <3>2, <3>3
  <2>4. QED
    BY <2>2, <2>3
<1>4. QED
    BY <1>1, <1>2, <1>3 DEF StoredIn

LEMMA NewBlockStored ==
    ASSUME NEW d, ChainOf(d), NEW b, Commits(d, b), NEW e, Extended(d, b, e)
    PROVE  StoredIn(e, e.tip_height)
<1>1. e.blocks[e.tip_height] = b /\ b.height = e.tip_height /\ BlockLike(b)
    BY DEF Extended, Commits, Accepts
<1>2. ASSUME NEW i \in 1..Len(b.txs), NEW x, x = b.txs[i]
      PROVE  x.id \in e.txs /\ (IsUserTx(x) => x.nonce < e.nonces[x.from])
  <2>1. x.id \in e.txs
    BY <1>2 DEF Extended
  <2>2. QED
    BY <1>2, <2>1, NonceUsed
<1>3. QED
    BY <1>1, <1>2 DEF StoredIn

\* A block keeps the chain sound.
LEMMA CommitStep ==
    ASSUME NEW d, ChainOf(d), NEW b, Commits(d, b), NEW e, e = Committed(d, b)
    PROVE  ChainOf(e) /\ e.txs = d.txs \cup {b.txs[j].id : j \in 1..Len(b.txs)}
<1>1. Extended(d, b, e)
    BY CommitExtends
<1>2. PICK t \in Nat : t = d.tip_height
    BY RulesAssumption DEF ChainOf
<1>3. e.tip_height = t + 1
    BY <1>1, <1>2 DEF Extended
<1>4. \A h \in 1..(t + 1) : h \in 1..t \/ h = t + 1
    OBVIOUS
<1>5. ASSUME NEW h \in 1..(t + 1) PROVE StoredIn(e, h)
    BY <1>1, <1>2, <1>3, <1>4, OldBlocksStay, NewBlockStored
<1>6. ASSUME NEW k \in 1..d.tip_height, NEW m \in 1..Len(d.blocks[k].txs),
              NEW n \in 1..Len(b.txs)
       PROVE  d.blocks[k].txs[m].id # b.txs[n].id
    BY ONLY <1>1, ChainOf(d), Commits(d, b), NoneTwice
<1>7. OnceIn(e)
  <2>1. SUFFICES ASSUME NEW h \in 1..e.tip_height, NEW g \in 1..e.tip_height,
                        NEW i \in 1..Len(e.blocks[h].txs), NEW j \in 1..Len(e.blocks[g].txs),
                        e.blocks[h].txs[i].id = e.blocks[g].txs[j].id
                 PROVE  h = g /\ i = j
    BY DEF OnceIn
  <2>2. PICK x, y : x = e.blocks[h].txs[i] /\ y = e.blocks[g].txs[j] /\ x.id = y.id
    BY <2>1
  <2>3. \A k \in 1..t : e.blocks[k] = d.blocks[k]
    BY <1>1, <1>2 DEF Extended
  <2>4. e.blocks[t + 1] = b
    BY <1>1, <1>3 DEF Extended
  <2>5. CASE h \in 1..t /\ g \in 1..t
    <3>1. e.blocks[h] = d.blocks[h] /\ e.blocks[g] = d.blocks[g]
      BY <2>3, <2>5
    <3>2. OnceIn(d)
      BY DEF ChainOf
    <3>3. QED
      BY <1>2, <2>1, <2>5, <3>1, <3>2 DEF OnceIn
  <2>6. CASE h = t + 1 /\ g = t + 1
    <3>1. BlockLike(b)
      BY DEF Commits
    <3>2. i \in 1..Len(b.txs) /\ j \in 1..Len(b.txs) /\ b.txs[i].id = b.txs[j].id
      BY <2>1, <2>4, <2>6
    <3>3. QED
      BY <2>6, <3>1, <3>2, BlockIdsDiffer
  <2>7. CASE h \in 1..t /\ g = t + 1
    <3>1. i \in 1..Len(d.blocks[h].txs) /\ x = d.blocks[h].txs[i] /\ h \in 1..d.tip_height
      BY <1>2, <2>2, <2>3, <2>7
    <3>2. j \in 1..Len(b.txs) /\ y = b.txs[j]
      BY <2>2, <2>4, <2>7
    <3>3. x.id # y.id
      BY <1>6, <3>1, <3>2
    <3>4. QED
      BY <2>2, <3>3
  <2>8. CASE h = t + 1 /\ g \in 1..t
    <3>1. j \in 1..Len(d.blocks[g].txs) /\ y = d.blocks[g].txs[j] /\ g \in 1..d.tip_height
      BY <1>2, <2>2, <2>3, <2>8
    <3>2. i \in 1..Len(b.txs) /\ x = b.txs[i]
      BY <2>2, <2>4, <2>8
    <3>3. y.id # x.id
      BY <1>6, <3>1, <3>2
    <3>4. QED
      BY <2>2, <3>3
  <2>9. QED
    BY <1>3, <1>4, <2>5, <2>6, <2>7, <2>8
<1>8. NoncesBelow(e)
    BY <1>1, NoncesGrow DEF NoncesBelow
<1>9. DbOK(e) /\ e.tip_height \in 0..MaxHeight /\ DOMAIN e.blocks = 1..MaxHeight
    BY <1>1, RulesAssumption DEF Extended
<1>10. e.txs = d.txs \cup {b.txs[j].id : j \in 1..Len(b.txs)}
    BY <1>1 DEF Extended
<1>11. QED
    BY <1>3, <1>5, <1>7, <1>8, <1>9, <1>10 DEF ChainOf

-----------------------------------------------------------------------------
(* What the steps keep.                                                     *)

\* What is sound stays sound while actions are counted up.
LEMMA ChainStays ==
    ASSUME actions \in Nat, actions' \in Nat, actions <= actions', NEW d, ChainOf(d)
    PROVE  ChainOf(d)'
<1>1. ASSUME NEW h \in 1..d.tip_height PROVE StoredIn(d, h)'
  <2>1. StoredIn(d, h)
    BY DEF ChainOf
  <2>2. PICK c : c = d.blocks[h]
    OBVIOUS
  <2>3. BlockLike(c)'
    BY <2>1, <2>2, BlockLikeStays DEF StoredIn
  <2>4. BlockLike(d.blocks[h])'
    BY <2>2, <2>3
  <2>5. QED
    BY <2>1, <2>4 DEF StoredIn
<1>2. QED
    BY <1>1 DEF ChainOf, OnceIn, NoncesBelow

\* The chain of the node, when its store stays and when a block joins it.
LEMMA ChainUnchanged ==
    ASSUME actions \in Nat, actions' \in Nat, actions <= actions', ChainSound, db' = db
    PROVE  ChainSound'
<1>1. PICK d : d = db
    OBVIOUS
<1>2. ChainOf(d)'
    BY <1>1, ChainStays DEF ChainSound
<1>3. QED
    BY <1>1, <1>2 DEF ChainSound

LEMMA ChainCommits ==
    ASSUME actions \in Nat, actions' = actions, ChainSound, NEW b, Commits(db, b),
           db' = Committed(db, b)
    PROVE  ChainSound' /\ db'.txs = db.txs \cup {b.txs[j].id : j \in 1..Len(b.txs)}
<1>1. PICK d, e : d = db /\ e = db'
    OBVIOUS
<1>2. ChainOf(d) /\ Commits(d, b) /\ e = Committed(d, b)
    BY <1>1 DEF ChainSound
<1>3. ChainOf(e) /\ e.txs = d.txs \cup {b.txs[j].id : j \in 1..Len(b.txs)}
    BY <1>2, CommitStep
<1>4. ChainOf(e)'
    BY <1>3, ChainStays
<1>5. QED
    BY <1>1, <1>3, <1>4 DEF ChainSound

\* A transaction with an id that no pending action has, and if it is an action
\* one that nothing has.
Fresh(tx) ==
    /\ \A y : ActionLike(y) => y.id # tx.id
    /\ tx.from = GENESIS => \A y, h : Pending(y) \/ RewardLike(y, h) => y.id # tx.id

\* Clients' transactions and the next uuid are fresh.
LEMMA ClientsFresh ==
    ASSUME NEW tx, ClientLike(tx)
    PROVE  Fresh(tx)
<1>1. \A y : ActionLike(y) => y.id # tx.id
    BY IdsByKind
<1>2. tx.from # GENESIS
    BY DEF ClientLike, IsUserTx
<1>3. QED
    BY <1>1, <1>2 DEF Fresh

LEMMA NextUuidFresh ==
    ASSUME actions \in Nat, NEW tx, tx.id = <<"uuid", actions>>
    PROVE  Fresh(tx)
<1>1. ASSUME NEW y, ActionLike(y) PROVE y.id # tx.id
    BY <1>1 DEF ActionLike
<1>2. ASSUME NEW y, ClientLike(y) PROVE y.id # tx.id
    BY <1>2, IdsOfUuids DEF ClientLike, has_expected_id
<1>3. ASSUME NEW y, NEW h, RewardLike(y, h) PROVE y.id # tx.id
    BY <1>3, IdsOfUuids DEF RewardLike
<1>4. QED
    BY <1>1, <1>2, <1>3 DEF Fresh, Pending

\* The ids of a block are those of its reward and of pending transactions.
LEMMA IdsOfBlock ==
    ASSUME NEW b, BlockLike(b), NEW i \in 1..Len(b.txs), NEW x, x = b.txs[i]
    PROVE  RewardLike(x, b.height) \/ Pending(x)
<1>1. Len(b.txs) \in Nat
    BY BlockLikeOK DEF BlockOK
<1>2. CASE i = 1
    BY <1>2 DEF BlockLike
<1>3. CASE i # 1
  <2>1. i \in 2..Len(b.txs)
    BY <1>1, <1>3
  <2>2. QED
    BY <2>1 DEF BlockLike
<1>4. QED
    BY <1>2, <1>3

\* A fresh action is not in the draft.
LEMMA FreshNotInDraft ==
    ASSUME DraftSound, NEW tx, Fresh(tx), tx.from = GENESIS
    PROVE  ~InDraft(tx.id)
<1> SUFFICES ASSUME InDraft(tx.id) PROVE FALSE
    OBVIOUS
<1>1. PICK b : b = producer.draft
    OBVIOUS
<1>2. BlockLike(b)
    BY <1>1 DEF DraftSound, InDraft
<1>3. PICK i \in 1..Len(b.txs) : b.txs[i].id = tx.id
    BY <1>1 DEF InDraft
<1>4. RewardLike(b.txs[i], b.height) \/ Pending(b.txs[i])
    BY <1>2, <1>3, IdsOfBlock
<1>5. QED
    BY <1>3, <1>4 DEF Fresh

\* The tick is as it was.
LEMMA DraftUnchanged ==
    ASSUME actions \in Nat, actions' \in Nat, actions <= actions', DraftSound,
           producer' = producer, db.txs \subseteq db'.txs
    PROVE  DraftSound'
<1>1. PICK p : p = producer
    OBVIOUS
<1>2. PICK b : b = p.draft
    OBVIOUS
<1>3. ASSUME Drafted' PROVE BlockLike(b)'
  <2>1. BlockLike(b)
    BY <1>1, <1>2, <1>3 DEF DraftSound, Drafted
  <2>2. QED
    BY <2>1, BlockLikeStays
<1>4. QED
    BY <1>1, <1>2, <1>3 DEF DraftSound, Drafted

\* A request has passed add's checks.
LEMMA AdmitSound ==
    ASSUME NodeInv, NEW c \in Clients, adding[c] = NoTx, NEW tx, Fresh(tx), Pending(tx)',
           tx.id \notin db.txs, \A m \in mempool : m.id # tx.id,
           actions' \in Nat, actions <= actions',
           adding' = [adding EXCEPT ![c] = tx], UNCHANGED <<db, mempool, producer>>
    PROVE  NodeInv'
<1>1. /\ actions \in Nat /\ DOMAIN adding = Clients /\ DOMAIN adding' = Clients
      /\ adding'[c] = tx /\ \A d \in Clients : d # c => adding'[d] = adding[d]
    BY DEF NodeInv, PoolSound
<1>2. PoolSound'
  <2>1. \A m \in mempool : Pending(m)'
    BY <1>1, PendingStays DEF NodeInv, PoolSound
  <2>2. ASSUME NEW d \in Clients, adding'[d] # NoTx PROVE Pending(adding[d])'
    <3>1. PICK x : x = adding'[d]
      OBVIOUS
    <3>2. Pending(x)'
      <4>1. CASE d = c
        BY <1>1, <3>1, <4>1
      <4>2. CASE d # c
        <5>1. Pending(x)
          BY <1>1, <2>2, <3>1, <4>2 DEF NodeInv, PoolSound
        <5>2. QED
          BY <1>1, <5>1, PendingStays
      <4>3. QED
        BY <4>1, <4>2
    <3>3. QED
      BY <3>1, <3>2
  <2>3. QED
    BY <1>1, <2>1, <2>2 DEF NodeInv, PoolSound
<1>3. DraftSound'
    BY <1>1, DraftUnchanged DEF NodeInv
<1>4. ChainSound'
    BY <1>1, ChainUnchanged DEF NodeInv
<1>5. PoolNew' /\ DraftNew'
    BY DEF NodeInv, PoolNew, DraftNew, InDraft, Drafted
<1>6. ASSUME NEW d \in Clients, adding'[d] # NoTx, adding'[d].from = GENESIS
      PROVE  Alone(d)'
  <2>1. PICK x : x = adding'[d]
    OBVIOUS
  <2>2. x.id \notin db.txs /\ (\A m \in mempool : m.id # x.id) /\ ~InDraft(x.id)
    <3>1. CASE d = c
      BY <1>1, <1>6, <2>1, <3>1, FreshNotInDraft DEF NodeInv
    <3>2. CASE d # c
      BY <1>1, <1>6, <2>1, <3>2 DEF NodeInv, AddingNew, Alone
    <3>3. QED
      BY <3>1, <3>2
  <2>3. ASSUME NEW f \in Clients, adding'[f] # NoTx, adding'[f].id = x.id PROVE f = d
    <3>1. CASE f # c /\ d # c
      BY <1>1, <1>6, <2>1, <2>3, <3>1 DEF NodeInv, AddingNew, Alone
    <3>2. CASE f # c /\ d = c
      <4>1. Pending(adding[f])
        BY <1>1, <2>3, <3>2 DEF NodeInv, PoolSound
      <4>2. QED
        BY <1>1, <1>6, <2>1, <2>3, <3>2, <4>1 DEF Fresh
    <3>3. CASE f = c /\ d # c
      <4>1. ActionLike(adding[d])
        BY <1>1, <1>6, <3>3, KindsOfPending DEF NodeInv, PoolSound
      <4>2. QED
        BY <1>1, <2>1, <2>3, <3>3, <4>1 DEF Fresh
    <3>4. QED
      BY <3>1, <3>2, <3>3
  <2>4. QED
    BY <2>1, <2>2, <2>3 DEF Alone, InDraft, Drafted
<1>7. AddingNew'
    BY <1>6 DEF AddingNew
<1>8. QED
    BY <1>2, <1>3, <1>4, <1>5, <1>7 DEF NodeInv

\* What a wallet has signed for the stored nonce.
LEMMA ClientTxLike ==
    ASSUME ChainSound, NEW t \in Transfers
    PROVE  ClientLike(ClientTx(t))
<1>1. /\ t.from \in Accounts /\ t.from # Pool /\ t.from # GENESIS /\ t.to \in Accounts
      /\ t.amount \in Nat /\ t.fee \in Nat
    BY NodeAssumption, RulesAssumption DEF GENESIS
<1>2. db.nonces[t.from] \in Nat
    BY <1>1 DEF ChainSound, ChainOf, DbOK
<1>3. QED
    BY <1>1, <1>2 DEF ClientLike, ClientTx, TxOK, IsUserTx, has_expected_id

\* What the node's own wallets sign, once add's checks have compared the id.
LEMMA SignedLike ==
    ASSUME ChainSound, NEW t \in Transfers, NEW memo, add_checks(SignedTransfer(t, memo))
    PROVE  ClientLike(SignedTransfer(t, memo))
<1>1. /\ t.from \in Accounts /\ t.from # Pool /\ t.from # GENESIS /\ t.to \in Accounts
      /\ t.amount \in Nat /\ t.fee \in Nat
    BY NodeAssumption, RulesAssumption DEF GENESIS
<1>2. db.nonces[t.from] \in Nat
    BY <1>1 DEF ChainSound, ChainOf, DbOK
<1>3. PICK x : x = SignedTransfer(t, memo)
    OBVIOUS
<1>4. /\ x.from = t.from /\ x.to = t.to /\ x.amount = t.amount /\ x.fee = t.fee
      /\ x.nonce = db.nonces[t.from]
    BY <1>3 DEF SignedTransfer
<1>5. has_expected_id(x)
    BY <1>1, <1>3, <1>4 DEF add_checks, validate_basic
<1>6. QED
    BY <1>1, <1>2, <1>3, <1>4, <1>5 DEF ClientLike, TxOK, IsUserTx

\* The three requests.
LEMMA AdmitClient ==
    ASSUME NodeInv, NEW c \in Clients, adding[c] = NoTx, NEW tx, ClientLike(tx), add_checks(tx),
           adding' = [adding EXCEPT ![c] = tx], UNCHANGED <<db, mempool, producer, actions>>
    PROVE  NodeInv'
<1>1. actions \in Nat /\ actions' = actions
    BY DEF NodeInv, PoolSound
<1>2. Fresh(tx)
    BY ClientsFresh
<1>3. Pending(tx)'
    BY <1>1, PendingStays DEF Pending
<1>4. tx.id \notin db.txs /\ \A m \in mempool : m.id # tx.id
    BY DEF add_checks
<1>5. actions' \in Nat /\ actions <= actions'
    BY <1>1
<1>6. QED
    BY <1>2, <1>3, <1>4, <1>5, AdmitSound

LEMMA SubmitTxStep ==
    ASSUME NodeInv, NEW c \in Clients, SubmitTx(c) PROVE NodeInv'
<1>1. PICK t \in Transfers :
        add_checks(ClientTx(t)) /\ adding' = [adding EXCEPT ![c] = ClientTx(t)]
    BY DEF SubmitTx
<1>2. PICK tx : tx = ClientTx(t)
    OBVIOUS
<1>3. ClientLike(tx)
    BY <1>2, ClientTxLike DEF NodeInv
<1>4. adding[c] = NoTx /\ UNCHANGED <<db, mempool, producer, actions>>
    BY DEF SubmitTx
<1>5. QED
    BY <1>1, <1>2, <1>3, <1>4, AdmitClient

LEMMA SubmitSignedStep ==
    ASSUME NodeInv, NEW c \in Clients, SubmitSigned(c) PROVE NodeInv'
<1>1. PICK r \in WalletRequests \cup TreasuryRequests :
        /\ add_checks(SignedTransfer(r[1], r[2]))
        /\ adding' = [adding EXCEPT ![c] = SignedTransfer(r[1], r[2])]
    BY DEF SubmitSigned
<1>2. r[1] \in Transfers
    BY <1>1 DEF WalletRequests, TreasuryRequests
<1>3. PICK t, memo : t = r[1] /\ memo = r[2]
    OBVIOUS
<1>4. PICK tx : tx = SignedTransfer(t, memo)
    OBVIOUS
<1>5. ClientLike(tx)
    BY <1>1, <1>2, <1>3, <1>4, SignedLike DEF NodeInv
<1>6. adding[c] = NoTx /\ UNCHANGED <<db, mempool, producer, actions>>
    BY DEF SubmitSigned
<1>7. QED
    BY <1>1, <1>3, <1>4, <1>5, <1>6, AdmitClient

LEMMA SubmitActionStep ==
    ASSUME NodeInv, NEW c \in Clients, SubmitAction(c) PROVE NodeInv'
<1>1. PICK tx : tx = ActionTx(actions)
    OBVIOUS
<1>2. actions \in Nat /\ actions' = actions + 1 /\ actions' \in Nat /\ actions <= actions'
    BY DEF NodeInv, PoolSound, SubmitAction
<1>3. tx.id = <<"uuid", actions>>
    BY <1>1 DEF ActionTx
<1>4. Fresh(tx)
    BY <1>2, <1>3, NextUuidFresh
<1>5. Pending(tx)'
  <2>1. TxOK(tx) /\ tx.from = GENESIS /\ tx.amount = 0 /\ tx.fee = 0
    BY <1>1, NodeAssumption DEF ActionTx, TxOK
  <2>2. PICK k \in Nat : k = actions
    BY <1>2
  <2>3. k < actions' /\ tx.id = <<"uuid", k>>
    BY <1>2, <1>3, <2>2
  <2>4. ActionLike(tx)'
    BY <2>1, <2>2, <2>3 DEF ActionLike, TxOK
  <2>5. QED
    BY <2>4 DEF Pending
<1>6. tx.id \notin db.txs /\ \A m \in mempool : m.id # tx.id
    BY <1>1 DEF SubmitAction, add_checks
<1>7. /\ adding[c] = NoTx /\ adding' = [adding EXCEPT ![c] = tx]
      /\ UNCHANGED <<db, mempool, producer>>
    BY <1>1 DEF SubmitAction
<1>8. QED
    BY <1>2, <1>4, <1>5, <1>6, <1>7, AdmitSound

\* The insert.
LEMMA FinishAddStep ==
    ASSUME NodeInv, NEW c \in Clients, FinishAdd(c) PROVE NodeInv'
<1>1. PICK tx : tx = adding[c]
    OBVIOUS
<1>2. /\ tx # NoTx /\ mempool' = {m \in mempool : m.id # tx.id} \cup {tx}
      /\ adding' = [adding EXCEPT ![c] = NoTx]
      /\ db' = db /\ producer' = producer /\ actions' = actions
    BY <1>1 DEF FinishAdd
<1>3. actions \in Nat /\ actions' \in Nat /\ actions <= actions' /\ DOMAIN adding = Clients
    BY <1>2 DEF NodeInv, PoolSound
<1>4. /\ DOMAIN adding' = Clients /\ adding'[c] = NoTx
      /\ \A d \in Clients : adding'[d] # NoTx => d # c /\ adding'[d] = adding[d]
    BY <1>2, <1>3
<1>5. Pending(tx)
    BY <1>1, <1>2 DEF NodeInv, PoolSound
<1>6. PoolSound'
  <2>1. ASSUME NEW m \in mempool' PROVE Pending(m)'
    <3>1. Pending(m)
      BY <1>2, <1>5, <2>1 DEF NodeInv, PoolSound
    <3>2. QED
      BY <1>3, <3>1, PendingStays
  <2>2. \A m, n \in mempool' : m.id = n.id => m = n
    BY <1>2 DEF NodeInv, PoolSound
  <2>3. ASSUME NEW d \in Clients, adding'[d] # NoTx PROVE Pending(adding[d])'
    <3>1. PICK x : x = adding[d]
      OBVIOUS
    <3>2. x = adding'[d] /\ x # NoTx
      BY <1>4, <2>3, <3>1
    <3>3. Pending(x)
      BY <3>1, <3>2 DEF NodeInv, PoolSound
    <3>4. Pending(x)'
      BY <1>3, <3>3, PendingStays
    <3>5. QED
      BY <3>2, <3>4
  <2>4. QED
    BY <1>3, <1>4, <2>1, <2>2, <2>3 DEF PoolSound
<1>7. DraftSound'
    BY <1>2, <1>3, DraftUnchanged DEF NodeInv
<1>8. ChainSound'
    BY <1>2, <1>3, ChainUnchanged DEF NodeInv
<1>9. DraftNew'
    BY <1>2 DEF NodeInv, DraftNew
<1>10. PoolNew'
  <2>1. ASSUME NEW m \in mempool', m.from = GENESIS, m.id \in db.txs
        PROVE  producer.step = "remove" /\ InDraft(m.id)
    <3>1. CASE m \in mempool
      BY <2>1, <3>1 DEF NodeInv, PoolNew
    <3>2. CASE m = tx
      BY <1>1, <1>2, <2>1, <3>2 DEF NodeInv, AddingNew, Alone
    <3>3. QED
      BY <1>2, <2>1, <3>1, <3>2
  <2>2. QED
    BY <1>2, <2>1 DEF PoolNew, InDraft, Drafted
<1>11. AddingNew'
  <2>1. ASSUME NEW d \in Clients, adding'[d] # NoTx, adding'[d].from = GENESIS
        PROVE  Alone(d)'
    <3>1. PICK x : x = adding[d]
      OBVIOUS
    <3>2. d # c /\ x = adding'[d] /\ x # NoTx /\ x.from = GENESIS
      BY <1>4, <2>1, <3>1
    <3>3. Alone(d)
      BY <3>1, <3>2 DEF NodeInv, AddingNew
    <3>4. x.id \notin db.txs /\ (\A m \in mempool : m.id # x.id) /\ ~InDraft(x.id)
      BY <3>1, <3>3 DEF Alone
    <3>5. tx.id # x.id
      BY <1>1, <1>2, <3>1, <3>2, <3>3 DEF Alone
    <3>6. \A m \in mempool' : m.id # x.id
      BY <1>2, <3>4, <3>5
    <3>7. \A f \in Clients : adding'[f] # NoTx /\ adding'[f].id = x.id => f = d
      BY <1>4, <3>1, <3>3 DEF Alone
    <3>8. ~InDraft(x.id)'
      BY <1>2, <3>4 DEF InDraft, Drafted
    <3>9. QED
      BY <1>2, <3>2, <3>4, <3>6, <3>7, <3>8 DEF Alone, InDraft, Drafted
  <2>2. QED
    BY <2>1 DEF AddingNew
<1>12. QED
    BY <1>6, <1>7, <1>8, <1>9, <1>10, <1>11 DEF NodeInv

\* A pool that loses transactions stays sound.
LEMMA PoolShrinks ==
    ASSUME PoolSound, mempool' \subseteq mempool, adding' = adding, actions' = actions
    PROVE  PoolSound' /\ actions \in Nat /\ actions' \in Nat /\ actions <= actions'
<1>1. actions \in Nat /\ actions' \in Nat /\ actions <= actions'
    BY DEF PoolSound
<1>2. ASSUME NEW m \in mempool' PROVE Pending(m)'
  <2>1. Pending(m)
    BY DEF PoolSound
  <2>2. QED
    BY <1>1, <2>1, PendingStays
<1>3. ASSUME NEW d \in Clients, adding'[d] # NoTx PROVE Pending(adding[d])'
  <2>1. PICK x : x = adding[d]
    OBVIOUS
  <2>2. Pending(x)
    BY <1>3, <2>1 DEF PoolSound
  <2>3. Pending(x)'
    BY <1>1, <2>2, PendingStays
  <2>4. QED
    BY <2>1, <2>3
<1>4. \A m, n \in mempool' : m.id = n.id => m = n
    BY DEF PoolSound
<1>5. DOMAIN adding' = Clients
    BY DEF PoolSound
<1>6. QED
    BY <1>1, <1>2, <1>3, <1>4, <1>5 DEF PoolSound

\* Transactions leave the pool, and nothing else changes.
LEMMA EvictStep ==
    ASSUME NodeInv, mempool' \subseteq mempool, UNCHANGED <<adding, db, producer, actions>>
    PROVE  NodeInv'
<1>1. PoolSound' /\ actions \in Nat /\ actions' \in Nat /\ actions <= actions'
    BY PoolShrinks DEF NodeInv
<1>2. DraftSound'
    BY <1>1, DraftUnchanged DEF NodeInv
<1>3. ChainSound'
    BY <1>1, ChainUnchanged DEF NodeInv
<1>4. DraftNew'
    BY DEF NodeInv, DraftNew
<1>5. PoolNew'
    BY DEF NodeInv, PoolNew, InDraft, Drafted
<1>6. AddingNew'
  <2>1. ASSUME NEW c \in Clients, adding[c] # NoTx, adding[c].from = GENESIS PROVE Alone(c)'
    <3>1. Alone(c)
      BY <2>1 DEF NodeInv, AddingNew
    <3>2. QED
      BY <3>1 DEF Alone, InDraft, Drafted
  <2>2. QED
    BY <2>1 DEF AddingNew
<1>7. QED
    BY <1>1, <1>2, <1>3, <1>4, <1>5, <1>6 DEF NodeInv

\* A tick begins or ends, and none of the pool's actions is confirmed.
LEMMA TickStep ==
    ASSUME NodeInv, mempool' \subseteq mempool, UNCHANGED <<adding, db, actions>>,
           \A m \in mempool' : m.from = GENESIS => m.id \notin db.txs,
           NEW s, NEW d, producer' = [step |-> s, draft |-> d],
           s = "idle" \/ (s = "take" /\ d.height \in 1..MaxHeight)
    PROVE  NodeInv'
<1>1. PoolSound' /\ actions \in Nat /\ actions' \in Nat /\ actions <= actions'
    BY PoolShrinks DEF NodeInv
<1>2. producer'.step = s /\ producer'.draft = d /\ ~Drafted'
    BY DEF Drafted
<1>3. DraftSound'
    BY <1>2 DEF DraftSound
<1>4. ChainSound'
    BY <1>1, ChainUnchanged DEF NodeInv
<1>5. DraftNew' /\ PoolNew'
    BY <1>2 DEF DraftNew, PoolNew
<1>6. AddingNew'
  <2>1. ASSUME NEW c \in Clients, adding[c] # NoTx, adding[c].from = GENESIS PROVE Alone(c)'
    <3>1. Alone(c)
      BY <2>1 DEF NodeInv, AddingNew
    <3>2. QED
      BY <1>2, <3>1 DEF Alone, InDraft
  <2>2. QED
    BY <2>1 DEF AddingNew
<1>7. QED
    BY <1>1, <1>3, <1>4, <1>5, <1>6 DEF NodeInv

\* The steps of a tick.
LEMMA ReadTipStep ==
    ASSUME NodeInv, ReadTip PROVE NodeInv'
<1>1. PICK d : d = [height |-> db.tip_height + 1, prev_hash |-> db.tip_hash, timestamp |-> clock]
    OBVIOUS
<1>2. producer' = [step |-> "take", draft |-> d] /\ mempool' = mempool
      /\ UNCHANGED <<adding, db, actions>> /\ producer.step = "idle" /\ db.tip_height < MaxHeight
    BY <1>1 DEF ReadTip
<1>3. d.height \in 1..MaxHeight
    BY <1>1, <1>2, RulesAssumption DEF NodeInv, ChainSound, ChainOf
<1>4. \A m \in mempool' : m.from = GENESIS => m.id \notin db.txs
    BY <1>2 DEF NodeInv, PoolNew
<1>5. PICK s : s = "take"
    OBVIOUS
<1>6. QED
    BY <1>2, <1>3, <1>4, <1>5, TickStep

LEMMA ProofFailsStep ==
    ASSUME NodeInv, ProofFails PROVE NodeInv'
<1>1. producer' = [step |-> "idle", draft |-> NoDraft] /\ mempool' = mempool
      /\ UNCHANGED <<adding, db, actions>> /\ producer.step = "take"
    BY DEF ProofFails
<1>2. \A m \in mempool' : m.from = GENESIS => m.id \notin db.txs
    BY <1>1 DEF NodeInv, PoolNew
<1>3. PICK s, d : s = "idle" /\ d = NoDraft
    OBVIOUS
<1>4. QED
    BY <1>1, <1>2, <1>3, TickStep

LEMMA RemoveStep ==
    ASSUME NodeInv, RemoveConfirmed PROVE NodeInv'
<1>1. producer' = [step |-> "idle", draft |-> NoDraft] /\ mempool' \subseteq mempool
      /\ UNCHANGED <<adding, db, actions>>
    BY DEF RemoveConfirmed
<1>2. ASSUME NEW m \in mempool', m.from = GENESIS PROVE m.id \notin db.txs
  <2>1. m \in mempool /\ \A i \in 1..Len(producer.draft.txs) : producer.draft.txs[i].id # m.id
    BY <1>2 DEF RemoveConfirmed
  <2>2. ~InDraft(m.id)
    BY <2>1 DEF InDraft
  <2>3. QED
    BY <1>2, <2>1, <2>2 DEF NodeInv, PoolNew
<1>3. PICK s, d : s = "idle" /\ d = NoDraft
    OBVIOUS
<1>4. QED
    BY <1>1, <1>2, <1>3, TickStep

\* A block joins the chain, and no action that is being added is in it; what it
\* confirms of the pool's actions is in a draft that is then to be removed.
LEMMA BlockJoins ==
    ASSUME NodeInv, NEW b, Commits(db, b), db' = Committed(db, b),
           UNCHANGED <<mempool, adding, actions>>,
           DraftSound', DraftNew', PoolNew',
           \A c \in Clients : adding[c] # NoTx /\ adding[c].from = GENESIS =>
              ~InDraft(adding[c].id)' /\ \A i \in 1..Len(b.txs) : b.txs[i].id # adding[c].id
    PROVE  NodeInv'
<1>1. PoolSound' /\ actions \in Nat
    BY PoolShrinks DEF NodeInv
<1>2. ChainSound' /\ db'.txs = db.txs \cup {b.txs[j].id : j \in 1..Len(b.txs)}
    BY <1>1, ChainCommits DEF NodeInv
<1>3. AddingNew'
  <2>1. ASSUME NEW c \in Clients, adding[c] # NoTx, adding[c].from = GENESIS PROVE Alone(c)'
    <3>1. Alone(c)
      BY <2>1 DEF NodeInv, AddingNew
    <3>2. adding[c].id \notin db'.txs
      BY <1>2, <2>1, <3>1 DEF Alone
    <3>3. ~InDraft(adding[c].id)'
      BY <2>1
    <3>4. QED
      BY <3>1, <3>2, <3>3 DEF Alone
  <2>2. QED
    BY <2>1 DEF AddingNew
<1>4. QED
    BY <1>1, <1>2, <1>3 DEF NodeInv

\* The reward is a number: no exponent makes the divisor zero.
LEMMA PowersOfTwo ==
    ASSUME NEW n \in Nat
    PROVE  2 ^ n \in Nat \ {0}
<1>1. IsFiniteSet(1..n) /\ Cardinality(1..n) = n
    BY FS_Interval
<1>2. IsFiniteSet(SUBSET (1..n)) /\ Cardinality(SUBSET (1..n)) = 2 ^ n
    BY <1>1, FS_SUBSET
<1>3. SUBSET (1..n) # {}
    OBVIOUS
<1>4. Cardinality(SUBSET (1..n)) \in Nat /\ Cardinality(SUBSET (1..n)) # 0
    BY <1>2, <1>3, FS_CardinalityType, FS_EmptySet
<1>5. QED
    BY <1>2, <1>4

LEMMA RewardIsNat ==
    ASSUME NEW h \in Nat, NEW x \in Nat
    PROVE  current_block_reward(h, x) \in Nat
<1>1. PICK q : q = h \div HalvingPeriod
    OBVIOUS
<1>2. q \in Nat
    BY <1>1, NodeAssumption
<1>3. halving_exp(h) \in Nat
    BY <1>1, <1>2, NodeAssumption DEF halving_exp
<1>4. PICK p \in Nat \ {0} : p = 2 ^ halving_exp(h)
    BY <1>3, PowersOfTwo
<1>5. RewardBase \div p \in Nat
    BY NodeAssumption
<1>6. QED
    BY <1>4, <1>5 DEF current_block_reward

\* The reward is never more than what the pool has left.
LEMMA RewardIsCapped ==
    ASSUME ChainSound, NEW to, NEW h \in Nat, NEW s
    PROVE  RewardTx(to, h, s).amount <= db.balances[Pool]
<1>1. PICK x \in Nat : x = db.balances[Pool]
    BY RulesAssumption DEF ChainSound, ChainOf, DbOK
<1>2. PICK a : a = current_block_reward(h, x)
    OBVIOUS
<1>3. a \in Nat
    BY <1>2, RewardIsNat
<1>4. PICK v : v = RewardBase \div (2 ^ halving_exp(h))
    OBVIOUS
<1>5. a = IF v < x THEN v ELSE x
    BY <1>2, <1>4 DEF current_block_reward
<1>6. a <= x
  <2>1. CASE v < x
    <3>1. a = v
      BY <1>5, <2>1
    <3>2. QED
      BY <1>3, <2>1, <3>1
  <2>2. CASE ~(v < x)
    BY <1>5, <2>2
  <2>3. QED
    BY <2>1, <2>2
<1>7. RewardTx(to, h, s).amount = a
    BY <1>1, <1>2 DEF RewardTx
<1>8. QED
    BY <1>1, <1>6, <1>7

LEMMA RewardTxLike ==
    ASSUME ChainSound, NEW to \in Accounts, NEW h \in Nat, NEW s
    PROVE  RewardLike(RewardTx(to, h, s), h)
<1>1. db.balances[Pool] \in Nat
    BY RulesAssumption DEF ChainSound, ChainOf, DbOK
<1>2. PICK a : a = current_block_reward(h, db.balances[Pool])
    OBVIOUS
<1>3. a \in Nat
    BY <1>1, <1>2, RewardIsNat
<1>4. PICK x : x = RewardTx(to, h, s)
    OBVIOUS
<1>5. /\ x.from = Pool /\ x.to = to /\ x.amount = a /\ x.fee = 0 /\ x.timestamp = s
      /\ x.id = compute_id(Pool, to, a, 0, h, s, "reward")
    BY <1>2, <1>4 DEF RewardTx
<1>6. QED
    BY <1>3, <1>4, <1>5, RulesAssumption DEF RewardLike, TxOK

\* The reward is put first.
LEMMA RewardFirst ==
    ASSUME NEW S, NEW r, NEW txs \in Seq(S), NEW q, q = <<r>> \o txs
    PROVE  /\ Len(q) = 1 + Len(txs) /\ q[1] = r
           /\ \A i \in 2..Len(q) : i - 1 \in 1..Len(txs) /\ q[i] = txs[i - 1]
<1>1. PICK n \in Nat : n = Len(txs)
    OBVIOUS
<1>2. txs \in Seq(S \cup {r}) /\ <<r>> \in Seq(S \cup {r}) /\ Len(<<r>>) = 1
    OBVIOUS
<1>3. /\ Len(q) = Len(<<r>>) + Len(txs)
      /\ \A i \in 1 .. Len(<<r>>) + Len(txs) :
           q[i] = IF i <= Len(<<r>>) THEN <<r>>[i] ELSE txs[i - Len(<<r>>)]
    BY <1>2, ConcatProperties
<1>4. /\ Len(q) = 1 + n
      /\ \A i \in 1 .. 1 + n : q[i] = IF i <= 1 THEN <<r>>[i] ELSE txs[i - 1]
    BY <1>1, <1>2, <1>3
<1>5. q[1] = r
    BY <1>1, <1>4
<1>6. ASSUME NEW i \in 2..Len(q) PROVE i - 1 \in 1..n /\ q[i] = txs[i - 1]
  <2>1. i \in 1..(1 + n) /\ ~(i <= 1) /\ i - 1 \in 1..n
    BY <1>1, <1>4
  <2>2. QED
    BY <1>4, <2>1
<1>7. QED
    BY <1>1, <1>4, <1>5, <1>6

\* A reward, then pending transactions with ids of their own.
LEMMA BlockMade ==
    ASSUME NEW S, NEW r, NEW txs \in Seq(S), NEW b, b.txs = <<r>> \o txs,
           b.height \in 1..MaxHeight, b.validator \in Accounts, RewardLike(r, b.height),
           Len(txs) <= BlockLimit + 1,
           \A i \in 1..Len(txs) : Pending(txs[i]),
           \A i, j \in 1..Len(txs) : txs[i].id = txs[j].id => i = j
    PROVE  /\ BlockLike(b)
           /\ \A i \in 1..Len(b.txs) : b.txs[i] = r \/ \E k \in 1..Len(txs) : b.txs[i] = txs[k]
<1>1. PICK q : q = b.txs
    OBVIOUS
<1>2. PICK n \in Nat : n = Len(txs)
    OBVIOUS
<1>3. Len(q) = 1 + n /\ q[1] = r /\ \A i \in 2..Len(q) : i - 1 \in 1..n /\ q[i] = txs[i - 1]
    BY <1>1, <1>2, RewardFirst
<1>4. \A i \in 2..Len(q) : i - 1 \in 1..n /\ q[i] = txs[i - 1]
    BY <1>3
<1>5. Len(q) \in 1..(BlockLimit + 2)
    BY <1>2, <1>3, NodeAssumption
<1>6. \A i \in 2..Len(q) : Pending(q[i])
    BY <1>2, <1>4
<1>7. ASSUME NEW i \in 2..Len(q), NEW j \in 2..Len(q), q[i].id = q[j].id PROVE i = j
  <2>1. i - 1 = j - 1
    BY ZenonT(60), <1>2, <1>4, <1>7
  <2>2. QED
    BY <1>3, <2>1
<1>8. BlockLike(b)
    BY <1>1, <1>3, <1>5, <1>6, <1>7 DEF BlockLike
<1>9. ASSUME NEW i \in 1..Len(q) PROVE q[i] = r \/ \E k \in 1..n : q[i] = txs[k]
  <2>1. i = 1 \/ i \in 2..Len(q)
    BY <1>3
  <2>2. QED
    BY <1>3, <1>4, <2>1
<1>10. QED
    BY <1>1, <1>2, <1>8, <1>9

\* What take_for_block takes is in the pool, and no transaction twice.
LEMMA Taken ==
    ASSUME IsFiniteSet(mempool), PoolSound, NEW txs \in TakeForBlock
    PROVE  /\ txs \in Seq(mempool) /\ Len(txs) <= BlockLimit
           /\ \A i, j \in 1..Len(txs) : txs[i].id = txs[j].id => i = j
<1>1. PICK N \in Nat : N = Cardinality(mempool)
    BY FS_CardinalityType
<1>2. PICK s \in SetToSeqs(mempool) :
        txs = SubSeq(s, 1, IF Len(s) < BlockLimit THEN Len(s) ELSE BlockLimit)
    BY DEF TakeForBlock
<1>3. s \in [1..N -> mempool] /\ \A i, j \in 1..N : i # j => s[i] # s[j]
    BY <1>1, <1>2 DEF SetToSeqs
<1>4. s \in Seq(mempool) /\ Len(s) = N
    BY <1>1, <1>3
<1>5. PICK n \in Nat : n = (IF Len(s) < BlockLimit THEN Len(s) ELSE BlockLimit)
    BY <1>1, <1>4, NodeAssumption
<1>6. n <= N /\ n <= BlockLimit
    BY <1>1, <1>4, <1>5, NodeAssumption
<1>7. \A i \in 1..n : s[i] \in mempool
    BY <1>1, <1>3, <1>6
<1>8. txs = SubSeq(s, 1, n)
    BY <1>2, <1>5
<1>9. txs \in Seq(mempool) /\ Len(txs) = n /\ \A i \in 1..n : txs[i] = s[i]
  <2>1. /\ txs \in Seq(mempool) /\ Len(txs) = (IF 1 <= n THEN n - 1 + 1 ELSE 0)
        /\ \A i \in 1 .. n - 1 + 1 : txs[i] = s[1 + i - 1]
    BY <1>5, <1>7, <1>8, SubSeqProperties
  <2>2. QED
    BY <1>5, <2>1
<1>10. ASSUME NEW i \in 1..n, NEW j \in 1..n, txs[i].id = txs[j].id PROVE i = j
  <2>1. txs[i] = s[i] /\ txs[j] = s[j] /\ s[i] \in mempool /\ s[j] \in mempool
    BY <1>7, <1>9
  <2>2. s[i] = s[j]
    BY <1>10, <2>1 DEF PoolSound
  <2>3. i \in 1..N /\ j \in 1..N
    BY <1>1, <1>5, <1>6
  <2>4. QED
    BY <1>3, <2>2, <2>3
<1>11. QED
    BY <1>6, <1>9, <1>10

\* A draft is built.
LEMMA BuildStep ==
    ASSUME NodeInv, IsFiniteSet(mempool), BuildBlock PROVE NodeInv'
<1>1. PICK txs \in TakeForBlock :
        producer' =
           [step |-> "apply",
            draft |-> [height |-> producer.draft.height, prev_hash |-> producer.draft.prev_hash,
                       hash |-> <<Miner, producer.draft.height, producer.draft.timestamp, txs>>,
                       validator |-> Miner,
                       txs |-> <<RewardTx(Miner, producer.draft.height, producer.draft.timestamp)>>
                                  \o txs]]
    BY DEF BuildBlock
<1>2. producer.step = "take" /\ UNCHANGED <<db, mempool, adding, actions>>
    BY DEF BuildBlock
<1>3. PICK h, s : h = producer.draft.height /\ s = producer.draft.timestamp
    OBVIOUS
<1>4. PICK r : r = RewardTx(Miner, h, s)
    OBVIOUS
<1>5. PICK b : b = producer'.draft
    OBVIOUS
<1>6. h \in 1..MaxHeight /\ h \in Nat
    BY <1>2, <1>3, RulesAssumption DEF NodeInv, DraftSound
<1>7. /\ producer' = [step |-> "apply", draft |-> b]
      /\ b.height = h /\ b.validator = Miner /\ b.txs = <<r>> \o txs
    BY <1>1, <1>3, <1>4, <1>5
<1>8. RewardLike(r, h)
    BY <1>4, <1>6, RewardTxLike, NodeAssumption DEF NodeInv
<1>9. /\ txs \in Seq(mempool) /\ Len(txs) <= BlockLimit
      /\ \A i, j \in 1..Len(txs) : txs[i].id = txs[j].id => i = j
    BY Taken DEF NodeInv
<1>10. \A i \in 1..Len(txs) : txs[i] \in mempool
    BY <1>9
<1>11. \A i \in 1..Len(txs) : Pending(txs[i])
    BY <1>10 DEF NodeInv, PoolSound
<1>12. Len(txs) <= BlockLimit + 1 /\ Miner \in Accounts
    BY <1>9, NodeAssumption
<1>13. /\ BlockLike(b)
       /\ \A i \in 1..Len(b.txs) : b.txs[i] = r \/ \E k \in 1..Len(txs) : b.txs[i] = txs[k]
    BY <1>6, <1>7, <1>8, <1>9, <1>11, <1>12, BlockMade
<1>14. \A i \in 1..Len(b.txs) : b.txs[i] = r \/ b.txs[i] \in mempool
    BY <1>10, <1>13
<1>15. PoolSound' /\ actions \in Nat /\ actions' \in Nat /\ actions <= actions'
    BY <1>2, PoolShrinks DEF NodeInv
<1>16. producer'.step = "apply" /\ producer'.draft = b
    BY <1>7
<1>17. DraftSound'
  <2>1. BlockLike(b)'
    BY <1>13, <1>15, BlockLikeStays
  <2>2. QED
    BY <1>7, <1>16, <2>1 DEF DraftSound, Drafted
<1>18. ChainSound'
    BY <1>2, <1>15, ChainUnchanged DEF NodeInv
<1>19. \A m \in mempool : m.from = GENESIS => m.id \notin db.txs
    BY <1>2 DEF NodeInv, PoolNew
<1>20. PoolNew'
    BY <1>2, <1>19 DEF PoolNew
<1>21. r.from # GENESIS
    BY <1>8, RulesAssumption DEF RewardLike, GENESIS
<1>22. DraftNew'
    BY <1>2, <1>14, <1>16, <1>19, <1>21 DEF DraftNew
<1>23. AddingNew'
  <2>1. ASSUME NEW c \in Clients, adding[c] # NoTx, adding[c].from = GENESIS PROVE Alone(c)'
    <3>1. Alone(c)
      BY <2>1 DEF NodeInv, AddingNew
    <3>2. ActionLike(adding[c])
      BY <2>1, KindsOfPending DEF NodeInv, PoolSound
    <3>3. adding[c].id # r.id
      BY <1>8, <3>2, IdsByKind
    <3>4. \A m \in mempool : m.id # adding[c].id
      BY <3>1 DEF Alone
    <3>5. \A i \in 1..Len(b.txs) : b.txs[i].id # adding[c].id
      BY <1>14, <3>3, <3>4
    <3>6. ~InDraft(adding[c].id)'
      BY <1>2, <1>16, <3>5 DEF InDraft
    <3>7. QED
      BY <1>2, <3>1, <3>6 DEF Alone
  <2>2. QED
    BY <1>2, <2>1 DEF AddingNew
<1>24. QED
    BY <1>15, <1>17, <1>18, <1>20, <1>22, <1>23 DEF NodeInv

\* The requests that have passed add's checks and not inserted yet.
Admitted == {c \in Clients : adding[c] # NoTx}

PoolInv ==
    /\ DOMAIN adding = Clients
    /\ IsFiniteSet(mempool)
    /\ Cardinality(mempool) + Cardinality(Admitted) <= MaxSize + Cardinality(Clients) - 1

\* One more is admitted, below the limit.
LEMMA AdmitStep ==
    ASSUME PoolInv, NEW c \in Clients, NEW tx, adding[c] = NoTx,
           Cardinality(mempool) < MaxSize,
           adding' = [adding EXCEPT ![c] = tx], mempool' = mempool
    PROVE  PoolInv'
<1> PICK n \in Nat : n = Cardinality(mempool)
    BY FS_CardinalityType DEF PoolInv
<1> PICK m \in Nat : m = Cardinality(Clients)
    BY NodeAssumption, FS_CardinalityType
<1> PICK A : A = Admitted'
    OBVIOUS
<1>1. A \subseteq Clients
    BY DEF Admitted
<1>2. IsFiniteSet(A) /\ Cardinality(A) <= m /\ Cardinality(A) \in Nat
    BY <1>1, NodeAssumption, FS_Subset, FS_CardinalityType
<1>3. n + Cardinality(A) <= MaxSize + m - 1
    BY <1>2, NodeAssumption
<1>4. QED
    BY <1>3 DEF PoolInv

\* One that was admitted is in the pool.
LEMMA InsertStep ==
    ASSUME PoolInv, NEW c \in Clients, FinishAdd(c)
    PROVE  PoolInv'
<1> PICK n \in Nat : n = Cardinality(mempool)
    BY FS_CardinalityType DEF PoolInv
<1> PICK m \in Nat : m = Cardinality(Clients)
    BY NodeAssumption, FS_CardinalityType
<1> PICK A : A = Admitted
    OBVIOUS
<1>1. IsFiniteSet(A) /\ c \in A /\ Cardinality(A) \in Nat
  <2>1. A \subseteq Clients /\ c \in A
    BY DEF Admitted, FinishAdd
  <2>2. QED
    BY <2>1, NodeAssumption, FS_Subset, FS_CardinalityType
<1>2. Admitted' = A \ {c} /\ DOMAIN adding' = Clients
    BY DEF Admitted, FinishAdd, PoolInv
<1>3. Cardinality(A \ {c}) = Cardinality(A) - 1
    BY <1>1, FS_RemoveElement
<1> PICK M : M = mempool'
    OBVIOUS
<1> PICK tx : tx = adding[c]
    OBVIOUS
<1> PICK R : R = {x \in mempool : x.id # tx.id}
    OBVIOUS
<1>4. IsFiniteSet(M) /\ Cardinality(M) \in Nat /\ Cardinality(M) <= n + 1
  <2>1. R \subseteq mempool /\ M = R \cup {tx}
    BY DEF FinishAdd
  <2>2. IsFiniteSet(R) /\ Cardinality(R) <= n /\ Cardinality(R) \in Nat
    BY <2>1, FS_Subset, FS_CardinalityType DEF PoolInv
  <2>3. IsFiniteSet(M) /\ Cardinality(M) \in {Cardinality(R), Cardinality(R) + 1}
    BY SMTT(30), <2>1, <2>2, FS_AddElement
  <2>4. QED
    BY <2>2, <2>3
<1>5. n + Cardinality(A) <= MaxSize + m - 1
    BY DEF PoolInv
<1>6. Cardinality(M) + Cardinality(A \ {c}) <= MaxSize + m - 1
    BY <1>1, <1>3, <1>4, <1>5, NodeAssumption
<1>7. QED
    BY <1>2, <1>4, <1>6 DEF PoolInv

\* The pool has only become smaller.
LEMMA ShrinkStep ==
    ASSUME PoolInv, mempool' \subseteq mempool, adding' = adding
    PROVE  PoolInv'
<1> PICK n \in Nat : n = Cardinality(mempool)
    BY FS_CardinalityType DEF PoolInv
<1> PICK m \in Nat : m = Cardinality(Clients)
    BY NodeAssumption, FS_CardinalityType
<1> PICK k \in Nat : k = Cardinality(Admitted)
  <2>1. Admitted \subseteq Clients
    BY DEF Admitted
  <2>2. QED
    BY <2>1, NodeAssumption, FS_Subset, FS_CardinalityType
<1> PICK M : M = mempool'
    OBVIOUS
<1>1. IsFiniteSet(M) /\ Cardinality(M) <= n /\ Cardinality(M) \in Nat
    BY FS_Subset, FS_CardinalityType DEF PoolInv
<1>2. Admitted' = Admitted
    BY DEF Admitted
<1>3. Cardinality(M) + k <= MaxSize + m - 1
    BY <1>1, NodeAssumption DEF PoolInv
<1>4. QED
    BY <1>1, <1>2, <1>3 DEF PoolInv

\* The pool's bound holds at the start and is kept by every step.
LEMMA PoolStart == Init => PoolInv
<1> SUFFICES ASSUME Init PROVE PoolInv
    OBVIOUS
<1>1. DOMAIN adding = Clients /\ mempool = {} /\ Admitted = {}
    BY DEF Init, Admitted
<1>2. IsFiniteSet({}) /\ Cardinality({}) = 0
    BY FS_EmptySet
<1>3. Cardinality(Clients) \in Nat /\ Cardinality(Clients) # 0 /\ MaxSize \in Nat
    BY NodeAssumption, FS_CardinalityType, FS_EmptySet
<1>4. QED
    BY <1>1, <1>2, <1>3 DEF PoolInv

LEMMA PoolStep == PoolInv /\ [Next]_vars => PoolInv'
<1> SUFFICES ASSUME PoolInv, [Next]_vars PROVE PoolInv'
    OBVIOUS
<1>1. ASSUME NEW c \in Clients, SubmitTx(c)
      PROVE  PoolInv'
    BY <1>1, AdmitStep DEF SubmitTx, add_checks
<1>2. ASSUME NEW c \in Clients, SubmitAction(c)
      PROVE  PoolInv'
    BY <1>2, AdmitStep DEF SubmitAction, add_checks
<1>3. ASSUME NEW c \in Clients, SubmitSigned(c)
      PROVE  PoolInv'
    BY <1>3, AdmitStep DEF SubmitSigned, add_checks
<1>4. ASSUME NEW c \in Clients, FinishAdd(c)
      PROVE  PoolInv'
    BY <1>4, InsertStep
<1>5. CASE EvictExpired
    BY <1>5, ShrinkStep DEF EvictExpired
<1>6. CASE AdvanceClock
    BY <1>6, ShrinkStep DEF AdvanceClock
<1>7. CASE ReadTip
    BY <1>7, ShrinkStep DEF ReadTip
<1>8. CASE BuildBlock
    BY <1>8, ShrinkStep DEF BuildBlock
<1>9. CASE ProofFails
    BY <1>9, ShrinkStep DEF ProofFails
<1>10. CASE ApplyDraft
    BY <1>10, ShrinkStep DEF ApplyDraft
<1>11. CASE RemoveConfirmed
    BY <1>11, ShrinkStep DEF RemoveConfirmed
<1>12. CASE PeerBlock
    BY <1>12, ShrinkStep DEF PeerBlock
<1>13. CASE UNCHANGED vars
    BY <1>13, ShrinkStep DEF vars
<1>14. QED
    BY <1>1, <1>2, <1>3, <1>4, <1>5, <1>6, <1>7, <1>8, <1>9, <1>10, <1>11, <1>12, <1>13
       DEF Next, Local, ProducerStep

\* The bound on the pool and the requests in flight, as an inductive invariant.
THEOREM PoolInvariance == Spec => []PoolInv
<1>1. Init => PoolInv
    BY PoolStart
<1>2. PoolInv /\ [Next]_vars => PoolInv'
    BY PoolStep
<1>3. QED
    BY <1>1, <1>2, PTL DEF Spec

\* Mempool::add checks the size under a read lock and inserts later, so the pool may
\* exceed MAX_SIZE, by no more than the requests in flight.
THEOREM PoolAlwaysBounded == Spec => []MempoolBounded
<1>1. ASSUME PoolInv PROVE MempoolBounded
  <2>1. PICK n \in Nat : n = Cardinality(mempool)
    BY <1>1, FS_CardinalityType DEF PoolInv
  <2>2. PICK k \in Nat : k = Cardinality(Admitted)
    <3>1. Admitted \subseteq Clients
      BY DEF Admitted
    <3>2. QED
      BY <3>1, NodeAssumption, FS_Subset, FS_CardinalityType
  <2>3. PICK m \in Nat : m = Cardinality(Clients)
    BY NodeAssumption, FS_CardinalityType
  <2>4. n + k <= MaxSize + m - 1
    BY <1>1, <2>1, <2>2, <2>3 DEF PoolInv
  <2>5. QED
    BY <2>1, <2>3, <2>4, NodeAssumption DEF MempoolBounded
<1>2. QED
    BY <1>1, PoolInvariance, PTL

\* The draft is applied, or fails.
LEMMA ApplyStep ==
    ASSUME NodeInv, ApplyDraft PROVE NodeInv'
<1>1. PICK b : b = producer.draft
    OBVIOUS
<1>2. producer.step = "apply" /\ UNCHANGED <<mempool, adding, actions>>
    BY DEF ApplyDraft
<1>3. CASE ~Accepts(db, b)
  <2>1. producer' = [step |-> "idle", draft |-> NoDraft] /\ UNCHANGED db
    BY <1>1, <1>3 DEF ApplyDraft
  <2>2. \A m \in mempool' : m.from = GENESIS => m.id \notin db.txs
    BY <1>2 DEF NodeInv, PoolNew
  <2>3. PICK s, d : s = "idle" /\ d = NoDraft
    OBVIOUS
  <2>4. QED
    BY <1>2, <2>1, <2>2, <2>3, TickStep
<1>4. CASE Accepts(db, b)
  <2>1. db' = Committed(db, b) /\ producer' = [producer EXCEPT !.step = "remove"]
    BY <1>1, <1>4 DEF ApplyDraft
  <2>2. producer = [step |-> "apply", draft |-> b]
    BY <1>1, <1>2 DEF NodeInv, DraftSound
  <2>3. producer' = [step |-> "remove", draft |-> b]
    BY <2>1, <2>2
  <2>4. producer'.step = "remove" /\ producer'.draft = b
    BY <2>3
  <2>5. BlockLike(b)
    BY <1>1, <1>2 DEF NodeInv, DraftSound, Drafted
  <2>6. Commits(db, b)
    BY <1>1, <1>2, <1>4, <2>5 DEF NodeInv, DraftNew, Commits
  <2>7. actions \in Nat /\ ChainSound
    BY DEF NodeInv, PoolSound
  <2>8. db'.txs = db.txs \cup {b.txs[j].id : j \in 1..Len(b.txs)}
    BY <1>2, <2>1, <2>6, <2>7, ChainCommits
  <2>9. DraftSound'
    <3>1. BlockLike(b)'
      BY <1>2, <2>5, <2>7, BlockLikeStays
    <3>2. QED
      BY <2>3, <2>4, <2>8, <3>1 DEF DraftSound, Drafted
  <2>10. DraftNew'
    BY <2>4 DEF DraftNew
  <2>11. PoolNew'
    <3>1. ASSUME NEW m \in mempool, m.from = GENESIS, m.id \in db'.txs PROVE InDraft(m.id)'
      <4>1. m.id \notin db.txs
        BY <1>2, <3>1 DEF NodeInv, PoolNew
      <4>2. PICK j \in 1..Len(b.txs) : b.txs[j].id = m.id
        BY <2>8, <3>1, <4>1
      <4>3. QED
        BY <2>4, <4>2 DEF InDraft, Drafted
    <3>2. QED
      BY <1>2, <2>4, <3>1 DEF PoolNew
  <2>12. ASSUME NEW c \in Clients, adding[c] # NoTx, adding[c].from = GENESIS
         PROVE  ~InDraft(adding[c].id)' /\ \A i \in 1..Len(b.txs) : b.txs[i].id # adding[c].id
    <3>1. ~InDraft(adding[c].id)
      BY <2>12 DEF NodeInv, AddingNew, Alone
    <3>2. \A i \in 1..Len(b.txs) : b.txs[i].id # adding[c].id
      BY <1>1, <1>2, <3>1 DEF InDraft, Drafted
    <3>3. QED
      BY <1>2, <2>4, <3>2 DEF InDraft
  <2>13. QED
    BY <1>2, <2>1, <2>6, <2>9, <2>10, <2>11, <2>12, BlockJoins
<1>5. QED
    BY <1>3, <1>4

\* A peer's block holds clients' transactions and its reward, never an action.
LEMMA PeerBlockLike ==
    ASSUME NodeInv, db.tip_height < MaxHeight, NEW r, RewardLike(r, db.tip_height + 1),
           NEW txs, txs = <<>> \/ \E x : ClientLike(x) /\ txs = <<x>>,
           NEW b, b.txs = <<r>> \o txs, b.height = db.tip_height + 1, b.validator \in Accounts
    PROVE  /\ BlockLike(b)
           /\ \A i \in 1..Len(b.txs) : \A y : ActionLike(y) => b.txs[i].id # y.id
           /\ \A i \in 1..Len(b.txs) : b.txs[i].from # GENESIS
<1>1. b.height \in 1..MaxHeight
    BY RulesAssumption DEF NodeInv, ChainSound, ChainOf
<1>2. PICK S : txs \in Seq(S) /\ Len(txs) <= 1 /\ Len(txs) \in Nat
               /\ \A i \in 1..Len(txs) : ClientLike(txs[i])
  <2>1. CASE txs = <<>>
    <3>1. txs \in Seq({}) /\ Len(txs) = 0
      BY <2>1
    <3>2. QED
      BY <3>1
  <2>2. CASE \E x : ClientLike(x) /\ txs = <<x>>
    <3>1. PICK x : ClientLike(x) /\ txs = <<x>>
      BY <2>2
    <3>2. txs \in Seq({x}) /\ Len(txs) = 1 /\ txs[1] = x
      BY <3>1
    <3>3. \A i \in 1..Len(txs) : ClientLike(txs[i])
      BY <3>1, <3>2
    <3>4. QED
      BY <3>2, <3>3
  <2>3. QED
    BY <2>1, <2>2
<1>3. \A i \in 1..Len(txs) : Pending(txs[i])
    BY <1>2 DEF Pending
<1>4. \A i, j \in 1..Len(txs) : txs[i].id = txs[j].id => i = j
    BY <1>2
<1>5. Len(txs) <= BlockLimit + 1 /\ RewardLike(r, b.height)
    BY <1>2, NodeAssumption
<1>6. /\ BlockLike(b)
      /\ \A i \in 1..Len(b.txs) : b.txs[i] = r \/ \E k \in 1..Len(txs) : b.txs[i] = txs[k]
    BY <1>1, <1>2, <1>3, <1>4, <1>5, BlockMade
<1>7. ASSUME NEW i \in 1..Len(b.txs) PROVE RewardLike(b.txs[i], b.height) \/ ClientLike(b.txs[i])
    BY <1>2, <1>5, <1>6
<1>8. ASSUME NEW i \in 1..Len(b.txs), NEW y, ActionLike(y) PROVE b.txs[i].id # y.id
    BY <1>7, <1>8, IdsByKind
<1>9. ASSUME NEW i \in 1..Len(b.txs) PROVE b.txs[i].from # GENESIS
    BY <1>7, RulesAssumption DEF RewardLike, ClientLike, IsUserTx, GENESIS
<1>10. QED
    BY <1>6, <1>8, <1>9

\* A transaction is covered: when its nonce is the sender's next one, it costs no
\* more than the sender has.
Covered(d, tx) ==
    tx.from # GENESIS =>
        /\ tx.nonce <= d.nonces[tx.from]
        /\ tx.nonce = d.nonces[tx.from] => Cost(tx) <= d.balances[tx.from]

\* The transactions of a block are covered, its reward by the pool.
BlockCovered(d, b) ==
    /\ b.txs[1].amount <= d.balances[Pool]
    /\ \A i \in 2..Len(b.txs) : Covered(d, b.txs[i])

\* What is known of a peer's block when it is applied.
PeerMade(b) ==
    /\ BlockLike(b) /\ Accepts(db, b) /\ BlockCovered(db, b) /\ "txs" \in DOMAIN b
    /\ \A i \in 1..Len(b.txs) : \A y : ActionLike(y) => b.txs[i].id # y.id
    /\ \A i \in 1..Len(b.txs) : b.txs[i].from # GENESIS

\* A transaction that follows the reward alone is covered when it is valid.
LEMMA SecondCovered ==
    ASSUME NEW d, ChainOf(d), NEW b, BlockLike(b), Accepts(d, b),
           NEW x, x = b.txs[2], 2 <= Len(b.txs), IsUserTx(x), d.balances[x.from] >= Cost(x)
    PROVE  Covered(d, x)
<1>1. BlockOK(b) /\ Len(b.txs) \in Nat /\ 2 \in 1..Len(b.txs)
    BY BlockLikeOK DEF BlockOK
<1>2. PICK a : a = x.from
    OBVIOUS
<1>3. TxOK(x) /\ a \in Accounts
    BY <1>1, <1>2 DEF BlockOK, TxOK, IsUserTx
<1>4. PICK n \in Nat : n = d.nonces[a]
    BY <1>3 DEF ChainOf, DbOK
<1>5. PICK S : S = {j \in 1..(2 - 1) : b.txs[j].from = a}
    OBVIOUS
<1>6. b.txs[1].from = Pool /\ a # Pool
    BY <1>2 DEF BlockLike, RewardLike, IsUserTx
<1>7. S = {}
    BY <1>5, <1>6
<1>8. Cardinality(S) = 0
    BY <1>7, FS_EmptySet
<1>9. x.nonce = expected_nonce(d, b.txs, 2)
    BY <1>1 DEF Accepts, Valid
<1>10. x.nonce = n + Cardinality(S)
    BY <1>2, <1>4, <1>5, <1>9 DEF expected_nonce
<1>11. d.balances[a] \in Nat /\ Cost(x) \in Nat
  <2>1. d.balances[a] \in Nat
    BY <1>3 DEF ChainOf, DbOK
  <2>2. Cost(x) \in Nat
    BY <1>3 DEF TxOK, Cost
  <2>3. QED
    BY <2>1, <2>2
<1>12. QED
    BY <1>2, <1>4, <1>8, <1>10, <1>11 DEF Covered

\* At most one transaction is a sequence of at most one.
LEMMA ShortSeq ==
    ASSUME NEW txs, txs = <<>> \/ \E x : ClientLike(x) /\ txs = <<x>>
    PROVE  /\ \E S : txs \in Seq(S)
           /\ Len(txs) \in Nat /\ Len(txs) <= 1
<1>1. CASE txs = <<>>
  <2>1. txs \in Seq({}) /\ Len(txs) = 0
    BY <1>1
  <2>2. QED
    BY <2>1
<1>2. CASE \E x : ClientLike(x) /\ txs = <<x>>
  <2>1. PICK x : txs = <<x>>
    BY <1>2
  <2>2. txs \in Seq({x}) /\ Len(txs) = 1
    BY <2>1
  <2>3. QED
    BY <2>2
<1>3. QED
    BY <1>1, <1>2

\* A peer's block is a block, and what it takes is there.
LEMMA PeerMakes ==
    ASSUME NodeInv, PeerBlock
    PROVE  \E b : PeerMade(b) /\ db' = Committed(db, b)
<1> DEFINE Peer(txs) ==
             [height |-> db.tip_height + 1, prev_hash |-> db.tip_hash,
              hash |-> <<PeerMiner, db.tip_height + 1, clock, txs>>,
              validator |-> PeerMiner,
              txs |-> <<RewardTx(PeerMiner, db.tip_height + 1, clock)>> \o txs]
<1>0. PICK txs \in {<<>>} \cup {<<tx>> : tx \in {ClientTx(t) : t \in Transfers} \cup mempool} :
        /\ \A i \in 1..Len(txs) :
              IsUserTx(txs[i]) /\ db.balances[txs[i].from] >= Cost(txs[i])
        /\ Accepts(db, Peer(txs))
        /\ db' = Committed(db, Peer(txs))
    BY DEF PeerBlock
<1>1. PICK b :
        /\ b = Peer(txs)
        /\ \A i \in 1..Len(txs) :
              IsUserTx(txs[i]) /\ db.balances[txs[i].from] >= Cost(txs[i])
        /\ Accepts(db, b)
        /\ db' = Committed(db, b)
    BY <1>0
<1>2. db.tip_height < MaxHeight /\ UNCHANGED <<mempool, adding, producer, actions>>
    BY DEF PeerBlock
<1>3. PICK r : r = RewardTx(PeerMiner, db.tip_height + 1, clock)
    OBVIOUS
<1>4. db.tip_height + 1 \in Nat /\ ChainSound /\ actions \in Nat
    BY RulesAssumption DEF NodeInv, ChainSound, ChainOf, PoolSound
<1>5. RewardLike(r, db.tip_height + 1)
    BY <1>3, <1>4, RewardTxLike, NodeAssumption
<1>6. txs = <<>> \/ \E x : ClientLike(x) /\ txs = <<x>>
  <2>1. CASE txs # <<>>
    <3>1. PICK x \in {ClientTx(t) : t \in Transfers} \cup mempool : txs = <<x>>
      BY <1>1, <2>1
    <3>2. IsUserTx(x)
      <4>1. Len(txs) = 1 /\ txs[1] = x
        BY <3>1
      <4>2. QED
        BY <1>1, <4>1
    <3>3. ClientLike(x)
      <4>1. CASE x \in mempool
        <5>1. Pending(x) /\ x.from # GENESIS
          BY <3>2, <4>1 DEF NodeInv, PoolSound, IsUserTx
        <5>2. QED
          BY <5>1, KindsOfPending
      <4>2. CASE x \notin mempool
        BY <1>4, <3>1, <4>2, ClientTxLike
      <4>3. QED
        BY <4>1, <4>2
    <3>4. QED
      BY <3>1, <3>3
  <2>2. QED
    BY <2>1
<1>7. b.txs = <<r>> \o txs /\ b.height = db.tip_height + 1 /\ b.validator \in Accounts
    BY <1>1, <1>3, NodeAssumption
<1>8. /\ BlockLike(b)
      /\ \A i \in 1..Len(b.txs) : \A y : ActionLike(y) => b.txs[i].id # y.id
      /\ \A i \in 1..Len(b.txs) : b.txs[i].from # GENESIS
    BY <1>2, <1>5, <1>6, <1>7, PeerBlockLike
<1>9. b.txs[1].amount <= db.balances[Pool]
  <2>1. r.amount <= db.balances[Pool]
    BY <1>3, <1>4, RewardIsCapped
  <2>2. PICK S : txs \in Seq(S)
    BY <1>6, ShortSeq
  <2>3. b.txs[1] = r
    BY <1>7, <2>2, RewardFirst
  <2>4. QED
    BY <2>1, <2>3
<1>10. ASSUME NEW i \in 2..Len(b.txs) PROVE Covered(db, b.txs[i])
  <2>1. PICK S : txs \in Seq(S)
    BY <1>6, ShortSeq
  <2>2. Len(b.txs) = 1 + Len(txs) /\ i - 1 \in 1..Len(txs) /\ b.txs[i] = txs[i - 1]
    BY <1>7, <1>10, <2>1, RewardFirst
  <2>3. Len(txs) <= 1 /\ Len(txs) \in Nat
    BY <1>6, ShortSeq
  <2>4. i = 2 /\ 2 <= Len(b.txs)
    BY <2>2, <2>3
  <2>5. PICK x : x = b.txs[2]
    OBVIOUS
  <2>6. IsUserTx(x) /\ db.balances[x.from] >= Cost(x)
    BY <1>1, <2>2, <2>4, <2>5
  <2>7. ChainOf(db) /\ BlockLike(b) /\ Accepts(db, b)
    BY <1>1, <1>4, <1>8 DEF ChainSound
  <2>8. Covered(db, x)
    BY <2>4, <2>5, <2>6, <2>7, SecondCovered
  <2>9. QED
    BY <2>4, <2>5, <2>8
<1>11. "txs" \in DOMAIN b
    BY <1>1
<1>12. BlockCovered(db, b)
    BY <1>9, <1>10 DEF BlockCovered
<1>13. PeerMade(b)
    BY <1>1, <1>8, <1>11, <1>12 DEF PeerMade
<1>14. QED
    BY <1>1, <1>13

\* A peer's block is applied.
LEMMA PeerStep ==
    ASSUME NodeInv, PeerBlock PROVE NodeInv'
<1>1. PICK b : PeerMade(b) /\ db' = Committed(db, b)
    BY PeerMakes
<1>2. UNCHANGED <<mempool, adding, producer, actions>>
    BY DEF PeerBlock
<1>4. ChainSound /\ actions \in Nat
    BY DEF NodeInv, PoolSound
<1>8. /\ BlockLike(b)
      /\ \A i \in 1..Len(b.txs) : \A y : ActionLike(y) => b.txs[i].id # y.id
      /\ \A i \in 1..Len(b.txs) : b.txs[i].from # GENESIS
    BY <1>1 DEF PeerMade
<1>9. Commits(db, b)
    BY <1>1, <1>8 DEF PeerMade, Commits
<1>10. db'.txs = db.txs \cup {b.txs[j].id : j \in 1..Len(b.txs)}
  <2>1. db' = Committed(db, b) /\ actions' = actions
    BY <1>1, <1>2
  <2>2. QED
    BY <1>4, <1>9, <2>1, ChainCommits
<1>11. DraftSound'
  <2>1. actions' \in Nat /\ actions <= actions' /\ db.txs \subseteq db'.txs
    BY <1>2, <1>4, <1>10
  <2>2. QED
    BY <1>2, <1>4, <2>1, DraftUnchanged DEF NodeInv
<1>12. \A y : ActionLike(y) /\ y.id \in db'.txs => y.id \in db.txs
    BY <1>8, <1>10
<1>13. DraftNew'
  <2>1. ASSUME producer.step = "apply", NEW i \in 1..Len(producer.draft.txs),
               producer.draft.txs[i].from = GENESIS
        PROVE  producer.draft.txs[i].id \notin db'.txs
    <3>1. PICK c, y : c = producer.draft /\ y = c.txs[i]
      OBVIOUS
    <3>2. BlockLike(c)
      BY <2>1, <3>1 DEF NodeInv, DraftSound, Drafted
    <3>3. RewardLike(y, c.height) \/ Pending(y)
      BY <2>1, <3>1, <3>2, IdsOfBlock
    <3>4. ActionLike(y)
      BY <2>1, <3>1, <3>3, KindsOfPending, RulesAssumption DEF RewardLike, GENESIS
    <3>5. y.id \notin db.txs
      BY <2>1, <3>1 DEF NodeInv, DraftNew
    <3>6. QED
      BY <1>12, <3>1, <3>4, <3>5
  <2>2. QED
    BY <1>2, <2>1 DEF DraftNew
<1>14. PoolNew'
  <2>1. ASSUME NEW m \in mempool, m.from = GENESIS, m.id \in db'.txs PROVE m.id \in db.txs
    <3>1. ActionLike(m)
      BY <2>1, KindsOfPending DEF NodeInv, PoolSound
    <3>2. QED
      BY <1>12, <2>1, <3>1
  <2>2. QED
    BY <1>2, <2>1 DEF NodeInv, PoolNew, InDraft, Drafted
<1>15. ASSUME NEW c \in Clients, adding[c] # NoTx, adding[c].from = GENESIS
       PROVE  ~InDraft(adding[c].id)' /\ \A i \in 1..Len(b.txs) : b.txs[i].id # adding[c].id
  <2>1. ~InDraft(adding[c].id)
    BY <1>15 DEF NodeInv, AddingNew, Alone
  <2>2. ActionLike(adding[c])
    BY <1>15, KindsOfPending DEF NodeInv, PoolSound
  <2>3. \A i \in 1..Len(b.txs) : b.txs[i].id # adding[c].id
    BY <1>8, <2>2
  <2>4. QED
    BY <1>2, <2>1, <2>3 DEF InDraft, Drafted
<1>16. QED
    BY <1>1, <1>2, <1>9, <1>11, <1>13, <1>14, <1>15, BlockJoins

\* The invariant holds at the start and is kept by every step.
LEMMA NodeStart == Init => NodeInv
<1> SUFFICES ASSUME Init PROVE NodeInv
    OBVIOUS
<1>1. /\ db = GenesisDb /\ mempool = {} /\ adding = [c \in Clients |-> NoTx]
      /\ producer = [step |-> "idle", draft |-> NoDraft] /\ actions = 0
    BY DEF Init
<1>2. PoolSound
    BY <1>1 DEF PoolSound
<1>3. DraftSound
    BY <1>1 DEF DraftSound, Drafted
<1>4. AddingNew /\ PoolNew /\ DraftNew
    BY <1>1 DEF AddingNew, PoolNew, DraftNew
<1>5. PICK d : d = GenesisDb
    OBVIOUS
<1>6. /\ d.tip_height = 0 /\ DOMAIN d.blocks = 1..MaxHeight
      /\ d.balances = InitialBalance /\ d.nonces = [a \in Accounts |-> 0]
      /\ d = [tip_height |-> d.tip_height, tip_hash |-> d.tip_hash, blocks |-> d.blocks,
              balances |-> d.balances, nonces |-> d.nonces, txs |-> d.txs]
    BY <1>5 DEF GenesisDb
<1>7. DbOK(d) /\ d.tip_height \in 0..MaxHeight
    BY <1>6, RulesAssumption DEF DbOK
<1>8. NoncesBelow(d)
  <2>1. (BlockLimit + 2) * 0 = 0
    BY NodeAssumption
  <2>2. QED
    BY <1>6, <2>1 DEF NoncesBelow
<1>9. 1..d.tip_height = {}
    BY <1>6
<1>10. ChainSound
    BY <1>1, <1>5, <1>6, <1>7, <1>8, <1>9 DEF ChainSound, ChainOf, OnceIn
<1>11. QED
    BY <1>2, <1>3, <1>4, <1>10 DEF NodeInv

LEMMA NodeStep == PoolInv /\ NodeInv /\ [Next]_vars => NodeInv'
<1> SUFFICES ASSUME PoolInv, NodeInv, [Next]_vars PROVE NodeInv'
    OBVIOUS
<1>1. ASSUME NEW c \in Clients, SubmitTx(c) PROVE NodeInv'
    BY <1>1, SubmitTxStep
<1>2. ASSUME NEW c \in Clients, SubmitAction(c) PROVE NodeInv'
    BY <1>2, SubmitActionStep
<1>3. ASSUME NEW c \in Clients, SubmitSigned(c) PROVE NodeInv'
    BY <1>3, SubmitSignedStep
<1>4. ASSUME NEW c \in Clients, FinishAdd(c) PROVE NodeInv'
    BY <1>4, FinishAddStep
<1>5. CASE EvictExpired
    BY <1>5, EvictStep DEF EvictExpired
<1>6. CASE AdvanceClock
    BY <1>6, EvictStep DEF AdvanceClock
<1>7. CASE ReadTip
    BY <1>7, ReadTipStep
<1>8. CASE BuildBlock
    BY <1>8, BuildStep DEF PoolInv
<1>9. CASE ProofFails
    BY <1>9, ProofFailsStep
<1>10. CASE ApplyDraft
    BY <1>10, ApplyStep
<1>11. CASE RemoveConfirmed
    BY <1>11, RemoveStep
<1>12. CASE PeerBlock
    BY <1>12, PeerStep
<1>13. CASE UNCHANGED vars
    BY <1>13, EvictStep DEF vars
<1>14. QED
    BY <1>1, <1>2, <1>3, <1>4, <1>5, <1>6, <1>7, <1>8, <1>9, <1>10, <1>11, <1>12, <1>13
       DEF Next, Local, ProducerStep

\* The inductive invariant of the node: pool, tick and chain.
THEOREM NodeInvariance == Spec => [](PoolInv /\ NodeInv)
<1>1. Init => PoolInv /\ NodeInv
    BY PoolStart, NodeStart
<1>2. PoolInv /\ NodeInv /\ [Next]_vars => (PoolInv /\ NodeInv)'
    BY PoolStep, NodeStep
<1>3. QED
    BY <1>1, <1>2, PTL DEF Spec

\* No transaction is confirmed twice, though the pool keeps what peers have confirmed,
\* clients repeat themselves and a tick may be overtaken between any two of its steps.
THEOREM ConfirmedAlwaysOnce == Spec => []ConfirmedOnce
<1>1. NodeInv => ConfirmedOnce
    BY OncePlaces DEF NodeInv, ChainSound, ChainOf
<1>2. QED
    BY <1>1, NodeInvariance, PTL

\* What leaves the pool in one step.
LeavesForCause ==
    \A tx \in mempool : (\A m \in mempool' : m.id # tx.id) =>
         \/ tx.id \in db.txs
         \/ clock - tx.created >= MaxAge
         \/ tx.timestamp # tx.created

\* Only the eviction and the end of a tick take from the pool.
LEMMA LeavingStep == NodeInv /\ [Next]_vars => [LeavesForCause]_vars
<1> SUFFICES ASSUME NodeInv, [Next]_vars PROVE LeavesForCause
    OBVIOUS
<1> SUFFICES ASSUME NEW tx \in mempool, \A m \in mempool' : m.id # tx.id
             PROVE  \/ tx.id \in db.txs
                    \/ clock - tx.created >= MaxAge
                    \/ tx.timestamp # tx.created
    BY DEF LeavesForCause
<1>1. tx \notin mempool'
    OBVIOUS
<1>2. ASSUME NEW c \in Clients, FinishAdd(c) PROVE FALSE
  <2>1. PICK y : y = adding[c]
    OBVIOUS
  <2>2. mempool' = {m \in mempool : m.id # y.id} \cup {y}
    BY <1>2, <2>1 DEF FinishAdd
  <2>3. y.id # tx.id
    BY <2>2
  <2>4. QED
    BY <1>1, <2>2, <2>3
<1>3. CASE EvictExpired
    BY <1>1, <1>3 DEF EvictExpired, Expired
<1>4. CASE RemoveConfirmed
  <2>1. PICK i \in 1..Len(producer.draft.txs) : producer.draft.txs[i].id = tx.id
    BY <1>1, <1>4 DEF RemoveConfirmed
  <2>2. QED
    BY <1>4, <2>1 DEF RemoveConfirmed, NodeInv, DraftSound
<1>5. mempool' # mempool
    BY <1>1
<1>6. QED
    BY <1>2, <1>3, <1>4, <1>5
       DEF Next, Local, ProducerStep, SubmitTx, SubmitAction, SubmitSigned, AdvanceClock, ReadTip,
           BuildBlock, ProofFails, ApplyDraft, PeerBlock, vars

\* A transaction leaves the pool because the chain has confirmed it or because it is
\* old: remove_confirmed runs after apply_block and only on what was applied.
THEOREM PoolLosesOnlyConfirmed == Spec => PoolKeepsUnconfirmed
<1>1. NodeInv /\ [Next]_vars => [LeavesForCause]_vars
    BY LeavingStep
<1>2. Spec => [][LeavesForCause]_vars
    BY <1>1, NodeInvariance, PTL DEF Spec
<1>3. QED
    BY <1>2 DEF PoolKeepsUnconfirmed, LeavesForCause

-----------------------------------------------------------------------------
(* The supply.                                                              *)

\* A single balance changes.
DiffersAt(g, f, a) == \A x \in Accounts : x # a => g[x] = f[x]

\* The supply is a number that no balance exceeds.
LEMMA SupplyNat ==
    ASSUME NEW f \in [Accounts -> Nat]
    PROVE  Supply(f) \in Nat /\ \A a \in Accounts : f[a] <= Supply(f)
<1>1. IsFiniteSet(Accounts) /\ \A x \in Accounts : f[x] \in Nat
    BY SupplyAssumption
<1>2. Supply(f) \in Nat
    BY <1>1, SumNat DEF Supply
<1>3. ASSUME NEW a \in Accounts PROVE f[a] <= Supply(f)
  <2>1. SumFunctionOnSet(f, Accounts) = f[a] + SumFunctionOnSet(f, Accounts \ {a})
    BY <1>1, SumRemove
  <2>2. IsFiniteSet(Accounts \ {a})
    BY <1>1, FS_RemoveElement
  <2>3. SumFunctionOnSet(f, Accounts \ {a}) \in Nat
    BY <1>1, <2>2, SumNat
  <2>4. PICK s \in Nat : s = SumFunctionOnSet(f, Accounts \ {a})
    BY <2>3
  <2>5. Supply(f) = f[a] + s /\ f[a] \in Nat
    BY <1>1, <2>1, <2>4 DEF Supply
  <2>6. QED
    BY <2>5
<1>4. QED
    BY <1>2, <1>3

\* It changes by what a balance changes.
LEMMA SupplyChange ==
    ASSUME NEW f \in [Accounts -> Nat], NEW a \in Accounts,
           NEW g \in [Accounts -> Nat], DiffersAt(g, f, a)
    PROVE  Supply(g) = Supply(f) - f[a] + g[a]
<1>1. /\ IsFiniteSet(Accounts)
      /\ \A x \in Accounts : f[x] \in Nat /\ g[x] \in Nat
      /\ \A x \in Accounts : x # a => g[x] = f[x]
    BY SupplyAssumption DEF DiffersAt
<1>2. SumFunctionOnSet(g, Accounts) = SumFunctionOnSet(f, Accounts) - f[a] + g[a]
    BY <1>1, SumChange
<1>3. QED
    BY <1>2 DEF Supply

Tokens == Supply(InitialBalance)

\* All tokens together fit a u64.
LEMMA TokensFit == Tokens \in Nat /\ Tokens < U64Modulus /\ U64Modulus \in Nat
    BY SupplyNat, SupplyAssumption, RulesAssumption DEF Tokens

\* Balances that hold no more than all tokens.
Held(f) == f \in [Accounts -> Nat] /\ Supply(f) \in Nat /\ Supply(f) <= Tokens

\* What the three ways to change a balance do to the supply, when nothing wraps.
LEMMA DebitMoves ==
    ASSUME NEW f, Held(f), NEW a \in Accounts, NEW x \in Nat, x <= f[a],
           NEW g, g = Debited(f, a, x)
    PROVE  /\ Held(g) /\ Supply(g) = Supply(f) - x
           /\ g[a] = f[a] - x /\ DiffersAt(g, f, a)
<1>1. f \in [Accounts -> Nat] /\ Supply(f) \in Nat /\ Supply(f) <= Tokens
    BY DEF Held
<1>2. f[a] \in Nat /\ f[a] <= Supply(f)
    BY <1>1, SupplyNat
<1>3. PICK v : v = f[a] - x
    OBVIOUS
<1>4. v \in Nat /\ v < U64Modulus
    BY <1>1, <1>2, <1>3, TokensFit
<1>5. Wrap(f[a] - x) = v
    BY <1>3, <1>4, WrapSmall
<1>6. g = [f EXCEPT ![a] = v]
    BY <1>5 DEF Debited
<1>8. g \in [Accounts -> Nat] /\ g[a] = v /\ DiffersAt(g, f, a)
    BY <1>1, <1>4, <1>6 DEF DiffersAt
<1>7. Supply(g) = Supply(f) - f[a] + v
    BY <1>1, <1>8, SupplyChange
<1>9. Supply(g) = Supply(f) - x /\ Supply(g) \in Nat
    BY <1>1, <1>2, <1>3, <1>7
<1>10. QED
    BY <1>1, <1>3, <1>7, <1>8, <1>9, TokensFit DEF Held

\* A drain that the account can pay takes all it says.
LEMMA DrainMoves ==
    ASSUME NEW f, Held(f), NEW a \in Accounts, NEW x \in Nat, x <= f[a],
           NEW g, g = Drained(f, a, x)
    PROVE  /\ Held(g) /\ Supply(g) = Supply(f) - x
           /\ g[a] = f[a] - x /\ DiffersAt(g, f, a)
<1>1. f \in [Accounts -> Nat] /\ Supply(f) \in Nat /\ Supply(f) <= Tokens
    BY DEF Held
<1>2. f[a] \in Nat /\ f[a] <= Supply(f)
    BY <1>1, SupplyNat
<1>3. PICK v : v = f[a] - x
    OBVIOUS
<1>4. v \in Nat /\ v = IF f[a] < x THEN 0 ELSE f[a] - x
    BY <1>2, <1>3
<1>6. g = [f EXCEPT ![a] = v]
    BY <1>4 DEF Drained
<1>8. g \in [Accounts -> Nat] /\ g[a] = v /\ DiffersAt(g, f, a)
    BY <1>1, <1>4, <1>6 DEF DiffersAt
<1>7. Supply(g) = Supply(f) - f[a] + v
    BY <1>1, <1>8, SupplyChange
<1>9. Supply(g) = Supply(f) - x /\ Supply(g) \in Nat
    BY <1>1, <1>2, <1>3, <1>7
<1>10. QED
    BY <1>1, <1>3, <1>7, <1>8, <1>9, TokensFit DEF Held

\* A credit that fits the supply does not wrap.
LEMMA CreditMoves ==
    ASSUME NEW f, Held(f), NEW a \in Accounts, NEW x \in Nat, Supply(f) + x <= Tokens,
           NEW g, g = Credited(f, a, x)
    PROVE  /\ Held(g) /\ Supply(g) = Supply(f) + x
           /\ g[a] = f[a] + x /\ DiffersAt(g, f, a)
<1>1. f \in [Accounts -> Nat] /\ Supply(f) \in Nat /\ Supply(f) <= Tokens
    BY DEF Held
<1>2. f[a] \in Nat /\ f[a] <= Supply(f)
    BY <1>1, SupplyNat
<1>3. PICK v : v = f[a] + x
    OBVIOUS
<1>4. v \in Nat /\ v < U64Modulus
    BY <1>1, <1>2, <1>3, TokensFit
<1>5. Wrap(f[a] + x) = v
    BY <1>3, <1>4, WrapSmall
<1>6. g = [f EXCEPT ![a] = v]
    BY <1>5 DEF Credited
<1>8. g \in [Accounts -> Nat] /\ g[a] = v /\ DiffersAt(g, f, a)
    BY <1>1, <1>4, <1>6 DEF DiffersAt
<1>7. Supply(g) = Supply(f) - f[a] + v
    BY <1>1, <1>8, SupplyChange
<1>9. Supply(g) = Supply(f) + x /\ Supply(g) \in Nat
    BY <1>1, <1>2, <1>3, <1>7
<1>10. QED
    BY <1>1, <1>3, <1>7, <1>8, <1>9, TokensFit DEF Held

\* g is f after a payment: nobody but the payer has less, and all is there.
PaidFrom(g, f, payer) ==
    /\ g \in [Accounts -> Nat] /\ Supply(g) = Tokens
    /\ \A a \in Accounts : a # payer => f[a] <= g[a]

All(f) == f \in [Accounts -> Nat] /\ Supply(f) = Tokens

\* All tokens are no more than all tokens.
LEMMA AllHeld ==
    ASSUME NEW f, All(f) PROVE Held(f)
    BY TokensFit DEF All, Held

\* Nobody has less after a credit.
LEMMA NoneLess ==
    ASSUME NEW f, Held(f), NEW g, Held(g), NEW a \in Accounts, NEW x \in Nat,
           g[a] = f[a] + x, DiffersAt(g, f, a)
    PROVE  \A c \in Accounts : f[c] <= g[c]
<1>1. \A c \in Accounts : f[c] \in Nat /\ g[c] \in Nat
    BY DEF Held
<1>2. QED
    BY <1>1 DEF DiffersAt

\* A user's transaction that its sender can pay moves tokens from the sender.
LEMMA UserPays ==
    ASSUME NEW f, All(f), NEW b, b.validator \in Accounts, NEW tx, TxOK(tx), IsUserTx(tx),
           Cost(tx) <= f[tx.from], NEW g, g = Paid(f, b, tx)
    PROVE  PaidFrom(g, f, tx.from)
<1>1. PICK p, q, v, x, y : p = tx.from /\ q = tx.to /\ v = b.validator /\ x = tx.amount /\ y = tx.fee
    OBVIOUS
<1>2. p \in Accounts /\ q \in Accounts /\ v \in Accounts /\ x \in Nat /\ y \in Nat
    BY <1>1, PoolIsNotGenesis DEF TxOK, IsUserTx
<1>3. Held(f) /\ Supply(f) = Tokens /\ Tokens \in Nat /\ x + y <= f[p] /\ x + y \in Nat
    BY <1>1, <1>2, AllHeld, TokensFit DEF All, Cost
<1>4. PICK f1 : f1 = Debited(f, p, x + y)
    OBVIOUS
<1>5. /\ Held(f1) /\ Supply(f1) = Supply(f) - (x + y)
      /\ DiffersAt(f1, f, p)
    BY <1>2, <1>3, <1>4, DebitMoves
<1>6. \A a \in Accounts : a # p => f1[a] = f[a]
    BY <1>5 DEF DiffersAt
<1>7. PICK f2 : f2 = IF y > 0 THEN Credited(f1, v, y) ELSE f1
    OBVIOUS
<1>8. /\ Held(f2) /\ Supply(f2) = Supply(f1) + y
      /\ \A a \in Accounts : f1[a] <= f2[a]
  <2>1. Supply(f1) + y <= Tokens
    BY <1>2, <1>3, <1>5
  <2>2. CASE y > 0
    <3>1. /\ Held(f2) /\ Supply(f2) = Supply(f1) + y /\ f2[v] = f1[v] + y
          /\ DiffersAt(f2, f1, v)
      BY <1>2, <1>5, <1>7, <2>1, <2>2, CreditMoves
    <3>2. QED
      BY <1>2, <1>5, <3>1, NoneLess
  <2>3. CASE ~(y > 0)
    <3>1. f2 = f1 /\ y = 0
      BY <1>2, <1>7, <2>3
    <3>2. Supply(f1) \in Nat /\ \A a \in Accounts : f1[a] \in Nat
      BY <1>5 DEF Held
    <3>3. QED
      BY <1>5, <3>1, <3>2
  <2>4. QED
    BY <2>2, <2>3
<1>9. g = Credited(f2, q, x)
    BY <1>1, <1>4, <1>7 DEF Paid, Cost
<1>10. Supply(f2) + x = Tokens
    BY <1>2, <1>3, <1>5, <1>8
<1>11. /\ Held(g) /\ Supply(g) = Supply(f2) + x /\ g[q] = f2[q] + x
       /\ DiffersAt(g, f2, q)
    BY <1>2, <1>3, <1>8, <1>9, <1>10, CreditMoves
<1>12. \A a \in Accounts : f2[a] <= g[a]
    BY <1>2, <1>8, <1>11, NoneLess
<1>13. ASSUME NEW a \in Accounts, a # p PROVE f[a] <= g[a]
  <2>1. f[a] \in Nat /\ f1[a] \in Nat /\ f2[a] \in Nat /\ g[a] \in Nat
    BY <1>3, <1>5, <1>8, <1>11 DEF Held
  <2>2. f1[a] = f[a] /\ f1[a] <= f2[a] /\ f2[a] <= g[a]
    BY <1>6, <1>8, <1>12, <1>13
  <2>3. QED
    BY <2>1, <2>2
<1>14. QED
    BY <1>1, <1>10, <1>11, <1>13 DEF PaidFrom, Held

\* A reward that the pool can pay moves tokens from the pool.
LEMMA PoolPays ==
    ASSUME NEW f, All(f), NEW q \in Accounts, NEW x \in Nat, x <= f[Pool],
           NEW g, g = Credited(Drained(f, Pool, x), q, x)
    PROVE  PaidFrom(g, f, Pool)
<1>1. Held(f) /\ Supply(f) = Tokens /\ Tokens \in Nat /\ Pool \in Accounts
    BY AllHeld, TokensFit, PoolIsNotGenesis DEF All
<1>2. PICK f1 : f1 = Drained(f, Pool, x)
    OBVIOUS
<1>3. /\ Held(f1) /\ Supply(f1) = Supply(f) - x /\ DiffersAt(f1, f, Pool)
    BY <1>1, <1>2, DrainMoves
<1>4. Supply(f1) + x = Tokens
    BY <1>1, <1>3
<1>5. /\ Held(g) /\ Supply(g) = Supply(f1) + x /\ g[q] = f1[q] + x
      /\ DiffersAt(g, f1, q)
    BY <1>1, <1>2, <1>3, <1>4, CreditMoves
<1>6. \A a \in Accounts : f1[a] <= g[a]
    BY <1>3, <1>5, NoneLess
<1>7. \A a \in Accounts : a # Pool => f[a] <= g[a]
    BY <1>3, <1>6 DEF DiffersAt
<1>8. QED
    BY <1>4, <1>5, <1>7 DEF PaidFrom, Held

\* An action moves nothing.
LEMMA NobodyPays ==
    ASSUME NEW f, All(f), NEW q \in Accounts, NEW g, g = Credited(f, q, 0), NEW p
    PROVE  PaidFrom(g, f, p)
<1>1. Held(f) /\ Supply(f) = Tokens /\ Tokens \in Nat /\ Supply(f) + 0 = Tokens
    BY AllHeld, TokensFit DEF All
<1>2. /\ Held(g) /\ Supply(g) = Supply(f) + 0 /\ g[q] = f[q] + 0 /\ DiffersAt(g, f, q)
    BY <1>1, CreditMoves
<1>3. \A a \in Accounts : f[a] <= g[a]
    BY <1>1, <1>2, NoneLess
<1>4. QED
    BY <1>1, <1>2, <1>3 DEF PaidFrom, Held

\* What the transactions of a block may take from the balances f: the reward what
\* the pool has, an action nothing, a sender pays once and has what it pays.
FundedTx(f, b, i) ==
    LET tx == b.txs[i] IN
    /\ tx.from = Pool => i = 1 /\ tx.amount <= f[Pool]
    /\ tx.from = GENESIS => tx.amount = 0
    /\ IsUserTx(tx) => /\ Cost(tx) <= f[tx.from]
                       /\ \A j \in 1..(i - 1) : b.txs[j].from # tx.from

Funded(f, b) == \A i \in 1..Len(b.txs) : FundedTx(f, b, i)

\* After the first i transactions all tokens are there, and only senders have less.
FundsAfter(g, f, b, i) ==
    /\ All(g)
    /\ i = 0 => g = f
    /\ \A a \in Accounts :
         a # Pool /\ (\A j \in 1..i : b.txs[j].from # a) => f[a] <= g[a]

\* One payment more keeps the balances of those who did not send.
LEMMA FundsAfterTx ==
    ASSUME NEW f, All(f), NEW b, Len(b.txs) \in Nat, NEW i \in 0..(Len(b.txs) - 1), NEW g, FundsAfter(g, f, b, i),
           NEW tx, tx = b.txs[i + 1], NEW h, PaidFrom(h, g, tx.from)
    PROVE  FundsAfter(h, f, b, i + 1)
<1>1. All(h) /\ All(g)
    BY DEF PaidFrom, All, FundsAfter
<1>2. ASSUME NEW a \in Accounts, a # Pool, \A j \in 1..(i + 1) : b.txs[j].from # a
      PROVE  f[a] <= h[a]
  <2>1. i + 1 \in 1..(i + 1) /\ \A j \in 1..i : j \in 1..(i + 1)
    OBVIOUS
  <2>2. a # tx.from /\ \A j \in 1..i : b.txs[j].from # a
    BY <1>2, <2>1
  <2>3. f[a] <= g[a] /\ g[a] <= h[a]
    BY <1>2, <2>2 DEF FundsAfter, PaidFrom
  <2>4. f[a] \in Nat /\ g[a] \in Nat /\ h[a] \in Nat
    BY <1>1 DEF All
  <2>5. QED
    BY <2>3, <2>4
<1>3. i + 1 # 0
    OBVIOUS
<1>4. QED
    BY <1>1, <1>2, <1>3 DEF FundsAfter

\* The next transaction of a funded block is such a payment.
LEMMA OneMorePays ==
    ASSUME NEW f, All(f), NEW b, BlockOK(b), NEW i \in 0..(Len(b.txs) - 1),
           FundedTx(f, b, i + 1),
           NEW d, DbOK(d), FundsAfter(d.balances, f, b, i),
           NEW e, e = RunOps(d, TxOps(b, b.txs[i + 1]))
    PROVE  FundsAfter(e.balances, f, b, i + 1)
<1>1. PICK tx : tx = b.txs[i + 1]
    OBVIOUS
<1>2. TxOK(tx) /\ b.validator \in Accounts /\ i + 1 \in 1..Len(b.txs) /\ Len(b.txs) \in Nat
    BY <1>1 DEF BlockOK
<1>3. PICK g, h : g = d.balances /\ h = e.balances
    OBVIOUS
<1>4. All(g) /\ e = RunOps(d, TxOps(b, tx)) /\ FundsAfter(g, f, b, i)
    BY <1>1, <1>3 DEF FundsAfter
<1>5. tx.to \in Accounts /\ tx.amount \in Nat
    BY <1>2 DEF TxOK
<1>6. PaidFrom(h, g, tx.from)
  <2>1. CASE IsUserTx(tx)
    <3>1. UserEffect(e, d, b, tx)
      BY <1>2, <1>4, <2>1, UserTx
    <3>2. h = Paid(g, b, tx)
      BY <1>3, <3>1 DEF UserEffect
    <3>3. Cost(tx) <= f[tx.from] /\ (i + 1) - 1 = i /\ \A j \in 1..i : b.txs[j].from # tx.from
      BY <1>1, <2>1 DEF FundedTx
    <3>4. tx.from \in Accounts /\ tx.from # Pool
      BY <1>2, <2>1 DEF TxOK, IsUserTx
    <3>5. f[tx.from] <= g[tx.from]
      BY <1>4, <3>3, <3>4 DEF FundsAfter
    <3>6. f[tx.from] \in Nat /\ g[tx.from] \in Nat /\ Cost(tx) \in Nat
      BY <1>2, <1>4, <3>4 DEF All, Cost, TxOK
    <3>7. Cost(tx) <= g[tx.from]
      BY <3>3, <3>5, <3>6
    <3>8. QED
      BY <1>2, <1>4, <2>1, <3>2, <3>7, UserPays
  <2>2. CASE tx.from = GENESIS
    <3>1. e.balances = Credited(d.balances, tx.to, tx.amount)
      BY <1>2, <1>4, <2>2, GenesisTx
    <3>2. tx.amount = 0
      BY <1>1, <2>2 DEF FundedTx
    <3>3. h = Credited(g, tx.to, 0)
      BY <1>3, <3>1, <3>2
    <3>4. QED
      BY <1>4, <1>5, <3>3, NobodyPays
  <2>3. CASE tx.from = Pool
    <3>1. e.balances = Credited(Drained(d.balances, Pool, tx.amount), tx.to, tx.amount)
      BY <1>2, <1>4, <2>3, PoolTx
    <3>2. h = Credited(Drained(g, Pool, tx.amount), tx.to, tx.amount)
      BY <1>3, <3>1
    <3>3. i = 0 /\ tx.amount <= f[Pool]
      BY <1>1, <2>3 DEF FundedTx
    <3>4. tx.amount <= g[Pool]
      BY <1>4, <3>3 DEF FundsAfter
    <3>5. QED
      BY <1>4, <1>5, <2>3, <3>2, <3>4, PoolPays
  <2>4. QED
    BY <1>2, <2>1, <2>2, <2>3 DEF TxOK, IsUserTx
<1>7. FundsAfter(h, f, b, i + 1)
    BY <1>1, <1>2, <1>4, <1>6, FundsAfterTx
<1>8. QED
    BY <1>3, <1>7

\* Before the first transaction of a block.
LEMMA NothingYet ==
    ASSUME NEW d0, DbOK(d0), NEW b
    PROVE  AfterTxs(d0, d0, b, 0)
<1>1. ASSUME NEW a \in Accounts
      PROVE  d0.nonces[a] = d0.nonces[a] + Cardinality(SentBy(b, a, 0))
  <2>1. SentBy(b, a, 0) = {}
    BY DEF SentBy
  <2>2. Cardinality(SentBy(b, a, 0)) = 0
    BY <2>1, FS_EmptySet
  <2>3. d0.nonces[a] \in Nat
    BY <1>1 DEF DbOK
  <2>4. QED
    BY <2>2, <2>3
<1>2. QED
    BY <1>1 DEF AfterTxs, SameChain

\* A funded block moves tokens, and makes or loses none.
LEMMA CommittedFunds ==
    ASSUME NEW d0, DbOK(d0), All(d0.balances), NEW b, BlockOK(b), NoncesFit(d0, b),
           Funded(d0.balances, b)
    PROVE  FundsAfter(Committed(d0, b).balances, d0.balances, b, Len(b.txs))
<1>1. PICK f : f = d0.balances
    OBVIOUS
<1>2. PICK n \in Nat : n = Len(b.txs)
    BY DEF BlockOK
<1>3. PICK after : /\ TxChain(after, d0, b, n)
                   /\ Committed(d0, b) = RunOps(after[n], BlockOps(b))
    BY <1>2, CommittedIs
<1>4. /\ after[0] = d0
      /\ \A i \in 0..(n - 1) : after[i + 1] = RunOps(after[i], TxOps(b, b.txs[i + 1]))
  <2>1. \A i \in 0..n : after[i] = IF i = 0 THEN d0 ELSE RunOps(after[i - 1], TxOps(b, b.txs[i]))
    BY <1>3 DEF TxChain
  <2>2. ASSUME NEW i \in 0..(n - 1) PROVE after[i + 1] = RunOps(after[i], TxOps(b, b.txs[i + 1]))
    <3>1. i + 1 \in 0..n /\ i + 1 # 0 /\ (i + 1) - 1 = i
      OBVIOUS
    <3>2. QED
      BY <2>1, <3>1
  <2>3. QED
    BY <2>1, <2>2
<1> DEFINE Good == {i \in 0..n : AfterTxs(after[i], d0, b, i) /\ FundsAfter(after[i].balances, f, b, i)}
<1>5. 0 \in Good
  <2>1. AfterTxs(d0, d0, b, 0)
    BY NothingYet
  <2>2. FundsAfter(f, f, b, 0)
    <3>1. \A a \in Accounts : f[a] \in Nat
      BY <1>1 DEF All
    <3>2. QED
      BY <1>1, <3>1 DEF FundsAfter
  <2>3. QED
    BY <1>1, <1>4, <2>1, <2>2
<1>6. ASSUME NEW i \in 0..(n - 1), i \in Good PROVE i + 1 \in Good
  <2>1. PICK d, e : d = after[i] /\ e = after[i + 1]
    OBVIOUS
  <2>2. AfterTxs(d, d0, b, i) /\ FundsAfter(d.balances, f, b, i)
    BY <1>6, <2>1
  <2>3. e = RunOps(d, TxOps(b, b.txs[i + 1])) /\ i \in 0..(Len(b.txs) - 1) /\ i + 1 \in 1..Len(b.txs)
    BY <1>2, <1>4, <2>1
  <2>4. AfterTxs(e, d0, b, i + 1)
    BY <2>2, <2>3, OneMoreTx
  <2>5. FundsAfter(e.balances, f, b, i + 1)
    <3>1. DbOK(d) /\ FundedTx(f, b, i + 1) /\ All(f)
      BY <1>1, <2>2, <2>3 DEF AfterTxs, Funded
    <3>2. QED
      BY <2>2, <2>3, <3>1, OneMorePays
  <2>6. QED
    BY <2>1, <2>4, <2>5
<1>7. 0..n \subseteq Good
  <2> HIDE DEF Good
  <2>1. QED
    BY <1>5, <1>6, Reaches
<1>8. n \in Good
    BY <1>7
<1>9. PICK d, e : d = after[n] /\ e = Committed(d0, b)
    OBVIOUS
<1>10. DbOK(d) /\ FundsAfter(d.balances, f, b, n) /\ e = RunOps(d, BlockOps(b))
    BY <1>3, <1>8, <1>9 DEF AfterTxs
<1>11. e.balances = d.balances
  <2>1. DbOK(d) /\ e = RunOps(d, BlockOps(b))
    BY <1>10
  <2>2. /\ DbOK(e) /\ e.balances = d.balances /\ e.nonces = d.nonces /\ e.txs = d.txs
        /\ e.tip_height = b.height /\ e.tip_hash = b.hash
        /\ e.blocks = [d.blocks EXCEPT ![b.height] = b]
    BY ONLY <2>1, TipOps
  <2>3. QED
    BY <2>2
<1>12. QED
    BY <1>1, <1>2, <1>9, <1>10, <1>11

\* A valid block of covered transactions is funded: the nonces leave every sender one
\* transaction.
LEMMA CoveredIsFunded ==
    ASSUME NEW d, ChainOf(d), NEW b, Commits(d, b), BlockCovered(d, b)
    PROVE  Funded(d.balances, b)
<1>1. BlockLike(b) /\ Len(b.txs) \in Nat
    BY BlockLikeOK DEF Commits, BlockOK
<1>2. SUFFICES ASSUME NEW i \in 1..Len(b.txs) PROVE FundedTx(d.balances, b, i)
    BY DEF Funded
<1>3. PICK tx : tx = b.txs[i]
    OBVIOUS
<1>4. CASE i = 1
  <2>1. tx.from = Pool /\ tx.amount <= d.balances[Pool]
    BY <1>1, <1>3, <1>4 DEF BlockLike, RewardLike, BlockCovered
  <2>2. tx.from # GENESIS /\ ~IsUserTx(tx)
    BY <2>1, PoolIsNotGenesis DEF IsUserTx
  <2>3. QED
    BY <1>3, <1>4, <2>1, <2>2 DEF FundedTx
<1>5. CASE i # 1
  <2>1. i \in 2..Len(b.txs)
    BY <1>1, <1>5
  <2>2. Pending(tx) /\ Covered(d, tx)
    BY <1>1, <1>3, <2>1 DEF BlockLike, BlockCovered
  <2>3. tx.from # Pool /\ (tx.from = GENESIS => tx.amount = 0) /\ TxOK(tx)
    BY <2>2, PoolIsNotGenesis DEF Pending, ClientLike, ActionLike, IsUserTx
  <2>4. ASSUME IsUserTx(tx)
        PROVE  Cost(tx) <= d.balances[tx.from] /\ \A j \in 1..(i - 1) : b.txs[j].from # tx.from
    <3>1. PICK a : a = tx.from
      OBVIOUS
    <3>2. a \in Accounts /\ a # GENESIS
      BY <2>3, <2>4, <3>1 DEF TxOK, IsUserTx
    <3>3. PICK n \in Nat : n = d.nonces[a]
      BY <3>2 DEF ChainOf, DbOK
    <3>4. PICK S : S = {j \in 1..(i - 1) : b.txs[j].from = a}
      OBVIOUS
    <3>5. IsFiniteSet(S) /\ Cardinality(S) \in Nat
      <4>1. S \subseteq 1..(i - 1)
        BY <3>4
      <4>2. IsFiniteSet(1..(i - 1))
        BY <1>1, FS_Interval
      <4>3. QED
        BY <4>1, <4>2, FS_Subset, FS_CardinalityType
    <3>6. tx.nonce = expected_nonce(d, b.txs, i)
      BY <1>3, <2>4 DEF Commits, Accepts, Valid
    <3>7. tx.nonce = n + Cardinality(S)
      BY <1>3, <3>1, <3>3, <3>4, <3>6 DEF expected_nonce
    <3>8. tx.nonce <= n /\ (tx.nonce = n => Cost(tx) <= d.balances[a])
      BY <2>2, <3>1, <3>2, <3>3 DEF Covered
    <3>9. Cardinality(S) = 0 /\ tx.nonce = n
      BY <3>3, <3>5, <3>7, <3>8
    <3>10. S = {}
      BY <3>5, <3>9, FS_EmptySet
    <3>11. \A j \in 1..(i - 1) : b.txs[j].from # a
      BY <3>4, <3>10
    <3>12. QED
      BY <3>1, <3>8, <3>9, <3>11
  <2>5. QED
    BY <1>3, <2>3, <2>4 DEF FundedTx
<1>6. QED
    BY <1>4, <1>5

\* What committing a covered block does to the balances.
LEMMA CommitMoves ==
    ASSUME NEW d, ChainOf(d), All(d.balances), NEW b, Commits(d, b), BlockCovered(d, b),
           NEW e, e = Committed(d, b)
    PROVE  FundsAfter(e.balances, d.balances, b, Len(b.txs))
<1>1. BlockOK(b) /\ DbOK(d)
    BY BlockLikeOK DEF Commits, ChainOf
<1>2. NoncesFit(d, b)
    BY NoncesHaveRoom
<1>3. Funded(d.balances, b)
    BY CoveredIsFunded
<1>4. QED
    BY <1>1, <1>2, <1>3, CommittedFunds

\* What was covered before a block is covered after it.
LEMMA CoveredStays ==
    ASSUME NEW d, ChainOf(d), All(d.balances), NEW b, Commits(d, b),
           NEW e, Extended(d, b, e), FundsAfter(e.balances, d.balances, b, Len(b.txs)),
           NEW tx, Pending(tx), Covered(d, tx)
    PROVE  Covered(e, tx)
<1>1. CASE tx.from = GENESIS
    BY <1>1 DEF Covered
<1>2. CASE tx.from # GENESIS
  <2>1. ClientLike(tx) /\ IsUserTx(tx) /\ TxOK(tx)
    BY <1>2, KindsOfPending
  <2>2. PICK a : a = tx.from
    OBVIOUS
  <2>3. a \in Accounts /\ a # Pool /\ a # GENESIS /\ tx.nonce \in Nat /\ Cost(tx) \in Nat
    BY <2>1, <2>2 DEF TxOK, IsUserTx, ClientLike, Cost
  <2>4. PICK n \in Nat : n = d.nonces[a]
    BY <2>3 DEF ChainOf, DbOK
  <2>5. Len(b.txs) \in Nat
    BY BlockLikeOK DEF Commits, BlockOK
  <2>6. PICK S : S = SentBy(b, a, Len(b.txs))
    OBVIOUS
  <2>7. IsFiniteSet(S) /\ Cardinality(S) \in Nat
    BY <2>5, <2>6, SentByType
  <2>8. e.nonces[a] = n + Cardinality(S)
    BY <2>3, <2>4, <2>6 DEF Extended
  <2>9. tx.nonce <= n /\ (tx.nonce = n => Cost(tx) <= d.balances[a])
    BY <2>2, <2>3, <2>4 DEF Covered
  <2>10. tx.nonce <= e.nonces[a]
    BY <2>3, <2>4, <2>7, <2>8, <2>9
  <2>11. ASSUME tx.nonce = e.nonces[a] PROVE Cost(tx) <= e.balances[a]
    <3>1. Cardinality(S) = 0 /\ tx.nonce = n
      BY <2>3, <2>4, <2>7, <2>8, <2>9, <2>11
    <3>2. S = {}
      BY <2>7, <3>1, FS_EmptySet
    <3>3. \A j \in 1..Len(b.txs) : b.txs[j].from # a
      BY <2>1, <2>2, <2>6, <3>2 DEF SentBy, IsUserTx
    <3>4. PICK x, y : x = d.balances[a] /\ y = e.balances[a]
      OBVIOUS
    <3>5. x <= y /\ x \in Nat /\ y \in Nat
      BY <2>3, <3>3, <3>4 DEF FundsAfter, All
    <3>6. QED
      BY <2>3, <2>9, <3>1, <3>4, <3>5
  <2>12. QED
    BY <2>2, <2>10, <2>11 DEF Covered
<1>3. QED
    BY <1>1, <1>2

-----------------------------------------------------------------------------
(* The node.                                                                *)

PoolCovered(d, pool) == \A m \in pool : Covered(d, m)

AddingCovered(d, reqs) == \A c \in Clients : reqs[c] # NoTx => Covered(d, reqs[c])

\* The tick in progress: a draft that still extends the tip has a reward the pool
\* can pay.
DraftCovered(d, p) ==
    /\ p.step \in {"take", "apply"} => p.draft.height <= d.tip_height + 1
    /\ p.step = "apply" =>
         /\ \A i \in 2..Len(p.draft.txs) : Covered(d, p.draft.txs[i])
         /\ p.draft.height = d.tip_height + 1 => p.draft.txs[1].amount <= d.balances[Pool]

FundsSound ==
    /\ All(db.balances)
    /\ PoolCovered(db, mempool)
    /\ AddingCovered(db, adding)
    /\ DraftCovered(db, producer)

\* A covered transaction is admitted.
LEMMA AdmitCovered ==
    ASSUME PoolSound, FundsSound, NEW c \in Clients, NEW tx, Covered(db, tx),
           adding' = [adding EXCEPT ![c] = tx], UNCHANGED <<db, mempool, producer>>
    PROVE  FundsSound'
<1>1. DOMAIN adding = Clients
    BY DEF PoolSound
<1>2. ASSUME NEW k \in Clients, adding'[k] # NoTx PROVE Covered(db, adding'[k])
  <2>1. CASE k = c
    BY <1>1, <2>1
  <2>2. CASE k # c
    <3>1. adding'[k] = adding[k]
      BY <1>1, <2>2
    <3>2. QED
      BY <1>2, <3>1 DEF FundsSound, AddingCovered
  <2>3. QED
    BY <2>1, <2>2
<1>3. QED
    BY <1>2 DEF FundsSound, AddingCovered

\* add's checks are what makes a transaction covered.
LEMMA ChecksCover ==
    ASSUME ChainSound, NEW tx, tx.from \in Accounts \cup {GENESIS}, add_checks(tx)
    PROVE  Covered(db, tx)
<1>1. CASE tx.from = GENESIS
    BY <1>1 DEF Covered
<1>2. CASE tx.from # GENESIS
  <2>1. tx.nonce = db.nonces[tx.from] /\ db.balances[tx.from] >= Cost(tx)
    BY <1>2 DEF add_checks
  <2>2. tx.from \in Accounts
    BY <1>2
  <2>3. db.nonces[tx.from] \in Nat
    BY <2>2 DEF ChainSound, ChainOf, DbOK
  <2>4. QED
    BY <2>1, <2>3 DEF Covered
<1>3. QED
    BY <1>1, <1>2

\* What was admitted is inserted.
LEMMA InsertCovered ==
    ASSUME PoolSound, FundsSound, NEW c \in Clients, FinishAdd(c)
    PROVE  FundsSound'
<1>1. /\ adding[c] # NoTx /\ adding' = [adding EXCEPT ![c] = NoTx]
      /\ mempool' \subseteq mempool \cup {adding[c]} /\ UNCHANGED <<db, producer>>
    BY DEF FinishAdd
<1>2. DOMAIN adding = Clients
    BY DEF PoolSound
<1>3. Covered(db, adding[c])
    BY <1>1 DEF FundsSound, AddingCovered
<1>4. ASSUME NEW m \in mempool' PROVE Covered(db, m)
    BY <1>1, <1>3, <1>4 DEF FundsSound, PoolCovered
<1>5. ASSUME NEW k \in Clients, adding'[k] # NoTx PROVE Covered(db, adding'[k])
  <2>1. k # c /\ adding'[k] = adding[k]
    BY <1>1, <1>2, <1>5
  <2>2. QED
    BY <1>5, <2>1 DEF FundsSound, AddingCovered
<1>6. QED
    BY <1>1, <1>4, <1>5 DEF FundsSound, PoolCovered, AddingCovered

\* The pool loses transactions, the tick goes on.
LEMMA ShrinkCovered ==
    ASSUME FundsSound, mempool' \subseteq mempool, UNCHANGED <<db, adding>>,
           DraftCovered(db, producer')
    PROVE  FundsSound'
    BY DEF FundsSound, PoolCovered, AddingCovered

\* The draft takes covered transactions and a reward the pool can pay.
LEMMA BuildCovered ==
    ASSUME NodeInv, IsFiniteSet(mempool), FundsSound, BuildBlock
    PROVE  FundsSound'
<1>1. PICK txs \in TakeForBlock :
        producer' =
           [step |-> "apply",
            draft |-> [height |-> producer.draft.height, prev_hash |-> producer.draft.prev_hash,
                       hash |-> <<Miner, producer.draft.height, producer.draft.timestamp, txs>>,
                       validator |-> Miner,
                       txs |-> <<RewardTx(Miner, producer.draft.height, producer.draft.timestamp)>>
                                  \o txs]]
    BY DEF BuildBlock
<1>2. producer.step = "take" /\ UNCHANGED <<db, mempool, adding, actions>>
    BY DEF BuildBlock
<1>3. PICK h, s : h = producer.draft.height /\ s = producer.draft.timestamp
    OBVIOUS
<1>4. PICK r : r = RewardTx(Miner, h, s)
    OBVIOUS
<1>5. PICK b : b = producer'.draft
    OBVIOUS
<1>6. h \in Nat /\ h <= db.tip_height + 1 /\ ChainSound
    BY <1>2, <1>3, RulesAssumption DEF NodeInv, DraftSound, FundsSound, DraftCovered
<1>7. /\ producer'.step = "apply" /\ producer'.draft = b
      /\ b.height = h /\ b.txs = <<r>> \o txs
    BY <1>1, <1>3, <1>4, <1>5
<1>8. txs \in Seq(mempool)
    BY Taken DEF NodeInv
<1>9. b.txs[1] = r /\ \A i \in 2..Len(b.txs) : i - 1 \in 1..Len(txs) /\ b.txs[i] = txs[i - 1]
    BY <1>7, <1>8, RewardFirst
<1>10. r.amount <= db.balances[Pool]
    BY <1>4, <1>6, RewardIsCapped
<1>11. ASSUME NEW i \in 2..Len(b.txs) PROVE Covered(db, b.txs[i])
  <2>1. b.txs[i] \in mempool
    BY <1>8, <1>9
  <2>2. QED
    BY <2>1 DEF FundsSound, PoolCovered
<1>12. DraftCovered(db, producer')
    BY <1>6, <1>7, <1>9, <1>10, <1>11 DEF DraftCovered
<1>13. QED
    BY <1>2, <1>12, ShrinkCovered

\* A covered block leaves the tokens all there, and what is pending covered.
LEMMA BlockKeepsFunds ==
    ASSUME NodeInv, FundsSound, NEW b, Commits(db, b), BlockCovered(db, b),
           db' = Committed(db, b), UNCHANGED <<mempool, adding>>,
           producer' = producer \/ producer'.step = "remove"
    PROVE  FundsSound'
<1>1. PICK d, e : d = db /\ e = db'
    OBVIOUS
<1>2. ChainOf(d) /\ All(d.balances) /\ Commits(d, b) /\ BlockCovered(d, b) /\ e = Committed(d, b)
    BY <1>1 DEF NodeInv, ChainSound, FundsSound
<1>3. Extended(d, b, e)
    BY <1>2, CommitExtends
<1>4. FundsAfter(e.balances, d.balances, b, Len(b.txs))
    BY <1>2, CommitMoves
<1>5. ASSUME NEW tx, Pending(tx), Covered(d, tx) PROVE Covered(e, tx)
    BY <1>2, <1>3, <1>4, <1>5, CoveredStays
<1>6. PoolCovered(e, mempool)
    BY <1>1, <1>5 DEF NodeInv, PoolSound, FundsSound, PoolCovered
<1>7. AddingCovered(e, adding)
    BY <1>1, <1>5 DEF NodeInv, PoolSound, FundsSound, AddingCovered
<1>8. DraftCovered(e, producer')
  <2>1. CASE producer'.step = "remove"
    BY <2>1 DEF DraftCovered
  <2>2. CASE producer' = producer
    <3>1. PICK p : p = producer
      OBVIOUS
    <3>2. DraftCovered(d, p) /\ DraftSound
      BY <1>1, <3>1 DEF NodeInv, FundsSound
    <3>3. e.tip_height = d.tip_height + 1 /\ d.tip_height \in Nat
      BY <1>2, <1>3, RulesAssumption DEF Extended, ChainOf
    <3>4. ASSUME p.step \in {"take", "apply"}
          PROVE  p.draft.height <= e.tip_height /\ p.draft.height \in Nat
      <4>1. p.draft.height \in 1..MaxHeight
        BY <3>1, <3>2, <3>4 DEF DraftSound, Drafted, BlockLike
      <4>2. p.draft.height <= d.tip_height + 1
        BY <3>2, <3>4 DEF DraftCovered
      <4>3. QED
        BY <3>3, <4>1, <4>2, RulesAssumption
    <3>5. ASSUME p.step = "apply", NEW i \in 2..Len(p.draft.txs) PROVE Covered(e, p.draft.txs[i])
      <4>1. Covered(d, p.draft.txs[i])
        BY <3>2, <3>5 DEF DraftCovered
      <4>2. Pending(p.draft.txs[i])
        BY <3>1, <3>2, <3>5 DEF DraftSound, Drafted, BlockLike
      <4>3. QED
        BY <1>5, <4>1, <4>2
    <3>6. e.tip_height \in Nat
      BY <3>3
    <3>7. p.step \in {"take", "apply"} =>
            p.draft.height <= e.tip_height + 1 /\ p.draft.height # e.tip_height + 1
      BY <3>4, <3>6
    <3>8. DraftCovered(e, p)
      BY <3>5, <3>7 DEF DraftCovered
    <3>9. QED
      BY <2>2, <3>1, <3>8
  <2>3. QED
    BY <2>1, <2>2
<1>9. All(e.balances)
    BY <1>4 DEF FundsAfter
<1>10. QED
    BY <1>1, <1>6, <1>7, <1>8, <1>9 DEF FundsSound

\* The draft is applied, or the tick ends.
LEMMA ApplyCovered ==
    ASSUME NodeInv, FundsSound, ApplyDraft PROVE FundsSound'
<1>1. PICK b : b = producer.draft
    OBVIOUS
<1>2. producer.step = "apply" /\ UNCHANGED <<mempool, adding, actions>>
    BY DEF ApplyDraft
<1>3. CASE ~Accepts(db, b)
  <2>1. producer' = [step |-> "idle", draft |-> NoDraft] /\ UNCHANGED db
    BY <1>1, <1>3 DEF ApplyDraft
  <2>2. producer'.step = "idle"
    BY <2>1
  <2>3. DraftCovered(db, producer')
    BY <2>2 DEF DraftCovered
  <2>4. QED
    BY <1>2, <2>1, <2>3, ShrinkCovered
<1>4. CASE Accepts(db, b)
  <2>1. db' = Committed(db, b) /\ producer' = [producer EXCEPT !.step = "remove"]
    BY <1>1, <1>4 DEF ApplyDraft
  <2>2. producer = [step |-> "apply", draft |-> b]
    BY <1>1, <1>2 DEF NodeInv, DraftSound
  <2>3. producer'.step = "remove"
    BY <2>1, <2>2
  <2>4. BlockLike(b)
    BY <1>1, <1>2 DEF NodeInv, DraftSound, Drafted
  <2>5. Commits(db, b)
    BY <1>1, <1>2, <1>4, <2>4 DEF NodeInv, DraftNew, Commits
  <2>6. b.height = db.tip_height + 1
    BY <1>4 DEF Accepts
  <2>7. BlockCovered(db, b)
    BY <1>1, <1>2, <2>6 DEF FundsSound, DraftCovered, BlockCovered
  <2>8. QED
    BY <1>2, <2>1, <2>3, <2>5, <2>7, BlockKeepsFunds
<1>5. QED
    BY <1>3, <1>4

\* A peer's block is applied.
LEMMA PeerCovered ==
    ASSUME NodeInv, FundsSound, PeerBlock PROVE FundsSound'
<1>1. PICK b : PeerMade(b) /\ db' = Committed(db, b)
    BY PeerMakes
<1>2. UNCHANGED <<mempool, adding, producer>>
    BY DEF PeerBlock
<1>3. Commits(db, b) /\ BlockCovered(db, b)
    BY <1>1 DEF PeerMade, Commits
<1>4. QED
    BY <1>1, <1>2, <1>3, BlockKeepsFunds

\* All tokens are there and nothing is pending at the start.
LEMMA FundsStart == Init => FundsSound
<1> SUFFICES ASSUME Init PROVE FundsSound
    OBVIOUS
<1>1. /\ db = GenesisDb /\ mempool = {} /\ adding = [c \in Clients |-> NoTx]
      /\ producer = [step |-> "idle", draft |-> NoDraft]
    BY DEF Init
<1>2. db.balances = InitialBalance
    BY <1>1 DEF GenesisDb
<1>3. All(db.balances)
    BY <1>2, RulesAssumption DEF All, Tokens
<1>4. producer.step = "idle" /\ \A c \in Clients : adding[c] = NoTx
    BY <1>1
<1>5. QED
    BY <1>1, <1>3, <1>4 DEF FundsSound, PoolCovered, AddingCovered, DraftCovered

\* Every step keeps what is pending paid for.
LEMMA FundsStep == PoolInv /\ NodeInv /\ FundsSound /\ [Next]_vars => FundsSound'
<1> SUFFICES ASSUME PoolInv, NodeInv, FundsSound, [Next]_vars PROVE FundsSound'
    OBVIOUS
<1>0. PoolSound /\ ChainSound /\ IsFiniteSet(mempool)
    BY DEF NodeInv, PoolInv
<1>1. ASSUME NEW c \in Clients, SubmitTx(c) PROVE FundsSound'
  <2>1. PICK t \in Transfers :
          add_checks(ClientTx(t)) /\ adding' = [adding EXCEPT ![c] = ClientTx(t)]
    BY <1>1 DEF SubmitTx
  <2>2. UNCHANGED <<db, mempool, producer>>
    BY <1>1 DEF SubmitTx
  <2>3. PICK tx : tx = ClientTx(t)
    OBVIOUS
  <2>4. tx.from \in Accounts \cup {GENESIS} /\ add_checks(tx)
    BY <1>0, <2>1, <2>3, ClientTxLike DEF ClientLike, TxOK
  <2>5. Covered(db, tx)
    BY <1>0, <2>4, ChecksCover
  <2>6. QED
    BY <1>0, <1>1, <2>1, <2>2, <2>3, <2>5, AdmitCovered
<1>2. ASSUME NEW c \in Clients, SubmitSigned(c) PROVE FundsSound'
  <2>1. PICK r \in WalletRequests \cup TreasuryRequests :
          /\ add_checks(SignedTransfer(r[1], r[2]))
          /\ adding' = [adding EXCEPT ![c] = SignedTransfer(r[1], r[2])]
    BY <1>2 DEF SubmitSigned
  <2>2. UNCHANGED <<db, mempool, producer>>
    BY <1>2 DEF SubmitSigned
  <2>3. PICK t, memo, tx : t = r[1] /\ memo = r[2] /\ tx = SignedTransfer(t, memo)
    OBVIOUS
  <2>4. t \in Transfers
    BY <2>3 DEF WalletRequests, TreasuryRequests
  <2>5. tx.from \in Accounts \cup {GENESIS} /\ add_checks(tx)
    BY <1>0, <2>1, <2>3, <2>4, SignedLike DEF ClientLike, TxOK
  <2>6. Covered(db, tx)
    BY <1>0, <2>5, ChecksCover
  <2>7. QED
    BY <1>0, <1>2, <2>1, <2>2, <2>3, <2>6, AdmitCovered
<1>3. ASSUME NEW c \in Clients, SubmitAction(c) PROVE FundsSound'
  <2>1. PICK tx : tx = ActionTx(actions)
    OBVIOUS
  <2>2. adding' = [adding EXCEPT ![c] = tx] /\ UNCHANGED <<db, mempool, producer>>
    BY <1>3, <2>1 DEF SubmitAction
  <2>3. Covered(db, tx)
    BY <2>1 DEF ActionTx, Covered
  <2>4. QED
    BY <1>0, <1>3, <2>2, <2>3, AdmitCovered
<1>4. ASSUME NEW c \in Clients, FinishAdd(c) PROVE FundsSound'
    BY <1>0, <1>4, InsertCovered
<1>5. ASSUME mempool' \subseteq mempool, UNCHANGED <<db, adding>>,
             producer' = producer \/ producer'.step = "idle"
      PROVE  FundsSound'
  <2>1. DraftCovered(db, producer')
    BY <1>5 DEF FundsSound, DraftCovered
  <2>2. QED
    BY <1>5, <2>1, ShrinkCovered
<1>6. CASE EvictExpired
    BY <1>5, <1>6 DEF EvictExpired
<1>7. CASE AdvanceClock
    BY <1>5, <1>7 DEF AdvanceClock
<1>8. CASE ReadTip
  <2>1. /\ producer' = [step |-> "take", draft |-> [height |-> db.tip_height + 1,
                          prev_hash |-> db.tip_hash, timestamp |-> clock]]
        /\ UNCHANGED <<db, mempool, adding>>
    BY <1>8 DEF ReadTip
  <2>2. producer'.step = "take" /\ producer'.draft.height = db.tip_height + 1
        /\ db.tip_height + 1 \in Nat
    BY <1>0, <2>1, RulesAssumption DEF ChainSound, ChainOf
  <2>3. DraftCovered(db, producer')
    BY <2>2 DEF DraftCovered
  <2>4. QED
    BY <2>1, <2>3, ShrinkCovered
<1>9. CASE BuildBlock
    BY <1>0, <1>9, BuildCovered
<1>10. CASE ProofFails
  <2>1. producer'.step = "idle" /\ UNCHANGED <<db, mempool, adding>>
    BY <1>10 DEF ProofFails
  <2>2. QED
    BY <1>5, <2>1
<1>11. CASE ApplyDraft
    BY <1>11, ApplyCovered
<1>12. CASE RemoveConfirmed
  <2>1. producer'.step = "idle" /\ mempool' \subseteq mempool /\ UNCHANGED <<db, adding>>
    BY <1>12 DEF RemoveConfirmed
  <2>2. QED
    BY <1>5, <2>1
<1>13. CASE PeerBlock
    BY <1>13, PeerCovered
<1>14. CASE UNCHANGED vars
    BY <1>5, <1>14 DEF vars
<1>15. QED
    BY <1>1, <1>2, <1>3, <1>4, <1>6, <1>7, <1>8, <1>9, <1>10, <1>11, <1>12, <1>13, <1>14
       DEF Next, Local, ProducerStep

-----------------------------------------------------------------------------
(* The remaining bounds: the clock, what is stamped with it, the actions,    *)
(* and that a stored block is a block.                                       *)

Stamped(tx) == tx.created \in 0..MaxClock

BlocksStored(d) == \A h \in 1..d.tip_height : "txs" \in DOMAIN d.blocks[h]

CountsSound ==
    /\ clock \in MaxAge..MaxClock /\ actions \in 0..MaxActions
    /\ \A m \in mempool : Stamped(m)
    /\ \A c \in Clients : adding[c] # NoTx => Stamped(adding[c])
    /\ producer.step = "apply" => "txs" \in DOMAIN producer.draft
    /\ BlocksStored(db)

\* A stamped transaction is admitted.
LEMMA AdmitCounts ==
    ASSUME PoolSound, CountsSound, NEW c \in Clients, NEW tx, Stamped(tx),
           adding' = [adding EXCEPT ![c] = tx], UNCHANGED <<db, mempool, producer, clock>>,
           actions' \in 0..MaxActions
    PROVE  CountsSound'
<1>1. DOMAIN adding = Clients
    BY DEF PoolSound
<1>2. ASSUME NEW k \in Clients, adding'[k] # NoTx PROVE Stamped(adding'[k])
  <2>1. CASE k = c
    BY <1>1, <2>1
  <2>2. CASE k # c
    <3>1. adding'[k] = adding[k]
      BY <1>1, <2>2
    <3>2. QED
      BY <1>2, <3>1 DEF CountsSound
  <2>3. QED
    BY <2>1, <2>2
<1>3. QED
    BY <1>2 DEF CountsSound, BlocksStored, Stamped

\* A step that stores no block and admits nothing.
LEMMA QuietCounts ==
    ASSUME CountsSound, mempool' \subseteq mempool, UNCHANGED <<db, adding, actions>>,
           clock' \in MaxAge..MaxClock,
           producer'.step = "apply" => "txs" \in DOMAIN producer'.draft
    PROVE  CountsSound'
    BY DEF CountsSound, BlocksStored, Stamped

\* A block that is applied is stored.
LEMMA CommitCounts ==
    ASSUME NodeInv, CountsSound, NEW b, Commits(db, b), "txs" \in DOMAIN b,
           db' = Committed(db, b), UNCHANGED <<mempool, adding, actions, clock>>,
           producer' = producer \/ producer'.step = "remove"
    PROVE  CountsSound'
<1>1. PICK d, e : d = db /\ e = db'
    OBVIOUS
<1>2. ChainOf(d) /\ Commits(d, b) /\ e = Committed(d, b)
    BY <1>1 DEF NodeInv, ChainSound
<1>3. Extended(d, b, e)
    BY <1>2, CommitExtends
<1>4. PICK t \in Nat : t = d.tip_height
    BY <1>2, RulesAssumption DEF ChainOf
<1>5. e.tip_height = t + 1 /\ e.blocks[t + 1] = b /\ \A h \in 1..t : e.blocks[h] = d.blocks[h]
    BY <1>3, <1>4 DEF Extended
<1>6. \A h \in 1..t : "txs" \in DOMAIN d.blocks[h]
    BY <1>1, <1>4 DEF CountsSound, BlocksStored
<1>7. ASSUME NEW h \in 1..(t + 1) PROVE "txs" \in DOMAIN e.blocks[h]
  <2>1. h \in 1..t \/ h = t + 1
    BY <1>4
  <2>2. QED
    BY <1>5, <1>6, <2>1
<1>8. BlocksStored(e)
    BY <1>5, <1>7 DEF BlocksStored
<1>9. producer'.step = "apply" => "txs" \in DOMAIN producer'.draft
    BY DEF CountsSound
<1>10. QED
    BY <1>1, <1>8, <1>9 DEF CountsSound, Stamped

\* The bounds hold at the start.
LEMMA CountsStart == Init => CountsSound
<1> SUFFICES ASSUME Init PROVE CountsSound
    OBVIOUS
<1>1. /\ db = GenesisDb /\ mempool = {} /\ adding = [c \in Clients |-> NoTx]
      /\ producer = [step |-> "idle", draft |-> NoDraft] /\ clock = MaxAge /\ actions = 0
    BY DEF Init
<1>2. db.tip_height = 0
    BY <1>1 DEF GenesisDb
<1>3. BlocksStored(db)
    BY <1>2 DEF BlocksStored
<1>4. producer.step = "idle" /\ \A c \in Clients : adding[c] = NoTx
    BY <1>1
<1>5. clock \in MaxAge..MaxClock /\ actions \in 0..MaxActions
    BY <1>1, NodeAssumption
<1>6. QED
    BY <1>1, <1>3, <1>4, <1>5 DEF CountsSound

\* Every step keeps them.
LEMMA CountsStep == NodeInv /\ CountsSound /\ [Next]_vars => CountsSound'
<1> SUFFICES ASSUME NodeInv, CountsSound, [Next]_vars PROVE CountsSound'
    OBVIOUS
<1>0. /\ PoolSound /\ clock \in MaxAge..MaxClock /\ clock \in 0..MaxClock
      /\ actions \in 0..MaxActions
    BY NodeAssumption DEF NodeInv, CountsSound
<1>1. ASSUME NEW c \in Clients, SubmitTx(c) PROVE CountsSound'
  <2>1. PICK t \in Transfers : adding' = [adding EXCEPT ![c] = ClientTx(t)]
    BY <1>1 DEF SubmitTx
  <2>2. UNCHANGED <<db, mempool, producer, clock, actions>>
    BY <1>1 DEF SubmitTx
  <2>3. PICK tx : tx = ClientTx(t)
    OBVIOUS
  <2>4. Stamped(tx)
    BY <1>0, <2>3 DEF ClientTx, Stamped
  <2>5. QED
    BY <1>0, <1>1, <2>1, <2>2, <2>3, <2>4, AdmitCounts
<1>2. ASSUME NEW c \in Clients, SubmitSigned(c) PROVE CountsSound'
  <2>1. PICK r \in WalletRequests \cup TreasuryRequests :
          adding' = [adding EXCEPT ![c] = SignedTransfer(r[1], r[2])]
    BY <1>2 DEF SubmitSigned
  <2>2. UNCHANGED <<db, mempool, producer, clock, actions>>
    BY <1>2 DEF SubmitSigned
  <2>3. PICK tx : tx = SignedTransfer(r[1], r[2])
    OBVIOUS
  <2>4. Stamped(tx)
    BY <1>0, <2>3 DEF SignedTransfer, Stamped
  <2>5. QED
    BY <1>0, <1>2, <2>1, <2>2, <2>3, <2>4, AdmitCounts
<1>3. ASSUME NEW c \in Clients, SubmitAction(c) PROVE CountsSound'
  <2>1. PICK tx : tx = ActionTx(actions)
    OBVIOUS
  <2>2. /\ adding' = [adding EXCEPT ![c] = tx] /\ UNCHANGED <<db, mempool, producer, clock>>
        /\ actions' \in 0..MaxActions
    BY <1>0, <1>3, <2>1, NodeAssumption DEF SubmitAction
  <2>3. Stamped(tx)
    BY <1>0, <2>1 DEF ActionTx, Stamped
  <2>4. QED
    BY <1>0, <1>3, <2>2, <2>3, AdmitCounts
<1>4. ASSUME NEW c \in Clients, FinishAdd(c) PROVE CountsSound'
  <2>1. /\ adding[c] # NoTx /\ adding' = [adding EXCEPT ![c] = NoTx]
        /\ mempool' \subseteq mempool \cup {adding[c]}
        /\ UNCHANGED <<db, producer, clock, actions>>
    BY <1>4 DEF FinishAdd
  <2>2. DOMAIN adding = Clients
    BY <1>0 DEF PoolSound
  <2>3. Stamped(adding[c])
    BY <1>4, <2>1 DEF CountsSound
  <2>4. ASSUME NEW m \in mempool' PROVE Stamped(m)
    BY <2>1, <2>3, <2>4 DEF CountsSound
  <2>5. ASSUME NEW k \in Clients, adding'[k] # NoTx PROVE Stamped(adding'[k])
    <3>1. k # c /\ adding'[k] = adding[k]
      BY <2>1, <2>2, <2>5
    <3>2. QED
      BY <2>5, <3>1 DEF CountsSound
  <2>6. QED
    BY <2>1, <2>4, <2>5 DEF CountsSound, BlocksStored, Stamped
<1>5. CASE EvictExpired
  <2>1. mempool' \subseteq mempool /\ UNCHANGED <<db, adding, producer, clock, actions>>
    BY <1>5 DEF EvictExpired
  <2>2. producer'.step = "apply" => "txs" \in DOMAIN producer'.draft
    BY <2>1 DEF CountsSound
  <2>3. QED
    BY <1>0, <2>1, <2>2, QuietCounts
<1>6. CASE AdvanceClock
  <2>1. clock' \in MaxAge..MaxClock /\ UNCHANGED <<db, mempool, adding, producer, actions>>
    BY <1>0, <1>6, NodeAssumption DEF AdvanceClock
  <2>2. producer'.step = "apply" => "txs" \in DOMAIN producer'.draft
    BY <2>1 DEF CountsSound
  <2>3. QED
    BY <2>1, <2>2, QuietCounts
<1>7. CASE ReadTip \/ ProofFails \/ RemoveConfirmed
  <2>1. /\ mempool' \subseteq mempool /\ UNCHANGED <<db, adding, clock, actions>>
        /\ producer'.step \in {"take", "idle"}
    BY <1>7 DEF ReadTip, ProofFails, RemoveConfirmed
  <2>2. producer'.step = "apply" => "txs" \in DOMAIN producer'.draft
    BY <2>1
  <2>3. QED
    BY <1>0, <2>1, <2>2, QuietCounts
<1>8. CASE BuildBlock
  <2>1. mempool' \subseteq mempool /\ UNCHANGED <<db, adding, clock, actions>>
    BY <1>8 DEF BuildBlock
  <2>2. PICK txs \in TakeForBlock :
          producer' =
             [step |-> "apply",
              draft |-> [height |-> producer.draft.height, prev_hash |-> producer.draft.prev_hash,
                         hash |-> <<Miner, producer.draft.height, producer.draft.timestamp, txs>>,
                         validator |-> Miner,
                         txs |-> <<RewardTx(Miner, producer.draft.height, producer.draft.timestamp)>>
                                    \o txs]]
    BY <1>8 DEF BuildBlock
  <2>3. "txs" \in DOMAIN producer'.draft
    BY <2>2
  <2>4. QED
    BY <1>0, <2>1, <2>3, QuietCounts
<1>9. CASE ApplyDraft
  <2>1. PICK b : b = producer.draft
    OBVIOUS
  <2>2. producer.step = "apply" /\ UNCHANGED <<mempool, adding, actions, clock>>
    BY <1>9 DEF ApplyDraft
  <2>3. CASE ~Accepts(db, b)
    <3>1. producer' = [step |-> "idle", draft |-> NoDraft] /\ UNCHANGED db
      BY <1>9, <2>1, <2>3 DEF ApplyDraft
    <3>2. producer'.step = "idle"
      BY <3>1
    <3>3. QED
      BY <1>0, <2>2, <3>1, <3>2, QuietCounts
  <2>4. CASE Accepts(db, b)
    <3>1. db' = Committed(db, b) /\ producer' = [producer EXCEPT !.step = "remove"]
      BY <1>9, <2>1, <2>4 DEF ApplyDraft
    <3>2. producer = [step |-> "apply", draft |-> b]
      BY <2>1, <2>2 DEF NodeInv, DraftSound
    <3>3. producer'.step = "remove"
      BY <3>1, <3>2
    <3>4. BlockLike(b) /\ "txs" \in DOMAIN b
      BY <2>1, <2>2 DEF NodeInv, DraftSound, Drafted, CountsSound
    <3>5. Commits(db, b)
      BY <2>1, <2>2, <2>4, <3>4 DEF NodeInv, DraftNew, Commits
    <3>6. QED
      BY <2>2, <3>1, <3>3, <3>4, <3>5, CommitCounts
  <2>5. QED
    BY <2>3, <2>4
<1>10. CASE PeerBlock
  <2>1. PICK b : PeerMade(b) /\ db' = Committed(db, b)
    BY <1>10, PeerMakes
  <2>2. UNCHANGED <<mempool, adding, producer, clock, actions>>
    BY <1>10 DEF PeerBlock
  <2>3. Commits(db, b) /\ "txs" \in DOMAIN b
    BY <2>1 DEF PeerMade, Commits
  <2>4. QED
    BY <2>1, <2>2, <2>3, CommitCounts
<1>11. CASE UNCHANGED vars
  <2>1. UNCHANGED <<db, mempool, adding, producer, clock, actions>>
    BY <1>11 DEF vars
  <2>2. producer'.step = "apply" => "txs" \in DOMAIN producer'.draft
    BY <2>1 DEF CountsSound
  <2>3. QED
    BY <1>0, <2>1, <2>2, QuietCounts
<1>12. QED
    BY <1>1, <1>2, <1>3, <1>4, <1>5, <1>6, <1>7, <1>8, <1>9, <1>10, <1>11
       DEF Next, Local, ProducerStep

\* What is pending or drafted stays paid for, and the bounds hold, in every
\* reachable state.
THEOREM FundsInvariance == Spec => [](PoolInv /\ NodeInv /\ FundsSound /\ CountsSound)
<1>1. Init => PoolInv /\ NodeInv /\ FundsSound /\ CountsSound
    BY PoolStart, NodeStart, FundsStart, CountsStart
<1>2. PoolInv /\ NodeInv /\ FundsSound /\ CountsSound /\ [Next]_vars
        => (PoolInv /\ NodeInv /\ FundsSound /\ CountsSound)'
    BY PoolStep, NodeStep, FundsStep, CountsStep
<1>3. QED
    BY <1>1, <1>2, PTL DEF Spec

\* Tokens are neither made nor lost and no balance wraps, though the vesting rule
\* of apply_block does not look at what the founder has left, for any number of
\* accounts, requests and blocks.
THEOREM TokensAlwaysConserved == Spec => []TokensConserved
<1>1. ASSUME NodeInv, FundsSound, CountsSound PROVE TokensConserved
  <2>1. PICK f : f = db.balances
    OBVIOUS
  <2>2. f \in [Accounts -> Nat] /\ Supply(f) = Tokens
    BY <1>1, <2>1 DEF FundsSound, All
  <2>3. \A a \in Accounts : f[a] \in Nat /\ f[a] <= Tokens
    BY <2>2, SupplyNat
  <2>4. Tokens = Supply(InitialBalance) /\ Tokens \in Nat /\ Tokens < U64Modulus /\ U64Modulus \in Nat
    BY TokensFit DEF Tokens
  <2>5. \A a \in Accounts : f[a] \in 0..(U64Modulus - 1)
    BY <2>3, <2>4
  <2>6. f \in [Accounts -> 0..(U64Modulus - 1)]
    BY <2>2, <2>5
  <2>7. ASSUME NEW h \in 1..db.tip_height PROVE db.blocks[h] # NoBlock
    <3>1. "txs" \in DOMAIN db.blocks[h]
      BY <1>1 DEF CountsSound, BlocksStored
    <3>2. "txs" \notin DOMAIN NoBlock
      BY DEF NoBlock
    <3>3. QED
      BY <3>1, <3>2
  <2>8. ASSUME NEW m \in mempool
        PROVE  m.from \in Accounts \cup {GENESIS} /\ m.created \in 0..MaxClock
    <3>1. Pending(m) /\ Stamped(m)
      BY <1>1 DEF NodeInv, PoolSound, CountsSound
    <3>2. QED
      BY <3>1, KindsOfPending DEF TxOK, Stamped
  <2>9. /\ db.tip_height \in 0..MaxHeight /\ db.nonces \in [Accounts -> Nat]
        /\ producer.step \in {"idle", "take", "apply", "remove"}
        /\ clock \in MaxAge..MaxClock /\ actions \in 0..MaxActions
    BY <1>1 DEF NodeInv, ChainSound, ChainOf, DbOK, DraftSound, CountsSound
  <2>10. TypeOK
    BY <2>1, <2>6, <2>7, <2>8, <2>9 DEF TypeOK
  <2>11. NoOverdraft /\ SupplyConserved
    BY <2>1, <2>2, <2>3, <2>4 DEF NoOverdraft, SupplyConserved
  <2>12. QED
    BY <2>10, <2>11 DEF TokensConserved
<1>2. QED
    BY <1>1, FundsInvariance, PTL

=============================================================================
