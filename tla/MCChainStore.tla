---------------------------- MODULE MCChainStore ----------------------------
(* Instances of ChainStore for TLC: a chain of two blocks and a rival of the  *)
(* first one, by another validator, with the same transfer in it.             *)
EXTENDS ChainStore

MCAccounts == {"alice", "bob", "v1", "v2", "pool", "founder"}
MCInitial == [a \in MCAccounts |->
                CASE a = "alice" -> 5 [] a = "pool" -> 6 [] a = "founder" -> 6 [] OTHER -> 0]
MCFounderTotal == [t \in 0..1 |-> 6 + t]

Transfer(id, from, to, amount, fee, nonce) ==
    [id |-> id, from |-> from, to |-> to, amount |-> amount, fee |-> fee,
     nonce |-> nonce, timestamp |-> 0]

Reward(id, to) == Transfer(id, "pool", to, 2, 0, 0)
Pay == Transfer("pay", "alice", "bob", 2, 1, 0)
PayBack == Transfer("payback", "bob", "alice", 1, 1, 0)
Grant == Transfer("grant", "founder", "bob", 3, 1, 0)

Block(hash, prev_hash, height, validator, txs) ==
    [hash |-> hash, prev_hash |-> prev_hash, height |-> height,
     validator |-> validator, txs |-> txs]

B1 == Block("b1", "genesis", 1, "v1", <<Reward("r1", "v1"), Pay>>)
R1 == Block("c1", "genesis", 1, "v2", <<Reward("s1", "v2"), Pay>>)
B2 == Block("b2", "b1", 2, "v1", <<Reward("r2", "v1"), PayBack, Grant>>)

R2 == Block("c2", "c1", 2, "v2", <<Reward("s2", "v2"), Grant>>)
B3 == Block("b3", "b2", 3, "v2", <<Reward("r3", "v2"), Transfer("again", "alice", "bob", 1, 1, 1)>>)

MCCandidates == {B1, R1, B2, R2, B3}

\* The rivals alone, without their rewards.
Rivals == {Block("b1", "genesis", 1, "v1", <<Pay>>), Block("c1", "genesis", 1, "v2", <<Pay>>)}
=============================================================================
