----------------------------- MODULE MCChainNode -----------------------------
(* Instances of ChainNode for TLC. *)
EXTENDS ChainNode, TLC

CONSTANTS c1, c2

\* Requests differ only in their names.
ClientSymmetry == Permutations(Clients)

MCAccounts == {"alice", "bob", "treasury", "miner", "peer", "pool", "founder",
               "action_ledger"}
MCInitial == [a \in MCAccounts |->
                CASE a = "alice" -> 4 [] a = "treasury" -> 2 [] a = "pool" -> 3
                  [] a = "founder" -> 5 [] OTHER -> 0]
MCFounderTotal == [t \in 0..MaxClock |-> 5 + t]

T(from, to, amount, fee) == [from |-> from, to |-> to, amount |-> amount, fee |-> fee]

FounderAndMiner == {T("founder", "bob", 3, 1), T("miner", "treasury", 1, 1)}
SameSender == {T("alice", "bob", 1, 1), T("alice", "bob", 2, 1)}
=============================================================================
