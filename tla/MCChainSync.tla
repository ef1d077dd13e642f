----------------------------- MODULE MCChainSync -----------------------------
(* Instances of ChainSync for TLC. *)
EXTENDS ChainSync, TLC

CONSTANTS m1, m2, f1

\* One miner and a follower; two miners; a miner, a second one and a follower in
\* a row.
Pair == {{m1, f1}}
Rivals == {{m1, m2}}
Row == {{m1, f1}, {m2, f1}}
=============================================================================
