--------------------------- MODULE MCModelRegistry ---------------------------
(* An instance of ModelRegistry alone, for TLC. *)
EXTENDS ModelRegistry

CONSTANTS t1, m1, n1

\* Every entry in one shard of the map.
OneShard == [m \in ModelIds |-> "s"]
=============================================================================
