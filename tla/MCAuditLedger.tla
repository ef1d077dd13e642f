---------------------------- MODULE MCAuditLedger ----------------------------
(* An instance of AuditLedger alone, for TLC. *)
EXTENDS AuditLedger

CONSTANTS w1, w2

\* Every float comes back from its JSON as it was written.
ExactFloats == {"short"}
ExactRoundTrip == [f \in ExactFloats |-> f]

=============================================================================
