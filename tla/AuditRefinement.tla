--------------------------- MODULE AuditRefinement ---------------------------
(* The audit ledger with its append lock, durable tree, rollbacks and crashes  *)
(* implements the promise stated in AuditLog.                                  *)
EXTENDS AuditLedger

Promise == INSTANCE AuditLog WITH
    chain  <- entries,
    up     <- (status = "up"),
    Linked <- verify_chain

\* Every step of writers, sled and restarts is a step of the abstract log or
\* leaves it alone: rollback_latest withdraws only what was never acknowledged, and
\* load_audit_entries gives back a linked chain with all that was.
KeepsPromise == Promise!LogSpec

=============================================================================
