------------------------------ MODULE AuditLog ------------------------------
(***************************************************************************)
(* What the audit ledger promises the callers who are told that their      *)
(* decision is recorded, with no word of locks, logs or flushes: a chain   *)
(* that grows at its end, from which only an entry nobody has been         *)
(* promised may be withdrawn, and which comes back after a stop linked and *)
(* with every promised entry in it.                                        *)
(***************************************************************************)
EXTENDS Naturals, Sequences

CONSTANT Linked(_)   \* a chain each of whose entries names the one before it

VARIABLES
    chain,   \* the entries served
    acked,   \* the entries promised
    up       \* whether the ledger serves

logVars == <<chain, acked, up>>

In(e, s) == \E i \in 1..Len(s) : s[i] = e

LogInit ==
    /\ chain = <<>>
    /\ acked = {}
    /\ up = TRUE

\* A new entry at the end, linked to the one before it.
LogAppend ==
    /\ up
    /\ Len(chain') = Len(chain) + 1
    /\ SubSeq(chain', 1, Len(chain)) = chain
    /\ chain'[Len(chain')] \notin acked
    /\ Linked(chain')
    /\ UNCHANGED <<acked, up>>

\* One served entry is promised.
LogAcknowledge ==
    /\ up
    /\ \E i \in 1..Len(chain) : acked' = acked \cup {chain[i]}
    /\ UNCHANGED <<chain, up>>

\* The last entry goes, if nobody has been promised it.
LogWithdraw ==
    /\ up
    /\ chain # <<>>
    /\ chain[Len(chain)] \notin acked
    /\ chain' = SubSeq(chain, 1, Len(chain) - 1)
    /\ UNCHANGED <<acked, up>>

LogStop ==
    /\ up
    /\ up' = FALSE
    /\ chain' = <<>>
    /\ UNCHANGED acked

\* A start keeps every promise.  Entries nobody was promised may be there or not.
LogStart ==
    /\ ~up
    /\ up' = TRUE
    /\ Linked(chain')
    /\ \A e \in acked : In(e, chain')
    /\ UNCHANGED acked

LogNext == LogAppend \/ LogAcknowledge \/ LogWithdraw \/ LogStop \/ LogStart

LogSpec == LogInit /\ [][LogNext]_logVars

=============================================================================
