---------------------------- MODULE AuditSerial ----------------------------
(* The audit ledger while its writers take turns and JSON keeps its floats: the *)
(* conditions under which the durable log always starts the node again.         *)
EXTENDS AuditRefinement

VARIABLE disturbed   \* two writers have overlapped, or JSON changes a float

\* An entry that load_audit_entries gives back as append_audit_entry was given it.
Stable(e) == JsonRoundTrip[e.confidence] = e.confidence

Disturbance ==
    \/ \E v, w \in Writers : v # w /\ pc[v] # "idle" /\ pc[w] # "idle"
    \/ \E i \in 1..Len(entries) : ~Stable(entries[i])

SerialInit ==
    /\ Init
    /\ disturbed = FALSE

SerialNext ==
    /\ Next
    /\ disturbed' = (disturbed \/ Disturbance')

SerialSpec == SerialInit /\ [][SerialNext]_<<vars, disturbed>>

-----------------------------------------------------------------------------
\* With one audit writer at a time and floats that JSON keeps, a node never refuses
\* the log that store errors, rollbacks and crashes have left it, and the tree holds
\* the whole live chain whenever no request is in flight: a rolled-back entry leaves
\* its height to the next one.
SerialRecovers == ~disturbed => NeverRefused /\ QuiescentDurable

-----------------------------------------------------------------------------
(* What it rests on.                                                            *)

\* The entries of the live chain that no request may still withdraw.
Settled == IF \E w \in Writers : pc[w] # "idle" THEN Len(entries) - 1 ELSE Len(entries)

\* Whatever a crash keeps of the unflushed log holds the settled chain, and at
\* most one entry on top of it: one in flight, or one whose writer has given it up.
OneOnTop ==
    \A n \in flushed..Len(log) :
        /\ \A i \in 1..Settled : entries[i] \in TreeAt(n)
        /\ \A e \in TreeAt(n) :
             \/ \E i \in 1..Settled : e = entries[i]
             \/ /\ e.height = Settled + 1
                /\ e.previous_hash = IF Settled = 0 THEN GenesisHash ELSE entries[Settled].hash

\* Every entry of the tree links to the first hash or to an entry of the tree.
TreeLinked ==
    \A e \in TreeAt(Len(log)) :
        \/ e.previous_hash = GenesisHash
        \/ \E d \in TreeAt(Len(log)) : d.hash = e.previous_hash

Serial ==
    /\ \A v, w \in Writers : pc[v] # "idle" /\ pc[w] # "idle" => v = w
    /\ \A w \in Writers : pc[w] # "idle" => held[w] = entries[Len(entries)]
    /\ \A i \in 1..Len(entries) : entries[i].height = i /\ Stable(entries[i])
    /\ \A i \in 1..Len(log) : Stable(log[i])
    /\ status = "up" => OneOnTop
    /\ status = "down" => TreeLinked /\ flushed = Len(log)
    /\ NeverRefused

SerialInv == ~disturbed => Serial

=============================================================================
