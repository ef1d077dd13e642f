-------------------------- MODULE AuditLedgerProofs --------------------------
(***************************************************************************)
(* Proofs about the audit ledger, for every set of writers, every set of   *)
(* floats with any JSON round trip, and every bound.  IInv is inductive;   *)
(* what an entry's durability rests on is that the heights of the live     *)
(* chain are distinct and that every unanswered or acknowledged entry is   *)
(* in it, so that no two of them are ever inserted at the same height.     *)
(*                                                                         *)
(* Then the refinement of AuditLog, the ledger whose writers take turns    *)
(* (AuditSerial), and the lanes: the migration of a log that an older      *)
(* version left and the export of a corpus, for any history (AuditLanes).  *)
(***************************************************************************)
EXTENDS AuditSerial, AuditLanes, DataLemmas

\* The entries an initial ledger, and a new one, are made of have their type.
LEMMA GenesisHashType == GenesisHash \in HashValue
  BY DEF GenesisHash, HashValue

LEMMA NewEntryType ==
  ASSUME NEW id \in Nat, NEW h \in Nat, NEW p \in HashValue, NEW c \in Floats
  PROVE  /\ new_with_metadata(id, h, p, c) \in Entry
         /\ new_with_metadata(id, h, p, c).hash \in HashValue
         /\ new_with_metadata(id, h, p, c).id = id
         /\ new_with_metadata(id, h, p, c).height = h
         /\ new_with_metadata(id, h, p, c).previous_hash = p
         /\ verify(new_with_metadata(id, h, p, c))
  <1>1. p.id \in Nat
    BY DEF HashValue
  <1>2. compute_hash(id, h, p, c) \in HashValue
    BY <1>1 DEF compute_hash, HashValue
  <1> QED
    BY <1>2 DEF new_with_metadata, Entry, verify

\* NoEntry is not an entry.
LEMMA NoEntryNotEntry == NoEntry \notin Entry
  BY DEF NoEntry, Entry

\* The tip of a chain has its type.
LEMMA TipType ==
  ASSUME NEW s \in Seq(Entry)
  PROVE  TipHash(s) \in HashValue /\ TipHeight(s) \in Nat
  <1>1. CASE s = <<>>
    BY <1>1, GenesisHashType DEF TipHash, TipHeight
  <1>2. CASE s # <<>>
    <2>1. s[Len(s)] \in Entry
      BY <1>2
    <2> QED
      BY <1>2, <2>1 DEF TipHash, TipHeight, Entry
  <1> QED
    BY <1>1, <1>2

\* A verified entry hash carries the entry's own height and confidence.
LEMMA VerifiedHash ==
  ASSUME NEW e, verify(e)
  PROVE  e.hash.height = e.height /\ e.hash.confidence = e.confidence
  BY DEF verify, compute_hash

\* The initial state satisfies the invariant.
LEMMA InitInv == Init => IInv
  <1> SUFFICES ASSUME Init PROVE IInv
    OBVIOUS
  <1> USE DEF Init
  <1>1. TypeOK
    BY GenesisHashType DEF TypeOK
  <1>2. ChainIntact
    BY DEF ChainIntact, verify_chain, TipHash, TipHeight
  <1>3. HeightsIncrease /\ InFlight /\ LogWellFormed /\ IdsUnique
    BY DEF HeightsIncrease, InFlight, LogWellFormed, IdsUnique
  <1>4. AckedDurable /\ AckedServed
    BY DEF AckedDurable, AckedServed
  <1> QED
    BY <1>1, <1>2, <1>3, <1>4 DEF IInv

\* Recording appends an entry of the next height that links to the tip.
LEMMA RecordInv ==
  ASSUME IInv, NEW w \in Writers, Record(w)
  PROVE  IInv'
  <1> USE DEF IInv
  <1> PICK c \in Floats :
        LET e == new_with_metadata(nextId, latest_block + 1, latest_hash, c)
        IN  /\ latest_block' = latest_block + 1
            /\ latest_hash' = e.hash
            /\ entries' = Append(entries, e)
            /\ held' = [held EXCEPT ![w] = e]
    BY DEF Record
  <1> DEFINE e == new_with_metadata(nextId, latest_block + 1, latest_hash, c)
  <1> DEFINE n == Len(entries)
  <1>0. /\ status = "up" /\ status' = "up"
        /\ pc[w] = "idle"
        /\ pc' = [pc EXCEPT ![w] = "insert"]
        /\ nextId' = nextId + 1
        /\ UNCHANGED <<log, flushed, acked, crashes>>
    BY DEF Record
  <1>1. /\ e \in Entry /\ e.hash \in HashValue /\ e.id = nextId
        /\ e.height = latest_block + 1 /\ e.previous_hash = latest_hash /\ verify(e)
    <2>1. nextId \in Nat /\ latest_block + 1 \in Nat /\ latest_hash \in HashValue
      BY DEF TypeOK
    <2> QED
      BY <2>1, NewEntryType
  <1>2. /\ entries' = Append(entries, e) /\ latest_hash' = e.hash
        /\ latest_block' = e.height /\ held' = [held EXCEPT ![w] = e]
    BY <1>1
  <1> HIDE DEF e
  <1>3. /\ entries \in Seq(Entry) /\ entries' \in Seq(Entry)
        /\ n \in Nat /\ Len(entries') = n + 1
        /\ \A i \in 1..n : entries'[i] = entries[i] /\ entries[i] \in Entry
        /\ entries'[n + 1] = e
    BY <1>1, <1>2 DEF TypeOK
  <1> HIDE DEF n
  <1>4. TypeOK'
    BY <1>0, <1>1, <1>2, <1>3 DEF TypeOK, Entry
  <1>5. \A i \in 1..n : entries[i].height \in Nat /\ e.height \in Nat
    BY <1>1, <1>3 DEF Entry
  <1>6. n > 0 => latest_hash = entries[n].hash /\ latest_block = entries[n].height
    BY <1>0, <1>3 DEF ChainIntact, TipHash, TipHeight, n
  <1>7. n = 0 => latest_hash = GenesisHash /\ latest_block = 0
    BY <1>0, <1>3 DEF ChainIntact, TipHash, TipHeight, n
  <1>8. ChainIntact'
    <2>1. verify_chain(entries')
      <3> SUFFICES ASSUME NEW i \in 1..(n + 1)
                   PROVE  /\ entries'[i].previous_hash
                               = IF i = 1 THEN GenesisHash ELSE entries'[i - 1].hash
                          /\ verify(entries'[i])
        BY <1>3 DEF verify_chain
      <3>1. CASE i \in 1..n
        <4>1. entries'[i] = entries[i] /\ (i # 1 => entries'[i - 1] = entries[i - 1])
          BY <1>3, <3>1
        <4>2. /\ entries[i].previous_hash = IF i = 1 THEN GenesisHash ELSE entries[i - 1].hash
              /\ verify(entries[i])
          BY <1>0, <3>1 DEF ChainIntact, verify_chain, n
        <4> QED
          BY <4>1, <4>2
      <3>2. CASE i = n + 1
        BY <3>2, <1>1, <1>3, <1>6, <1>7
      <3> QED
        BY <3>1, <3>2, <1>3
    <2>2. \A i \in 1..(n + 1) :
             entries'[i].height = IF i = 1 THEN 1 ELSE entries'[i - 1].height + 1
      <3> TAKE i \in 1..(n + 1)
      <3>1. CASE i \in 1..n
        <4>1. entries'[i] = entries[i] /\ (i # 1 => entries'[i - 1] = entries[i - 1])
          BY <1>3, <3>1
        <4>2. entries[i].height = IF i = 1 THEN 1 ELSE entries[i - 1].height + 1
          BY <1>0, <3>1 DEF ChainIntact, n
        <4> QED
          BY <4>1, <4>2
      <3>2. CASE i = n + 1
        BY <3>2, <1>1, <1>3, <1>6, <1>7
      <3> QED
        BY <3>1, <3>2, <1>3
    <2>3. latest_hash' = TipHash(entries') /\ latest_block' = TipHeight(entries')
      BY <1>2, <1>3 DEF TipHash, TipHeight
    <2> QED
      BY <1>3, <2>1, <2>2, <2>3 DEF ChainIntact, verify_chain
  <1>9. HeightsIncrease'
    <2> SUFFICES ASSUME NEW i \in 1..(n + 1), NEW j \in 1..(n + 1), i < j
                 PROVE  entries'[i].height < entries'[j].height
      BY <1>3 DEF HeightsIncrease
    <2>1. CASE j \in 1..n
      BY <2>1, <1>3 DEF HeightsIncrease, n
    <2>2. CASE j = n + 1
      <3>1. i \in 1..n /\ n \in 1..n
        BY <2>2, <1>3
      <3>2. entries[i].height <= entries[n].height
        BY <3>1, <1>3, <1>5 DEF HeightsIncrease, n
      <3> QED
        BY <2>2, <3>1, <3>2, <1>1, <1>3, <1>5, <1>6
    <2> QED
      BY <2>1, <2>2, <1>3
  <1>10. /\ \A i \in 1..n : entries[i] # e
         /\ \A i \in 1..Len(log) : log[i] # e
         /\ e \notin acked
    <2>1. /\ \A i \in 1..n : entries[i].id < nextId
          /\ \A i \in 1..Len(log) : log[i].id < nextId
      BY DEF IdsUnique, n
    <2>2. nextId \in Nat
      BY DEF TypeOK
    <2>3. \A i \in 1..Len(log) : log[i] # e
      BY <2>1, <2>2, <1>1
    <2>4. e \notin acked
      <3>1. acked \subseteq TreeAt(Len(log))
        BY DEF AckedDurable, TypeOK
      <3> QED
        BY <3>1, <2>3 DEF TreeAt
    <2> QED
      BY <2>1, <2>2, <2>3, <2>4, <1>1
  <1>11. InFlight'
    <2> SUFFICES ASSUME NEW v \in Writers, pc'[v] # "idle"
                 PROVE  /\ held'[v] \in Entry
                        /\ Occurs(held'[v], entries')
                        /\ held'[v] \notin acked
                        /\ pc'[v] = "flush" => held'[v] \in TreeAt(Len(log))
                        /\ \A u \in Writers \ {v} : pc'[u] # "idle" => held'[u] # held'[v]
      BY <1>0 DEF InFlight, TreeAt
    <2>1. \A u \in Writers \ {w} : pc'[u] = pc[u] /\ held'[u] = held[u]
      BY <1>0, <1>2 DEF TypeOK
    <2>2. pc'[w] = "insert" /\ held'[w] = e
      BY <1>0, <1>2 DEF TypeOK
    <2>3. \A u \in Writers \ {w} : pc[u] # "idle" => held[u] # e
      BY <1>10, <1>3 DEF InFlight, Occurs, n
    <2>4. CASE v = w
      <3>1. Occurs(e, entries')
        BY <1>3 DEF Occurs
      <3> QED
        BY <2>1, <2>2, <2>3, <2>4, <3>1, <1>1, <1>10
    <2>5. CASE v # w
      <3>1. Occurs(held[v], entries')
        BY <2>1, <2>5, <1>3 DEF InFlight, Occurs, n
      <3> QED
        BY <2>1, <2>2, <2>3, <2>5, <3>1 DEF InFlight
    <2> QED
      BY <2>4, <2>5
  <1>12. LogWellFormed'
    BY <1>0 DEF LogWellFormed
  <1>13. IdsUnique'
    <2> DEFINE K == {entries[i] : i \in 1..n} \cup {log[i] : i \in 1..Len(log)}
    <2>1. {entries'[i] : i \in 1..Len(entries')} = {entries[i] : i \in 1..n} \cup {e}
      BY <1>3
    <2>2. \A f \in K : f.id < nextId /\ f.id \in Nat
      <3>1. \A f \in K : f.id < nextId
        BY DEF IdsUnique, n
      <3>2. \A f \in K : f \in Entry
        BY <1>3 DEF TypeOK
      <3> QED
        BY <3>1, <3>2 DEF Entry
    <2>3. \A f, g \in K : f.id = g.id => f = g
      BY DEF IdsUnique, n
    <2>4. nextId \in Nat
      BY DEF TypeOK
    <2>5. \A f, g \in K \cup {e} : f.id < nextId + 1 /\ (f.id = g.id => f = g)
      BY <2>2, <2>3, <2>4, <1>1
    <2>6. {entries'[i] : i \in 1..Len(entries')} \cup {log'[i] : i \in 1..Len(log')} = K \cup {e}
      BY <2>1, <1>0
    <2> HIDE DEF K
    <2> QED
      BY <2>5, <2>6, <1>0 DEF IdsUnique
  <1>14. AckedDurable'
    BY <1>0 DEF AckedDurable, TreeAt
  <1>15. AckedServed'
    <2> SUFFICES ASSUME NEW a \in acked
                 PROVE  \E i \in 1..Len(entries') : entries'[i] = a
      BY <1>0 DEF AckedServed
    <2>1. PICK i \in 1..n : entries[i] = a
      BY <1>0 DEF AckedServed, n
    <2> QED
      BY <2>1, <1>3
  <1> QED
    BY <1>4, <1>8, <1>9, <1>11, <1>12, <1>13, <1>14, <1>15

\* Two entries of the live chain with one height are the same entry.
LEMMA SameHeightSameEntry ==
  ASSUME TypeOK, HeightsIncrease, NEW e, NEW f,
         Occurs(e, entries), Occurs(f, entries), e.height = f.height
  PROVE  e = f
  <1>1. PICK i \in 1..Len(entries) : entries[i] = e
    BY DEF Occurs
  <1>2. PICK j \in 1..Len(entries) : entries[j] = f
    BY DEF Occurs
  <1>3. entries[i] \in Entry /\ entries[j] \in Entry
    BY DEF TypeOK
  <1>4. entries[i].height \in Nat /\ entries[j].height \in Nat
    BY <1>3 DEF Entry
  <1> QED
    BY <1>4, <1>1, <1>2, <1>3 DEF HeightsIncrease

\* Inserting writes at a height that no acknowledged or inserted entry has.
LEMMA InsertInv ==
  ASSUME IInv, NEW w \in Writers, Insert(w)
  PROVE  IInv'
  <1> USE DEF IInv
  <1> DEFINE e == held[w]
             n == Len(log)
  <1>1. /\ pc[w] = "insert" /\ log' = Append(log, e) /\ pc' = [pc EXCEPT ![w] = "flush"]
        /\ UNCHANGED <<entries, latest_hash, latest_block, held, flushed, acked,
                       status, nextId, crashes>>
    BY DEF Insert
  <1>2. e \in Entry /\ Occurs(e, entries) /\ e \notin acked /\ status = "up"
    BY <1>1 DEF InFlight
  <1>3. /\ log \in Seq(Entry) /\ log' \in Seq(Entry) /\ n \in Nat /\ Len(log') = n + 1
        /\ \A i \in 1..n : log'[i] = log[i] /\ log[i] \in Entry
        /\ log'[n + 1] = e
    BY <1>1, <1>2 DEF TypeOK
  <1> HIDE DEF n
  <1>4. TypeOK'
    BY <1>1, <1>3 DEF TypeOK, n
  <1>5. ChainIntact' /\ HeightsIncrease' /\ AckedServed'
    BY <1>1 DEF ChainIntact, HeightsIncrease, AckedServed, verify_chain
  <1>6. \A f : Occurs(f, entries) /\ f # e /\ f \in TreeAt(n) => f \in TreeAt(Len(log))'
    <2> SUFFICES ASSUME NEW f, Occurs(f, entries), f # e, f \in TreeAt(n)
                 PROVE  f \in TreeAt(Len(log))'
      OBVIOUS
    <2>1. f.height # e.height
      BY <1>2, SameHeightSameEntry
    <2>2. PICK i \in 1..n : log[i] = f /\ \A j \in (i + 1)..n : log[j].height # log[i].height
      BY DEF TreeAt
    <2>3. i \in 1..(n + 1) /\ log'[i] = f
      BY <2>2, <1>3
    <2>4. \A j \in (i + 1)..(n + 1) : log'[j].height # log'[i].height
      <3> TAKE j \in (i + 1)..(n + 1)
      <3>1. CASE j = n + 1
        BY <3>1, <2>1, <2>3, <1>3
      <3>2. CASE j \in (i + 1)..n
        BY <3>2, <2>2, <2>3, <1>3
      <3> QED
        BY <3>1, <3>2, <1>3
    <2> QED
      BY <2>3, <2>4, <1>3 DEF TreeAt
  <1>7. e \in TreeAt(Len(log))'
    <2>1. n + 1 \in 1..(n + 1) /\ \A j \in ((n + 1) + 1)..(n + 1) : log'[j].height # log'[n + 1].height
      BY <1>3
    <2> QED
      BY <2>1, <1>3 DEF TreeAt
  <1>8. InFlight'
    <2> SUFFICES ASSUME NEW v \in Writers, pc'[v] = "flush"
                 PROVE  held[v] \in TreeAt(Len(log))'
      BY <1>1 DEF InFlight, TypeOK, Occurs
    <2>1. CASE v = w
      BY <2>1, <1>7
    <2>2. CASE v # w
      <3>1. pc[v] = "flush"
        BY <2>2, <1>1 DEF TypeOK
      <3>2. Occurs(held[v], entries) /\ held[v] # e /\ held[v] \in TreeAt(n)
        BY <2>2, <3>1, <1>1 DEF InFlight, n
      <3> QED
        BY <3>2, <1>6
    <2> QED
      BY <2>1, <2>2
  <1>9. PICK k \in 1..Len(entries) : entries[k] = e
    BY <1>2 DEF Occurs
  <1>10. verify(e) /\ e.height = e.previous_hash.height + 1
    <2>1. verify(entries[k]) /\ (k # 1 => verify(entries[k - 1]))
      BY <1>2 DEF ChainIntact, verify_chain, TypeOK
    <2>2. CASE k = 1
      <3>1. e.previous_hash = GenesisHash /\ e.height = 1
        BY <2>2, <1>2, <1>9 DEF ChainIntact, verify_chain
      <3> QED
        BY <3>1, <2>1, <1>9 DEF GenesisHash
    <2>3. CASE k # 1
      <3>1. e.previous_hash = entries[k - 1].hash /\ e.height = entries[k - 1].height + 1
        BY <2>3, <1>2, <1>9 DEF ChainIntact, verify_chain
      <3>2. entries[k - 1].hash.height = entries[k - 1].height
        BY <2>1, <2>3, VerifiedHash
      <3> QED
        BY <3>1, <3>2, <2>1, <1>9
    <2> QED
      BY <2>2, <2>3
  <1>11. LogWellFormed'
    <2> SUFFICES ASSUME NEW i \in 1..(n + 1)
                 PROVE  verify(log'[i]) /\ log'[i].height = log'[i].previous_hash.height + 1
      BY <1>3 DEF LogWellFormed, verify
    <2>1. CASE i = n + 1
      BY <2>1, <1>3, <1>10
    <2>2. CASE i \in 1..n
      BY <2>2, <1>3 DEF LogWellFormed, n
    <2> QED
      BY <2>1, <2>2, <1>3
  <1>12. IdsUnique'
    <2>1. {log'[i] : i \in 1..Len(log')} = {log[i] : i \in 1..n} \cup {e}
      BY <1>3
    <2>2. e \in {entries[i] : i \in 1..Len(entries)}
      BY <1>9
    <2>3. {entries'[i] : i \in 1..Len(entries')} \cup {log'[i] : i \in 1..Len(log')}
            = {entries[i] : i \in 1..Len(entries)} \cup {log[i] : i \in 1..n}
      BY <2>1, <2>2, <1>1
    <2> QED
      BY <2>3, <1>1 DEF IdsUnique, n
  <1>13. AckedDurable'
    <2> SUFFICES ASSUME NEW k1 \in flushed..(n + 1), NEW a \in acked
                 PROVE  a \in TreeAt(k1)'
      BY <1>1, <1>3 DEF AckedDurable
    <2>1. CASE k1 = n + 1
      <3>1. a \in TreeAt(n)
        BY DEF AckedDurable, TypeOK, n
      <3>2. Occurs(a, entries) /\ a # e
        BY <1>2 DEF AckedServed, Occurs
      <3> QED
        BY <2>1, <3>1, <3>2, <1>3, <1>6 DEF TreeAt
    <2>2. CASE k1 \in flushed..n
      <3>1. a \in TreeAt(k1)
        BY <2>2 DEF AckedDurable, n
      <3>2. k1 \in Nat /\ \A i \in 1..k1 : log'[i] = log[i]
        BY <2>2, <1>3 DEF TypeOK
      <3>3. PICK i \in 1..k1 : log[i] = a /\ \A j \in (i + 1)..k1 : log[j].height # log[i].height
        BY <3>1 DEF TreeAt
      <3>4. log'[i] = a /\ \A j \in (i + 1)..k1 : log'[j].height # log'[i].height
        BY <3>2, <3>3
      <3> QED
        BY <3>3, <3>4 DEF TreeAt
    <2> QED
      BY <2>1, <2>2, <1>3 DEF TypeOK
  <1> QED
    BY <1>4, <1>5, <1>8, <1>11, <1>12, <1>13

\* Acknowledging an inserted entry: the whole log is on disk, the entry in it.
LEMMA FlushInv ==
  ASSUME IInv, NEW w \in Writers, Flush(w)
  PROVE  IInv'
  <1> USE DEF IInv
  <1>1. /\ pc[w] = "flush" /\ flushed' = Len(log) /\ acked' = acked \cup {held[w]}
        /\ pc' = [pc EXCEPT ![w] = "idle"] /\ held' = [held EXCEPT ![w] = NoEntry]
        /\ UNCHANGED <<entries, latest_hash, latest_block, log, status, nextId, crashes>>
    BY DEF Flush
  <1>2. held[w] \in Entry /\ Occurs(held[w], entries) /\ held[w] \in TreeAt(Len(log))
    BY <1>1 DEF InFlight
  <1>3. TypeOK'
    BY <1>1, <1>2 DEF TypeOK
  <1>4. ChainIntact' /\ HeightsIncrease' /\ LogWellFormed' /\ IdsUnique'
    BY <1>1 DEF ChainIntact, HeightsIncrease, LogWellFormed, IdsUnique, verify_chain, verify
  <1>5. InFlight'
    <2> SUFFICES ASSUME NEW v \in Writers, pc'[v] # "idle"
                 PROVE  /\ status = "up"
                        /\ held'[v] \in Entry
                        /\ Occurs(held'[v], entries)
                        /\ held'[v] \notin acked \cup {held[w]}
                        /\ pc'[v] = "flush" => held'[v] \in TreeAt(Len(log))
                        /\ \A u \in Writers \ {v} : pc'[u] # "idle" => held'[u] # held'[v]
      <3>1. TreeAt(Len(log))' = TreeAt(Len(log))
        BY <1>1 DEF TreeAt
      <3> QED
        BY <3>1, <1>1 DEF InFlight, Occurs
    <2>1. v # w /\ pc'[w] = "idle" /\ \A u \in Writers \ {w} : pc'[u] = pc[u] /\ held'[u] = held[u]
      BY <1>1 DEF TypeOK
    <2> QED
      BY <2>1, <1>1 DEF InFlight
  <1>6. AckedDurable'
    <2>1. acked \subseteq TreeAt(Len(log))
      BY DEF AckedDurable, TypeOK
    <2>2. TreeAt(Len(log))' = TreeAt(Len(log))
      BY <1>1 DEF TreeAt
    <2>3. (flushed..Len(log))' = {Len(log)}
      BY <1>1 DEF TypeOK
    <2> QED
      BY <2>1, <2>2, <2>3, <1>1, <1>2 DEF AckedDurable, TreeAt
  <1>7. AckedServed'
    BY <1>1, <1>2 DEF AckedServed, Occurs
  <1> QED
    BY <1>3, <1>4, <1>5, <1>6, <1>7

\* A store error changes nothing but the writer's next step.
LEMMA StoreErrorInv ==
  ASSUME IInv, NEW w \in Writers, StoreError(w)
  PROVE  IInv'
  <1> USE DEF IInv
  <1>1. /\ pc[w] \in {"insert", "flush"} /\ pc' = [pc EXCEPT ![w] = "rollback"]
        /\ UNCHANGED <<entries, latest_hash, latest_block, held, log, flushed, acked,
                       status, nextId, crashes>>
    BY DEF StoreError
  <1>2. TypeOK'
    BY <1>1 DEF TypeOK
  <1>3. ChainIntact' /\ HeightsIncrease' /\ LogWellFormed' /\ IdsUnique'
    BY <1>1 DEF ChainIntact, HeightsIncrease, LogWellFormed, IdsUnique, verify_chain, verify
  <1>5. TreeAt(Len(log))' = TreeAt(Len(log))
    BY <1>1 DEF TreeAt
  <1>6. InFlight'
    <2>1. /\ pc[w] # "idle" /\ pc'[w] # "flush"
          /\ \A v \in Writers : /\ (pc'[v] # "idle") <=> (pc[v] # "idle")
                                /\ pc'[v] = "flush" => pc[v] = "flush"
      BY <1>1 DEF TypeOK
    <2> QED
      BY <2>1, <1>1, <1>5 DEF InFlight, Occurs
  <1>7. AckedDurable' /\ AckedServed'
    BY <1>1 DEF AckedDurable, AckedServed, TreeAt
  <1> QED
    BY <1>2, <1>3, <1>6, <1>7

\* sled's own write-back only shortens what a crash may lose.
LEMMA BackgroundFlushInv ==
  ASSUME IInv, BackgroundFlush
  PROVE  IInv'
  <1> USE DEF IInv
  <1>1. PICK n \in (flushed + 1)..Len(log) : flushed' = n
    BY DEF BackgroundFlush
  <1>2. UNCHANGED <<entries, latest_hash, latest_block, pc, held, log, acked,
                    status, nextId, crashes>>
    BY DEF BackgroundFlush
  <1>3. TypeOK'
    BY <1>1, <1>2 DEF TypeOK
  <1>4. ChainIntact' /\ HeightsIncrease' /\ LogWellFormed' /\ IdsUnique'
    BY <1>2 DEF ChainIntact, HeightsIncrease, LogWellFormed, IdsUnique, verify_chain, verify
  <1>5. InFlight'
    <2>1. TreeAt(Len(log))' = TreeAt(Len(log))
      BY <1>2 DEF TreeAt
    <2> QED
      BY <2>1, <1>2 DEF InFlight, Occurs
  <1>6. AckedServed'
    BY <1>2 DEF AckedServed
  <1>7. AckedDurable'
    <2>1. \A k \in n..Len(log) : k \in flushed..Len(log)
      BY <1>1 DEF TypeOK
    <2> QED
      BY SMTT(30), <2>1, <1>1, <1>2 DEF AckedDurable, TreeAt
  <1> QED
    BY <1>3, <1>4, <1>5, <1>6, <1>7

\* A rollback pops the writer's own, unacknowledged entry or nothing.
LEMMA RollbackInv ==
  ASSUME IInv, NEW w \in Writers, Rollback(w)
  PROVE  IInv'
  <1> USE DEF IInv
  <1> DEFINE n == Len(entries)
             rest == SubSeq(entries, 1, n - 1)
             pops == entries # <<>> /\ entries[n].id = held[w].id
  <1>1. /\ pc[w] = "rollback"
        /\ pc' = [pc EXCEPT ![w] = "idle"] /\ held' = [held EXCEPT ![w] = NoEntry]
        /\ UNCHANGED <<log, flushed, acked, status, nextId, crashes>>
    BY DEF Rollback
  <1>2. status = "up" /\ held[w] \in Entry /\ Occurs(held[w], entries) /\ held[w] \notin acked
    BY <1>1 DEF InFlight
  <1>3. TreeAt(Len(log))' = TreeAt(Len(log))
    BY <1>1 DEF TreeAt
  <1>4. pc'[w] = "idle" /\ \A u \in Writers \ {w} : pc'[u] = pc[u] /\ held'[u] = held[u]
    BY <1>1 DEF TypeOK
  <1>5. LogWellFormed' /\ AckedDurable'
    BY <1>1 DEF LogWellFormed, AckedDurable, TreeAt, verify
  <1>6. CASE ~pops
    <2>1. UNCHANGED <<entries, latest_hash, latest_block>>
      BY <1>6 DEF Rollback
    <2>2. TypeOK'
      BY <1>1, <2>1 DEF TypeOK
    <2>3. ChainIntact' /\ HeightsIncrease' /\ IdsUnique' /\ AckedServed'
      BY <1>1, <2>1 DEF ChainIntact, HeightsIncrease, IdsUnique, AckedServed, verify_chain
    <2>4. InFlight'
      BY <1>1, <1>3, <1>4, <2>1 DEF InFlight, Occurs
    <2> QED
      BY <1>5, <2>2, <2>3, <2>4
  <1>7. CASE pops
    <2>1. entries' = rest /\ latest_hash' = TipHash(rest) /\ latest_block' = TipHeight(rest)
      BY <1>7 DEF Rollback
    <2>2. n \in Nat /\ n >= 1
      BY <1>7 DEF TypeOK
    <2>3. /\ entries' \in Seq(Entry) /\ Len(entries') = n - 1
          /\ \A i \in 1..(n - 1) : entries'[i] = entries[i]
      <3> DEFINE m == n - 1
      <3>1. m \in Nat /\ m <= Len(entries) /\ entries' = SubSeq(entries, 1, m)
        BY <2>1, <2>2
      <3>2. entries \in Seq(Entry)
        BY DEF TypeOK
      <3> HIDE DEF m
      <3>3. /\ entries' \in Seq(Entry) /\ Len(entries') = m
            /\ \A i \in 1..m : entries'[i] = entries[i]
        BY <3>1, <3>2
      <3> QED
        BY <3>3 DEF m
    <2> HIDE DEF n, rest
    <2>4. entries[n] = held[w]
      <3>1. PICK i \in 1..n : entries[i] = held[w]
        BY <1>2 DEF Occurs, n
      <3>2. entries[i].id = entries[n].id
        BY <3>1, <1>7 DEF n
      <3> QED
        BY <3>1, <3>2, <2>2 DEF IdsUnique, n
    <2>5. \A f : Occurs(f, entries) /\ f # held[w] => Occurs(f, entries')
      <3> SUFFICES ASSUME NEW f, Occurs(f, entries), f # held[w]
                   PROVE  Occurs(f, entries')
        OBVIOUS
      <3>1. PICK i \in 1..n : entries[i] = f
        BY DEF Occurs, n
      <3>2. i \in 1..(n - 1)
        BY <3>1, <2>2, <2>4
      <3> QED
        BY <3>1, <3>2, <2>3 DEF Occurs
    <2>6. TypeOK'
      <3>1. TipHash(rest) \in HashValue /\ TipHeight(rest) \in Nat
        BY <2>1, <2>3, TipType
      <3> QED
        BY <3>1, <1>1, <2>1, <2>3 DEF TypeOK
    <2>7. ChainIntact'
      <3>1. verify_chain(entries')
        <4> SUFFICES ASSUME NEW i \in 1..(n - 1)
                     PROVE  /\ entries'[i].previous_hash
                                 = IF i = 1 THEN GenesisHash ELSE entries'[i - 1].hash
                            /\ verify(entries'[i])
          BY <2>3 DEF verify_chain
        <4>1. entries'[i] = entries[i] /\ (i # 1 => entries'[i - 1] = entries[i - 1]) /\ i \in 1..n
          BY <2>2, <2>3
        <4>2. /\ entries[i].previous_hash = IF i = 1 THEN GenesisHash ELSE entries[i - 1].hash
              /\ verify(entries[i])
          BY <1>2, <4>1 DEF ChainIntact, verify_chain, n
        <4> QED
          BY <4>1, <4>2
      <3>2. \A i \in 1..(n - 1) :
               entries'[i].height = IF i = 1 THEN 1 ELSE entries'[i - 1].height + 1
        <4> TAKE i \in 1..(n - 1)
        <4>1. entries'[i] = entries[i] /\ (i # 1 => entries'[i - 1] = entries[i - 1]) /\ i \in 1..n
          BY <2>2, <2>3
        <4>2. entries[i].height = IF i = 1 THEN 1 ELSE entries[i - 1].height + 1
          BY <1>2, <4>1 DEF ChainIntact, n
        <4> QED
          BY <4>1, <4>2
      <3>3. latest_hash' = TipHash(entries') /\ latest_block' = TipHeight(entries')
        BY <2>1
      <3> QED
        BY <3>1, <3>2, <3>3, <2>3 DEF ChainIntact, verify_chain
    <2>8. HeightsIncrease'
      <3> SUFFICES ASSUME NEW i \in 1..(n - 1), NEW j \in 1..(n - 1), i < j
                   PROVE  entries'[i].height < entries'[j].height
        BY <2>3 DEF HeightsIncrease
      <3>1. i \in 1..n /\ j \in 1..n /\ entries'[i] = entries[i] /\ entries'[j] = entries[j]
        BY <2>2, <2>3
      <3> QED
        BY <3>1 DEF HeightsIncrease, n
    <2>9. InFlight'
      <3> SUFFICES ASSUME NEW v \in Writers, pc'[v] # "idle"
                   PROVE  Occurs(held'[v], entries')
        BY <1>1, <1>3, <1>4 DEF InFlight
      <3> QED
        BY <1>1, <1>4, <2>5 DEF InFlight
    <2>10. IdsUnique'
      <3>1. {entries'[i] : i \in 1..Len(entries')} \subseteq {entries[i] : i \in 1..n}
        BY <2>2, <2>3
      <3>2. {entries'[i] : i \in 1..Len(entries')} \cup {log'[i] : i \in 1..Len(log')}
              \subseteq {entries[i] : i \in 1..n} \cup {log[i] : i \in 1..Len(log)}
        BY <3>1, <1>1
      <3>3. \A e, f \in {entries[i] : i \in 1..n} \cup {log[i] : i \in 1..Len(log)} :
               e.id < nextId /\ (e.id = f.id => e = f)
        BY DEF IdsUnique, n
      <3>4. \A e, f \in {entries'[i] : i \in 1..Len(entries')} \cup {log'[i] : i \in 1..Len(log')} :
               e.id < nextId /\ (e.id = f.id => e = f)
        BY <3>2, <3>3
      <3> QED
        BY <3>4, <1>1 DEF IdsUnique
    <2>11. AckedServed'
      BY <1>1, <1>2, <2>5 DEF AckedServed, Occurs
    <2> QED
      BY <1>5, <2>6, <2>7, <2>8, <2>9, <2>10, <2>11
  <1> QED
    BY <1>6, <1>7

\* A crash keeps a prefix of the log that reaches at least to what was flushed.
LEMMA CrashInv ==
  ASSUME IInv, Crash
  PROVE  IInv'
  <1> USE DEF IInv
  <1>1. PICK n \in flushed..Len(log) : log' = SubSeq(log, 1, n) /\ flushed' = n
    BY DEF Crash
  <1>2. /\ status' = "down" /\ entries' = <<>> /\ latest_hash' = GenesisHash
        /\ latest_block' = 0 /\ crashes' = crashes + 1
        /\ pc' = [v \in Writers |-> "idle"] /\ held' = [v \in Writers |-> NoEntry]
        /\ UNCHANGED <<acked, nextId>>
    BY DEF Crash
  <1>3. /\ n \in Nat /\ n <= Len(log) /\ Len(log) \in Nat
        /\ log' \in Seq(Entry) /\ Len(log') = n /\ \A i \in 1..n : log'[i] = log[i]
    BY <1>1 DEF TypeOK
  <1>4. TypeOK'
    BY <1>1, <1>2, <1>3, GenesisHashType DEF TypeOK
  <1>5. ChainIntact' /\ HeightsIncrease' /\ InFlight' /\ AckedServed'
    BY <1>2 DEF ChainIntact, HeightsIncrease, InFlight, AckedServed
  <1>6. LogWellFormed'
    BY <1>3 DEF LogWellFormed, verify
  <1>7. IdsUnique'
    <2>1. {entries'[i] : i \in 1..Len(entries')} \cup {log'[i] : i \in 1..Len(log')}
            \subseteq {log[i] : i \in 1..Len(log)}
      BY <1>2, <1>3
    <2> QED
      BY <2>1, <1>2 DEF IdsUnique
  <1>8. AckedDurable'
    <2> SUFFICES ASSUME NEW a \in acked
                 PROVE  a \in TreeAt(Len(log))'
      BY <1>1, <1>2, <1>3 DEF AckedDurable
    <2>1. a \in TreeAt(n)
      BY DEF AckedDurable
    <2>2. PICK i \in 1..n : log[i] = a /\ \A j \in (i + 1)..n : log[j].height # log[i].height
      BY <2>1 DEF TreeAt
    <2>3. log'[i] = a /\ \A j \in (i + 1)..n : log'[j].height # log'[i].height
      BY <2>2, <1>3
    <2> QED
      BY <2>2, <2>3, <1>3 DEF TreeAt
  <1> QED
    BY <1>4, <1>5, <1>6, <1>7, <1>8

\* A restart that verifies brings the durable entries back unchanged: a float
\* that JSON altered would contradict the entry's own hash.
LEMMA RestartInv ==
  ASSUME IInv, Restart
  PROVE  IInv'
  <1> USE DEF IInv
  <1> DEFINE T == TreeAt(Len(log))
  <1>1. /\ status \in {"down", "refused"}
        /\ UNCHANGED <<pc, held, log, flushed, acked, nextId, crashes>>
    BY DEF Restart
  <1>2. PICK s \in load_audit_entries :
          IF verify_chain(s)
          THEN /\ entries' = s
               /\ latest_hash' = TipHash(s)
               /\ latest_block' = TipHeight(s)
               /\ status' = "up"
          ELSE /\ status' = "refused"
               /\ UNCHANGED <<entries, latest_hash, latest_block>>
    BY DEF Restart
  <1>3. LogWellFormed' /\ AckedDurable'
    BY <1>1 DEF LogWellFormed, AckedDurable, TreeAt, verify
  <1>4. \A v \in Writers : pc[v] = "idle"
    BY <1>1 DEF InFlight
  <1>5. InFlight'
    BY <1>1, <1>4 DEF InFlight
  <1>6. CASE ~verify_chain(s)
    <2>1. status' = "refused" /\ UNCHANGED <<entries, latest_hash, latest_block>>
      BY <1>2, <1>6
    <2>2. TypeOK'
      BY <1>1, <2>1 DEF TypeOK
    <2>3. ChainIntact' /\ HeightsIncrease' /\ IdsUnique' /\ AckedServed'
      BY <1>1, <2>1 DEF ChainIntact, HeightsIncrease, IdsUnique, AckedServed
    <2> QED
      BY <1>3, <1>5, <2>2, <2>3
  <1>7. CASE verify_chain(s)
    <2>1. /\ entries' = s /\ latest_hash' = TipHash(s) /\ latest_block' = TipHeight(s)
          /\ status' = "up"
      BY <1>2, <1>7
    <2>2. PICK t \in SortedTree : s = [i \in 1..Len(t) |-> Reparsed(t[i])]
      BY DEF load_audit_entries
    <2>3. PICK n \in 0..Len(log) :
            /\ t \in [1..n -> T]
            /\ \A i, j \in 1..n : i < j => t[i].height < t[j].height
            /\ \A e \in T : \E i \in 1..n : t[i] = e
      BY DEF SortedTree
    <2>4. T \subseteq Entry /\ \A e \in T : \E i \in 1..Len(log) : log[i] = e
      BY DEF TreeAt, TypeOK
    <2>5. n \in Nat /\ Len(t) = n /\ s = [i \in 1..n |-> Reparsed(t[i])]
      <3>1. n \in Nat
        BY DEF TypeOK
      <3>2. t \in Seq(T)
        BY <2>3, <3>1
      <3>3. Len(t) = n
        BY <2>3, <3>1, <3>2
      <3> QED
        BY <3>1, <3>3, <2>2
    <2>6. Len(s) = n
      BY <2>5
    <2>7. \A i \in 1..n : s[i] = t[i] /\ s[i] \in Entry /\ s[i] \in T
      <3> TAKE i \in 1..n
      <3>1. t[i] \in T /\ t[i] \in Entry
        BY <2>3, <2>4
      <3>2. s[i] = [t[i] EXCEPT !.confidence = JsonRoundTrip[t[i].confidence]]
        BY <2>5 DEF Reparsed
      <3>3. /\ s[i].hash = t[i].hash
            /\ s[i].confidence = JsonRoundTrip[t[i].confidence]
        BY <3>1, <3>2 DEF Entry
      <3>4. verify(t[i])
        BY <3>1, <2>4 DEF LogWellFormed
      <3>5. verify(s[i])
        BY <1>7, <2>6 DEF verify_chain
      <3>6. JsonRoundTrip[t[i].confidence] = t[i].confidence
        BY <3>3, <3>4, <3>5, VerifiedHash
      <3>7. s[i] = [t[i] EXCEPT !.confidence = t[i].confidence]
        BY <3>2, <3>6
      <3>8. s[i] = t[i]
        BY <3>7, <3>1 DEF Entry
      <3> QED
        BY <3>1, <3>8
    <2>8. s \in Seq(Entry)
      <3>1. s \in [1..n -> Entry]
        BY <2>5, <2>7
      <3> QED
        BY <3>1, <2>5
    <2>9. TypeOK'
      BY <1>1, <2>1, <2>8, TipType DEF TypeOK
    <2>10. ChainIntact'
      <3>1. \A i \in 1..n : s[i].height = IF i = 1 THEN 1 ELSE s[i - 1].height + 1
        <4> TAKE i \in 1..n
        <4>1. s[i].height = s[i].previous_hash.height + 1
          BY <2>4, <2>7 DEF LogWellFormed
        <4>2. s[i].previous_hash = IF i = 1 THEN GenesisHash ELSE s[i - 1].hash
          BY <1>7, <2>6 DEF verify_chain
        <4>3. CASE i = 1
          BY <4>1, <4>2, <4>3 DEF GenesisHash
        <4>4. CASE i # 1
          <5>1. i - 1 \in 1..n
            BY <4>4, <2>5
          <5>2. verify(s[i - 1])
            BY <5>1, <1>7, <2>6 DEF verify_chain
          <5>3. s[i - 1].hash.height = s[i - 1].height
            BY <5>2, VerifiedHash
          <5> QED
            BY <4>1, <4>2, <4>4, <5>3
        <4> QED
          BY <4>3, <4>4
      <3> QED
        BY <3>1, <1>7, <2>1, <2>6 DEF ChainIntact
    <2>11. HeightsIncrease'
      BY <2>1, <2>3, <2>6, <2>7 DEF HeightsIncrease
    <2>12. IdsUnique'
      <3>1. {s[i] : i \in 1..n} \subseteq {log[i] : i \in 1..Len(log)}
        BY <2>4, <2>7
      <3>2. {entries'[i] : i \in 1..Len(entries')} \cup {log'[i] : i \in 1..Len(log')}
              = {log[i] : i \in 1..Len(log)}
        BY <3>1, <1>1, <2>1, <2>6
      <3> QED
        BY <3>2, <1>1 DEF IdsUnique
    <2>13. AckedServed'
      <3>1. acked \subseteq T
        BY DEF AckedDurable, TypeOK
      <3> QED
        BY <3>1, <1>1, <2>1, <2>3, <2>6, <2>7 DEF AckedServed
    <2> QED
      BY <1>3, <1>5, <2>9, <2>10, <2>11, <2>12, <2>13
  <1> QED
    BY <1>6, <1>7

\* Steps that leave every variable alone preserve the invariant.
LEMMA StutterInv == IInv /\ UNCHANGED vars => IInv'
  <1> SUFFICES ASSUME IInv, UNCHANGED vars PROVE IInv'
    OBVIOUS
  <1> USE DEF IInv, vars
  <1>1. TypeOK' /\ ChainIntact' /\ HeightsIncrease'
    BY DEF TypeOK, ChainIntact, HeightsIncrease
  <1>2. InFlight'
    BY DEF InFlight, TreeAt, Occurs
  <1>3. LogWellFormed' /\ IdsUnique'
    BY DEF LogWellFormed, IdsUnique
  <1>4. AckedDurable' /\ AckedServed'
    BY DEF AckedDurable, AckedServed, TreeAt
  <1> QED
    BY <1>1, <1>2, <1>3, <1>4

\* IInv is an invariant of the ledger: each step of a writer, of the store, a
\* crash and a restart preserve it.
THEOREM Invariance == Spec => []IInv
  <1>1. Init => IInv
    BY InitInv
  <1>2. IInv /\ [Next]_vars => IInv'
    <2> SUFFICES ASSUME IInv, [Next]_vars PROVE IInv'
      OBVIOUS
    <2>1. ASSUME NEW w \in Writers, WriterStep(w) PROVE IInv'
      BY <2>1, RecordInv, InsertInv, FlushInv, StoreErrorInv, RollbackInv DEF WriterStep
    <2>2. CASE BackgroundFlush
      BY <2>2, BackgroundFlushInv
    <2>3. CASE Crash
      BY <2>3, CrashInv
    <2>4. CASE Restart
      BY <2>4, RestartInv
    <2>5. CASE UNCHANGED vars
      BY <2>5, StutterInv
    <2> QED
      BY <2>1, <2>2, <2>3, <2>4, <2>5 DEF Next
  <1> QED
    BY <1>1, <1>2, PTL DEF Spec

\* The variables keep their types.
THEOREM TypeCorrect == Spec => []TypeOK
  <1>1. IInv => TypeOK
    BY DEF IInv
  <1> QED
    BY <1>1, Invariance, PTL

\* record_decision_with_metadata, rollback_latest and try_from_entries keep the
\* live chain verifiable, gap-free and in step with the cached tip.
THEOREM ChainAlwaysIntact == Spec => []ChainIntact
  <1>1. IInv => ChainIntact
    BY DEF IInv
  <1> QED
    BY <1>1, Invariance, PTL

\* An acknowledged audit entry is never lost from the durable tree: neither
\* overwritten by a later append_audit_entry nor dropped by a crash.
THEOREM AcknowledgedStaysDurable == Spec => []AckedDurable
  <1>1. IInv => AckedDurable
    BY DEF IInv
  <1> QED
    BY <1>1, Invariance, PTL

\* A node that is up serves every entry it ever acknowledged, unchanged.
THEOREM AcknowledgedStaysServed == Spec => []AckedServed
  <1>1. IInv => AckedServed
    BY DEF IInv
  <1> QED
    BY <1>1, Invariance, PTL

-----------------------------------------------------------------------------
(* The ledger implements the promise of AuditLog, step by step: each action of a *)
(* writer, of sled, a crash and a restart maps to one step of the abstract log   *)
(* or to none.  The mapping rests on the inductive invariant: a writer's         *)
(* unanswered entry is in the live chain and not acknowledged (so what a         *)
(* rollback pops was never promised), and after a restart the chain verifies and *)
(* holds everything acknowledged.                                                *)

\* A step that changes neither the chain, nor the promises, nor whether the
\* ledger serves leaves the abstract log alone.
LEMMA LogStutters ==
  ASSUME entries' = entries, acked' = acked, (status = "up")' = (status = "up")
  PROVE  UNCHANGED Promise!logVars
  BY DEF Promise!logVars

\* record_decision_with_metadata appends: the new entry's id is fresh, so it is not
\* among the promised ones.
LEMMA RecordAppends ==
  ASSUME IInv, IInv', NEW w \in Writers, Record(w)
  PROVE  Promise!LogAppend
  <1> USE DEF IInv
  <1> PICK c \in Floats :
        entries' = Append(entries, new_with_metadata(nextId, latest_block + 1, latest_hash, c))
    BY DEF Record
  <1> DEFINE e == new_with_metadata(nextId, latest_block + 1, latest_hash, c)
             n == Len(entries)
  <1>1. status = "up" /\ status' = "up" /\ acked' = acked
    BY DEF Record
  <1>2. e \in Entry /\ e.id = nextId
    <2>1. nextId \in Nat /\ latest_block + 1 \in Nat /\ latest_hash \in HashValue
      BY DEF TypeOK
    <2> QED
      BY <2>1, NewEntryType
  <1> HIDE DEF e
  <1>3. /\ entries' = Append(entries, e)
        /\ entries \in Seq(Entry) /\ n \in Nat /\ Len(entries') = n + 1
        /\ entries'[n + 1] = e
    BY <1>2 DEF TypeOK, e
  <1>4. SubSeq(entries', 1, n) = entries
    BY <1>2, <1>3
  <1>5. e \notin acked
    <2>1. \A a \in acked : a.id < nextId
      BY <1>1 DEF AckedServed, IdsUnique
    <2>2. nextId \in Nat
      BY DEF TypeOK
    <2> QED
      BY <1>2, <2>1, <2>2
  <1>6. verify_chain(entries')
    BY <1>1 DEF ChainIntact
  <1> QED
    BY <1>1, <1>3, <1>4, <1>5, <1>6 DEF Promise!LogAppend

\* A flush that succeeds promises an entry the chain serves.
LEMMA FlushAcknowledges ==
  ASSUME IInv, NEW w \in Writers, Flush(w)
  PROVE  Promise!LogAcknowledge
  <1>1. /\ pc[w] = "flush" /\ acked' = acked \cup {held[w]}
        /\ entries' = entries /\ status' = status
    BY DEF Flush
  <1>2. status = "up" /\ Occurs(held[w], entries)
    BY <1>1 DEF IInv, InFlight
  <1>3. PICK i \in 1..Len(entries) : entries[i] = held[w]
    BY <1>2 DEF Occurs
  <1> QED
    BY <1>1, <1>2, <1>3 DEF Promise!LogAcknowledge

\* rollback_latest withdraws the writer's own entry, which nobody was promised, or
\* leaves the chain alone.
LEMMA RollbackWithdraws ==
  ASSUME IInv, NEW w \in Writers, Rollback(w)
  PROVE  Promise!LogWithdraw \/ UNCHANGED Promise!logVars
  <1> DEFINE n == Len(entries)
  <1>1. pc[w] = "rollback" /\ acked' = acked /\ status' = status
    BY DEF Rollback
  <1>2. status = "up" /\ Occurs(held[w], entries) /\ held[w] \notin acked
    BY <1>1 DEF IInv, InFlight
  <1>3. CASE entries # <<>> /\ entries[n].id = held[w].id
    <2>1. entries' = SubSeq(entries, 1, n - 1)
      BY <1>3 DEF Rollback
    <2>2. n \in Nat /\ n >= 1
      BY <1>3 DEF IInv, TypeOK
    <2>3. entries[n] = held[w]
      <3>1. PICK i \in 1..n : entries[i] = held[w]
        BY <1>2 DEF Occurs
      <3>2. entries[i].id = entries[n].id
        BY <3>1, <1>3
      <3> QED
        BY <3>1, <3>2, <2>2 DEF IInv, IdsUnique
    <2> QED
      BY <1>1, <1>2, <1>3, <2>1, <2>3 DEF Promise!LogWithdraw
  <1>4. CASE ~(entries # <<>> /\ entries[n].id = held[w].id)
    <2>1. entries' = entries
      BY <1>4 DEF Rollback
    <2> QED
      BY <2>1, <1>1, LogStutters
  <1> QED
    BY <1>3, <1>4

\* A crash stops the log.
LEMMA CrashStops ==
  ASSUME Crash
  PROVE  Promise!LogStop
  BY DEF Crash, Promise!LogStop

\* A start that verifies brings a linked chain back with every promised entry in
\* it; one that is refused leaves the log stopped.
LEMMA RestartStarts ==
  ASSUME IInv, IInv', Restart
  PROVE  Promise!LogStart \/ UNCHANGED Promise!logVars
  <1>1. status # "up" /\ acked' = acked
    BY DEF Restart
  <1>2. CASE status' = "up"
    <2>1. verify_chain(entries')
      BY <1>2 DEF IInv, ChainIntact
    <2>2. \A e \in acked : \E i \in 1..Len(entries') : entries'[i] = e
      BY <1>1, <1>2 DEF IInv, AckedServed
    <2>3. \A e \in acked : Promise!In(e, entries')
      BY <2>2 DEF Promise!In
    <2> QED
      BY <1>1, <1>2, <2>1, <2>3 DEF Promise!LogStart
  <1>3. CASE status' # "up"
    <2>1. entries' = entries
      BY <1>3 DEF Restart
    <2> QED
      BY <2>1, <1>1, <1>3, LogStutters
  <1> QED
    BY <1>2, <1>3

\* Every step of the ledger is a step of the abstract log or leaves it alone.
LEMMA StepImplements ==
  ASSUME IInv, IInv', [Next]_vars
  PROVE  [Promise!LogNext]_(Promise!logVars)
  <1> USE DEF Promise!LogNext
  <1>1. ASSUME NEW w \in Writers, WriterStep(w)
        PROVE  [Promise!LogNext]_(Promise!logVars)
    <2>1. CASE Record(w)
      BY <2>1, RecordAppends
    <2>2. CASE Insert(w)
      BY <2>2, LogStutters DEF Insert
    <2>3. CASE Flush(w)
      BY <2>3, FlushAcknowledges
    <2>4. CASE StoreError(w)
      BY <2>4, LogStutters DEF StoreError
    <2>5. CASE Rollback(w)
      BY <2>5, RollbackWithdraws
    <2> QED
      BY <1>1, <2>1, <2>2, <2>3, <2>4, <2>5 DEF WriterStep
  <1>2. CASE BackgroundFlush
    BY <1>2, LogStutters DEF BackgroundFlush
  <1>3. CASE Crash
    BY <1>3, CrashStops
  <1>4. CASE Restart
    BY <1>4, RestartStarts
  <1>5. CASE UNCHANGED vars
    BY <1>5, LogStutters DEF vars
  <1> QED
    BY <1>1, <1>2, <1>3, <1>4, <1>5 DEF Next

\* The ledger implements the promise made to its callers: from the empty chain on,
\* it only ever appends, promises what it serves, withdraws what it never
\* promised, and restarts with every promised entry (record_decision_with_metadata,
\* append_audit_entry, rollback_latest, load_audit_entries).
THEOREM LedgerKeepsPromise == Spec => KeepsPromise
  <1>1. Init => Promise!LogInit
    BY DEF Init, Promise!LogInit
  <1>2. IInv /\ IInv' /\ [Next]_vars => [Promise!LogNext]_(Promise!logVars)
    BY StepImplements
  <1> QED
    BY <1>1, <1>2, Invariance, PTL DEF Spec, KeepsPromise, Promise!LogSpec

-----------------------------------------------------------------------------
(* Writers that take turns: Serial is inductive on top of IInv.  Its core is    *)
(* OneOnTop: any prefix of the log a crash may keep holds the settled chain and *)
(* at most one entry above it, at the height the next entry will take.          *)

\* An entry of the tree is an entry of the log, and the tree has one per height.
LEMMA TreeEntries ==
  ASSUME log \in Seq(Entry), LogWellFormed, NEW n \in 0..Len(log)
  PROVE  /\ \A e \in TreeAt(n) : /\ e \in Entry /\ e.height \in Nat
                                 /\ verify(e) /\ e.height = e.previous_hash.height + 1
                                 /\ \E i \in 1..Len(log) : log[i] = e
         /\ \A e, f \in TreeAt(n) : e.height = f.height => e = f
  <1>1. ASSUME NEW e \in TreeAt(n)
        PROVE  /\ e \in Entry /\ e.height \in Nat
               /\ verify(e) /\ e.height = e.previous_hash.height + 1
               /\ \E i \in 1..Len(log) : log[i] = e
    <2>1. PICK i \in 1..n : log[i] = e
      BY DEF TreeAt
    <2>2. i \in 1..Len(log)
      OBVIOUS
    <2>3. e \in Entry
      BY <2>1, <2>2
    <2> QED
      BY <2>1, <2>2, <2>3 DEF LogWellFormed, Entry
  <1>2. ASSUME NEW e \in TreeAt(n), NEW f \in TreeAt(n), e.height = f.height
        PROVE  e = f
    <2>1. PICK i \in 1..n : log[i] = e /\ \A j \in (i + 1)..n : log[j].height # log[i].height
      BY DEF TreeAt
    <2>2. PICK j \in 1..n : log[j] = f /\ \A k \in (j + 1)..n : log[k].height # log[j].height
      BY DEF TreeAt
    <2>3. ~(i < j) /\ ~(j < i)
      BY <1>2, <2>1, <2>2
    <2>4. i = j
      BY <2>3
    <2> QED
      BY <2>1, <2>2, <2>4
  <1> QED
    BY <1>1, <1>2

\* The tree after n inserts does not depend on the later ones.
LEMMA TreeOfPrefix ==
  ASSUME NEW n \in Nat, \A i \in 1..n : log'[i] = log[i]
  PROVE  TreeAt(n)' = TreeAt(n)
  <1>1. \A e : e \in TreeAt(n) <=>
               \E i \in 1..n : log[i] = e /\ \A j \in (i + 1)..n : log[j].height # log[i].height
    BY DEF TreeAt
  <1>2. \A e : e \in TreeAt(n)' <=>
               \E i \in 1..n : log'[i] = e /\ \A j \in (i + 1)..n : log'[j].height # log'[i].height
    BY DEF TreeAt
  <1>3. \A i \in 1..n : \A j \in (i + 1)..n : log'[j] = log[j] /\ log'[i] = log[i]
    OBVIOUS
  <1>4. ASSUME NEW e, e \in TreeAt(n) PROVE e \in TreeAt(n)'
    <2>1. PICK i \in 1..n : log[i] = e /\ \A j \in (i + 1)..n : log[j].height # log[i].height
      BY <1>1, <1>4
    <2>2. log'[i] = e /\ \A j \in (i + 1)..n : log'[j].height # log'[i].height
      BY <2>1, <1>3
    <2> QED
      BY <2>2, <1>2
  <1>5. ASSUME NEW e, e \in TreeAt(n)' PROVE e \in TreeAt(n)
    <2>1. PICK i \in 1..n : log'[i] = e /\ \A j \in (i + 1)..n : log'[j].height # log'[i].height
      BY <1>2, <1>5
    <2>2. log[i] = e /\ \A j \in (i + 1)..n : log[j].height # log[i].height
      BY <2>1, <1>3
    <2> QED
      BY <2>2, <1>1
  <1> QED
    BY <1>4, <1>5

\* What is settled: all but the entry of the writer whose turn it is.
LEMMA SettledIs ==
  ASSUME TypeOK, InFlight
  PROVE  /\ \A w \in Writers : pc[w] # "idle" => Settled = Len(entries) - 1 /\ Len(entries) >= 1
         /\ (\A w \in Writers : pc[w] = "idle") => Settled = Len(entries)
         /\ Settled \in Nat /\ Settled <= Len(entries)
  <1>1. Len(entries) \in Nat
    BY DEF TypeOK
  <1>2. ASSUME NEW w \in Writers, pc[w] # "idle"
        PROVE  Settled = Len(entries) - 1 /\ Len(entries) >= 1
    <2>1. Occurs(held[w], entries)
      BY <1>2 DEF InFlight
    <2> QED
      BY <1>1, <1>2, <2>1 DEF Settled, Occurs
  <1>3. ASSUME \A w \in Writers : pc[w] = "idle"
        PROVE  Settled = Len(entries)
    BY <1>3 DEF Settled
  <1> QED
    BY <1>1, <1>2, <1>3

\* The invariant links every tree that a crash may keep.
LEMMA OnTopLinked ==
  ASSUME IInv, OneOnTop, status = "up", NEW n \in flushed..Len(log)
  PROVE  \A e \in TreeAt(n) : \/ e.previous_hash = GenesisHash
                              \/ \E d \in TreeAt(n) : d.hash = e.previous_hash
  <1> SUFFICES ASSUME NEW e \in TreeAt(n)
               PROVE  \/ e.previous_hash = GenesisHash
                      \/ \E d \in TreeAt(n) : d.hash = e.previous_hash
    OBVIOUS
  <1>1. Settled \in Nat /\ Settled <= Len(entries) /\ Len(entries) \in Nat
    BY SettledIs DEF IInv, TypeOK
  <1>2. PICK k : k = Settled
    OBVIOUS
  <1>3. /\ \A i \in 1..k : entries[i] \in TreeAt(n)
        /\ \/ \E i \in 1..k : e = entries[i]
           \/ /\ e.height = k + 1
              /\ e.previous_hash = IF k = 0 THEN GenesisHash ELSE entries[k].hash
    BY <1>2 DEF OneOnTop
  <1>4. CASE \E i \in 1..k : e = entries[i]
    <2>1. PICK i \in 1..k : e = entries[i]
      BY <1>4
    <2>2. i \in 1..Len(entries)
      BY <1>1, <1>2
    <2>3. e.previous_hash = IF i = 1 THEN GenesisHash ELSE entries[i - 1].hash
      BY <2>1, <2>2 DEF IInv, ChainIntact, verify_chain
    <2>4. CASE i = 1
      BY <2>3, <2>4
    <2>5. CASE i # 1
      <3>1. i - 1 \in 1..k
        BY <2>5, <1>1, <1>2
      <3> QED
        BY <3>1, <2>3, <2>5, <1>3
    <2> QED
      BY <2>4, <2>5
  <1>5. CASE e.previous_hash = IF k = 0 THEN GenesisHash ELSE entries[k].hash
    <2>1. CASE k = 0
      BY <2>1, <1>5
    <2>2. CASE k # 0
      <3>1. k \in 1..k
        BY <2>2, <1>1, <1>2
      <3> QED
        BY <3>1, <2>2, <1>3, <1>5
    <2> QED
      BY <2>1, <2>2
  <1> QED
    BY <1>3, <1>4, <1>5

\* Recording on a settled chain: the tree does not change.
LEMMA RecordSerial ==
  ASSUME IInv, IInv', Serial, ~Disturbance', NEW w \in Writers, Record(w)
  PROVE  Serial'
  <1> DEFINE n == Len(entries)
  <1>1. PICK e : /\ entries' = Append(entries, e) /\ e.height = latest_block + 1
                 /\ held' = [held EXCEPT ![w] = e] /\ e \in Entry
    <2>1. PICK c \in Floats :
            LET e == new_with_metadata(nextId, latest_block + 1, latest_hash, c)
            IN  /\ entries' = Append(entries, e)
                /\ held' = [held EXCEPT ![w] = e]
      BY DEF Record
    <2>2. nextId \in Nat /\ latest_block + 1 \in Nat /\ latest_hash \in HashValue
      BY DEF IInv, TypeOK
    <2> QED
      BY <2>1, <2>2, NewEntryType
  <1>2. /\ status = "up" /\ pc[w] = "idle" /\ pc' = [pc EXCEPT ![w] = "insert"]
        /\ UNCHANGED <<log, flushed, status>>
    BY DEF Record
  <1>3. /\ entries \in Seq(Entry) /\ n \in Nat /\ Len(entries') = n + 1
        /\ \A i \in 1..n : entries'[i] = entries[i]
        /\ entries'[n + 1] = e
    BY <1>1 DEF IInv, TypeOK
  <1>4. /\ pc \in [Writers -> {"idle", "insert", "flush", "rollback"}]
        /\ held \in [Writers -> Entry \cup {NoEntry}]
        /\ pc'[w] = "insert" /\ held'[w] = e
    BY <1>1, <1>2 DEF IInv, TypeOK
  <1>5. /\ \A u, v \in Writers : pc'[u] # "idle" /\ pc'[v] # "idle" => u = v
        /\ \A i \in 1..Len(entries') : Stable(entries'[i])
    BY DEF Disturbance, Stable
  <1>6. \A v \in Writers : v # w => pc'[v] = "idle" /\ pc[v] = "idle"
    BY <1>2, <1>4, <1>5
  <1>7. \A v \in Writers : pc[v] = "idle"
    BY <1>2, <1>6
  <1>8. Settled = n /\ Settled' = n
    BY <1>3, <1>4, <1>7 DEF Settled
  <1>9. e.height = n + 1
    <2>1. latest_block = TipHeight(entries)
      BY <1>2 DEF IInv, ChainIntact
    <2>2. CASE n = 0
      BY <2>1, <2>2, <1>1, <1>3 DEF TipHeight
    <2>3. CASE n # 0
      <3>1. n \in 1..n /\ entries # <<>>
        BY <2>3, <1>3
      <3>2. entries[n].height = n
        BY <3>1 DEF Serial
      <3> QED
        BY <2>1, <3>1, <3>2, <1>1 DEF TipHeight
    <2> QED
      BY <2>2, <2>3
  <1>10. \A i \in 1..Len(entries') : entries'[i].height = i
    BY <1>3, <1>9 DEF Serial
  <1>11. OneOnTop'
    <2>1. OneOnTop
      BY <1>2 DEF Serial
    <2>2. ASSUME NEW k \in flushed..Len(log)
          PROVE  /\ \A i \in 1..n : entries'[i] \in TreeAt(k)
                 /\ \A f \in TreeAt(k) :
                      \/ \E i \in 1..n : f = entries'[i]
                      \/ /\ f.height = n + 1
                         /\ f.previous_hash = IF n = 0 THEN GenesisHash ELSE entries'[n].hash
      <3>1. \A i \in 1..n : entries[i] \in TreeAt(k)
        BY <2>1, <1>8 DEF OneOnTop
      <3>2. \A f \in TreeAt(k) :
                      \/ \E i \in 1..n : f = entries[i]
                      \/ /\ f.height = n + 1
                         /\ f.previous_hash = IF n = 0 THEN GenesisHash ELSE entries[n].hash
        BY <2>1, <1>8 DEF OneOnTop
      <3>3. n # 0 => n \in 1..n
        BY <1>3
      <3> HIDE DEF n
      <3> QED
        BY <3>1, <3>2, <3>3, <1>3
    <2>3. \A k : TreeAt(k)' = TreeAt(k)
      BY <1>2 DEF TreeAt
    <2> HIDE DEF n
    <2> QED
      BY <2>2, <2>3, <1>2, <1>8 DEF OneOnTop
  <1>12. \A v \in Writers : pc'[v] # "idle" => held'[v] = entries'[Len(entries')]
    BY <1>3, <1>4, <1>6
  <1> QED
    BY <1>2, <1>5, <1>10, <1>11, <1>12 DEF Serial, NeverRefused, Stable

\* Inserting puts the writer's entry on top of the settled chain, in place of one
\* that was given up.
LEMMA InsertSerial ==
  ASSUME IInv, IInv', Serial, NEW w \in Writers, Insert(w)
  PROVE  Serial'
  <1>1. /\ pc[w] = "insert" /\ log' = Append(log, held[w]) /\ pc' = [pc EXCEPT ![w] = "flush"]
        /\ UNCHANGED <<entries, held, flushed, status>>
    BY DEF Insert
  <1>2. PICK e : e = held[w]
    OBVIOUS
  <1>3. PICK n : n = Len(log)
    OBVIOUS
  <1>4. PICK m : m = Len(entries)
    OBVIOUS
  <1>5. status = "up" /\ e \in Entry /\ e = entries[m]
    BY <1>1, <1>2, <1>4 DEF IInv, InFlight, Serial
  <1>6. /\ log \in Seq(Entry) /\ n \in Nat /\ Len(log') = n + 1
        /\ \A i \in 1..n : log'[i] = log[i]
        /\ log'[n + 1] = e
    BY <1>1, <1>2, <1>3, <1>5 DEF IInv, TypeOK
  <1>7. m \in Nat /\ m >= 1 /\ Settled = m - 1
    BY <1>1, <1>4, SettledIs DEF IInv, TypeOK
  <1>8. pc'[w] = "flush" /\ \A v \in Writers : v # w => pc'[v] = pc[v]
    BY <1>1 DEF IInv, TypeOK
  <1>9. Settled' = m - 1
    BY <1>1, <1>4, <1>8 DEF Settled
  <1>10. /\ e.height = m
         /\ e.previous_hash = IF m - 1 = 0 THEN GenesisHash ELSE entries[m - 1].hash
         /\ Stable(e)
    <2>1. m \in 1..m
      BY <1>7
    <2>2. entries[m].previous_hash = IF m = 1 THEN GenesisHash ELSE entries[m - 1].hash
      BY <2>1, <1>4, <1>5 DEF IInv, ChainIntact, verify_chain
    <2> QED
      BY <2>1, <2>2, <1>4, <1>5, <1>7 DEF Serial
  <1>11. \A i \in 1..(m - 1) : entries[i].height = i /\ i # m
    BY <1>4, <1>7 DEF Serial
  <1>12. OneOnTop
    BY <1>5 DEF Serial
  <1>13. ASSUME NEW k \in flushed..(n + 1)
         PROVE  /\ \A i \in 1..(m - 1) : entries[i] \in TreeAt(k)'
                /\ \A f \in TreeAt(k)' :
                     \/ \E i \in 1..(m - 1) : f = entries[i]
                     \/ /\ f.height = m
                        /\ f.previous_hash = IF m - 1 = 0 THEN GenesisHash ELSE entries[m - 1].hash
    <2>0. flushed \in 0..n /\ n \in flushed..n
      BY <1>3, <1>6 DEF IInv, TypeOK
    <2>1. CASE k \in flushed..n
      <3>1. TreeAt(k)' = TreeAt(k)
        <4>1. k \in Nat /\ \A i \in 1..k : log'[i] = log[i]
          BY <2>0, <2>1, <1>6
        <4> QED
          BY <4>1, TreeOfPrefix
      <3>2. /\ \A i \in 1..(m - 1) : entries[i] \in TreeAt(k)
            /\ \A f \in TreeAt(k) :
                     \/ \E i \in 1..(m - 1) : f = entries[i]
                     \/ /\ f.height = m
                        /\ f.previous_hash = IF m - 1 = 0 THEN GenesisHash ELSE entries[m - 1].hash
        BY <2>1, <1>3, <1>7, <1>12 DEF OneOnTop
      <3> QED
        BY <3>1, <3>2
    <2>2. CASE k = n + 1
      <3>1. /\ \A i \in 1..(m - 1) : entries[i] \in TreeAt(n)
            /\ \A f \in TreeAt(n) :
                     \/ \E i \in 1..(m - 1) : f = entries[i]
                     \/ /\ f.height = m
                        /\ f.previous_hash = IF m - 1 = 0 THEN GenesisHash ELSE entries[m - 1].hash
        BY <2>0, <1>3, <1>7, <1>12 DEF OneOnTop
      <3>2. ASSUME NEW f, f \in TreeAt(n), f.height # m PROVE f \in TreeAt(k)'
        <4>1. PICK i \in 1..n : log[i] = f /\ \A j \in (i + 1)..n : log[j].height # log[i].height
          BY <3>2 DEF TreeAt
        <4>2. i \in 1..(n + 1) /\ log'[i] = f
          BY <4>1, <1>6
        <4>3. ASSUME NEW j \in (i + 1)..(n + 1) PROVE log'[j].height # log'[i].height
          <5>1. CASE j = n + 1
            BY <5>1, <3>2, <4>2, <1>6, <1>10
          <5>2. CASE j \in (i + 1)..n
            BY <5>2, <4>1, <4>2, <1>6
          <5> QED
            BY <5>1, <5>2, <1>6
        <4> QED
          BY <2>2, <4>2, <4>3 DEF TreeAt
      <3>3. ASSUME NEW f \in TreeAt(k)' PROVE f = e \/ f \in TreeAt(n)
        <4>1. PICK i \in 1..(n + 1) :
                log'[i] = f /\ \A j \in (i + 1)..(n + 1) : log'[j].height # log'[i].height
          BY <2>2 DEF TreeAt
        <4>2. CASE i = n + 1
          BY <4>1, <4>2, <1>6
        <4>3. CASE i \in 1..n
          <5>1. log[i] = f /\ \A j \in (i + 1)..n : log[j].height # log[i].height
            BY <4>1, <4>3, <1>6
          <5> QED
            BY <5>1, <4>3 DEF TreeAt
        <4> QED
          BY <4>2, <4>3, <1>6
      <3>4. \A i \in 1..(m - 1) : entries[i] \in TreeAt(k)'
        BY <3>1, <3>2, <1>11
      <3> QED
        BY <3>1, <3>3, <3>4, <1>10
    <2> QED
      BY <2>0, <2>1, <2>2, <1>6
  <1>14. OneOnTop'
    <2>1. (m - 1) + 1 = m
      BY <1>7
    <2> QED
      BY <2>1, <1>13, <1>1, <1>6, <1>9 DEF OneOnTop
  <1>15. \A i \in 1..Len(log') : Stable(log'[i])
    BY <1>3, <1>6, <1>10 DEF Serial, Stable
  <1>16. /\ \A u, v \in Writers : pc'[u] # "idle" /\ pc'[v] # "idle" => u = v
         /\ \A v \in Writers : pc'[v] # "idle" => held'[v] = entries'[Len(entries')]
    BY <1>1, <1>8 DEF Serial
  <1> QED
    BY <1>1, <1>5, <1>14, <1>15, <1>16 DEF Serial, NeverRefused, Stable

\* A flush settles the entry on top.
LEMMA FlushSerial ==
  ASSUME IInv, IInv', Serial, NEW w \in Writers, Flush(w)
  PROVE  Serial'
  <1>1. /\ pc[w] = "flush" /\ flushed' = Len(log) /\ pc' = [pc EXCEPT ![w] = "idle"]
        /\ UNCHANGED <<entries, log, status>>
    BY DEF Flush
  <1>2. PICK m : m = Len(entries)
    OBVIOUS
  <1>3. PICK n : n = Len(log)
    OBVIOUS
  <1>4. status = "up" /\ held[w] = entries[m] /\ held[w] \in TreeAt(n)
    BY <1>1, <1>2, <1>3 DEF IInv, InFlight, Serial
  <1>5. m \in Nat /\ m >= 1 /\ Settled = m - 1
    BY <1>1, <1>2, SettledIs DEF IInv, TypeOK
  <1>6. \A v \in Writers : pc'[v] = "idle"
    <2>1. \A v \in Writers : v # w => pc[v] = "idle"
      BY <1>1 DEF Serial
    <2> QED
      BY <2>1, <1>1 DEF IInv, TypeOK
  <1>7. Settled' = m
    BY <1>1, <1>2, <1>6 DEF Settled
  <1>8. n \in Nat /\ n \in flushed..n /\ flushed \in Nat
    BY <1>3 DEF IInv, TypeOK
  <1>9. OneOnTop
    BY <1>4 DEF Serial
  <1>10. /\ \A i \in 1..(m - 1) : entries[i] \in TreeAt(n)
         /\ \A f \in TreeAt(n) :
              (\E i \in 1..(m - 1) : f = entries[i]) \/ f.height = m
    <2>1. (m - 1) + 1 = m
      BY <1>5
    <2> QED
      BY <2>1, <1>3, <1>5, <1>8, <1>9 DEF OneOnTop
  <1>11. entries[m].height = m
    BY <1>2, <1>5 DEF Serial
  <1>12. \A e, f \in TreeAt(n) : e.height = f.height => e = f
    <2>1. n \in 0..Len(log) /\ log \in Seq(Entry) /\ LogWellFormed
      BY <1>3, <1>8 DEF IInv, TypeOK
    <2> QED
      BY <2>1, TreeEntries
  <1>13. \A i \in 1..m : entries[i] \in TreeAt(n)
    <2>1. \A i \in 1..m : i = m \/ i \in 1..(m - 1)
      BY <1>5
    <2> QED
      BY <2>1, <1>4, <1>10
  <1>14. \A f \in TreeAt(n) : \E i \in 1..m : f = entries[i]
    <2>1. m \in 1..m /\ \A i \in 1..(m - 1) : i \in 1..m
      BY <1>5
    <2> QED
      BY <2>1, <1>4, <1>10, <1>11, <1>12
  <1>15. TreeAt(n)' = TreeAt(n)
    BY <1>1 DEF TreeAt
  <1>16. OneOnTop'
    <2>1. ASSUME NEW k \in flushed'..Len(log') PROVE k = n
      BY <1>1, <1>3, <1>8
    <2> QED
      BY <2>1, <1>1, <1>7, <1>13, <1>14, <1>15 DEF OneOnTop
  <1> QED
    BY <1>1, <1>4, <1>6, <1>16 DEF Serial, NeverRefused, Stable

\* A step that changes neither the chain nor the tree, and moves no writer from or
\* to its turn, leaves the invariant alone.
LEMMA QuietSerial ==
  ASSUME IInv, IInv', Serial, status = "up", status' = "up",
         UNCHANGED <<entries, held, log>>, flushed' \in flushed..Len(log),
         \A v \in Writers : (pc'[v] = "idle") <=> (pc[v] = "idle")
  PROVE  Serial'
  <1>1. Settled' = Settled
    BY DEF Settled
  <1>2. \A k : TreeAt(k)' = TreeAt(k)
    BY DEF TreeAt
  <1>3. flushed'..Len(log') \subseteq flushed..Len(log)
    BY DEF IInv, TypeOK
  <1>4. OneOnTop
    BY DEF Serial
  <1>5. OneOnTop'
    BY <1>1, <1>2, <1>3, <1>4 DEF OneOnTop
  <1> QED
    BY <1>5 DEF Serial, NeverRefused, Stable

\* rollback_latest withdraws the entry on top of the settled chain.
LEMMA RollbackSerial ==
  ASSUME IInv, IInv', Serial, NEW w \in Writers, Rollback(w)
  PROVE  Serial'
  <1>1. /\ pc[w] = "rollback" /\ pc' = [pc EXCEPT ![w] = "idle"]
        /\ UNCHANGED <<log, flushed, status>>
    BY DEF Rollback
  <1>2. PICK m : m = Len(entries)
    OBVIOUS
  <1>3. status = "up" /\ held[w] = entries[m]
    BY <1>1, <1>2 DEF IInv, InFlight, Serial
  <1>4. m \in Nat /\ m >= 1 /\ Settled = m - 1
    BY <1>1, <1>2, SettledIs DEF IInv, TypeOK
  <1>5. entries' = SubSeq(entries, 1, m - 1)
    <2>1. entries # <<>>
      BY <1>2, <1>4
    <2> QED
      BY <2>1, <1>2, <1>3 DEF Rollback
  <1>6. Len(entries') = m - 1 /\ \A i \in 1..(m - 1) : entries'[i] = entries[i]
    BY <1>2, <1>4, <1>5 DEF IInv, TypeOK
  <1>7. \A v \in Writers : pc'[v] = "idle"
    BY <1>1 DEF IInv, TypeOK, Serial
  <1>8. Settled' = m - 1
    BY <1>6, <1>7 DEF Settled
  <1>9. \A k : TreeAt(k)' = TreeAt(k)
    BY <1>1 DEF TreeAt
  <1>10. OneOnTop
    BY <1>3 DEF Serial
  <1>11. m - 1 # 0 => entries'[m - 1] = entries[m - 1]
    BY <1>4, <1>6
  <1>12. OneOnTop'
    <2>1. PICK k : k = m - 1
      OBVIOUS
    <2>2. Settled = k /\ Settled' = k /\ (k # 0 => entries'[k] = entries[k])
      BY <2>1, <1>4, <1>8, <1>11
    <2>3. \A i \in 1..k : entries'[i] = entries[i]
      BY <2>1, <1>6
    <2> QED
      BY <2>2, <2>3, <1>1, <1>9, <1>10 DEF OneOnTop
  <1>13. \A i \in 1..Len(entries') : entries'[i].height = i /\ Stable(entries'[i])
    BY <1>2, <1>4, <1>6 DEF Serial, Stable
  <1> QED
    BY <1>1, <1>3, <1>7, <1>12, <1>13 DEF Serial, NeverRefused, Stable

\* Whatever a crash keeps of the log is linked.
LEMMA CrashSerial ==
  ASSUME IInv, IInv', Serial, Crash
  PROVE  Serial'
  <1>1. PICK n \in flushed..Len(log) : log' = SubSeq(log, 1, n) /\ flushed' = n
    BY DEF Crash
  <1>2. /\ status = "up" /\ status' = "down" /\ entries' = <<>>
        /\ pc' = [v \in Writers |-> "idle"]
    BY DEF Crash
  <1>3. /\ n \in Nat /\ n <= Len(log) /\ Len(log) \in Nat
        /\ Len(log') = n /\ \A i \in 1..n : log'[i] = log[i]
    BY <1>1 DEF IInv, TypeOK
  <1>4. TreeAt(Len(log))' = TreeAt(n)
    <2>1. TreeAt(n)' = TreeAt(n)
      BY <1>3, TreeOfPrefix
    <2>2. TreeAt(Len(log))' = TreeAt(n)'
      BY <1>3 DEF TreeAt
    <2> QED
      BY <2>1, <2>2
  <1>5. TreeLinked'
    <2>1. \A e \in TreeAt(n) : \/ e.previous_hash = GenesisHash
                               \/ \E d \in TreeAt(n) : d.hash = e.previous_hash
      BY <1>2, OnTopLinked DEF Serial
    <2> QED
      BY <2>1, <1>4 DEF TreeLinked
  <1>6. \A i \in 1..Len(log') : Stable(log'[i])
    BY <1>3 DEF Serial, Stable
  <1> QED
    BY <1>1, <1>2, <1>3, <1>5, <1>6 DEF Serial, NeverRefused

\* A linked tree in height order is numbered from one on: an entry's predecessor is
\* in the tree, at the height just below.
LEMMA TreeNumbered ==
  ASSUME IInv, TreeLinked, NEW m \in Nat, NEW t \in [1..m -> TreeAt(Len(log))],
         \A i, j \in 1..m : i < j => t[i].height < t[j].height,
         \A e \in TreeAt(Len(log)) : \E i \in 1..m : t[i] = e
  PROVE  /\ \A i \in 1..m : t[i].height = i
         /\ \A i \in 1..m : t[i].previous_hash = IF i = 1 THEN GenesisHash ELSE t[i - 1].hash
  <1>T. PICK T : T = TreeAt(Len(log))
    OBVIOUS
  <1>1. /\ \A e \in T : e.height \in Nat /\ verify(e) /\ e.height = e.previous_hash.height + 1
        /\ \A e \in T : \/ e.previous_hash = GenesisHash
                        \/ \E d \in T : d.hash = e.previous_hash
    <2>1. Len(log) \in 0..Len(log) /\ log \in Seq(Entry)
      BY DEF IInv, TypeOK
    <2>2. \A e \in TreeAt(Len(log)) :
             e.height \in Nat /\ verify(e) /\ e.height = e.previous_hash.height + 1
      BY <2>1, TreeEntries DEF IInv
    <2> QED
      BY <2>2, <1>T DEF TreeLinked
  <1>2. \A i \in 1..m : t[i] \in T /\ t[i].height \in Nat
    BY <1>1, <1>T
  <1>3. ASSUME NEW i \in 1..m
        PROVE  \/ t[i].previous_hash = GenesisHash /\ t[i].height = 1
               \/ \E j \in 1..m : /\ t[j].hash = t[i].previous_hash
                                  /\ t[i].height = t[j].height + 1
    <2>1. CASE t[i].previous_hash = GenesisHash
      BY <2>1, <1>1, <1>2 DEF GenesisHash
    <2>2. CASE t[i].previous_hash # GenesisHash
      <3>1. PICK d \in T : d.hash = t[i].previous_hash
        BY <2>2, <1>1, <1>2
      <3>2. PICK j \in 1..m : t[j] = d
        BY <1>T
      <3>3. d.hash.height = d.height
        BY <1>1, VerifiedHash
      <3>4. t[i].height = t[i].previous_hash.height + 1
        BY <1>1, <1>2
      <3>5. t[j].hash = t[i].previous_hash /\ t[i].height = t[j].height + 1
        BY ONLY <3>1, <3>2, <3>3, <3>4
      <3> QED
        BY ONLY j \in 1..m, <3>5
    <2> QED
      BY <2>1, <2>2
  <1>4. \A i, j \in 1..m : t[i].height = t[j].height + 1 => j < i
    BY <1>2
  <1>5. \A i \in 1..m : t[i].height = i
    <2> SUFFICES ASSUME NEW b \in 1..m, t[b].height # b PROVE FALSE
      OBVIOUS
    <2>1. PICK S : S = {i \in 1..m : t[i].height # i}
      OBVIOUS
    <2>2. PICK i \in S : \A k \in S : i <= k
      <3>1. b \in S /\ S \subseteq Nat
        BY <2>1
      <3> QED
        BY <3>1, LeastOf
    <2>3. i \in 1..m /\ t[i].height # i /\ \A k \in 1..(i - 1) : t[k].height = k
      BY <2>1, <2>2
    <2>4. t[i].height > i - 1
      <3>1. CASE i = 1
        BY <3>1, <1>3, <1>2
      <3>2. CASE i # 1
        <4>1. i - 1 \in 1..m /\ i - 1 < i /\ t[i - 1].height = i - 1
          BY <3>2, <2>3
        <4> QED
          BY <4>1, <2>3, <1>2
      <3> QED
        BY <3>1, <3>2
    <2>5. t[i].height > i
      BY <2>3, <2>4, <1>2
    <2>6. CASE t[i].height = 1
      BY <2>3, <2>5, <2>6
    <2>7. CASE t[i].height # 1
      <3>1. PICK j \in 1..m : t[i].height = t[j].height + 1
        BY <2>7, <2>3, <1>3
      <3>2. j < i
        BY <3>1, <2>3, <1>4
      <3>3. j \in 1..(i - 1)
        BY <3>2, <2>3
      <3>4. t[j].height = j
        BY <3>3, <2>3
      <3> QED
        BY <3>1, <3>2, <3>4, <2>3, <2>5, <1>2
    <2> QED
      BY <2>6, <2>7
  <1>6. ASSUME NEW i \in 1..m
        PROVE  t[i].previous_hash = IF i = 1 THEN GenesisHash ELSE t[i - 1].hash
    <2>1. CASE i = 1
      <3>1. ~ \E j \in 1..m : t[i].height = t[j].height + 1
        BY <2>1, <1>5
      <3> QED
        BY <2>1, <3>1, <1>3
    <2>2. CASE i # 1
      <3>1. t[i].height # 1
        BY <2>2, <1>5
      <3>2. PICK j \in 1..m : t[j].hash = t[i].previous_hash /\ t[i].height = t[j].height + 1
        BY <3>1, <1>3
      <3>3. j = i - 1
        BY <3>2, <1>5
      <3> QED
        BY <2>2, <3>2, <3>3
    <2> QED
      BY <2>1, <2>2
  <1> QED
    BY <1>5, <1>6

\* A start from a linked tree of stable entries is never refused: the tree in
\* height order is the chain.
LEMMA RestartSerial ==
  ASSUME IInv, IInv', Serial, Restart
  PROVE  Serial'
  <1>1. /\ status = "down" /\ UNCHANGED <<pc, held, log, flushed>>
    BY DEF Restart, Serial, NeverRefused
  <1>2. PICK s \in load_audit_entries :
          IF verify_chain(s)
          THEN entries' = s /\ status' = "up"
          ELSE status' = "refused"
    BY DEF Restart
  <1>3. PICK t \in SortedTree : s = [i \in 1..Len(t) |-> Reparsed(t[i])]
    BY DEF load_audit_entries
  <1>4. PICK m \in 0..Len(log) :
          /\ t \in [1..m -> TreeAt(Len(log))]
          /\ \A i, j \in 1..m : i < j => t[i].height < t[j].height
          /\ \A e \in TreeAt(Len(log)) : \E i \in 1..m : t[i] = e
    BY DEF SortedTree
  <1>5. m \in Nat /\ Len(log) \in 0..Len(log) /\ log \in Seq(Entry)
    BY DEF IInv, TypeOK
  <1>6. \A e \in TreeAt(Len(log)) : e \in Entry /\ verify(e) /\ Stable(e)
    <2>1. \A e \in TreeAt(Len(log)) :
             e \in Entry /\ verify(e) /\ \E i \in 1..Len(log) : log[i] = e
      BY <1>5, TreeEntries DEF IInv
    <2> QED
      BY <2>1 DEF Serial
  <1>7. Len(t) = m
    BY <1>4, <1>5
  <1>8. ASSUME NEW i \in 1..m PROVE s[i] = t[i] /\ t[i] \in Entry
    <2>1. t[i] \in TreeAt(Len(log))
      BY <1>4
    <2>2. t[i] \in Entry /\ JsonRoundTrip[t[i].confidence] = t[i].confidence
      BY <2>1, <1>6 DEF Stable
    <2>3. s[i] = [t[i] EXCEPT !.confidence = JsonRoundTrip[t[i].confidence]]
      BY <1>3, <1>7 DEF Reparsed
    <2>4. s[i] = [t[i] EXCEPT !.confidence = t[i].confidence]
      BY <2>2, <2>3
    <2> QED
      BY <2>2, <2>4 DEF Entry
  <1>9. Len(s) = m
    BY <1>3, <1>5, <1>7
  <1>10. /\ \A i \in 1..m : t[i].height = i
         /\ \A i \in 1..m : t[i].previous_hash = IF i = 1 THEN GenesisHash ELSE t[i - 1].hash
    <2>1. TreeLinked
      BY <1>1 DEF Serial
    <2> QED
      BY <2>1, <1>4, <1>5, TreeNumbered
  <1>11. verify_chain(s)
    <2> SUFFICES ASSUME NEW i \in 1..m
                 PROVE  /\ s[i].previous_hash = IF i = 1 THEN GenesisHash ELSE s[i - 1].hash
                        /\ verify(s[i])
      BY <1>9 DEF verify_chain
    <2>1. i # 1 => i - 1 \in 1..m
      BY <1>5
    <2>2. verify(t[i])
      BY <1>4, <1>6
    <2>3. s[i] = t[i] /\ (i # 1 => s[i - 1] = t[i - 1])
      BY <2>1, <1>8
    <2> QED
      BY <2>2, <2>3, <1>10
  <1>12. entries' = s /\ status' = "up"
    BY <1>2, <1>11
  <1>13. \A v \in Writers : pc[v] = "idle" /\ pc'[v] = "idle"
    BY <1>1 DEF IInv, InFlight
  <1>14. Settled' = m
    BY <1>9, <1>12, <1>13 DEF Settled
  <1>15. \A i \in 1..Len(entries') : entries'[i].height = i /\ Stable(entries'[i])
    <2>1. \A i \in 1..m : Stable(t[i])
      BY <1>4, <1>6
    <2> QED
      BY <2>1, <1>8, <1>9, <1>10, <1>12 DEF Stable
  <1>16. TreeAt(Len(log))' = TreeAt(Len(log))
    BY <1>1 DEF TreeAt
  <1>17. OneOnTop'
    <2>1. ASSUME NEW k \in flushed'..Len(log') PROVE k = Len(log)
      <3>1. flushed = Len(log)
        BY <1>1 DEF Serial
      <3> QED
        BY <3>1, <1>1, <1>5
    <2>2. \A i \in 1..m : entries'[i] \in TreeAt(Len(log))
      BY <1>4, <1>8, <1>12
    <2>3. \A e \in TreeAt(Len(log)) : \E i \in 1..m : e = entries'[i]
      BY <1>4, <1>8, <1>12
    <2> QED
      BY <2>1, <2>2, <2>3, <1>1, <1>14, <1>16 DEF OneOnTop
  <1> QED
    BY <1>1, <1>12, <1>13, <1>15, <1>17 DEF Serial, NeverRefused, Stable

\* A step of the ledger without a disturbance keeps the serial invariant.
LEMMA StepSerial ==
  ASSUME IInv, IInv', SerialInv, [SerialNext]_<<vars, disturbed>>
  PROVE  SerialInv'
  <1> SUFFICES ASSUME ~disturbed' PROVE Serial'
    BY DEF SerialInv
  <1>1. CASE SerialNext
    <2>1. Next /\ ~disturbed /\ ~Disturbance'
      BY <1>1 DEF SerialNext
    <2>2. Serial
      BY <2>1 DEF SerialInv
    <2>3. ASSUME NEW w \in Writers, WriterStep(w) PROVE Serial'
      <3>1. CASE Record(w)
        BY <3>1, <2>1, <2>2, RecordSerial
      <3>2. CASE Insert(w)
        BY <3>2, <2>2, InsertSerial
      <3>3. CASE Flush(w)
        BY <3>3, <2>2, FlushSerial
      <3>4. CASE StoreError(w)
        <4>1. /\ pc[w] # "idle" /\ pc' = [pc EXCEPT ![w] = "rollback"]
              /\ UNCHANGED <<entries, held, log, flushed, status>>
          BY <3>4 DEF StoreError
        <4>2. status = "up" /\ flushed' \in flushed..Len(log)
          BY <4>1 DEF IInv, InFlight, TypeOK
        <4>3. \A v \in Writers : (pc'[v] = "idle") <=> (pc[v] = "idle")
          BY <4>1 DEF IInv, TypeOK
        <4> QED
          BY <4>1, <4>2, <4>3, <2>2, QuietSerial
      <3>5. CASE Rollback(w)
        BY <3>5, <2>2, RollbackSerial
      <3> QED
        BY <2>3, <3>1, <3>2, <3>3, <3>4, <3>5 DEF WriterStep
    <2>4. CASE BackgroundFlush
      <3>1. status = "up" /\ UNCHANGED <<entries, held, log, status, pc>>
        BY <2>4 DEF BackgroundFlush
      <3>2. flushed' \in flushed..Len(log)
        BY <2>4 DEF BackgroundFlush, IInv, TypeOK
      <3> QED
        BY <3>1, <3>2, <2>2, QuietSerial
    <2>5. CASE Crash
      BY <2>5, <2>2, CrashSerial
    <2>6. CASE Restart
      BY <2>6, <2>2, RestartSerial
    <2> QED
      BY <2>1, <2>3, <2>4, <2>5, <2>6 DEF Next
  <1>2. CASE UNCHANGED <<vars, disturbed>>
    <2>1. Serial /\ UNCHANGED vars
      BY <1>2 DEF SerialInv
    <2>2. /\ Settled' = Settled /\ \A k : TreeAt(k)' = TreeAt(k)
          /\ UNCHANGED <<entries, pc, held, log, flushed, status>>
      BY <2>1 DEF vars, Settled, TreeAt
    <2>3. (OneOnTop => OneOnTop') /\ (TreeLinked => TreeLinked')
      BY <2>2 DEF OneOnTop, TreeLinked
    <2> QED
      BY <2>1, <2>2, <2>3 DEF Serial, NeverRefused, Stable
  <1> QED
    BY <1>1, <1>2

\* While the writers of POST /api/v1/audit/record take turns and JSON keeps their
\* floats, the node always starts from its own audit log, and the tree holds the
\* live chain between requests: whatever insert or flush fails, whatever
\* rollback_latest withdraws and wherever the process stops.
THEOREM SerialAlwaysRecovers == SerialSpec => []SerialRecovers
  <1>1. SerialSpec => []IInv
    <2>1. SerialInit => Init
      BY DEF SerialInit
    <2>2. [SerialNext]_<<vars, disturbed>> => [Next]_vars
      BY DEF SerialNext
    <2> QED
      BY <2>1, <2>2, Invariance, PTL DEF SerialSpec, Spec
  <1>2. SerialInit => SerialInv
    BY DEF SerialInit, Init, SerialInv, Serial, OneOnTop, Settled, TreeAt, NeverRefused
  <1>3. IInv /\ IInv' /\ SerialInv /\ [SerialNext]_<<vars, disturbed>> => SerialInv'
    BY StepSerial
  <1>4. IInv /\ SerialInv => SerialRecovers
    <2> SUFFICES ASSUME IInv, Serial PROVE NeverRefused /\ QuiescentDurable
      BY DEF SerialInv, SerialRecovers
    <2>1. ASSUME status = "up", \A w \in Writers : pc[w] = "idle"
          PROVE  \A i \in 1..Len(entries) : entries[i] \in TreeAt(Len(log))
      <3>1. Settled = Len(entries) /\ OneOnTop
        BY <2>1 DEF Settled, Serial
      <3>2. Len(log) \in flushed..Len(log)
        BY DEF IInv, TypeOK
      <3> QED
        BY <3>1, <3>2 DEF OneOnTop
    <2> QED
      BY <2>1 DEF Serial, QuiescentDurable
  <1> QED
    BY <1>1, <1>2, <1>3, <1>4, PTL DEF SerialSpec


-----------------------------------------------------------------------------
(* Entries, and the two forms in which a log is stored.                    *)

IsEntry(e) ==
    e = [height |-> e.height, body |-> e.body, context |-> e.context,
         metadata |-> e.metadata, previous |-> e.previous, lane |-> e.lane,
         hash |-> e.hash]

\* e carries the decision d.
Holds(e, d) == e.body = d.body /\ e.context = d.context /\ e.metadata = d.metadata

Link(s, k) == IF k = 1 THEN GenesisLink ELSE s[k - 1].hash

Placed(s, k) == IsEntry(s[k]) /\ s[k].height = k /\ s[k].previous = Link(s, k)

\* An entry of a version without lanes, and one of this version.
LegacyForm(e) == e.lane = "missing" /\ e.hash = compute_legacy_pre_lane_hash(e)

CurrentForm(e) == e.lane = from_context(e.context, e.metadata) /\ lane_verify(e)

\* The first n entries of s are a log of either version, or of this one.
OldLog(s, n) ==
    \A k \in 1..n : Placed(s, k) /\ (LegacyForm(s[k]) \/ CurrentForm(s[k]))

NewLog(s, n) == \A k \in 1..n : Placed(s, k) /\ CurrentForm(s[k])

Carries(s, h, n) == \A k \in 1..n : Holds(s[k], h[k])

LEMMA LaneIs ==
    ASSUME NEW c, NEW m
    PROVE  from_context(c, m) \in Lanes /\ from_context(c, m) # "missing"
<1>1. ASSUME NEW w PROVE normalize_audit_lane(w) \in Lanes
    BY DEF normalize_audit_lane, Lanes
<1>2. from_context(c, m) \in Lanes
    BY <1>1 DEF from_context
<1>3. QED
    BY <1>2 DEF Lanes

\* What a hash says of the entry it was computed of.
LEMMA HashParts ==
    ASSUME NEW e
    PROVE  /\ compute_legacy_pre_lane_hash(e)[3] = e.body
           /\ compute_lane_hash(e)[3] = e.body
           /\ compute_legacy_pre_lane_hash(e) # GenesisLink
           /\ compute_lane_hash(e) # GenesisLink
<1>1. compute_legacy_pre_lane_hash(e)[1] = "legacy" /\ compute_lane_hash(e)[1] = "current"
    BY DEF compute_legacy_pre_lane_hash, compute_lane_hash
<1>2. GenesisLink[1] = "genesis"
    BY DEF GenesisLink
<1>3. QED
    BY <1>1, <1>2 DEF compute_legacy_pre_lane_hash, compute_lane_hash

LEMMA StampedIs ==
    ASSUME NEW e, IsEntry(e)
    PROVE  /\ IsEntry(Stamped(e)) /\ Stamped(e).height = e.height
           /\ Stamped(e).previous = e.previous /\ Stamped(e).lane = e.lane
           /\ Holds(Stamped(e), e) /\ lane_verify(Stamped(e))
<1>1. PICK x : x = compute_lane_hash(e)
    OBVIOUS
<1>2. PICK f : f = Stamped(e)
    OBVIOUS
<1>3. f = [height |-> e.height, body |-> e.body, context |-> e.context,
           metadata |-> e.metadata, previous |-> e.previous, lane |-> e.lane,
           hash |-> x]
    BY <1>1, <1>2 DEF Stamped, IsEntry
<1>4. compute_lane_hash(f) = x
    BY <1>1, <1>3 DEF compute_lane_hash
<1>5. /\ IsEntry(f) /\ f.height = e.height
      /\ f.previous = e.previous /\ f.lane = e.lane
      /\ Holds(f, e) /\ lane_verify(f)
    BY <1>3, <1>4 DEF IsEntry, Holds, lane_verify
<1>6. QED
    BY <1>2, <1>5

LEMMA NewEntryIs ==
    ASSUME NEW d, NEW k, NEW p, NEW e, e = NewEntry(d, k, p)
    PROVE  IsEntry(e) /\ e.height = k /\ e.previous = p /\ Holds(e, d) /\ CurrentForm(e)
<1>1. PICK l : l = from_context(d.context, d.metadata)
    OBVIOUS
<1>2. PICK u : u = Unstamped(d, k, p, l)
    OBVIOUS
<1>3. e = Stamped(u)
    BY <1>1, <1>2 DEF NewEntry
<1>4. IsEntry(u) /\ u.height = k /\ u.previous = p /\ Holds(u, d) /\ u.lane = l
    BY <1>2 DEF Unstamped, IsEntry, Holds
<1>5. /\ IsEntry(e) /\ e.height = u.height
      /\ e.previous = u.previous /\ e.lane = u.lane
      /\ Holds(e, u) /\ lane_verify(e)
    BY <1>3, <1>4, StampedIs
<1>6. Holds(e, d)
    BY <1>4, <1>5 DEF Holds
<1>7. e.lane = from_context(e.context, e.metadata)
    BY <1>1, <1>4, <1>5, <1>6 DEF Holds
<1>8. QED
    BY <1>4, <1>5, <1>6, <1>7 DEF CurrentForm

LEMMA LegacyEntryIs ==
    ASSUME NEW d, NEW k, NEW p, NEW e, e = LegacyEntry(d, k, p)
    PROVE  IsEntry(e) /\ e.height = k /\ e.previous = p /\ Holds(e, d) /\ LegacyForm(e)
<1>1. PICK u : u = Unstamped(d, k, p, "missing")
    OBVIOUS
<1>2. PICK x : x = compute_legacy_pre_lane_hash(u)
    OBVIOUS
<1>3. e = [u EXCEPT !.hash = x]
    BY <1>1, <1>2 DEF LegacyEntry
<1>4. e = [height |-> k, body |-> d.body, context |-> d.context,
           metadata |-> d.metadata, previous |-> p, lane |-> "missing", hash |-> x]
    BY <1>1, <1>3 DEF Unstamped
<1>5. x = compute_legacy_pre_lane_hash(e)
    BY <1>1, <1>2, <1>4 DEF compute_legacy_pre_lane_hash, Unstamped
<1>6. QED
    BY <1>4, <1>5 DEF IsEntry, Holds, LegacyForm

-----------------------------------------------------------------------------
(* The log that an older version left.                                         *)

StoredAt(h, logged, k) ==
    IF h[k].legacy THEN LegacyEntry(h[k], k, Link(logged, k)) ELSE NewEntry(h[k], k, Link(logged, k))

StoredTo(logged, h, n) == logged = [k \in 1..n |-> StoredAt(h, logged, k)]

LEMMA StoredExists ==
    ASSUME NEW h, NEW n \in Nat
    PROVE  \E logged : StoredTo(logged, h, n)
<1> DEFINE Good == {k \in Nat : \E logged : StoredTo(logged, h, k)}
<1>1. 0 \in Good
  <2>1. PICK logged : logged = [k \in 1..0 |-> h]
    OBVIOUS
  <2>2. StoredTo(logged, h, 0)
    BY <2>1 DEF StoredTo
  <2>3. QED
    BY <2>2
<1>2. ASSUME NEW k \in Nat, k \in Good
      PROVE  k + 1 \in Good
  <2>1. PICK f : StoredTo(f, h, k)
    BY <1>2
  <2>2. PICK g : g = [i \in 1..(k + 1) |-> IF i <= k THEN f[i] ELSE StoredAt(h, f, i)]
    OBVIOUS
  <2>3. \A i \in 1..k : f[i] = StoredAt(h, f, i)
    BY <2>1 DEF StoredTo
  <2>4. \A i \in 1..(k + 1) : g[i] = StoredAt(h, f, i)
    BY <2>2, <2>3
  <2>5. ASSUME NEW i \in 1..(k + 1) PROVE Link(g, i) = Link(f, i)
    <3>1. CASE i = 1
      BY <3>1 DEF Link
    <3>2. CASE i # 1
      <4>1. i - 1 \in 1..(k + 1) /\ i - 1 <= k
        BY <3>2
      <4>2. g[i - 1] = f[i - 1]
        BY <2>2, <4>1
      <4>3. QED
        BY <3>2, <4>2 DEF Link
    <3>3. QED
      BY <3>1, <3>2
  <2>6. \A i \in 1..(k + 1) : StoredAt(h, g, i) = StoredAt(h, f, i)
    BY <2>5, Zenon DEF StoredAt
  <2>7. \A i \in 1..(k + 1) : g[i] = StoredAt(h, g, i)
    BY <2>4, <2>6
  <2>8. StoredTo(g, h, k + 1)
    BY <2>2, <2>7 DEF StoredTo
  <2>9. QED
    BY <2>8
<1> HIDE DEF Good
<1>3. Nat \subseteq Good
    BY <1>1, <1>2, Climbs
<1>4. QED
    BY <1>3 DEF Good

LEMMA StoredLogIs ==
    ASSUME NEW h, Len(h) \in Nat
    PROVE  /\ DOMAIN StoredLog(h) = 1..Len(h)
           /\ OldLog(StoredLog(h), Len(h)) /\ Carries(StoredLog(h), h, Len(h))
<1>1. PICK n \in Nat : n = Len(h)
    OBVIOUS
<1>2. PICK logged : logged = StoredLog(h)
    OBVIOUS
<1>3. logged = CHOOSE f : StoredTo(f, h, n)
    BY <1>1, <1>2, Zenon DEF StoredLog, StoredTo, StoredAt, Link
<1>4. StoredTo(logged, h, n)
    BY <1>3, StoredExists
<1>5. DOMAIN logged = 1..n
    BY <1>4, Zenon DEF StoredTo
<1>6. ASSUME NEW k \in 1..n
      PROVE  /\ IsEntry(logged[k]) /\ logged[k].height = k /\ logged[k].previous = Link(logged, k)
             /\ Holds(logged[k], h[k]) /\ (LegacyForm(logged[k]) \/ CurrentForm(logged[k]))
  <2>1. logged[k] = StoredAt(h, logged, k)
    BY <1>4 DEF StoredTo
  <2>2. PICK p, e, d : p = Link(logged, k) /\ e = logged[k] /\ d = h[k]
    OBVIOUS
  <2>3. CASE h[k].legacy
    <3>1. e = LegacyEntry(d, k, p)
      BY <2>1, <2>2, <2>3 DEF StoredAt
    <3>2. QED
      BY <2>2, <3>1, LegacyEntryIs
  <2>4. CASE ~h[k].legacy
    <3>1. e = NewEntry(d, k, p)
      BY <2>1, <2>2, <2>4 DEF StoredAt
    <3>2. QED
      BY <2>2, <3>1, NewEntryIs
  <2>5. QED
    BY <2>3, <2>4
<1>7. OldLog(logged, n) /\ Carries(logged, h, n)
    BY <1>6 DEF OldLog, Carries, Placed
<1>8. QED
    BY <1>1, <1>2, <1>5, <1>7

-----------------------------------------------------------------------------
(* What a start reads.                                                      *)

LEMMA MinIs ==
    ASSUME NEW S, S \subseteq Int, NEW m \in S, \A y \in S : m <= y
    PROVE  Min(S) = m
<1>1. Min(S) \in S /\ \A y \in S : Min(S) <= y
    BY DEF Min
<1>2. Min(S) <= m /\ m <= Min(S) /\ Min(S) \in Int /\ m \in Int
    BY <1>1
<1>3. QED
    BY <1>2

\* The keys of an interval come one after the other.
KeysTo(key, keys, n) ==
    key = [i \in 1..n |-> IF i = 1 THEN Min(keys) ELSE Min({k \in keys : k > key[i - 1]})]

LEMMA InOrderIs ==
    ASSUME NEW a \in Nat, NEW L \in Nat, a <= L, NEW keys, keys = (a + 1)..L
    PROVE  /\ DOMAIN InOrder(keys) = 1..(L - a)
           /\ \A i \in 1..(L - a) : InOrder(keys)[i] = a + i
<1>1. PICK n \in Nat : n = L - a
    OBVIOUS
<1>2. Cardinality(keys) = n
  <2>1. Cardinality((a + 1)..L) = IF a + 1 > L THEN 0 ELSE L - (a + 1) + 1
    BY FS_Interval
  <2>2. QED
    BY <1>1, <2>1
<1>3. PICK key : key = InOrder(keys)
    OBVIOUS
<1>4. key = CHOOSE f : KeysTo(f, keys, n)
    BY <1>2, <1>3, Zenon DEF InOrder, KeysTo
<1>5. ASSUME NEW i \in 0..(n - 1) PROVE Min({k \in keys : k > a + i}) = a + (i + 1)
  <2>1. PICK S : S = {k \in keys : k > a + i}
    OBVIOUS
  <2>2. S \subseteq Int /\ a + (i + 1) \in S /\ \A y \in S : a + (i + 1) <= y
    BY <1>1, <2>1
  <2>3. PICK m : m = a + (i + 1)
    OBVIOUS
  <2>4. Min(S) = m
    BY <2>2, <2>3, MinIs
  <2>5. QED
    BY <2>1, <2>3, <2>4
<1>6. n # 0 => Min(keys) = a + 1
  <2>1. ASSUME n # 0 PROVE Min(keys) = a + 1
    <3>1. PICK m : m = a + 1
      OBVIOUS
    <3>2. keys \subseteq Int /\ m \in keys /\ \A y \in keys : m <= y
      BY <1>1, <2>1, <3>1
    <3>3. Min(keys) = m
      BY <3>2, MinIs
    <3>4. QED
      BY <3>1, <3>3
  <2>2. QED
    BY <2>1
<1>7. \E f : KeysTo(f, keys, n)
  <2>1. PICK w : w = [i \in 1..n |-> a + i]
    OBVIOUS
  <2>2. ASSUME NEW i \in 1..n
        PROVE  a + i = IF i = 1 THEN Min(keys) ELSE Min({k \in keys : k > w[i - 1]})
    <3>1. CASE i = 1
      BY <1>6, <3>1
    <3>2. CASE i # 1
      <4>1. i - 1 \in 1..n /\ i - 1 \in 0..(n - 1) /\ (i - 1) + 1 = i
        BY <3>2
      <4>2. w[i - 1] = a + (i - 1)
        BY <2>1, <4>1
      <4>3. Min({k \in keys : k > a + (i - 1)}) = a + ((i - 1) + 1)
        BY <1>5, <4>1
      <4>4. QED
        BY <3>2, <4>1, <4>2, <4>3
    <3>3. QED
      BY <3>1, <3>2
  <2>3. KeysTo(w, keys, n)
    BY <2>1, <2>2 DEF KeysTo
  <2>4. QED
    BY <2>3
<1>8. KeysTo(key, keys, n)
    BY <1>4, <1>7
<1>9. DOMAIN key = 1..n
    BY <1>8, Zenon DEF KeysTo
<1>10. \A i \in 1..n : key[i] = IF i = 1 THEN Min(keys) ELSE Min({k \in keys : k > key[i - 1]})
    BY <1>8 DEF KeysTo
<1> DEFINE Good == {i \in 0..n : i # 0 => key[i] = a + i}
<1>11. 0 \in Good
    OBVIOUS
<1>12. ASSUME NEW i \in 0..(n - 1), i \in Good PROVE i + 1 \in Good
  <2>1. i + 1 \in 1..n /\ (i + 1) - 1 = i
    OBVIOUS
  <2>2. key[i + 1] = IF i + 1 = 1 THEN Min(keys) ELSE Min({k \in keys : k > key[i]})
    BY <1>10, <2>1
  <2>3. CASE i = 0
    BY <1>6, <2>2, <2>3
  <2>4. CASE i # 0
    <3>1. key[i] = a + i
      BY <1>12, <2>4
    <3>2. key[i + 1] = Min({k \in keys : k > a + i})
      BY <2>2, <2>4, <3>1
    <3>3. QED
      BY <1>5, <3>2
  <2>5. QED
    BY <2>3, <2>4
<1> HIDE DEF Good
<1>13. 0..n \subseteq Good
    BY <1>11, <1>12, Reaches
<1>14. ASSUME NEW i \in 1..n PROVE key[i] = a + i
  <2>1. i \in Good /\ i # 0
    BY <1>13
  <2>2. QED
    BY <2>1 DEF Good
<1>15. QED
    BY <1>1, <1>3, <1>9, <1>14

LoadedOf(e) ==
    [legacy |-> e.lane = "missing",
     entry  |-> IF e.lane = "missing"
                THEN [e EXCEPT !.lane = from_context(e.context, e.metadata)]
                ELSE e]

LEMMA LoadedEntry ==
    ASSUME NEW e
    PROVE  /\ LoadedOf(e).legacy <=> e.lane = "missing"
           /\ e.lane # "missing" => LoadedOf(e).entry = e
<1>1. LoadedOf(e).legacy = (e.lane = "missing")
    BY Zenon DEF LoadedOf
<1>2. QED
    BY <1>1, Zenon DEF LoadedOf

LEMMA LoadedIs ==
    ASSUME NEW a \in Nat, NEW L \in Nat, a <= L, DOMAIN disk = (a + 1)..L
    PROVE  /\ DOMAIN Loaded = 1..(L - a) /\ Len(Loaded) = L - a
           /\ \A i \in 1..(L - a) : Loaded[i] = LoadedOf(disk[a + i])
<1>1. PICK D : D = DOMAIN disk
    OBVIOUS
<1>2. D = (a + 1)..L
    BY <1>1
<1>3. PICK keys : keys = InOrder(D)
    OBVIOUS
<1>4. DOMAIN keys = 1..(L - a) /\ \A i \in 1..(L - a) : keys[i] = a + i
    BY <1>2, <1>3, InOrderIs
<1>5. Loaded = [i \in DOMAIN keys |-> LoadedOf(disk[keys[i]])]
    BY <1>1, <1>3, Zenon DEF Loaded, LoadedOf
<1>6. PICK ld : ld = Loaded
    OBVIOUS
<1>7. DOMAIN ld = 1..(L - a)
    BY <1>4, <1>5, <1>6, Zenon
<1>8. Len(ld) = L - a
    BY ONLY <1>7, a \in Nat, L \in Nat, a <= L
<1>9. ASSUME NEW i \in 1..(L - a) PROVE ld[i] = LoadedOf(disk[a + i])
  <2>1. i \in DOMAIN keys /\ keys[i] = a + i
    BY <1>4
  <2>2. ld[i] = LoadedOf(disk[keys[i]])
    BY <1>5, <1>6, <2>1, Zenon
  <2>3. QED
    BY <2>1, <2>2
<1>10. QED
    BY <1>6, <1>7, <1>8, <1>9

-----------------------------------------------------------------------------
(* The migrated chain.                                                      *)

IsSeq(s, n) == s \in Seq(Range(s)) /\ Len(s) = n

LEMMA SeqIs ==
    ASSUME NEW n \in Nat, NEW s, s = [i \in 1..n |-> s[i]]
    PROVE  IsSeq(s, n)
<1>1. PICK S : S = Range(s)
    OBVIOUS
<1>2. DOMAIN s = 1..n
    BY Zenon
<1>3. \A i \in 1..n : s[i] \in S
    BY <1>1, <1>2 DEF Range
<1>4. s \in [1..n -> S]
    BY <1>3
<1>5. s \in Seq(S) /\ Len(s) = n
    BY ONLY <1>4, n \in Nat
<1>6. QED
    BY <1>1, <1>5 DEF IsSeq

RestampedAt(l, done, k) == Stamped([l[k].entry EXCEPT !.previous = Link(done, k)])

RestampedTo(done, l, n) == done = [k \in 1..n |-> RestampedAt(l, done, k)]

LEMMA RestampedExists ==
    ASSUME NEW l, NEW n \in Nat
    PROVE  \E done : RestampedTo(done, l, n)
<1> DEFINE Good == {k \in Nat : \E done : RestampedTo(done, l, k)}
<1>1. 0 \in Good
  <2>1. PICK done : done = [k \in 1..0 |-> l]
    OBVIOUS
  <2>2. RestampedTo(done, l, 0)
    BY <2>1 DEF RestampedTo
  <2>3. QED
    BY <2>2
<1>2. ASSUME NEW k \in Nat, k \in Good
      PROVE  k + 1 \in Good
  <2>1. PICK f : RestampedTo(f, l, k)
    BY <1>2
  <2>2. PICK g : g = [i \in 1..(k + 1) |-> IF i <= k THEN f[i] ELSE RestampedAt(l, f, i)]
    OBVIOUS
  <2>3. \A i \in 1..k : f[i] = RestampedAt(l, f, i)
    BY <2>1 DEF RestampedTo
  <2>4. \A i \in 1..(k + 1) : g[i] = RestampedAt(l, f, i)
    BY <2>2, <2>3
  <2>5. ASSUME NEW i \in 1..(k + 1) PROVE Link(g, i) = Link(f, i)
    <3>1. CASE i = 1
      BY <3>1 DEF Link
    <3>2. CASE i # 1
      <4>1. i - 1 \in 1..(k + 1) /\ i - 1 <= k
        BY <3>2
      <4>2. g[i - 1] = f[i - 1]
        BY <2>2, <4>1
      <4>3. QED
        BY <3>2, <4>2 DEF Link
    <3>3. QED
      BY <3>1, <3>2
  <2>6. \A i \in 1..(k + 1) : RestampedAt(l, g, i) = RestampedAt(l, f, i)
    BY <2>5, Zenon DEF RestampedAt
  <2>7. \A i \in 1..(k + 1) : g[i] = RestampedAt(l, g, i)
    BY <2>4, <2>6
  <2>8. RestampedTo(g, l, k + 1)
    BY <2>2, <2>7 DEF RestampedTo
  <2>9. QED
    BY <2>8
<1> HIDE DEF Good
<1>3. Nat \subseteq Good
    BY <1>1, <1>2, Climbs
<1>4. QED
    BY <1>3 DEF Good

\* An old log, read and stamped, is a log of this version with the same decisions.
LEMMA RestampedIs ==
    ASSUME NEW n \in Nat, NEW l, Len(l) = n, NEW logged, OldLog(logged, n),
           \A i \in 1..n : l[i] = LoadedOf(logged[i]),
           NEW h, Carries(logged, h, n)
    PROVE  /\ IsSeq(Restamped(l), n)
           /\ NewLog(Restamped(l), n) /\ Carries(Restamped(l), h, n)
<1>1. PICK r : r = Restamped(l)
    OBVIOUS
<1>2. r = CHOOSE f : RestampedTo(f, l, n)
    BY <1>1, Zenon DEF Restamped, RestampedTo, RestampedAt, Link
<1>3. RestampedTo(r, l, n)
    BY <1>2, RestampedExists
<1>4. IsSeq(r, n)
  <2>1. DOMAIN r = 1..n
    BY <1>3, Zenon DEF RestampedTo
  <2>2. r = [k \in 1..n |-> r[k]]
    BY <1>3, <2>1, Zenon DEF RestampedTo
  <2>3. QED
    BY <2>2, SeqIs
<1>5. ASSUME NEW k \in 1..n
      PROVE  /\ IsEntry(r[k]) /\ r[k].height = k /\ r[k].previous = Link(r, k)
             /\ Holds(r[k], h[k]) /\ CurrentForm(r[k])
  <2>1. PICK e, p, d, f : e = logged[k] /\ p = Link(r, k) /\ d = h[k] /\ f = from_context(e.context, e.metadata)
    OBVIOUS
  <2>2. /\ IsEntry(e) /\ e.height = k /\ Holds(e, d)
        /\ e.lane = "missing" \/ e.lane = f
    BY <2>1 DEF OldLog, Placed, LegacyForm, CurrentForm, Carries
  <2>3. l[k].entry = IF e.lane = "missing" THEN [e EXCEPT !.lane = f] ELSE e
    BY <2>1 DEF LoadedOf
  <2>4. PICK x : x = [l[k].entry EXCEPT !.previous = p]
    OBVIOUS
  <2>5. x = [height |-> k, body |-> e.body, context |-> e.context,
             metadata |-> e.metadata, previous |-> p, lane |-> f, hash |-> e.hash]
    <3>1. l[k].entry = [height |-> k, body |-> e.body, context |-> e.context,
             metadata |-> e.metadata, previous |-> e.previous, lane |-> f, hash |-> e.hash]
      BY <2>2, <2>3 DEF IsEntry
    <3>2. QED
      BY <2>4, <3>1
  <2>6. IsEntry(x) /\ x.height = k /\ x.previous = p /\ x.lane = f /\ Holds(x, e)
    BY <2>5 DEF IsEntry, Holds
  <2>7. r[k] = Stamped(x)
    <3>1. r[k] = RestampedAt(l, r, k)
      BY <1>3 DEF RestampedTo
    <3>2. QED
      BY <2>1, <2>4, <3>1 DEF RestampedAt
  <2>8. PICK y : y = r[k]
    OBVIOUS
  <2>9. /\ IsEntry(y) /\ y.height = x.height
        /\ y.previous = x.previous /\ y.lane = x.lane
        /\ Holds(y, x) /\ lane_verify(y)
    BY <2>6, <2>7, <2>8, StampedIs
  <2>10. Holds(y, d) /\ y.context = e.context /\ y.metadata = e.metadata
    BY <2>2, <2>6, <2>9 DEF Holds
  <2>11. CurrentForm(y)
    BY <2>1, <2>6, <2>9, <2>10 DEF CurrentForm
  <2>12. QED
    BY <2>1, <2>6, <2>8, <2>9, <2>10, <2>11
<1>6. NewLog(r, n) /\ Carries(r, h, n)
    BY <1>5 DEF NewLog, Carries, Placed
<1>7. QED
    BY <1>1, <1>4, <1>6

-----------------------------------------------------------------------------
(* The invariant.                                                           *)

\* Of the log of h, the tree d has lost the first a entries.
Remains(d, h, a) ==
    /\ DOMAIN d = (a + 1)..Len(h)
    /\ \A k \in (a + 1)..Len(h) : d[k] = StoredLog(h)[k]

\* The tree d is a log of this version: n decisions of h and then those of f.
Kept(d, h, f, n) ==
    /\ DOMAIN d = 1..(n + Len(f))
    /\ NewLog(d, n + Len(f)) /\ Carries(d, h, n)
    /\ \A k \in 1..Len(f) : Holds(d[n + k], f[k])

\* The tree d has the entry at place i with another body than its hash is of.
Marred(d, h, i) ==
    /\ i \in 1..Len(h) /\ DOMAIN d = 1..Len(h)
    /\ IsEntry(d[i]) /\ d[i].body = "altered" /\ d[i].hash[3] # "altered"

RemoveOf(k) == [op |-> "remove", key |-> k]

InsertOf(e) == [op |-> "insert", key |-> e.height, entry |-> e]

\* Keys are being removed: all from a + 1 on are left, then s is inserted.
Removing(d, w, s, h, a) ==
    /\ Remains(d, h, a)
    /\ IsSeq(w, (Len(h) - a) + Len(h))
    /\ \A i \in 1..(Len(h) - a) : w[i] = RemoveOf(a + i)
    /\ \A i \in 1..Len(h) : w[(Len(h) - a) + i] = InsertOf(s[i])

\* The first n entries of s are inserted.
Inserting(d, w, s, h, n) ==
    /\ DOMAIN d = 1..n /\ \A k \in 1..n : d[k] = s[k]
    /\ IsSeq(w, Len(h) - n)
    /\ \A i \in 1..(Len(h) - n) : w[i] = InsertOf(s[n + i])

AtRest ==
    \/ \E a \in 0..Len(recorded) :
         /\ a = 0 \/ cut
         /\ Remains(disk, recorded, a) /\ fresh = <<>>
    \/ \E n \in 0..Len(recorded) :
         /\ n = Len(recorded) \/ cut
         /\ Kept(disk, recorded, fresh, n)

Migrating ==
    /\ fresh = <<>>
    /\ IsSeq(served, Len(recorded))
    /\ NewLog(served, Len(recorded)) /\ Carries(served, recorded, Len(recorded))
    /\ \/ \E a \in 0..Len(recorded) : Removing(disk, writes, served, recorded, a)
       \/ \E n \in 0..Len(recorded) : Inserting(disk, writes, served, recorded, n)

Serving ==
    /\ \E n \in 0..Len(recorded) :
         /\ n = Len(recorded) \/ cut
         /\ Kept(disk, recorded, fresh, n)
         /\ IsSeq(served, n + Len(fresh))
    /\ \A k \in DOMAIN disk : served[k] = disk[k]

LogInv ==
    /\ recorded \in Histories /\ fresh \in Seq(NewDecisions) /\ cut \in BOOLEAN
    /\ phase \in {"down", "refused", "migrating", "up"}
    /\ altered # 0 => Marred(disk, recorded, altered) /\ phase \in {"down", "refused"}
    /\ altered = 0 => /\ phase \in {"down", "refused"} => AtRest
                      /\ phase = "migrating" => Migrating
                      /\ phase = "up" => Serving

LEMMA HistoryType ==
    ASSUME LogInv
    PROVE  Len(recorded) \in Nat /\ recorded \in Seq(Range(recorded)) /\ Len(fresh) \in Nat
<1>1. recorded \in Seq(Range(recorded))
    BY LanesAssumption DEF LogInv
<1>2. fresh \in Seq(NewDecisions)
    BY DEF LogInv
<1>3. PICK S, T, s, t : S = Range(recorded) /\ s = recorded /\ t = fresh /\ T = NewDecisions
    OBVIOUS
<1>4. s \in Seq(S) /\ t \in Seq(T)
    BY <1>1, <1>2, <1>3
<1>5. Len(s) \in Nat /\ Len(t) \in Nat
    BY ONLY <1>4
<1>6. QED
    BY <1>1, <1>3, <1>5

LEMMA SeqDomain ==
    ASSUME NEW n \in Nat, NEW s, IsSeq(s, n)
    PROVE  DOMAIN s = 1..n
<1>1. PICK S : S = Range(s)
    OBVIOUS
<1>2. s \in Seq(S) /\ Len(s) = n
    BY <1>1 DEF IsSeq
<1>3. QED
    BY ONLY <1>2

\* f is g with e under the key.
PutIn(f, g, key, e) ==
    /\ DOMAIN f = DOMAIN g \cup {key}
    /\ f[key] = e
    /\ \A k \in DOMAIN g : k # key => f[k] = g[k]

LEMMA OverOne ==
    ASSUME NEW key, NEW e, NEW g
    PROVE  PutIn(Over([k \in {key} |-> e], g), g, key, e)
    BY DEF Over, PutIn

-----------------------------------------------------------------------------
(* The history is kept, and an altered one refused.                         *)

LEMMA LogInvInit == LanesInit => LogInv
<1> SUFFICES ASSUME LanesInit PROVE LogInv
    OBVIOUS
<1>0. PICK h \in Histories : \E i \in 0..Len(h) :
        /\ recorded = h /\ fresh = <<>> /\ altered = i /\ phase = "down" /\ cut = FALSE
        /\ disk = [k \in 1..Len(h) |->
                     IF k = i THEN [StoredLog(h)[k] EXCEPT !.body = "altered"]
                              ELSE StoredLog(h)[k]]
    BY DEF LanesInit
<1>1. PICK i \in 0..Len(h) :
        /\ recorded = h /\ fresh = <<>> /\ altered = i /\ phase = "down" /\ cut = FALSE
        /\ disk = [k \in 1..Len(h) |->
                     IF k = i THEN [StoredLog(h)[k] EXCEPT !.body = "altered"]
                              ELSE StoredLog(h)[k]]
    BY <1>0
<1>a. recorded = h /\ fresh = <<>> /\ altered = i /\ phase = "down" /\ cut = FALSE
    BY <1>1
<1>2. h \in Seq(Range(h)) /\ \A j \in 1..Len(h) : h[j].body # "altered"
    BY LanesAssumption
<1>3. Len(h) \in Nat
  <2>1. PICK S, s : S = Range(h) /\ s = h
    OBVIOUS
  <2>2. s \in Seq(S)
    BY <1>2, <2>1
  <2>3. Len(s) \in Nat
    BY ONLY <2>2
  <2>4. QED
    BY <2>1, <2>3
<1>4. PICK logged : logged = StoredLog(h)
    OBVIOUS
<1>5. DOMAIN logged = 1..Len(h) /\ OldLog(logged, Len(h)) /\ Carries(logged, h, Len(h))
    BY <1>3, <1>4, StoredLogIs
<1>6. DOMAIN disk = 1..Len(h)
    BY <1>1, Zenon
<1>7. fresh \in Seq(NewDecisions)
    BY <1>a
<1>8. CASE i = 0
  <2>1. \A k \in 1..Len(h) : disk[k] = logged[k]
    BY <1>1, <1>4, <1>8
  <2>2. Remains(disk, recorded, 0)
    BY <1>a, <1>4, <1>6, <2>1 DEF Remains
  <2>3. AtRest
    BY <1>a, <1>3, <2>2 DEF AtRest
  <2>4. QED
    BY <1>a, <1>7, <1>8, <2>3 DEF LogInv
<1>9. CASE i # 0
  <2>1. i \in 1..Len(h)
    BY <1>3, <1>9
  <2>2. PICK e, f : e = logged[i] /\ f = disk[i]
    OBVIOUS
  <2>3. /\ IsEntry(e) /\ e.body # "altered"
        /\ e.hash = compute_legacy_pre_lane_hash(e) \/ e.hash = compute_lane_hash(e)
    <3>1. e.body = h[i].body
      BY <1>5, <2>1, <2>2 DEF Carries, Holds
    <3>2. QED
      BY <1>2, <1>5, <2>1, <2>2, <3>1 DEF OldLog, Placed, LegacyForm, CurrentForm, lane_verify
  <2>4. e.hash[3] # "altered"
    BY <2>3, HashParts
  <2>5. f = [e EXCEPT !.body = "altered"]
    BY <1>1, <1>4, <2>1, <2>2
  <2>6. IsEntry(f) /\ f.body = "altered" /\ f.hash = e.hash
    BY <2>3, <2>5 DEF IsEntry
  <2>7. Marred(disk, recorded, altered)
    BY <1>a, <1>6, <2>1, <2>2, <2>4, <2>6 DEF Marred
  <2>8. QED
    BY <1>a, <1>7, <1>9, <2>7 DEF LogInv
<1>10. QED
    BY <1>8, <1>9

\* Neither check accepts a tree with an altered entry.
LEMMA MarredFails ==
    ASSUME LogInv, altered # 0
    PROVE  /\ ~LegacyChainVerifies(Loaded)
           /\ (\A i \in DOMAIN Loaded : ~Loaded[i].legacy) =>
                 ~ChainVerifies([i \in DOMAIN Loaded |-> Loaded[i].entry])
<1>1. Marred(disk, recorded, altered) /\ Len(recorded) \in Nat
    BY HistoryType DEF LogInv
<1>2. PICK L, j, e : /\ L \in Nat /\ L = Len(recorded)
                     /\ j = altered /\ e = disk[j] /\ j \in 1..L
    BY <1>1 DEF Marred
<1>3. DOMAIN disk = (0 + 1)..L
    BY <1>1, <1>2 DEF Marred
<1>4. DOMAIN Loaded = 1..(L - 0) /\ \A i \in 1..(L - 0) : Loaded[i] = LoadedOf(disk[0 + i])
    BY <1>2, <1>3, LoadedIs
<1>5. PICK x : x = Loaded[j]
    OBVIOUS
<1>6. j \in DOMAIN Loaded /\ x = LoadedOf(e)
    BY <1>2, <1>4, <1>5
<1>7. IsEntry(e) /\ e.body = "altered" /\ e.hash[3] # "altered"
    BY <1>1, <1>2 DEF Marred
<1>8. x.entry.body = "altered" /\ x.entry.hash = e.hash
    BY <1>6, <1>7 DEF LoadedOf, IsEntry
<1>9. PICK y : y = x.entry
    OBVIOUS
<1>10. y.hash # compute_legacy_pre_lane_hash(y) /\ y.hash # compute_lane_hash(y)
    BY <1>7, <1>8, <1>9, HashParts
<1>11. ~LegacyChainVerifies(Loaded)
    BY <1>5, <1>6, <1>9, <1>10 DEF LegacyChainVerifies, lane_verify
<1>12. ~ChainVerifies([i \in DOMAIN Loaded |-> Loaded[i].entry])
  <2>1. PICK s : s = [i \in DOMAIN Loaded |-> Loaded[i].entry]
    OBVIOUS
  <2>2. j \in DOMAIN s /\ s[j] = y
    BY <1>5, <1>6, <1>9, <2>1
  <2>3. ~lane_verify(s[j])
    BY <1>10, <2>2 DEF lane_verify
  <2>4. ~ChainVerifies(s)
    BY <2>2, <2>3 DEF ChainVerifies
  <2>5. QED
    BY <2>1, <2>4
<1>13. QED
    BY <1>11, <1>12

\* What was read from a tree that lacks a beginning does not link to the genesis.
LEMMA NoBeginning ==
    ASSUME NEW h, Len(h) \in Nat, NEW a \in 1..Len(h), a # Len(h)
    PROVE  StoredLog(h)[a + 1].previous # GenesisLink
<1>1. PICK logged : logged = StoredLog(h)
    OBVIOUS
<1>2. OldLog(logged, Len(h))
    BY <1>1, StoredLogIs
<1>3. a + 1 \in 1..Len(h) /\ a + 1 # 1 /\ (a + 1) - 1 = a
    OBVIOUS
<1>4. logged[a + 1].previous = logged[a].hash
    BY <1>2, <1>3 DEF OldLog, Placed, Link
<1>5. PICK e : e = logged[a]
    OBVIOUS
<1>6. e.hash = compute_legacy_pre_lane_hash(e) \/ e.hash = compute_lane_hash(e)
    BY <1>2, <1>5 DEF OldLog, LegacyForm, CurrentForm, lane_verify
<1>7. e.hash # GenesisLink
    BY <1>6, HashParts
<1>8. QED
    BY <1>1, <1>4, <1>5, <1>7

LEMMA StartCurrentKeeps ==
    ASSUME LogInv, StartCurrent
    PROVE  LogInv'
<1>1. PICK s : s = [i \in DOMAIN Loaded |-> Loaded[i].entry]
    OBVIOUS
<1>2. /\ phase \in {"down", "refused"}
      /\ \A i \in DOMAIN Loaded : ~Loaded[i].legacy
      /\ UNCHANGED <<recorded, fresh, altered, disk, writes, cut, stops, corpus>>
    BY DEF StartCurrent
<1>3. IF ChainVerifies(s) THEN phase' = "up" /\ served' = s
                          ELSE phase' = "refused" /\ UNCHANGED served
    BY <1>1 DEF StartCurrent
<1>4. recorded' \in Histories /\ fresh' \in Seq(NewDecisions) /\ cut' \in BOOLEAN
    BY <1>2 DEF LogInv
<1>5. CASE altered # 0
  <2>1. ~ChainVerifies(s)
    BY <1>1, <1>2, <1>5, MarredFails
  <2>2. Marred(disk, recorded, altered)
    BY <1>5 DEF LogInv
  <2>3. Marred(disk', recorded', altered') /\ altered' # 0
    BY <1>2, <1>5, <2>2
  <2>4. QED
    BY <1>3, <1>4, <2>1, <2>3 DEF LogInv
<1>6. CASE altered = 0
  <2>1. AtRest /\ altered' = 0
    BY <1>2, <1>6 DEF LogInv
  <2>2. CASE ~ChainVerifies(s)
    <3>1. AtRest'
      BY <1>2, <2>1 DEF AtRest
    <3>2. QED
      BY <1>3, <1>4, <2>1, <2>2, <3>1 DEF LogInv
  <2>3. ASSUME ChainVerifies(s),
               NEW n \in 0..Len(recorded), n = Len(recorded) \/ cut,
               Kept(disk, recorded, fresh, n), IsSeq(s, n + Len(fresh)),
               \A k \in DOMAIN disk : s[k] = disk[k]
        PROVE  LogInv'
    <3>1. Serving'
      BY <1>2, <1>3, <2>3 DEF Serving
    <3>2. QED
      BY <1>3, <1>4, <2>1, <2>3, <3>1 DEF LogInv
  <2>f. PICK L \in Nat, F \in Nat : L = Len(recorded) /\ F = Len(fresh)
    BY HistoryType
  <2>4. PICK logged : L = Len(recorded) /\ logged = StoredLog(recorded) /\ F = Len(fresh)
    BY <2>f
  <2>5. DOMAIN logged = 1..L /\ OldLog(logged, L) /\ Carries(logged, recorded, L)
    BY <2>4, StoredLogIs
  <2>6. ASSUME NEW a \in 0..L, a = 0 \/ cut, Remains(disk, recorded, a), fresh = <<>>,
               ChainVerifies(s)
        PROVE  LogInv'
    <3>1. DOMAIN disk = (a + 1)..L /\ \A k \in (a + 1)..L : disk[k] = logged[k]
      BY <2>4, <2>6 DEF Remains
    <3>2. DOMAIN Loaded = 1..(L - a) /\ \A i \in 1..(L - a) : Loaded[i] = LoadedOf(disk[a + i])
      BY <3>1, LoadedIs
    <3>3. DOMAIN s = 1..(L - a)
      BY <1>1, <3>2, Zenon
    <3>4. IsSeq(s, L - a)
      <4>1. s = [i \in 1..(L - a) |-> s[i]]
        BY <1>1, <3>3, Zenon
      <4>2. PICK n \in Nat : n = L - a
        OBVIOUS
      <4>3. s = [i \in 1..n |-> s[i]]
        BY <4>1, <4>2
      <4>4. QED
        BY <4>2, <4>3, SeqIs
    <3>5. ASSUME NEW i \in 1..(L - a)
          PROVE  s[i] = disk[a + i] /\ disk[a + i].lane # "missing"
      <4>1. s[i] = Loaded[i].entry /\ ~Loaded[i].legacy
        BY <1>1, <1>2, <3>2
      <4>2. QED
        BY <3>2, <4>1, LoadedEntry
    <3>6. F = 0
      BY <2>4, <2>6
    <3>7. CASE a = L
      <4>1. Kept(disk, recorded, fresh, 0)
        BY <2>4, <3>1, <3>6, <3>7 DEF Kept, NewLog, Carries
      <4>2. 0 \in 0..Len(recorded) /\ (0 = Len(recorded) \/ cut)
        BY <2>4, <2>6, <3>7
      <4>3. IsSeq(s, 0 + Len(fresh)) /\ \A k \in DOMAIN disk : s[k] = disk[k]
        BY <2>4, <3>1, <3>4, <3>6, <3>7
      <4>4. QED
        BY <2>3, <2>6, <4>1, <4>2, <4>3
    <3>8. CASE a # L
      <4>1. 1 \in 1..(L - a) /\ a + 1 \in (a + 1)..L
        BY <3>8
      <4>2. s[1] = logged[a + 1]
        BY <3>1, <3>5, <4>1
      <4>3. s[1].previous = GenesisLink
        BY <2>6, <3>3, <4>1 DEF ChainVerifies
      <4>4. a = 0
        BY <2>4, <3>8, <4>2, <4>3, NoBeginning
      <4>5. ASSUME NEW k \in 1..L
            PROVE  s[k] = disk[k] /\ disk[k] = logged[k] /\ disk[k].lane # "missing"
        BY <3>1, <3>5, <4>4
      <4>6. NewLog(disk, L) /\ Carries(disk, recorded, L)
        <5>1. ASSUME NEW k \in 1..L
              PROVE  Placed(disk, k) /\ CurrentForm(disk[k]) /\ Holds(disk[k], recorded[k])
          <6>1. Placed(logged, k) /\ CurrentForm(logged[k]) /\ Holds(logged[k], recorded[k])
            BY <2>5, <4>5 DEF OldLog, LegacyForm, Carries
          <6>2. Link(disk, k) = Link(logged, k)
            <7>1. CASE k = 1
              BY <7>1 DEF Link
            <7>2. CASE k # 1
              <8>1. k - 1 \in 1..L
                BY <7>2
              <8>2. disk[k - 1] = logged[k - 1]
                BY <4>5, <8>1
              <8>3. QED
                BY <7>2, <8>2 DEF Link
            <7>3. QED
              BY <7>1, <7>2
          <6>3. QED
            BY <4>5, <6>1, <6>2 DEF Placed
        <5>2. QED
          BY <5>1 DEF NewLog, Carries
      <4>7. Kept(disk, recorded, fresh, L)
        BY <2>4, <3>1, <3>6, <4>4, <4>6 DEF Kept
      <4>8. L \in 0..Len(recorded) /\ L = Len(recorded)
        BY <2>4
      <4>9. IsSeq(s, L + Len(fresh)) /\ \A k \in DOMAIN disk : s[k] = disk[k]
        BY <2>4, <3>1, <3>4, <3>6, <4>4, <4>5
      <4>10. QED
        BY <2>3, <2>6, <4>7, <4>8, <4>9
    <3>9. QED
      BY <3>7, <3>8
  <2>7. ASSUME NEW n \in 0..L, n = L \/ cut, Kept(disk, recorded, fresh, n), ChainVerifies(s)
        PROVE  LogInv'
    <3>1. PICK N \in Nat : N = n + F
      OBVIOUS
    <3>2. DOMAIN disk = (0 + 1)..N /\ NewLog(disk, N)
      BY <2>4, <2>7, <3>1 DEF Kept
    <3>3. DOMAIN Loaded = 1..(N - 0) /\ \A i \in 1..(N - 0) : Loaded[i] = LoadedOf(disk[0 + i])
      BY <3>2, LoadedIs
    <3>4. DOMAIN Loaded = 1..N /\ \A i \in 1..N : Loaded[i] = LoadedOf(disk[i])
      BY <3>3
    <3>5. DOMAIN s = 1..N
      BY <1>1, <3>4, Zenon
    <3>6. IsSeq(s, N)
      <4>1. s = [i \in 1..N |-> s[i]]
        BY <1>1, <3>5, Zenon
      <4>2. QED
        BY <4>1, SeqIs
    <3>7. ASSUME NEW i \in 1..N PROVE s[i] = disk[i]
      <4>1. s[i] = Loaded[i].entry /\ ~Loaded[i].legacy
        BY <1>1, <1>2, <3>4
      <4>2. QED
        BY <3>4, <4>1, LoadedEntry
    <3>8. QED
      BY <2>3, <2>4, <2>7, <3>1, <3>2, <3>6, <3>7
  <2>8. CASE ChainVerifies(s)
    BY <2>1, <2>4, <2>6, <2>7, <2>8 DEF AtRest
  <2>9. QED
    BY <2>2, <2>8
<1>7. QED
    BY <1>5, <1>6

-----------------------------------------------------------------------------
(* Sequences whose elements need no common set.                             *)

LEMMA SeqOfAny ==
    ASSUME NEW S, NEW s \in Seq(S)
    PROVE  IsSeq(s, Len(s))
<1>1. PICK n \in Nat : n = Len(s)
    OBVIOUS
<1>2. s = [i \in 1..n |-> s[i]]
    BY <1>1
<1>3. IsSeq(s, n)
    BY <1>2, SeqIs
<1>4. QED
    BY <1>1, <1>3

LEMMA SeqEmpty ==
    ASSUME NEW s, NEW n \in Nat, IsSeq(s, n)
    PROVE  s = <<>> <=> n = 0
<1>1. PICK S : S = Range(s)
    OBVIOUS
<1>2. s \in Seq(S) /\ Len(s) = n
    BY <1>1 DEF IsSeq
<1>3. QED
    BY ONLY <1>2, EmptySeq

Joined(w, u, v, m, n) ==
    /\ IsSeq(w, m + n)
    /\ \A i \in 1..m : w[i] = u[i]
    /\ \A i \in 1..n : w[m + i] = v[i]

LEMMA SeqConcat ==
    ASSUME NEW u, NEW v, NEW m \in Nat, NEW n \in Nat, IsSeq(u, m), IsSeq(v, n),
           NEW w, w = u \o v
    PROVE  Joined(w, u, v, m, n)
<1>1. PICK S : S = Range(u) \cup Range(v)
    OBVIOUS
<1>2. DOMAIN u = 1..m /\ DOMAIN v = 1..n
    BY SeqDomain
<1>3. \A i \in 1..m : u[i] \in S
    BY <1>1, <1>2 DEF Range
<1>4. \A i \in 1..n : v[i] \in S
    BY <1>1, <1>2 DEF Range
<1>5. PICK A, B : A = Range(u) /\ B = Range(v)
    OBVIOUS
<1>6. u \in Seq(A) /\ v \in Seq(B) /\ Len(u) = m /\ Len(v) = n
    BY <1>5 DEF IsSeq
<1>7. u \in Seq(S) /\ v \in Seq(S)
  <2>1. u = [i \in 1..m |-> u[i]] /\ v = [i \in 1..n |-> v[i]]
    BY ONLY <1>6
  <2>2. u \in [1..m -> S] /\ v \in [1..n -> S]
    BY ONLY <1>3, <1>4, <2>1
  <2>3. QED
    BY ONLY <2>2, m \in Nat, n \in Nat
<1>8. /\ w \in Seq(S) /\ Len(w) = m + n
      /\ \A i \in 1..(m + n) : w[i] = IF i <= m THEN u[i] ELSE v[i - m]
    BY <1>1, <1>6, <1>7, ConcatProperties
<1>9. IsSeq(w, m + n)
    BY <1>8, SeqOfAny
<1>10. \A i \in 1..m : w[i] = u[i]
    BY <1>8
<1>11. ASSUME NEW i \in 1..n PROVE w[m + i] = v[i]
  <2>1. m + i \in 1..(m + n) /\ ~(m + i <= m) /\ (m + i) - m = i
    OBVIOUS
  <2>2. QED
    BY <1>8, <2>1
<1>12. QED
    BY <1>9, <1>10, <1>11 DEF Joined

LEMMA SeqTail ==
    ASSUME NEW w, NEW n \in Nat, IsSeq(w, n), n # 0
    PROVE  /\ Head(w) = w[1] /\ IsSeq(Tail(w), n - 1)
           /\ \A i \in 1..(n - 1) : Tail(w)[i] = w[i + 1]
<1>1. PICK S, t : S = Range(w) /\ t = Tail(w)
    OBVIOUS
<1>2. w \in Seq(S) /\ Len(w) = n
    BY <1>1 DEF IsSeq
<1>3. w # <<>>
    BY ONLY <1>2, n # 0
<1>4. /\ Head(w) = w[1] /\ t \in Seq(S) /\ Len(t) = n - 1
      /\ \A i \in 1..(n - 1) : t[i] = w[i + 1]
    BY <1>1, <1>2, <1>3, HeadTailProperties
<1>5. IsSeq(t, n - 1)
    BY <1>4, SeqOfAny
<1>6. QED
    BY <1>1, <1>4, <1>5

Extended(t, s, n, e) ==
    IsSeq(t, n + 1) /\ t[n + 1] = e /\ \A i \in 1..n : t[i] = s[i]

LEMMA SeqAppend ==
    ASSUME NEW s, NEW n \in Nat, IsSeq(s, n), NEW e, NEW t, t = Append(s, e)
    PROVE  Extended(t, s, n, e)
<1>1. PICK S : S = Range(s) \cup {e}
    OBVIOUS
<1>2. DOMAIN s = 1..n
    BY SeqDomain
<1>3. \A i \in 1..n : s[i] \in S
    BY <1>1, <1>2 DEF Range
<1>4. PICK A : A = Range(s)
    OBVIOUS
<1>5. s \in Seq(A) /\ Len(s) = n
    BY <1>4 DEF IsSeq
<1>6. s \in Seq(S) /\ e \in S
  <2>1. s = [i \in 1..n |-> s[i]]
    BY ONLY <1>5
  <2>2. s \in [1..n -> S]
    BY ONLY <1>3, <2>1
  <2>3. s \in Seq(S)
    BY ONLY <2>2, n \in Nat
  <2>4. QED
    BY <1>1, <2>3
<1>7. t \in Seq(S) /\ Len(t) = n + 1 /\ t[n + 1] = e /\ \A i \in 1..n : t[i] = s[i]
    BY <1>1, <1>5, <1>6, AppendProperties
<1>8. IsSeq(t, n + 1)
    BY <1>7, SeqOfAny
<1>9. QED
    BY <1>7, <1>8 DEF Extended

-----------------------------------------------------------------------------
(* The migration.                                                           *)

LEMMA RewriteTreeIs ==
    ASSUME NEW L \in Nat, DOMAIN disk = 1..L, NEW s, IsSeq(s, L)
    PROVE  /\ IsSeq(RewriteTree(s), L + L)
           /\ \A i \in 1..L : RewriteTree(s)[i] = RemoveOf(i)
           /\ \A i \in 1..L : RewriteTree(s)[L + i] = InsertOf(s[i])
<1>1. PICK D : D = DOMAIN disk
    OBVIOUS
<1>2. D = (0 + 1)..L
    BY <1>1
<1>3. PICK keys : keys = InOrder(D)
    OBVIOUS
<1>4. DOMAIN keys = 1..(L - 0) /\ \A i \in 1..(L - 0) : keys[i] = 0 + i
    BY <1>2, <1>3, InOrderIs
<1>5. DOMAIN keys = 1..L /\ \A i \in 1..L : keys[i] = i
    BY <1>4
<1>6. DOMAIN s = 1..L
    BY SeqDomain
<1>7. PICK u, v : /\ u = [i \in DOMAIN keys |-> RemoveOf(keys[i])]
                  /\ v = [i \in DOMAIN s |-> InsertOf(s[i])]
    OBVIOUS
<1>8. RewriteTree(s) = u \o v
    BY <1>1, <1>3, <1>7, Zenon DEF RewriteTree, RemoveOf, InsertOf
<1>9. u = [i \in 1..L |-> RemoveOf(keys[i])] /\ v = [i \in 1..L |-> InsertOf(s[i])]
    BY <1>5, <1>6, <1>7, Zenon
<1>10. \A i \in 1..L : u[i] = RemoveOf(i) /\ v[i] = InsertOf(s[i])
    BY <1>5, <1>9
<1>11. IsSeq(u, L) /\ IsSeq(v, L)
  <2>1. u = [i \in 1..L |-> u[i]] /\ v = [i \in 1..L |-> v[i]]
    BY <1>9
  <2>2. QED
    BY <2>1, SeqIs
<1>12. PICK w : w = u \o v
    OBVIOUS
<1>13. Joined(w, u, v, L, L)
    BY <1>11, <1>12, SeqConcat
<1>14. QED
    BY <1>8, <1>10, <1>12, <1>13 DEF Joined

LEMMA StartMigrationKeeps ==
    ASSUME LogInv, StartMigration
    PROVE  LogInv'
<1>2. /\ phase \in {"down", "refused"}
      /\ UNCHANGED <<recorded, fresh, altered, disk, cut, stops, corpus>>
    BY DEF StartMigration
<1>a. PICK j \in DOMAIN Loaded : Loaded[j].legacy
    BY DEF StartMigration
<1>3. IF LegacyChainVerifies(Loaded)
      THEN /\ served' = Restamped(Loaded)
           /\ writes' = RewriteTree(Restamped(Loaded))
           /\ phase' = "migrating"
      ELSE phase' = "refused"
    BY DEF StartMigration
<1>4. recorded' \in Histories /\ fresh' \in Seq(NewDecisions) /\ cut' \in BOOLEAN
    BY <1>2 DEF LogInv
<1>5. CASE altered # 0
  <2>1. ~LegacyChainVerifies(Loaded)
    BY <1>5, MarredFails
  <2>2. Marred(disk, recorded, altered)
    BY <1>5 DEF LogInv
  <2>3. Marred(disk', recorded', altered') /\ altered' # 0
    BY <1>2, <1>5, <2>2
  <2>4. QED
    BY <1>3, <1>4, <2>1, <2>3 DEF LogInv
<1>6. CASE altered = 0
  <2>1. AtRest /\ altered' = 0
    BY <1>2, <1>6 DEF LogInv
  <2>2. CASE ~LegacyChainVerifies(Loaded)
    <3>1. AtRest'
      BY <1>2, <2>1 DEF AtRest
    <3>2. QED
      BY <1>3, <1>4, <2>1, <2>2, <3>1 DEF LogInv
  <2>f. PICK L \in Nat, F \in Nat : L = Len(recorded) /\ F = Len(fresh)
    BY HistoryType
  <2>4. PICK logged : L = Len(recorded) /\ logged = StoredLog(recorded) /\ F = Len(fresh)
    BY <2>f
  <2>5. DOMAIN logged = 1..L /\ OldLog(logged, L) /\ Carries(logged, recorded, L)
    BY <2>4, StoredLogIs
  <2>6. ASSUME NEW a \in 0..L, Remains(disk, recorded, a), fresh = <<>>,
               LegacyChainVerifies(Loaded)
        PROVE  LogInv'
    <3>1. DOMAIN disk = (a + 1)..L /\ \A k \in (a + 1)..L : disk[k] = logged[k]
      BY <2>4, <2>6 DEF Remains
    <3>2. PICK l : l = Loaded
      OBVIOUS
    <3>3. /\ DOMAIN l = 1..(L - a) /\ Len(l) = L - a
          /\ \A i \in 1..(L - a) : l[i] = LoadedOf(disk[a + i])
      <4>1. a \in Nat /\ a <= L /\ DOMAIN disk = (a + 1)..L
        BY <3>1
      <4>2. /\ DOMAIN Loaded = 1..(L - a) /\ Len(Loaded) = L - a
            /\ \A i \in 1..(L - a) : Loaded[i] = LoadedOf(disk[a + i])
        BY ONLY L \in Nat, <4>1, LoadedIs
      <4>3. QED
        BY ONLY <3>2, <4>2
    <3>4. 1 \in 1..(L - a) /\ a + 1 \in (a + 1)..L /\ a # L
      BY <1>a, <3>2, <3>3
    <3>5. a = 0
      <4>1. PICK e : e = disk[a + 1]
        OBVIOUS
      <4>2. l[1] = LoadedOf(e) /\ e = logged[a + 1]
        BY <3>1, <3>3, <3>4, <4>1
      <4>3. IsEntry(e)
        BY <2>5, <3>4, <4>2 DEF OldLog, Placed
      <4>4. LoadedOf(e).entry.previous = e.previous
        BY <4>3 DEF LoadedOf, IsEntry
      <4>5. l[1].entry.previous = GenesisLink
        BY <2>6, <3>2, <3>3, <3>4 DEF LegacyChainVerifies
      <4>6. QED
        BY <2>4, <3>4, <4>2, <4>4, <4>5, NoBeginning
    <3>6. Len(l) = L /\ \A i \in 1..L : l[i] = LoadedOf(logged[i])
      BY <3>1, <3>3, <3>5
    <3>7. PICK s : s = Restamped(l)
      OBVIOUS
    <3>8. NewLog(s, L) /\ Carries(s, recorded, L) /\ IsSeq(s, L)
      BY <2>5, <3>6, <3>7, RestampedIs
    <3>9. DOMAIN disk = 1..L
      BY <3>1, <3>5
    <3>10. PICK w : w = RewriteTree(s)
      OBVIOUS
    <3>11. /\ IsSeq(w, L + L)
           /\ \A i \in 1..L : w[i] = RemoveOf(i)
           /\ \A i \in 1..L : w[L + i] = InsertOf(s[i])
      BY <3>8, <3>9, <3>10, RewriteTreeIs
    <3>12. Removing(disk, w, s, recorded, 0)
      <4>1. Remains(disk, recorded, 0)
        BY <2>6, <3>5
      <4>2. L - 0 = L /\ \A i \in 1..L : 0 + i = i
        OBVIOUS
      <4>3. QED
        BY <2>4, <3>11, <4>1, <4>2 DEF Removing
    <3>13. served' = s /\ writes' = w /\ phase' = "migrating"
      BY <1>3, <2>6, <3>2, <3>7, <3>10
    <3>14. Migrating'
      <4>1. Removing(disk', writes', served', recorded', 0)
        BY <1>2, <3>12, <3>13
      <4>2. recorded' = recorded /\ fresh' = <<>> /\ 0 \in 0..Len(recorded)
        BY <1>2, <2>4, <2>6
      <4>3. QED
        BY <2>4, <3>8, <3>13, <4>1, <4>2 DEF Migrating
    <3>15. QED
      BY <1>4, <2>1, <3>13, <3>14 DEF LogInv
  <2>7. ASSUME NEW n \in 0..L, Kept(disk, recorded, fresh, n)
        PROVE  FALSE
    <3>1. PICK N \in Nat : N = n + F
      OBVIOUS
    <3>2. DOMAIN disk = (0 + 1)..N /\ NewLog(disk, N)
      BY <2>4, <2>7, <3>1 DEF Kept
    <3>3. DOMAIN Loaded = 1..(N - 0) /\ \A i \in 1..(N - 0) : Loaded[i] = LoadedOf(disk[0 + i])
      BY <3>2, LoadedIs
    <3>4. j \in 1..N /\ Loaded[j] = LoadedOf(disk[j])
      BY <3>3
    <3>5. CurrentForm(disk[j])
      BY <3>2, <3>4 DEF NewLog
    <3>6. disk[j].lane # "missing"
      BY <3>5, LaneIs DEF CurrentForm
    <3>7. QED
      BY <1>a, <3>4, <3>6, LoadedEntry
  <2>8. CASE LegacyChainVerifies(Loaded)
    BY <2>1, <2>4, <2>6, <2>7, <2>8 DEF AtRest
  <2>9. QED
    BY <2>2, <2>8
<1>7. QED
    BY <1>5, <1>6

\* When every key is removed, the first entry is to be inserted.
LEMMA Removed ==
    ASSUME NEW d, NEW w, NEW s, NEW h, Len(h) \in Nat, Removing(d, w, s, h, Len(h))
    PROVE  Inserting(d, w, s, h, 0)
<1>1. PICK L \in Nat : L = Len(h)
    OBVIOUS
<1>2. DOMAIN d = (L + 1)..L
    BY <1>1 DEF Removing, Remains
<1>3. DOMAIN d = 1..0
    BY <1>2
<1>4. IsSeq(w, (L - L) + L) /\ \A i \in 1..L : w[(L - L) + i] = InsertOf(s[i])
    BY <1>1 DEF Removing
<1>5. (L - L) + L = L - 0 /\ \A i \in 1..L : (L - L) + i = i /\ 0 + i = i
    OBVIOUS
<1>6. IsSeq(w, L - 0) /\ \A i \in 1..(L - 0) : w[i] = InsertOf(s[0 + i])
    BY <1>4, <1>5
<1>7. QED
    BY <1>1, <1>3, <1>6 DEF Inserting

LEMMA WriteOneKeeps ==
    ASSUME LogInv, WriteOne
    PROVE  LogInv'
<1>1. /\ phase = "migrating" /\ writes # <<>> /\ writes' = Tail(writes)
      /\ UNCHANGED <<recorded, fresh, altered, served, phase, cut, stops, corpus>>
    BY DEF WriteOne
<1>2. PICK w : w = Head(writes)
    OBVIOUS
<1>3. disk' = IF w.op = "remove" THEN [k \in DOMAIN disk \ {w.key} |-> disk[k]]
              ELSE Over([k \in {w.key} |-> w.entry], disk)
    BY <1>2, Zenon DEF WriteOne
<1>4. altered = 0 /\ Migrating
    BY <1>1 DEF LogInv
<1>5. PICK L \in Nat : L = Len(recorded)
    BY HistoryType
<1>6. PICK h, s : h = recorded /\ s = served
    OBVIOUS
<1>7. NewLog(s, L)
    BY <1>4, <1>5, <1>6 DEF Migrating
<1>8. ASSUME NEW a \in 0..L, a # L, Removing(disk, writes, s, h, a)
      PROVE  Removing(disk', writes', s, h, a + 1)
  <2>a. (L - a) + L \in Nat /\ L - a \in Nat /\ a + 1 \in Nat
    OBVIOUS
  <2>1. PICK n \in Nat, m \in Nat, b \in Nat : n = (L - a) + L /\ m = L - a /\ b = a + 1
    BY ONLY <2>a
  <2>2. /\ DOMAIN disk = (a + 1)..L /\ IsSeq(writes, n)
        /\ \A i \in 1..m : writes[i] = RemoveOf(a + i)
        /\ \A i \in 1..L : writes[m + i] = InsertOf(s[i])
        /\ \A k \in (a + 1)..L : disk[k] = StoredLog(h)[k]
    BY <1>5, <1>6, <1>8, <2>1 DEF Removing, Remains
  <2>3. /\ w = writes[1] /\ IsSeq(writes', n - 1)
        /\ \A i \in 1..(n - 1) : writes'[i] = writes[i + 1]
    <3>1. n # 0
      BY <1>8, <2>1
    <3>2. QED
      BY <1>1, <1>2, <2>2, <3>1, SeqTail
  <2>4. w = RemoveOf(b)
    BY <1>8, <2>1, <2>2, <2>3
  <2>5. w.op = "remove" /\ w.key = b
    BY <2>4 DEF RemoveOf
  <2>6. disk' = [k \in DOMAIN disk \ {b} |-> disk[k]]
    BY <1>3, <2>5
  <2>7. DOMAIN disk' = DOMAIN disk \ {b}
    BY <2>6, Zenon
  <2>8. DOMAIN disk' = (b + 1)..L
    BY <2>1, <2>2, <2>7
  <2>9. \A k \in (b + 1)..L : disk'[k] = StoredLog(h)[k]
    BY <2>1, <2>2, <2>6
  <2>10. \A i \in 1..(L - b) : writes'[i] = RemoveOf(b + i)
    <3>1. TAKE i \in 1..(L - b)
    <3>2. i \in 1..(n - 1) /\ i + 1 \in 1..m /\ a + (i + 1) = b + i
      BY <2>1
    <3>3. QED
      BY <2>2, <2>3, <3>2
  <2>11. \A i \in 1..L : writes'[(L - b) + i] = InsertOf(s[i])
    <3>1. TAKE i \in 1..L
    <3>2. (L - b) + i \in 1..(n - 1) /\ ((L - b) + i) + 1 = m + i
      BY <1>8, <2>1
    <3>3. QED
      BY <2>2, <2>3, <3>2
  <2>12. IsSeq(writes', (L - b) + L)
    <3>1. n - 1 = (L - b) + L
      BY <2>1
    <3>2. QED
      BY <2>3, <3>1
  <2>13. Remains(disk', h, b)
    BY <1>5, <1>6, <2>8, <2>9 DEF Remains
  <2>14. Removing(disk', writes', s, h, b)
    BY <1>5, <1>6, <2>10, <2>11, <2>12, <2>13 DEF Removing
  <2>15. QED
    BY <2>1, <2>14
<1>9. ASSUME NEW n \in 0..L, Inserting(disk, writes, s, h, n)
      PROVE  n # L /\ Inserting(disk', writes', s, h, n + 1)
  <2>1. PICK m \in Nat, b \in Nat : m = L - n /\ b = n + 1
    OBVIOUS
  <2>2. /\ DOMAIN disk = 1..n /\ IsSeq(writes, m)
        /\ \A k \in 1..n : disk[k] = s[k]
        /\ \A i \in 1..m : writes[i] = InsertOf(s[n + i])
    BY <1>5, <1>6, <1>9, <2>1 DEF Inserting
  <2>3. m # 0
    BY <1>1, <2>2, SeqEmpty
  <2>4. /\ w = writes[1] /\ IsSeq(writes', m - 1)
        /\ \A i \in 1..(m - 1) : writes'[i] = writes[i + 1]
    BY <1>1, <1>2, <2>2, <2>3, SeqTail
  <2>5. PICK e : e = s[b]
    OBVIOUS
  <2>6. w = InsertOf(e) /\ b \in 1..L
    BY <2>1, <2>2, <2>3, <2>4, <2>5
  <2>7. e.height = b
    BY <1>7, <2>5, <2>6 DEF NewLog, Placed
  <2>8. w.op # "remove" /\ w.key = b /\ w.entry = e
    BY <2>6, <2>7 DEF InsertOf
  <2>9. disk' = Over([k \in {b} |-> e], disk)
    BY <1>3, <2>8, Zenon
  <2>10. /\ DOMAIN disk' = DOMAIN disk \cup {b}
         /\ disk'[b] = e
         /\ \A k \in DOMAIN disk : k # b => disk'[k] = disk[k]
    <3>1. PutIn(Over([k \in {b} |-> e], disk), disk, b, e)
      BY OverOne
    <3>2. PutIn(disk', disk, b, e)
      BY <2>9, <3>1, Zenon
    <3>3. QED
      BY <3>2 DEF PutIn
  <2>11. DOMAIN disk' = 1..b
    BY <2>1, <2>2, <2>10
  <2>12. \A k \in 1..b : disk'[k] = s[k]
    BY <2>1, <2>2, <2>5, <2>10
  <2>13. \A i \in 1..(L - b) : writes'[i] = InsertOf(s[b + i])
    <3>1. TAKE i \in 1..(L - b)
    <3>2. i \in 1..(m - 1) /\ i + 1 \in 1..m /\ n + (i + 1) = b + i
      BY <2>1
    <3>3. QED
      BY <2>2, <2>4, <3>2
  <2>14. IsSeq(writes', L - b)
    <3>1. m - 1 = L - b
      BY <2>1
    <3>2. QED
      BY <2>4, <3>1
  <2>15. Inserting(disk', writes', s, h, b)
    BY <1>5, <1>6, <2>11, <2>12, <2>13, <2>14 DEF Inserting
  <2>16. QED
    BY <2>1, <2>3, <2>15
<1>10. \/ \E a \in 0..L : Removing(disk', writes', s, h, a)
       \/ \E n \in 0..L : Inserting(disk', writes', s, h, n)
  <2>1. \/ \E a \in 0..L : Removing(disk, writes, s, h, a)
        \/ \E n \in 0..L : Inserting(disk, writes, s, h, n)
    BY <1>4, <1>5, <1>6 DEF Migrating
  <2>2. ASSUME NEW n \in 0..L, Inserting(disk, writes, s, h, n)
        PROVE  \E b \in 0..L : Inserting(disk', writes', s, h, b)
    <3>1. n # L /\ Inserting(disk', writes', s, h, n + 1)
      BY <1>9, <2>2
    <3>2. n + 1 \in 0..L
      BY <3>1
    <3>3. QED
      BY <3>1, <3>2
  <2>3. CASE \E n \in 0..L : Inserting(disk, writes, s, h, n)
    BY <2>2, <2>3
  <2>4. ASSUME NEW a \in 0..L, Removing(disk, writes, s, h, a)
        PROVE  \/ \E b \in 0..L : Removing(disk', writes', s, h, b)
               \/ \E n \in 0..L : Inserting(disk', writes', s, h, n)
    <3>1. CASE a = L
      <4>1. Inserting(disk, writes, s, h, 0)
        BY <1>5, <1>6, <2>4, <3>1, Removed
      <4>2. QED
        BY <2>2, <4>1
    <3>2. CASE a # L
      <4>1. Removing(disk', writes', s, h, a + 1) /\ a + 1 \in 0..L
        BY <1>8, <2>4, <3>2
      <4>2. QED
        BY <4>1
    <3>3. QED
      BY <3>1, <3>2
  <2>5. QED
    BY <2>1, <2>3, <2>4
<1>11. Migrating'
    BY <1>1, <1>4, <1>5, <1>6, <1>10 DEF Migrating
<1>12. QED
    BY <1>1, <1>4, <1>11 DEF LogInv

\* A tree in which the entries of s are inserted is a log of this version.
LEMMA InsertedKept ==
    ASSUME NEW L \in Nat, NEW h, L = Len(h), NEW s, NewLog(s, L), Carries(s, h, L),
           NEW n \in 0..L, NEW d, NEW w, Inserting(d, w, s, h, n)
    PROVE  Kept(d, h, <<>>, n)
<1>1. DOMAIN d = 1..n /\ \A k \in 1..n : d[k] = s[k]
    BY DEF Inserting
<1>2. ASSUME NEW k \in 1..n
      PROVE  Placed(d, k) /\ CurrentForm(d[k]) /\ Holds(d[k], h[k])
  <2>1. k \in 1..L /\ d[k] = s[k]
    BY <1>1
  <2>2. Placed(s, k) /\ CurrentForm(s[k]) /\ Holds(s[k], h[k])
    BY <2>1 DEF NewLog, Carries
  <2>3. Link(d, k) = Link(s, k)
    <3>1. CASE k = 1
      BY <3>1 DEF Link
    <3>2. CASE k # 1
      <4>1. k - 1 \in 1..n
        BY <3>2
      <4>2. d[k - 1] = s[k - 1]
        BY <1>1, <4>1
      <4>3. QED
        BY <3>2, <4>2 DEF Link
    <3>3. QED
      BY <3>1, <3>2
  <2>4. QED
    BY <2>1, <2>2, <2>3 DEF Placed
<1>3. NewLog(d, n) /\ Carries(d, h, n)
    BY <1>2 DEF NewLog, Carries
<1>4. Len(<<>>) = 0 /\ n + 0 = n
    OBVIOUS
<1>5. QED
    BY <1>1, <1>3, <1>4 DEF Kept

LEMMA FinishMigrationKeeps ==
    ASSUME LogInv, FinishMigration
    PROVE  LogInv'
<1>1. /\ phase = "migrating" /\ writes = <<>> /\ phase' \in {"up", "refused"}
      /\ UNCHANGED <<recorded, fresh, altered, disk, writes, served, cut, stops, corpus>>
    BY DEF FinishMigration
<1>2. altered = 0 /\ Migrating
    BY <1>1 DEF LogInv
<1>3. PICK L \in Nat : L = Len(recorded)
    BY HistoryType
<1>4. PICK h, s : h = recorded /\ s = served
    OBVIOUS
<1>5. IsSeq(s, L) /\ NewLog(s, L) /\ Carries(s, h, L) /\ fresh = <<>>
    BY <1>2, <1>3, <1>4 DEF Migrating
<1>6. Inserting(disk, writes, s, h, L)
  <2>1. ASSUME NEW n \in 0..L, Inserting(disk, writes, s, h, n) PROVE n = L
    <3>1. PICK m \in Nat : m = L - n
      OBVIOUS
    <3>2. IsSeq(writes, m)
      BY <1>3, <1>4, <2>1, <3>1 DEF Inserting
    <3>3. m = 0
      BY <1>1, <3>2, SeqEmpty
    <3>4. QED
      BY <3>1, <3>3
  <2>2. ASSUME NEW a \in 0..L, Removing(disk, writes, s, h, a)
        PROVE  Inserting(disk, writes, s, h, L)
    <3>a. (L - a) + L \in Nat
      OBVIOUS
    <3>1. PICK m \in Nat : m = (L - a) + L
      BY ONLY <3>a
    <3>2. IsSeq(writes, m)
      BY <1>3, <1>4, <2>2, <3>1 DEF Removing
    <3>3. m = 0
      BY <1>1, <3>2, SeqEmpty
    <3>4. a = L /\ L = 0
      BY <3>1, <3>3
    <3>5. Inserting(disk, writes, s, h, 0)
      BY <1>3, <1>4, <2>2, <3>4, Removed
    <3>6. QED
      BY <3>4, <3>5
  <2>3. \/ \E a \in 0..L : Removing(disk, writes, s, h, a)
        \/ \E n \in 0..L : Inserting(disk, writes, s, h, n)
    BY <1>2, <1>3, <1>4 DEF Migrating
  <2>4. CASE \E n \in 0..L : Inserting(disk, writes, s, h, n)
    BY <2>1, <2>4
  <2>5. CASE \E a \in 0..L : Removing(disk, writes, s, h, a)
    BY <2>2, <2>5
  <2>6. QED
    BY <2>3, <2>4, <2>5
<1>7. Kept(disk, h, fresh, L)
    BY <1>3, <1>4, <1>5, <1>6, InsertedKept
<1>8. Kept(disk', recorded', fresh', L) /\ L = Len(recorded') /\ L \in 0..Len(recorded')
    BY <1>1, <1>3, <1>4, <1>7
<1>9. AtRest'
    BY <1>8 DEF AtRest
<1>10. Serving'
  <2>1. \A k \in DOMAIN disk : served[k] = disk[k]
    BY <1>4, <1>6 DEF Inserting
  <2>2. IsSeq(served', L + Len(fresh'))
    <3>1. L + Len(<<>>) = L
      OBVIOUS
    <3>2. QED
      BY <1>1, <1>4, <1>5, <3>1
  <2>3. QED
    BY <1>1, <1>8, <2>1, <2>2 DEF Serving
<1>11. QED
    BY <1>1, <1>2, <1>9, <1>10 DEF LogInv

LEMMA HaltKeeps ==
    ASSUME LogInv, Halt
    PROVE  LogInv'
<1>1. /\ phase \in {"migrating", "up"} /\ phase' = "down" /\ cut' = (cut \/ writes # <<>>)
      /\ UNCHANGED <<recorded, fresh, altered, disk>>
    BY DEF Halt
<1>2. altered = 0
    BY <1>1 DEF LogInv
<1>c. /\ cut \in BOOLEAN /\ cut' \in BOOLEAN /\ (cut => cut') /\ (writes # <<>> => cut')
    BY <1>1, Zenon DEF LogInv
<1>3. PICK L \in Nat : L = Len(recorded)
    BY HistoryType
<1>4. CASE phase = "up"
  <2>1. PICK n \in 0..L : (n = L \/ cut) /\ Kept(disk, recorded, fresh, n)
    BY <1>2, <1>3, <1>4 DEF LogInv, Serving
  <2>2. AtRest'
    BY <1>1, <1>3, <1>c, <2>1 DEF AtRest
  <2>3. QED
    BY <1>1, <1>2, <1>c, <2>2 DEF LogInv
<1>5. CASE phase = "migrating"
  <2>1. Migrating
    BY <1>2, <1>5 DEF LogInv
  <2>2. PICK h, s : h = recorded /\ s = served
    OBVIOUS
  <2>3. IsSeq(s, L) /\ NewLog(s, L) /\ Carries(s, h, L) /\ fresh = <<>>
    BY <1>3, <2>1, <2>2 DEF Migrating
  <2>4. ASSUME NEW a \in 0..L, Removing(disk, writes, s, h, a)
        PROVE  AtRest'
    <3>a. (L - a) + L \in Nat
      OBVIOUS
    <3>1. PICK m \in Nat : m = (L - a) + L
      BY ONLY <3>a
    <3>2. IsSeq(writes, m) /\ Remains(disk, h, a)
      BY <1>3, <2>2, <2>4, <3>1 DEF Removing
    <3>3. a # 0 => writes # <<>>
      BY <3>1, <3>2, SeqEmpty
    <3>4. QED
      BY <1>1, <1>3, <1>c, <2>2, <2>3, <3>2, <3>3 DEF AtRest
  <2>5. ASSUME NEW n \in 0..L, Inserting(disk, writes, s, h, n)
        PROVE  AtRest'
    <3>1. PICK m \in Nat : m = L - n
      OBVIOUS
    <3>2. IsSeq(writes, m)
      BY <1>3, <2>2, <2>5, <3>1 DEF Inserting
    <3>3. n # L => writes # <<>>
      BY <3>1, <3>2, SeqEmpty
    <3>4. Kept(disk, h, fresh, n)
      BY <1>3, <2>2, <2>3, <2>5, InsertedKept
    <3>5. QED
      BY <1>1, <1>3, <1>c, <2>2, <3>3, <3>4 DEF AtRest
  <2>6. \/ \E a \in 0..L : Removing(disk, writes, s, h, a)
        \/ \E n \in 0..L : Inserting(disk, writes, s, h, n)
    BY <1>3, <2>1, <2>2 DEF Migrating
  <2>7. AtRest'
    BY <2>4, <2>5, <2>6
  <2>8. QED
    BY <1>1, <1>2, <1>c, <2>7 DEF LogInv
<1>6. QED
    BY <1>1, <1>4, <1>5

\* One more entry on a log of this version.
LEMMA KeptGrows ==
    ASSUME NEW d, NEW h, NEW f, NEW F \in Nat, IsSeq(f, F), NEW n \in Nat, Kept(d, h, f, n),
           NEW c, NEW e, NEW b, b = n + F + 1, e = NewEntry(c, b, Link(d, b)),
           NEW x, PutIn(x, d, b, e)
    PROVE  Kept(x, h, Append(f, c), n)
<1>1. PICK N \in Nat : N = n + F
    OBVIOUS
<1>2. /\ DOMAIN d = 1..N /\ NewLog(d, N) /\ Carries(d, h, n)
      /\ \A k \in 1..F : Holds(d[n + k], f[k])
    BY <1>1 DEF Kept, IsSeq
<1>3. DOMAIN x = 1..b /\ x[b] = e /\ \A k \in 1..N : x[k] = d[k]
  <2>1. DOMAIN x = DOMAIN d \cup {b} /\ x[b] = e /\ \A k \in DOMAIN d : k # b => x[k] = d[k]
    BY DEF PutIn
  <2>2. b = N + 1
    BY <1>1
  <2>3. QED
    BY ONLY <1>2, <2>1, <2>2, N \in Nat
<1>4. IsEntry(e) /\ e.height = b /\ e.previous = Link(d, b) /\ Holds(e, c) /\ CurrentForm(e)
    BY NewEntryIs
<1>5. PICK g : g = Append(f, c)
    OBVIOUS
<1>6. IsSeq(g, F + 1) /\ g[F + 1] = c /\ \A i \in 1..F : g[i] = f[i]
  <2>1. Extended(g, f, F, c)
    BY <1>5, SeqAppend
  <2>2. QED
    BY <2>1 DEF Extended
<1>7. \A k \in 1..b : Link(x, k) = Link(d, k)
  <2>1. TAKE k \in 1..b
  <2>2. CASE k = 1
    BY <2>2 DEF Link
  <2>3. CASE k # 1
    <3>1. k - 1 \in 1..N
      BY <1>1, <2>3
    <3>2. x[k - 1] = d[k - 1]
      BY <1>3, <3>1
    <3>3. QED
      BY <2>3, <3>2 DEF Link
  <2>4. QED
    BY <2>2, <2>3
<1>8. NewLog(x, b)
  <2>1. ASSUME NEW k \in 1..b PROVE Placed(x, k) /\ CurrentForm(x[k])
    <3>1. CASE k = b
      BY <1>3, <1>4, <1>7, <3>1 DEF Placed
    <3>2. CASE k # b
      <4>1. k \in 1..N
        BY <1>1, <3>2
      <4>2. Placed(d, k) /\ CurrentForm(d[k]) /\ x[k] = d[k]
        BY <1>2, <1>3, <4>1 DEF NewLog
      <4>3. QED
        BY <1>7, <4>2 DEF Placed
    <3>3. QED
      BY <3>1, <3>2
  <2>2. QED
    BY <2>1 DEF NewLog
<1>9. Carries(x, h, n)
    BY <1>1, <1>2, <1>3 DEF Carries
<1>10. \A k \in 1..(F + 1) : Holds(x[n + k], g[k])
  <2>1. TAKE k \in 1..(F + 1)
  <2>2. CASE k = F + 1
    <3>1. n + k = b
      BY <2>2
    <3>2. QED
      BY <1>3, <1>4, <1>6, <2>2, <3>1
  <2>3. CASE k # F + 1
    <3>1. k \in 1..F /\ n + k \in 1..N
      BY <1>1, <2>3
    <3>2. QED
      BY <1>2, <1>3, <1>6, <3>1
  <2>4. QED
    BY <2>2, <2>3
<1>11. Len(g) = F + 1 /\ n + (F + 1) = b
    BY <1>6 DEF IsSeq
<1>12. QED
    BY <1>3, <1>5, <1>8, <1>9, <1>10, <1>11 DEF Kept

\* The place and the link of the next entry.
LEMMA NextPlace ==
    ASSUME LogInv, phase = "up"
    PROVE  \E n \in 0..Len(recorded), N \in Nat :
             /\ n = Len(recorded) \/ cut
             /\ N = n + Len(fresh)
             /\ Kept(disk, recorded, fresh, n) /\ IsSeq(served, N)
             /\ DOMAIN disk = 1..N /\ NewLog(disk, N)
             /\ \A k \in 1..N : served[k] = disk[k]
             /\ (IF served = <<>> THEN 0 ELSE served[Len(served)].height) + 1 = N + 1
             /\ LastHash(served) = Link(disk, N + 1)
<1>1. altered = 0
    BY DEF LogInv
<1>2. Serving
    BY <1>1 DEF LogInv
<1>3. PICK n \in 0..Len(recorded) : /\ n = Len(recorded) \/ cut
                                    /\ Kept(disk, recorded, fresh, n)
                                    /\ IsSeq(served, n + Len(fresh))
    BY <1>2 DEF Serving
<1>4. Len(recorded) \in Nat /\ Len(fresh) \in Nat
    BY HistoryType
<1>5. n + Len(fresh) \in Nat
    BY <1>3, <1>4
<1>6. PICK N \in Nat : N = n + Len(fresh)
    BY ONLY <1>5
<1>7. DOMAIN disk = 1..N /\ NewLog(disk, N) /\ IsSeq(served, N)
    BY <1>3, <1>6 DEF Kept
<1>8. \A k \in 1..N : served[k] = disk[k]
    BY <1>2, <1>7 DEF Serving
<1>9. Len(served) = N /\ (served = <<>> <=> N = 0)
    BY <1>7, SeqEmpty DEF IsSeq
<1>10. (IF served = <<>> THEN 0 ELSE served[Len(served)].height) + 1 = N + 1
  <2>1. CASE N = 0
    BY <1>9, <2>1
  <2>2. CASE N # 0
    <3>1. N \in 1..N
      BY <2>2
    <3>2. served[N].height = N
      BY <1>7, <1>8, <3>1 DEF NewLog, Placed
    <3>3. QED
      BY <1>9, <2>2, <3>2
  <2>3. QED
    BY <2>1, <2>2
<1>11. LastHash(served) = Link(disk, N + 1)
  <2>1. CASE N = 0
    BY <1>9, <2>1 DEF LastHash, Link
  <2>2. CASE N # 0
    <3>1. N \in 1..N /\ N + 1 # 1 /\ (N + 1) - 1 = N
      BY <2>2
    <3>2. served[N] = disk[N]
      BY <1>8, <3>1
    <3>3. Link(disk, N + 1) = disk[N].hash
      BY <3>1 DEF Link
    <3>4. QED
      BY <1>9, <2>2, <3>2, <3>3 DEF LastHash
  <2>3. QED
    BY <2>1, <2>2
<1>12. QED
    BY ONLY <1>3, <1>6, <1>7, <1>8, <1>10, <1>11

\* The step of a decision, in terms of that place.
LEMMA RecordedAt ==
    ASSUME LogInv, NEW d \in NewDecisions, RecordDecision(d)
    PROVE  \E n, N, e :
             /\ n \in 0..Len(recorded) /\ N \in Nat
             /\ n = Len(recorded) \/ cut
             /\ N = n + Len(fresh) /\ e = NewEntry(d, N + 1, Link(disk, N + 1))
             /\ Kept(disk, recorded, fresh, n) /\ IsSeq(served, N)
             /\ DOMAIN disk = 1..N /\ NewLog(disk, N)
             /\ \A k \in 1..N : served[k] = disk[k]
             /\ served' = Append(served, e) /\ PutIn(disk', disk, N + 1, e)
<1>1. phase = "up"
    BY DEF RecordDecision
<1>2. PICK n \in 0..Len(recorded), N \in Nat :
             /\ n = Len(recorded) \/ cut
             /\ N = n + Len(fresh)
             /\ Kept(disk, recorded, fresh, n) /\ IsSeq(served, N)
             /\ DOMAIN disk = 1..N /\ NewLog(disk, N)
             /\ \A k \in 1..N : served[k] = disk[k]
             /\ (IF served = <<>> THEN 0 ELSE served[Len(served)].height) + 1 = N + 1
             /\ LastHash(served) = Link(disk, N + 1)
    BY <1>1, NextPlace
<1>3. PICK b, p : b = N + 1 /\ p = Link(disk, b)
    OBVIOUS
<1>4. PICK e : e = NewEntry(d, b, p)
    OBVIOUS
<1>5. e = NewEntry(d, (IF served = <<>> THEN 0 ELSE served[Len(served)].height) + 1,
                   LastHash(served))
    BY <1>2, <1>3, <1>4, Zenon
<1>6. served' = Append(served, e) /\ disk' = Over([k \in {e.height} |-> e], disk)
    BY <1>5, Zenon DEF RecordDecision
<1>7. e.height = b
    BY <1>4, NewEntryIs
<1>8. PutIn(Over([k \in {b} |-> e], disk), disk, b, e)
    BY OverOne
<1>9. PutIn(disk', disk, b, e)
    BY <1>6, <1>7, <1>8, Zenon
<1>10. e = NewEntry(d, N + 1, Link(disk, N + 1)) /\ PutIn(disk', disk, N + 1, e)
    BY <1>3, <1>4, <1>9, Zenon
<1>11. served' = Append(served, e)
    BY <1>6
<1>12. QED
    BY ONLY <1>2, <1>10, <1>11, Zenon

LEMMA RecordDecisionKeeps ==
    ASSUME LogInv, NEW d \in NewDecisions, RecordDecision(d)
    PROVE  LogInv'
<1>1. /\ phase = "up" /\ phase' = "up" /\ fresh' = Append(fresh, d)
      /\ UNCHANGED <<recorded, altered, writes, cut, stops, corpus>>
    BY DEF RecordDecision
<1>2. altered = 0
    BY <1>1 DEF LogInv
<1>3. PICK n, N, e :
             /\ n \in 0..Len(recorded) /\ N \in Nat
             /\ n = Len(recorded) \/ cut
             /\ N = n + Len(fresh) /\ e = NewEntry(d, N + 1, Link(disk, N + 1))
             /\ Kept(disk, recorded, fresh, n) /\ IsSeq(served, N)
             /\ DOMAIN disk = 1..N /\ NewLog(disk, N)
             /\ \A k \in 1..N : served[k] = disk[k]
             /\ served' = Append(served, e) /\ PutIn(disk', disk, N + 1, e)
    BY RecordedAt
<1>3a. N \in Nat
    BY <1>3
<1>4. PICK L \in Nat, F \in Nat : L = Len(recorded) /\ F = Len(fresh)
    BY HistoryType
<1>5. fresh \in Seq(NewDecisions)
    BY DEF LogInv
<1>6. IsSeq(fresh, F)
    BY <1>4, <1>5, SeqOfAny
<1>7. PICK b \in Nat, m \in Nat : b = N + 1 /\ m = n
    BY <1>3, <1>4
<1>8. e = NewEntry(d, b, Link(disk, b)) /\ PutIn(disk', disk, b, e) /\ b = m + F + 1
    BY <1>3, <1>4, <1>7
<1>9. Kept(disk', recorded, fresh', m)
    BY <1>1, <1>3, <1>6, <1>7, <1>8, KeptGrows
<1>10. Extended(served', served, N, e)
    BY <1>3, SeqAppend
<1>11. Extended(fresh', fresh, F, d)
    BY <1>1, <1>6, SeqAppend
<1>12. fresh' \in Seq(NewDecisions)
    BY <1>1, <1>5, AppendProperties
<1>13. Len(fresh') = F + 1
    BY <1>11 DEF Extended, IsSeq
<1>14. IsSeq(served', m + Len(fresh'))
  <2>1. N + 1 = m + (F + 1)
    BY <1>3, <1>4, <1>7
  <2>2. QED
    BY <1>10, <1>13, <2>1 DEF Extended
<1>15. \A k \in DOMAIN disk' : served'[k] = disk'[k]
  <2>1. DOMAIN disk' = 1..b /\ disk'[b] = e /\ \A k \in 1..N : disk'[k] = disk[k]
    <3>1. /\ DOMAIN disk' = DOMAIN disk \cup {b} /\ disk'[b] = e
          /\ \A k \in DOMAIN disk : k # b => disk'[k] = disk[k]
      BY <1>8 DEF PutIn
    <3>2. b = N + 1 /\ DOMAIN disk = 1..N
      BY <1>3, <1>7
    <3>3. QED
      BY ONLY <3>1, <3>2, <1>3a
  <2>2. served'[b] = e /\ \A k \in 1..N : served'[k] = disk[k]
    BY <1>3, <1>7, <1>10 DEF Extended
  <2>3. b = N + 1
    BY <1>7
  <2>4. QED
    BY ONLY <2>1, <2>2, <2>3, <1>3a
<1>16. Serving'
  <2>1. m \in 0..Len(recorded') /\ (m = Len(recorded') \/ cut')
    BY <1>1, <1>3, <1>7
  <2>2. Kept(disk', recorded', fresh', m)
    BY <1>1, <1>9
  <2>3. QED
    BY <1>14, <1>15, <2>1, <2>2 DEF Serving
<1>17. recorded' \in Histories /\ cut' \in BOOLEAN /\ altered' = 0
    BY <1>1, <1>2 DEF LogInv
<1>18. QED
    BY <1>1, <1>12, <1>16, <1>17 DEF LogInv

LEMMA ExportKeepsLog ==
    ASSUME LogInv, NEW internal, export_training_corpus_with_manifest(internal)
    PROVE  LogInv'
<1>1. UNCHANGED <<recorded, fresh, altered, disk, writes, served, phase, cut, stops>>
    BY DEF export_training_corpus_with_manifest
<1>2. (AtRest' <=> AtRest) /\ (Migrating' <=> Migrating) /\ (Serving' <=> Serving)
    BY <1>1 DEF AtRest, Migrating, Serving
<1>3. QED
    BY <1>1, <1>2 DEF LogInv

LEMMA LogInvNext == LogInv /\ [LanesNext]_laneVars => LogInv'
<1> SUFFICES ASSUME LogInv, [LanesNext]_laneVars PROVE LogInv'
    OBVIOUS
<1>1. CASE StartCurrent
    BY <1>1, StartCurrentKeeps
<1>2. CASE StartMigration
    BY <1>2, StartMigrationKeeps
<1>3. CASE WriteOne
    BY <1>3, WriteOneKeeps
<1>4. CASE FinishMigration
    BY <1>4, FinishMigrationKeeps
<1>5. CASE Halt
    BY <1>5, HaltKeeps
<1>6. CASE \E d \in NewDecisions : RecordDecision(d)
    BY <1>6, RecordDecisionKeeps
<1>7. CASE \E internal \in BOOLEAN : export_training_corpus_with_manifest(internal)
    BY <1>7, ExportKeepsLog
<1>8. CASE UNCHANGED laneVars
  <2>1. (AtRest' <=> AtRest) /\ (Migrating' <=> Migrating) /\ (Serving' <=> Serving)
    BY <1>8 DEF laneVars, AtRest, Migrating, Serving
  <2>2. QED
    BY <1>8, <2>1 DEF laneVars, LogInv
<1>9. QED
    BY <1>1, <1>2, <1>3, <1>4, <1>5, <1>6, <1>7, <1>8 DEF LanesNext

LEMMA DecisionsAre ==
    ASSUME NEW s, NEW n \in Nat, IsSeq(s, n)
    PROVE  IsSeq(DecisionsOf(s), n) /\ \A i \in 1..n : DecisionsOf(s)[i] = DecisionOf(s[i])
<1>1. PICK t : t = DecisionsOf(s)
    OBVIOUS
<1>2. DOMAIN s = 1..n
    BY SeqDomain
<1>3. t = [i \in 1..n |-> DecisionOf(s[i])]
    BY <1>1, <1>2, Zenon DEF DecisionsOf
<1>4. \A i \in 1..n : t[i] = DecisionOf(s[i])
    BY <1>3
<1>5. t = [i \in 1..n |-> t[i]]
    BY <1>3
<1>6. IsSeq(t, n)
    BY <1>5, SeqIs
<1>7. QED
    BY <1>1, <1>4, <1>6

\* Sequences of one length with the same elements.
LEMMA SeqSame ==
    ASSUME NEW s, NEW t, NEW n \in Nat, IsSeq(s, n), IsSeq(t, n), \A i \in 1..n : s[i] = t[i]
    PROVE  s = t
<1>1. PICK A, B : A = Range(s) /\ B = Range(t)
    OBVIOUS
<1>2. s \in Seq(A) /\ t \in Seq(B) /\ Len(s) = n /\ Len(t) = n
    BY <1>1 DEF IsSeq
<1>3. s = [i \in 1..n |-> s[i]] /\ t = [i \in 1..n |-> t[i]]
    BY ONLY <1>2
<1>4. QED
    BY <1>3

LEMMA LogInvSound == LogInv => HistorySound
<1> SUFFICES ASSUME LogInv PROVE HistorySound
    OBVIOUS
<1>1. AlteredRefused
  <2>1. SUFFICES ASSUME altered # 0 PROVE /\ phase \in {"down", "refused"}
                                          /\ \E k \in DOMAIN disk : disk[k].body = "altered"
    BY DEF AlteredRefused
  <2>2. Marred(disk, recorded, altered) /\ phase \in {"down", "refused"}
    BY <2>1 DEF LogInv
  <2>3. QED
    BY <2>2 DEF Marred
<1>2. HistoryKept
  <2>1. SUFFICES ASSUME phase = "up"
                 PROVE  \E n \in 0..Len(recorded) :
                          /\ cut \/ n = Len(recorded)
                          /\ DecisionsOf(served) =
                               SubSeq(DecisionsOf(recorded), 1, n) \o DecisionsOf(fresh)
    BY DEF HistoryKept
  <2>2. PICK n \in 0..Len(recorded), N \in Nat :
             /\ n = Len(recorded) \/ cut
             /\ N = n + Len(fresh)
             /\ Kept(disk, recorded, fresh, n) /\ IsSeq(served, N)
             /\ DOMAIN disk = 1..N /\ NewLog(disk, N)
             /\ \A k \in 1..N : served[k] = disk[k]
    BY <2>1, NextPlace
  <2>3. PICK L \in Nat, F \in Nat : L = Len(recorded) /\ F = Len(fresh)
    BY HistoryType
  <2>4. PICK h, f : h = recorded /\ f = fresh
    OBVIOUS
  <2>5. IsSeq(h, L) /\ IsSeq(f, F)
    <3>1. f \in Seq(NewDecisions) /\ h \in Seq(Range(h))
      BY <2>4, HistoryType DEF LogInv
    <3>2. QED
      BY <2>3, <2>4, <3>1, SeqOfAny
  <2>6. PICK r, v, t : r = DecisionsOf(h) /\ v = DecisionsOf(f) /\ t = DecisionsOf(served)
    OBVIOUS
  <2>7. /\ IsSeq(r, L) /\ IsSeq(v, F) /\ IsSeq(t, N)
        /\ \A i \in 1..L : r[i] = DecisionOf(h[i])
        /\ \A i \in 1..F : v[i] = DecisionOf(f[i])
        /\ \A i \in 1..N : t[i] = DecisionOf(served[i])
    BY <2>2, <2>5, <2>6, DecisionsAre
  <2>m. PICK m \in Nat : m = n /\ m <= L
    BY <2>3
  <2>8. PICK u : m = n /\ u = SubSeq(r, 1, m) /\ m <= L
    BY <2>m
  <2>9. IsSeq(u, m) /\ \A i \in 1..m : u[i] = r[i]
    <3>1. PICK S : S = Range(r)
      OBVIOUS
    <3>2. DOMAIN r = 1..L
      BY <2>7, SeqDomain
    <3>3. \A i \in 1..m : r[i] \in S
      BY <2>8, <3>1, <3>2 DEF Range
    <3>4. /\ u \in Seq(S) /\ Len(u) = IF 1 <= m THEN m - 1 + 1 ELSE 0
          /\ \A i \in 1..(m - 1 + 1) : u[i] = r[1 + i - 1]
      BY <2>8, <3>3, SubSeqProperties
    <3>5. Len(u) = m /\ \A i \in 1..m : u[i] = r[i]
      BY <3>4
    <3>6. IsSeq(u, m)
      BY <3>4, <3>5, SeqOfAny
    <3>7. QED
      BY <3>5, <3>6
  <2>10. PICK w : w = u \o v
    OBVIOUS
  <2>11. Joined(w, u, v, m, F)
    BY <2>7, <2>9, <2>10, SeqConcat
  <2>12. IsSeq(w, N)
    BY <2>2, <2>3, <2>8, <2>11 DEF Joined
  <2>13. ASSUME NEW k \in 1..N PROVE t[k] = w[k]
    <3>1. t[k] = DecisionOf(disk[k])
      BY <2>2, <2>7
    <3>2. CASE k <= m
      <4>1. k \in 1..m /\ k \in 1..L
        BY <2>8, <3>2
      <4>2. w[k] = DecisionOf(h[k])
        BY <2>7, <2>9, <2>11, <4>1 DEF Joined
      <4>3. Holds(disk[k], h[k])
        BY <2>2, <2>4, <2>8, <4>1 DEF Kept, Carries
      <4>4. QED
        BY <3>1, <4>2, <4>3 DEF Holds, DecisionOf
    <3>3. CASE ~(k <= m)
      <4>1. PICK i \in 1..F : k = m + i
        <5>1. k - m \in 1..F /\ k = m + (k - m)
          BY <2>2, <2>3, <2>8, <3>3
        <5>2. QED
          BY <5>1
      <4>2. w[k] = DecisionOf(f[i])
        BY <2>7, <2>11, <4>1 DEF Joined
      <4>3. Holds(disk[k], f[i])
        BY <2>2, <2>3, <2>4, <2>8, <4>1 DEF Kept
      <4>4. QED
        BY <3>1, <4>2, <4>3 DEF Holds, DecisionOf
    <3>4. QED
      BY <3>2, <3>3
  <2>14. t = w
    BY <2>7, <2>12, <2>13, SeqSame
  <2>15. n \in 0..Len(recorded) /\ (cut \/ n = Len(recorded))
    BY <2>2
  <2>16. DecisionsOf(served) = SubSeq(DecisionsOf(recorded), 1, n) \o DecisionsOf(fresh)
    BY <2>4, <2>6, <2>8, <2>10, <2>14, Zenon
  <2>17. QED
    BY <2>15, <2>16, Zenon
<1>3. QED
    BY <1>1, <1>2 DEF HistorySound

\* Through every migration, crash and restart, a running ledger serves what was
\* recorded, and a log with an altered entry is refused.
THEOREM HistoryAlwaysSound == LanesSpec => []HistorySound
<1>1. LanesSpec => []LogInv
    BY LogInvInit, LogInvNext, PTL DEF LanesSpec
<1>2. QED
    BY <1>1, LogInvSound, PTL

-----------------------------------------------------------------------------
(* Training records.                                                        *)

PlainRecord(e) ==
    LET redacted == training_policy(e.lane) = "allowed-redacted"
    IN  [height    |-> e.height,
         lane      |-> e.lane,
         decision  |-> e.body,
         reasoning |-> IF redacted THEN "none" ELSE "full",
         context   |-> IF redacted THEN e.lane ELSE e.context,
         metadata  |-> sanitize_training_metadata(e.metadata, redacted)]

LEMMA RecordIs ==
    ASSUME NEW e
    PROVE  training_record_from_entry(e) =
             IF is_legacy_pending_training_completion(PlainRecord(e).metadata)
             THEN reclassify_legacy_pending_training_record(PlainRecord(e))
             ELSE PlainRecord(e)
    BY Zenon DEF training_record_from_entry, PlainRecord

LEMMA RecordParts ==
    ASSUME NEW e, NEW r, r = training_record_from_entry(e)
    PROVE  /\ r.height = e.height /\ r.lane = e.lane
           /\ "q_training_migration" \notin DOMAIN r.metadata => r = PlainRecord(e)
<1>1. PICK p : p = PlainRecord(e)
    OBVIOUS
<1>2. r = IF is_legacy_pending_training_completion(p.metadata)
          THEN reclassify_legacy_pending_training_record(p) ELSE p
    BY <1>1, RecordIs
<1>3. PICK red : red = (training_policy(e.lane) = "allowed-redacted")
    OBVIOUS
<1>4. PICK x, y, m : p = [height |-> e.height, lane |-> e.lane, decision |-> e.body,
                          reasoning |-> x, context |-> y, metadata |-> m]
    BY <1>1, Zenon DEF PlainRecord
<1>5. p.height = e.height /\ p.lane = e.lane
    BY <1>4
<1>6. CASE ~is_legacy_pending_training_completion(p.metadata)
    BY <1>1, <1>2, <1>5, <1>6
<1>7. CASE is_legacy_pending_training_completion(p.metadata)
  <2>1. r = reclassify_legacy_pending_training_record(p)
    BY <1>2, <1>7
  <2>2. PICK f, g : /\ f = [event |-> "gradient_quorum_reached",
                            aggregation_metric_status |-> "pending_aggregation",
                            q_training_migration |-> "v3.2.11"]
                    /\ g = Over(p.metadata,
                                [legacy_event |-> p.metadata["event"],
                                 legacy_aggregation_metric_status |->
                                     p.metadata["aggregation_metric_status"]])
    OBVIOUS
  <2>3. r = [p EXCEPT !.metadata = Over(f, g), !.decision = "gradient_quorum_reached",
                      !.reasoning = "with note"]
    BY <2>1, <2>2, Zenon DEF reclassify_legacy_pending_training_record
  <2>4. PICK o : o = Over(f, g)
    OBVIOUS
  <2>5. r.height = p.height /\ r.lane = p.lane /\ r.metadata = o
    BY <1>4, <2>3, <2>4
  <2>6. "q_training_migration" \in DOMAIN f
    BY <2>2
  <2>7. DOMAIN o = DOMAIN f \cup DOMAIN g
    BY <2>4, Zenon DEF Over
  <2>8. QED
    BY <1>5, <2>5, <2>6, <2>7
<1>8. QED
    BY <1>6, <1>7

\* A public record is not reclassified, and it is redacted.
LEMMA PublicRecord ==
    ASSUME NEW e, e.lane = "public", NEW r, r = training_record_from_entry(e)
    PROVE  /\ r.reasoning = "none"
           /\ \A k \in DOMAIN r.metadata :
                /\ is_public_training_metadata_key(k)
                /\ r.metadata[k] \notin {"secret", "identity", "classified"}
<1>1. training_policy(e.lane) = "allowed-redacted"
    BY DEF training_policy
<1>2. PICK m : m = sanitize_training_metadata(e.metadata, TRUE)
    OBVIOUS
<1>3. PICK kept : kept = {k \in DOMAIN e.metadata :
                   /\ ~is_sensitive_training_metadata_key(k)
                   /\ TRUE => is_public_training_metadata_key(k)
                   /\ is_training_metadata_value_safe(k, e.metadata[k], TRUE)}
    OBVIOUS
<1>4. m = [k \in kept |-> e.metadata[k]]
    BY <1>2, <1>3, Zenon DEF sanitize_training_metadata
<1>5. DOMAIN m = kept /\ \A k \in kept : m[k] = e.metadata[k]
    BY <1>4
<1>6. \A k \in kept : is_public_training_metadata_key(k)
    BY <1>3
<1>7. \A k \in kept : e.metadata[k] \notin {"secret", "identity", "classified"}
    BY <1>3 DEF is_training_metadata_value_safe
<1>8. ~is_legacy_pending_training_completion(m)
  <2>1. "event" \notin DOMAIN m
    BY <1>5, <1>6 DEF is_public_training_metadata_key
  <2>2. QED
    BY <2>1 DEF is_legacy_pending_training_completion
<1>9. PICK p : p = PlainRecord(e)
    OBVIOUS
<1>10. p.metadata = m /\ p.reasoning = "none"
  <2>1. (training_policy(e.lane) = "allowed-redacted") = TRUE
    BY <1>1
  <2>2. p = [height |-> e.height, lane |-> e.lane, decision |-> e.body,
             reasoning |-> IF TRUE THEN "none" ELSE "full",
             context   |-> IF TRUE THEN e.lane ELSE e.context,
             metadata  |-> sanitize_training_metadata(e.metadata, TRUE)]
    BY <1>9, <2>1, Zenon DEF PlainRecord
  <2>3. QED
    BY <1>2, <2>2
<1>11. r = p
    BY <1>8, <1>9, <1>10, RecordIs
<1>12. QED
    BY <1>5, <1>6, <1>7, <1>10, <1>11

\* Sanitizing only removes keys.
LEMMA PlainKeys ==
    ASSUME NEW e
    PROVE  DOMAIN PlainRecord(e).metadata \subseteq DOMAIN e.metadata
<1>1. PICK red : red = (training_policy(e.lane) = "allowed-redacted")
    OBVIOUS
<1>2. PICK m : m = sanitize_training_metadata(e.metadata, red)
    OBVIOUS
<1>3. PlainRecord(e).metadata = m
  <2>1. PICK x, y : PlainRecord(e) = [height |-> e.height, lane |-> e.lane, decision |-> e.body,
                          reasoning |-> x, context |-> y, metadata |-> m]
    BY <1>1, <1>2, Zenon DEF PlainRecord
  <2>2. QED
    BY <2>1
<1>4. PICK kept : kept = {k \in DOMAIN e.metadata :
                   /\ ~is_sensitive_training_metadata_key(k)
                   /\ red => is_public_training_metadata_key(k)
                   /\ is_training_metadata_value_safe(k, e.metadata[k], red)}
    OBVIOUS
<1>5. m = [k \in kept |-> e.metadata[k]]
    BY <1>2, <1>4, Zenon DEF sanitize_training_metadata
<1>6. DOMAIN m = kept
    BY <1>5, Zenon
<1>7. kept \subseteq DOMAIN e.metadata
    BY <1>4
<1>8. QED
    BY <1>3, <1>6, <1>7

\* A decision that asked for the sealed lane has a lane that is never exported.
LEMMA SealedBlocked ==
    ASSUME NEW w, SealedRequest(w)
    PROVE  normalize_audit_lane(w) = "zero-zero"
<1>1. w \notin PublicWords
    BY LanesAssumption DEF SealedRequest, SealedWords, PublicWords
<1>2. QED
    BY <1>1 DEF normalize_audit_lane, SealedRequest

RecordSound(r, internal, s, N) ==
    /\ r.height \in 1..N
    /\ r = training_record_from_entry(s[r.height])
    /\ Disposition(s[r.height], internal) = "exported"

LEMMA RecordClean ==
    ASSUME NEW r, NEW internal \in BOOLEAN, NEW e, CurrentForm(e),
           r = training_record_from_entry(e), Disposition(e, internal) = "exported",
           NEW named, named = DOMAIN e.metadata \cap {LaneKeys[k] : k \in DOMAIN LaneKeys}
    PROVE  /\ "lane" \in named => ~SealedRequest(e.metadata["lane"])
           /\ named = {} => ~SealedRequest(e.context)
           /\ r.lane = "private" => internal
           /\ r.lane = "public" =>
                /\ r.reasoning = "none"
                /\ \A k \in DOMAIN r.metadata :
                     /\ is_public_training_metadata_key(k)
                     /\ r.metadata[k] \notin {"secret", "identity", "classified"}
<1>1. r.lane = e.lane
    BY RecordParts
<1>2. e.lane = normalize_audit_lane(Requested(e.context, e.metadata))
    BY DEF CurrentForm, from_context
<1>3. e.lane # "zero-zero"
    BY DEF Disposition, training_policy
<1>m. PICK m : m = e.metadata
    OBVIOUS
<1> DEFINE ix == {i \in DOMAIN LaneKeys : LaneKeys[i] \in DOMAIN m}
<1>5. Requested(e.context, m) =
        IF ix = {} THEN e.context
        ELSE m[LaneKeys[CHOOSE i \in ix : \A j \in ix : i <= j]]
    BY Zenon DEF Requested
<1>4. m = e.metadata /\ ix = {i \in DOMAIN LaneKeys : LaneKeys[i] \in DOMAIN m}
    BY <1>m
<1> HIDE DEF ix
<1>6. DOMAIN LaneKeys = 1..5 /\ LaneKeys[1] = "lane"
    BY DEF LaneKeys
<1>7. ASSUME "lane" \in named PROVE ~SealedRequest(e.metadata["lane"])
  <2>1. 1 \in ix /\ ix \subseteq 1..5
    BY <1>4, <1>6, <1>7
  <2>2. PICK c : c = CHOOSE i \in ix : \A j \in ix : i <= j
    OBVIOUS
  <2>3. \A j \in ix : 1 <= j
    BY <2>1
  <2>4. c \in ix /\ \A j \in ix : c <= j
    BY <2>1, <2>2, <2>3
  <2>5. c = 1
    <3>1. c <= 1 /\ c \in 1..5
      BY <2>1, <2>4
    <3>2. QED
      BY <3>1
  <2>6. Requested(e.context, m) = m["lane"]
    BY <1>5, <1>6, <2>1, <2>2, <2>5
  <2>7. QED
    BY <1>2, <1>3, <1>4, <2>6, SealedBlocked
<1>8. ASSUME named = {} PROVE ~SealedRequest(e.context)
  <2>1. ix = {}
    <3>1. ASSUME NEW i \in ix PROVE FALSE
      <4>1. LaneKeys[i] \in named
        BY <1>4, <3>1
      <4>2. QED
        BY <1>8, <4>1
    <3>2. QED
      BY <3>1
  <2>2. Requested(e.context, m) = e.context
    BY <1>5, <2>1
  <2>3. QED
    BY <1>2, <1>3, <1>4, <2>2, SealedBlocked
<1>9. r.lane = "private" => internal
    BY <1>1 DEF Disposition, training_policy
<1>10. QED
    BY <1>1, <1>7, <1>8, <1>9, PublicRecord

-----------------------------------------------------------------------------
(* The export loop.                                                         *)

RecordsAt(recs, internal, s, i) ==
    IF i = 0 THEN <<>>
    ELSE IF Disposition(s[i], internal) = "exported"
         THEN Append(recs[i - 1], training_record_from_entry(s[i]))
         ELSE recs[i - 1]

RecordsTo(recs, internal, s, n) == recs = [i \in 0..n |-> RecordsAt(recs, internal, s, i)]

LEMMA RecordsExist ==
    ASSUME NEW internal, NEW s, NEW n \in Nat
    PROVE  \E recs : RecordsTo(recs, internal, s, n)
<1> DEFINE Good == {k \in Nat : \E recs : RecordsTo(recs, internal, s, k)}
<1>1. 0 \in Good
  <2>1. PICK recs : recs = [i \in 0..0 |-> <<>>]
    OBVIOUS
  <2>2. RecordsTo(recs, internal, s, 0)
    BY <2>1 DEF RecordsTo, RecordsAt
  <2>3. QED
    BY <2>2
<1>2. ASSUME NEW k \in Nat, k \in Good
      PROVE  k + 1 \in Good
  <2>1. PICK f : RecordsTo(f, internal, s, k)
    BY <1>2
  <2>2. PICK g : g = [i \in 0..(k + 1) |-> IF i <= k THEN f[i] ELSE RecordsAt(f, internal, s, i)]
    OBVIOUS
  <2>3. \A i \in 0..k : f[i] = RecordsAt(f, internal, s, i)
    BY <2>1 DEF RecordsTo
  <2>4. \A i \in 0..(k + 1) : g[i] = RecordsAt(f, internal, s, i)
    BY <2>2, <2>3
  <2>5. ASSUME NEW i \in 0..(k + 1)
        PROVE  RecordsAt(g, internal, s, i) = RecordsAt(f, internal, s, i)
    <3>1. CASE i = 0
      BY <3>1 DEF RecordsAt
    <3>2. CASE i # 0
      <4>1. i - 1 \in 0..(k + 1) /\ i - 1 <= k
        BY <3>2
      <4>2. g[i - 1] = f[i - 1]
        BY <2>2, <4>1
      <4>3. QED
        BY <3>2, <4>2, Zenon DEF RecordsAt
    <3>3. QED
      BY <3>1, <3>2
  <2>6. \A i \in 0..(k + 1) : g[i] = RecordsAt(g, internal, s, i)
    BY <2>4, <2>5
  <2>7. RecordsTo(g, internal, s, k + 1)
    BY <2>2, <2>6 DEF RecordsTo
  <2>8. QED
    BY <2>7
<1> HIDE DEF Good
<1>3. Nat \subseteq Good
    BY <1>1, <1>2, Climbs
<1>4. QED
    BY <1>3 DEF Good

\* The entries up to n that are exported.
OutTo(internal, s, n) == {k \in 1..n : Disposition(s[k], internal) = "exported"}

Heights(q, g) == [j \in DOMAIN q |-> g[q[j].height]]

\* q has one record for each of the entries of X, and sums over q are sums over X.
Collected(q, s, X, g) ==
    /\ IsSeq(q, Cardinality(X)) /\ Cardinality(X) \in Nat
    /\ \A j \in 1..Cardinality(X) :
         q[j].height \in X /\ q[j] = training_record_from_entry(s[q[j].height])
    /\ \A k \in X : \E j \in 1..Cardinality(X) : q[j].height = k
    /\ SumFunctionOnSet(Heights(q, g), 1..Cardinality(X)) = SumFunctionOnSet(g, X)

LEMMA OneRecord ==
    ASSUME NEW q, NEW s, NEW X, IsFiniteSet(X), NEW g, \A x \in X : g[x] \in Nat,
           Collected(q, s, X, g), NEW k, k \notin X, g[k] \in Nat,
           NEW r, r = training_record_from_entry(s[k]), r.height = k,
           NEW t, t = Append(q, r), NEW Y, Y = X \cup {k}
    PROVE  Collected(t, s, Y, g)
<1>1. PICK c \in Nat : c = Cardinality(X)
    BY DEF Collected
<1>2. Cardinality(Y) = c + 1 /\ IsFiniteSet(Y)
    BY <1>1, FS_AddElement
<1>3. IsSeq(q, c)
    BY <1>1 DEF Collected
<1>4. Extended(t, q, c, r)
    BY <1>3, SeqAppend
<1>5. IsSeq(t, c + 1) /\ t[c + 1] = r /\ \A j \in 1..c : t[j] = q[j]
    BY <1>4 DEF Extended
<1>6. DOMAIN q = 1..c /\ DOMAIN t = 1..(c + 1)
    BY <1>3, <1>5, SeqDomain
<1>7. \A j \in 1..c : q[j].height \in X /\ q[j] = training_record_from_entry(s[q[j].height])
    BY <1>1 DEF Collected
<1>8. \A j \in 1..(c + 1) : t[j].height \in Y /\ t[j] = training_record_from_entry(s[t[j].height])
  <2>1. TAKE j \in 1..(c + 1)
  <2>2. CASE j = c + 1
    <3>1. t[j] = r
      BY <1>5, <2>2
    <3>2. t[j].height = k
      BY <3>1
    <3>3. QED
      BY <3>1, <3>2
  <2>3. CASE j # c + 1
    <3>1. j \in 1..c
      BY <2>3
    <3>2. t[j] = q[j]
      BY <1>5, <3>1
    <3>3. QED
      BY <1>7, <3>1, <3>2
  <2>4. QED
    BY <2>2, <2>3
<1>9. \A x \in Y : \E j \in 1..(c + 1) : t[j].height = x
  <2>1. TAKE x \in Y
  <2>2. CASE x = k
    BY <1>5, <2>2
  <2>3. CASE x # k
    <3>1. PICK j \in 1..c : q[j].height = x
      BY <1>1, <2>3 DEF Collected
    <3>2. j \in 1..(c + 1) /\ t[j].height = x
      BY ONLY <1>5, <3>1, c \in Nat
    <3>3. QED
      BY <3>2
  <2>4. QED
    BY <2>2, <2>3
<1>10. SumFunctionOnSet(Heights(t, g), 1..(c + 1)) = SumFunctionOnSet(g, Y)
  <2>1. PICK A, f, h, b : /\ A = 1..c /\ b = c + 1
                          /\ f = Heights(q, g) /\ h = Heights(t, g)
    OBVIOUS
  <2>2. IsFiniteSet(A) /\ b \notin A /\ A \cup {b} = 1..(c + 1)
    <3>1. IsFiniteSet(1..c)
      BY FS_Interval
    <3>2. b \notin A /\ A \cup {b} = 1..(c + 1)
      BY ONLY <2>1, c \in Nat
    <3>3. QED
      BY <2>1, <3>1, <3>2, Zenon
  <2>3. f = [j \in 1..c |-> g[q[j].height]]
    BY <1>6, <2>1, Zenon DEF Heights
  <2>4. h = [j \in 1..(c + 1) |-> g[t[j].height]]
    BY <1>6, <2>1, Zenon DEF Heights
  <2>5. \A j \in A : f[j] = h[j]
    BY ONLY <1>5, <2>1, <2>3, <2>4, c \in Nat
  <2>6. h[b] = g[k]
    <3>1. b \in 1..(c + 1) /\ t[b] = r /\ r.height = k
      BY ONLY <1>5, <2>1, c \in Nat, r.height = k
    <3>2. h[b] = g[t[b].height]
      BY ONLY <2>4, <3>1
    <3>3. QED
      BY ONLY <3>1, <3>2
  <2>7. \A j \in A \cup {b} : h[j] \in Nat
    <3>1. TAKE j \in A \cup {b}
    <3>2. j \in 1..(c + 1)
      BY <2>2
    <3>3. t[j].height \in Y /\ h[j] = g[t[j].height]
      BY <1>8, <2>4, <3>2
    <3>4. QED
      BY <3>3
  <2>8. SumFunctionOnSet(h, A \cup {b}) = h[b] + SumFunctionOnSet(h, A)
    BY <2>2, <2>7, SumAdd
  <2>9. SumFunctionOnSet(f, A) = SumFunctionOnSet(h, A)
    BY <2>2, <2>5, SumAgree
  <2>10. SumFunctionOnSet(f, A) = SumFunctionOnSet(g, X)
    BY <1>1, <2>1 DEF Collected
  <2>11. SumFunctionOnSet(g, X \cup {k}) = g[k] + SumFunctionOnSet(g, X)
    <3>1. \A x \in X \cup {k} : g[x] \in Nat
      OBVIOUS
    <3>2. QED
      BY <3>1, SumAdd
  <2>12. SumFunctionOnSet(h, A \cup {b}) = SumFunctionOnSet(g, X \cup {k})
    BY <2>6, <2>8, <2>9, <2>10, <2>11
  <2>13. QED
    BY <2>1, <2>2, <2>12, Zenon
<1>11. PICK C \in Nat : C = c + 1
    OBVIOUS
<1>12. Cardinality(Y) = C /\ IsSeq(t, C)
    BY <1>2, <1>5, <1>11
<1>13. SumFunctionOnSet(Heights(t, g), 1..C) = SumFunctionOnSet(g, Y)
    BY <1>10, <1>11, Zenon
<1>14. /\ \A j \in 1..C : t[j].height \in Y /\ t[j] = training_record_from_entry(s[t[j].height])
       /\ \A x \in Y : \E j \in 1..C : t[j].height = x
    BY <1>8, <1>9, <1>11
<1>15. QED
    BY ONLY <1>12, <1>13, <1>14, C \in Nat, Zenon DEF Collected

\* The loop collects the exported entries.
LEMMA ExportedAre ==
    ASSUME NEW N \in Nat, NEW s, Len(s) = N, NEW internal, NEW g,
           \A k \in 1..N : g[k] \in Nat /\ s[k].height = k
    PROVE  Collected(ExportedRecords(internal, s), s, OutTo(internal, s, N), g)
<1>1. PICK recs : recs = CHOOSE f : RecordsTo(f, internal, s, N)
    OBVIOUS
<1>2. RecordsTo(recs, internal, s, N)
    BY <1>1, RecordsExist
<1>3. ExportedRecords(internal, s) = recs[N]
    BY <1>1, Zenon DEF ExportedRecords, RecordsTo, RecordsAt
<1>4. \A i \in 0..N : recs[i] = RecordsAt(recs, internal, s, i)
    BY <1>2 DEF RecordsTo
<1>5. \A i \in 0..N : IsFiniteSet(OutTo(internal, s, i))
  <2>1. TAKE i \in 0..N
  <2>2. IsFiniteSet(1..i) /\ OutTo(internal, s, i) \subseteq 1..i
    BY FS_Interval DEF OutTo
  <2>3. QED
    BY <2>2, FS_Subset
<1> DEFINE Good == {i \in 0..N : Collected(recs[i], s, OutTo(internal, s, i), g)}
<1>6. 0 \in Good
  <2>1. recs[0] = <<>>
    BY <1>4 DEF RecordsAt
  <2>2. OutTo(internal, s, 0) = {}
    BY DEF OutTo
  <2>3. Cardinality({}) = 0
    BY FS_EmptySet
  <2>4. IsSeq(<<>>, 0)
    BY DEF IsSeq
  <2>5. SumFunctionOnSet(Heights(<<>>, g), {}) = 0 /\ SumFunctionOnSet(g, {}) = 0
    BY SumEmpty
  <2>6. 1..0 = {}
    OBVIOUS
  <2>7. Collected(<<>>, s, {}, g)
    <3>1. \A j \in 1..0 : FALSE
      OBVIOUS
    <3>2. SumFunctionOnSet(Heights(<<>>, g), 1..0) = SumFunctionOnSet(g, {})
      BY <2>5, <2>6, Zenon
    <3>3. QED
      BY <2>3, <2>4, <3>1, <3>2 DEF Collected
  <2>8. Collected(recs[0], s, OutTo(internal, s, 0), g)
    BY <2>1, <2>2, <2>7, Zenon
  <2>9. QED
    BY <2>8
<1>7. ASSUME NEW i \in 0..(N - 1), i \in Good PROVE i + 1 \in Good
  <2>1. PICK k : k = i + 1
    OBVIOUS
  <2>2. k \in 1..N /\ k \in 0..N /\ k - 1 = i /\ k # 0 /\ i \in 0..N
    BY <2>1
  <2>3. recs[k] = IF Disposition(s[k], internal) = "exported"
                  THEN Append(recs[i], training_record_from_entry(s[k]))
                  ELSE recs[i]
    BY <1>4, <2>2 DEF RecordsAt
  <2>4. PICK X, Y : X = OutTo(internal, s, i) /\ Y = OutTo(internal, s, k)
    OBVIOUS
  <2>5. PICK q, t : q = recs[i] /\ t = recs[k]
    OBVIOUS
  <2>6. Collected(q, s, X, g) /\ IsFiniteSet(X)
    BY <1>5, <1>7, <2>2, <2>4, <2>5
  <2>7. CASE Disposition(s[k], internal) = "exported"
    <3>1. PICK r : r = training_record_from_entry(s[k])
      OBVIOUS
    <3>2. PICK e : e = s[k]
      OBVIOUS
    <3>3. r.height = k
      <4>1. r.height = e.height
        BY <3>1, <3>2, RecordParts
      <4>2. QED
        BY <2>2, <3>2, <4>1
    <3>4. t = Append(q, r)
      BY <2>3, <2>5, <2>7, <3>1
    <3>5. Y = X \cup {k} /\ k \notin X
      BY <2>1, <2>2, <2>4, <2>7 DEF OutTo
    <3>6. \A x \in X : g[x] \in Nat
      BY <2>2, <2>4 DEF OutTo
    <3>7. g[k] \in Nat
      BY <2>2
    <3>8. Collected(t, s, Y, g)
      BY <2>6, <3>1, <3>3, <3>4, <3>5, <3>6, <3>7, OneRecord
    <3>9. QED
      BY <2>1, <2>2, <2>4, <2>5, <3>8
  <2>8. CASE Disposition(s[k], internal) # "exported"
    <3>1. Y = X
      BY <2>1, <2>2, <2>4, <2>8 DEF OutTo
    <3>2. t = q
      BY <2>3, <2>5, <2>8
    <3>3. QED
      BY <2>1, <2>2, <2>4, <2>5, <2>6, <3>1, <3>2
  <2>9. QED
    BY <2>7, <2>8
<1> HIDE DEF Good
<1>8. 0..N \subseteq Good
    BY <1>6, <1>7, Reaches
<1>9. N \in Good
    BY <1>8
<1>10. QED
    BY <1>3, <1>9 DEF Good

-----------------------------------------------------------------------------
(* The manifest.                                                            *)

LaneOf(lane, d, internal, s) ==
    {i \in DOMAIN s : s[i].lane = lane /\ Disposition(s[i], internal) = d}

LostAt(s) ==
    [i \in DOMAIN s |->
       IF Cardinality(DOMAIN s[i].metadata)
            - Cardinality(DOMAIN training_record_from_entry(s[i]).metadata) < 0 THEN 0
       ELSE Cardinality(DOMAIN s[i].metadata)
              - Cardinality(DOMAIN training_record_from_entry(s[i]).metadata)]

Lack(s, r) == Cardinality(DOMAIN s[r.height].metadata \ DOMAIN r.metadata)

\* The three claims of the manifest c over the entries s.
Accounts(c, s) ==
    /\ \A l \in Lanes : c.counters[l].source =
         c.counters[l].exported + c.counters[l].skipped + c.counters[l].blocked
    /\ SumFunctionOnSet([l \in Lanes |-> c.counters[l].exported], Lanes) = Len(c.records)
    /\ \/ \E i \in DOMAIN c.records :
            "q_training_migration" \in DOMAIN c.records[i].metadata
       \/ SumFunctionOnSet([l \in Lanes |-> c.counters[l].removed], Lanes)
            = SumFunctionOnSet([i \in DOMAIN c.records |-> Lack(s, c.records[i])],
                               DOMAIN c.records)

LEMMA AccountsAre == ManifestAccounts <=> (corpus # NoCorpus => Accounts(corpus, served))
    BY Zenon DEF ManifestAccounts, Accounts, Lack

LEMMA CountersAre ==
    ASSUME NEW lane, NEW internal, NEW s, NEW c, c = LaneCounters(lane, internal, s)
    PROVE  /\ c.source = Cardinality({i \in DOMAIN s : s[i].lane = lane})
           /\ c.exported = Cardinality(LaneOf(lane, "exported", internal, s))
           /\ c.skipped = Cardinality(LaneOf(lane, "skipped", internal, s))
           /\ c.blocked = Cardinality(LaneOf(lane, "blocked", internal, s))
           /\ c.removed = SumFunctionOnSet(LostAt(s), LaneOf(lane, "exported", internal, s))
<1>1. c = [source   |-> Cardinality({i \in DOMAIN s : s[i].lane = lane}),
           exported |-> Cardinality(LaneOf(lane, "exported", internal, s)),
           skipped  |-> Cardinality(LaneOf(lane, "skipped", internal, s)),
           blocked  |-> Cardinality(LaneOf(lane, "blocked", internal, s)),
           removed  |-> SumFunctionOnSet(LostAt(s), LaneOf(lane, "exported", internal, s))]
    BY Zenon DEF LaneCounters, LaneOf, LostAt
<1>2. PICK u, v, w, x, y :
        /\ u = Cardinality({i \in DOMAIN s : s[i].lane = lane})
        /\ v = Cardinality(LaneOf(lane, "exported", internal, s))
        /\ w = Cardinality(LaneOf(lane, "skipped", internal, s))
        /\ x = Cardinality(LaneOf(lane, "blocked", internal, s))
        /\ y = SumFunctionOnSet(LostAt(s), LaneOf(lane, "exported", internal, s))
    BY Zenon
<1>3. c = [source |-> u, exported |-> v, skipped |-> w, blocked |-> x, removed |-> y]
    BY <1>1, <1>2, Zenon
<1>4. c.source = u /\ c.exported = v /\ c.skipped = w /\ c.blocked = x /\ c.removed = y
    BY ONLY <1>3
<1>5. QED
    BY <1>2, <1>4, Zenon

LEMMA LaneSum ==
    ASSUME NEW f, \A l \in Lanes : f[l] \in Nat
    PROVE  SumFunctionOnSet(f, Lanes) = f["public"] + f["private"] + f["zero-zero"]
<1>1. PICK A, B, C : A = {"zero-zero"} /\ B = A \cup {"private"} /\ C = B \cup {"public"}
    OBVIOUS
<1>2. C = Lanes
    BY <1>1 DEF Lanes
<1>3. IsFiniteSet({}) /\ IsFiniteSet(A) /\ IsFiniteSet(B)
    BY <1>1, FS_EmptySet, FS_AddElement, FS_Singleton
<1>4. \A l \in C : f[l] \in Nat
    BY <1>2
<1>5. SumFunctionOnSet(f, B \cup {"public"}) = f["public"] + SumFunctionOnSet(f, B)
  <2>1. "public" \notin B /\ \A l \in B \cup {"public"} : f[l] \in Nat
    BY <1>1, <1>4
  <2>2. QED
    BY <1>3, <2>1, SumAdd
<1>6. SumFunctionOnSet(f, A \cup {"private"}) = f["private"] + SumFunctionOnSet(f, A)
  <2>1. "private" \notin A /\ \A l \in A \cup {"private"} : f[l] \in Nat
    BY <1>1, <1>4
  <2>2. QED
    BY <1>3, <2>1, SumAdd
<1>7. SumFunctionOnSet(f, {} \cup {"zero-zero"}) = f["zero-zero"] + SumFunctionOnSet(f, {})
  <2>1. "zero-zero" \notin {} /\ \A l \in {} \cup {"zero-zero"} : f[l] \in Nat
    BY <1>1, <1>4
  <2>2. QED
    BY <1>3, <2>1, SumAdd
<1>8. SumFunctionOnSet(f, {}) = 0
    BY SumEmpty
<1>9. {} \cup {"zero-zero"} = A
    BY <1>1
<1>10. /\ SumFunctionOnSet(f, Lanes) = f["public"] + SumFunctionOnSet(f, B)
       /\ SumFunctionOnSet(f, B) = f["private"] + SumFunctionOnSet(f, A)
       /\ SumFunctionOnSet(f, A) = f["zero-zero"] + 0
    BY <1>1, <1>2, <1>5, <1>6, <1>7, <1>8, <1>9, Zenon
<1>11. f["public"] \in Nat /\ f["private"] \in Nat /\ f["zero-zero"] \in Nat
    BY DEF Lanes
<1>12. QED
    BY <1>10, <1>11

\* Three disjoint parts of a finite set.
Parted(E, A, B, C) ==
    /\ IsFiniteSet(E) /\ E = A \cup B \cup C
    /\ A \cap B = {} /\ A \cap C = {} /\ B \cap C = {}

LEMMA ThreeParts ==
    ASSUME NEW E, NEW A, NEW B, NEW C, Parted(E, A, B, C)
    PROVE  /\ IsFiniteSet(A) /\ IsFiniteSet(B) /\ IsFiniteSet(C)
           /\ Cardinality(A) \in Nat /\ Cardinality(B) \in Nat /\ Cardinality(C) \in Nat
           /\ Cardinality(E) = Cardinality(A) + Cardinality(B) + Cardinality(C)
<1>0. /\ IsFiniteSet(E) /\ E = A \cup B \cup C
      /\ A \cap B = {} /\ A \cap C = {} /\ B \cap C = {}
    BY DEF Parted
<1>1. IsFiniteSet(A) /\ IsFiniteSet(B) /\ IsFiniteSet(C)
    BY <1>0, FS_Subset
<1>2. Cardinality(A) \in Nat /\ Cardinality(B) \in Nat /\ Cardinality(C) \in Nat
    BY <1>1, FS_CardinalityType
<1>3. PICK D : D = A \cup B
    OBVIOUS
<1>4. IsFiniteSet(D) /\ Cardinality(D) = Cardinality(A) + Cardinality(B) - Cardinality(A \cap B)
    BY <1>1, <1>3, FS_Union
<1>5. Cardinality(D \cup C) = Cardinality(D) + Cardinality(C) - Cardinality(D \cap C)
    BY <1>1, <1>4, FS_Union
<1>6. D \cap C = {} /\ D \cup C = E /\ Cardinality({}) = 0
    BY <1>0, <1>3, FS_EmptySet
<1>7. /\ Cardinality(D) = Cardinality(A) + Cardinality(B) - 0
      /\ Cardinality(E) = Cardinality(D) + Cardinality(C) - 0
    BY <1>0, <1>4, <1>5, <1>6, Zenon
<1>8. QED
    BY <1>1, <1>2, <1>7

LEMMA SumThree ==
    ASSUME NEW E, NEW A, NEW B, NEW C, Parted(E, A, B, C),
           NEW f, \A x \in E : f[x] \in Nat
    PROVE  /\ SumFunctionOnSet(f, A) \in Nat /\ SumFunctionOnSet(f, B) \in Nat
           /\ SumFunctionOnSet(f, C) \in Nat
           /\ SumFunctionOnSet(f, E) =
                SumFunctionOnSet(f, A) + SumFunctionOnSet(f, B) + SumFunctionOnSet(f, C)
<1>0. /\ IsFiniteSet(E) /\ E = A \cup B \cup C
      /\ A \cap B = {} /\ A \cap C = {} /\ B \cap C = {}
    BY DEF Parted
<1>1. PICK D : D = E \ A
    OBVIOUS
<1>2. /\ SumFunctionOnSet(f, E) = SumFunctionOnSet(f, A) + SumFunctionOnSet(f, E \ A)
      /\ SumFunctionOnSet(f, A) \in Nat /\ SumFunctionOnSet(f, E \ A) \in Nat
  <2>1. A \in SUBSET E /\ IsFiniteSet(E)
    BY <1>0
  <2>2. QED
    BY ONLY \A x \in E : f[x] \in Nat, <2>1, SumParts
<1>3. IsFiniteSet(D) /\ \A x \in D : f[x] \in Nat
    BY <1>0, <1>1, FS_Subset
<1>4. /\ SumFunctionOnSet(f, D) = SumFunctionOnSet(f, B) + SumFunctionOnSet(f, D \ B)
      /\ SumFunctionOnSet(f, B) \in Nat /\ SumFunctionOnSet(f, D \ B) \in Nat
  <2>1. B \in SUBSET D
    BY <1>0, <1>1
  <2>2. QED
    BY <1>3, <2>1, SumParts
<1>5. D \ B = C
    BY <1>0, <1>1
<1>6. /\ SumFunctionOnSet(f, E) = SumFunctionOnSet(f, A) + SumFunctionOnSet(f, D)
      /\ SumFunctionOnSet(f, A) \in Nat /\ SumFunctionOnSet(f, D) \in Nat
    BY <1>1, <1>2, Zenon
<1>7. /\ SumFunctionOnSet(f, D) = SumFunctionOnSet(f, B) + SumFunctionOnSet(f, C)
      /\ SumFunctionOnSet(f, B) \in Nat /\ SumFunctionOnSet(f, C) \in Nat
    BY <1>4, <1>5, Zenon
<1>8. QED
    BY ONLY <1>6, <1>7

\* What is assumed of the entries that are exported.
Sourced(s, N) ==
    /\ IsSeq(s, N)
    /\ \A k \in 1..N : /\ s[k].height = k /\ s[k].lane \in Lanes
                       /\ IsFiniteSet(DOMAIN s[k].metadata)

\* The entries of a lane, by what becomes of them.
LEMMA LanePartition ==
    ASSUME NEW N \in Nat, NEW s, Sourced(s, N), NEW internal, NEW l
    PROVE  Cardinality({i \in DOMAIN s : s[i].lane = l})
             = Cardinality(LaneOf(l, "exported", internal, s))
               + Cardinality(LaneOf(l, "skipped", internal, s))
               + Cardinality(LaneOf(l, "blocked", internal, s))
<1>1. PICK E, A, B, C : /\ E = {i \in DOMAIN s : s[i].lane = l}
                        /\ A = LaneOf(l, "exported", internal, s)
                        /\ B = LaneOf(l, "skipped", internal, s)
                        /\ C = LaneOf(l, "blocked", internal, s)
    BY Zenon
<1>2. DOMAIN s = 1..N
    BY SeqDomain DEF Sourced
<1>3. IsFiniteSet(E)
  <2>1. IsFiniteSet(1..N) /\ E \subseteq 1..N
    BY <1>1, <1>2, FS_Interval
  <2>2. QED
    BY <2>1, FS_Subset
<1>4. \A e : Disposition(e, internal) \in {"exported", "skipped", "blocked"}
    BY DEF Disposition
<1>5. E = A \cup B \cup C /\ A \cap B = {} /\ A \cap C = {} /\ B \cap C = {}
    BY <1>1, <1>4 DEF LaneOf
<1>6. Cardinality(E) = Cardinality(A) + Cardinality(B) + Cardinality(C)
  <2>1. Parted(E, A, B, C)
    BY <1>3, <1>5, Zenon DEF Parted
  <2>2. QED
    BY <2>1, ThreeParts
<1>7. QED
    BY <1>1, <1>6, Zenon

\* The exported entries, by lane.
LEMMA OutPartition ==
    ASSUME NEW N \in Nat, NEW s, Sourced(s, N), NEW internal,
           NEW E, E = OutTo(internal, s, N),
           NEW A, A = LaneOf("public", "exported", internal, s),
           NEW B, B = LaneOf("private", "exported", internal, s),
           NEW C, C = LaneOf("zero-zero", "exported", internal, s)
    PROVE  Parted(E, A, B, C)
<1>1. DOMAIN s = 1..N
    BY SeqDomain DEF Sourced
<1>2. IsFiniteSet(1..N) /\ E \subseteq 1..N
    BY FS_Interval DEF OutTo
<1>3. IsFiniteSet(E)
    BY ONLY <1>2, FS_Subset
<1>4. \A k \in 1..N : s[k].lane \in {"public", "private", "zero-zero"}
    BY DEF Sourced, Lanes
<1>5. E = A \cup B \cup C /\ A \cap B = {} /\ A \cap C = {} /\ B \cap C = {}
    BY <1>1, <1>4 DEF LaneOf, OutTo
<1>6. QED
    BY ONLY <1>3, <1>5, Zenon DEF Parted

\* The keys that the record of an entry lacks.
Lacks(s, N) == [k \in 1..N |-> Lack(s, training_record_from_entry(s[k]))]

LEMMA LacksAre ==
    ASSUME NEW N \in Nat, NEW s, Sourced(s, N), NEW k \in 1..N,
           NEW r, r = training_record_from_entry(s[k])
    PROVE  /\ r.height = k /\ Lacks(s, N)[k] = Lack(s, r) /\ Lacks(s, N)[k] \in Nat
           /\ "q_training_migration" \notin DOMAIN r.metadata => LostAt(s)[k] = Lacks(s, N)[k]
<1>1. PICK e : e = s[k]
    OBVIOUS
<1>2. e.height = k /\ IsFiniteSet(DOMAIN e.metadata)
    BY <1>1 DEF Sourced
<1>3. /\ r.height = e.height
      /\ "q_training_migration" \notin DOMAIN r.metadata => r = PlainRecord(e)
    BY <1>1, RecordParts
<1>4. Lacks(s, N)[k] = Lack(s, r)
    BY DEF Lacks
<1>5. PICK D, R : D = DOMAIN e.metadata /\ R = DOMAIN r.metadata
    OBVIOUS
<1>6. Lack(s, r) = Cardinality(D \ R)
    BY <1>1, <1>2, <1>3, <1>5 DEF Lack
<1>7. IsFiniteSet(D \ R) /\ Cardinality(D \ R) = Cardinality(D) - Cardinality(D \cap R)
    BY <1>2, <1>5, FS_Difference
<1>8. Cardinality(D \ R) \in Nat /\ Cardinality(D) \in Nat
    BY <1>2, <1>5, <1>7, FS_CardinalityType
<1>9. k \in DOMAIN s
    BY SeqDomain DEF Sourced
<1>10. ASSUME "q_training_migration" \notin DOMAIN r.metadata
       PROVE  LostAt(s)[k] = Lacks(s, N)[k]
  <2>1. R \subseteq D
    BY <1>3, <1>5, <1>10, PlainKeys
  <2>2. D \cap R = R
    BY <2>1
  <2>3. Cardinality(D \ R) = Cardinality(D) - Cardinality(R)
    BY <1>7, <2>2, Zenon
  <2>4. LostAt(s)[k] = IF Cardinality(D) - Cardinality(R) < 0 THEN 0
                       ELSE Cardinality(D) - Cardinality(R)
    BY <1>1, <1>5, <1>9, Zenon DEF LostAt
  <2>5. QED
    BY ONLY <1>4, <1>6, <1>8, <2>3, <2>4
<1>11. QED
    BY <1>2, <1>3, <1>4, <1>6, <1>8, <1>10

RecordsSound(recs, internal, s, N) ==
    \A i \in DOMAIN recs : RecordSound(recs[i], internal, s, N)

LEMMA AccountsHold ==
    ASSUME NEW N \in Nat, NEW s, Sourced(s, N), NEW internal,
           NEW recs, recs = ExportedRecords(internal, s),
           NEW counters, counters = [l \in Lanes |-> LaneCounters(l, internal, s)],
           NEW c, c = [internal |-> internal, records |-> recs, counters |-> counters]
    PROVE  Accounts(c, s) /\ RecordsSound(recs, internal, s, N)
<1>1. PICK g : g = Lacks(s, N)
    OBVIOUS
<1>2. \A k \in 1..N : g[k] \in Nat /\ s[k].height = k
    BY <1>1, LacksAre DEF Sourced
<1>3. Len(s) = N
    BY DEF Sourced, IsSeq
<1>4. PICK E, A, B, C : /\ E = OutTo(internal, s, N)
                        /\ A = LaneOf("public", "exported", internal, s)
                        /\ B = LaneOf("private", "exported", internal, s)
                        /\ C = LaneOf("zero-zero", "exported", internal, s)
    BY Zenon
<1>5. Collected(recs, s, E, g)
    BY <1>2, <1>3, <1>4, ExportedAre
<1>6. Parted(E, A, B, C)
    BY <1>4, OutPartition
<1>7. PICK m \in Nat : m = Cardinality(E)
    BY <1>5 DEF Collected
<1>8. /\ Len(recs) = m /\ DOMAIN recs = 1..m
      /\ \A j \in 1..m : recs[j].height \in E /\ recs[j] = training_record_from_entry(s[recs[j].height])
      /\ \A k \in E : \E j \in 1..m : recs[j].height = k
      /\ SumFunctionOnSet(Heights(recs, g), 1..m) = SumFunctionOnSet(g, E)
  <2>1. IsSeq(recs, m)
    BY <1>5, <1>7 DEF Collected
  <2>2. Len(recs) = m /\ DOMAIN recs = 1..m
    BY <2>1, SeqDomain DEF IsSeq
  <2>3. SumFunctionOnSet(Heights(recs, g), 1..m) = SumFunctionOnSet(g, E)
    BY <1>5, <1>7, Zenon DEF Collected
  <2>4. /\ \A j \in 1..m : recs[j].height \in E /\ recs[j] = training_record_from_entry(s[recs[j].height])
        /\ \A k \in E : \E j \in 1..m : recs[j].height = k
    BY <1>5, <1>7, Zenon DEF Collected
  <2>5. QED
    BY <2>2, <2>3, <2>4
<1>9. E \subseteq 1..N /\ \A k \in E : Disposition(s[k], internal) = "exported"
    BY <1>4 DEF OutTo
<1>10. RecordsSound(recs, internal, s, N)
    BY <1>8, <1>9 DEF RecordsSound, RecordSound
<1>11. \A l \in Lanes :
         /\ counters[l].source = Cardinality({i \in DOMAIN s : s[i].lane = l})
         /\ counters[l].exported = Cardinality(LaneOf(l, "exported", internal, s))
         /\ counters[l].skipped = Cardinality(LaneOf(l, "skipped", internal, s))
         /\ counters[l].blocked = Cardinality(LaneOf(l, "blocked", internal, s))
         /\ counters[l].removed = SumFunctionOnSet(LostAt(s), LaneOf(l, "exported", internal, s))
  <2>1. TAKE l \in Lanes
  <2>2. counters[l] = LaneCounters(l, internal, s)
    OBVIOUS
  <2>3. QED
    BY <2>2, CountersAre
<1>12. \A l \in Lanes : counters[l].source =
         counters[l].exported + counters[l].skipped + counters[l].blocked
  <2>1. TAKE l \in Lanes
  <2>2. Cardinality({i \in DOMAIN s : s[i].lane = l})
             = Cardinality(LaneOf(l, "exported", internal, s))
               + Cardinality(LaneOf(l, "skipped", internal, s))
               + Cardinality(LaneOf(l, "blocked", internal, s))
    BY LanePartition
  <2>3. QED
    BY <1>11, <2>2, Zenon
<1>13. "public" \in Lanes /\ "private" \in Lanes /\ "zero-zero" \in Lanes
    BY DEF Lanes
<1>14. PICK x : x = [l \in Lanes |-> counters[l].exported]
    OBVIOUS
<1>15. x["public"] = Cardinality(A) /\ x["private"] = Cardinality(B) /\ x["zero-zero"] = Cardinality(C)
  <2>1. \A l \in Lanes : x[l] = Cardinality(LaneOf(l, "exported", internal, s))
    BY <1>11, <1>14
  <2>2. QED
    BY <1>4, <1>13, <2>1, Zenon
<1>16. /\ Cardinality(A) \in Nat /\ Cardinality(B) \in Nat /\ Cardinality(C) \in Nat
       /\ Cardinality(E) = Cardinality(A) + Cardinality(B) + Cardinality(C)
    BY <1>6, ThreeParts
<1>17. SumFunctionOnSet(x, Lanes) = Len(recs)
  <2>1. \A l \in Lanes : x[l] \in Nat
    BY <1>15, <1>16 DEF Lanes
  <2>2. SumFunctionOnSet(x, Lanes) = x["public"] + x["private"] + x["zero-zero"]
    BY <2>1, LaneSum
  <2>3. QED
    BY ONLY <1>7, <1>8, <1>15, <1>16, <2>2
<1>18. ASSUME \A i \in DOMAIN recs : "q_training_migration" \notin DOMAIN recs[i].metadata
       PROVE  SumFunctionOnSet([l \in Lanes |-> counters[l].removed], Lanes)
                = SumFunctionOnSet([i \in DOMAIN recs |-> Lack(s, recs[i])], DOMAIN recs)
  <2>1. PICK y, f, z : /\ y = [l \in Lanes |-> counters[l].removed]
                       /\ f = LostAt(s)
                       /\ z = [i \in DOMAIN recs |-> Lack(s, recs[i])]
    OBVIOUS
  <2>2. \A k \in E : f[k] = g[k] /\ g[k] \in Nat
    <3>1. TAKE k \in E
    <3>2. k \in 1..N
      BY <1>9
    <3>3. PICK j \in 1..m : recs[j].height = k
      BY <1>8
    <3>4. PICK r : r = training_record_from_entry(s[k])
      OBVIOUS
    <3>5. recs[j] = r /\ j \in DOMAIN recs
      BY <1>8, <3>3, <3>4
    <3>6. "q_training_migration" \notin DOMAIN r.metadata
      BY <1>18, <3>5
    <3>7. QED
      BY <1>1, <2>1, <3>2, <3>4, <3>6, LacksAre
  <2>3. /\ SumFunctionOnSet(g, A) \in Nat /\ SumFunctionOnSet(g, B) \in Nat
        /\ SumFunctionOnSet(g, C) \in Nat
        /\ SumFunctionOnSet(g, E) =
             SumFunctionOnSet(g, A) + SumFunctionOnSet(g, B) + SumFunctionOnSet(g, C)
    BY <1>6, <2>2, SumThree
  <2>4. IsFiniteSet(A) /\ IsFiniteSet(B) /\ IsFiniteSet(C)
    BY <1>6, ThreeParts
  <2>5. /\ SumFunctionOnSet(f, A) = SumFunctionOnSet(g, A)
        /\ SumFunctionOnSet(f, B) = SumFunctionOnSet(g, B)
        /\ SumFunctionOnSet(f, C) = SumFunctionOnSet(g, C)
    <3>1. /\ \A k \in A : f[k] = g[k]
          /\ \A k \in B : f[k] = g[k]
          /\ \A k \in C : f[k] = g[k]
      BY <1>6, <2>2 DEF Parted
    <3>2. QED
      BY ONLY <2>4, <3>1, SumAgree
  <2>6. /\ y["public"] = SumFunctionOnSet(f, A) /\ y["private"] = SumFunctionOnSet(f, B)
        /\ y["zero-zero"] = SumFunctionOnSet(f, C)
    <3>1. \A l \in Lanes : y[l] = SumFunctionOnSet(f, LaneOf(l, "exported", internal, s))
      BY <1>11, <2>1
    <3>2. QED
      BY <1>4, <1>13, <3>1, Zenon
  <2>7. SumFunctionOnSet(y, Lanes) = SumFunctionOnSet(g, E)
    <3>1. \A l \in Lanes : y[l] \in Nat
      BY <2>3, <2>5, <2>6 DEF Lanes
    <3>2. SumFunctionOnSet(y, Lanes) = y["public"] + y["private"] + y["zero-zero"]
      BY <3>1, LaneSum
    <3>3. QED
      BY ONLY <2>3, <2>5, <2>6, <3>2
  <2>8. PICK h : h = Heights(recs, g)
    OBVIOUS
  <2>9. \A i \in 1..m : z[i] = h[i]
    <3>1. TAKE i \in 1..m
    <3>2. PICK k, r : k = recs[i].height /\ r = recs[i]
      OBVIOUS
    <3>3. k \in 1..N /\ r = training_record_from_entry(s[k])
      BY <1>8, <1>9, <3>2
    <3>4. g[k] = Lack(s, r)
      BY <1>1, <3>3, LacksAre
    <3>5. h[i] = g[k]
      BY <1>8, <2>8, <3>2 DEF Heights
    <3>6. z[i] = Lack(s, r)
      BY <1>8, <2>1, <3>2
    <3>7. QED
      BY <3>4, <3>5, <3>6
  <2>10. IsFiniteSet(1..m)
    BY FS_Interval
  <2>11. SumFunctionOnSet(z, 1..m) = SumFunctionOnSet(h, 1..m)
    <3>1. PICK M : M = 1..m
      OBVIOUS
    <3>2. SumFunctionOnSet(z, M) = SumFunctionOnSet(h, M)
      BY <2>9, <2>10, <3>1, SumAgree
    <3>3. QED
      BY <3>1, <3>2, Zenon
  <2>12. SumFunctionOnSet(z, DOMAIN recs) = SumFunctionOnSet(y, Lanes)
    BY <1>8, <2>7, <2>8, <2>11, Zenon
  <2>13. QED
    BY <2>1, <2>12, Zenon
<1>19. c.records = recs /\ c.counters = counters
    OBVIOUS
<1>20. Accounts(c, s)
    BY <1>12, <1>14, <1>17, <1>18, <1>19, Zenon DEF Accounts
<1>21. QED
    BY <1>10, <1>20

-----------------------------------------------------------------------------
(* The corpus.                                                              *)

\* A corpus is of the running ledger: its records are those of entries that it
\* still serves, and its manifest accounts for them.
CorpusInv ==
    corpus # NoCorpus =>
        /\ phase = "up" /\ corpus.internal \in BOOLEAN
        /\ RecordsSound(corpus.records, corpus.internal, served, Len(served))
        /\ Accounts(corpus, served)

LEMMA ServedSource ==
    ASSUME LogInv, phase = "up"
    PROVE  \E N \in Nat : /\ N = Len(served) /\ Sourced(served, N)
                          /\ \A k \in 1..N : CurrentForm(served[k])
<1>1. PICK n \in 0..Len(recorded), N \in Nat :
             /\ N = n + Len(fresh)
             /\ Kept(disk, recorded, fresh, n) /\ IsSeq(served, N)
             /\ DOMAIN disk = 1..N /\ NewLog(disk, N)
             /\ \A k \in 1..N : served[k] = disk[k]
    BY NextPlace
<1>2. PICK L \in Nat, F \in Nat : L = Len(recorded) /\ F = Len(fresh)
    BY HistoryType
<1>3. ASSUME NEW k \in 1..N
      PROVE  /\ served[k].height = k /\ served[k].lane \in Lanes /\ CurrentForm(served[k])
             /\ IsFiniteSet(DOMAIN served[k].metadata)
  <2>1. PICK e : e = served[k]
    OBVIOUS
  <2>2. e.height = k /\ CurrentForm(e)
    BY <1>1, <2>1 DEF NewLog, Placed
  <2>3. e.lane \in Lanes
    BY <2>2, LaneIs DEF CurrentForm
  <2>4. IsFiniteSet(DOMAIN e.metadata)
    <3>1. CASE k <= n
      <4>1. k \in 1..n /\ k \in 1..Len(recorded)
        BY <1>2, <3>1
      <4>2. Holds(e, recorded[k])
        BY <1>1, <2>1, <4>1 DEF Kept, Carries
      <4>3. recorded \in Histories
        BY DEF LogInv
      <4>4. IsFiniteSet(DOMAIN recorded[k].metadata)
        BY <4>1, <4>3, LanesAssumption
      <4>5. QED
        BY <4>2, <4>4 DEF Holds
    <3>2. CASE ~(k <= n)
      <4>1. PICK i \in 1..F : k = n + i
        <5>1. k - n \in 1..F /\ k = n + (k - n)
          BY <1>1, <1>2, <3>2
        <5>2. QED
          BY <5>1
      <4>2. Holds(e, fresh[i])
        BY <1>1, <1>2, <2>1, <4>1 DEF Kept
      <4>3. fresh[i] \in NewDecisions
        <5>1. fresh \in Seq(NewDecisions)
          BY DEF LogInv
        <5>2. QED
          BY <1>2, <5>1
      <4>4. IsFiniteSet(DOMAIN fresh[i].metadata)
        BY <4>3, LanesAssumption
      <4>5. QED
        BY <4>2, <4>4 DEF Holds
    <3>3. QED
      BY <3>1, <3>2
  <2>5. QED
    BY <2>1, <2>2, <2>3, <2>4
<1>4. N = Len(served)
    BY <1>1 DEF IsSeq
<1>5. Sourced(served, N)
    BY <1>1, <1>3 DEF Sourced
<1>6. QED
    BY <1>3, <1>4, <1>5

LEMMA ExportCorpus ==
    ASSUME LogInv, NEW internal \in BOOLEAN, export_training_corpus_with_manifest(internal)
    PROVE  CorpusInv'
<1>1. PICK recs, counters :
        /\ recs = ExportedRecords(internal, served)
        /\ counters = [l \in Lanes |-> LaneCounters(l, internal, served)]
    OBVIOUS
<1>2. /\ phase = "up" /\ phase' = phase /\ served' = served
      /\ corpus' = [internal |-> internal, records |-> recs, counters |-> counters]
    BY <1>1, Zenon DEF export_training_corpus_with_manifest
<1>3. PICK N \in Nat : N = Len(served) /\ Sourced(served, N)
    BY <1>2, ServedSource
<1>4. PICK c, s : c = corpus' /\ s = served
    OBVIOUS
<1>5. c = [internal |-> internal, records |-> recs, counters |-> counters]
    BY <1>2, <1>4
<1>6. Accounts(c, s) /\ RecordsSound(recs, internal, s, N)
    BY <1>1, <1>3, <1>4, <1>5, AccountsHold
<1>7. c.internal = internal /\ c.records = recs
    BY ONLY <1>5
<1>8. QED
    BY <1>2, <1>3, <1>4, <1>6, <1>7 DEF CorpusInv

\* A decision that is recorded later changes nothing of an exported corpus.
LEMMA RecordKeepsCorpus ==
    ASSUME LogInv, CorpusInv, NEW d \in NewDecisions, RecordDecision(d)
    PROVE  CorpusInv'
<1> SUFFICES ASSUME corpus # NoCorpus
             PROVE  /\ phase' = "up" /\ corpus'.internal \in BOOLEAN
                    /\ RecordsSound(corpus'.records, corpus'.internal, served', Len(served'))
                    /\ Accounts(corpus', served')
  <2>1. corpus' = corpus
    BY DEF RecordDecision
  <2>2. QED
    BY <2>1 DEF CorpusInv
<1>1. phase' = "up" /\ corpus' = corpus
    BY DEF RecordDecision
<1>2. PICK N, e : N \in Nat /\ IsSeq(served, N) /\ served' = Append(served, e)
    BY RecordedAt
<1>3. PICK s, t, c : s = served /\ t = served' /\ c = corpus
    OBVIOUS
<1>4. Extended(t, s, N, e)
    BY <1>2, <1>3, SeqAppend
<1>5. Len(s) = N /\ Len(t) = N + 1 /\ \A k \in 1..N : t[k] = s[k]
    BY <1>2, <1>3, <1>4 DEF Extended, IsSeq
<1>6. c.internal \in BOOLEAN /\ RecordsSound(c.records, c.internal, s, N) /\ Accounts(c, s)
    BY <1>3, <1>5 DEF CorpusInv
<1>7. ASSUME NEW i \in DOMAIN c.records
      PROVE  RecordSound(c.records[i], c.internal, t, N + 1) /\ Lack(t, c.records[i]) = Lack(s, c.records[i])
  <2>1. PICK r : r = c.records[i]
    OBVIOUS
  <2>2. RecordSound(r, c.internal, s, N)
    BY <1>6, <2>1 DEF RecordsSound
  <2>3. r.height \in 1..N /\ r.height \in 1..(N + 1) /\ t[r.height] = s[r.height]
    BY <1>5, <2>2 DEF RecordSound
  <2>4. QED
    BY <2>1, <2>2, <2>3 DEF RecordSound, Lack
<1>8. RecordsSound(c.records, c.internal, t, N + 1)
    BY <1>7 DEF RecordsSound
<1>9. [i \in DOMAIN c.records |-> Lack(t, c.records[i])] = [i \in DOMAIN c.records |-> Lack(s, c.records[i])]
    BY <1>7
<1>10. Accounts(c, t)
    BY <1>6, <1>9, Zenon DEF Accounts
<1>11. QED
    BY <1>1, <1>3, <1>5, <1>6, <1>8, <1>10

LEMMA CorpusNext == LogInv /\ CorpusInv /\ [LanesNext]_laneVars => CorpusInv'
<1> SUFFICES ASSUME LogInv, CorpusInv, [LanesNext]_laneVars PROVE CorpusInv'
    OBVIOUS
<1>1. ASSUME phase # "up", corpus' = corpus PROVE CorpusInv'
    BY <1>1 DEF CorpusInv
<1>2. CASE StartCurrent
    BY <1>1, <1>2 DEF StartCurrent
<1>3. CASE StartMigration
    BY <1>1, <1>3 DEF StartMigration
<1>4. CASE WriteOne
    BY <1>1, <1>4 DEF WriteOne
<1>5. CASE FinishMigration
    BY <1>1, <1>5 DEF FinishMigration
<1>6. CASE Halt
    BY <1>6 DEF Halt, CorpusInv
<1>7. CASE \E d \in NewDecisions : RecordDecision(d)
    BY <1>7, RecordKeepsCorpus
<1>8. CASE \E internal \in BOOLEAN : export_training_corpus_with_manifest(internal)
    BY <1>8, ExportCorpus
<1>9. CASE UNCHANGED laneVars
    BY <1>9 DEF laneVars, CorpusInv
<1>10. QED
    BY <1>2, <1>3, <1>4, <1>5, <1>6, <1>7, <1>8, <1>9 DEF LanesNext

LEMMA CorpusSound == LogInv /\ CorpusInv => CorpusClean /\ ManifestAccounts
<1> SUFFICES ASSUME LogInv, CorpusInv PROVE CorpusClean /\ ManifestAccounts
    OBVIOUS
<1>1. ManifestAccounts
    BY AccountsAre DEF CorpusInv
<1>2. CASE corpus = NoCorpus
  <2>1. DOMAIN corpus.records = {}
    BY <1>2 DEF NoCorpus
  <2>2. CorpusClean
    BY <2>1 DEF CorpusClean
  <2>3. QED
    BY <1>1, <2>2
<1>3. CASE corpus # NoCorpus
  <2>1. /\ phase = "up" /\ corpus.internal \in BOOLEAN
        /\ RecordsSound(corpus.records, corpus.internal, served, Len(served))
    BY <1>3 DEF CorpusInv
  <2>2. PICK N \in Nat : N = Len(served) /\ \A k \in 1..N : CurrentForm(served[k])
    BY <2>1, ServedSource
  <2>3. ASSUME NEW i \in DOMAIN corpus.records,
               NEW r, r = corpus.records[i], NEW e, e = served[r.height],
               NEW named, named = DOMAIN e.metadata \cap {LaneKeys[k] : k \in DOMAIN LaneKeys}
        PROVE  /\ "lane" \in named => ~SealedRequest(e.metadata["lane"])
               /\ named = {} => ~SealedRequest(e.context)
               /\ r.lane = "private" => corpus.internal
               /\ r.lane = "public" =>
                    /\ r.reasoning = "none"
                    /\ \A k \in DOMAIN r.metadata :
                         /\ is_public_training_metadata_key(k)
                         /\ r.metadata[k] \notin {"secret", "identity", "classified"}
    <3>1. RecordSound(r, corpus.internal, served, N)
      BY <2>1, <2>2, <2>3 DEF RecordsSound
    <3>2. CurrentForm(e) /\ r = training_record_from_entry(e)
      BY <2>2, <2>3, <3>1 DEF RecordSound
    <3>3. PICK internal \in BOOLEAN : internal = corpus.internal
      BY <2>1
    <3>4. Disposition(e, internal) = "exported"
      BY <2>3, <3>1, <3>3 DEF RecordSound
    <3>5. QED
      BY <2>3, <3>2, <3>3, <3>4, RecordClean
  <2>4. CorpusClean
    BY <2>3, Zenon DEF CorpusClean
  <2>5. QED
    BY <1>1, <2>4
<1>4. QED
    BY <1>2, <1>3

\* No exported corpus has a decision that asked for the sealed lane, a private
\* one that was not asked for, or a public record that is not redacted.
THEOREM CorpusAlwaysClean == LanesSpec => []CorpusClean
<1>1. LanesInit => CorpusInv
    BY DEF LanesInit, CorpusInv
<1>2. LanesSpec => [](LogInv /\ CorpusInv)
    BY <1>1, LogInvInit, LogInvNext, CorpusNext, PTL DEF LanesSpec
<1>3. QED
    BY <1>2, CorpusSound, PTL

\* The manifest of every export accounts for every entry once.
THEOREM ManifestAlwaysAccounts == LanesSpec => []ManifestAccounts
<1>1. LanesInit => CorpusInv
    BY DEF LanesInit, CorpusInv
<1>2. LanesSpec => [](LogInv /\ CorpusInv)
    BY <1>1, LogInvInit, LogInvNext, CorpusNext, PTL DEF LanesSpec
<1>3. QED
    BY <1>2, CorpusSound, PTL

=============================================================================
