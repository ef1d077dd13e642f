------------------------------ MODULE ChainSync ------------------------------
(***************************************************************************)
(* How blocks travel between nodes (p2p.rs).  Each TCP connection has a    *)
(* handler on both sides.  A handler subscribes to its node's block        *)
(* broadcast, sends a handshake with the node's height, and then answers   *)
(* one message at a time; its write task merges the replies with the       *)
(* broadcast blocks in any order.  A received block is applied when it     *)
(* extends the tip, and is not passed on.  There is no fork choice.        *)
(*                                                                         *)
(* Blocks are their hashes and links here; ChainNode has what is in them,  *)
(* ChainStore what applying one takes.                                     *)
(***************************************************************************)
EXTENDS Integers, Sequences, FiniteSets

CONSTANTS
    Nodes,
    Miners,      \* the nodes that run a block producer
    Links,       \* which nodes dial each other: a set of sets of two nodes
    MaxRange,    \* MAX_BLOCK_RANGE
    GossipSize,  \* capacity of the block broadcast channel
    MaxHeight,   \* bound: the height of a chain
    MaxDrops     \* bound: lost connections in a behaviour

ASSUME SyncAssumption ==
    /\ Miners \subseteq Nodes
    /\ \A l \in Links : \E a, b \in Nodes : a # b /\ l = {a, b}
    /\ MaxRange \in Nat
    /\ GossipSize \in Nat \ {0}
    /\ MaxHeight \in Nat
    /\ MaxDrops \in Nat

VARIABLES
    chain,       \* chain[n]: the blocks 1, 2, ... of node n
    produced,    \* produced[m]: applied by the producer, not yet broadcast
    handler,     \* handler[n][p]: n's side of the connection with p
    replies,     \* replies[n][p]: messages n's handler has sent to p
    gossip,      \* gossip[n][p]: blocks broadcast by n, not yet read by p
    syncing,     \* syncing[n][p]: the blocks of a Blocks message n still applies
    drops        \* lost connections so far

vars == <<chain, produced, handler, replies, gossip, syncing, drops>>

\* A miner never gives up a block of its chain, so it has one per height.
Hash == Nodes \X Nat
Block == [height: Nat, hash: Hash, prev_hash: Hash \cup {"genesis"}]
NoBlock == [height |-> 0]

Message ==
    [type: {"Handshake"}, height: Nat]
    \cup [type: {"GetBlocks"}, from: Nat, to: Nat]
    \cup [type: {"Blocks"}, blocks: Seq(Block)]

TipHash(n) == IF chain[n] = <<>> THEN "genesis" ELSE chain[n][Len(chain[n])].hash

Init ==
    /\ chain = [n \in Nodes |-> <<>>]
    /\ produced = [n \in Nodes |-> NoBlock]
    /\ handler = [n \in Nodes |-> [p \in Nodes |-> "closed"]]
    /\ replies = [n \in Nodes |-> [p \in Nodes |-> <<>>]]
    /\ gossip = [n \in Nodes |-> [p \in Nodes |-> <<>>]]
    /\ syncing = [n \in Nodes |-> [p \in Nodes |-> <<>>]]
    /\ drops = 0

-----------------------------------------------------------------------------
(* Connections.                                                            *)

\* A dial succeeds: both sides register the peer and start their handlers.
Connect(n, p) ==
    /\ {n, p} \in Links
    /\ handler[n][p] = "closed" /\ handler[p][n] = "closed"
    /\ handler' = [handler EXCEPT ![n][p] = "registered", ![p][n] = "registered"]
    /\ UNCHANGED <<chain, produced, replies, gossip, syncing, drops>>

\* self.block_tx.subscribe(): from here on broadcast blocks are kept for p.
Subscribe(n, p) ==
    /\ handler[n][p] = "registered"
    /\ handler' = [handler EXCEPT ![n][p] = "subscribed"]
    /\ UNCHANGED <<chain, produced, replies, gossip, syncing, drops>>

\* The height is read and the handshake sent.
SendHandshake(n, p) ==
    /\ handler[n][p] = "subscribed"
    /\ handler' = [handler EXCEPT ![n][p] = "open"]
    /\ replies' = [replies EXCEPT ![n][p] =
                     Append(@, [type |-> "Handshake", height |-> Len(chain[n])])]
    /\ UNCHANGED <<chain, produced, gossip, syncing, drops>>

\* The connection is lost, with everything that was under way on it.
Drop(n, p) ==
    /\ drops < MaxDrops
    /\ handler[n][p] # "closed"
    /\ drops' = drops + 1
    /\ handler' = [handler EXCEPT ![n][p] = "closed", ![p][n] = "closed"]
    /\ replies' = [replies EXCEPT ![n][p] = <<>>, ![p][n] = <<>>]
    /\ gossip' = [gossip EXCEPT ![n][p] = <<>>, ![p][n] = <<>>]
    /\ syncing' = [syncing EXCEPT ![n][p] = <<>>, ![p][n] = <<>>]
    /\ UNCHANGED <<chain, produced>>

-----------------------------------------------------------------------------
(* The producer.                                                           *)

\* Mutant of Produce: the block goes out although applying it failed.
ProduceUnapplied(m) ==
    /\ m \in Miners
    /\ produced[m] = NoBlock
    /\ Len(chain[m]) < MaxHeight
    /\ produced' = [produced EXCEPT ![m] =
                      [height |-> Len(chain[m]) + 1, hash |-> <<m, Len(chain[m]) + 1>>,
                       prev_hash |-> TipHash(m)]]
    /\ UNCHANGED <<chain, handler, replies, gossip, syncing, drops>>

\* A tick: the miner's block is applied to its own chain.
Produce(m) ==
    /\ m \in Miners
    /\ produced[m] = NoBlock
    /\ Len(chain[m]) < MaxHeight
    /\ LET b == [height |-> Len(chain[m]) + 1, hash |-> <<m, Len(chain[m]) + 1>>,
                 prev_hash |-> TipHash(m)]
       IN  /\ chain' = [chain EXCEPT ![m] = Append(@, b)]
           /\ produced' = [produced EXCEPT ![m] = b]
    /\ UNCHANGED <<handler, replies, gossip, syncing, drops>>

\* A broadcast channel keeps the latest GossipSize values: a receiver that lags
\* loses the oldest, which the write task passes over.
Buffered(queue, b) ==
    IF Len(queue) < GossipSize THEN Append(queue, b) ELSE Append(Tail(queue), b)

\* block_tx.send: to every handler that has subscribed.
Broadcast(m) ==
    /\ produced[m] # NoBlock
    /\ gossip' = [gossip EXCEPT ![m] =
                    [p \in Nodes |-> IF handler[m][p] \in {"subscribed", "open"}
                                     THEN Buffered(gossip[m][p], produced[m])
                                     ELSE gossip[m][p]]]
    /\ produced' = [produced EXCEPT ![m] = NoBlock]
    /\ UNCHANGED <<chain, handler, replies, syncing, drops>>

-----------------------------------------------------------------------------
(* The message handlers of node n for its connection with p.               *)

\* The read loop runs once the handshake is sent, one message at a time.
Reading(n, p) == handler[n][p] = "open" /\ syncing[n][p] = <<>>

Reply(n, p, msg) == [replies EXCEPT ![n][p] = Append(@, msg)]

\* What n asks p for when it learns that height h exists.
Request(n, h) == [type |-> "GetBlocks", from |-> Len(chain[n]) + 1, to |-> h]

\* apply_block's check of a block against the tip of n.
Extends(n, b) == b.height = Len(chain[n]) + 1 /\ b.prev_hash = TipHash(n)

RecvNewBlock(n, p) ==
    /\ Reading(n, p)
    /\ gossip[p][n] # <<>>
    /\ gossip' = [gossip EXCEPT ![p][n] = Tail(@)]
    /\ LET b == Head(gossip[p][n]) IN
       /\ chain' = IF Extends(n, b) THEN [chain EXCEPT ![n] = Append(@, b)] ELSE chain
       /\ replies' = IF b.height > Len(chain[n]) + 1
                     THEN Reply(n, p, Request(n, b.height)) ELSE replies
    /\ UNCHANGED <<produced, handler, syncing, drops>>

\* n takes the next message that p sent.
Incoming(n, p, type) ==
    /\ Reading(n, p)
    /\ replies[p][n] # <<>>
    /\ Head(replies[p][n]).type = type

\* Mutant of RecvHandshake: a peer that is one block ahead is not asked.
RecvHandshakeOffByOne(n, p) ==
    /\ Incoming(n, p, "Handshake")
    /\ LET h == Head(replies[p][n]).height IN
       replies' = [replies EXCEPT
         ![p][n] = Tail(@),
         ![n][p] = IF h > Len(chain[n]) + 1 THEN Append(@, Request(n, h)) ELSE @]
    /\ UNCHANGED <<chain, produced, handler, gossip, syncing, drops>>

RecvHandshake(n, p) ==
    /\ Incoming(n, p, "Handshake")
    /\ LET h == Head(replies[p][n]).height IN
       replies' = [replies EXCEPT
         ![p][n] = Tail(@),
         ![n][p] = IF h > Len(chain[n]) THEN Append(@, Request(n, h)) ELSE @]
    /\ UNCHANGED <<chain, produced, handler, gossip, syncing, drops>>

\* store.get_blocks(from, to): the heights that exist.
get_blocks(n, from, to) ==
    SubSeq(chain[n], from, IF to < Len(chain[n]) THEN to ELSE Len(chain[n]))

RecvGetBlocks(n, p) ==
    /\ Incoming(n, p, "GetBlocks")
    /\ LET msg == Head(replies[p][n])
           to_clamped == IF msg.to < msg.from + MaxRange THEN msg.to ELSE msg.from + MaxRange
           blocks == get_blocks(n, msg.from, to_clamped)
       IN  replies' = [replies EXCEPT
             ![p][n] = Tail(@),
             ![n][p] = IF blocks # <<>> THEN Append(@, [type |-> "Blocks", blocks |-> blocks])
                                        ELSE @]
    /\ UNCHANGED <<chain, produced, handler, gossip, syncing, drops>>

RecvBlocks(n, p) ==
    /\ Incoming(n, p, "Blocks")
    /\ syncing' = [syncing EXCEPT ![n][p] = Head(replies[p][n]).blocks]
    /\ replies' = [replies EXCEPT ![p][n] = Tail(@)]
    /\ UNCHANGED <<chain, produced, handler, gossip, drops>>

\* Mutant of ApplySynced: the previous hash is not compared with the tip.
ApplySyncedByHeight(n, p) ==
    /\ syncing[n][p] # <<>>
    /\ LET b == Head(syncing[n][p]) IN
       chain' = IF b.height = Len(chain[n]) + 1
                THEN [chain EXCEPT ![n] = Append(@, b)] ELSE chain
    /\ syncing' = [syncing EXCEPT ![n][p] = Tail(@)]
    /\ UNCHANGED <<produced, handler, replies, gossip, drops>>

\* One block of a Blocks message; an error is ignored and the next one tried.
ApplySynced(n, p) ==
    /\ syncing[n][p] # <<>>
    /\ LET b == Head(syncing[n][p]) IN
       chain' = IF Extends(n, b) THEN [chain EXCEPT ![n] = Append(@, b)] ELSE chain
    /\ syncing' = [syncing EXCEPT ![n][p] = Tail(@)]
    /\ UNCHANGED <<produced, handler, replies, gossip, drops>>

-----------------------------------------------------------------------------
\* What the handler of n for p does without anyone else's help.
HandlerStep(n, p) ==
    \/ Subscribe(n, p)
    \/ SendHandshake(n, p)
    \/ RecvNewBlock(n, p)
    \/ RecvHandshake(n, p)
    \/ RecvGetBlocks(n, p)
    \/ RecvBlocks(n, p)
    \/ ApplySynced(n, p)

Next ==
    \/ \E m \in Nodes : Produce(m) \/ Broadcast(m)
    \/ \E n, p \in Nodes : Connect(n, p) \/ Drop(n, p) \/ HandlerStep(n, p)

Spec == Init /\ [][Next]_vars

\* Tasks that can run are run, the redial loop keeps dialling, and ticks come.
\* A handler reads its two sources fairly: select! polls them in random order.
Fairness ==
    /\ \A m \in Nodes : WF_vars(Produce(m)) /\ WF_vars(Broadcast(m))
    /\ \A n, p \in Nodes :
         /\ WF_vars(Connect(n, p))
         /\ WF_vars(Subscribe(n, p)) /\ WF_vars(SendHandshake(n, p))
         /\ WF_vars(ApplySynced(n, p))
         /\ SF_vars(RecvNewBlock(n, p))
         /\ SF_vars(RecvHandshake(n, p) \/ RecvGetBlocks(n, p) \/ RecvBlocks(n, p))

FairSpec == Spec /\ Fairness

-----------------------------------------------------------------------------
(* Properties.                                                             *)

TypeOK ==
    /\ chain \in [Nodes -> Seq(Block)]
    /\ produced \in [Nodes -> Block \cup {NoBlock}]
    /\ handler \in [Nodes -> [Nodes -> {"closed", "registered", "subscribed", "open"}]]
    /\ replies \in [Nodes -> [Nodes -> Seq(Message)]]
    /\ gossip \in [Nodes -> [Nodes -> Seq(Block)]]
    /\ \A n, p \in Nodes : Len(gossip[n][p]) <= GossipSize
    /\ syncing \in [Nodes -> [Nodes -> Seq(Block)]]
    /\ drops \in Nat

\* Every chain is linked from the genesis block, height by height.
ChainsLinked ==
    \A n \in Nodes : \A i \in 1..Len(chain[n]) :
        /\ chain[n][i].height = i
        /\ chain[n][i].prev_hash = IF i = 1 THEN "genesis" ELSE chain[n][i - 1].hash

\* Two chains that share the block of some height share everything below it,
\* with any number of miners.
CommonPast ==
    \A n, p \in Nodes : \A i \in 1..Len(chain[n]) :
        i <= Len(chain[p]) /\ chain[n][i].hash = chain[p][i].hash
            => \A j \in 1..i : chain[n][j] = chain[p][j]

\* With one miner every node holds a prefix of the miner's chain.
FollowsMiner ==
    \A m \in Miners : Miners = {m} =>
        \A n \in Nodes :
            /\ Len(chain[n]) <= Len(chain[m])
            /\ \A i \in 1..Len(chain[n]) : chain[n][i] = chain[m][i]

\* With one miner that everyone is linked to, every block of the miner reaches
\* every node, whatever connections are lost and however a block races with the
\* handshake of a new connection.
CatchesUp ==
    \A m \in Miners, n \in Nodes, h \in 1..MaxHeight :
        (Len(chain[m]) >= h) ~> (Len(chain[n]) >= h)

\* Every chain is linked from genesis, and two that share a block share its past,
\* in whatever order blocks and synced ranges arrive and are refused.
PastAgreed ==
    /\ TypeOK
    /\ ChainsLinked
    /\ CommonPast

=============================================================================
