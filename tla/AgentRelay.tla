----------------------------- MODULE AgentRelay -----------------------------
(***************************************************************************)
(* Presence, chat and relay envelopes of the agents (api.rs), as two nodes *)
(* keep them and gossip them to each other (p2p.rs, store.rs).             *)
(*                                                                         *)
(* A request stores its record on the node it reaches and broadcasts it;   *)
(* every connection has its own queue of broadcasts, which drops the       *)
(* oldest ones when its reader lags, and everything when it closes.  The   *)
(* receiver stores what arrives and passes nothing on.  Two nodes that     *)
(* dial each other share two connections, so the same gossip may arrive    *)
(* twice; clients repeat their requests.                                   *)
(*                                                                         *)
(* A relay envelope is signed, and named by its creation time and a hash;  *)
(* a chat message is named by the millisecond and its sender, anew on each *)
(* node.  Checks of form (hex digits, lengths) and listings are left out.  *)
(***************************************************************************)
EXTENDS Integers, Sequences, FiniteSets

CONSTANTS
    Peers2,         \* the two nodes
    Links,          \* connections between them
    Agents,         \* wallets
    Texts,          \* chat messages
    Envelopes,      \* [created, sender, signer, content]: relay envelopes
    RoomIds,        \* rooms that agents name in their heartbeats
    GossipCapacity, \* broadcast channel: messages a lagging reader may miss
    MaxMillis,      \* bound: time
    MaxSends        \* bound: requests

VARIABLES
    presence,   \* presence[n]: heartbeats, wallet -> [room, seen]
    chats,      \* chats[n]: autonomo_messages, <<millis, wallet>> -> message
    relays,     \* relays[n]: relay tree, message id -> envelope
    wire,       \* wire[l][n]: gossip from n that connection l has not delivered
    open,       \* the connections that are up
    millis,
    sends,
    posted      \* history: [node, kind, ...] of every accepted request

relayVars == <<presence, chats, relays, wire, open, millis, sends, posted>>

Absent == [room |-> "none", seen |-> -1]
NoText == [from |-> "none", text |-> "none"]
NoEnvelopeHere == [created |-> -1]

ASSUME RelayAssumption ==
    /\ \E a, b \in Peers2 : a # b /\ Peers2 = {a, b}
    /\ NoEnvelopeHere \notin Envelopes
    /\ "none" \notin RoomIds
    /\ MaxMillis \in Nat /\ GossipCapacity \in Nat

Other(n) == CHOOSE m \in Peers2 : m # n

\* Mutant of message_id: the envelope's creation time alone.
IdOfTime(e) == <<e.created>>

\* The time, and a hash of everything that was signed and of the signature.
message_id(e) == <<e.created, e>>

ChatKeys == (0..MaxMillis) \X Agents

RelayIds == {message_id(e) : e \in Envelopes}

RelayInit ==
    /\ presence = [n \in Peers2 |-> [w \in Agents |-> Absent]]
    /\ chats = [n \in Peers2 |-> [k \in ChatKeys |-> NoText]]
    /\ relays = [n \in Peers2 |-> [i \in RelayIds |-> NoEnvelopeHere]]
    /\ wire = [l \in Links |-> [n \in Peers2 |-> <<>>]]
    /\ open = Links
    /\ millis = 0
    /\ sends = 0
    /\ posted = {}

\* broadcast_gossip: every open connection of n gets the message; a full queue
\* loses its oldest one.
Broadcast(n, msg) ==
    [l \in Links |->
       IF l \notin open THEN wire[l]
       ELSE LET q == Append(wire[l][n], msg)
            IN  [wire[l] EXCEPT ![n] = IF Len(q) > GossipCapacity THEN Tail(q) ELSE q]]

\* The record is stored, and gossiped when the agent sent an encrypted payload.
autonomo_heartbeat(n, w, room, payload) ==
    /\ sends < MaxSends
    /\ presence' = [presence EXCEPT ![n][w] = [room |-> room, seen |-> millis]]
    /\ wire' = IF payload THEN Broadcast(n, [kind |-> "beat", wallet |-> w]) ELSE wire
    /\ sends' = sends + 1
    /\ posted' = posted \cup {[kind |-> "beat", node |-> n, wallet |-> w, room |-> room,
                               at |-> millis]}
    /\ UNCHANGED <<chats, relays, open, millis>>

\* Mutant of ChatKey: the millisecond alone names the message.
ChatKeyOfTime(w) == <<millis, CHOOSE v \in Agents : TRUE>>

ChatKey(w) == <<millis, w>>

autonomo_agent_message(n, w, text) ==
    /\ sends < MaxSends
    /\ LET m == [from |-> w, text |-> text] IN
       /\ chats' = [chats EXCEPT ![n][ChatKey(w)] = m]
       /\ wire' = Broadcast(n, [kind |-> "chat", message |-> m])
       /\ posted' = posted \cup {[kind |-> "chat", node |-> n, message |-> m, at |-> millis]}
    /\ sends' = sends + 1
    /\ UNCHANGED <<presence, relays, open, millis>>

\* autonomo_secure_relay_send: the wallet must be the signer's, and the
\* signature its.
autonomo_secure_relay_send(n, e) ==
    /\ sends < MaxSends
    /\ IF e.signer = e.sender
       THEN /\ relays' = [relays EXCEPT ![n] = [@ EXCEPT ![message_id(e)] = e]]
            /\ wire' = Broadcast(n, [kind |-> "relay", envelope |-> e])
            /\ posted' = posted \cup {[kind |-> "relay", node |-> n, envelope |-> e]}
       ELSE UNCHANGED <<relays, wire, posted>>
    /\ sends' = sends + 1
    /\ UNCHANGED <<presence, chats, open, millis>>

\* What handle_msg does with gossip at node n.  A heartbeat replaces the record
\* of its wallet, room and all; a chat message is named anew.
AutonomoHeartbeatGossip(n, msg) ==
    /\ msg.kind = "beat"
    /\ presence' = [presence EXCEPT ![n][msg.wallet] = [room |-> "none", seen |-> millis]]
    /\ UNCHANGED <<chats, relays>>

AutonomoChatGossip(n, msg) ==
    /\ msg.kind = "chat"
    /\ chats' = [chats EXCEPT ![n][ChatKey(msg.message.from)] = msg.message]
    /\ UNCHANGED <<presence, relays>>

AutonomoSecureRelayGossip(n, msg) ==
    /\ msg.kind = "relay"
    /\ relays' = [relays EXCEPT ![n][message_id(msg.envelope)] = msg.envelope]
    /\ UNCHANGED <<presence, chats>>

\* Mutant of Deliver: the receiver passes gossip on, to the sender as well.
DeliverEcho(l, n) ==
    /\ wire[l][Other(n)] # <<>>
    /\ LET msg == Head(wire[l][Other(n)]) IN
       /\ \/ AutonomoHeartbeatGossip(n, msg)
          \/ AutonomoChatGossip(n, msg)
          \/ AutonomoSecureRelayGossip(n, msg)
       /\ wire' = [wire EXCEPT ![l] = [m \in Peers2 |->
                     IF m = n THEN Append(@[n], msg) ELSE Tail(@[m])]]
    /\ UNCHANGED <<open, millis, sends, posted>>

\* Connection l delivers its next message to n.
Deliver(l, n) ==
    /\ wire[l][Other(n)] # <<>>
    /\ LET msg == Head(wire[l][Other(n)]) IN
       \/ AutonomoHeartbeatGossip(n, msg)
       \/ AutonomoChatGossip(n, msg)
       \/ AutonomoSecureRelayGossip(n, msg)
    /\ wire' = [wire EXCEPT ![l][Other(n)] = Tail(@)]
    /\ UNCHANGED <<open, millis, sends, posted>>

CloseLink(l) ==
    /\ l \in open
    /\ open' = open \ {l}
    /\ wire' = [wire EXCEPT ![l] = [n \in Peers2 |-> <<>>]]
    /\ UNCHANGED <<presence, chats, relays, millis, sends, posted>>

OpenLink(l) ==
    /\ l \notin open
    /\ open' = open \cup {l}
    /\ UNCHANGED <<presence, chats, relays, wire, millis, sends, posted>>

Millisecond ==
    /\ millis < MaxMillis
    /\ millis' = millis + 1
    /\ UNCHANGED <<presence, chats, relays, wire, open, sends, posted>>

RelayNext ==
    \/ \E n \in Peers2 :
         \/ \E w \in Agents, r \in RoomIds, p \in BOOLEAN : autonomo_heartbeat(n, w, r, p)
         \/ \E w \in Agents, t \in Texts : autonomo_agent_message(n, w, t)
         \/ \E e \in Envelopes : autonomo_secure_relay_send(n, e)
         \/ \E l \in Links : Deliver(l, n)
    \/ \E l \in Links : CloseLink(l) \/ OpenLink(l)
    \/ Millisecond

RelaySpec == RelayInit /\ [][RelayNext]_relayVars

-----------------------------------------------------------------------------
(* Properties.                                                             *)

\* A relay envelope that was accepted stays on the node that accepted it, once:
\* no other envelope takes its name, and neither a repeated request nor gossip
\* that arrives twice makes a second copy.  Nothing else is stored.
RelayedOnce ==
    LET accepted == {p \in posted : p.kind = "relay"} IN
    /\ \A p \in accepted :
         Cardinality({i \in RelayIds : relays[p.node][i] = p.envelope}) = 1
    /\ \A n \in Peers2, i \in RelayIds :
         relays[n][i] # NoEnvelopeHere => \E p \in accepted : p.envelope = relays[n][i]

\* A chat message that was acknowledged stays on its node, unless its sender's
\* next message, or gossip of it, came in the same millisecond.
ChatKept ==
    \A p \in posted : p.kind = "chat" =>
        \/ chats[p.node][<<p.at, p.message.from>>] = p.message
        \/ /\ chats[p.node][<<p.at, p.message.from>>].from = p.message.from
           /\ \E q \in posted \ {p} : q.kind = "chat" /\ q.message.from = p.message.from

\* A node knows the room of an agent that reports only to it: its own gossip,
\* which carries no room, never comes back to it.
RoomKnown ==
    \A n \in Peers2, w \in Agents :
        LET beats == {p \in posted : p.kind = "beat" /\ p.wallet = w}
        IN  (beats # {} /\ \A p \in beats : p.node = n) => presence[n][w].room # "none"

\* What an agent sent or reported, and was acknowledged, stays known on its node,
\* once, through repeated requests and gossip that is lost or arrives twice.
AcknowledgedKept ==
    /\ RelayedOnce
    /\ ChatKept
    /\ RoomKnown

=============================================================================
