---------------------------- MODULE QueueGossip ----------------------------
(***************************************************************************)
(* How one signed queue spreads: pushed by its signer, then announced with *)
(* "inv", fetched with "getdata" and answered out of the by-hash index.    *)
(* A fresh connection asks for the index with "getmnqueues".               *)
(*                                                                         *)
(* Queues travel independently of each other, so one of them is enough.    *)
(* The run covers the time it is in every node's window (VoteTracker has   *)
(* the windows, replacement and pruning).                                  *)
(*                                                                         *)
(* setAskFor is kept per connection.  Only a "tx" message, or a queue that *)
(* arrived before its getdata was sent, takes a hash out of it again: a    *)
(* hash asked for in vain is not asked for on this connection again.       *)
(***************************************************************************)
EXTENDS FiniteSets, Naturals

CONSTANTS
  Nodes,
  Signer,    \* the node of the masternode that signs the queue
  Links,     \* pairs of nodes that connect to each other
  Aware,     \* nodes whose list has the signer from the start
  MaxDrops   \* bound: broken connections and restarts

ASSUME GossipConstants ==
  /\ IsFiniteSet(Nodes)
  /\ Links \subseteq {{m, n} : m, n \in Nodes}
  /\ \A l \in Links : Cardinality(l) = 2
  /\ Aware \subseteq Nodes
  /\ Signer \in Aware
  /\ MaxDrops \in Nat

VARIABLES
  known,     \* nodes whose masternode list has the signer
  have,      \* nodes with the queue in mapQueues and mapQueuesByHash
  cast,      \* the signer has broadcast
  up,        \* the links that are connected
  askFor,    \* <<n, m>>: n has the hash in mapAskFor of its connection to m
  setAskFor, \* <<n, m>>: n has the hash in setAskFor of its connection to m
  wire,      \* messages on the connections
  drops

vars == <<known, have, cast, up, askFor, setAskFor, wire, drops>>

Pairs == {p \in Nodes \X Nodes : {p[1], p[2]} \in Links}
Messages ==
  {msg \in [type : {"mnvotequeue", "inv", "getdata", "getmnqueues"}, from : Nodes, to : Nodes] :
     {msg.from, msg.to} \in Links}

Msg(type, m, n) == [type |-> type, from |-> m, to |-> n]
Peers(n) == {m \in Nodes : {m, n} \in up}

Init ==
  /\ known = Aware
  /\ have = {}
  /\ cast = FALSE
  /\ up = Links
  /\ askFor = {} /\ setAskFor = {}
  /\ wire = {}
  /\ drops = 0

-----------------------------------------------------------------------------
\* BroadcastQueue: recorded at home, pushed to every peer.
BroadcastQueue ==
  /\ ~cast
  /\ cast' = TRUE
  /\ have' = have \cup {Signer}
  /\ wire' = wire \cup {Msg("mnvotequeue", Signer, m) : m \in Peers(Signer)}
  /\ UNCHANGED <<known, up, askFor, setAskFor, drops>>

\* Mutant: a queue that can be recorded is not announced any further.
RecordWithoutRelay(msg) ==
  /\ msg \in wire /\ msg.type = "mnvotequeue"
  /\ wire' = (wire \ {msg}) \cup
       {Msg("inv", msg.to, m) : m \in {x \in Peers(msg.to) \ {msg.from} : msg.to \notin known}}
  /\ have' = have \cup ({msg.to} \cap known)
  /\ UNCHANGED <<known, cast, up, askFor, setAskFor, drops>>

\* "mnvotequeue": stop when it is known.  Announce it to the other peers,
\* record it if its voter is in the list.
ReceiveQueue(msg) ==
  /\ msg \in wire /\ msg.type = "mnvotequeue"
  /\ LET n == msg.to
         relay == {Msg("inv", n, m) : m \in Peers(n) \ {msg.from}}
     IN IF n \in have
        THEN /\ wire' = wire \ {msg}
             /\ UNCHANGED have
        ELSE /\ wire' = (wire \ {msg}) \cup relay
             /\ have' = IF n \in known THEN have \cup {n} ELSE have
  /\ UNCHANGED <<known, cast, up, askFor, setAskFor, drops>>

\* CNode::AskFor: once per connection.
AskFor(p) ==
  IF p \in setAskFor
  THEN UNCHANGED <<askFor, setAskFor>>
  ELSE /\ askFor' = askFor \cup {p}
       /\ setAskFor' = setAskFor \cup {p}

\* "inv": ask for the queue unless it is there.
ReceiveInv(msg) ==
  /\ msg \in wire /\ msg.type = "inv"
  /\ IF msg.to \in have
     THEN UNCHANGED <<askFor, setAskFor>>
     ELSE AskFor(<<msg.to, msg.from>>)
  /\ wire' = wire \ {msg}
  /\ UNCHANGED <<known, have, cast, up, drops>>

\* SendMessages: the request is due.  No request if the queue came meanwhile.
SendGetData(p) ==
  /\ p \in askFor
  /\ askFor' = askFor \ {p}
  /\ IF p[1] \in have
     THEN /\ setAskFor' = setAskFor \ {p}
          /\ UNCHANGED wire
     ELSE /\ wire' = wire \cup {Msg("getdata", p[1], p[2])}
          /\ UNCHANGED setAskFor
  /\ UNCHANGED <<known, have, cast, up, drops>>

\* "getdata": the queue, or "notfound", which nobody reads.
ReceiveGetData(msg) ==
  /\ msg \in wire /\ msg.type = "getdata"
  /\ wire' = (wire \ {msg}) \cup
       {Msg("mnvotequeue", msg.to, msg.from) : n \in {msg.to} \cap have}
  /\ UNCHANGED <<known, have, cast, up, askFor, setAskFor, drops>>

\* "getmnqueues": SyncQueues announces the index.
ReceiveGetQueues(msg) ==
  /\ msg \in wire /\ msg.type = "getmnqueues"
  /\ wire' = (wire \ {msg}) \cup {Msg("inv", msg.to, msg.from) : n \in {msg.to} \cap have}
  /\ UNCHANGED <<known, have, cast, up, askFor, setAskFor, drops>>

\* The signer's dsee arrives: the answer to AskForMN, or gossip.
Learn(n) ==
  /\ n \notin known
  /\ known' = known \cup {n}
  /\ UNCHANGED <<have, cast, up, askFor, setAskFor, wire, drops>>

-----------------------------------------------------------------------------
\* Mutant: the requests outlive their connection.
CloseKeepsRequests(L) ==
  /\ up' = up \ L
  /\ wire' = {msg \in wire : {msg.from, msg.to} \notin L}
  /\ UNCHANGED <<askFor, setAskFor>>

\* What connections carry and remember goes with them.
Close(L) ==
  /\ up' = up \ L
  /\ wire' = {msg \in wire : {msg.from, msg.to} \notin L}
  /\ askFor' = {p \in askFor : {p[1], p[2]} \notin L}
  /\ setAskFor' = {p \in setAskFor : {p[1], p[2]} \notin L}

Disconnect(l) ==
  /\ l \in up
  /\ drops < MaxDrops
  /\ drops' = drops + 1
  /\ Close({l})
  /\ UNCHANGED <<known, have, cast>>

\* The store is memory only.  The signer, which is not restarted here, would
\* sign its next queue for a later height.
Restart(n) ==
  /\ n # Signer
  /\ drops < MaxDrops
  /\ drops' = drops + 1
  /\ have' = have \ {n}
  /\ Close({l \in up : n \in l})
  /\ UNCHANGED <<known, cast>>

\* Mutant: a new connection does not ask for the index.
ConnectWithoutSync(l) ==
  /\ l \in Links \ up
  /\ up' = up \cup {l}
  /\ UNCHANGED <<known, have, cast, askFor, setAskFor, wire, drops>>

\* "verack" on both sides of a new connection.
Connect(l) ==
  /\ l \in Links \ up
  /\ up' = up \cup {l}
  /\ wire' = wire \cup {msg \in Messages : msg.type = "getmnqueues" /\ {msg.from, msg.to} = l}
  /\ UNCHANGED <<known, have, cast, askFor, setAskFor, drops>>

Receive(msg) ==
  ReceiveQueue(msg) \/ ReceiveInv(msg) \/ ReceiveGetData(msg) \/ ReceiveGetQueues(msg)

Next ==
  \/ BroadcastQueue
  \/ \E msg \in wire : Receive(msg)
  \/ \E p \in Pairs : SendGetData(p)
  \/ \E n \in Nodes : Learn(n) \/ Restart(n)
  \/ \E l \in Links : Disconnect(l) \/ Connect(l)

\* The message thread serves every connection in turn, requests become due,
\* outbound connections are opened again.  Nothing forces a dsee to come, a
\* connection to break or a node to restart.
Fairness ==
  /\ WF_vars(BroadcastQueue)
  /\ \A msg \in Messages : WF_vars(Receive(msg))
  /\ \A p \in Pairs : WF_vars(SendGetData(p))
  /\ \A l \in Links : WF_vars(Connect(l))

Spec == Init /\ [][Next]_vars /\ Fairness
-----------------------------------------------------------------------------
\* Messages, and what was asked for, belong to open connections.
TypeOK ==
  /\ known \subseteq Nodes
  /\ have \subseteq Nodes
  /\ cast \in BOOLEAN
  /\ up \subseteq Links
  /\ askFor \subseteq setAskFor
  /\ setAskFor \subseteq {p \in Pairs : {p[1], p[2]} \in up}
  /\ wire \subseteq Messages
  /\ \A msg \in wire : {msg.from, msg.to} \in up
  /\ drops \in 0 .. MaxDrops

\* A node with the queue will hand it to m: by itself, as announced, or as
\* asked for.
OnItsWay(n, m) ==
  \/ wire \cap {Msg("mnvotequeue", n, m), Msg("inv", n, m),
              Msg("getdata", m, n), Msg("getmnqueues", m, n)} # {}
  \/ <<m, n>> \in askFor

\* No announcement is lost between two nodes that know the signer: over an open
\* connection, what one has and the other lacks is on its way.  Requests are
\* made once per connection, duplicates stop the relay, the sender of a queue is
\* left out of it and restarts forget the store; none of it leaves a queue
\* stranded.
NoneStranded ==
  \A n, m \in Aware :
    {n, m} \in up /\ n \in have /\ m \notin have => OnItsWay(n, m)

\* The nodes a queue can reach over nodes that know its signer.
ReachOver(S) ==
  LET reach[k \in 0 .. Cardinality(Nodes)] ==
        IF k = 0 THEN {Signer}
        ELSE {n \in S : \E m \in reach[k - 1] : n = m \/ {m, n} \in Links}
  IN reach[Cardinality(Nodes)]

\* When all connections are up and nothing is in flight or due, the relay is
\* complete: every node has the queue that is linked to the signer through nodes
\* that know it.
QuietIsDelivered ==
  cast /\ up = Links /\ wire = {} /\ askFor = {} => ReachOver(Aware) \subseteq have

\* Every node that knows the signer, and is linked to it through nodes that
\* do, ends up with the queue for good: over lost connections, restarts that
\* lose the store, requests overtaken by another answer, and peers that do not
\* know the signer.
QueueReachesAware == <>[](ReachOver(Aware) \subseteq have)

\* The handler of "mnvotequeue" says of a node without the signer in its list:
\* "relay so the queue is not suppressed for peers that DO know the voter".
\* Nodes that know the signer get the queue, also from behind such a node.
NotSuppressed == <>[](Aware \subseteq have)
=============================================================================
