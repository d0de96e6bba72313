------------------------- MODULE QueueGossipProofs -------------------------
(***************************************************************************)
(* The relay loses no queue, in every network and over any number of       *)
(* broken connections and restarts: between nodes that know the signer a   *)
(* queue is held, or on its way.  So a network in which nothing is on its  *)
(* way has delivered it.                                                   *)
(*                                                                         *)
(* Requests are the hard part: a hash asked for is not asked for on this   *)
(* connection again.  The invariant therefore says who can have been       *)
(* asked: a node that knows the signer announces only what it holds, and   *)
(* forgets it only together with its connections.                          *)
(***************************************************************************)
EXTENDS QueueGossip, FiniteSetTheorems, WellFoundedInduction, TLAPS

\* Induction over naturals with sets instead of predicates: a cited theorem with
\* an operator parameter is beyond the installed provers, a set is not.

\* Every nonempty set of naturals has a least element.
LEMMA LeastElement ==
  ASSUME NEW T \in SUBSET Nat, T # {}
  PROVE  \E x \in T : \A y \in T : x <= y
<1> DEFINE R == OpToRel(<, Nat)
<1>1. R = {ss \in Nat \X Nat : ss[1] < ss[2]}
  BY DEF OpToRel
<1>2. IsWellFoundedOn(R, Nat)
  BY NatLessThanWellFounded
<1> HIDE DEF R
<1>3. PICK x \in T : \A y \in T : ~ (<<y, x>> \in R)
  BY <1>2, WFMin
<1>4. \A y \in T : ~(y < x)
  BY <1>1, <1>3
<1> QED BY <1>4

\* A set of naturals with 0 and every successor of a member is all of them.
LEMMA SetInduction ==
  ASSUME NEW S \in SUBSET Nat, 0 \in S, \A n \in S : n + 1 \in S
  PROVE  S = Nat
<1>1. ASSUME Nat \ S # {} PROVE FALSE
  <2>1. PICK x \in Nat \ S : \A y \in Nat \ S : x <= y
    BY <1>1, LeastElement
  <2>2. x # 0 /\ x - 1 \in Nat
    BY <2>1
  <2>3. x - 1 \in S
    BY <2>1, <2>2
  <2> QED BY <2>3
<1> QED BY <1>1

-----------------------------------------------------------------------------
\* Peers of a node are nodes over an open link, in either direction.
LEMMA PeersAreLinked ==
  ASSUME NEW n \in Nodes, NEW m \in Peers(n), up \subseteq Links
  PROVE  m \in Nodes /\ {n, m} \in up /\ {m, n} \in Links /\ {n, m} \in Links
BY DEF Peers

\* A message of one of the four kinds between linked nodes is a message.
LEMMA MessageOverLink ==
  ASSUME NEW type \in {"mnvotequeue", "inv", "getdata", "getmnqueues"},
         NEW m \in Nodes, NEW n \in Nodes, {m, n} \in Links
  PROVE  /\ Msg(type, m, n) \in Messages
         /\ Msg(type, m, n).from = m /\ Msg(type, m, n).to = n
BY DEF Messages, Msg

\* A message has two ends, both nodes.
LEMMA MessageEnds ==
  ASSUME NEW msg \in Messages
  PROVE  msg.from \in Nodes /\ msg.to \in Nodes /\ {msg.from, msg.to} \in Links
BY DEF Messages

\* Closing links takes along exactly the messages and requests on them.
LEMMA CloseKeepsTypes ==
  ASSUME TypeOK, NEW L, Close(L)
  PROVE  /\ up' \subseteq Links
         /\ askFor' \subseteq setAskFor'
         /\ setAskFor' \subseteq {p \in Pairs : {p[1], p[2]} \in up'}
         /\ wire' \subseteq Messages
         /\ \A msg \in wire' : {msg.from, msg.to} \in up'
BY DEF TypeOK, Close

\* A step that only adds messages over open links, or removes some, and
\* leaves the connections alone keeps what the invariant says of the wire.
LEMMA WireStep ==
  ASSUME TypeOK, up' = up, NEW New,
         wire' \subseteq wire \cup New,
         \A msg \in New : msg \in Messages /\ {msg.from, msg.to} \in up
  PROVE  /\ wire' \subseteq Messages
         /\ \A msg \in wire' : {msg.from, msg.to} \in up'
BY DEF TypeOK

\* Nodes, links, requests and messages keep their shape, what was asked for
\* was asked for once on its connection, and nothing outlives its connection.
THEOREM GossipTypes == Spec => []TypeOK
<1>1. Init => TypeOK
  <2> SUFFICES ASSUME Init PROVE TypeOK
    OBVIOUS
  <2>1. drops \in 0 .. MaxDrops
    BY GossipConstants DEF Init
  <2>2. known \subseteq Nodes
    BY GossipConstants DEF Init
  <2>3. /\ have \subseteq Nodes /\ cast \in BOOLEAN /\ up \subseteq Links
        /\ askFor \subseteq setAskFor
        /\ setAskFor \subseteq {p \in Pairs : {p[1], p[2]} \in up}
        /\ wire \subseteq Messages /\ \A msg \in wire : {msg.from, msg.to} \in up
    BY DEF Init
  <2> QED  BY <2>1, <2>2, <2>3 DEF TypeOK
<1>2. TypeOK /\ [Next]_vars => TypeOK'
  <2> SUFFICES ASSUME TypeOK, [Next]_vars PROVE TypeOK'
    OBVIOUS
  <2>1. CASE BroadcastQueue
    <3> DEFINE New == {Msg("mnvotequeue", Signer, m) : m \in Peers(Signer)}
    <3>1. Signer \in Nodes
      BY GossipConstants
    <3>2. \A msg \in New : msg \in Messages /\ {msg.from, msg.to} \in up
      <4> TAKE msg \in New
      <4>1. PICK m \in Peers(Signer) : msg = Msg("mnvotequeue", Signer, m)
        OBVIOUS
      <4>2. m \in Nodes /\ {Signer, m} \in up /\ {Signer, m} \in Links
        BY <3>1, PeersAreLinked DEF TypeOK
      <4>3. msg \in Messages /\ msg.from = Signer /\ msg.to = m
        BY <3>1, <4>1, <4>2, MessageOverLink
      <4> QED  BY <4>2, <4>3
    <3>3. up' = up /\ wire' = wire \cup New
      BY <2>1 DEF BroadcastQueue
    <3> HIDE DEF New
    <3>4. wire' \subseteq Messages /\ \A msg \in wire' : {msg.from, msg.to} \in up'
      BY <3>2, <3>3, WireStep
    <3> QED  BY <2>1, <3>1, <3>4 DEF BroadcastQueue, TypeOK
  <2>2. ASSUME NEW msg \in wire, ReceiveQueue(msg) PROVE TypeOK'
    <3> DEFINE New == {Msg("inv", msg.to, m) : m \in Peers(msg.to) \ {msg.from}}
    <3>1. msg.to \in Nodes
      BY MessageEnds DEF TypeOK
    <3>2. \A x \in New : x \in Messages /\ {x.from, x.to} \in up
      <4> TAKE x \in New
      <4>1. PICK m \in Peers(msg.to) : x = Msg("inv", msg.to, m)
        OBVIOUS
      <4>2. m \in Nodes /\ {msg.to, m} \in up /\ {msg.to, m} \in Links
        BY <3>1, PeersAreLinked DEF TypeOK
      <4>3. x \in Messages /\ x.from = msg.to /\ x.to = m
        BY <3>1, <4>1, <4>2, MessageOverLink
      <4> QED  BY <4>2, <4>3
    <3>3. up' = up /\ wire' \subseteq wire \cup New
      BY <2>2 DEF ReceiveQueue
    <3>4. wire' \subseteq Messages /\ \A x \in wire' : {x.from, x.to} \in up'
      <4> HIDE DEF New
      <4> QED  BY <3>2, <3>3, WireStep
    <3>5. have' \subseteq Nodes
      BY <2>2, <3>1 DEF ReceiveQueue, TypeOK
    <3> QED  BY <2>2, <3>4, <3>5 DEF ReceiveQueue, TypeOK
  <2>3. ASSUME NEW msg \in wire, ReceiveInv(msg) PROVE TypeOK'
    <3>1. <<msg.to, msg.from>> \in {p \in Pairs : {p[1], p[2]} \in up}
      <4>1. msg.from \in Nodes /\ msg.to \in Nodes /\ {msg.from, msg.to} \in up
        BY MessageEnds DEF TypeOK
      <4>2. {msg.to, msg.from} = {msg.from, msg.to}
        OBVIOUS
      <4> QED  BY <4>1, <4>2 DEF Pairs, TypeOK
    <3> DEFINE p == <<msg.to, msg.from>>
    <3>2. /\ askFor' \subseteq setAskFor'
          /\ setAskFor' \subseteq setAskFor \cup {p}
      BY <2>3 DEF ReceiveInv, AskFor, TypeOK
    <3>3. up' = up /\ wire' \subseteq wire
      BY <2>3 DEF ReceiveInv
    <3> HIDE DEF p
    <3> QED  BY <2>3, <3>1, <3>2, <3>3 DEF ReceiveInv, TypeOK, p
  <2>4. ASSUME NEW msg \in wire, ReceiveGetData(msg) PROVE TypeOK'
    <3> DEFINE New == {Msg("mnvotequeue", msg.to, msg.from)}
    <3>1. msg.from \in Nodes /\ msg.to \in Nodes /\ {msg.from, msg.to} \in up
      BY MessageEnds DEF TypeOK
    <3>2. {msg.to, msg.from} = {msg.from, msg.to}
      OBVIOUS
    <3>3. \A x \in New : x \in Messages /\ {x.from, x.to} \in up
      BY <3>1, <3>2, MessageOverLink DEF TypeOK
    <3>4. up' = up /\ wire' \subseteq wire \cup New
      BY <2>4 DEF ReceiveGetData
    <3>5. wire' \subseteq Messages /\ \A x \in wire' : {x.from, x.to} \in up'
      <4> HIDE DEF New
      <4> QED  BY <3>3, <3>4, WireStep
    <3> QED  BY <2>4, <3>5 DEF ReceiveGetData, TypeOK
  <2>5. ASSUME NEW msg \in wire, ReceiveGetQueues(msg) PROVE TypeOK'
    <3> DEFINE New == {Msg("inv", msg.to, msg.from)}
    <3>1. msg.from \in Nodes /\ msg.to \in Nodes /\ {msg.from, msg.to} \in up
      BY MessageEnds DEF TypeOK
    <3>2. {msg.to, msg.from} = {msg.from, msg.to}
      OBVIOUS
    <3>3. \A x \in New : x \in Messages /\ {x.from, x.to} \in up
      BY <3>1, <3>2, MessageOverLink DEF TypeOK
    <3>4. up' = up /\ wire' \subseteq wire \cup New
      BY <2>5 DEF ReceiveGetQueues
    <3>5. wire' \subseteq Messages /\ \A x \in wire' : {x.from, x.to} \in up'
      <4> HIDE DEF New
      <4> QED  BY <3>3, <3>4, WireStep
    <3> QED  BY <2>5, <3>5 DEF ReceiveGetQueues, TypeOK
  <2>6. ASSUME NEW p \in Pairs, SendGetData(p) PROVE TypeOK'
    <3> DEFINE New == {Msg("getdata", p[1], p[2])}
    <3>1. p[1] \in Nodes /\ p[2] \in Nodes /\ {p[1], p[2]} \in up
      BY <2>6 DEF SendGetData, Pairs, TypeOK
    <3>2. \A x \in New : x \in Messages /\ {x.from, x.to} \in up
      <4>1. /\ Msg("getdata", p[1], p[2]) \in Messages
            /\ Msg("getdata", p[1], p[2]).from = p[1]
            /\ Msg("getdata", p[1], p[2]).to = p[2]
        BY <3>1, MessageOverLink DEF TypeOK
      <4> QED  BY <3>1, <4>1
    <3>3. up' = up /\ wire' \subseteq wire \cup New
      BY <2>6 DEF SendGetData
    <3>4. wire' \subseteq Messages /\ \A x \in wire' : {x.from, x.to} \in up'
      <4> HIDE DEF New
      <4> QED  BY <3>2, <3>3, WireStep
    <3>5. askFor' \subseteq setAskFor' /\ setAskFor' \subseteq setAskFor
      BY <2>6 DEF SendGetData, TypeOK
    <3> QED  BY <2>6, <3>4, <3>5 DEF SendGetData, TypeOK
  <2>7. ASSUME NEW n \in Nodes, Learn(n) PROVE TypeOK'
    BY <2>7 DEF Learn, TypeOK
  <2>8. ASSUME NEW n \in Nodes, Restart(n) PROVE TypeOK'
    <3>1. Close({l \in up : n \in l})
      BY <2>8 DEF Restart
    <3>2. drops' \in 0 .. MaxDrops
      BY <2>8, GossipConstants DEF Restart, TypeOK
    <3> QED  BY <2>8, <3>1, <3>2, CloseKeepsTypes DEF Restart, TypeOK
  <2>9. ASSUME NEW l \in Links, Disconnect(l) PROVE TypeOK'
    <3>1. Close({l})
      BY <2>9 DEF Disconnect
    <3>2. drops' \in 0 .. MaxDrops
      BY <2>9, GossipConstants DEF Disconnect, TypeOK
    <3> QED  BY <2>9, <3>1, <3>2, CloseKeepsTypes DEF Disconnect, TypeOK
  <2>10. ASSUME NEW l \in Links, Connect(l) PROVE TypeOK'
    BY <2>10 DEF Connect, TypeOK
  <2>11. CASE UNCHANGED vars
    BY <2>11 DEF vars, TypeOK
  <2> QED
    BY <2>1, <2>2, <2>3, <2>4, <2>5, <2>6, <2>7, <2>8, <2>9, <2>10, <2>11 DEF Next, Receive
<1> QED  BY <1>1, <1>2, PTL DEF Spec

-----------------------------------------------------------------------------
\* Who sends a queue has it; so has who announces it and knows the signer.
SendersHold ==
  \A msg \in wire :
    msg.type = "mnvotequeue" \/ (msg.type = "inv" /\ msg.from \in Aware)
      => msg.from \in have

\* Who is asked, and knows the signer, has the queue.
AskedHold == \A p \in setAskFor : p[2] \in Aware => p[2] \in have

\* A hash asked for, and not due any more, is being asked for or answered, as
\* long as the queue has not come.
RequestsAnswered ==
  \A p \in setAskFor \ askFor :
    p[1] \in Aware /\ p[2] \in Aware /\ p[1] \notin have =>
      wire \cap {Msg("getdata", p[1], p[2]), Msg("mnvotequeue", p[2], p[1])} # {}

\* The signer is not restarted, and nodes do not forget the signer.
SignerHolds == (cast => Signer \in have) /\ Aware \subseteq known

\* What nodes hold: the inductive invariant, together with TypeOK.
HoldInv == SendersHold /\ AskedHold /\ RequestsAnswered /\ SignerHolds /\ NoneStranded

\* A message is what it is made of, so its kind and ends tell it apart.
LEMMA MsgFields ==
  ASSUME NEW type, NEW m, NEW n
  PROVE  /\ Msg(type, m, n).type = type
         /\ Msg(type, m, n).from = m
         /\ Msg(type, m, n).to = n
BY DEF Msg

\* When one message is taken off the wire, the queue stays on its way to a node
\* unless the message was it.
LEMMA TakenOff ==
  ASSUME NEW n, NEW m, NEW msg, OnItsWay(n, m),
         wire \ {msg} \subseteq wire', askFor \subseteq askFor'
  PROVE  \/ OnItsWay(n, m)'
         \/ msg \in {Msg("mnvotequeue", n, m), Msg("inv", n, m),
                     Msg("getdata", m, n), Msg("getmnqueues", m, n)}
BY DEF OnItsWay

\* When nothing is taken off, it stays on its way.
LEMMA NothingTakenOff ==
  ASSUME NEW n, NEW m, OnItsWay(n, m), wire \subseteq wire', askFor \subseteq askFor'
  PROVE  OnItsWay(n, m)'
BY DEF OnItsWay

\* The signer pushes its queue to every peer.
LEMMA BroadcastHolds ==
  ASSUME TypeOK, HoldInv, BroadcastQueue
  PROVE  HoldInv'
<1> USE DEF HoldInv
<1>1. /\ have' = have \cup {Signer} /\ wire \subseteq wire' /\ up' = up
      /\ askFor' = askFor /\ setAskFor' = setAskFor /\ known' = known
  BY DEF BroadcastQueue
<1>2. SendersHold'
  <2> SUFFICES ASSUME NEW msg \in wire',
                      msg.type = "mnvotequeue" \/ (msg.type = "inv" /\ msg.from \in Aware)
               PROVE  msg.from \in have'
    BY DEF SendersHold
  <2>1. CASE msg \in wire
    BY <1>1, <2>1 DEF SendersHold
  <2>2. CASE msg \notin wire
    <3>1. PICK m \in Peers(Signer) : msg = Msg("mnvotequeue", Signer, m)
      BY <2>2 DEF BroadcastQueue
    <3> QED  BY <1>1, <3>1, MsgFields
  <2> QED  BY <2>1, <2>2
<1>3. AskedHold' /\ SignerHolds'
  BY <1>1 DEF AskedHold, SignerHolds
<1>4. RequestsAnswered'
  BY <1>1 DEF RequestsAnswered, Msg
<1>5. NoneStranded'
  <2> SUFFICES ASSUME NEW n \in Aware, NEW m \in Aware, {n, m} \in up, n \in have', m \notin have'
               PROVE  OnItsWay(n, m)'
    BY <1>1 DEF NoneStranded
  <2>1. CASE n \in have
    <3>1. OnItsWay(n, m)
      BY <1>1, <2>1 DEF NoneStranded
    <3> QED  BY <1>1, <3>1, NothingTakenOff
  <2>2. CASE n \notin have
    <3>1. n = Signer /\ m \in Peers(Signer)
      <4>1. n = Signer /\ m \in Nodes
        BY <1>1, <2>2, GossipConstants
      <4>2. {m, n} = {n, m}
        OBVIOUS
      <4> QED  BY <4>1, <4>2 DEF Peers
    <3>2. Msg("mnvotequeue", n, m) \in wire'
      BY <3>1 DEF BroadcastQueue
    <3> QED  BY <3>2 DEF OnItsWay, Msg
  <2> QED  BY <2>1, <2>2
<1> QED  BY <1>2, <1>3, <1>4, <1>5

\* What a request stands for when one message is taken off the wire.
LEMMA RequestTakenOff ==
  ASSUME NEW p \in setAskFor \ askFor, NEW msg, RequestsAnswered,
         p[1] \in Aware, p[2] \in Aware, p[1] \notin have, wire \ {msg} \subseteq wire'
  PROVE  \/ wire' \cap {Msg("getdata", p[1], p[2]), Msg("mnvotequeue", p[2], p[1])} # {}
         \/ msg = Msg("getdata", p[1], p[2])
         \/ msg = Msg("mnvotequeue", p[2], p[1])
<1>1. wire \cap {Msg("getdata", p[1], p[2]), Msg("mnvotequeue", p[2], p[1])} # {}
  BY DEF RequestsAnswered
<1> QED  BY <1>1

\* A node that takes a queue in announces it to all its peers but the sender,
\* which has it.
LEMMA ReceiveQueueHolds ==
  ASSUME TypeOK, HoldInv, NEW msg \in wire, ReceiveQueue(msg)
  PROVE  HoldInv'
<1> USE DEF HoldInv
<1> DEFINE to == msg.to
<1>0. /\ msg.type = "mnvotequeue" /\ msg.from \in have
      /\ to \in Nodes /\ msg.from \in Nodes
  BY MessageEnds DEF ReceiveQueue, SendersHold, TypeOK
<1>1. /\ have \subseteq have' /\ have' \subseteq have \cup {to}
      /\ wire \ {msg} \subseteq wire' /\ up' = up /\ cast' = cast
      /\ askFor' = askFor /\ setAskFor' = setAskFor /\ known' = known
  BY DEF ReceiveQueue
<1>2. to \in Aware => to \in have'
  BY DEF ReceiveQueue, SignerHolds
<1>3. to \notin have =>
        \A m \in Peers(to) \ {msg.from} : Msg("inv", to, m) \in wire'
  BY DEF ReceiveQueue
<1>4. ASSUME NEW x \in wire', x \notin wire
      PROVE  /\ to \notin have
             /\ \E m \in Peers(to) : x = Msg("inv", to, m)
  BY <1>4 DEF ReceiveQueue
<1>5. SendersHold'
  <2> SUFFICES ASSUME NEW x \in wire',
                      x.type = "mnvotequeue" \/ (x.type = "inv" /\ x.from \in Aware)
               PROVE  x.from \in have'
    BY DEF SendersHold
  <2>1. CASE x \in wire
    BY <1>1, <2>1 DEF SendersHold
  <2>2. CASE x \notin wire
    <3>1. PICK m \in Peers(to) : x = Msg("inv", to, m)
      BY <1>4, <2>2
    <3>2. x.from = to /\ x.type = "inv"
      BY <3>1, MsgFields
    <3> QED  BY <1>2, <3>2
  <2> QED  BY <2>1, <2>2
<1>6. AskedHold' /\ SignerHolds'
  BY <1>1 DEF AskedHold, SignerHolds
<1>7. RequestsAnswered'
  <2> SUFFICES ASSUME NEW p \in setAskFor \ askFor,
                      p[1] \in Aware, p[2] \in Aware, p[1] \notin have'
               PROVE  wire' \cap {Msg("getdata", p[1], p[2]),
                                  Msg("mnvotequeue", p[2], p[1])} # {}
    BY <1>1 DEF RequestsAnswered, Msg
  <2>1. p[1] # to
    BY <1>2
  <2>2. msg # Msg("getdata", p[1], p[2]) /\ msg # Msg("mnvotequeue", p[2], p[1])
    BY <1>0, <2>1, MsgFields
  <2> QED  BY <1>1, <2>2, RequestTakenOff
<1>8. NoneStranded'
  <2> SUFFICES ASSUME NEW n \in Aware, NEW m \in Aware, {n, m} \in up, n \in have', m \notin have'
               PROVE  OnItsWay(n, m)'
    BY <1>1 DEF NoneStranded
  <2>0. m # to
    BY <1>2
  <2>1. CASE n \in have
    <3>1. OnItsWay(n, m)
      BY <1>1, <2>1 DEF NoneStranded
    <3>2. msg \notin {Msg("mnvotequeue", n, m), Msg("inv", n, m),
                      Msg("getdata", m, n), Msg("getmnqueues", m, n)}
      BY <1>0, <2>0, MsgFields
    <3> QED  BY <1>1, <3>1, <3>2, TakenOff
  <2>2. CASE n \notin have
    <3>1. n = to
      BY <1>1, <2>2
    <3>2. m \in Peers(to) \ {msg.from}
      <4>1. m \in Nodes /\ m # msg.from
        BY <1>0, <1>1, GossipConstants
      <4>2. {m, n} = {n, m}
        OBVIOUS
      <4> QED  BY <3>1, <4>1, <4>2 DEF Peers
    <3>3. Msg("inv", n, m) \in wire'
      BY <1>3, <2>2, <3>1, <3>2
    <3> QED  BY <3>3 DEF OnItsWay, Msg
  <2> QED  BY <2>1, <2>2
<1> QED  BY <1>5, <1>6, <1>7, <1>8

\* A node that is offered the queue asks for it, or has asked before: then the
\* request still stands.
LEMMA ReceiveInvHolds ==
  ASSUME TypeOK, HoldInv, NEW msg \in wire, ReceiveInv(msg)
  PROVE  HoldInv'
<1> USE DEF HoldInv
<1> DEFINE q == <<msg.to, msg.from>>
<1>0. /\ msg.type = "inv" /\ msg.to \in Nodes /\ msg.from \in Nodes
      /\ msg.from \in Aware => msg.from \in have
  BY MessageEnds DEF ReceiveInv, SendersHold, TypeOK
<1>1. /\ have' = have /\ wire' = wire \ {msg} /\ up' = up /\ cast' = cast /\ known' = known
      /\ askFor \subseteq askFor'
  BY DEF ReceiveInv, AskFor
<1>2. /\ setAskFor' \ askFor' \subseteq setAskFor \ askFor
      /\ setAskFor' \subseteq setAskFor \cup {q}
  BY DEF ReceiveInv, AskFor
<1>3. msg.to \notin have => q \in askFor' \/ q \in setAskFor \ askFor
  BY DEF ReceiveInv, AskFor
<1>4. SendersHold' /\ SignerHolds'
  BY <1>1 DEF SendersHold, SignerHolds
<1>5. AskedHold'
  <2>1. q[2] = msg.from
    OBVIOUS
  <2> HIDE DEF q
  <2> QED  BY <1>0, <1>1, <1>2, <2>1 DEF AskedHold
<1>6. RequestsAnswered'
  <2> SUFFICES ASSUME NEW p \in setAskFor \ askFor,
                      p[1] \in Aware, p[2] \in Aware, p[1] \notin have
               PROVE  wire' \cap {Msg("getdata", p[1], p[2]),
                                  Msg("mnvotequeue", p[2], p[1])} # {}
    BY <1>1, <1>2 DEF RequestsAnswered, Msg
  <2>1. msg # Msg("getdata", p[1], p[2]) /\ msg # Msg("mnvotequeue", p[2], p[1])
    BY <1>0, MsgFields
  <2> QED  BY <1>1, <2>1, RequestTakenOff
<1>7. NoneStranded'
  <2> SUFFICES ASSUME NEW n \in Aware, NEW m \in Aware, {n, m} \in up, n \in have, m \notin have
               PROVE  OnItsWay(n, m)'
    BY <1>1 DEF NoneStranded
  <2>1. OnItsWay(n, m)
    BY DEF NoneStranded
  <2>2. CASE msg # Msg("inv", n, m)
    <3>1. msg \notin {Msg("mnvotequeue", n, m), Msg("inv", n, m),
                      Msg("getdata", m, n), Msg("getmnqueues", m, n)}
      BY <1>0, <2>2, MsgFields
    <3> QED  BY <1>1, <2>1, <3>1, TakenOff
  <2>3. CASE msg = Msg("inv", n, m)
    <3>1. q = <<m, n>> /\ msg.to = m
      BY <2>3, MsgFields
    <3>2. CASE <<m, n>> \in askFor'
      BY <3>2 DEF OnItsWay
    <3>3. CASE <<m, n>> \in setAskFor \ askFor
      <4> DEFINE p == <<m, n>>
      <4>1. p[1] = m /\ p[2] = n
        OBVIOUS
      <4>2. msg # Msg("getdata", p[1], p[2]) /\ msg # Msg("mnvotequeue", p[2], p[1])
        BY <1>0, MsgFields
      <4>3. p \in setAskFor \ askFor
        BY <3>3
      <4> HIDE DEF p
      <4>4. wire' \cap {Msg("getdata", m, n), Msg("mnvotequeue", n, m)} # {}
        BY <1>1, <4>1, <4>2, <4>3, RequestTakenOff
      <4> QED  BY <4>4 DEF OnItsWay, Msg
    <3> QED  BY <1>3, <3>1, <3>2, <3>3
  <2> QED  BY <2>2, <2>3
<1> QED  BY <1>4, <1>5, <1>6, <1>7

\* A due request is sent; if the queue came meanwhile, none is needed.
LEMMA SendGetDataHolds ==
  ASSUME TypeOK, HoldInv, NEW p \in Pairs, SendGetData(p)
  PROVE  HoldInv'
<1> USE DEF HoldInv
<1> DEFINE g == Msg("getdata", p[1], p[2])
<1>0. p \in Nodes \X Nodes /\ p \in askFor /\ p \in setAskFor
  BY DEF SendGetData, Pairs, TypeOK
<1>1. /\ have' = have /\ up' = up /\ cast' = cast /\ known' = known
      /\ wire \subseteq wire' /\ wire' \subseteq wire \cup {g}
      /\ askFor' = askFor \ {p} /\ setAskFor' \subseteq setAskFor
  BY DEF SendGetData
<1>2. p[1] \notin have => g \in wire'
  BY DEF SendGetData
<1>3. SendersHold'
  <2>1. g.type = "getdata"
    BY MsgFields
  <2> HIDE DEF g
  <2> QED  BY <1>1, <2>1 DEF SendersHold
<1>4. AskedHold' /\ SignerHolds'
  BY <1>1 DEF AskedHold, SignerHolds
<1>5. RequestsAnswered'
  <2> SUFFICES ASSUME NEW r \in setAskFor' \ askFor',
                      r[1] \in Aware, r[2] \in Aware, r[1] \notin have
               PROVE  wire' \cap {Msg("getdata", r[1], r[2]),
                                  Msg("mnvotequeue", r[2], r[1])} # {}
    BY <1>1 DEF RequestsAnswered, Msg
  <2>1. CASE r = p
    BY <1>2, <2>1
  <2>2. CASE r # p
    <3>1. r \in setAskFor \ askFor
      BY <1>1, <2>2
    <3>2. wire \cap {Msg("getdata", r[1], r[2]), Msg("mnvotequeue", r[2], r[1])} # {}
      BY <3>1 DEF RequestsAnswered
    <3> QED  BY <1>1, <3>2
  <2> QED  BY <2>1, <2>2
<1>6. NoneStranded'
  <2> SUFFICES ASSUME NEW n \in Aware, NEW m \in Aware, {n, m} \in up, n \in have, m \notin have
               PROVE  OnItsWay(n, m)'
    BY <1>1 DEF NoneStranded
  <2>1. OnItsWay(n, m)
    BY DEF NoneStranded
  <2>2. CASE p = <<m, n>>
    <3>1. Msg("getdata", m, n) \in wire'
      BY <1>2, <2>2
    <3> QED  BY <3>1 DEF OnItsWay, Msg
  <2>3. CASE p # <<m, n>>
    BY <1>1, <2>1, <2>3 DEF OnItsWay, Msg
  <2> QED  BY <2>2, <2>3
<1> QED  BY <1>3, <1>4, <1>5, <1>6

\* A request is answered with the queue by whoever has it, and a node that knows
\* the signer is asked only if it has it.
LEMMA ReceiveGetDataHolds ==
  ASSUME TypeOK, HoldInv, NEW msg \in wire, ReceiveGetData(msg)
  PROVE  HoldInv'
<1> USE DEF HoldInv
<1> DEFINE a == Msg("mnvotequeue", msg.to, msg.from)
<1>0. msg.type = "getdata"
  BY DEF ReceiveGetData
<1>1. /\ have' = have /\ up' = up /\ cast' = cast /\ known' = known
      /\ askFor' = askFor /\ setAskFor' = setAskFor
      /\ wire \ {msg} \subseteq wire' /\ wire' \subseteq wire \cup {a}
  BY DEF ReceiveGetData
<1>2. a \in wire' \/ ~(msg.to \in have)
  BY DEF ReceiveGetData
<1>3. SendersHold'
  <2>1. ASSUME a \in wire', a \notin wire PROVE msg.to \in have
    BY <2>1 DEF ReceiveGetData
  <2>2. a.from = msg.to
    BY MsgFields
  <2> HIDE DEF a
  <2> QED  BY <1>1, <2>1, <2>2 DEF SendersHold
<1>4. AskedHold' /\ SignerHolds'
  BY <1>1 DEF AskedHold, SignerHolds
<1>5. RequestsAnswered'
  <2> SUFFICES ASSUME NEW p \in setAskFor \ askFor,
                      p[1] \in Aware, p[2] \in Aware, p[1] \notin have
               PROVE  wire' \cap {Msg("getdata", p[1], p[2]),
                                  Msg("mnvotequeue", p[2], p[1])} # {}
    BY <1>1 DEF RequestsAnswered, Msg
  <2>1. msg # Msg("mnvotequeue", p[2], p[1])
    BY <1>0, MsgFields
  <2>2. CASE msg = Msg("getdata", p[1], p[2])
    <3>1. msg.to = p[2] /\ msg.from = p[1]
      BY <2>2, MsgFields
    <3>2. p[2] \in have
      BY DEF AskedHold
    <3>3. Msg("mnvotequeue", p[2], p[1]) \in wire'
      BY <1>2, <3>1, <3>2
    <3> QED  BY <3>3
  <2>3. CASE msg # Msg("getdata", p[1], p[2])
    BY <1>1, <2>1, <2>3, RequestTakenOff
  <2> QED  BY <2>2, <2>3
<1>6. NoneStranded'
  <2> SUFFICES ASSUME NEW n \in Aware, NEW m \in Aware, {n, m} \in up, n \in have, m \notin have
               PROVE  OnItsWay(n, m)'
    BY <1>1 DEF NoneStranded
  <2>1. OnItsWay(n, m)
    BY DEF NoneStranded
  <2>2. CASE msg = Msg("getdata", m, n)
    <3>1. msg.to = n /\ msg.from = m
      BY <2>2, MsgFields
    <3>2. Msg("mnvotequeue", n, m) \in wire'
      BY <1>2, <3>1
    <3> QED  BY <3>2 DEF OnItsWay, Msg
  <2>3. CASE msg # Msg("getdata", m, n)
    <3>1. msg \notin {Msg("mnvotequeue", n, m), Msg("inv", n, m),
                      Msg("getdata", m, n), Msg("getmnqueues", m, n)}
      BY <1>0, <2>3, MsgFields
    <3> QED  BY <1>1, <2>1, <3>1, TakenOff
  <2> QED  BY <2>2, <2>3
<1> QED  BY <1>3, <1>4, <1>5, <1>6

\* SyncQueues announces what the index has.
LEMMA ReceiveGetQueuesHolds ==
  ASSUME TypeOK, HoldInv, NEW msg \in wire, ReceiveGetQueues(msg)
  PROVE  HoldInv'
<1> USE DEF HoldInv
<1> DEFINE a == Msg("inv", msg.to, msg.from)
<1>0. msg.type = "getmnqueues"
  BY DEF ReceiveGetQueues
<1>1. /\ have' = have /\ up' = up /\ cast' = cast /\ known' = known
      /\ askFor' = askFor /\ setAskFor' = setAskFor
      /\ wire \ {msg} \subseteq wire' /\ wire' \subseteq wire \cup {a}
  BY DEF ReceiveGetQueues
<1>2. a \in wire' \/ ~(msg.to \in have)
  BY DEF ReceiveGetQueues
<1>3. SendersHold'
  <2>1. ASSUME a \in wire', a \notin wire PROVE msg.to \in have
    BY <2>1 DEF ReceiveGetQueues
  <2>2. a.from = msg.to
    BY MsgFields
  <2> HIDE DEF a
  <2> QED  BY <1>1, <2>1, <2>2 DEF SendersHold
<1>4. AskedHold' /\ SignerHolds'
  BY <1>1 DEF AskedHold, SignerHolds
<1>5. RequestsAnswered'
  <2> SUFFICES ASSUME NEW p \in setAskFor \ askFor,
                      p[1] \in Aware, p[2] \in Aware, p[1] \notin have
               PROVE  wire' \cap {Msg("getdata", p[1], p[2]),
                                  Msg("mnvotequeue", p[2], p[1])} # {}
    BY <1>1 DEF RequestsAnswered, Msg
  <2>1. msg # Msg("getdata", p[1], p[2]) /\ msg # Msg("mnvotequeue", p[2], p[1])
    BY <1>0, MsgFields
  <2> QED  BY <1>1, <2>1, RequestTakenOff
<1>6. NoneStranded'
  <2> SUFFICES ASSUME NEW n \in Aware, NEW m \in Aware, {n, m} \in up, n \in have, m \notin have
               PROVE  OnItsWay(n, m)'
    BY <1>1 DEF NoneStranded
  <2>1. OnItsWay(n, m)
    BY DEF NoneStranded
  <2>2. CASE msg = Msg("getmnqueues", m, n)
    <3>1. msg.to = n /\ msg.from = m
      BY <2>2, MsgFields
    <3>2. Msg("inv", n, m) \in wire'
      BY <1>2, <3>1
    <3> QED  BY <3>2 DEF OnItsWay, Msg
  <2>3. CASE msg # Msg("getmnqueues", m, n)
    <3>1. msg \notin {Msg("mnvotequeue", n, m), Msg("inv", n, m),
                      Msg("getdata", m, n), Msg("getmnqueues", m, n)}
      BY <1>0, <2>3, MsgFields
    <3> QED  BY <1>1, <2>1, <3>1, TakenOff
  <2> QED  BY <2>2, <2>3
<1> QED  BY <1>3, <1>4, <1>5, <1>6

\* Connections that close take along what was on its way over them; a node that
\* loses its store loses all its connections.
LEMMA CloseHolds ==
  ASSUME TypeOK, HoldInv, NEW L, Close(L), have' \subseteq have, known' = known, cast' = cast,
         \A n \in have \ have' : n # Signer /\ \A l \in up : n \in l => l \in L
  PROVE  HoldInv'
<1> USE DEF HoldInv
<1>1. /\ up' = up \ L
      /\ wire' = {msg \in wire : {msg.from, msg.to} \notin L}
      /\ askFor' = {p \in askFor : {p[1], p[2]} \notin L}
      /\ setAskFor' = {p \in setAskFor : {p[1], p[2]} \notin L}
  BY DEF Close
<1>2. \A n, m : {n, m} \in up \ L => (n \in have <=> n \in have') /\ (m \in have <=> m \in have')
  OBVIOUS
<1>3. \A type, n, m : {n, m} \notin L /\ Msg(type, n, m) \in wire => Msg(type, n, m) \in wire'
  <2> TAKE type, n, m
  <2>1. Msg(type, n, m).from = n /\ Msg(type, n, m).to = m
    BY MsgFields
  <2> QED  BY <1>1, <2>1
<1>4. SendersHold'
  <2> SUFFICES ASSUME NEW x \in wire',
                      x.type = "mnvotequeue" \/ (x.type = "inv" /\ x.from \in Aware)
               PROVE  x.from \in have'
    BY DEF SendersHold
  <2>1. x \in wire /\ {x.from, x.to} \in up \ L
    BY <1>1 DEF TypeOK
  <2> QED  BY <1>2, <2>1 DEF SendersHold
<1>5. AskedHold'
  <2> SUFFICES ASSUME NEW p \in setAskFor', p[2] \in Aware PROVE p[2] \in have'
    BY DEF AskedHold
  <2>1. p \in setAskFor /\ {p[1], p[2]} \in up \ L
    BY <1>1 DEF TypeOK
  <2> QED  BY <1>2, <2>1 DEF AskedHold
<1>6. SignerHolds'
  BY DEF SignerHolds
<1>7. RequestsAnswered'
  <2> SUFFICES ASSUME NEW p \in setAskFor' \ askFor',
                      p[1] \in Aware, p[2] \in Aware, p[1] \notin have'
               PROVE  wire' \cap {Msg("getdata", p[1], p[2]),
                                  Msg("mnvotequeue", p[2], p[1])} # {}
    BY DEF RequestsAnswered, Msg
  <2>1. p \in setAskFor \ askFor /\ {p[1], p[2]} \in up \ L
    BY <1>1 DEF TypeOK
  <2>2. p[1] \notin have
    BY <1>2, <2>1
  <2>3. wire \cap {Msg("getdata", p[1], p[2]), Msg("mnvotequeue", p[2], p[1])} # {}
    BY <2>1, <2>2 DEF RequestsAnswered
  <2>4. {p[1], p[2]} \notin L /\ {p[2], p[1]} \notin L
    <3>1. {p[2], p[1]} = {p[1], p[2]}
      OBVIOUS
    <3> QED  BY <2>1, <3>1
  <2> QED  BY <1>3, <2>3, <2>4
<1>8. NoneStranded'
  <2> SUFFICES ASSUME NEW n \in Aware, NEW m \in Aware, {n, m} \in up', n \in have', m \notin have'
               PROVE  OnItsWay(n, m)'
    BY DEF NoneStranded
  <2>1. {n, m} \in up \ L /\ {n, m} \notin L /\ {m, n} \notin L
    <3>1. {m, n} = {n, m}
      OBVIOUS
    <3> QED  BY <1>1, <3>1
  <2>2. n \in have /\ m \notin have
    BY <1>2, <2>1
  <2>3. OnItsWay(n, m)
    BY <2>1, <2>2 DEF NoneStranded
  <2>4. CASE <<m, n>> \in askFor
    <3>1. <<m, n>>[1] = m /\ <<m, n>>[2] = n
      OBVIOUS
    <3>2. <<m, n>> \in askFor'
      BY <1>1, <2>1, <2>4, <3>1
    <3> QED  BY <3>2 DEF OnItsWay
  <2>5. CASE <<m, n>> \notin askFor
    <3>1. wire \cap {Msg("mnvotequeue", n, m), Msg("inv", n, m),
                     Msg("getdata", m, n), Msg("getmnqueues", m, n)} # {}
      BY <2>3, <2>5 DEF OnItsWay
    <3>2. wire' \cap {Msg("mnvotequeue", n, m), Msg("inv", n, m),
                      Msg("getdata", m, n), Msg("getmnqueues", m, n)} # {}
      BY <1>3, <2>1, <3>1
    <3> QED  BY <3>2 DEF OnItsWay, Msg
  <2> QED  BY <2>4, <2>5
<1> QED  BY <1>4, <1>5, <1>6, <1>7, <1>8

\* Over a new connection both sides ask for the other's index.
LEMMA ConnectHolds ==
  ASSUME TypeOK, HoldInv, NEW l \in Links, Connect(l)
  PROVE  HoldInv'
<1> USE DEF HoldInv
<1> DEFINE New == {msg \in Messages : msg.type = "getmnqueues" /\ {msg.from, msg.to} = l}
<1>1. /\ have' = have /\ cast' = cast /\ known' = known
      /\ askFor' = askFor /\ setAskFor' = setAskFor
      /\ up' = up \cup {l} /\ wire' = wire \cup New
  BY DEF Connect
<1>2. SendersHold'
  <2>1. \A x \in New : x.type = "getmnqueues"
    OBVIOUS
  <2> HIDE DEF New
  <2> QED  BY <1>1, <2>1 DEF SendersHold
<1>3. AskedHold' /\ SignerHolds'
  BY <1>1 DEF AskedHold, SignerHolds
<1>4. RequestsAnswered'
  <2> HIDE DEF New
  <2> QED  BY <1>1 DEF RequestsAnswered, Msg
<1>5. NoneStranded'
  <2> SUFFICES ASSUME NEW n \in Aware, NEW m \in Aware, {n, m} \in up', n \in have, m \notin have
               PROVE  OnItsWay(n, m)'
    BY <1>1 DEF NoneStranded
  <2>1. CASE {n, m} = l
    <3>1. {m, n} = l /\ m \in Nodes /\ n \in Nodes
      BY <2>1, GossipConstants
    <3>2. /\ Msg("getmnqueues", m, n) \in Messages
          /\ Msg("getmnqueues", m, n).from = m
          /\ Msg("getmnqueues", m, n).to = n
      BY <3>1, MessageOverLink
    <3>3. Msg("getmnqueues", m, n) \in New
      BY <3>1, <3>2, MsgFields
    <3>4. Msg("getmnqueues", m, n) \in wire'
      <4> HIDE DEF New
      <4> QED  BY <1>1, <3>3
    <3> QED  BY <3>4 DEF OnItsWay, Msg
  <2>2. CASE {n, m} # l
    <3>1. OnItsWay(n, m)
      BY <1>1, <2>2 DEF NoneStranded
    <3> HIDE DEF New
    <3> QED  BY <1>1, <3>1, NothingTakenOff
  <2> QED  BY <2>1, <2>2
<1> QED  BY <1>2, <1>3, <1>4, <1>5

\* The invariant holds from the start, and every step keeps it.
LEMMA GossipInvariant == Spec => [](TypeOK /\ HoldInv)
<1>1. Init => HoldInv
  BY GossipConstants DEF Init, HoldInv, SendersHold, AskedHold, RequestsAnswered,
                         SignerHolds, NoneStranded
<1>2. TypeOK /\ HoldInv /\ [Next]_vars => HoldInv'
  <2> SUFFICES ASSUME TypeOK, HoldInv, [Next]_vars PROVE HoldInv'
    OBVIOUS
  <2>1. CASE BroadcastQueue
    BY <2>1, BroadcastHolds
  <2>2. ASSUME NEW msg \in wire, Receive(msg) PROVE HoldInv'
    BY <2>2, ReceiveQueueHolds, ReceiveInvHolds, ReceiveGetDataHolds, ReceiveGetQueuesHolds
       DEF Receive
  <2>3. ASSUME NEW p \in Pairs, SendGetData(p) PROVE HoldInv'
    BY <2>3, SendGetDataHolds
  <2>4. ASSUME NEW n \in Nodes, Learn(n) PROVE HoldInv'
    BY <2>4 DEF Learn, HoldInv, SendersHold, AskedHold, RequestsAnswered, SignerHolds,
                NoneStranded, OnItsWay, Msg
  <2>5. ASSUME NEW n \in Nodes, Restart(n) PROVE HoldInv'
    <3> DEFINE L == {l \in up : n \in l}
    <3>1. /\ Close(L) /\ have' \subseteq have /\ known' = known /\ cast' = cast
          /\ \A x \in have \ have' : x # Signer /\ \A l \in up : x \in l => l \in L
      BY <2>5 DEF Restart
    <3> HIDE DEF L
    <3> QED  BY <3>1, CloseHolds
  <2>6. ASSUME NEW l \in Links, Disconnect(l) PROVE HoldInv'
    <3>1. /\ Close({l}) /\ have' = have /\ known' = known /\ cast' = cast
      BY <2>6 DEF Disconnect
    <3> QED  BY <3>1, CloseHolds
  <2>7. ASSUME NEW l \in Links, Connect(l) PROVE HoldInv'
    BY <2>7, ConnectHolds
  <2>8. CASE UNCHANGED vars
    BY <2>8 DEF vars, HoldInv, SendersHold, AskedHold, RequestsAnswered, SignerHolds,
                NoneStranded, OnItsWay, Msg
  <2> QED  BY <2>1, <2>2, <2>3, <2>4, <2>5, <2>6, <2>7, <2>8 DEF Next
<1> QED  BY <1>1, <1>2, GossipTypes, PTL DEF Spec

\* Over every open connection between nodes that know the signer, in every
\* network and over any number of lost connections and restarts, a queue one
\* side has and the other lacks is sent, announced, asked for or about to be.
THEOREM NoQueueStranded == Spec => []NoneStranded
BY GossipInvariant, PTL DEF HoldInv

-----------------------------------------------------------------------------
\* The nodes at most so many hops away from the signer, over nodes of S.
Hops(reach, S, N) ==
  /\ reach[0] = {Signer}
  /\ \A k \in 1 .. N : reach[k] = {n \in S : \E m \in reach[k - 1] : n = m \/ {m, n} \in Links}

\* The recursion of ReachOver is well defined.
LEMMA HopsExist ==
  ASSUME NEW S
  PROVE  \E reach : /\ Hops(reach, S, Cardinality(Nodes))
                    /\ ReachOver(S) = reach[Cardinality(Nodes)]
<1> DEFINE N == Cardinality(Nodes)
           step(w) == {n \in S : \E m \in w : n = m \/ {m, n} \in Links}
           D == {k \in Nat : k <= N =>
                   \E g : g = [n \in 0 .. k |-> IF n = 0 THEN {Signer} ELSE step(g[n - 1])]}
           f == CHOOSE g : g = [n \in 0 .. N |-> IF n = 0 THEN {Signer} ELSE step(g[n - 1])]
<1>q. N \in Nat
  BY GossipConstants, FS_CardinalityType
<1>v. f = CHOOSE g : g = [n \in 0 .. N |-> IF n = 0 THEN {Signer} ELSE step(g[n - 1])]
  OBVIOUS
<1>s. ReachOver(S) = f[N]
  BY DEF ReachOver
<1>d. \A w : step(w) = {n \in S : \E m \in w : n = m \/ {m, n} \in Links}
  OBVIOUS
<1> HIDE DEF step, f, N
<1>1. 0 \in D
  <2> DEFINE g == [n \in 0 .. 0 |-> {Signer}]
  <2>1. g = [n \in 0 .. 0 |-> IF n = 0 THEN {Signer} ELSE step(g[n - 1])]
    OBVIOUS
  <2> QED  BY <2>1
<1>2. ASSUME NEW k \in D PROVE k + 1 \in D
  <2> SUFFICES ASSUME k + 1 <= N
               PROVE  \E g : g = [n \in 0 .. k + 1 |-> IF n = 0 THEN {Signer} ELSE step(g[n - 1])]
    OBVIOUS
  <2>1. PICK g : g = [n \in 0 .. k |-> IF n = 0 THEN {Signer} ELSE step(g[n - 1])]
    BY <1>q
  <2> DEFINE h == [n \in 0 .. k + 1 |-> IF n = k + 1 THEN step(g[k]) ELSE g[n]]
  <2>3. ASSUME NEW n \in 0 .. k + 1 PROVE h[n] = IF n = 0 THEN {Signer} ELSE step(h[n - 1])
    <3>1. CASE n = k + 1
      BY <3>1
    <3>2. CASE n # k + 1
      <4>1. n \in 0 .. k /\ (n # 0 => n - 1 \in 0 .. k /\ n - 1 # k + 1 /\ n - 1 \in 0 .. k + 1)
        BY <3>2
      <4>2. g[n] = IF n = 0 THEN {Signer} ELSE step(g[n - 1])
        BY <2>1, <4>1
      <4>3. h[n] = g[n] /\ (n # 0 => h[n - 1] = g[n - 1])
        BY <3>2, <4>1
      <4> QED  BY <4>2, <4>3
    <3> QED  BY <3>1, <3>2
  <2>4. h = [n \in 0 .. k + 1 |-> h[n]]
    OBVIOUS
  <2> HIDE DEF h
  <2>5. h = [n \in 0 .. k + 1 |-> IF n = 0 THEN {Signer} ELSE step(h[n - 1])]
    BY <2>3, <2>4
  <2> QED  BY <2>5
<1>3. N \in D
  <2> HIDE DEF D
  <2>1. D \in SUBSET Nat
    BY DEF D
  <2> QED  BY <1>q, <1>1, <1>2, <2>1, SetInduction
<1>4. f = [n \in 0 .. N |-> IF n = 0 THEN {Signer} ELSE step(f[n - 1])]
  <2>1. PICK g : g = [n \in 0 .. N |-> IF n = 0 THEN {Signer} ELSE step(g[n - 1])]
    BY <1>q, <1>3
  <2> QED  BY <2>1, <1>v
<1>5. Hops(f, S, N)
  <2>1. f[0] = {Signer}
    BY <1>q, <1>4
  <2>2. ASSUME NEW k \in 1 .. N PROVE f[k] = step(f[k - 1])
    <3>1. k \in 0 .. N /\ k # 0
      BY <1>q
    <3> QED  BY <1>4, <3>1
  <2> QED  BY <1>d, <2>1, <2>2 DEF Hops
<1> QED  BY <1>s, <1>5 DEF N

\* A queue that is nowhere on its way has gone all the way: along nodes that know
\* the signer, the first one without it would have a neighbour that has it.
LEMMA QuietDelivers ==
  ASSUME TypeOK, HoldInv
  PROVE  QuietIsDelivered
<1> USE DEF HoldInv
<1> SUFFICES ASSUME cast, up = Links, wire = {}, askFor = {}
             PROVE  ReachOver(Aware) \subseteq have
  BY DEF QuietIsDelivered
<1> DEFINE N == Cardinality(Nodes)
<1>q. N \in Nat
  BY GossipConstants, FS_CardinalityType
<1>1. PICK reach : Hops(reach, Aware, N) /\ ReachOver(Aware) = reach[N]
  BY HopsExist
<1> HIDE DEF N
<1>2. ASSUME NEW n \in Aware, NEW m \in Aware, {n, m} \in Links, n \in have PROVE m \in have
  BY <1>2 DEF NoneStranded, OnItsWay
<1> DEFINE D == {k \in Nat : k <= N => reach[k] \subseteq Aware \cap have}
<1>3. 0 \in D
  BY <1>1, GossipConstants DEF Hops, SignerHolds
<1>4. ASSUME NEW k \in D PROVE k + 1 \in D
  <2> SUFFICES ASSUME k + 1 <= N PROVE reach[k + 1] \subseteq Aware \cap have
    OBVIOUS
  <2>1. k \in Nat /\ k + 1 \in 1 .. N /\ (k + 1) - 1 = k /\ k <= N
    BY <1>q
  <2>2. reach[k] \subseteq Aware \cap have
    BY <2>1
  <2>3. reach[k + 1] = {n \in Aware : \E m \in reach[k] : n = m \/ {m, n} \in Links}
    <3>1. \A j \in 1 .. N :
            reach[j] = {n \in Aware : \E m \in reach[j - 1] : n = m \/ {m, n} \in Links}
      BY <1>1 DEF Hops
    <3>2. reach[k + 1] =
            {n \in Aware : \E m \in reach[(k + 1) - 1] : n = m \/ {m, n} \in Links}
      BY <2>1, <3>1
    <3> QED  BY <2>1, <3>2
  <2>4. ASSUME NEW n \in reach[k + 1] PROVE n \in Aware \cap have
    <3>1. PICK m \in reach[k] : n = m \/ {m, n} \in Links
      BY <2>3
    <3> QED  BY <1>2, <2>2, <2>3, <3>1
  <2> QED  BY <2>4
<1>5. N \in D
  <2> HIDE DEF D
  <2>1. D \in SUBSET Nat
    BY DEF D
  <2> QED  BY <1>q, <1>3, <1>4, <2>1, SetInduction
<1> QED  BY <1>1, <1>5

\* Where all connections are up and nothing is in flight or due, every node has
\* the queue that is linked to the signer through nodes that know it, in every
\* network: the relay cannot come to rest before it is complete.
THEOREM RestIsDelivery == Spec => []QuietIsDelivered
BY GossipInvariant, QuietDelivers, PTL
=============================================================================
