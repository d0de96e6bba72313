--------------------------- MODULE MasternodeList ---------------------------
(***************************************************************************)
(* One masternode in the lists of several nodes: how it is announced       *)
(* (dsee), kept alive (dseep), asked for (dseg), expired and removed.      *)
(*                                                                         *)
(* Entries of different masternodes do not touch one another, so one is    *)
(* enough.  Times are kept as ages: how many ticks ago a masternode was    *)
(* seen or a ping was signed; an age at which nothing changes any more is  *)
(* not increased.  What a masternode may change between two announcements  *)
(* (address, key) is one value.                                            *)
(*                                                                         *)
(* The node that runs the masternode pings every minute, so its own entry  *)
(* is always fresh; after a stop it has none and is left out until it      *)
(* registers again.                                                        *)
(***************************************************************************)
EXTENDS Naturals, Sequences, FiniteSets

CONSTANTS
  Nodes,       \* nodes that keep a list
  Owner,       \* the node that runs the masternode
  Links,       \* pairs of nodes that are connected
  Addresses,   \* what announcements may say
  NoEntry,     \* the masternode is not in the list
  MinEntry,    \* MASTERNODE_MIN_DSEE_SECONDS, in ticks like the next four
  MinPing,     \* MASTERNODE_MIN_DSEEP_SECONDS
  PingWindow,  \* how far in the past a ping may be signed
  Expiration,  \* MASTERNODE_EXPIRATION_SECONDS
  Removal,     \* MASTERNODE_REMOVAL_SECONDS
  MaxEntries,  \* bound: announcements that are signed
  MaxFaults    \* bound: messages late by a tick, busy cs_main, closed ports,
               \* restarts

ASSUME ListAssumption ==
  /\ Owner \notin Nodes
  /\ Links \subseteq (Nodes \union {Owner}) \X (Nodes \union {Owner}) /\ IsFiniteSet(Links)
  /\ Addresses # {} /\ NoEntry \notin [no : Nat, address : Addresses]
  /\ MaxEntries \in Nat \ {0} /\ MaxFaults \in Nat
  /\ {MinEntry, MinPing, PingWindow, Expiration, Removal} \subseteq Nat \ {0}
  /\ MinEntry <= MinPing /\ MinPing <= PingWindow /\ PingWindow < Expiration
  /\ Expiration < Removal

VARIABLES
  list,     \* node -> its entry of the masternode
  owner,    \* its CActiveMasternode, last announcement and own entry
  spent,    \* the collateral is spent
  net,      \* link -> messages in flight, in the order sent
  asked,    \* mWeAskedForMasternodeListEntry: nodes that asked in this tick
  synced,   \* mWeAskedForMasternodeList: the same for the whole list
  faults    \* how many of the bounded faults happened

vars == <<list, owner, spent, net, asked, synced, faults>>

\* How long a masternode must be up for older announcements to have died out:
\* as long as entries of all of them live, one after the other, and as messages
\* can be late.
Settled == (MaxEntries - 1) * Removal + MaxFaults + 1

States == {"enabled", "expired", "vin_spent", "remove"}
Never == Removal + 1  \* a last seen time of zero
Ages == 0 .. Never
Pings == [age : 0 .. PingWindow, stop : BOOLEAN]

\* No ping yet: older than any that is accepted.
NoPing == [age |-> PingWindow, stop |-> FALSE]

Entries == [no : 1 .. MaxEntries, address : Addresses, seen : Ages, lastDseep : Pings,
            state : States, open : BOOLEAN]

Dsee(no, address, seen, live) ==
  [type |-> "dsee", no |-> no, address |-> address, seen |-> seen, live |-> live]
Dseep(address, ping) == [type |-> "dseep", address |-> address, ping |-> ping]

Messages ==
  {Dsee(no, a, seen, live) : no \in 1 .. MaxEntries, a \in Addresses, seen \in Ages,
                             live \in BOOLEAN}
    \union {Dseep(a, p) : a \in Addresses, p \in Pings}

Init ==
  /\ list = [n \in Nodes |-> NoEntry]
  /\ owner = [running |-> FALSE, no |-> 0, address |-> CHOOSE a \in Addresses : TRUE,
              own |-> NoEntry, up |-> 0, pinged |-> FALSE]
  /\ spent = FALSE /\ net = [l \in Links |-> <<>>] /\ asked = {} /\ synced = {} /\ faults = 0

-----------------------------------------------------------------------------
Listed(n) == list[n] # NoEntry
Knows(n) == Listed(n) /\ list[n].address = owner.address
OwnerKnows == owner.own # NoEntry /\ owner.own.address = owner.address
IsEnabled(e) == e.open /\ e.state = "enabled"
UpdatedWithin(e, ticks) == e.seen < ticks

Older(age, cap) == IF age < cap THEN age + 1 ELSE age

\* A bounded fault happens, or not.
Fault(happens) ==
  IF happens THEN faults < MaxFaults /\ faults' = faults + 1 ELSE UNCHANGED faults

\* An entry as an announcement with a last seen time makes it: UpdateLastSeen
\* takes a time of zero for now.
NewEntry(m) ==
  [no |-> m.no, address |-> m.address, seen |-> IF m.seen = Never THEN 0 ELSE m.seen,
   lastDseep |-> NoPing,
   state |-> "enabled", open |-> TRUE]

\* The entry after CMasternode::Check, which does nothing without cs_main.
Check(e, busy) ==
  IF busy \/ e.state = "vin_spent" THEN e
  ELSE [e EXCEPT !.state = IF ~UpdatedWithin(e, Removal) THEN "remove"
                           ELSE IF ~UpdatedWithin(e, Expiration) THEN "expired"
                           ELSE IF spent THEN "vin_spent" ELSE "enabled"]

All == Nodes \union {Owner}

\* The network with a message more from a node to some of its peers.
Send(links, from, to, m) ==
  [l \in Links |-> IF l[1] = from /\ l[2] \in to THEN Append(links[l], m) ELSE links[l]]

\* The message at the head of a link is taken off, and perhaps relayed: pings
\* not to the owner, where they change nothing.
Taken(l) == [net EXCEPT ![l] = Tail(@)]
Drop(l) == net' = Taken(l)
Relay(l, to, m) == net' = Send(Taken(l), l[2], to, m)

-----------------------------------------------------------------------------
\* The masternode itself.

\* Register: announce, under a new address or the old one.  An entry that the
\* own list has already is left as it is.
Register ==
  /\ owner.no < MaxEntries /\ ~spent
  /\ \E a \in IF owner.no = 0 THEN {owner.address} ELSE Addresses :
       LET no == owner.no + 1
       IN /\ owner' = [owner EXCEPT !.running = TRUE, !.no = no, !.address = a, !.up = 0,
                        !.own = IF @ = NoEntry THEN [no |-> no, address |-> a] ELSE @]
          /\ net' = Send(net, Owner, All, Dsee(no, a, 0, TRUE))
  /\ UNCHANGED <<list, spent, asked, synced, faults>>

\* ManageStatus, Dseep.
Ping ==
  /\ owner.running /\ ~owner.pinged
  /\ owner' = [owner EXCEPT !.pinged = TRUE]
  /\ net' = Send(net, Owner, All, Dseep(owner.address, [age |-> 0, stop |-> FALSE]))
  /\ UNCHANGED <<list, spent, asked, synced, faults>>

\* Mutant: the own entry stays in the list.
StopKeepsEntry ==
  /\ owner.running
  /\ owner' = [owner EXCEPT !.running = FALSE, !.pinged = TRUE, !.up = 0]
  /\ net' = Send(net, Owner, All, Dseep(owner.address, [age |-> 0, stop |-> TRUE]))
  /\ UNCHANGED <<list, spent, asked, synced, faults>>

\* StopMasterNode: the same with stop, later than a ping of this tick.
StopMasterNode ==
  /\ owner.running
  /\ owner' = [owner EXCEPT !.running = FALSE, !.pinged = TRUE, !.own = NoEntry, !.up = 0]
  /\ net' = Send(net, Owner, All, Dseep(owner.address, [age |-> 0, stop |-> TRUE]))
  /\ UNCHANGED <<list, spent, asked, synced, faults>>

\* Its own announcement comes back and, if it says something new, replaces the
\* own entry.
ReceiveOwn(l, m) ==
  /\ owner' = [owner EXCEPT !.own =
       IF m.type = "dsee" /\ @ # NoEntry /\ m.no > @.no /\ m.address # @.address
       THEN [no |-> m.no, address |-> m.address] ELSE @]
  /\ Drop(l)
  /\ UNCHANGED <<list, spent, asked, synced, faults>>

Spend ==
  /\ ~spent /\ Fault(TRUE)
  /\ spent' = TRUE
  /\ UNCHANGED <<list, owner, net, asked, synced>>

-----------------------------------------------------------------------------
\* Messages.

\* "dsee" for an entry of the list.
UpdateEntry(l, n, m) ==
  LET e == list[n]
      changed == m.address # e.address
      acceptable == /\ e.no < m.no
                    /\ m.live \/ changed
                    /\ ~UpdatedWithin(e, MinEntry) \/ changed
  IN /\ Listed(n)
     /\ \/ ~acceptable /\ Drop(l) /\ UNCHANGED <<list, faults>>
        \/ /\ acceptable
           /\ \E busy, open \in BOOLEAN :
                LET u == Check([e EXCEPT !.no = m.no, !.address = m.address, !.seen = 0,
                                         !.open = open], busy)
                IN /\ Fault(busy \/ ~open)
                   /\ list' = [list EXCEPT ![n] = u]
                   /\ IF m.live /\ IsEnabled(u) THEN Relay(l, All, m) ELSE Drop(l)

\* Mutant: an entry counts as seen when it is added.
AddAsSeen(l, n, m) ==
  /\ ~Listed(n)
  /\ UNCHANGED faults
  /\ IF spent
     THEN Drop(l) /\ UNCHANGED list
     ELSE /\ list' = [list EXCEPT ![n] = NewEntry([m EXCEPT !.seen = 0])]
          /\ IF m.live THEN Relay(l, All, m) ELSE Drop(l)

\* "dsee" for a new entry: dropped if cs_main is busy or the collateral spent,
\* else added with the time the sender says it was last seen.
AddEntry(l, n, m) ==
  /\ ~Listed(n)
  /\ \E busy \in BOOLEAN :
       /\ Fault(busy)
       /\ IF busy \/ spent
          THEN Drop(l) /\ UNCHANGED list
          ELSE /\ list' = [list EXCEPT ![n] = NewEntry(m)]
               /\ IF m.live THEN Relay(l, All, m) ELSE Drop(l)

Newer(ping, last) ==
  ping.age < last.age \/ (ping.age = last.age /\ ping.stop /\ ~last.stop)

\* Mutant: the signature is not compared with the address of the entry.
TakeAnyPing(l, n, m) ==
  LET p == [list[n] EXCEPT !.lastDseep = m.ping]
  IN /\ Listed(n) /\ UNCHANGED <<asked, faults>>
     /\ IF Newer(m.ping, list[n].lastDseep) /\ ~UpdatedWithin(list[n], MinPing)
        THEN /\ list' = [list EXCEPT ![n] =
                           IF m.ping.stop THEN [p EXCEPT !.seen = Never]
                           ELSE Check([p EXCEPT !.seen = 0], FALSE)]
             /\ Relay(l, Nodes, m)
        ELSE Drop(l) /\ UNCHANGED list

\* "dseep" for an entry: taken if it is newer and signed for the address known
\* here; it only counts, and is only relayed, if the entry was not updated lately.
TakePing(l, n, m) ==
  LET e == list[n]
      p == [e EXCEPT !.lastDseep = m.ping]
  IN /\ Listed(n) /\ UNCHANGED asked
     /\ IF ~(m.ping.age < PingWindow /\ Newer(m.ping, e.lastDseep) /\ m.address = e.address)
        THEN Drop(l) /\ UNCHANGED <<list, faults>>
        ELSE IF UpdatedWithin(e, MinPing)
        THEN list' = [list EXCEPT ![n] = p] /\ Drop(l) /\ UNCHANGED faults
        ELSE IF m.ping.stop
        THEN /\ list' = [list EXCEPT ![n] = [p EXCEPT !.seen = Never]]
             /\ Relay(l, Nodes, m) /\ UNCHANGED faults
        ELSE \E busy \in BOOLEAN :
               LET u == Check([p EXCEPT !.seen = 0], busy)
               IN /\ Fault(busy)
                  /\ list' = [list EXCEPT ![n] = u]
                  /\ IF IsEnabled(u) THEN Relay(l, Nodes, m) ELSE Drop(l)

\* "dseg": p sends n the entry and the time it was last seen.
Answer(links, p, n) ==
  IF p = Owner /\ owner.own # NoEntry
  THEN Send(links, p, {n}, Dsee(owner.own.no, owner.own.address,
                                IF owner.pinged THEN 0 ELSE 1, FALSE))
  ELSE IF p # Owner /\ Listed(p) /\ IsEnabled(list[p])
  THEN Send(links, p, {n}, Dsee(list[p].no, list[p].address, list[p].seen, FALSE))
  ELSE links

\* Mutant: a ping without an entry is dropped.
DropUnknown(l, n, m) == ~Listed(n) /\ Drop(l) /\ UNCHANGED <<list, asked, faults>>

\* "dseep" without an entry: ask the sender, at most once in a while.
AskSender(l, n, m) ==
  /\ ~Listed(n) /\ UNCHANGED <<list, faults>>
  /\ IF m.ping.age < PingWindow /\ n \notin asked
     THEN asked' = asked \union {n} /\ net' = Answer(Taken(l), l[1], n)
     ELSE UNCHANGED asked /\ Drop(l)

ReceiveDsee(l, n, m) ==
  /\ m.type = "dsee"
  /\ UpdateEntry(l, n, m) \/ AddEntry(l, n, m)
  /\ UNCHANGED <<owner, spent, asked, synced>>

ReceiveDseep(l, n, m) ==
  /\ m.type = "dseep"
  /\ TakePing(l, n, m) \/ AskSender(l, n, m)
  /\ UNCHANGED <<owner, spent, synced>>

Receive ==
  \E l \in Links :
    /\ net[l] # <<>>
    /\ IF l[2] = Owner THEN ReceiveOwn(l, Head(net[l]))
       ELSE ReceiveDsee(l, l[2], Head(net[l])) \/ ReceiveDseep(l, l[2], Head(net[l]))

\* DsegUpdate when a connection is made; a node that has a list asks again
\* only after hours.
Connect(n, p) ==
  /\ <<p, n>> \in Links /\ n \notin synced
  /\ synced' = synced \union {n}
  /\ Fault(Listed(n))
  /\ net' = Answer(net, p, n)
  /\ UNCHANGED <<list, owner, spent, asked>>

-----------------------------------------------------------------------------
\* How many messages are on their way.
InFlight == Cardinality(UNION {{l} \X DOMAIN net[l] : l \in Links})

\* What CheckAndRemove leaves of an entry.
Swept(e) ==
  IF Check(e, FALSE).state \in {"remove", "vin_spent"} THEN NoEntry ELSE Check(e, FALSE)

\* CheckAndRemove, every minute, when it has something to do.
CheckAndRemove(n) ==
  /\ InFlight = 0
  /\ Listed(n) /\ Swept(list[n]) # list[n]
  /\ list' = [list EXCEPT ![n] = Swept(@)]
  /\ UNCHANGED <<owner, spent, net, asked, synced, faults>>

\* A node dies and comes back without a file of its list.
Restart(n) ==
  /\ Fault(TRUE)
  /\ IF n = Owner
     THEN owner' = [owner EXCEPT !.running = FALSE, !.own = NoEntry, !.up = 0] /\ UNCHANGED list
     ELSE list' = [list EXCEPT ![n] = NoEntry] /\ UNCHANGED owner
  /\ net' = [l \in Links |-> IF n \in {l[1], l[2]} THEN <<>> ELSE net[l]]
  /\ UNCHANGED <<spent, asked, synced>>

Aged(m) ==
  CASE m.type = "dsee"  -> [m EXCEPT !.seen = Older(@, Removal)]
    [] m.type = "dseep" -> [m EXCEPT !.ping.age = Older(@, PingWindow)]

\* Everything gets older and every node goes through its list.  A tick is far
\* longer than a message takes and than the pause between two pings or two
\* sweeps; a message that is late by a tick is a fault.
Tick ==
  /\ owner.running => owner.pinged
  /\ faults + InFlight <= MaxFaults
  /\ faults' = faults + InFlight
  /\ net' = [l \in Links |-> [i \in DOMAIN net[l] |-> Aged(net[l][i])]]
  /\ list' = [n \in Nodes |->
                IF Listed(n)
                THEN Swept([list[n] EXCEPT !.seen = Older(@, Removal),
                                           !.lastDseep.age = Older(@, PingWindow)])
                ELSE NoEntry]
  /\ owner' = [owner EXCEPT !.pinged = FALSE,
                            !.up = IF owner.running /\ OwnerKnows THEN Older(@, Settled) ELSE 0]
  /\ asked' = {} /\ synced' = {}
  /\ UNCHANGED spent

Next ==
  \/ Register \/ Ping \/ StopMasterNode \/ Spend
  \/ Receive
  \/ \E n \in Nodes : CheckAndRemove(n) \/ \E p \in All : Connect(n, p)
  \/ \E n \in All : Restart(n)
  \/ Tick

Spec == Init /\ [][Next]_vars

\* Messages arrive, the threads of every node keep running, time passes.
LiveSpec ==
  /\ Spec
  /\ WF_vars(Receive) /\ WF_vars(Ping) /\ WF_vars(Tick)
  /\ \A n \in Nodes : WF_vars(CheckAndRemove(n))

-----------------------------------------------------------------------------
\* The types, and an own entry exactly while the masternode runs.
TypeOK ==
  /\ list \in [Nodes -> Entries \union {NoEntry}]
  /\ owner \in [running : BOOLEAN, no : 0 .. MaxEntries, address : Addresses,
                own : [no : 1 .. MaxEntries, address : Addresses] \union {NoEntry},
                up : 0 .. Settled, pinged : BOOLEAN]
  /\ owner.running <=> owner.own # NoEntry
  /\ spent \in BOOLEAN /\ faults \in 0 .. MaxFaults
  /\ asked \subseteq Nodes /\ synced \subseteq Nodes
  /\ net \in [Links -> Seq(Messages)]

\* A node that missed a move of the masternode cannot be reached by its pings,
\* which are signed for the new address.  However announcements are lost, late
\* or dropped: once the masternode has been up, with the new address in its own
\* list, for as long as entries of the announcements before live and messages
\* can be late, no list holds an old address.
OldAddressDiesOut ==
  owner.up >= Settled => \A n \in Nodes : Listed(n) => Knows(n)

Gone == \A n \in Nodes : ~Listed(n)

\* A masternode that is silent for good, or whose collateral is spent, leaves
\* every list for good, although nodes keep handing entries to one another: an
\* entry that is handed over is as old as it was, and CheckAndRemove ends it.
GhostsDie == <>[](~owner.running \/ spent) => <>[]Gone

\* A masternode that runs for good, and that the nodes can connect to, ends up
\* enabled in every list under its address, also at nodes that lost or dropped
\* it and at nodes that hear its pings only from others - provided its own list
\* has the address right, because this is what it answers a dseg with.
RunningIsListed ==
  <>[](owner.running /\ ~spent /\ OwnerKnows /\ \A n \in Nodes : Listed(n) => list[n].open)
    => <>[](\A n \in Nodes : Knows(n) /\ IsEnabled(list[n]))
=============================================================================
