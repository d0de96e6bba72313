------------------------ MODULE MasternodeListProofs ------------------------
(***************************************************************************)
(* One masternode in the lists of any number of nodes, over any links and  *)
(* with any number of faults.                                              *)
(***************************************************************************)
EXTENDS MasternodeList, FiniteSetTheorems, SequenceTheorems, TLAPS

Networks == [Links -> Seq(Messages)]

\* A message is on a link.
Carries(links, m) == \E l \in Links : \E i \in DOMAIN links[l] : links[l][i] = m

\* An entry, an announcement on its way or the own entry says an address.
Says(address) ==
  \/ \E n \in Nodes : Listed(n) /\ list[n].address = address
  \/ \E l \in Links : \E i \in DOMAIN net[l] :
       net[l][i].type = "dsee" /\ net[l][i].address = address
  \/ owner.own # NoEntry /\ owner.own.address = address

\* If the masternode moves, then to an address that nothing says.
FreshMove == owner'.address # owner.address => ~Says(owner'.address)

-----------------------------------------------------------------------------
\* The constants, one fact at a time.

\* The bounds are numbers, and the times are in the order the code has them in.
LEMMA Bounds ==
  /\ MinEntry \in Nat \ {0} /\ MinPing \in Nat \ {0} /\ PingWindow \in Nat \ {0}
  /\ Expiration \in Nat \ {0} /\ Removal \in Nat \ {0}
  /\ PingWindow < Expiration /\ Expiration < Removal
  /\ MaxEntries \in Nat \ {0} /\ MaxFaults \in Nat
BY ListAssumption

\* The ends of a link are nodes.
LEMMA LinkEnds ==
  ASSUME NEW l \in Links
  PROVE  l \in All \X All /\ l[1] \in All /\ l[2] \in All /\ (l[2] # Owner => l[2] \in Nodes)
BY ListAssumption DEF All

-----------------------------------------------------------------------------
\* Messages and links.

\* An announcement that is signed, and one that is handed over, are messages.
LEMMA DseeFields ==
  ASSUME NEW no \in 1 .. MaxEntries, NEW a \in Addresses, NEW seen \in Ages,
         NEW live \in BOOLEAN
  PROVE  /\ Dsee(no, a, seen, live) \in Messages
         /\ Dsee(no, a, seen, live).type = "dsee" /\ Dsee(no, a, seen, live).no = no
         /\ Dsee(no, a, seen, live).address = a /\ Dsee(no, a, seen, live).seen = seen
BY DEF Messages, Dsee

\* A ping that is signed is a message.
LEMMA DseepFields ==
  ASSUME NEW a \in Addresses, NEW p \in Pings
  PROVE  /\ Dseep(a, p) \in Messages
         /\ Dseep(a, p).type = "dseep" /\ Dseep(a, p).address = a /\ Dseep(a, p).ping = p
BY DEF Messages, Dseep

\* A message is an announcement or a ping.
LEMMA MessageIs ==
  ASSUME NEW m \in Messages
  PROVE  /\ m.address \in Addresses
         /\ \/ /\ m.type = "dsee" /\ m.no \in 1 .. MaxEntries
               /\ m.seen \in Ages /\ m.live \in BOOLEAN
               /\ m = Dsee(m.no, m.address, m.seen, m.live)
            \/ m.type = "dseep" /\ m.ping \in Pings /\ m = Dseep(m.address, m.ping)
<1>1. \/ \E no \in 1 .. MaxEntries, a \in Addresses, seen \in Ages, live \in BOOLEAN :
           m = Dsee(no, a, seen, live)
      \/ \E a \in Addresses, p \in Pings : m = Dseep(a, p)
  BY DEF Messages
<1>2. CASE \E no \in 1 .. MaxEntries, a \in Addresses, seen \in Ages, live \in BOOLEAN :
             m = Dsee(no, a, seen, live)
  BY <1>2 DEF Dsee
<1>3. CASE \E a \in Addresses, p \in Pings : m = Dseep(a, p)
  BY <1>3 DEF Dseep
<1> QED  BY <1>1, <1>2, <1>3

\* A message that is sent is on the links to those it is sent to, behind what
\* was there.
LEMMA SendCarries ==
  ASSUME NEW links \in Networks, NEW from, NEW to, NEW m \in Messages
  PROVE  /\ Send(links, from, to, m) \in Networks
         /\ \A x : Carries(Send(links, from, to, m), x) => Carries(links, x) \/ x = m
<1> DEFINE new == Send(links, from, to, m)
<1>1. ASSUME NEW l \in Links
      PROVE  /\ new[l] = IF l[1] = from /\ l[2] \in to THEN Append(links[l], m) ELSE links[l]
             /\ links[l] \in Seq(Messages)
  BY DEF Send, Networks
<1>2. ASSUME NEW l \in Links
      PROVE  /\ new[l] \in Seq(Messages)
             /\ \A i \in DOMAIN new[l] :
                  new[l][i] = m \/ (i \in DOMAIN links[l] /\ new[l][i] = links[l][i])
  <2>1. CASE new[l] = links[l]
    BY <1>1, <2>1
  <2>2. CASE new[l] = Append(links[l], m)
    <3>1. /\ Append(links[l], m) \in Seq(Messages)
          /\ Len(Append(links[l], m)) = Len(links[l]) + 1
          /\ \A i \in 1 .. Len(links[l]) : Append(links[l], m)[i] = links[l][i]
          /\ Append(links[l], m)[Len(links[l]) + 1] = m
      BY <1>1, AppendProperties
    <3>2. /\ Len(links[l]) \in Nat /\ DOMAIN links[l] = 1 .. Len(links[l])
          /\ DOMAIN Append(links[l], m) = 1 .. Len(links[l]) + 1
      BY <1>1, <3>1, LenProperties
    <3> QED  BY <2>2, <3>1, <3>2
  <2> QED  BY <1>1, <2>1, <2>2
<1>3. new \in Networks
  <2>1. new = [l \in Links |-> new[l]]
    BY DEF Send
  <2> HIDE DEF new
  <2> QED  BY <1>2, <2>1 DEF Networks
<1> HIDE DEF new
<1>4. \A x : Carries(new, x) => Carries(links, x) \/ x = m
  BY <1>2 DEF Carries
<1> QED  BY <1>3, <1>4 DEF new

\* Taking the head off a link brings nothing new.
LEMMA TakenCarries ==
  ASSUME net \in Networks, NEW l \in Links, net[l] # <<>>
  PROVE  /\ Taken(l) \in Networks
         /\ Head(net[l]) \in Messages /\ Carries(net, Head(net[l]))
         /\ \A x : Carries(Taken(l), x) => Carries(net, x)
<1>1. net[l] \in Seq(Messages)
  BY DEF Networks
<1>2. /\ Head(net[l]) \in Messages /\ Tail(net[l]) \in Seq(Messages)
      /\ Head(net[l]) = net[l][1] /\ 1 \in DOMAIN net[l]
      /\ \A i \in DOMAIN Tail(net[l]) : i + 1 \in DOMAIN net[l] /\ Tail(net[l])[i] = net[l][i + 1]
  <2>1. Len(net[l]) \in Nat /\ DOMAIN net[l] = 1 .. Len(net[l]) /\ Len(net[l]) # 0
    BY <1>1, LenProperties, EmptySeq
  <2>2. Len(net[l]) >= 1
    BY <2>1
  <2>3. Tail(net[l]) \in Seq(Messages) /\ Len(Tail(net[l])) = Len(net[l]) - 1
        /\ \A i \in 1 .. Len(Tail(net[l])) : Tail(net[l])[i] = net[l][i + 1]
    BY <1>1, HeadTailProperties
  <2>4. DOMAIN Tail(net[l]) = 1 .. Len(Tail(net[l]))
    BY <2>3, LenProperties
  <2>5. Head(net[l]) = net[l][1] /\ net[l][1] \in Messages
    BY <1>1, <2>1, <2>2, ElementOfSeq, HeadTailProperties
  <2> QED  BY <2>1, <2>2, <2>3, <2>4, <2>5
<1>3. /\ Taken(l) \in Networks
      /\ Taken(l)[l] = Tail(net[l])
      /\ \A k \in Links : k # l => Taken(l)[k] = net[k]
  BY <1>2 DEF Taken, Networks
<1>4. ASSUME NEW x, NEW k \in Links, NEW i \in DOMAIN Taken(l)[k], Taken(l)[k][i] = x
      PROVE  \E j \in DOMAIN net[k] : net[k][j] = x
  <2>1. CASE k = l
    BY <1>2, <1>3, <1>4, <2>1
  <2>2. CASE k # l
    BY <1>3, <1>4, <2>2
  <2> QED  BY <2>1, <2>2
<1> QED  BY <1>2, <1>3, <1>4 DEF Carries

-----------------------------------------------------------------------------
(***************************************************************************)
(* The invariant.  Announcements are numbered as they are signed.  When a  *)
(* masternode moves to an address that nothing says any more, then from    *)
(* number w on they say the present address, and before w others: w is the *)
(* number it was first announced with.  Whatever says another address      *)
(* ages: for every tick since the masternode came up with its present      *)
(* address it has become a tick older in a list, or it was late on a link, *)
(* and this is a fault.  A list that replaces one old address by another   *)
(* takes it as just seen, but it is one that was announced later: what     *)
(* counts is for how long the announcements up to this one can have been   *)
(* standing.  An age that nobody increases, that of an entry which a stop  *)
(* made look never seen, is handed over as just seen, but it stays in no   *)
(* list for a tick.                                                        *)
(*                                                                         *)
(* With w = 0 the invariant says nothing about addresses and ages, and is  *)
(* what holds however the masternode moves.                                *)
(***************************************************************************)
Owners == [running : BOOLEAN, no : 0 .. MaxEntries, address : Addresses,
           own : [no : 1 .. MaxEntries, address : Addresses] \union {NoEntry},
           up : 0 .. Settled, pinged : BOOLEAN]

\* An announcement of the masternode in state o.
Signed(w, o, no, address) ==
  /\ no <= o.no /\ (no = o.no => address = o.address)
  /\ w > 0 => (no >= w <=> address = o.address)

\* The age that counts.
Rest(seen) == IF seen = Never THEN 0 ELSE seen

\* For how long at most an entry with this number and age, and the ones it
\* replaced, can have been in a list.
Standing(no, seen) == (no - 1) * Removal + Rest(seen)

\* What says another address than o has aged, or was late.
Faded(w, o, f, address, age) == w > 0 /\ address # o.address => o.up <= f + age

EntryOK(w, o, f, e) ==
  /\ e \in Entries /\ Signed(w, o, e.no, e.address)
  /\ Faded(w, o, f, e.address, Standing(e.no, e.seen))

MessageOK(w, o, f, m) ==
  /\ m \in Messages
  /\ m.type = "dsee" => Signed(w, o, m.no, m.address)
  /\ Faded(w, o, f, m.address, IF m.type = "dsee" THEN Standing(m.no, m.seen) ELSE 0)

OwnerOK(w, o) ==
  /\ o \in Owners /\ w <= o.no + 1
  /\ o.running <=> o.own # NoEntry
  /\ o.own # NoEntry => Signed(w, o, o.own.no, o.own.address)
  /\ w > 0 /\ o.own # NoEntry /\ o.own.address # o.address => o.up = 0

ListsOK(w, o, f, lists) ==
  /\ lists \in [Nodes -> Entries \union {NoEntry}]
  /\ \A n \in Nodes : lists[n] # NoEntry => EntryOK(w, o, f, lists[n])

NetOK(w, o, f, links) ==
  links \in Networks /\ \A m : Carries(links, m) => MessageOK(w, o, f, m)

Inv(w) ==
  /\ OwnerOK(w, owner) /\ ListsOK(w, owner, faults, list) /\ NetOK(w, owner, faults, net)
  /\ spent \in BOOLEAN /\ faults \in 0 .. MaxFaults
  /\ asked \subseteq Nodes /\ synced \subseteq Nodes

\* A later multiple is larger by the factor at least.
LEMMA Multiples ==
  ASSUME NEW i \in Nat, NEW j \in Nat, i < j, NEW r \in Nat
  PROVE  i * r \in Nat /\ j * r \in Nat /\ i * r + r <= j * r
<1> DEFINE k == j - i - 1
<1>1. k \in Nat /\ j = i + 1 + k
  OBVIOUS
<1> HIDE DEF k
<1>2. k * r \in Nat /\ i * r \in Nat /\ j * r \in Nat
  BY <1>1
<1>3. (i + 1 + k) * r = i * r + r + k * r
  BY <1>1
<1> QED  BY <1>1, <1>2, <1>3

\* The ages, and when an address is settled, are numbers.
LEMMA AgesAre ==
  /\ Never \in Nat /\ Never = Removal + 1 /\ Ages = 0 .. Never
  /\ Settled \in Nat /\ Settled = (MaxEntries - 1) * Removal + MaxFaults + 1
  /\ \A seen \in Ages : Rest(seen) \in Nat /\ Rest(seen) <= Removal /\ Rest(seen) <= seen
<1>1. (MaxEntries - 1) * Removal \in Nat
  <2>1. /\ MaxEntries - 1 \in Nat /\ MaxEntries \in Nat /\ MaxEntries - 1 < MaxEntries
        /\ Removal \in Nat
    BY Bounds
  <2> QED  BY <2>1, Multiples
<1> QED  BY <1>1, Bounds DEF Never, Ages, Settled, Rest

\* How long an announcement can stand is a number, and nothing that stood for
\* as long as it can outlasts what was announced after it.
LEMMA StandingIs ==
  ASSUME NEW no \in 1 .. MaxEntries, NEW seen \in Ages
  PROVE  /\ Standing(no, seen) \in Nat /\ Standing(no, seen) <= no * Removal
         /\ \A no2 \in 1 .. MaxEntries : no < no2 => Standing(no, seen) <= Standing(no2, 0)
<1> DEFINE base == (no - 1) * Removal
<1>1. no - 1 \in Nat /\ no \in Nat /\ no - 1 < no /\ Removal \in Nat
  BY Bounds
<1>2. base \in Nat /\ no * Removal \in Nat /\ base + Removal <= no * Removal
  BY <1>1, Multiples
<1>3. Rest(seen) \in Nat /\ Rest(seen) <= Removal
  BY AgesAre
<1>4. \A seen2 : Standing(no, seen2) = base + Rest(seen2)
  BY DEF Standing
<1>5. ASSUME NEW no2 \in 1 .. MaxEntries, no < no2
      PROVE  no * Removal <= Standing(no2, 0)
  <2> DEFINE base2 == (no2 - 1) * Removal
  <2>1. no2 - 1 \in Nat /\ no <= no2 - 1
    BY <1>1, <1>5, Bounds
  <2>2. no * Removal <= base2 /\ base2 \in Nat
    <3>1. CASE no = no2 - 1
      BY <1>2, <3>1
    <3>2. CASE no < no2 - 1
      <4>1. base2 \in Nat /\ no * Removal + Removal <= base2
        BY <1>1, <2>1, <3>2, Multiples
      <4> HIDE DEF base2
      <4> QED  BY <1>1, <1>2, <4>1
    <3> QED  BY <1>1, <2>1, <3>1, <3>2
  <2>3. Rest(0) = 0
    BY AgesAre, Bounds DEF Rest
  <2>4. Standing(no2, 0) = base2 + 0
    BY <2>3 DEF Standing
  <2> HIDE DEF base2
  <2> QED  BY <2>2, <2>4
<1> HIDE DEF base
<1> DEFINE top == no * Removal
<1>6. top \in Nat /\ base + Removal <= top
  BY <1>2
<1>7. Standing(no, seen) \in Nat /\ Standing(no, seen) <= top
  <2> HIDE DEF top
  <2> QED  BY <1>1, <1>2, <1>3, <1>4, <1>6
<1>8. ASSUME NEW no2 \in 1 .. MaxEntries, no < no2 PROVE Standing(no, seen) <= Standing(no2, 0)
  <2>1. 0 \in Ages /\ Rest(0) = 0
    BY AgesAre, Bounds DEF Rest
  <2>2. no2 - 1 \in Nat
    BY <1>1, <1>8, Bounds
  <2>3. (no2 - 1) * Removal \in Nat
    BY <1>1, <2>2
  <2>4. Standing(no2, 0) \in Nat
    BY <2>1, <2>3 DEF Standing
  <2>5. top <= Standing(no2, 0)
    BY <1>5, <1>8
  <2> HIDE DEF top
  <2> QED  BY <1>6, <1>7, <2>4, <2>5
<1> QED  BY <1>7, <1>8

\* What is older stands for longer, by a tick if it is a tick older.
LEMMA StandingGrows ==
  ASSUME NEW no \in 1 .. MaxEntries, NEW seen \in Ages, NEW seen2 \in Ages
  PROVE  /\ Rest(seen) <= Rest(seen2) => Standing(no, seen) <= Standing(no, seen2)
         /\ Rest(seen2) = Rest(seen) + 1 => Standing(no, seen2) = Standing(no, seen) + 1
<1> DEFINE base == (no - 1) * Removal
<1>1. no - 1 \in Nat /\ Removal \in Nat
  BY Bounds
<1>2. base \in Nat
  BY <1>1
<1>3. Rest(seen) \in Nat /\ Rest(seen2) \in Nat
  BY AgesAre
<1>4. Standing(no, seen) = base + Rest(seen) /\ Standing(no, seen2) = base + Rest(seen2)
  BY DEF Standing
<1> HIDE DEF base
<1> QED  BY <1>2, <1>3, <1>4

\* What an entry consists of.
LEMMA EntryFields ==
  ASSUME NEW e \in Entries
  PROVE  /\ e.no \in 1 .. MaxEntries /\ e.address \in Addresses /\ e.seen \in Ages
         /\ e.lastDseep \in Pings /\ e.state \in States /\ e.open \in BOOLEAN
BY DEF Entries

\* What stays right when the masternode registers again, stops or restarts, and
\* when nothing about it changes but the number of faults, as long as it does
\* not move.
LEMMA Later ==
  ASSUME NEW w \in Nat, NEW o \in Owners, NEW o2 \in Owners, NEW f \in Nat, NEW f2 \in Nat, f <= f2,
         o2.no > o.no \/ (o2.no = o.no /\ o2.address = o.address),
         o2.up = 0 \/ (o2.up = o.up /\ o2.address = o.address),
         w > 0 => o2.address = o.address
  PROVE  /\ \A e : EntryOK(w, o, f, e) => EntryOK(w, o2, f2, e)
         /\ \A m : MessageOK(w, o, f, m) => MessageOK(w, o2, f2, m)
         /\ \A lists : ListsOK(w, o, f, lists) => ListsOK(w, o2, f2, lists)
         /\ \A links : NetOK(w, o, f, links) => NetOK(w, o2, f2, links)
<1>1. o.no \in Nat /\ o2.no \in Nat /\ o.up \in Nat /\ o2.up \in Nat
  BY AgesAre, Bounds DEF Owners
<1>2. ASSUME NEW a, NEW age \in Nat, Faded(w, o, f, a, age) PROVE Faded(w, o2, f2, a, age)
  BY <1>1, <1>2 DEF Faded
<1>3. ASSUME NEW no \in Nat, NEW a, Signed(w, o, no, a) PROVE Signed(w, o2, no, a)
  BY <1>1, <1>3 DEF Signed
<1>4. ASSUME NEW e, EntryOK(w, o, f, e) PROVE EntryOK(w, o2, f2, e)
  <2>0. e.no \in 1 .. MaxEntries /\ e.seen \in Ages
    BY <1>4, EntryFields DEF EntryOK
  <2>1. e.no \in Nat
    BY <2>0, Bounds
  <2>2. Standing(e.no, e.seen) \in Nat
    BY <2>0, StandingIs
  <2> QED  BY <1>2, <1>3, <1>4, <2>1, <2>2 DEF EntryOK
<1>5. ASSUME NEW m, MessageOK(w, o, f, m) PROVE MessageOK(w, o2, f2, m)
  <2>1. m \in Messages
    BY <1>5 DEF MessageOK
  <2>2. m.type = "dsee" => m.no \in Nat /\ Standing(m.no, m.seen) \in Nat
    BY <2>1, MessageIs, StandingIs, Bounds
  <2>3. (IF m.type = "dsee" THEN Standing(m.no, m.seen) ELSE 0) \in Nat
    BY <2>2
  <2> QED  BY <1>2, <1>3, <1>5, <2>1, <2>2, <2>3 DEF MessageOK
<1> QED  BY <1>4, <1>5 DEF ListsOK, NetOK

\* And when it moves to an address that nothing says: what was announced before
\* says another.
LEMMA Moved ==
  ASSUME NEW w \in Nat, NEW o \in Owners, NEW o2 \in Owners, NEW f \in Nat,
         o2.no = o.no + 1, o2.up = 0
  PROVE  /\ \A e : EntryOK(w, o, f, e) /\ e.address # o2.address => EntryOK(o2.no, o2, f, e)
         /\ \A m : MessageOK(w, o, f, m) /\ (m.type = "dsee" => m.address # o2.address)
                    => MessageOK(o2.no, o2, f, m)
<1>1. o.no \in Nat /\ o2.no \in Nat
  BY Bounds DEF Owners
<1>2. ASSUME NEW a, NEW age \in Nat PROVE Faded(o2.no, o2, f, a, age)
  BY <1>2 DEF Faded
<1>3. ASSUME NEW no \in Nat, NEW a, Signed(w, o, no, a), a # o2.address
      PROVE  Signed(o2.no, o2, no, a)
  BY <1>1, <1>3 DEF Signed
<1>4. ASSUME NEW e, EntryOK(w, o, f, e), e.address # o2.address
      PROVE  EntryOK(o2.no, o2, f, e)
  <2>0. e.no \in 1 .. MaxEntries /\ e.seen \in Ages
    BY <1>4, EntryFields DEF EntryOK
  <2>1. e.no \in Nat /\ Standing(e.no, e.seen) \in Nat
    BY <2>0, StandingIs, Bounds
  <2> QED  BY <1>2, <1>3, <1>4, <2>1 DEF EntryOK
<1>5. ASSUME NEW m, MessageOK(w, o, f, m), m.type = "dsee" => m.address # o2.address
      PROVE  MessageOK(o2.no, o2, f, m)
  <2>1. m \in Messages
    BY <1>5 DEF MessageOK
  <2>2. m.type = "dsee" => m.no \in Nat /\ Standing(m.no, m.seen) \in Nat
    BY <2>1, MessageIs, StandingIs, Bounds
  <2>3. (IF m.type = "dsee" THEN Standing(m.no, m.seen) ELSE 0) \in Nat
    BY <2>2
  <2> QED  BY <1>2, <1>3, <1>5, <2>1, <2>2, <2>3 DEF MessageOK
<1> QED  BY <1>4, <1>5

\* The same when only the faults increase.
LEMMA MoreFaults ==
  ASSUME NEW w \in Nat, NEW o \in Owners, NEW f \in Nat, NEW f2 \in Nat, f <= f2
  PROVE  /\ \A lists : ListsOK(w, o, f, lists) => ListsOK(w, o, f2, lists)
         /\ \A links : NetOK(w, o, f, links) => NetOK(w, o, f2, links)
BY Later

\* Faults are counted up to their bound.
LEMMA FaultCounts ==
  ASSUME faults \in 0 .. MaxFaults, NEW happens \in BOOLEAN, Fault(happens)
  PROVE  faults \in Nat /\ faults' \in 0 .. MaxFaults /\ faults' \in Nat /\ faults <= faults'
BY Bounds DEF Fault

\* Sending what is right, taking a message off, and answering a dseg.
LEMMA SendOK ==
  ASSUME NEW w \in Nat, NEW o, NEW f, NEW links, NetOK(w, o, f, links), NEW from, NEW to,
         NEW m, MessageOK(w, o, f, m)
  PROVE  NetOK(w, o, f, Send(links, from, to, m))
<1>1. links \in Networks /\ m \in Messages
  BY DEF NetOK, MessageOK
<1> QED  BY <1>1, SendCarries DEF NetOK

\* What comes off a link was right, and what remains is.
LEMMA TakenOK ==
  ASSUME NEW w \in Nat, NetOK(w, owner, faults, net), NEW l \in Links, net[l] # <<>>
  PROVE  NetOK(w, owner, faults, Taken(l)) /\ MessageOK(w, owner, faults, Head(net[l]))
<1>1. net \in Networks
  BY DEF NetOK
<1> QED  BY <1>1, TakenCarries DEF NetOK

\* The answer to a dseg is the entry of whoever is asked, as old as it is there.
LEMMA AnswerOK ==
  ASSUME NEW w \in Nat, Inv(w), NEW links, NetOK(w, owner, faults, links), NEW p \in All, NEW n
  PROVE  NetOK(w, owner, faults, Answer(links, p, n))
<1>1. CASE p = Owner /\ owner.own # NoEntry
  <2> DEFINE seen == IF owner.pinged THEN 0 ELSE 1
             live == FALSE
             m == Dsee(owner.own.no, owner.own.address, seen, live)
  <2>0. live \in BOOLEAN
    OBVIOUS
  <2>1. owner.own.no \in 1 .. MaxEntries /\ owner.own.address \in Addresses
    BY <1>1 DEF Inv, OwnerOK, Owners
  <2>2. seen \in Ages
    <3>1. 0 \in Ages /\ 1 \in Ages
      BY AgesAre, Bounds
    <3> QED  BY <3>1
  <2> HIDE DEF seen, live
  <2>3. /\ m \in Messages /\ m.type = "dsee" /\ m.no = owner.own.no
        /\ m.address = owner.own.address /\ m.seen = seen
    BY <2>0, <2>1, <2>2, DseeFields
  <2>4. Signed(w, owner, m.no, m.address)
    BY <1>1, <2>3 DEF Inv, OwnerOK
  <2>5. Faded(w, owner, faults, m.address, Standing(m.no, m.seen))
    <3>1. w > 0 /\ m.address # owner.address => owner.up = 0
      BY <1>1, <2>3 DEF Inv, OwnerOK
    <3>2. faults \in Nat
      BY Bounds DEF Inv
    <3>3. Standing(m.no, m.seen) \in Nat
      BY <2>1, <2>2, <2>3, StandingIs
    <3> HIDE DEF m
    <3>4. 0 <= faults + Standing(m.no, m.seen)
      BY <3>2, <3>3
    <3> QED  BY <3>1, <3>4 DEF Faded
  <2>6. MessageOK(w, owner, faults, m)
    BY <2>3, <2>4, <2>5 DEF MessageOK
  <2>7. Answer(links, p, n) = Send(links, p, {n}, m)
    BY <1>1 DEF Answer, seen, live
  <2> HIDE DEF m
  <2> QED  BY <2>6, <2>7, SendOK
<1>2. CASE p # Owner /\ Listed(p) /\ IsEnabled(list[p])
  <2> DEFINE e == list[p]
             live == FALSE
             m == Dsee(e.no, e.address, e.seen, live)
  <2>0. live \in BOOLEAN
    OBVIOUS
  <2>1. EntryOK(w, owner, faults, e)
    BY <1>2 DEF Inv, ListsOK, All, Listed
  <2>2. e.no \in 1 .. MaxEntries /\ e.address \in Addresses /\ e.seen \in Ages
    BY <2>1, EntryFields DEF EntryOK
  <2> HIDE DEF live
  <2>3. /\ m \in Messages /\ m.type = "dsee" /\ m.no = e.no
        /\ m.address = e.address /\ m.seen = e.seen
    BY <2>0, <2>2, DseeFields
  <2>4. Answer(links, p, n) = Send(links, p, {n}, m)
    BY <1>2 DEF Answer, live
  <2> HIDE DEF m, e
  <2>5. MessageOK(w, owner, faults, m)
    BY <2>1, <2>3 DEF MessageOK, EntryOK
  <2> QED  BY <2>4, <2>5, SendOK
<1>3. CASE ~(p = Owner /\ owner.own # NoEntry) /\ ~(p # Owner /\ Listed(p) /\ IsEnabled(list[p]))
  BY <1>3 DEF Answer
<1> QED  BY <1>1, <1>2, <1>3

-----------------------------------------------------------------------------
\* The steps.

\* The invariant of the next state, part by part.
LEMMA NextState ==
  ASSUME NEW w \in Nat, OwnerOK(w, owner'), ListsOK(w, owner', faults', list'),
         NetOK(w, owner', faults', net'),
         spent' \in BOOLEAN, faults' \in 0 .. MaxFaults,
         asked' \subseteq Nodes, synced' \subseteq Nodes
  PROVE  Inv(w)'
BY DEF Inv, OwnerOK, ListsOK, EntryOK, NetOK, MessageOK, Signed, Faded, Standing, Rest, Carries

\* A list with one entry replaced.
LEMMA StoreOK ==
  ASSUME NEW w \in Nat, NEW o, NEW f, ListsOK(w, o, f, list), NEW n \in Nodes, NEW e,
         e = NoEntry \/ EntryOK(w, o, f, e)
  PROVE  ListsOK(w, o, f, [list EXCEPT ![n] = e])
<1>1. e \in Entries \union {NoEntry} /\ list \in [Nodes -> Entries \union {NoEntry}]
  BY DEF EntryOK, ListsOK
<1>2. [list EXCEPT ![n] = e] \in [Nodes -> Entries \union {NoEntry}]
  BY <1>1
<1>3. ASSUME NEW k \in Nodes, [list EXCEPT ![n] = e][k] # NoEntry
      PROVE  EntryOK(w, o, f, [list EXCEPT ![n] = e][k])
  <2>1. CASE k = n
    BY <1>1, <1>3, <2>1
  <2>2. CASE k # n
    BY <1>1, <1>3, <2>2 DEF ListsOK
  <2> QED  BY <2>1, <2>2
<1> QED  BY <1>2, <1>3 DEF ListsOK

\* Check changes only the state of an entry.
LEMMA CheckKeeps ==
  ASSUME NEW e \in Entries, NEW busy \in BOOLEAN
  PROVE  /\ Check(e, busy) \in Entries /\ Check(e, busy).no = e.no
         /\ Check(e, busy).address = e.address /\ Check(e, busy).seen = e.seen
BY DEF Check, Entries, States

\* So what Check leaves is right if the entry was.
LEMMA CheckOK ==
  ASSUME NEW w \in Nat, NEW o, NEW f, NEW e, EntryOK(w, o, f, e), NEW busy \in BOOLEAN
  PROVE  EntryOK(w, o, f, Check(e, busy))
<1>1. e \in Entries
  BY DEF EntryOK
<1> QED  BY <1>1, CheckKeeps DEF EntryOK

\* What is signed after an announcement with the present address has it too.
LEMMA StaysPresent ==
  ASSUME NEW w \in Nat, w > 0, NEW o, NEW no \in Nat, NEW no2 \in Nat, no < no2,
         NEW a, NEW a2, Signed(w, o, no, a), Signed(w, o, no2, a2), a = o.address
  PROVE  a2 = o.address
BY DEF Signed

\* A new announcement: nothing old has aged yet.
LEMMA RegisterOK ==
  ASSUME NEW w \in Nat, Inv(w), Register, w > 0 => FreshMove
  PROVE  \E w2 \in Nat : (w2 > 0 <=> w > 0) /\ Inv(w2)'
<1>1. PICK a \in IF owner.no = 0 THEN {owner.address} ELSE Addresses :
        /\ owner' = [owner EXCEPT !.running = TRUE, !.no = owner.no + 1, !.address = a, !.up = 0,
                       !.own = IF @ = NoEntry THEN [no |-> owner.no + 1, address |-> a] ELSE @]
        /\ net' = Send(net, Owner, All, Dsee(owner.no + 1, a, 0, TRUE))
  BY DEF Register
<1>2. UNCHANGED <<list, spent, asked, synced, faults>> /\ owner.no < MaxEntries
  BY DEF Register
<1>3. /\ owner \in Owners /\ OwnerOK(w, owner) /\ owner.no \in Nat /\ w <= owner.no + 1
      /\ owner.no + 1 \in 1 .. MaxEntries /\ a \in Addresses
  BY <1>2, Bounds DEF Inv, OwnerOK, Owners
<1>4. /\ owner'.running = TRUE /\ owner'.no = owner.no + 1 /\ owner'.address = a /\ owner'.up = 0
      /\ owner'.own = IF owner.own = NoEntry THEN [no |-> owner.no + 1, address |-> a]
                      ELSE owner.own
      /\ owner' = [running |-> TRUE, no |-> owner.no + 1, address |-> a, own |-> owner'.own,
                   up |-> 0, pinged |-> owner.pinged]
  BY <1>1, <1>3 DEF Owners
<1>5. PICK w2 \in Nat :
        \/ w2 = w /\ (w > 0 => owner'.address = owner.address)
        \/ w2 = owner'.no /\ w > 0 /\ ~Says(owner'.address)
  BY <1>3, <1>4 DEF FreshMove
<1>6. (w2 > 0 <=> w > 0) /\ w2 <= owner.no + 1
  BY <1>3, <1>4, <1>5
<1>7. ASSUME NEW no \in Nat, NEW x, Signed(w, owner, no, x),
             ~Says(owner'.address) => x # owner'.address
      PROVE  Signed(w2, owner', no, x)
  BY <1>3, <1>4, <1>5, <1>7 DEF Signed
<1>8. Signed(w2, owner', owner.no + 1, a)
  BY <1>3, <1>4, <1>6 DEF Signed
<1>9. /\ owner'.own # NoEntry /\ owner'.own \in [no : 1 .. MaxEntries, address : Addresses]
      /\ Signed(w2, owner', owner'.own.no, owner'.own.address)
  <2>1. CASE owner.own = NoEntry
    <3>1. owner'.own = [no |-> owner.no + 1, address |-> a]
      BY <1>4, <2>1
    <3>2. [no |-> owner.no + 1, address |-> a] \in [no : Nat, address : Addresses]
      BY <1>3
    <3>3. owner'.own # NoEntry
      BY <3>1, <3>2, ListAssumption
    <3> QED  BY <1>3, <1>8, <3>1, <3>3
  <2>2. CASE owner.own # NoEntry
    <3>1. owner'.own = owner.own
      BY <1>4, <2>2
    <3>2. /\ owner.own \in [no : 1 .. MaxEntries, address : Addresses]
          /\ Signed(w, owner, owner.own.no, owner.own.address)
      BY <1>3, <2>2 DEF OwnerOK, Owners
    <3>3. owner.own.no \in Nat
      BY <3>2, Bounds
    <3>4. ~Says(owner'.address) => owner.own.address # owner'.address
      BY <2>2 DEF Says
    <3>5. Signed(w2, owner', owner.own.no, owner.own.address)
      BY <1>7, <3>2, <3>3, <3>4
    <3> QED  BY <2>2, <3>1, <3>2, <3>5
  <2> QED  BY <2>1, <2>2
<1>10. owner' \in Owners
  <2>1. owner.pinged \in BOOLEAN /\ 0 \in 0 .. Settled /\ owner.no + 1 \in 0 .. MaxEntries
    BY <1>3, AgesAre, Bounds DEF Owners
  <2> DEFINE own == owner'.own
  <2>2. own \in [no : 1 .. MaxEntries, address : Addresses] \union {NoEntry}
    BY <1>9
  <2>3. owner' = [running |-> TRUE, no |-> owner.no + 1, address |-> a, own |-> own,
                  up |-> 0, pinged |-> owner.pinged]
    BY <1>4
  <2> HIDE DEF own
  <2> QED  BY <1>3, <2>1, <2>2, <2>3 DEF Owners
<1>11. OwnerOK(w2, owner')
  <2>1. w2 <= owner'.no + 1
    BY <1>3, <1>4, <1>6
  <2> QED  BY <1>4, <1>9, <1>10, <2>1 DEF OwnerOK
<1>12. ListsOK(w2, owner', faults', list') /\ NetOK(w2, owner', faults', net)
  <2>1. faults \in Nat /\ faults' = faults /\ list' = list
    BY <1>2, Bounds DEF Inv
  <2>2. CASE w2 = w /\ (w > 0 => owner'.address = owner.address)
    <3>1. owner'.no > owner.no
      BY <1>3, <1>4
    <3> QED  BY <1>3, <1>4, <1>10, <2>1, <2>2, <3>1, Later DEF Inv
  <2>3. CASE w2 = owner'.no /\ w > 0 /\ ~Says(owner'.address)
    <3>1. \A n \in Nodes : list[n] # NoEntry => list[n].address # owner'.address
      BY <2>3 DEF Says, Listed
    <3>2. \A m : Carries(net, m) => (m.type = "dsee" => m.address # owner'.address)
      BY <2>3 DEF Says, Carries
    <3>3. /\ \A e : EntryOK(w, owner, faults, e) /\ e.address # owner'.address
                   => EntryOK(w2, owner', faults, e)
          /\ \A m : MessageOK(w, owner, faults, m)
                       /\ (m.type = "dsee" => m.address # owner'.address)
                   => MessageOK(w2, owner', faults, m)
      BY <1>3, <1>4, <1>10, <2>1, <2>3, Moved
    <3> QED  BY <2>1, <3>1, <3>2, <3>3 DEF Inv, ListsOK, NetOK
  <2> QED  BY <1>5, <2>2, <2>3
<1>13. NetOK(w2, owner', faults', net')
  <2> DEFINE live == TRUE
             zero == 0
             m == Dsee(owner.no + 1, a, zero, live)
  <2>1. live \in BOOLEAN /\ zero \in Ages
    BY AgesAre
  <2>2. net' = Send(net, Owner, All, m)
    BY <1>1
  <2> HIDE DEF live, zero
  <2>3. /\ m \in Messages /\ m.type = "dsee" /\ m.no = owner.no + 1 /\ m.address = a
    BY <1>3, <2>1, DseeFields
  <2> HIDE DEF m
  <2>4. MessageOK(w2, owner', faults', m)
    BY <1>4, <1>8, <2>3 DEF MessageOK, Faded
  <2> QED  BY <1>12, <2>2, <2>4, SendOK
<1>14. Inv(w2)'
  BY <1>2, <1>11, <1>12, <1>13, NextState DEF Inv
<1> QED  BY <1>6, <1>14

\* A ping, with or without stop, is signed for the present address.
LEMMA SignedPing ==
  ASSUME NEW w \in Nat, NEW o \in Owners, NEW f, NEW stop \in BOOLEAN
  PROVE  MessageOK(w, o, f, Dseep(o.address, [age |-> 0, stop |-> stop]))
<1> DEFINE p == [age |-> 0, stop |-> stop]
<1>1. p \in Pings
  BY Bounds DEF Pings
<1>2. o.address \in Addresses
  BY DEF Owners
<1> HIDE DEF p
<1>3. /\ Dseep(o.address, p) \in Messages
      /\ Dseep(o.address, p).type = "dseep" /\ Dseep(o.address, p).address = o.address
  BY <1>1, <1>2, DseepFields
<1>4. MessageOK(w, o, f, Dseep(o.address, p))
  BY <1>3 DEF MessageOK, Faded
<1> QED  BY <1>4 DEF p

\* ManageStatus sends a ping.
LEMMA PingOK ==
  ASSUME NEW w \in Nat, Inv(w), Ping
  PROVE  Inv(w)'
<1>1. /\ owner' = [owner EXCEPT !.pinged = TRUE]
      /\ net' = Send(net, Owner, All, Dseep(owner.address, [age |-> 0, stop |-> FALSE]))
      /\ UNCHANGED <<list, spent, asked, synced, faults>>
  BY DEF Ping
<1>2. owner \in Owners /\ OwnerOK(w, owner)
  BY DEF Inv, OwnerOK
<1>3. /\ owner' \in Owners /\ owner'.no = owner.no /\ owner'.address = owner.address
      /\ owner'.up = owner.up /\ owner'.own = owner.own /\ owner'.running = owner.running
  BY <1>1, <1>2 DEF Owners
<1>4. OwnerOK(w, owner')
  BY <1>2, <1>3 DEF OwnerOK, Signed
<1>5. ListsOK(w, owner', faults', list') /\ NetOK(w, owner', faults', net)
  <2>1. faults \in Nat /\ faults' = faults /\ list' = list
    BY <1>1, Bounds DEF Inv
  <2> QED  BY <1>2, <1>3, <2>1, Later DEF Inv
<1>6. NetOK(w, owner', faults', net')
  <2> DEFINE stop == FALSE
             m == Dseep(owner'.address, [age |-> 0, stop |-> stop])
  <2>1. stop \in BOOLEAN /\ net' = Send(net, Owner, All, m)
    BY <1>1, <1>3
  <2> HIDE DEF stop
  <2>2. MessageOK(w, owner', faults', m)
    BY <1>3, <2>1, SignedPing
  <2> HIDE DEF m
  <2> QED  BY <1>5, <2>1, <2>2, SendOK
<1> QED  BY <1>1, <1>4, <1>5, <1>6, NextState DEF Inv

\* StopMasterNode: the own entry goes and the masternode is not up any more.
LEMMA StopOK ==
  ASSUME NEW w \in Nat, Inv(w), StopMasterNode
  PROVE  Inv(w)'
<1>1. /\ owner' = [owner EXCEPT !.running = FALSE, !.pinged = TRUE, !.own = NoEntry, !.up = 0]
      /\ net' = Send(net, Owner, All, Dseep(owner.address, [age |-> 0, stop |-> TRUE]))
      /\ UNCHANGED <<list, spent, asked, synced, faults>>
  BY DEF StopMasterNode
<1>2. owner \in Owners /\ w <= owner.no + 1
  BY DEF Inv, OwnerOK
<1>3. /\ owner' \in Owners /\ owner'.no = owner.no /\ owner'.address = owner.address
      /\ owner'.up = 0 /\ owner'.own = NoEntry /\ owner'.running = FALSE
  <2>1. 0 \in 0 .. Settled
    BY AgesAre
  <2> QED  BY <1>1, <1>2, <2>1 DEF Owners
<1>4. OwnerOK(w, owner')
  BY <1>2, <1>3 DEF OwnerOK
<1>5. ListsOK(w, owner', faults', list') /\ NetOK(w, owner', faults', net)
  <2>1. faults \in Nat /\ faults' = faults /\ list' = list
    BY <1>1, Bounds DEF Inv
  <2> QED  BY <1>2, <1>3, <2>1, Later DEF Inv
<1>6. NetOK(w, owner', faults', net')
  <2> DEFINE stop == TRUE
             m == Dseep(owner'.address, [age |-> 0, stop |-> stop])
  <2>1. stop \in BOOLEAN /\ net' = Send(net, Owner, All, m)
    BY <1>1, <1>3
  <2> HIDE DEF stop
  <2>2. MessageOK(w, owner', faults', m)
    BY <1>3, <2>1, SignedPing
  <2> HIDE DEF m
  <2> QED  BY <1>5, <2>1, <2>2, SendOK
<1> QED  BY <1>1, <1>4, <1>5, <1>6, NextState DEF Inv

\* A spent collateral changes no list by itself.
LEMMA SpendOK ==
  ASSUME NEW w \in Nat, Inv(w), Spend
  PROVE  Inv(w)'
<1>1. Fault(TRUE) /\ spent' = TRUE /\ UNCHANGED <<list, owner, net, asked, synced>>
  BY DEF Spend
<1>2. faults \in Nat /\ faults' \in 0 .. MaxFaults /\ faults' \in Nat /\ faults <= faults'
  BY <1>1, FaultCounts DEF Inv
<1>3. owner \in Owners /\ OwnerOK(w, owner)
  BY DEF Inv, OwnerOK
<1>4. ListsOK(w, owner', faults', list') /\ NetOK(w, owner', faults', net')
  BY <1>1, <1>2, <1>3, MoreFaults DEF Inv
<1> QED  BY <1>1, <1>2, <1>3, <1>4, NextState DEF Inv

\* The own announcement comes back: what replaces the own entry is the last one.
LEMMA ReceiveOwnOK ==
  ASSUME NEW w \in Nat, Inv(w), NEW l \in Links, net[l] # <<>>, ReceiveOwn(l, Head(net[l]))
  PROVE  Inv(w)'
<1> DEFINE m == Head(net[l])
<1>1. /\ owner' = [owner EXCEPT !.own =
           IF m.type = "dsee" /\ @ # NoEntry /\ m.no > @.no /\ m.address # @.address
           THEN [no |-> m.no, address |-> m.address] ELSE @]
      /\ net' = Taken(l) /\ UNCHANGED <<list, spent, asked, synced, faults>>
  BY DEF ReceiveOwn, Drop
<1>2. NetOK(w, owner, faults, Taken(l)) /\ MessageOK(w, owner, faults, m)
  BY TakenOK DEF Inv
<1> HIDE DEF m
<1>3. owner \in Owners /\ OwnerOK(w, owner)
  BY DEF Inv, OwnerOK
<1>4. CASE owner' = owner
  BY <1>1, <1>2, <1>3, <1>4, NextState DEF Inv
<1>5. CASE /\ m.type = "dsee" /\ owner.own # NoEntry /\ m.no > owner.own.no
           /\ owner' = [owner EXCEPT !.own = [no |-> m.no, address |-> m.address]]
  <2>1. m \in Messages /\ Signed(w, owner, m.no, m.address)
    BY <1>2, <1>5 DEF MessageOK
  <2>2. m.no \in 1 .. MaxEntries /\ m.address \in Addresses
    BY <1>5, <2>1, MessageIs
  <2>3. owner.own.no \in 1 .. MaxEntries
    BY <1>3, <1>5 DEF Owners
  <2>4. w > 0 /\ m.address # owner.address => owner.up = 0
    <3>1. owner.own.no < m.no /\ owner.own.no \in Nat /\ m.no \in Nat
      BY <1>5, <2>2, <2>3, Bounds
    <3>2. Signed(w, owner, owner.own.no, owner.own.address)
      BY <1>3, <1>5 DEF OwnerOK
    <3>3. w > 0 /\ owner.own.address = owner.address => m.address = owner.address
      BY <2>1, <3>1, <3>2, StaysPresent
    <3> QED  BY <1>3, <1>5, <3>3 DEF OwnerOK
  <2>5. /\ owner' \in Owners /\ owner'.no = owner.no /\ owner'.address = owner.address
        /\ owner'.up = owner.up /\ owner'.own = [no |-> m.no, address |-> m.address]
        /\ owner'.running = owner.running
    BY <1>3, <1>5, <2>2 DEF Owners
  <2>6. owner'.own # NoEntry /\ owner'.own.no = m.no /\ owner'.own.address = m.address
    <3>1. [no |-> m.no, address |-> m.address] \in [no : Nat, address : Addresses]
      BY <2>2, Bounds
    <3> QED  BY <2>5, <3>1, ListAssumption
  <2>7. OwnerOK(w, owner')
    BY <1>3, <1>5, <2>1, <2>4, <2>5, <2>6 DEF OwnerOK, Signed
  <2>8. ListsOK(w, owner', faults', list') /\ NetOK(w, owner', faults', net')
    <3>1. faults \in Nat /\ faults' = faults /\ list' = list /\ net' = Taken(l)
      BY <1>1, Bounds DEF Inv
    <3>2. ListsOK(w, owner, faults, list)
      BY DEF Inv
    <3>3. faults <= faults
      BY <3>1
    <3> QED  BY <1>2, <1>3, <2>5, <3>1, <3>2, <3>3, Later
  <2> QED  BY <1>1, <2>7, <2>8, NextState DEF Inv
<1>6. owner' = owner \/ /\ m.type = "dsee" /\ owner.own # NoEntry /\ m.no > owner.own.no
                        /\ owner' = [owner EXCEPT !.own = [no |-> m.no, address |-> m.address]]
  <2>1. CASE /\ m.type = "dsee" /\ owner.own # NoEntry
             /\ m.no > owner.own.no /\ m.address # owner.own.address
    BY <1>1, <2>1
  <2>2. CASE ~(/\ m.type = "dsee" /\ owner.own # NoEntry
               /\ m.no > owner.own.no /\ m.address # owner.own.address)
    <3>1. owner' = [owner EXCEPT !.own = owner.own]
      BY <1>1, <2>2
    <3> QED  BY <1>3, <3>1 DEF Owners
  <2> QED  BY <2>1, <2>2
<1> QED  BY <1>4, <1>5, <1>6

\* A message is taken, perhaps relayed, and perhaps makes an entry.
LEMMA ReceivedOK ==
  ASSUME NEW w \in Nat, Inv(w), NEW l \in Links, net[l] # <<>>,
         UNCHANGED <<owner, spent, asked, synced>>,
         faults' \in 0 .. MaxFaults, faults <= faults',
         \/ list' = list
         \/ \E n \in Nodes : \E u : EntryOK(w, owner, faults', u) /\ list' = [list EXCEPT ![n] = u],
         Drop(l) \/ \E to : Relay(l, to, Head(net[l]))
  PROVE  Inv(w)'
<1>1. owner \in Owners /\ OwnerOK(w, owner) /\ faults \in Nat /\ faults' \in Nat
  BY Bounds DEF Inv, OwnerOK
<1>2. ListsOK(w, owner, faults', list)
  BY <1>1, MoreFaults DEF Inv
<1>3. NetOK(w, owner, faults', Taken(l)) /\ MessageOK(w, owner, faults', Head(net[l]))
  <2>1. NetOK(w, owner, faults, Taken(l)) /\ MessageOK(w, owner, faults, Head(net[l]))
    BY TakenOK DEF Inv
  <2> QED  BY <1>1, <2>1, Later
<1>4. ListsOK(w, owner, faults', list')
  <2>1. CASE list' = list
    BY <1>2, <2>1
  <2>2. CASE \E n \in Nodes : \E u : EntryOK(w, owner, faults', u) /\ list' = [list EXCEPT ![n] = u]
    <3>1. PICK n \in Nodes :
            \E u : EntryOK(w, owner, faults', u) /\ list' = [list EXCEPT ![n] = u]
      BY <2>2
    <3>2. PICK u : EntryOK(w, owner, faults', u) /\ list' = [list EXCEPT ![n] = u]
      BY <3>1
    <3> QED  BY <1>2, <3>2, StoreOK
  <2> QED  BY <2>1, <2>2
<1>5. NetOK(w, owner, faults', net')
  <2>1. CASE Drop(l)
    BY <1>3, <2>1 DEF Drop
  <2>2. CASE \E to : Relay(l, to, Head(net[l]))
    <3>1. PICK to : net' = Send(Taken(l), l[2], to, Head(net[l]))
      BY <2>2 DEF Relay
    <3> QED  BY <1>3, <3>1, SendOK
  <2> QED  BY <2>1, <2>2
<1> QED  BY <1>1, <1>4, <1>5, NextState DEF Inv

\* "dsee" for an entry of the list: what it says now is signed later.
LEMMA UpdateEntryOK ==
  ASSUME NEW w \in Nat, Inv(w), NEW l \in Links, net[l] # <<>>, l[2] \in Nodes,
         Head(net[l]).type = "dsee",
         UpdateEntry(l, l[2], Head(net[l])), UNCHANGED <<owner, spent, asked, synced>>
  PROVE  Inv(w)'
<1> DEFINE m == Head(net[l])
           n == l[2]
           e == list[n]
<1>1. MessageOK(w, owner, faults, m) /\ m.type = "dsee"
  BY TakenOK DEF Inv
<1>2. n \in Nodes /\ Listed(n) /\ EntryOK(w, owner, faults, e)
  BY DEF UpdateEntry, Listed, Inv, ListsOK
<1>3. faults \in Nat /\ faults \in 0 .. MaxFaults /\ owner \in Owners
  BY Bounds DEF Inv, OwnerOK
<1>4. CASE Drop(l) /\ UNCHANGED <<list, faults>>
  BY <1>3, <1>4, ReceivedOK
<1>5. ASSUME NEW busy \in BOOLEAN, NEW open \in BOOLEAN, e.no < m.no,
             Fault(busy \/ ~open),
             list' = [list EXCEPT ![n] = Check([e EXCEPT !.no = m.no, !.address = m.address,
                                                         !.seen = 0, !.open = open], busy)],
             Drop(l) \/ Relay(l, All, m)
      PROVE  Inv(w)'
  <2> DEFINE u == [e EXCEPT !.no = m.no, !.address = m.address, !.seen = 0, !.open = open]
             happens == busy \/ ~open
  <2>1. faults' \in 0 .. MaxFaults /\ faults' \in Nat /\ faults <= faults'
    <3>1. happens \in BOOLEAN /\ Fault(happens)
      BY <1>5
    <3> HIDE DEF happens
    <3> QED  BY <1>3, <3>1, FaultCounts
  <2>2. e \in Entries /\ e.no \in 1 .. MaxEntries
    BY <1>2, EntryFields DEF EntryOK
  <2>3. m.no \in 1 .. MaxEntries /\ m.address \in Addresses /\ Signed(w, owner, m.no, m.address)
    BY <1>1, MessageIs DEF MessageOK
  <2>4. 0 \in Ages
    BY AgesAre
  <2> HIDE DEF m
  <2>5. u \in Entries /\ u.no = m.no /\ u.address = m.address /\ u.seen = 0
    BY <2>2, <2>3, <2>4 DEF Entries
  <2>6. Faded(w, owner, faults', m.address, Standing(m.no, 0))
    <3>1. e.no \in Nat /\ m.no \in Nat /\ e.seen \in Ages
      BY <1>2, <2>2, <2>3, EntryFields, Bounds
    <3>2. w > 0 /\ e.address = owner.address => m.address = owner.address
      BY <1>2, <1>5, <2>3, <3>1, StaysPresent DEF EntryOK
    <3>3. w > 0 /\ e.address # owner.address => owner.up <= faults + Standing(e.no, e.seen)
      BY <1>2 DEF EntryOK, Faded
    <3>4. Standing(e.no, e.seen) \in Nat /\ Standing(e.no, e.seen) <= Standing(m.no, 0)
      BY <1>5, <2>2, <2>3, <3>1, StandingIs
    <3>5. Standing(m.no, 0) \in Nat
      BY <2>3, <2>4, StandingIs
    <3>6. owner.up \in Nat
      BY <1>3, AgesAre DEF Owners
    <3> HIDE DEF e
    <3>7. faults + Standing(e.no, e.seen) <= faults' + Standing(m.no, 0)
      BY <1>3, <2>1, <3>4, <3>5
    <3> QED  BY <1>3, <2>1, <3>2, <3>3, <3>4, <3>5, <3>6, <3>7 DEF Faded
  <2> HIDE DEF u, e
  <2>7. EntryOK(w, owner, faults', Check(u, busy))
    BY <2>3, <2>4, <2>5, <2>6, <1>5, CheckOK DEF EntryOK
  <2>8. list' = [list EXCEPT ![n] = Check(u, busy)]
    BY <1>5 DEF u, e
  <2> HIDE DEF n
  <2>9. Drop(l) \/ \E to : Relay(l, to, Head(net[l]))
    BY <1>5 DEF m
  <2> QED  BY <1>2, <2>1, <2>7, <2>8, <2>9, ReceivedOK
<1>6. \/ Drop(l) /\ UNCHANGED <<list, faults>>
      \/ \E busy, open \in BOOLEAN :
           /\ e.no < m.no
           /\ Fault(busy \/ ~open)
           /\ list' = [list EXCEPT ![n] = Check([e EXCEPT !.no = m.no, !.address = m.address,
                                                         !.seen = 0, !.open = open], busy)]
           /\ Drop(l) \/ Relay(l, All, m)
  BY Zenon DEF UpdateEntry
<1> HIDE DEF e, n, m
<1>7. CASE \E busy, open \in BOOLEAN :
             /\ e.no < m.no
             /\ Fault(busy \/ ~open)
             /\ list' = [list EXCEPT ![n] = Check([e EXCEPT !.no = m.no, !.address = m.address,
                                                           !.seen = 0, !.open = open], busy)]
             /\ Drop(l) \/ Relay(l, All, m)
  BY <1>5, <1>7, Zenon
<1> QED  BY <1>4, <1>6, <1>7

\* "dsee" for a new entry: it is as old as the sender says.
LEMMA AddEntryOK ==
  ASSUME NEW w \in Nat, Inv(w), NEW l \in Links, net[l] # <<>>, l[2] \in Nodes,
         Head(net[l]).type = "dsee",
         AddEntry(l, l[2], Head(net[l])), UNCHANGED <<owner, spent, asked, synced>>
  PROVE  Inv(w)'
<1> DEFINE m == Head(net[l])
           n == l[2]
<1>1. MessageOK(w, owner, faults, m) /\ m.type = "dsee" /\ n \in Nodes
  BY TakenOK DEF Inv
<1>2. faults \in Nat /\ faults \in 0 .. MaxFaults /\ owner \in Owners
  BY Bounds DEF Inv, OwnerOK
<1>3. PICK busy \in BOOLEAN :
        /\ Fault(busy)
        /\ IF busy \/ spent THEN Drop(l) /\ UNCHANGED list
           ELSE /\ list' = [list EXCEPT ![n] = NewEntry(m)]
                /\ IF m.live THEN Relay(l, All, m) ELSE Drop(l)
  BY Zenon DEF AddEntry
<1>4. faults' \in 0 .. MaxFaults /\ faults' \in Nat /\ faults <= faults'
  BY <1>2, <1>3, FaultCounts
<1>5. MessageOK(w, owner, faults', m)
  BY <1>1, <1>2, <1>4, Later
<1>6. EntryOK(w, owner, faults', NewEntry(m))
  <2>1. /\ m.no \in 1 .. MaxEntries /\ m.address \in Addresses /\ m.seen \in Ages
        /\ Signed(w, owner, m.no, m.address)
        /\ Faded(w, owner, faults', m.address, Standing(m.no, m.seen))
    BY <1>1, <1>5, MessageIs DEF MessageOK
  <2> HIDE DEF m
  <2>2. Rest(m.seen) \in Ages /\ Rest(Rest(m.seen)) = Rest(m.seen)
    BY <2>1, AgesAre, Bounds DEF Rest
  <2>3. NewEntry(m) = [no |-> m.no, address |-> m.address, seen |-> Rest(m.seen),
                       lastDseep |-> NoPing, state |-> "enabled", open |-> TRUE]
    BY DEF NewEntry, Rest
  <2>4. NoPing \in Pings
    BY Bounds DEF NoPing, Pings
  <2>5. NewEntry(m) \in Entries
    BY <2>1, <2>2, <2>3, <2>4 DEF Entries, States
  <2>6. NewEntry(m).no = m.no /\ NewEntry(m).address = m.address /\ NewEntry(m).seen = Rest(m.seen)
    BY <2>3
  <2>7. Standing(m.no, Rest(m.seen)) = Standing(m.no, m.seen)
    BY <2>2 DEF Standing
  <2> QED  BY <2>1, <2>5, <2>6, <2>7 DEF EntryOK
<1> HIDE DEF n
<1>7. Drop(l) \/ \E to : Relay(l, to, Head(net[l]))
  BY <1>3, Zenon
<1> HIDE DEF m
<1>8. list' = list \/ list' = [list EXCEPT ![n] = NewEntry(m)]
  BY <1>3, Zenon
<1> QED  BY <1>1, <1>4, <1>6, <1>7, <1>8, ReceivedOK

\* "dseep" for an entry: a ping for another address than the present one came
\* late, and says no more about the entry than this.
LEMMA TakePingOK ==
  ASSUME NEW w \in Nat, Inv(w), NEW l \in Links, net[l] # <<>>, l[2] \in Nodes,
         Head(net[l]).type = "dseep",
         TakePing(l, l[2], Head(net[l])), UNCHANGED <<owner, spent, synced>>
  PROVE  Inv(w)'
<1> DEFINE m == Head(net[l])
           n == l[2]
           e == list[n]
           p == [e EXCEPT !.lastDseep = m.ping]
<1>1. MessageOK(w, owner, faults, m) /\ m.type = "dseep" /\ n \in Nodes
  BY TakenOK DEF Inv
<1>2. Listed(n) /\ EntryOK(w, owner, faults, e) /\ UNCHANGED asked
  BY Zenon DEF TakePing, Listed, Inv, ListsOK
<1>3. faults \in Nat /\ faults \in 0 .. MaxFaults /\ owner \in Owners
  BY Bounds DEF Inv, OwnerOK
<1>4. m.ping \in Pings /\ Faded(w, owner, faults, m.address, 0)
  BY <1>1, MessageIs DEF MessageOK
<1>5. \/ Drop(l) /\ UNCHANGED <<list, faults>>
      \/ /\ m.address = e.address
         /\ \/ list' = [list EXCEPT ![n] = p] /\ Drop(l) /\ UNCHANGED faults
            \/ /\ list' = [list EXCEPT ![n] = [p EXCEPT !.seen = Never]]
               /\ Relay(l, Nodes, m) /\ UNCHANGED faults
            \/ \E busy \in BOOLEAN :
                 /\ Fault(busy)
                 /\ list' = [list EXCEPT ![n] = Check([p EXCEPT !.seen = 0], busy)]
                 /\ Drop(l) \/ Relay(l, Nodes, m)
  BY Zenon DEF TakePing
<1>6. /\ e \in Entries /\ Signed(w, owner, e.no, e.address)
      /\ Faded(w, owner, faults, e.address, Standing(e.no, e.seen))
  BY <1>2 DEF EntryOK
<1> HIDE DEF e, n, m
<1>7. p \in Entries /\ p.no = e.no /\ p.address = e.address /\ p.seen = e.seen
  BY <1>4, <1>6 DEF Entries
<1>8. EntryOK(w, owner, faults, p)
  BY <1>6, <1>7 DEF EntryOK
<1> HIDE DEF p
<1>9. 0 \in Ages /\ Never \in Ages
  BY AgesAre, Bounds
<1>10. ASSUME m.address = e.address, NEW seen \in {0, Never}
       PROVE  EntryOK(w, owner, faults, [p EXCEPT !.seen = seen])
  <2>1. /\ [p EXCEPT !.seen = seen] \in Entries /\ [p EXCEPT !.seen = seen].no = e.no
        /\ [p EXCEPT !.seen = seen].address = e.address /\ [p EXCEPT !.seen = seen].seen = seen
    BY <1>7, <1>9 DEF Entries
  <2>2. Faded(w, owner, faults, e.address, Standing(e.no, seen))
    <3>1. e.no \in 1 .. MaxEntries /\ seen \in Ages
      BY <1>6, <1>9, EntryFields
    <3>2. Standing(e.no, seen) \in Nat
      BY <3>1, StandingIs
    <3>3. owner.up \in Nat
      BY <1>3, AgesAre DEF Owners
    <3> QED  BY <1>3, <1>4, <1>10, <3>2, <3>3 DEF Faded
  <2> QED  BY <1>6, <2>1, <2>2 DEF EntryOK
<1>11. \A to : Relay(l, to, m) => Relay(l, to, Head(net[l]))
  BY DEF m
<1>12. faults <= faults
  BY <1>3
<1>13. CASE Drop(l) /\ UNCHANGED <<list, faults>>
  BY <1>2, <1>3, <1>12, <1>13, ReceivedOK
<1>14. CASE list' = [list EXCEPT ![n] = p] /\ Drop(l) /\ UNCHANGED faults
  BY <1>1, <1>2, <1>3, <1>8, <1>12, <1>14, ReceivedOK
<1>15. CASE /\ m.address = e.address /\ list' = [list EXCEPT ![n] = [p EXCEPT !.seen = Never]]
            /\ Relay(l, Nodes, m) /\ UNCHANGED faults
  BY <1>1, <1>2, <1>3, <1>10, <1>11, <1>12, <1>15, ReceivedOK
<1>16. ASSUME m.address = e.address, NEW busy \in BOOLEAN, Fault(busy),
              list' = [list EXCEPT ![n] = Check([p EXCEPT !.seen = 0], busy)],
              Drop(l) \/ Relay(l, Nodes, m)
       PROVE  Inv(w)'
  <2>1. faults' \in 0 .. MaxFaults /\ faults' \in Nat /\ faults <= faults'
    BY <1>3, <1>16, FaultCounts
  <2> DEFINE q == [p EXCEPT !.seen = 0]
  <2>2. EntryOK(w, owner, faults, q)
    BY <1>10, <1>16
  <2>3. list' = [list EXCEPT ![n] = Check(q, busy)]
    BY <1>16
  <2> HIDE DEF q
  <2>4. EntryOK(w, owner, faults', Check(q, busy))
    BY <1>3, <2>1, <2>2, CheckOK, Later
  <2>5. Drop(l) \/ \E to : Relay(l, to, Head(net[l]))
    BY <1>11, <1>16
  <2> QED  BY <1>1, <1>2, <2>1, <2>3, <2>4, <2>5, ReceivedOK
<1>17. CASE /\ m.address = e.address
            /\ \E busy \in BOOLEAN :
                 /\ Fault(busy)
                 /\ list' = [list EXCEPT ![n] = Check([p EXCEPT !.seen = 0], busy)]
                 /\ Drop(l) \/ Relay(l, Nodes, m)
  BY <1>16, <1>17, Zenon
<1> QED  BY <1>5, <1>13, <1>14, <1>15, <1>17, Zenon DEF p

\* "dseep" without an entry: the sender answers, or nothing happens.
LEMMA AskSenderOK ==
  ASSUME NEW w \in Nat, Inv(w), NEW l \in Links, net[l] # <<>>, l[2] \in Nodes,
         AskSender(l, l[2], Head(net[l])), UNCHANGED <<owner, spent, synced>>
  PROVE  Inv(w)'
<1>1. /\ UNCHANGED <<list, faults>> /\ asked' \subseteq Nodes
      /\ net' = Taken(l) \/ net' = Answer(Taken(l), l[1], l[2])
  BY DEF AskSender, Drop, Inv
<1>2. NetOK(w, owner, faults, Taken(l)) /\ l[1] \in All
  BY TakenOK, LinkEnds DEF Inv
<1>3. NetOK(w, owner, faults, net')
  BY <1>1, <1>2, AnswerOK
<1> QED  BY <1>1, <1>3, NextState DEF Inv

\* DsegUpdate: the peer answers.
LEMMA ConnectOK ==
  ASSUME NEW w \in Nat, Inv(w), NEW n \in Nodes, NEW p \in All, Connect(n, p)
  PROVE  Inv(w)'
<1> DEFINE happens == Listed(n)
<1>1. happens \in BOOLEAN /\ Fault(happens)
  BY DEF Connect, Listed
<1> HIDE DEF happens
<1>2. faults \in Nat /\ faults' \in 0 .. MaxFaults /\ faults' \in Nat /\ faults <= faults'
  BY <1>1, FaultCounts DEF Inv
<1>3. /\ net' = Answer(net, p, n) /\ UNCHANGED <<list, owner, spent, asked>>
      /\ synced' \subseteq Nodes
  BY DEF Connect, Inv
<1>4. NetOK(w, owner, faults, Answer(net, p, n)) /\ owner \in Owners /\ OwnerOK(w, owner)
  BY AnswerOK DEF Inv, OwnerOK
<1>5. ListsOK(w, owner', faults', list') /\ NetOK(w, owner', faults', net')
  BY <1>2, <1>3, <1>4, MoreFaults DEF Inv
<1> QED  BY <1>2, <1>3, <1>4, <1>5, NextState DEF Inv

\* CheckAndRemove ends an entry or changes its state.
LEMMA CheckAndRemoveOK ==
  ASSUME NEW w \in Nat, Inv(w), NEW n \in Nodes, CheckAndRemove(n)
  PROVE  Inv(w)'
<1>1. /\ list' = [list EXCEPT ![n] = Swept(list[n])] /\ Listed(n)
      /\ UNCHANGED <<owner, spent, net, asked, synced, faults>>
  BY DEF CheckAndRemove
<1>2. EntryOK(w, owner, faults, list[n])
  BY <1>1 DEF Inv, ListsOK, Listed
<1> DEFINE busy == FALSE
<1>3. Swept(list[n]) = NoEntry \/ Swept(list[n]) = Check(list[n], busy)
  BY DEF Swept
<1>4. busy \in BOOLEAN
  OBVIOUS
<1> HIDE DEF busy
<1>5. Swept(list[n]) = NoEntry \/ EntryOK(w, owner, faults, Swept(list[n]))
  BY <1>2, <1>3, <1>4, CheckOK
<1>6. ListsOK(w, owner, faults, list')
  BY <1>1, <1>5, StoreOK DEF Inv
<1> QED  BY <1>1, <1>6, NextState DEF Inv

\* A restart forgets, and with the owner's the masternode is down.
LEMMA RestartOK ==
  ASSUME NEW w \in Nat, Inv(w), NEW n \in All, Restart(n)
  PROVE  Inv(w)'
<1>1. /\ Fault(TRUE) /\ UNCHANGED <<spent, asked, synced>>
      /\ net' = [l \in Links |-> IF n \in {l[1], l[2]} THEN <<>> ELSE net[l]]
  BY DEF Restart
<1>2. faults \in Nat /\ faults' \in 0 .. MaxFaults /\ faults' \in Nat /\ faults <= faults'
  BY <1>1, FaultCounts DEF Inv
<1>3. owner \in Owners /\ OwnerOK(w, owner)
  BY DEF Inv, OwnerOK
<1>4. NetOK(w, owner, faults, net')
  <2>1. net \in Networks
    BY DEF Inv, NetOK
  <2>2. ASSUME NEW l \in Links PROVE net'[l] = <<>> \/ net'[l] = net[l]
    BY <1>1
  <2>3. net' \in Networks
    <3>1. <<>> \in Seq(Messages)
      BY EmptySeq
    <3> QED  BY <1>1, <2>1, <3>1 DEF Networks
  <2>4. DOMAIN <<>> = {}
    BY LenProperties, EmptySeq
  <2>5. \A m : Carries(net', m) => Carries(net, m)
    BY <2>2, <2>4 DEF Carries
  <2> QED  BY <2>3, <2>5 DEF Inv, NetOK
<1>5. CASE n = Owner
  <2>1. owner' = [owner EXCEPT !.running = FALSE, !.own = NoEntry, !.up = 0] /\ list' = list
    BY <1>5 DEF Restart
  <2>2. 0 \in 0 .. Settled
    BY AgesAre
  <2>3. /\ owner' \in Owners /\ owner'.no = owner.no /\ owner'.address = owner.address
        /\ owner'.up = 0 /\ owner'.own = NoEntry /\ owner'.running = FALSE
    BY <1>3, <2>1, <2>2 DEF Owners
  <2>4. OwnerOK(w, owner')
    BY <1>3, <2>3 DEF OwnerOK
  <2>5. ListsOK(w, owner', faults', list') /\ NetOK(w, owner', faults', net')
    BY <1>2, <1>3, <1>4, <2>1, <2>3, Later DEF Inv
  <2> QED  BY <1>1, <1>2, <2>4, <2>5, NextState DEF Inv
<1>6. CASE n # Owner
  <2>1. list' = [list EXCEPT ![n] = NoEntry] /\ owner' = owner /\ n \in Nodes
    BY <1>6 DEF Restart, All
  <2>2. ListsOK(w, owner, faults', list) /\ NetOK(w, owner, faults', net')
    BY <1>2, <1>3, <1>4, MoreFaults DEF Inv
  <2>3. ListsOK(w, owner, faults', list')
    BY <2>1, <2>2, StoreOK
  <2> QED  BY <1>1, <1>2, <1>3, <2>1, <2>2, <2>3, NextState DEF Inv
<1> QED  BY <1>5, <1>6

\* The messages on their way are counted.
LEMMA InFlightCounts ==
  ASSUME net \in Networks
  PROVE  InFlight \in Nat /\ \A m : Carries(net, m) => InFlight >= 1
<1> DEFINE Slots(l) == {l} \X DOMAIN net[l]
           Sets == {Slots(l) : l \in Links}
           f == [l \in Links |-> Slots(l)]
<1>1. IsFiniteSet(Links)
  BY ListAssumption
<1>2. ASSUME NEW l \in Links PROVE IsFiniteSet(Slots(l))
  <2>1. net[l] \in Seq(Messages)
    BY DEF Networks
  <2>2. DOMAIN net[l] = 1 .. Len(net[l]) /\ Len(net[l]) \in Nat
    BY <2>1, LenProperties
  <2>3. IsFiniteSet(1 .. Len(net[l]))
    BY <2>2, FS_Interval
  <2>4. IsFiniteSet({l})
    BY FS_Singleton
  <2> QED  BY <2>2, <2>3, <2>4, FS_Product
<1>3. IsFiniteSet(Sets)
  <2>1. f \in Surjection(Links, Sets)
    BY DEF Surjection
  <2> QED  BY <1>1, <2>1, FS_Surjection
<1>4. \A T \in Sets : IsFiniteSet(T)
  BY <1>2
<1>5. IsFiniteSet(UNION Sets)
  <2> HIDE DEF Sets
  <2> QED  BY <1>3, <1>4, FS_UNION
<1>6. InFlight = Cardinality(UNION Sets)
  BY DEF InFlight
<1>7. ASSUME NEW m, Carries(net, m) PROVE UNION Sets # {}
  <2>1. PICK l \in Links : \E i \in DOMAIN net[l] : net[l][i] = m
    BY <1>7 DEF Carries
  <2>2. PICK i \in DOMAIN net[l] : net[l][i] = m
    BY <2>1
  <2>3. <<l, i>> \in Slots(l) /\ Slots(l) \in Sets
    OBVIOUS
  <2> QED  BY <2>3
<1>8. ASSUME UNION Sets # {} PROVE Cardinality(UNION Sets) # 0
  <2> HIDE DEF Sets
  <2> QED  BY <1>5, <1>8, FS_EmptySet
<1>9. Cardinality(UNION Sets) \in Nat
  <2> HIDE DEF Sets
  <2> QED  BY <1>5, FS_CardinalityType
<1> HIDE DEF Sets
<1> QED  BY <1>6, <1>7, <1>8, <1>9

\* What survives a tick in a list is a tick older, and was not as if never seen.
LEMMA SweptAges ==
  ASSUME NEW e \in Entries, Swept([e EXCEPT !.seen = Older(@, Removal),
                                            !.lastDseep.age = Older(@, PingWindow)]) # NoEntry
  PROVE  LET s == Swept([e EXCEPT !.seen = Older(@, Removal),
                                  !.lastDseep.age = Older(@, PingWindow)])
         IN /\ s \in Entries /\ s.no = e.no /\ s.address = e.address
            /\ Rest(s.seen) = Rest(e.seen) + 1
<1> DEFINE u == [e EXCEPT !.seen = Older(@, Removal), !.lastDseep.age = Older(@, PingWindow)]
           busy == FALSE
<1>1. e.seen \in Ages /\ e.lastDseep \in Pings
  BY EntryFields
<1>2. Older(e.seen, Removal) \in Ages
  BY <1>1, AgesAre, Bounds DEF Older
<1>3. [e.lastDseep EXCEPT !.age = Older(@, PingWindow)] \in Pings
  <2>1. e.lastDseep.age \in 0 .. PingWindow
    BY <1>1 DEF Pings
  <2>2. Older(e.lastDseep.age, PingWindow) \in 0 .. PingWindow
    BY <2>1, Bounds DEF Older
  <2> QED  BY <1>1, <2>2 DEF Pings
<1>4. u = [e EXCEPT !.seen = Older(e.seen, Removal),
                    !.lastDseep = [e.lastDseep EXCEPT !.age = Older(@, PingWindow)]]
  BY DEF Entries
<1>5. u \in Entries /\ u.no = e.no /\ u.address = e.address /\ u.seen = Older(e.seen, Removal)
  <2> DEFINE ping == [e.lastDseep EXCEPT !.age = Older(@, PingWindow)]
             seen == Older(e.seen, Removal)
  <2>1. ping \in Pings /\ seen \in Ages /\ u = [e EXCEPT !.seen = seen, !.lastDseep = ping]
    BY <1>2, <1>3, <1>4
  <2> HIDE DEF ping, u
  <2>2. u.seen = Older(e.seen, Removal)
    BY <2>1 DEF Entries
  <2> HIDE DEF seen
  <2> QED  BY <2>1, <2>2 DEF Entries
<1> HIDE DEF u
<1>6. Swept(u) = Check(u, busy) /\ Check(u, busy).state \notin {"remove", "vin_spent"}
  BY DEF Swept, u
<1>7. busy \in BOOLEAN
  OBVIOUS
<1>8. UpdatedWithin(u, Removal)
  <2>1. CASE u.state = "vin_spent"
    BY <1>6, <2>1 DEF Check
  <2>2. CASE u.state # "vin_spent" /\ ~UpdatedWithin(u, Removal)
    <3>1. Check(u, busy) = [u EXCEPT !.state = "remove"]
      BY <2>2 DEF Check
    <3>2. Check(u, busy).state = "remove"
      BY <1>5, <3>1 DEF Entries
    <3> QED  BY <1>6, <3>2
  <2> QED  BY <2>1, <2>2
<1> HIDE DEF busy
<1>9. /\ Swept(u) \in Entries /\ Swept(u).no = e.no /\ Swept(u).address = e.address
      /\ Swept(u).seen = Older(e.seen, Removal)
  BY <1>5, <1>6, <1>7, CheckKeeps
<1>10. Rest(Older(e.seen, Removal)) = Rest(e.seen) + 1
  <2>1. Older(e.seen, Removal) < Removal
    BY <1>5, <1>8 DEF UpdatedWithin
  <2>2. e.seen \in Nat /\ e.seen <= Removal + 1
    BY <1>1, AgesAre, Bounds
  <2>3. e.seen < Removal /\ Older(e.seen, Removal) = e.seen + 1
    BY <2>1, <2>2, Bounds DEF Older
  <2> QED  BY <2>2, <2>3, Bounds DEF Rest, Never
<1> QED  BY <1>9, <1>10 DEF u

\* A message that is late by a tick is no younger than before.
LEMMA AgedMessage ==
  ASSUME NEW m \in Messages
  PROVE  /\ Aged(m) \in Messages /\ Aged(m).type = m.type /\ Aged(m).address = m.address
         /\ m.type = "dsee" => Aged(m).no = m.no /\ Rest(Aged(m).seen) >= Rest(m.seen)
<1>1. CASE m.type = "dsee"
  <2>1. /\ m.no \in 1 .. MaxEntries /\ m.address \in Addresses /\ m.seen \in Ages
        /\ m.live \in BOOLEAN /\ m = Dsee(m.no, m.address, m.seen, m.live)
    BY <1>1, MessageIs
  <2> DEFINE seen == Older(m.seen, Removal)
             no == m.no
             address == m.address
             live == m.live
  <2>2. Aged(m) = Dsee(no, address, seen, live)
    <3>1. Aged(m) = [m EXCEPT !.seen = Older(@, Removal)]
      BY <1>1 DEF Aged
    <3> QED  BY <2>1, <3>1 DEF Dsee
  <2>3. seen \in Ages /\ Rest(seen) >= Rest(m.seen)
    BY <2>1, AgesAre, Bounds DEF Older, Rest
  <2>4. no \in 1 .. MaxEntries /\ address \in Addresses /\ live \in BOOLEAN
    BY <2>1
  <2> HIDE DEF seen, no, address, live
  <2>5. /\ Aged(m) \in Messages /\ Aged(m).type = "dsee" /\ Aged(m).no = no
        /\ Aged(m).address = address /\ Aged(m).seen = seen
    BY <2>2, <2>3, <2>4, DseeFields
  <2> QED  BY <1>1, <2>3, <2>5 DEF no, address
<1>2. CASE m.type = "dseep"
  <2>1. m.address \in Addresses /\ m.ping \in Pings /\ m = Dseep(m.address, m.ping)
    BY <1>2, MessageIs
  <2> DEFINE ping == [m.ping EXCEPT !.age = Older(@, PingWindow)]
             address == m.address
  <2>2. Aged(m) = Dseep(address, ping)
    <3>1. Aged(m) = [m EXCEPT !.ping.age = Older(@, PingWindow)]
      BY <1>2 DEF Aged
    <3> QED  BY <2>1, <3>1 DEF Dseep
  <2>3. ping \in Pings /\ address \in Addresses
    <3>1. m.ping.age \in 0 .. PingWindow
      BY <2>1 DEF Pings
    <3>2. Older(m.ping.age, PingWindow) \in 0 .. PingWindow
      BY <3>1, Bounds DEF Older
    <3> QED  BY <2>1, <3>2 DEF Pings
  <2> HIDE DEF ping, address
  <2>4. Aged(m) \in Messages /\ Aged(m).type = "dseep" /\ Aged(m).address = address
    BY <2>2, <2>3, DseepFields
  <2> QED  BY <1>2, <2>4 DEF address
<1>3. m.type = "dsee" \/ m.type = "dseep"
  BY MessageIs
<1> QED  BY <1>1, <1>2, <1>3

\* A tick: the masternode is up for one more, an entry that says another address
\* is one older, and a message that does was late, which is a fault.
LEMMA TickOK ==
  ASSUME NEW w \in Nat, Inv(w), Tick
  PROVE  Inv(w)'
<1> DEFINE up == IF owner.running /\ OwnerKnows THEN Older(owner.up, Settled) ELSE 0
<1>1. /\ faults' = faults + InFlight /\ faults + InFlight <= MaxFaults
      /\ net' = [l \in Links |-> [i \in DOMAIN net[l] |-> Aged(net[l][i])]]
      /\ list' = [n \in Nodes |->
                    IF Listed(n)
                    THEN Swept([list[n] EXCEPT !.seen = Older(@, Removal),
                                               !.lastDseep.age = Older(@, PingWindow)])
                    ELSE NoEntry]
      /\ owner' = [owner EXCEPT !.pinged = FALSE, !.up = up]
      /\ asked' = {} /\ synced' = {} /\ spent' = spent
  BY DEF Tick
<1>2. /\ owner \in Owners /\ OwnerOK(w, owner) /\ owner.up \in 0 .. Settled /\ net \in Networks
      /\ faults \in Nat
  BY Bounds DEF Inv, OwnerOK, Owners, NetOK
<1>0. faults' = faults + InFlight /\ faults + InFlight <= MaxFaults
  BY <1>1
<1>3. InFlight \in Nat /\ \A m : Carries(net, m) => InFlight >= 1
  BY <1>2, InFlightCounts
<1>4. faults' \in Nat /\ faults' \in 0 .. MaxFaults /\ faults <= faults'
  <2>1. InFlight \in Nat /\ faults \in Nat /\ MaxFaults \in Nat
    BY <1>2, <1>3, Bounds
  <2> QED  BY <1>0, <2>1
<1>5. /\ up \in 0 .. Settled /\ up <= owner.up + 1
      /\ owner.own # NoEntry /\ owner.own.address # owner.address => up = 0
  BY <1>2, AgesAre DEF Older, OwnerKnows
<1> HIDE DEF up
<1>6. /\ owner' \in Owners /\ owner'.no = owner.no /\ owner'.address = owner.address
      /\ owner'.up = up /\ owner'.own = owner.own /\ owner'.running = owner.running
  BY <1>1, <1>2, <1>5 DEF Owners
<1>7. OwnerOK(w, owner')
  BY <1>2, <1>5, <1>6 DEF OwnerOK, Signed
<1>8. ASSUME NEW a, NEW age \in Nat, NEW age2 \in Nat, Faded(w, owner, faults, a, age),
             faults + age + 1 <= faults' + age2
      PROVE  Faded(w, owner', faults', a, age2)
  <2>1. owner.up \in Nat /\ up \in Nat /\ up <= owner.up + 1 /\ faults \in Nat /\ faults' \in Nat
    BY <1>2, <1>4, <1>5, AgesAre
  <2>2. ASSUME owner.up <= faults + age PROVE up <= faults' + age2
    <3> DEFINE u == up
               v == owner.up
               f == faults
               g == faults'
    <3>1. u \in Nat /\ v \in Nat /\ f \in Nat /\ g \in Nat
      BY <2>1
    <3>2. u <= v + 1
      BY <2>1
    <3>3. v <= f + age
      BY <2>2
    <3>4. f + age + 1 <= g + age2
      BY <1>8
    <3> HIDE DEF u, v, f, g
    <3>5. u <= g + age2
      BY <3>1, <3>2, <3>3, <3>4
    <3> QED  BY <3>5 DEF u, g
  <2> QED  BY <1>6, <1>8, <2>2 DEF Faded
<1>9. ListsOK(w, owner', faults', list')
  <2>1. ASSUME NEW n \in Nodes, list'[n] # NoEntry
        PROVE  EntryOK(w, owner', faults', list'[n])
    <3> DEFINE e == list[n]
    <3>1. /\ e # NoEntry
          /\ list'[n] = Swept([e EXCEPT !.seen = Older(@, Removal),
                                        !.lastDseep.age = Older(@, PingWindow)])
      BY <1>1, <2>1 DEF Listed
    <3>2. EntryOK(w, owner, faults, e)
      BY <3>1 DEF Inv, ListsOK
    <3> HIDE DEF e
    <3>3. /\ e \in Entries /\ Signed(w, owner, e.no, e.address)
          /\ Faded(w, owner, faults, e.address, Standing(e.no, e.seen))
      BY <3>2 DEF EntryOK
    <3>4. /\ list'[n] \in Entries /\ list'[n].no = e.no /\ list'[n].address = e.address
          /\ Rest(list'[n].seen) = Rest(e.seen) + 1
      BY <2>1, <3>1, <3>3, SweptAges
    <3>5. /\ Standing(e.no, e.seen) \in Nat
          /\ Standing(e.no, list'[n].seen) = Standing(e.no, e.seen) + 1
      <4> DEFINE seen == list'[n].seen
      <4>1. e.no \in 1 .. MaxEntries /\ e.seen \in Ages /\ seen \in Ages
        BY <3>3, <3>4, EntryFields
      <4>2. Rest(seen) = Rest(e.seen) + 1
        BY <3>4
      <4> HIDE DEF seen
      <4>3. /\ Standing(e.no, e.seen) \in Nat
            /\ Standing(e.no, seen) = Standing(e.no, e.seen) + 1
        BY <4>1, <4>2, StandingIs, StandingGrows
      <4> QED  BY <4>3 DEF seen
    <3>6. Signed(w, owner', e.no, e.address)
      BY <1>6, <3>3 DEF Signed
    <3>7. faults + Standing(e.no, e.seen) + 1 <= faults' + (Standing(e.no, e.seen) + 1)
      BY <1>2, <1>4, <3>5
    <3>8. Faded(w, owner', faults', e.address, Standing(e.no, e.seen) + 1)
      BY <1>8, <3>3, <3>5, <3>7
    <3> QED  BY <3>4, <3>5, <3>6, <3>8 DEF EntryOK
  <2>2. list' \in [Nodes -> Entries \union {NoEntry}]
    <3>1. ASSUME NEW n \in Nodes PROVE list'[n] \in Entries \union {NoEntry}
      BY <2>1 DEF EntryOK
    <3> DEFINE New(n) == IF Listed(n)
                         THEN Swept([list[n] EXCEPT !.seen = Older(@, Removal),
                                                    !.lastDseep.age = Older(@, PingWindow)])
                         ELSE NoEntry
    <3>2. list' = [n \in Nodes |-> New(n)]
      BY <1>1
    <3> HIDE DEF New
    <3>3. list' = [n \in Nodes |-> list'[n]]
      BY <3>2
    <3> QED  BY <3>1, <3>3
  <2> QED  BY <2>1, <2>2 DEF ListsOK
<1>10. NetOK(w, owner', faults', net')
  <2>1. ASSUME NEW l \in Links
        PROVE  /\ net[l] \in Seq(Messages) /\ net'[l] \in Seq(Messages)
               /\ DOMAIN net'[l] = DOMAIN net[l]
               /\ \A i \in DOMAIN net[l] : net[l][i] \in Messages /\ net'[l][i] = Aged(net[l][i])
    <3>1. net[l] \in Seq(Messages)
      BY <1>2 DEF Networks
    <3>2. Len(net[l]) \in Nat /\ DOMAIN net[l] = 1 .. Len(net[l])
      BY <3>1, LenProperties
    <3>3. \A i \in 1 .. Len(net[l]) : net[l][i] \in Messages
      BY <3>1, ElementOfSeq
    <3>4. net'[l] = [i \in 1 .. Len(net[l]) |-> Aged(net[l][i])]
      BY <1>1, <3>2
    <3>5. \A i \in 1 .. Len(net[l]) : Aged(net[l][i]) \in Messages
      BY <3>3, AgedMessage
    <3>6. net'[l] \in [1 .. Len(net[l]) -> Messages]
      BY <3>4, <3>5
    <3>7. net'[l] \in Seq(Messages)
      BY <3>2, <3>6, SeqDef
    <3> QED  BY <3>1, <3>2, <3>3, <3>4, <3>7
  <2>2. net' \in Networks
    <3>1. net' = [l \in Links |-> net'[l]]
      BY <1>1
    <3> QED  BY <2>1, <3>1 DEF Networks
  <2>3. ASSUME NEW m, Carries(net', m) PROVE MessageOK(w, owner', faults', m)
    <3>1. PICK l \in Links : \E i \in DOMAIN net'[l] : net'[l][i] = m
      BY <2>3 DEF Carries
    <3>2. PICK i \in DOMAIN net'[l] : net'[l][i] = m
      BY <3>1
    <3> DEFINE x == net[l][i]
    <3>3. x \in Messages /\ m = Aged(x) /\ Carries(net, x)
      BY <2>1, <3>2 DEF Carries
    <3> HIDE DEF x
    <3>4. MessageOK(w, owner, faults, x) /\ InFlight >= 1
      BY <1>3, <3>3 DEF Inv, NetOK
    <3>5. /\ m \in Messages /\ m.type = x.type /\ m.address = x.address
          /\ x.type = "dsee" => m.no = x.no /\ Rest(m.seen) >= Rest(x.seen)
      BY <3>3, AgedMessage
    <3>6. m.type = "dsee" => Signed(w, owner', m.no, m.address)
      BY <1>6, <3>4, <3>5 DEF MessageOK, Signed
    <3>7. x.type = "dsee" => /\ Standing(x.no, x.seen) \in Nat /\ Standing(m.no, m.seen) \in Nat
                             /\ Standing(x.no, x.seen) <= Standing(m.no, m.seen)
      <4>1. x.type = "dsee" => x.no \in 1 .. MaxEntries /\ x.seen \in Ages /\ m.seen \in Ages
        BY <3>3, <3>5, MessageIs
      <4>2. x.type = "dsee" => Rest(x.seen) \in Nat /\ Rest(m.seen) \in Nat
        BY <4>1, AgesAre
      <4>3. CASE x.type = "dsee"
        <5>1. x.no \in 1 .. MaxEntries /\ x.seen \in Ages /\ m.seen \in Ages /\ m.no = x.no
          BY <3>5, <4>1, <4>3
        <5>2. Rest(x.seen) <= Rest(m.seen)
          BY <3>5, <4>2, <4>3
        <5>3. /\ Standing(x.no, x.seen) \in Nat /\ Standing(x.no, m.seen) \in Nat
              /\ Standing(x.no, x.seen) <= Standing(x.no, m.seen)
          BY <5>1, <5>2, StandingIs, StandingGrows
        <5> QED  BY <5>1, <5>3
      <4> QED  BY <4>3
    <3> DEFINE age == IF x.type = "dsee" THEN Standing(x.no, x.seen) ELSE 0
               age2 == IF m.type = "dsee" THEN Standing(m.no, m.seen) ELSE 0
    <3>8. age \in Nat /\ age2 \in Nat /\ age <= age2
      BY <3>5, <3>7
    <3>9. Faded(w, owner, faults, x.address, age)
      BY <3>4 DEF MessageOK
    <3> HIDE DEF age, age2
    <3>10. faults + age + 1 <= faults' + age2
      <4>1. InFlight \in Nat /\ faults \in Nat /\ InFlight >= 1 /\ faults' = faults + InFlight
        BY <1>0, <1>2, <1>3, <3>4
      <4> QED  BY <3>8, <4>1
    <3>11. Faded(w, owner', faults', m.address, age2)
      BY <1>8, <3>5, <3>8, <3>9, <3>10
    <3> QED  BY <3>5, <3>6, <3>11 DEF MessageOK, age2
  <2> QED  BY <2>2, <2>3 DEF NetOK
<1> QED  BY <1>1, <1>4, <1>7, <1>9, <1>10, NextState DEF Inv

-----------------------------------------------------------------------------
\* The invariant holds from the start: nothing is announced.
LEMMA InitOK ==
  ASSUME NEW w \in {0, 1}, Init
  PROVE  Inv(w)
<1>1. PICK a \in Addresses :
        owner = [running |-> FALSE, no |-> 0, address |-> a, own |-> NoEntry, up |-> 0,
                 pinged |-> FALSE]
  BY ListAssumption DEF Init
<1>2. OwnerOK(w, owner)
  <2>1. 0 \in 0 .. Settled /\ 0 \in 0 .. MaxEntries
    BY AgesAre, Bounds
  <2> QED  BY <1>1, <2>1 DEF OwnerOK, Owners
<1>3. ListsOK(w, owner, faults, list)
  BY DEF Init, ListsOK
<1>4. NetOK(w, owner, faults, net)
  <2>1. <<>> \in Seq(Messages) /\ DOMAIN <<>> = {}
    BY EmptySeq, LenProperties
  <2> QED  BY <2>1 DEF Init, NetOK, Networks, Carries
<1>5. spent = FALSE /\ faults = 0 /\ asked = {} /\ synced = {}
  BY DEF Init
<1>6. 0 \in 0 .. MaxFaults
  BY Bounds
<1> QED  BY <1>2, <1>3, <1>4, <1>5, <1>6 DEF Inv

\* Nothing happens.
LEMMA Stutters ==
  ASSUME NEW w \in Nat, Inv(w), UNCHANGED vars
  PROVE  Inv(w)'
<1>1. /\ owner' = owner /\ list' = list /\ net' = net /\ faults' = faults
      /\ spent' = spent /\ asked' = asked /\ synced' = synced
  BY DEF vars
<1> QED  BY <1>1, NextState DEF Inv

\* Every step keeps it, with another w if the masternode moves.
LEMMA StepOK ==
  ASSUME NEW w \in Nat, Inv(w), [Next]_vars, w > 0 => [FreshMove]_vars
  PROVE  \E w2 \in Nat : (w2 > 0 <=> w > 0) /\ Inv(w2)'
<1> SUFFICES ASSUME ~Register PROVE Inv(w)'
  <2>1. CASE Register /\ vars' # vars
    BY <2>1, RegisterOK
  <2>2. CASE Register /\ vars' = vars
    BY <2>2, Stutters
  <2> QED  BY <2>1, <2>2
<1>2. CASE Ping
  BY <1>2, PingOK
<1>3. CASE StopMasterNode
  BY <1>3, StopOK
<1>4. CASE Spend
  BY <1>4, SpendOK
<1>5. CASE Receive
  <2>1. PICK l \in Links :
          /\ net[l] # <<>>
          /\ IF l[2] = Owner THEN ReceiveOwn(l, Head(net[l]))
             ELSE ReceiveDsee(l, l[2], Head(net[l])) \/ ReceiveDseep(l, l[2], Head(net[l]))
    BY <1>5 DEF Receive
  <2>2. CASE l[2] = Owner
    BY <2>1, <2>2, ReceiveOwnOK
  <2>3. CASE l[2] # Owner /\ ReceiveDsee(l, l[2], Head(net[l]))
    <3>1. l[2] \in Nodes
      BY <2>3, LinkEnds
    <3> QED  BY <2>1, <2>3, <3>1, UpdateEntryOK, AddEntryOK DEF ReceiveDsee
  <2>4. CASE l[2] # Owner /\ ReceiveDseep(l, l[2], Head(net[l]))
    <3>1. l[2] \in Nodes
      BY <2>4, LinkEnds
    <3> QED  BY <2>1, <2>4, <3>1, TakePingOK, AskSenderOK DEF ReceiveDseep
  <2> QED  BY <2>1, <2>2, <2>3, <2>4
<1>6. CASE \E n \in Nodes : CheckAndRemove(n) \/ \E p \in All : Connect(n, p)
  BY <1>6, CheckAndRemoveOK, ConnectOK
<1>7. CASE \E n \in All : Restart(n)
  BY <1>7, RestartOK
<1>8. CASE Tick
  BY <1>8, TickOK
<1>9. CASE UNCHANGED vars
  BY <1>9, Stutters
<1> QED  BY <1>2, <1>3, <1>4, <1>5, <1>6, <1>7, <1>8, <1>9 DEF Next

\* The invariant of a masternode that moves only to addresses nothing says.
Fresh == \E w \in Nat : w > 0 /\ Inv(w)

\* However it moves, the invariant without addresses and ages always holds.
LEMMA InvAlways == Spec => []Inv(0)
<1>1. Init => Inv(0)
  BY InitOK
<1>2. Inv(0) /\ [Next]_vars => Inv(0)'
  <2> SUFFICES ASSUME Inv(0), [Next]_vars PROVE Inv(0)'
    OBVIOUS
  <2>1. PICK w2 \in Nat : (w2 > 0 <=> 0 > 0) /\ Inv(w2)'
    BY StepOK
  <2>2. w2 = 0
    BY <2>1
  <2> QED  BY <2>1, <2>2
<1> QED  BY <1>1, <1>2, PTL DEF Spec

\* And with them if every move is to an address that nothing says.
LEMMA FreshAlways == Spec /\ [][FreshMove]_vars => []Fresh
<1>1. Init => Fresh
  BY InitOK DEF Fresh
<1>2. Fresh /\ [Next]_vars /\ [FreshMove]_vars => Fresh'
  BY StepOK DEF Fresh
<1> QED  BY <1>1, <1>2, PTL DEF Spec

\* Whatever nodes, links and delays: lists, links and the masternode's own
\* state keep their types, and it has an own entry exactly while it runs
\* (CActiveMasternode and the list of its node).
THEOREM ListTypes == Spec => []TypeOK
<1>1. Inv(0) => TypeOK
  BY DEF Inv, OwnerOK, Owners, ListsOK, NetOK, Networks, TypeOK
<1> QED  BY <1>1, InvAlways, PTL

\* A masternode that moves again and again, each time to an address that no
\* list, announcement or own entry says: when it has been up, with the new
\* address in its own list, for as long as entries of the older announcements
\* can live and messages can be late, no list has an old address
\* (CMasternodeMan::CheckAndRemove), for any network, any number of faults and
\* of moves, and any removal time.
THEOREM OldAddressesDie == Spec /\ [][FreshMove]_vars => []OldAddressDiesOut
<1>1. Fresh => OldAddressDiesOut
  <2> SUFFICES ASSUME NEW w \in Nat, w > 0, Inv(w), owner.up >= Settled,
                      NEW n \in Nodes, Listed(n), list[n].address # owner.address
               PROVE  FALSE
    BY DEF Fresh, OldAddressDiesOut, Knows
  <2> DEFINE e == list[n]
  <2>1. EntryOK(w, owner, faults, e)
    BY DEF Inv, ListsOK, Listed
  <2>2. owner.up \in 0 .. Settled /\ faults \in 0 .. MaxFaults /\ owner.no \in 0 .. MaxEntries
    BY DEF Inv, OwnerOK, Owners
  <2> HIDE DEF e
  <2>3. e.no \in 1 .. MaxEntries /\ e.seen \in Ages /\ e.no < owner.no
    <3>1. e.no \in 1 .. MaxEntries /\ e.seen \in Ages
      BY <2>1, EntryFields DEF EntryOK
    <3>2. e.no <= owner.no /\ e.no # owner.no
      BY <2>1 DEF EntryOK, Signed, e
    <3> QED  BY <2>2, <3>1, <3>2, Bounds
  <2>4. owner.up <= faults + Standing(e.no, e.seen)
    BY <2>1 DEF EntryOK, Faded, e
  <2>5. Standing(e.no, e.seen) \in Nat /\ Standing(e.no, e.seen) <= Standing(MaxEntries, 0)
    <3>1. e.no < MaxEntries /\ MaxEntries \in 1 .. MaxEntries
      BY <2>2, <2>3, Bounds
    <3> QED  BY <2>3, <3>1, StandingIs
  <2>6. Settled = Standing(MaxEntries, 0) + MaxFaults + 1
    <3>1. Rest(0) = 0
      BY AgesAre, Bounds DEF Rest
    <3>2. (MaxEntries - 1) * Removal \in Nat
      BY Bounds
    <3> QED  BY <3>1, <3>2, AgesAre, Bounds DEF Standing
  <2>7. Standing(MaxEntries, 0) \in Nat
    <3>1. 0 \in Ages /\ MaxEntries \in 1 .. MaxEntries
      BY AgesAre, Bounds
    <3> QED  BY <3>1, StandingIs
  <2> DEFINE old == Standing(e.no, e.seen)
             last == Standing(MaxEntries, 0)
  <2>8. /\ old \in Nat /\ last \in Nat /\ old <= last /\ owner.up <= faults + old
        /\ Settled = last + MaxFaults + 1
    BY <2>4, <2>5, <2>6, <2>7
  <2>9. owner.up \in Nat /\ faults \in Nat /\ faults <= MaxFaults /\ MaxFaults \in Nat
    BY <2>2, AgesAre, Bounds
  <2> HIDE DEF old, last
  <2> QED  BY <2>8, <2>9
<1> QED  BY <1>1, FreshAlways, PTL

\* A masternode that moves once at most moves to an address nothing says: all
\* there is was announced before.
LEMMA FirstMoveIsFresh ==
  ASSUME MaxEntries <= 2
  PROVE  Spec => [][FreshMove]_vars
<1>1. ASSUME Inv(0), Next, owner'.address # owner.address, Says(owner'.address)
      PROVE  FALSE
  <2>1. CASE Register
    <3>1. owner.no \in 0 .. MaxEntries /\ owner.no < MaxEntries /\ owner \in Owners
      BY <1>1, <2>1 DEF Inv, OwnerOK, Owners, Register
    <3>2. owner.no = 1
      <4>1. owner.no # 0
        BY <1>1, <2>1, <3>1 DEF Register, Owners
      <4> QED  BY <3>1, <4>1, Bounds
    <3>3. ASSUME NEW no \in 1 .. MaxEntries, NEW x, Signed(0, owner, no, x)
          PROVE  x = owner.address
      BY <3>2, <3>3, Bounds DEF Signed
    <3>4. ASSUME NEW n \in Nodes, Listed(n) PROVE list[n].address = owner.address
      BY <1>1, <3>3, <3>4, EntryFields DEF Inv, ListsOK, EntryOK, Listed
    <3>5. ASSUME NEW m, Carries(net, m), m.type = "dsee" PROVE m.address = owner.address
      BY <1>1, <3>3, <3>5, MessageIs DEF Inv, NetOK, MessageOK
    <3>6. owner.own # NoEntry => owner.own.address = owner.address
      BY <1>1, <3>3 DEF Inv, OwnerOK, Owners
    <3> QED  BY <1>1, <3>4, <3>5, <3>6 DEF Says, Carries
  <2>2. CASE ~Register
    <3>1. owner \in Owners
      BY <1>1 DEF Inv, OwnerOK
    <3> QED  BY <1>1, <2>2, <3>1 DEF Next, Owners, Ping, StopMasterNode, Spend, Receive, ReceiveOwn,
                ReceiveDsee, ReceiveDseep, CheckAndRemove, Connect, Restart, Tick
  <2> QED  BY <2>1, <2>2
<1>2. Inv(0) /\ [Next]_vars => [FreshMove]_vars
  BY <1>1 DEF FreshMove
<1> QED  BY <1>2, InvAlways, PTL DEF Spec

\* So for a masternode that moves once at most there is no condition.
THEOREM OneMoveDies ==
  ASSUME MaxEntries <= 2
  PROVE  Spec => []OldAddressDiesOut
BY FirstMoveIsFresh, OldAddressesDie, PTL
=============================================================================
