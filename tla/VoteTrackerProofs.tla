------------------------- MODULE VoteTrackerProofs -------------------------
(***************************************************************************)
(* Proofs about VoteTracker for every set of masternodes, every wire, every *)
(* window and every bound.                                                 *)
(*                                                                         *)
(* The inductive invariant is the type invariant, the bounds Reorganize    *)
(* walks in, SlotsMatch, the lockstep of the two maps, gossip completeness *)
(* and PushPending.  SlotsMatch is needed because Record removes the hash  *)
(* of the replaced queue from the index: that is right only if no other    *)
(* slot holds the same queue.  PushPending is needed because the next own  *)
(* queue may be recorded only when the last one has been pushed.           *)
(***************************************************************************)
EXTENDS VoteTracker, FiniteSetTheorems, TLAPS

Inv == TypeOK /\ ReorgInBounds /\ PushPending /\ SlotsMatch /\ IndexInLockstep /\ StoredIsAnnounced

\* The steps that leave the store, both gaps and the announcements alone.
StoreUnchanged == UNCHANGED <<mapQueues, mapQueuesByHash, inHandler, inBroadcast, announced>>

-----------------------------------------------------------------------------
\* What Record does to the store: one slot changes, and only to a queue
\* signed later (CMasternodeVoteTracker::ProcessQueue under its lock).
LEMMA RecordStore ==
  ASSUME TypeOK, SlotsMatch, IndexInLockstep, NEW q \in Queues, Record(q)
  PROVE  /\ mapQueues' \in [Heights -> Ballots]
         /\ mapQueuesByHash' \subseteq Queues
         /\ SlotsMatch'
         /\ IndexInLockstep'
         /\ Stored' \subseteq Stored \cup {q}
         /\ \A h \in Heights, v \in Masternodes :
              mapQueues[h][v] # NoQueue /\ mapQueues'[h][v] # mapQueues[h][v]
                => mapQueues'[h][v].time > mapQueues[h][v].time
<1> DEFINE old == mapQueues[q.height][q.voter]
<1>1. q.height \in Heights /\ q.voter \in Masternodes /\ q # NoQueue /\ NoQueue \notin Queues
  BY NoQueueAssumption DEF Queues
<1>2. CASE ~(old = NoQueue \/ q.time > old.time)
  <2>1. UNCHANGED <<mapQueues, mapQueuesByHash>>
    BY <1>2 DEF Record, storeVars
  <2> QED BY <2>1 DEF TypeOK, SlotsMatch, IndexInLockstep, Stored
<1>3. CASE old = NoQueue \/ q.time > old.time
  <2>1. /\ mapQueues' = [mapQueues EXCEPT ![q.height][q.voter] = q]
        /\ mapQueuesByHash' = (mapQueuesByHash \ {old}) \cup {q}
    BY <1>3 DEF Record
  <2>2. /\ mapQueues'[q.height][q.voter] = q
        /\ \A h \in Heights, v \in Masternodes :
             h # q.height \/ v # q.voter => mapQueues'[h][v] = mapQueues[h][v]
        /\ mapQueues' \in [Heights -> Ballots]
    BY <2>1, <1>1 DEF TypeOK, Ballots
  <2>3. SlotsMatch'
    BY <2>2, <1>1 DEF SlotsMatch
  <2>4. Stored' = (Stored \ {old}) \cup {q}
    <3>1. ASSUME NEW x \in Stored' PROVE x \in (Stored \ {old}) \cup {q}
      <4>1. PICK h \in Heights, v \in Masternodes : x = mapQueues'[h][v] /\ x # NoQueue
        BY <3>1 DEF Stored
      <4>2. CASE h = q.height /\ v = q.voter
        BY <4>1, <4>2, <2>2
      <4>3. CASE h # q.height \/ v # q.voter
        <5>1. x = mapQueues[h][v] /\ x \in Stored
          BY <4>1, <4>3, <2>2 DEF Stored
        <5>2. x.height = h /\ x.voter = v
          BY <5>1, <4>1 DEF SlotsMatch
        <5>3. x = old => x.height = q.height /\ x.voter = q.voter
          BY <4>1, <1>1 DEF SlotsMatch
        <5> QED BY <5>1, <5>2, <5>3, <4>3
      <4> QED BY <4>2, <4>3
    <3>2. q \in Stored'
      BY <2>2, <1>1 DEF Stored
    <3>3. ASSUME NEW x \in Stored \ {old} PROVE x \in Stored'
      <4>1. PICK h \in Heights, v \in Masternodes : x = mapQueues[h][v] /\ x # NoQueue
        BY <3>3 DEF Stored
      <4>2. h # q.height \/ v # q.voter
        BY <4>1, <3>3
      <4> QED BY <4>1, <4>2, <2>2 DEF Stored
    <3> QED BY <3>1, <3>2, <3>3
  <2>5. IndexInLockstep'
    BY <2>1, <2>4 DEF IndexInLockstep
  <2>6. mapQueuesByHash' \subseteq Queues
    BY <2>1 DEF TypeOK
  <2>7. ASSUME NEW h \in Heights, NEW v \in Masternodes,
               mapQueues[h][v] # NoQueue, mapQueues'[h][v] # mapQueues[h][v]
        PROVE  mapQueues'[h][v].time > mapQueues[h][v].time
    <3>1. h = q.height /\ v = q.voter
      BY <2>7, <2>2
    <3> QED BY <3>1, <2>7, <2>2, <1>3
  <2> QED BY <2>2, <2>3, <2>4, <2>5, <2>6, <2>7
<1> QED BY <1>2, <1>3

\* What erasing a set of heights does (both prune and disconnect).
LEMMA EraseStore ==
  ASSUME TypeOK, SlotsMatch, IndexInLockstep, NEW H \in SUBSET Heights, EraseHeights(H)
  PROVE  /\ mapQueues' \in [Heights -> Ballots]
         /\ mapQueuesByHash' \subseteq Queues
         /\ SlotsMatch'
         /\ IndexInLockstep'
         /\ Stored' \subseteq Stored
         /\ \A h \in Heights, v \in Masternodes :
              mapQueues'[h][v] \in {NoQueue, mapQueues[h][v]}
<1>1. /\ mapQueues' = [h \in Heights |->
                         IF h \in H THEN [v \in Masternodes |-> NoQueue] ELSE mapQueues[h]]
      /\ mapQueuesByHash' = mapQueuesByHash \ {mapQueues[h][v] : h \in H, v \in Masternodes}
  BY DEF EraseHeights
<1>2. \A h \in Heights, v \in Masternodes :
        mapQueues'[h][v] = IF h \in H THEN NoQueue ELSE mapQueues[h][v]
  BY <1>1
<1>3. mapQueues' \in [Heights -> Ballots]
  BY <1>1 DEF TypeOK, Ballots
<1>4. SlotsMatch'
  BY <1>2 DEF SlotsMatch
<1>5. Stored' = Stored \ {mapQueues[h][v] : h \in H, v \in Masternodes}
  <2>1. ASSUME NEW x \in Stored'
        PROVE  x \in Stored /\ x \notin {mapQueues[h][v] : h \in H, v \in Masternodes}
    <3>1. PICK h \in Heights, v \in Masternodes : x = mapQueues'[h][v] /\ x # NoQueue
      BY <2>1 DEF Stored
    <3>2. h \notin H /\ x = mapQueues[h][v]
      BY <3>1, <1>2
    <3>3. x.height = h
      BY <3>1, <3>2 DEF SlotsMatch
    <3>4. ASSUME NEW g \in H, NEW w \in Masternodes, x = mapQueues[g][w] PROVE FALSE
      BY <3>1, <3>2, <3>3, <3>4 DEF SlotsMatch
    <3> QED BY <3>1, <3>2, <3>4 DEF Stored
  <2>2. ASSUME NEW x \in Stored, x \notin {mapQueues[h][v] : h \in H, v \in Masternodes}
        PROVE  x \in Stored'
    <3>1. PICK h \in Heights, v \in Masternodes : x = mapQueues[h][v] /\ x # NoQueue
      BY <2>2 DEF Stored
    <3>2. x = mapQueues'[h][v]
      BY <3>1, <2>2, <1>2
    <3> QED BY <3>1, <3>2 DEF Stored
  <2> QED BY <2>1, <2>2
<1>6. IndexInLockstep'
  BY <1>1, <1>5 DEF IndexInLockstep
<1>7. mapQueuesByHash' \subseteq Queues
  BY <1>1 DEF TypeOK
<1> QED BY <1>2, <1>3, <1>4, <1>5, <1>6, <1>7

-----------------------------------------------------------------------------
\* An empty store satisfies the invariant: Init and Restart.
LEMMA EmptyStore ==
  ASSUME mapQueues = [h \in Heights |-> [v \in Masternodes |-> NoQueue]],
         mapQueuesByHash = {}, inHandler = NoQueue, announced = {}
  PROVE  /\ mapQueues \in [Heights -> Ballots]
         /\ SlotsMatch /\ IndexInLockstep /\ StoredIsAnnounced
         /\ Stored = {}
<1>1. Stored = {}
  BY DEF Stored
<1>2. mapQueues \in [Heights -> Ballots]
  BY DEF Ballots
<1>3. SlotsMatch
  BY DEF SlotsMatch
<1> QED BY <1>1, <1>2, <1>3 DEF IndexInLockstep, StoredIsAnnounced

\* The invariant holds for the empty store at the start.
LEMMA InitInv == Init => Inv
<1> SUFFICES ASSUME Init PROVE Inv
  OBVIOUS
<1>1. /\ mapQueues \in [Heights -> Ballots]
      /\ SlotsMatch /\ IndexInLockstep /\ StoredIsAnnounced
  BY EmptyStore DEF Init
<1>2. chain \in ChainStates /\ chain.pc = "idle"
  BY TrackerConstants, QueueConstants DEF Init, Between, ChainStates, Heights
<1>3. /\ ibd \in BOOLEAN /\ vMasternodes \subseteq Masternodes
      /\ inHandler = NoQueue /\ inBroadcast = NoQueue
  BY TrackerConstants DEF Init
<1>4. now \in Times /\ tip \in 0 .. MaxTip
  BY QueueConstants DEF Init, Times
<1>5. TypeOK
  BY <1>1, <1>2, <1>3, <1>4 DEF Init, TypeOK
<1> QED BY <1>1, <1>2, <1>3, <1>5 DEF Inv, ReorgInBounds, PushPending

\* Steps that do not touch the store: only the type and the chain thread's
\* position are left to check.
LEMMA FrameStep ==
  ASSUME Inv, StoreUnchanged
  PROVE  /\ mapQueues' \in [Heights -> Ballots]
         /\ mapQueuesByHash' \subseteq Queues
         /\ inHandler' \in Queues \cup {NoQueue}
         /\ inBroadcast' \in Queues \cup {NoQueue}
         /\ announced' \subseteq Queues
         /\ SlotsMatch' /\ IndexInLockstep' /\ StoredIsAnnounced'
BY DEF Inv, StoreUnchanged, TypeOK, SlotsMatch, IndexInLockstep, StoredIsAnnounced, Stored

\* Every step outside Reorganize leaves the chain thread in a legal place.
LEMMA BetweenOK ==
  ASSUME NEW pc \in {"idle", "accepted", "prune", "broadcast", "push"}, NEW acc \in BOOLEAN
  PROVE  /\ Between(pc, acc) \in ChainStates
         /\ Between(pc, acc).pc = pc
BY TrackerConstants, QueueConstants DEF Between, ChainStates, Heights

\* Every step of the two threads preserves the invariant.
LEMMA StepInv == Inv /\ [Next]_vars => Inv'
<1> SUFFICES ASSUME Inv, [Next]_vars PROVE Inv'
  OBVIOUS
<1> USE DEF Inv
<1>t. /\ MaxTip \in Nat /\ MaxHeight \in Nat /\ MaxTime \in Nat /\ PastHorizon \in Nat
      /\ MaxTip <= MaxHeight /\ Self \in Masternodes
  BY TrackerConstants, QueueConstants DEF Heights
<1>1. ASSUME NEW q \in Wire, ReceiveQueue(q) PROVE Inv'
  <2>1. q \in Queues /\ q # NoQueue
    BY TrackerConstants, NoQueueAssumption
  <2>2. /\ UNCHANGED <<tip, now, vMasternodes, mapQueues, mapQueuesByHash, chain, inBroadcast, ibd>>
        /\ announced' = announced \cup {q}
        /\ inHandler' \in {q, NoQueue}
    BY <1>1 DEF ReceiveQueue
  <2>3. TypeOK' /\ ReorgInBounds' /\ PushPending' /\ SlotsMatch' /\ IndexInLockstep'
    BY <2>1, <2>2 DEF TypeOK, ReorgInBounds, PushPending, SlotsMatch, IndexInLockstep, Stored
  <2>4. StoredIsAnnounced'
    BY <2>1, <2>2 DEF StoredIsAnnounced, Stored
  <2> QED BY <2>3, <2>4
<1>2. ASSUME NEW q \in Wire, RelayUnknown(q) PROVE Inv'
  <2>1. q \in Queues
    BY TrackerConstants
  <2>2. /\ UNCHANGED <<tip, now, vMasternodes, mapQueues, mapQueuesByHash, inHandler, chain,
                       inBroadcast, ibd>>
        /\ announced' = announced \cup {q}
    BY <1>2 DEF RelayUnknown
  <2> QED BY <2>1, <2>2 DEF TypeOK, ReorgInBounds, PushPending, SlotsMatch, IndexInLockstep,
                            StoredIsAnnounced, Stored
<1>3. CASE RecordReceived
  <2>1. /\ inHandler \in Queues /\ inHandler # NoQueue /\ Record(inHandler)
        /\ inHandler' = NoQueue
        /\ UNCHANGED <<tip, now, vMasternodes, chain, inBroadcast, ibd, announced>>
    BY <1>3 DEF RecordReceived, TypeOK
  <2>2. /\ mapQueues' \in [Heights -> Ballots] /\ mapQueuesByHash' \subseteq Queues
        /\ SlotsMatch' /\ IndexInLockstep' /\ Stored' \subseteq Stored \cup {inHandler}
    BY <2>1, RecordStore
  <2>3. TypeOK' /\ ReorgInBounds' /\ PushPending'
    BY <2>1, <2>2 DEF TypeOK, ReorgInBounds, PushPending
  <2>4. StoredIsAnnounced'
    BY <2>1, <2>2 DEF StoredIsAnnounced
  <2> QED BY <2>2, <2>3, <2>4
<1>4. CASE SyncQueues
  <2>1. /\ UNCHANGED <<tip, now, vMasternodes, mapQueues, mapQueuesByHash, inHandler, chain,
                       inBroadcast, ibd>>
        /\ announced' = announced \cup mapQueuesByHash
    BY <1>4 DEF SyncQueues
  <2> QED BY <2>1 DEF TypeOK, ReorgInBounds, PushPending, SlotsMatch, IndexInLockstep,
                      StoredIsAnnounced, Stored
<1>5. ASSUME NEW v \in Masternodes, LearnMasternode(v) \/ RemoveMasternode(v) PROVE Inv'
  <2>1. StoreUnchanged /\ UNCHANGED <<tip, now, chain, ibd>> /\ vMasternodes' \subseteq Masternodes
    BY <1>5 DEF LearnMasternode, RemoveMasternode, StoreUnchanged, TypeOK
  <2> QED BY <2>1, FrameStep DEF TypeOK, ReorgInBounds, PushPending, StoreUnchanged
<1>6. CASE AcceptSideBlock \/ ExtendBestChain \/ ReorganizeFails \/ SkipBroadcast \/ FinishProcessBlock
  <2>1. StoreUnchanged /\ UNCHANGED <<now, vMasternodes>>
    BY <1>6, Zenon DEF AcceptSideBlock, ExtendBestChain, ReorganizeFails, SkipBroadcast,
                       FinishProcessBlock, chainOnly, StoreUnchanged
  <2>j. tip' = tip \/ (tip < MaxTip /\ tip' = tip + 1)
    BY <1>6, Zenon DEF AcceptSideBlock, ExtendBestChain, ReorganizeFails, SkipBroadcast,
                       FinishProcessBlock
  <2>k. tip' \in 0 .. MaxTip
    BY <2>j, <1>t DEF TypeOK
  <2>i. ibd' \in BOOLEAN
    BY <1>6, Zenon DEF AcceptSideBlock, ExtendBestChain, ReorganizeFails, SkipBroadcast,
                       FinishProcessBlock, TypeOK
  <2>2. \E pc \in {"idle", "accepted", "prune", "broadcast"}, acc \in BOOLEAN :
          chain' = Between(pc, acc)
    BY <1>6 DEF AcceptSideBlock, ExtendBestChain, ReorganizeFails, SkipBroadcast,
                FinishProcessBlock
  <2>3. chain' \in ChainStates /\ chain'.pc \notin {"disconnect", "connect", "push"}
    BY <2>2, BetweenOK
  <2>4. chain.pc # "push" /\ inBroadcast' = inBroadcast
    BY <1>6, <2>1 DEF AcceptSideBlock, ExtendBestChain, ReorganizeFails, SkipBroadcast,
                      FinishProcessBlock, StoreUnchanged
  <2> QED BY <2>1, <2>i, <2>k, <2>3, <2>4, FrameStep DEF TypeOK, ReorgInBounds, PushPending
<1>7. CASE StartReorganize
  <2>1. StoreUnchanged /\ UNCHANGED <<tip, now, vMasternodes, ibd>>
    BY <1>7 DEF StartReorganize, chainOnly, StoreUnchanged
  <2>2. PICK fork \in 0 .. tip - 1, goal \in 1 .. MaxTip, newTip \in 1 .. MaxTip :
          /\ fork < goal /\ goal <= newTip
          /\ chain' = [chain EXCEPT !.pc = "disconnect", !.at = tip,
                                    !.fork = fork, !.goal = goal, !.newTip = newTip]
    BY <1>7 DEF StartReorganize
  <2>3. /\ fork \in 0 .. MaxTip /\ goal \in 0 .. MaxTip /\ newTip \in 0 .. MaxTip
        /\ tip \in 0 .. MaxTip /\ fork < tip /\ fork < goal /\ chain \in ChainStates
    BY <2>2, <1>t DEF TypeOK
  <2>4. chain' \in ChainStates
    BY <2>2, <2>3 DEF ChainStates
  <2>5. /\ chain'.pc = "disconnect" /\ chain'.at = tip
        /\ chain'.fork = fork /\ chain'.goal = goal
    BY <2>2, <2>3 DEF ChainStates
  <2>6. PushPending'
    BY <1>7, <2>1, <2>5 DEF StartReorganize, StoreUnchanged, PushPending
  <2> QED BY <2>1, <2>3, <2>4, <2>5, <2>6, FrameStep DEF TypeOK, ReorgInBounds
<1>8. CASE DisconnectStep
  <2>1. /\ EraseHeights({chain.at})
        /\ UNCHANGED <<tip, ibd, now, vMasternodes, inHandler, inBroadcast, announced>>
    BY <1>8 DEF DisconnectStep, OnBlockDisconnectedQueues, chainOnly
  <2>2. chain.at \in 1 .. MaxTip /\ chain.pc = "disconnect" /\ chain.fork < chain.at
    BY <1>8, <1>t DEF DisconnectStep, ReorgInBounds, TypeOK, ChainStates
  <2>3. chain' \in ChainStates /\ ReorgInBounds'
    BY <1>8, <2>2, <1>t DEF DisconnectStep, ReorgInBounds, TypeOK, ChainStates
  <2>4. {chain.at} \in SUBSET Heights
    BY <2>2, <1>t DEF Heights
  <2>5. Stored' \subseteq Stored /\ SlotsMatch' /\ IndexInLockstep'
        /\ mapQueues' \in [Heights -> Ballots] /\ mapQueuesByHash' \subseteq Queues
    BY <2>1, <2>4, EraseStore
  <2>6. PushPending'
    BY <1>8, <2>1, <2>2 DEF DisconnectStep, PushPending, TypeOK, ChainStates
  <2> QED BY <2>1, <2>3, <2>5, <2>6 DEF TypeOK, StoredIsAnnounced
<1>9. CASE ConnectStep \/ PruneAtTip
  <2>1. \E H \in SUBSET Heights : EraseHeights(H)
    BY <1>9 DEF ConnectStep, PruneAtTip, OnBlockConnectedQueues
  <2>2. UNCHANGED <<ibd, now, vMasternodes, inHandler, inBroadcast, announced>>
    BY <1>9 DEF ConnectStep, PruneAtTip, chainOnly
  <2>3. Stored' \subseteq Stored /\ SlotsMatch' /\ IndexInLockstep'
        /\ mapQueues' \in [Heights -> Ballots] /\ mapQueuesByHash' \subseteq Queues
    BY <2>1, EraseStore
  <2>4. tip' \in 0 .. MaxTip /\ chain' \in ChainStates /\ ReorgInBounds'
    <3>1. CASE PruneAtTip
      BY <3>1, BetweenOK DEF PruneAtTip, TypeOK, ReorgInBounds
    <3>2. CASE ConnectStep /\ chain.at = chain.goal
      <4>1. chain' = Between("accepted", TRUE) /\ tip' = chain.newTip
        BY <3>2 DEF ConnectStep
      <4>2. chain.newTip \in 0 .. MaxTip
        BY DEF TypeOK, ChainStates
      <4> QED BY <4>1, <4>2, BetweenOK DEF ReorgInBounds
    <3>3. CASE ConnectStep /\ chain.at # chain.goal
      <4>1. chain' = [chain EXCEPT !.at = chain.at + 1] /\ tip' = tip /\ chain.pc = "connect"
        BY <3>3 DEF ConnectStep
      <4>2. chain.at + 1 \in 0 .. MaxTip /\ chain.at + 1 <= chain.goal
        BY <4>1, <3>3, <1>t DEF TypeOK, ChainStates, ReorgInBounds
      <4> QED BY <4>1, <4>2 DEF TypeOK, ChainStates, ReorgInBounds
    <3> QED BY <1>9, <3>1, <3>2, <3>3
  <2>5. PushPending'
    <3>a. chain.pc # "push"
      BY <1>9 DEF ConnectStep, PruneAtTip
    <3>b. \/ \E pc \in {"accepted", "broadcast"}, acc \in BOOLEAN : chain' = Between(pc, acc)
          \/ chain' = [chain EXCEPT !.at = chain.at + 1]
      BY <1>9 DEF ConnectStep, PruneAtTip
    <3>1. chain.pc # "push" /\ chain'.pc # "push"
      BY <3>a, <3>b, BetweenOK DEF TypeOK, ChainStates
    <3> QED BY <2>2, <3>1 DEF PushPending
  <2> QED BY <2>2, <2>3, <2>4, <2>5 DEF TypeOK, StoredIsAnnounced
<1>10. CASE BroadcastQueue
  <2>1. PICK list \in OwnLists :
          LET q == [voter |-> Self, height |-> tip, payees |-> list, time |-> now]
          IN Record(q) /\ inBroadcast' = q
    BY <1>10 DEF BroadcastQueue
  <2> DEFINE q == [voter |-> Self, height |-> tip, payees |-> list, time |-> now]
  <2>2. q \in Queues
    BY <1>t, TrackerConstants DEF Queues, TypeOK, Heights
  <2>3. Record(q) /\ inBroadcast' = q
    BY <2>1
  <2>4. /\ chain.pc = "broadcast" /\ chain' = Between("push", FALSE)
        /\ UNCHANGED <<tip, ibd, now, vMasternodes, inHandler, announced>>
    BY <1>10 DEF BroadcastQueue
  <2> HIDE DEF q
  <2>5. Stored' \subseteq Stored \cup {q} /\ SlotsMatch' /\ IndexInLockstep'
        /\ mapQueues' \in [Heights -> Ballots] /\ mapQueuesByHash' \subseteq Queues
    BY <2>2, <2>3, RecordStore
  <2>6. chain' \in ChainStates /\ chain'.pc = "push" /\ ReorgInBounds'
    BY <2>4, BetweenOK DEF ReorgInBounds
  <2>7. PushPending'
    BY <2>2, <2>3, <2>6, NoQueueAssumption DEF PushPending
  <2>8. StoredIsAnnounced'
    <3>1. NoQueue \notin Stored
      BY DEF Stored
    <3>2. Stored \subseteq announced
      BY <2>4, <3>1 DEF StoredIsAnnounced, PushPending
    <3> QED BY <2>3, <2>4, <2>5, <3>2 DEF StoredIsAnnounced
  <2> QED BY <2>2, <2>3, <2>4, <2>5, <2>6, <2>7, <2>8 DEF TypeOK
<1>p. CASE PushQueue
  <2>1. /\ inBroadcast \in Queues /\ announced' = announced \cup {inBroadcast}
        /\ inBroadcast' = NoQueue /\ chain' = Between("idle", FALSE)
        /\ UNCHANGED <<tip, ibd, now, vMasternodes, inHandler, mapQueues, mapQueuesByHash>>
    BY <1>p DEF PushQueue, TypeOK
  <2>2. chain' \in ChainStates /\ ReorgInBounds' /\ PushPending'
    BY <2>1, BetweenOK DEF ReorgInBounds, PushPending
  <2>t. ibd' \in BOOLEAN
    BY <2>1, Zenon DEF TypeOK
  <2>a. TypeOK'
    BY <2>1, <2>2, <2>t DEF TypeOK
  <2>3. TypeOK' /\ SlotsMatch' /\ IndexInLockstep'
    BY <2>1, <2>a DEF SlotsMatch, IndexInLockstep, Stored
  <2>4. Stored' = Stored
    BY <2>1 DEF Stored
  <2> QED BY <2>1, <2>2, <2>3, <2>4 DEF StoredIsAnnounced
<1>11. CASE Tick
  <2>1. StoreUnchanged /\ UNCHANGED <<tip, vMasternodes, chain, ibd>> /\ now' \in Times
    BY <1>11, <1>t DEF Tick, StoreUnchanged, TypeOK, Times
  <2> QED BY <2>1, FrameStep DEF TypeOK, ReorgInBounds, PushPending, StoreUnchanged
<1>12. CASE Restart
  <2>1. /\ mapQueues' = [h \in Heights |-> [v \in Masternodes |-> NoQueue]]
        /\ mapQueuesByHash' = {} /\ inHandler' = NoQueue /\ inBroadcast' = NoQueue
        /\ announced' = {} /\ chain' = Between("idle", FALSE) /\ ibd' = TRUE
        /\ UNCHANGED <<tip, now, vMasternodes>>
    BY <1>12 DEF Restart
  <2>2. mapQueues' \in [Heights -> Ballots] /\ Stored' = {}
    BY <2>1 DEF Ballots, Stored
  <2>3. SlotsMatch'
    BY <2>1 DEF SlotsMatch
  <2>4. chain' \in ChainStates /\ ReorgInBounds' /\ PushPending'
    BY <2>1, BetweenOK DEF ReorgInBounds, PushPending
  <2>5. TypeOK'
    BY <2>1, <2>2, <2>4 DEF TypeOK
  <2> QED BY <2>1, <2>2, <2>3, <2>4, <2>5 DEF IndexInLockstep, StoredIsAnnounced
<1>13. CASE UNCHANGED vars
  <2>1. StoreUnchanged /\ UNCHANGED <<tip, now, vMasternodes, chain, ibd>>
    BY <1>13 DEF vars, StoreUnchanged
  <2> QED BY <2>1, FrameStep DEF TypeOK, ReorgInBounds, PushPending, StoreUnchanged
<1> QED
  BY <1>1, <1>2, <1>3, <1>4, <1>5, <1>6, <1>7, <1>8, <1>9, <1>10, <1>p, <1>11, <1>12, <1>13
  DEF Next

-----------------------------------------------------------------------------
\* For every instance: the tallied queues and the queues served by hash are
\* the same queues, in the slots of their own height and voter.
THEOREM TrackerLockstep == Spec => [](TypeOK /\ SlotsMatch /\ IndexInLockstep)
<1>1. Inv => TypeOK /\ SlotsMatch /\ IndexInLockstep
  BY DEF Inv
<1> QED BY <1>1, InitInv, StepInv, PTL DEF Spec

\* For every instance: what a node tallies, it has offered to its peers, but
\* for its own queue in the gap of BroadcastQueue.
THEOREM TrackerGossip == Spec => []StoredIsAnnounced
<1>1. Inv => StoredIsAnnounced
  BY DEF Inv
<1> QED BY <1>1, InitInv, StepInv, PTL DEF Spec

\* For every instance: a vote gives way only to a later one of its voter.
THEOREM TrackerNewerWins == Spec => NewerWins
<1> DEFINE Step == \A h \in Heights, v \in Masternodes :
                     LET old == mapQueues[h][v]
                         new == mapQueues'[h][v]
                     IN old # NoQueue /\ new # NoQueue /\ new # old => new.time > old.time
<1>1. Inv /\ [Next]_vars => [Step]_vars
  <2> SUFFICES ASSUME Inv, Next PROVE Step
    OBVIOUS
  <2>1. CASE \E q \in Queues : Record(q)
    BY <2>1, RecordStore DEF Inv
  <2>2. CASE \E H \in SUBSET Heights : EraseHeights(H)
    <3>1. \A h \in Heights, v \in Masternodes : mapQueues'[h][v] \in {NoQueue, mapQueues[h][v]}
      BY <2>2, EraseStore DEF Inv
    <3> QED BY <3>1
  <2>3. CASE UNCHANGED mapQueues
    BY <2>3
  <2>4. CASE Restart
    BY <2>4 DEF Restart
  <2>5. RecordReceived => \E q \in Queues : Record(q)
    BY DEF RecordReceived, Inv, TypeOK
  <2>6. BroadcastQueue => \E q \in Queues : Record(q)
    BY TrackerConstants, QueueConstants DEF BroadcastQueue, Inv, TypeOK, Queues, Heights
  <2>7. DisconnectStep => \E H \in SUBSET Heights : EraseHeights(H)
    BY TrackerConstants, QueueConstants DEF DisconnectStep, OnBlockDisconnectedQueues, Inv, TypeOK,
       ChainStates, Heights
  <2>8. ConnectStep \/ PruneAtTip => \E H \in SUBSET Heights : EraseHeights(H)
    BY DEF ConnectStep, PruneAtTip, OnBlockConnectedQueues
  <2> QED
    BY <2>1, <2>2, <2>3, <2>4, <2>5, <2>6, <2>7, <2>8
    DEF Next, ReceiveQueue, RelayUnknown, SyncQueues, LearnMasternode, RemoveMasternode,
        AcceptSideBlock, ExtendBestChain, StartReorganize, ReorganizeFails, FinishProcessBlock,
        PushQueue, SkipBroadcast, Tick
<1> QED BY <1>1, InitInv, StepInv, PTL DEF Spec, NewerWins

-----------------------------------------------------------------------------
\* A queue in the index lies in the slot of its height and voter.
LEMMA HeldInSlot ==
  ASSUME SlotsMatch, IndexInLockstep, NEW p \in mapQueuesByHash
  PROVE  /\ p.height \in Heights /\ p.voter \in Masternodes
         /\ p = mapQueues[p.height][p.voter] /\ p # NoQueue
<1>1. PICK h \in Heights, v \in Masternodes : p = mapQueues[h][v] /\ p # NoQueue
  BY DEF IndexInLockstep, Stored
<1> QED BY <1>1 DEF SlotsMatch

\* ProcessQueue, seen from outside: a newer queue is taken, an older or
\* equally old one changes nothing.
LEMMA RecordIsTake ==
  ASSUME TypeOK, SlotsMatch, IndexInLockstep, NEW q \in Queues, Record(q),
         UNCHANGED announced, q \in announced \/ mapQueuesByHash \subseteq announced
  PROVE  Outside!Next
<1> DEFINE old == mapQueues[q.height][q.voter]
<1>1. CASE ~(old = NoQueue \/ q.time > old.time)
  <2>1. mapQueuesByHash' = mapQueuesByHash
    BY <1>1 DEF Record, storeVars
  <2>2. announced \subseteq announced' /\ announced' \subseteq Queues
    BY DEF TypeOK
  <2> QED BY <2>1, <2>2 DEF Outside!Next, Outside!Offer
<1>2. CASE old = NoQueue \/ q.time > old.time
  <2>1. mapQueuesByHash' = (mapQueuesByHash \ {old}) \cup {q}
    BY <1>2 DEF Record
  <2>2. q.height \in Heights /\ q.voter \in Masternodes
    BY DEF Queues
  <2>3. \A p \in mapQueuesByHash : Outside!SameSlot(p, q) <=> p = old
    <3> SUFFICES ASSUME NEW p \in mapQueuesByHash
                 PROVE  Outside!SameSlot(p, q) <=> p = old
      OBVIOUS
    <3>1. p = mapQueues[p.height][p.voter] /\ p # NoQueue
      BY HeldInSlot
    <3>2. old # NoQueue => old.height = q.height /\ old.voter = q.voter
      BY <2>2 DEF SlotsMatch
    <3> QED BY <3>1, <3>2 DEF Outside!SameSlot
  <2>4. \A p \in mapQueuesByHash : Outside!SameSlot(p, q) => q.time > p.time
    BY <1>2, <2>3, HeldInSlot
  <2>5. mapQueuesByHash' = {p \in mapQueuesByHash : ~Outside!SameSlot(p, q)} \cup {q}
    BY <2>1, <2>3
  <2> QED BY <2>4, <2>5 DEF Outside!Next, Outside!Take
<1> QED BY <1>1, <1>2

\* Pruning and disconnecting, seen from outside: whole heights go.
LEMMA EraseIsForget ==
  ASSUME SlotsMatch, IndexInLockstep, NEW H \in SUBSET Heights, EraseHeights(H),
         UNCHANGED announced
  PROVE  Outside!Next
<1> DEFINE gone == {mapQueues[h][v] : h \in H, v \in Masternodes}
<1>1. mapQueuesByHash' = mapQueuesByHash \ gone
  BY DEF EraseHeights
<1>2. \A p \in mapQueuesByHash : p \in gone <=> p.height \in H
  <2> SUFFICES ASSUME NEW p \in mapQueuesByHash PROVE p \in gone <=> p.height \in H
    OBVIOUS
  <2>1. /\ p.height \in Heights /\ p.voter \in Masternodes
        /\ p = mapQueues[p.height][p.voter] /\ p # NoQueue
    BY HeldInSlot
  <2>2. ASSUME NEW h \in H, NEW v \in Masternodes, p = mapQueues[h][v] PROVE p.height \in H
    BY <2>1, <2>2 DEF SlotsMatch
  <2> QED BY <2>1, <2>2
<1> HIDE DEF gone
<1> QED BY <1>1, <1>2 DEF Outside!Next, Outside!Forget

\* For every instance: the tracker, with its threads, its two maps and its
\* half-done reorganizations, implements the atomic store of QueueStore.
THEOREM TrackerImplementsStore == Spec => ImplementsStore
<1>1. Init => Outside!Init
  BY DEF Init, Outside!Init
<1>2. Inv /\ Inv' /\ [Next]_vars => [Outside!Next]_(Outside!storage)
  <2> SUFFICES ASSUME Inv, Inv', [Next]_vars,
                      ~UNCHANGED <<mapQueuesByHash, announced>>
               PROVE  Outside!Next
    BY DEF Outside!storage
  <2>0. announced' \subseteq Queues
    BY DEF Inv, TypeOK
  <2>1. CASE mapQueuesByHash' = mapQueuesByHash /\ announced \subseteq announced'
    BY <2>0, <2>1 DEF Outside!Next, Outside!Offer
  <2>2. CASE RecordReceived
    <3>1. /\ inHandler \in Queues /\ inHandler \in announced /\ Record(inHandler)
          /\ announced' = announced
      BY <2>2 DEF RecordReceived, Inv, TypeOK, StoredIsAnnounced
    <3> QED BY <3>1, RecordIsTake DEF Inv
  <2>3. CASE BroadcastQueue
    <3>1. PICK list \in OwnLists :
            Record([voter |-> Self, height |-> tip, payees |-> list, time |-> now])
      BY <2>3 DEF BroadcastQueue
    <3> DEFINE q == [voter |-> Self, height |-> tip, payees |-> list, time |-> now]
    <3>2. q \in Queues
      BY TrackerConstants, QueueConstants DEF Queues, Inv, TypeOK, Heights
    <3>3. Record(q) /\ UNCHANGED announced /\ chain.pc = "broadcast"
      BY <2>3, <3>1 DEF BroadcastQueue
    <3> HIDE DEF q
    <3>4. mapQueuesByHash \subseteq announced
      <4>1. inBroadcast = NoQueue
        BY <3>3 DEF Inv, PushPending
      <4> QED BY <4>1 DEF Inv, StoredIsAnnounced, IndexInLockstep, Stored
    <3> QED BY <3>2, <3>3, <3>4, RecordIsTake DEF Inv
  <2>4. CASE DisconnectStep \/ ConnectStep \/ PruneAtTip
    <3>1. UNCHANGED announced
      BY <2>4 DEF DisconnectStep, ConnectStep, PruneAtTip, chainOnly
    <3>2. DisconnectStep => \E H \in SUBSET Heights : EraseHeights(H)
      BY TrackerConstants, QueueConstants DEF DisconnectStep, OnBlockDisconnectedQueues, Inv, TypeOK,
         ChainStates, Heights
    <3>3. ConnectStep \/ PruneAtTip => \E H \in SUBSET Heights : EraseHeights(H)
      BY DEF ConnectStep, PruneAtTip, OnBlockConnectedQueues
    <3> QED BY <2>4, <3>1, <3>2, <3>3, EraseIsForget DEF Inv
  <2>5. CASE Restart
    BY <2>5 DEF Restart, Outside!Next, Outside!Crash
  <2> QED
    BY <2>1, <2>2, <2>3, <2>4, <2>5
    DEF Next, vars, ReceiveQueue, RelayUnknown, SyncQueues, LearnMasternode, RemoveMasternode,
        AcceptSideBlock, ExtendBestChain, StartReorganize, ReorganizeFails, FinishProcessBlock,
        PushQueue, SkipBroadcast, Tick, chainOnly
<1> QED BY <1>1, <1>2, InitInv, StepInv, PTL DEF Spec, ImplementsStore, Outside!Spec

\* For every instance: the two threads and the store keep their types.
THEOREM TrackerTypes == Spec => []TypeOK
<1>1. Inv => TypeOK
  BY DEF Inv
<1> QED BY <1>1, InitInv, StepInv, PTL DEF Spec

-----------------------------------------------------------------------------
\* Pruning.

\* The tip has not moved since the last prune at the tip.
PrunedAtTip ==
  /\ ~ibd
  /\ \/ chain.pc \in {"broadcast", "push", "idle"}
     \/ chain.pc \in {"disconnect", "connect"} /\ ~chain.accepted

\* The message thread holds a queue it checked against an older tip.
HoldsLateQueue == inHandler # NoQueue /\ inHandler.height < tip - PastHorizon

\* What pruning needs in between: after the prune the one queue in the handler
\* may still come below the horizon, and once it has no other one can.
PruneInv ==
  /\ chain.pc = "accepted" => chain.accepted
  /\ PrunedAtTip => /\ \A s, t \in OutOfWindow : s = t
                    /\ HoldsLateQueue => OutOfWindow = {}

\* Record fills no slot but that of its queue.
LEMMA RecordFillsOwnSlot ==
  ASSUME TypeOK, NEW q \in Queues, Record(q), tip' = tip
  PROVE  OutOfWindow' \subseteq OutOfWindow \cup {<<q.height, q.voter>>}
<1>1. q.height \in Heights /\ q.voter \in Masternodes
  BY DEF Queues
<1>2. \A h \in Heights, v \in Masternodes :
        h # q.height \/ v # q.voter => mapQueues'[h][v] = mapQueues[h][v]
  BY <1>1 DEF Record, storeVars, TypeOK, Ballots
<1>3. ASSUME NEW s \in OutOfWindow', s # <<q.height, q.voter>> PROVE s \in OutOfWindow
  <2>1. /\ s \in Heights \X Masternodes /\ mapQueues'[s[1]][s[2]] # NoQueue /\ s[1] < tip - PastHorizon
    BY <1>3 DEF OutOfWindow
  <2>2. PICK h \in Heights, v \in Masternodes : s = <<h, v>>
    BY <2>1
  <2>3. h # q.height \/ v # q.voter
    BY <1>3, <2>2
  <2>4. mapQueues'[h][v] = mapQueues[h][v]
    BY <1>2, <2>3
  <2> QED BY <2>1, <2>2, <2>4 DEF OutOfWindow
<1> QED BY <1>3

\* Erasing fills no slot.
LEMMA EraseFillsNoSlot ==
  ASSUME TypeOK, NEW H \in SUBSET Heights, EraseHeights(H), tip' = tip
  PROVE  /\ OutOfWindow' \subseteq OutOfWindow
         /\ H = {h \in Heights : h < tip - PastHorizon} => OutOfWindow' = {}
<1>1. \A h \in Heights, v \in Masternodes :
        mapQueues'[h][v] = IF h \in H THEN NoQueue ELSE mapQueues[h][v]
  BY DEF EraseHeights
<1>2. ASSUME NEW s \in OutOfWindow' PROVE s \in OutOfWindow /\ s[1] \notin H /\ s[1] \in Heights /\ s[1] < tip - PastHorizon
  <2>1. s \in Heights \X Masternodes /\ mapQueues'[s[1]][s[2]] # NoQueue /\ s[1] < tip - PastHorizon
    BY <1>2 DEF OutOfWindow
  <2>2. s[1] \in Heights /\ s[2] \in Masternodes
    BY <2>1
  <2>3. s[1] \notin H /\ mapQueues'[s[1]][s[2]] = mapQueues[s[1]][s[2]]
    BY <1>1, <2>1, <2>2
  <2> QED BY <2>1, <2>2, <2>3 DEF OutOfWindow
<1> QED BY <1>2

\* Nothing is stored and nothing held at the start.
LEMMA InitPrune == Init => PruneInv
BY DEF Init, PruneInv, PrunedAtTip, Between

\* Every step keeps what pruning needs.
LEMMA StepPrune == Inv /\ PruneInv /\ [Next]_vars => PruneInv'
<1> SUFFICES ASSUME Inv, PruneInv, [Next]_vars PROVE PruneInv'
  OBVIOUS
<1>t. TypeOK /\ tip \in Int /\ PastHorizon \in Nat
  BY TrackerConstants, QueueConstants DEF Inv, TypeOK, Heights
<1>b. \A pc, acc : Between(pc, acc).pc = pc /\ Between(pc, acc).accepted = acc
  BY DEF Between
<1>f. ASSUME UNCHANGED <<tip, mapQueues, inHandler>>, PrunedAtTip' => PrunedAtTip,
             chain'.pc = "accepted" => chain'.accepted
      PROVE  PruneInv'
  <2>1. OutOfWindow' = OutOfWindow /\ HoldsLateQueue' = HoldsLateQueue
    BY <1>f DEF OutOfWindow, HoldsLateQueue
  <2> QED BY <1>f, <2>1 DEF PruneInv
<1>e. ASSUME ~PrunedAtTip', chain'.pc = "accepted" => chain'.accepted PROVE PruneInv'
  BY <1>e DEF PruneInv
<1>1. ASSUME NEW q \in Wire, ReceiveQueue(q) PROVE PruneInv'
  <2>1. /\ UNCHANGED <<tip, mapQueues, chain, ibd>> /\ inHandler' \in {q, NoQueue}
        /\ q.height >= tip - PastHorizon
    BY <1>1 DEF ReceiveQueue, HeightInWindow
  <2>2. q.height \in Int
    BY TrackerConstants, QueueConstants DEF Queues, Heights
  <2>3. ~HoldsLateQueue'
    BY <2>1, <2>2, <1>t DEF HoldsLateQueue
  <2>4. OutOfWindow' = OutOfWindow /\ PrunedAtTip' = PrunedAtTip
    BY <2>1 DEF OutOfWindow, PrunedAtTip
  <2> QED BY <2>1, <2>3, <2>4 DEF PruneInv
<1>2. ASSUME NEW q \in Wire, RelayUnknown(q) PROVE PruneInv'
  BY <1>2, <1>f DEF RelayUnknown, PrunedAtTip, PruneInv
<1>3. CASE RecordReceived
  <2>1. /\ inHandler \in Queues /\ Record(inHandler) /\ inHandler' = NoQueue
        /\ UNCHANGED <<tip, chain, ibd>>
    BY <1>3 DEF RecordReceived, Inv, TypeOK
  <2> DEFINE s == <<inHandler.height, inHandler.voter>>
  <2>2. OutOfWindow' \subseteq OutOfWindow \cup {s}
    BY <1>t, <2>1, RecordFillsOwnSlot
  <2>3. ~HoldsLateQueue' /\ PrunedAtTip' = PrunedAtTip
    BY <2>1 DEF HoldsLateQueue, PrunedAtTip
  <2>4. ~HoldsLateQueue => OutOfWindow' \subseteq OutOfWindow
    <3>1. ~HoldsLateQueue => ~(inHandler.height < tip - PastHorizon)
      BY <1>3 DEF HoldsLateQueue, RecordReceived
    <3>2. ~(inHandler.height < tip - PastHorizon) => s \notin OutOfWindow'
      BY <2>1 DEF OutOfWindow
    <3> QED BY <2>2, <3>1, <3>2
  <2> HIDE DEF s
  <2>5. PrunedAtTip => \A x, y \in OutOfWindow' : x = y
    BY <2>2, <2>4 DEF PruneInv
  <2> QED BY <2>1, <2>3, <2>5 DEF PruneInv
<1>4. CASE SyncQueues
  BY <1>4, <1>f DEF SyncQueues, PrunedAtTip, PruneInv
<1>5. ASSUME NEW v \in Masternodes, LearnMasternode(v) \/ RemoveMasternode(v) PROVE PruneInv'
  BY <1>5, <1>f DEF LearnMasternode, RemoveMasternode, PrunedAtTip, PruneInv
<1>6. CASE AcceptSideBlock \/ ExtendBestChain
  <2>1. chain'.pc = "accepted" /\ chain'.accepted
    BY <1>6, <1>b DEF AcceptSideBlock, ExtendBestChain
  <2> QED BY <2>1, <1>e DEF PrunedAtTip
<1>7. CASE StartReorganize
  <2>1. /\ UNCHANGED <<tip, mapQueues, inHandler, ibd>> /\ chain.pc \in {"idle", "accepted"}
        /\ chain'.pc = "disconnect" /\ chain'.accepted = chain.accepted
    BY <1>7 DEF StartReorganize, chainOnly, Inv, TypeOK, ChainStates
  <2> QED BY <2>1, <1>f DEF PrunedAtTip, PruneInv
<1>8. CASE DisconnectStep \/ (ConnectStep /\ chain.at # chain.goal)
  <2>1. /\ UNCHANGED <<tip, inHandler, ibd>> /\ chain.pc \in {"disconnect", "connect"}
        /\ chain'.pc \in {"disconnect", "connect"} /\ chain'.accepted = chain.accepted
    BY <1>8 DEF DisconnectStep, ConnectStep, chainOnly, Inv, TypeOK, ChainStates
  <2>2. \E H \in SUBSET Heights : EraseHeights(H)
    <3>1. CASE DisconnectStep
      <4>1. chain.at \in Heights
        BY TrackerConstants, QueueConstants DEF Inv, TypeOK, ChainStates, Heights
      <4> QED BY <3>1, <4>1 DEF DisconnectStep, OnBlockDisconnectedQueues
    <3>2. CASE ConnectStep
      BY <3>2 DEF ConnectStep, OnBlockConnectedQueues
    <3> QED BY <1>8, <3>1, <3>2
  <2>3. OutOfWindow' \subseteq OutOfWindow
    BY <1>t, <2>1, <2>2, EraseFillsNoSlot
  <2>4. HoldsLateQueue' = HoldsLateQueue /\ PrunedAtTip' = PrunedAtTip
    BY <2>1 DEF HoldsLateQueue, PrunedAtTip
  <2> QED BY <2>1, <2>3, <2>4 DEF PruneInv
<1>9. CASE ConnectStep /\ chain.at = chain.goal
  <2>1. chain'.pc = "accepted" /\ chain'.accepted
    BY <1>9, <1>b DEF ConnectStep
  <2> QED BY <2>1, <1>e DEF PrunedAtTip
<1>10. CASE ReorganizeFails
  <2>1. /\ UNCHANGED <<tip, mapQueues, inHandler, ibd>> /\ chain.pc \in {"disconnect", "connect"}
        /\ \/ chain.accepted /\ chain'.pc = "accepted" /\ chain'.accepted
           \/ ~chain.accepted /\ chain'.pc = "idle"
    BY <1>10, <1>b DEF ReorganizeFails, chainOnly
  <2> QED BY <2>1, <1>f DEF PrunedAtTip
<1>11. CASE FinishProcessBlock
  <2>0. PICK b \in BOOLEAN : ibd' = b /\ chain' = Between(IF b THEN "idle" ELSE "prune", FALSE)
    BY <1>11, Zenon DEF FinishProcessBlock
  <2>1. (ibd' /\ chain'.pc = "idle") \/ chain'.pc = "prune"
    <3>1. CASE b
      BY <2>0, <3>1, <1>b
    <3>2. CASE ~b
      BY <2>0, <3>2, <1>b
    <3> QED BY <3>1, <3>2
  <2> QED BY <2>1, <1>e DEF PrunedAtTip
<1>12. CASE PruneAtTip
  <2>1. /\ EraseHeights({h \in Heights : h < tip - PastHorizon}) /\ tip' = tip
        /\ chain'.pc = "broadcast"
    BY <1>12, <1>b DEF PruneAtTip, OnBlockConnectedQueues
  <2>2. OutOfWindow' = {}
    BY <1>t, <2>1, EraseFillsNoSlot
  <2> QED BY <2>1, <2>2 DEF PruneInv
<1>13. CASE BroadcastQueue
  <2>1. PICK list \in OwnLists : Record([voter |-> Self, height |-> tip, payees |-> list, time |-> now])
    BY <1>13 DEF BroadcastQueue
  <2> DEFINE q == [voter |-> Self, height |-> tip, payees |-> list, time |-> now]
  <2>2. q \in Queues
    BY TrackerConstants, QueueConstants DEF Queues, Inv, TypeOK, Heights
  <2>3. /\ UNCHANGED <<tip, ibd, inHandler>> /\ chain.pc = "broadcast" /\ chain'.pc = "push"
    BY <1>13, <1>b DEF BroadcastQueue
  <2>4. OutOfWindow' \subseteq OutOfWindow \cup {<<tip, Self>>}
    BY <1>t, <2>1, <2>2, <2>3, RecordFillsOwnSlot
  <2>5. <<tip, Self>> \notin OutOfWindow'
    BY <1>t, <2>3 DEF OutOfWindow
  <2>6. HoldsLateQueue' = HoldsLateQueue /\ PrunedAtTip' = PrunedAtTip
    BY <2>3 DEF HoldsLateQueue, PrunedAtTip
  <2> QED BY <2>3, <2>4, <2>5, <2>6 DEF PruneInv
<1>p. CASE PushQueue
  <2>1. /\ UNCHANGED <<tip, ibd, mapQueues, inHandler>> /\ chain.pc = "push" /\ chain'.pc = "idle"
    BY <1>p, <1>b DEF PushQueue, Inv, PushPending
  <2> QED BY <2>1, <1>f DEF PrunedAtTip
<1>14. CASE SkipBroadcast
  <2>1. /\ UNCHANGED <<tip, ibd, mapQueues, inHandler>> /\ chain.pc = "broadcast" /\ chain'.pc = "idle"
    BY <1>14, <1>b DEF SkipBroadcast, chainOnly
  <2> QED BY <2>1, <1>f DEF PrunedAtTip
<1>15. CASE Tick
  BY <1>15, <1>f DEF Tick, PrunedAtTip, PruneInv
<1>16. CASE Restart
  <2>1. ibd' /\ chain'.pc = "idle"
    BY <1>16, <1>b DEF Restart
  <2> QED BY <2>1, <1>e DEF PrunedAtTip
<1>17. CASE UNCHANGED vars
  BY <1>17, <1>f DEF vars, PrunedAtTip, PruneInv
<1> QED
  BY <1>1, <1>2, <1>3, <1>4, <1>5, <1>6, <1>7, <1>8, <1>9, <1>10, <1>11, <1>12, <1>13, <1>p,
     <1>14, <1>15, <1>16, <1>17 DEF Next

\* For every instance: when the chain thread rests outside initial download,
\* at most one queue lies below the horizon, however the message thread, the
\* reorganizations and their failures interleave.
THEOREM TrackerPrunes == Spec => []PruningKeepsUp
<1>1. Inv /\ PruneInv => PruningKeepsUp
  <2> SUFFICES ASSUME PruneInv, chain.pc = "idle", ~ibd PROVE Cardinality(OutOfWindow) <= 1
    BY DEF PruningKeepsUp
  <2>1. \A s, t \in OutOfWindow : s = t
    BY DEF PruneInv, PrunedAtTip
  <2>2. CASE OutOfWindow = {}
    BY <2>2, FS_EmptySet
  <2>3. CASE OutOfWindow # {}
    <3>1. PICK s \in OutOfWindow : OutOfWindow = {s}
      BY <2>1, <2>3
    <3>2. Cardinality({s}) = 1
      BY FS_Singleton
    <3> QED BY <3>1, <3>2
  <2> QED BY <2>2, <2>3
<1>2. Init => Inv /\ PruneInv
  BY InitInv, InitPrune
<1>3. (Inv /\ PruneInv) /\ [Next]_vars => (Inv /\ PruneInv)'
  BY StepInv, StepPrune
<1> QED BY <1>1, <1>2, <1>3, PTL DEF Spec
=============================================================================
