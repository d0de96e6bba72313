---------------------------- MODULE VoteTracker ----------------------------
(***************************************************************************)
(* One node's store of payee queues (CMasternodeVoteTracker) and the two   *)
(* threads that write it:                                                  *)
(*                                                                         *)
(*   - the message thread runs the "mnvotequeue" handler and holds no      *)
(*     cs_main: it reads the tip, decides, and only then takes the         *)
(*     tracker's lock to record the queue (inHandler is the gap);          *)
(*   - the chain thread runs ProcessBlock under cs_main.  It takes the     *)
(*     tracker's lock once per disconnected and once per connected block,  *)
(*     moves pindexBest, prunes, records this masternode's own queue, and  *)
(*     then pushes it under cs_vNodes (inBroadcast is the gap); the        *)
(*     message thread may run between any two of these.                    *)
(*                                                                         *)
(* Of the chain only heights matter here.  Reads (AlreadyHaveQueue,        *)
(* GetQueueByHash, the RPC helpers) are expressions over mapQueues and     *)
(* mapQueuesByHash.  mapEquivocators is left out: no code inserts into it. *)
(***************************************************************************)
EXTENDS VoteQueue

CONSTANTS
  Self,      \* the masternode this wallet runs as
  Wire,      \* the queues peers may send
  OwnLists,  \* the payee lists SimulateQueue may produce here
  MaxTip     \* bound: highest tip

ASSUME TrackerConstants ==
  /\ Self \in Masternodes
  /\ Wire \subseteq Queues
  /\ OwnLists \subseteq PayeeLists
  /\ MaxTip \in Heights

VARIABLES
  tip,              \* pindexBest->nHeight
  now,              \* GetAdjustedTime()
  vMasternodes,     \* the voters mnodeman.Find knows
  mapQueues,        \* nQueueHeight -> voter -> queue
  mapQueuesByHash,  \* the queues getdata and inv can find, keyed by hash
  inHandler,        \* message thread: a queue past its checks, lock not yet held
  chain,            \* chain thread: where ProcessBlock is
  inBroadcast,      \* chain thread: the own queue, processed and not yet pushed
  ibd,              \* what IsInitialBlockDownload said in the last ProcessBlock
  announced         \* queues this session announced or pushed to the peers

vars == <<tip, now, vMasternodes, mapQueues, mapQueuesByHash, inHandler, chain, inBroadcast, ibd,
          announced>>
storeVars == <<mapQueues, mapQueuesByHash>>

Stored == {mapQueues[h][v] : h \in Heights, v \in Masternodes} \ {NoQueue}

\* accepted: a block of this ProcessBlock call was accepted already, so an
\* error concerns an orphan child and does not end the call.
ChainStates ==
  [pc : {"idle", "disconnect", "connect", "accepted", "prune", "broadcast",
         "push"},
   at : 0 .. MaxTip, fork : 0 .. MaxTip, goal : 0 .. MaxTip, newTip : 0 .. MaxTip,
   accepted : BOOLEAN]

\* The chain thread outside Reorganize.
Between(pc, accepted) ==
  [pc |-> pc, at |-> 0, fork |-> 0, goal |-> 0, newTip |-> 0, accepted |-> accepted]

Init ==
  /\ tip \in 0 .. MaxTip
  /\ now = 0
  /\ vMasternodes = {Self}
  /\ mapQueues = [h \in Heights |-> [v \in Masternodes |-> NoQueue]]
  /\ mapQueuesByHash = {}
  /\ inHandler = NoQueue
  /\ chain = Between("idle", FALSE)
  /\ inBroadcast = NoQueue
  /\ ibd = TRUE
  /\ announced = {}

-----------------------------------------------------------------------------
\* Operations on the store, each under the tracker's lock.

\* Mutant: the replaced queue's hash stays in the index.
RecordKeepsOldHash(q) ==
  LET old == mapQueues[q.height][q.voter]
  IN IF old = NoQueue \/ q.time > old.time
     THEN /\ mapQueues' = [mapQueues EXCEPT ![q.height][q.voter] = q]
          /\ mapQueuesByHash' = mapQueuesByHash \cup {q}
     ELSE UNCHANGED storeVars

\* Mutant: only a tie is dropped, so a replayed older queue replaces a newer one.
RecordDropsOnlyTies(q) ==
  LET old == mapQueues[q.height][q.voter]
  IN IF old = NoQueue \/ q.time # old.time
     THEN /\ mapQueues' = [mapQueues EXCEPT ![q.height][q.voter] = q]
          /\ mapQueuesByHash' = (mapQueuesByHash \ {old}) \cup {q}
     ELSE UNCHANGED storeVars

\* ProcessQueue after its checks: record, or replace what the slot holds if
\* the new queue was signed strictly later.  Anything else is dropped.
Record(q) ==
  LET old == mapQueues[q.height][q.voter]
  IN IF old = NoQueue \/ q.time > old.time
     THEN /\ mapQueues' = [mapQueues EXCEPT ![q.height][q.voter] = q]
          /\ mapQueuesByHash' = (mapQueuesByHash \ {old}) \cup {q}
     ELSE UNCHANGED storeVars

\* Mutant: only the voters that are in the list are erased.
EraseListedVoters(H) ==
  /\ mapQueues' = [h \in Heights |-> [v \in Masternodes |->
                     IF h \in H /\ v \in vMasternodes THEN NoQueue ELSE mapQueues[h][v]]]
  /\ mapQueuesByHash' = mapQueuesByHash \ {mapQueues[h][v] : h \in H, v \in vMasternodes}

\* Erase the queues of a set of heights from both maps.
EraseHeights(H) ==
  /\ mapQueues' = [h \in Heights |->
                     IF h \in H THEN [v \in Masternodes |-> NoQueue] ELSE mapQueues[h]]
  /\ mapQueuesByHash' = mapQueuesByHash \ {mapQueues[h][v] : h \in H, v \in Masternodes}

\* Mutant: the prune stops one block short of the horizon.
PruneOneShort(height) == EraseHeights({h \in Heights : h < height - PastHorizon - 1})

OnBlockConnectedQueues(height) == EraseHeights({h \in Heights : h < height - PastHorizon})

OnBlockDisconnectedQueues(height) == EraseHeights({height})

-----------------------------------------------------------------------------
\* The message thread.

\* Mutant: the handler records without relaying.
ReceiveWithoutRelay(q) ==
  /\ inHandler = NoQueue
  /\ q \notin mapQueuesByHash
  /\ HeightInWindow(q.height, tip)
  /\ q.voter \in vMasternodes
  /\ inHandler' = IF TimeInWindow(q.time, now) THEN q ELSE NoQueue
  /\ UNCHANGED <<tip, now, vMasternodes, mapQueues, mapQueuesByHash, chain, inBroadcast, ibd,
                 announced>>

\* "mnvotequeue" from a voter in the list, with a valid signature: announce
\* the queue to the other peers, then run the checks of ProcessQueue.
ReceiveQueue(q) ==
  /\ inHandler = NoQueue
  /\ q \notin mapQueuesByHash
  /\ HeightInWindow(q.height, tip)
  /\ q.voter \in vMasternodes
  /\ announced' = announced \cup {q}
  /\ inHandler' = IF TimeInWindow(q.time, now) THEN q ELSE NoQueue
  /\ UNCHANGED <<tip, now, vMasternodes, mapQueues, mapQueuesByHash, chain, inBroadcast, ibd>>

\* "mnvotequeue" from an unknown voter: announced unverified, not recorded.
\* The masternode entry is asked for (LearnMasternode is the answer).
RelayUnknown(q) ==
  /\ inHandler = NoQueue
  /\ q \notin mapQueuesByHash
  /\ HeightInWindow(q.height, tip)
  /\ q.voter \notin vMasternodes
  /\ announced' = announced \cup {q}
  /\ UNCHANGED <<tip, now, vMasternodes, mapQueues, mapQueuesByHash, inHandler, chain, inBroadcast,
                 ibd>>

\* The rest of ProcessQueue, under the lock.
RecordReceived ==
  /\ inHandler # NoQueue
  /\ Record(inHandler)
  /\ inHandler' = NoQueue
  /\ UNCHANGED <<tip, now, vMasternodes, chain, inBroadcast, ibd, announced>>

\* "getmnqueues": announce everything a getdata can be answered with.
SyncQueues ==
  /\ inHandler = NoQueue
  /\ announced' = announced \cup mapQueuesByHash
  /\ UNCHANGED <<tip, now, vMasternodes, mapQueues, mapQueuesByHash, inHandler, chain, inBroadcast,
                 ibd>>

\* dsee adds an entry, CheckAndRemove drops one.
LearnMasternode(v) ==
  /\ v \notin vMasternodes
  /\ vMasternodes' = vMasternodes \cup {v}
  /\ UNCHANGED <<tip, now, mapQueues, mapQueuesByHash, inHandler, chain, inBroadcast, ibd,
                 announced>>

RemoveMasternode(v) ==
  /\ v \in vMasternodes
  /\ vMasternodes' = vMasternodes \ {v}
  /\ UNCHANGED <<tip, now, mapQueues, mapQueuesByHash, inHandler, chain, inBroadcast, ibd,
                 announced>>

-----------------------------------------------------------------------------
\* The chain thread: ProcessBlock, and AcceptBlock for each orphan child.

chainOnly == <<now, vMasternodes, inHandler, inBroadcast, announced>>

\* A block that does not become the best one.
AcceptSideBlock ==
  /\ chain.pc = "idle"
  /\ chain' = Between("accepted", TRUE)
  /\ UNCHANGED <<tip, ibd, mapQueues, mapQueuesByHash, chainOnly>>

\* SetBestChain when the block extends the best chain: the tracker is not
\* told about the block.
ExtendBestChain ==
  /\ chain.pc \in {"idle", "accepted"}
  /\ tip < MaxTip
  /\ tip' = tip + 1
  /\ chain' = Between("accepted", TRUE)
  /\ UNCHANGED <<ibd, mapQueues, mapQueuesByHash, chainOnly>>

\* SetBestChain onto another branch: disconnect down to the fork, connect
\* up to goal inside Reorganize, and the blocks from goal to newTip after it.
StartReorganize ==
  /\ chain.pc \in {"idle", "accepted"}
  /\ \E fork \in 0 .. tip - 1, goal \in 1 .. MaxTip, newTip \in 1 .. MaxTip :
       /\ fork < goal /\ goal <= newTip
       /\ chain' = [chain EXCEPT !.pc = "disconnect", !.at = tip,
                                 !.fork = fork, !.goal = goal, !.newTip = newTip]
  /\ UNCHANGED <<tip, ibd, mapQueues, mapQueuesByHash, chainOnly>>

\* Mutant: the walk down does not stop at the fork.
DisconnectPastFork ==
  /\ chain.pc = "disconnect"
  /\ OnBlockDisconnectedQueues(chain.at)
  /\ chain' = [chain EXCEPT !.at = @ - 1]
  /\ UNCHANGED <<tip, ibd, chainOnly>>

DisconnectStep ==
  /\ chain.pc = "disconnect"
  /\ OnBlockDisconnectedQueues(chain.at)
  /\ chain' = IF chain.at = chain.fork + 1
              THEN [chain EXCEPT !.pc = "connect"]
              ELSE [chain EXCEPT !.at = @ - 1]
  /\ UNCHANGED <<tip, ibd, chainOnly>>

\* pindexBest moves when the last block of Reorganize is connected and
\* committed; the reconnects after it do not call the tracker.
ConnectStep ==
  /\ chain.pc = "connect"
  /\ OnBlockConnectedQueues(chain.at)
  /\ IF chain.at = chain.goal
     THEN /\ tip' = chain.newTip
          /\ chain' = Between("accepted", TRUE)
     ELSE /\ chain' = [chain EXCEPT !.at = @ + 1]
          /\ UNCHANGED tip
  /\ UNCHANGED <<ibd, chainOnly>>

\* A block that cannot be read, disconnected or connected: the database
\* transaction is aborted, the tracker is not rolled back.
ReorganizeFails ==
  /\ chain.pc \in {"disconnect", "connect"}
  /\ chain' = IF chain.accepted THEN Between("accepted", TRUE) ELSE Between("idle", FALSE)
  /\ UNCHANGED <<tip, ibd, mapQueues, mapQueuesByHash, chainOnly>>

\* The end of ProcessBlock: nothing during initial download, else prune at
\* the tip and broadcast.
FinishProcessBlock ==
  /\ chain.pc = "accepted"
  /\ \E b \in BOOLEAN :
       /\ ibd' = b
       /\ chain' = Between(IF b THEN "idle" ELSE "prune", FALSE)
  /\ UNCHANGED <<tip, mapQueues, mapQueuesByHash, chainOnly>>

PruneAtTip ==
  /\ chain.pc = "prune"
  /\ OnBlockConnectedQueues(tip)
  /\ chain' = Between("broadcast", FALSE)
  /\ UNCHANGED <<tip, ibd, chainOnly>>

\* BroadcastQueue up to ProcessQueue: sign a queue for the tip and record it
\* here (the checks hold: the height is the tip's, the time is now).  It is
\* pushed whether or not the slot took it.
BroadcastQueue ==
  /\ chain.pc = "broadcast"
  /\ \E list \in OwnLists :
       LET q == [voter |-> Self, height |-> tip, payees |-> list, time |-> now]
       IN /\ Record(q)
          /\ inBroadcast' = q
  /\ chain' = Between("push", FALSE)
  /\ UNCHANGED <<tip, ibd, now, vMasternodes, inHandler, announced>>

\* The rest of BroadcastQueue, under cs_vNodes.
PushQueue ==
  /\ inBroadcast # NoQueue
  /\ announced' = announced \cup {inBroadcast}
  /\ inBroadcast' = NoQueue
  /\ chain' = Between("idle", FALSE)
  /\ UNCHANGED <<tip, ibd, now, vMasternodes, inHandler, mapQueues, mapQueuesByHash>>

\* Not a masternode, or its status is not capable.
SkipBroadcast ==
  /\ chain.pc = "broadcast"
  /\ chain' = Between("idle", FALSE)
  /\ UNCHANGED <<tip, ibd, mapQueues, mapQueuesByHash, chainOnly>>

-----------------------------------------------------------------------------
Tick ==
  /\ now < MaxTime
  /\ now' = now + 1
  /\ UNCHANGED <<tip, vMasternodes, mapQueues, mapQueuesByHash, inHandler, chain, inBroadcast, ibd,
                 announced>>

\* The store is memory only; the chain and the masternode list are on disk.
Restart ==
  /\ mapQueues' = [h \in Heights |-> [v \in Masternodes |-> NoQueue]]
  /\ mapQueuesByHash' = {}
  /\ inHandler' = NoQueue
  /\ chain' = Between("idle", FALSE)
  /\ inBroadcast' = NoQueue
  /\ ibd' = TRUE
  /\ announced' = {}
  /\ UNCHANGED <<tip, now, vMasternodes>>

Next ==
  \/ \E q \in Wire : ReceiveQueue(q) \/ RelayUnknown(q)
  \/ RecordReceived
  \/ SyncQueues
  \/ \E v \in Masternodes : LearnMasternode(v) \/ RemoveMasternode(v)
  \/ AcceptSideBlock \/ ExtendBestChain \/ StartReorganize
  \/ DisconnectStep \/ ConnectStep \/ ReorganizeFails
  \/ FinishProcessBlock \/ PruneAtTip \/ BroadcastQueue \/ PushQueue \/ SkipBroadcast
  \/ Tick \/ Restart

Spec == Init /\ [][Next]_vars
-----------------------------------------------------------------------------
\* The types of the store, the two threads and the histories.
TypeOK ==
  /\ tip \in 0 .. MaxTip
  /\ now \in Times
  /\ vMasternodes \subseteq Masternodes
  /\ mapQueues \in [Heights -> Ballots]
  /\ mapQueuesByHash \subseteq Queues
  /\ inHandler \in Queues \cup {NoQueue}
  /\ chain \in ChainStates
  /\ inBroadcast \in Queues \cup {NoQueue}
  /\ ibd \in BOOLEAN
  /\ announced \subseteq Queues

\* Reorganize walks down to the fork and up to the goal, never past them.
ReorgInBounds ==
  /\ chain.pc = "disconnect" => chain.fork < chain.at /\ chain.fork < chain.goal
  /\ chain.pc = "connect" => chain.at <= chain.goal

\* The chain thread pushes exactly when it has a queue to push.
PushPending == (chain.pc = "push") <=> (inBroadcast # NoQueue)

\* A queue lies in the slot of its own height and voter.
SlotsMatch ==
  \A h \in Heights, v \in Masternodes :
    mapQueues[h][v] # NoQueue => mapQueues[h][v].height = h /\ mapQueues[h][v].voter = v

\* The by-hash index that answers inv, getdata and getmnqueues holds exactly
\* the queues that are tallied: through replacement, both erase paths, failed
\* reorganizations and the unlocked gap of the handler, neither map keeps a
\* queue the other one lost.
IndexInLockstep == mapQueuesByHash = Stored

\* Newer-wins (ProcessQueue): a slot never changes from one queue to another
\* except to one signed strictly later, whatever order gossip arrives in.
NewerWins ==
  [][\A h \in Heights, v \in Masternodes :
       LET old == mapQueues[h][v]
           new == mapQueues'[h][v]
       IN old # NoQueue /\ new # NoQueue /\ new # old => new.time > old.time]_vars

\* The slots below the horizon of the tip.
OutOfWindow == {s \in Heights \X Masternodes :
                  mapQueues[s[1]][s[2]] # NoQueue /\ s[1] < tip - PastHorizon}

\* Pruning keeps up: once a ProcessBlock outside initial download is done, at
\* most one queue lies below the horizon, the one the message thread had
\* checked against an older tip and not yet recorded.
PruningKeepsUp == chain.pc = "idle" /\ ~ibd => Cardinality(OutOfWindow) <= 1

\* Nothing is black-holed: every queue this node tallies, or is about to
\* record for a peer, has been offered to its peers in this session.  The one
\* exception is the node's own queue between ProcessQueue and the push: it is
\* tallied, and getdata finds it, before any peer has heard of it.
StoredIsAnnounced ==
  /\ Stored \subseteq announced \cup {inBroadcast}
  /\ inHandler \in announced \cup {NoQueue}

\* The tracker seen from outside: the queues getdata can find and the queues
\* announced or pushed.
Outside == INSTANCE QueueStore WITH held <- mapQueuesByHash, offered <- announced

\* With its two maps, the unlocked gaps of the handler and of the broadcast,
\* the block-by-block walk of Reorganize and its failures, the tracker behaves
\* like a store with one atomic step per operation: queues come in newer, and
\* offered but for one at a time, whole heights go, and nothing else happens
\* to what the peers can ask for.
ImplementsStore == Outside!Spec
=============================================================================
