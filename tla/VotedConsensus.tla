-------------------------- MODULE VotedConsensus ---------------------------
(***************************************************************************)
(* Several nodes, each with its own tip, masternode list and queue store,  *)
(* and the verdict each reads from it for the next blocks.                 *)
(*                                                                         *)
(* Every node runs a masternode.  A queue that was signed may reach any    *)
(* node at any time, in any order, again, or never: QueueGossip has the    *)
(* messages in between, VoteTracker the threads of one node.  Each node    *)
(* follows the chain at its own pace and may change branches; of the       *)
(* branches only heights matter.  What a node signs depends on its payment *)
(* record, which LastPaid shows to differ between nodes: ListsAt has the   *)
(* lists it may sign at a height.                                          *)
(***************************************************************************)
EXTENDS VoteQueue

CONSTANTS
  ListsAt,    \* height -> the payee lists a node may sign there
  Removable,  \* bound: masternodes that may be missing from a list
  SideBlocks, \* bound: nodes that are sent blocks off the best chain
  MaxTip      \* bound: highest tip

ASSUME ConsensusConstants ==
  /\ ListsAt \in [Heights -> SUBSET PayeeLists]
  /\ Removable \subseteq Masternodes
  /\ SideBlocks \subseteq Masternodes
  /\ MaxTip \in Heights

VARIABLES
  tip,           \* pindexBest->nHeight
  vMasternodes,  \* the list
  mapQueues,     \* the store
  cast           \* the queues that were signed

vars == <<tip, vMasternodes, mapQueues, cast>>

EmptyStore == [h \in Heights |-> [v \in Masternodes |-> NoQueue]]

Init ==
  /\ tip = [n \in Masternodes |-> 0]
  /\ vMasternodes = [n \in Masternodes |-> Masternodes]
  /\ mapQueues = [n \in Masternodes |-> EmptyStore]
  /\ cast = {}

-----------------------------------------------------------------------------
\* ProcessQueue, under the lock: newer wins.
Record(store, q) ==
  LET old == store[q.height][q.voter]
  IN IF old = NoQueue \/ q.time > old.time
     THEN [store EXCEPT ![q.height][q.voter] = q]
     ELSE store

\* Mutant: an erased height keeps a null entry in place of its map.
PruneLeavesNull(store, height) ==
  [h \in Heights |-> IF h < height - PastHorizon THEN NoQueue ELSE store[h]]

\* OnBlockConnectedQueues.
Prune(store, height) ==
  [h \in Heights |-> IF h < height - PastHorizon
                     THEN [v \in Masternodes |-> NoQueue] ELSE store[h]]

\* The queues n may sign at a height: in the same second as what it signed
\* there last, or in a later one.
Signed(n, height) ==
  LET earlier == {q.time : q \in {c \in cast : c.voter = n /\ c.height = height}}
      times == IF earlier = {} THEN {0}
               ELSE {t \in Times : \A e \in earlier : e <= t}
  IN [voter : {n}, height : {height}, payees : ListsAt[height], time : times]

\* The end of ProcessBlock when the tip moved: prune, then sign and record, or
\* not if the masternode is not in a capable state.
NewTip(n, height, store) ==
  /\ tip' = [tip EXCEPT ![n] = height]
  /\ LET pruned == Prune(store, height)
     IN \/ \E q \in Signed(n, height) :
             /\ mapQueues' = [mapQueues EXCEPT ![n] = Record(pruned, q)]
             /\ cast' = cast \cup {q}
        \/ /\ mapQueues' = [mapQueues EXCEPT ![n] = pruned]
           /\ UNCHANGED cast
  /\ UNCHANGED vMasternodes

\* The block extends the best chain.
ExtendBestChain(n) ==
  /\ tip[n] < MaxTip
  /\ NewTip(n, tip[n] + 1, mapQueues[n])

\* OnBlockDisconnectedQueues for each block down to a fork.  The queues of
\* these heights go whoever cast them, on whichever branch.
Disconnect(store, heights) ==
  [h \in Heights |-> IF h \in heights THEN [v \in Masternodes |-> NoQueue] ELSE store[h]]

\* The best chain moves to a branch that leaves it at a fork.
Reorganize(n) ==
  /\ n \in SideBlocks
  /\ \E fork \in 0 .. tip[n] - 1, goal \in 1 .. MaxTip :
       /\ fork < goal
       /\ NewTip(n, goal, Disconnect(mapQueues[n], fork + 1 .. tip[n]))

\* A block on the way cannot be disconnected or connected: the tip stays, the
\* queues are gone, and the blocks connected up to a height have pruned.
ReorganizeFails(n) ==
  /\ n \in SideBlocks
  /\ \E low \in 1 .. tip[n], height \in 0 .. MaxTip :
       mapQueues' = [mapQueues EXCEPT ![n] = Prune(Disconnect(@, low .. tip[n]), height)]
  /\ UNCHANGED <<tip, vMasternodes, cast>>

\* ProcessBlock for a block that does not become the best one: the queue of
\* the tip is computed and signed again.
AcceptSideBlock(n) ==
  /\ n \in SideBlocks
  /\ \E q \in Signed(n, tip[n]) :
       /\ mapQueues' = [mapQueues EXCEPT ![n] = Record(Prune(@, tip[n]), q)]
       /\ cast' = cast \cup {q}
  /\ UNCHANGED <<tip, vMasternodes>>

\* "mnvotequeue" that passes the handler's checks.
ReceiveQueue(n, q) ==
  /\ HeightInWindow(q.height, tip[n])
  /\ q.voter \in vMasternodes[n]
  /\ mapQueues' = [mapQueues EXCEPT ![n] = Record(@, q)]
  /\ UNCHANGED <<tip, vMasternodes, cast>>

\* The lists change by dsee and CheckAndRemove, each on its own.
Add(n, v) ==
  /\ v \notin vMasternodes[n]
  /\ vMasternodes' = [vMasternodes EXCEPT ![n] = @ \cup {v}]
  /\ UNCHANGED <<tip, mapQueues, cast>>

CheckAndRemove(n, v) ==
  /\ v \in vMasternodes[n] \cap Removable
  /\ vMasternodes' = [vMasternodes EXCEPT ![n] = @ \ {v}]
  /\ UNCHANGED <<tip, mapQueues, cast>>

\* The store is memory only; chain and list are on disk.
Restart(n) ==
  /\ mapQueues' = [mapQueues EXCEPT ![n] = EmptyStore]
  /\ UNCHANGED <<tip, vMasternodes, cast>>

Next ==
  \E n \in Masternodes :
    \/ ExtendBestChain(n) \/ AcceptSideBlock(n) \/ Restart(n)
    \/ Reorganize(n) \/ ReorganizeFails(n)
    \/ \E q \in cast : ReceiveQueue(n, q)
    \/ \E v \in Masternodes : Add(n, v) \/ CheckAndRemove(n, v)

Spec == Init /\ [][Next]_vars
-----------------------------------------------------------------------------
\* CountVotingEligible, all collaterals being mature.
CountVotingEligible(n) == Cardinality(vMasternodes[n])

\* The winner n reads for a height; the empty set when there is none.
Winner(n, target) == CanonicalWinner(mapQueues[n], tip[n], target, CountVotingEligible(n))

\* The payees of a height's position that n counts a supermajority for.
Supermajority(n, h, pos) ==
  IF CountVotingEligible(n) < MinEnabled THEN {}
  ELSE Clearing(mapQueues[n][h], pos, CountVotingEligible(n))

\* The voters that signed different queues for one height.
Resigned(h) ==
  {v \in Masternodes : \E p, q \in cast :
     /\ p.voter = v /\ q.voter = v /\ p.height = h /\ q.height = h
     /\ p.payees # q.payees}

\* The fewest votes that are at least the threshold's share of a count.
Quorum(eligible) == (eligible * ThresholdNum + ThresholdDen - 1) \div ThresholdDen

\* Every node has a tip, a list and a store of queues by height and voter.
TypeOK ==
  /\ tip \in [Masternodes -> 0 .. MaxTip]
  /\ vMasternodes \in [Masternodes -> SUBSET Masternodes]
  /\ mapQueues \in [Masternodes -> [Heights -> Ballots]]
  /\ cast \subseteq Queues

\* GetCanonicalWinnerFromQueues over queues cast at one height: two nodes (or
\* one node, twice) count supermajorities for different payees only if as many
\* voters as the two quorums share have signed two different queues for it.
\* Loss, order, repetition, restarts and different lists are not enough.
NoSplitWithoutResigning ==
  \A m, n \in Masternodes, h \in Heights, pos \in Positions :
    \A p \in Supermajority(m, h, pos), q \in Supermajority(n, h, pos) :
      p # q =>
        Cardinality(Resigned(h)) >=
          Quorum(CountVotingEligible(m)) + Quorum(CountVotingEligible(n))
            - Cardinality(Masternodes)
=============================================================================
