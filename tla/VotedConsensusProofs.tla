------------------------ MODULE VotedConsensusProofs -----------------------
(***************************************************************************)
(* The quorum argument for any number of nodes, any lists and any bounds:  *)
(* a split verdict over one queue height takes voters that signed twice.   *)
(*                                                                         *)
(* The invariant behind it is that a store holds, in the slot of a voter   *)
(* and a height, only a queue this voter signed for this height.  Then a   *)
(* voter counted for different payees by two nodes signed both, and the    *)
(* two supermajorities share at least as many voters as their sizes exceed *)
(* the number of masternodes.                                              *)
(***************************************************************************)
EXTENDS VotedConsensus, FiniteSetTheorems, TLAPS

\* A stored queue was signed, by the voter and for the height of its slot.
StoredWasSigned ==
  \A n, v \in Masternodes, h \in Heights :
    LET q == mapQueues[n][h][v]
    IN q # NoQueue => q \in cast /\ q.voter = v /\ q.height = h

ConsensusInv == TypeOK /\ StoredWasSigned

-----------------------------------------------------------------------------
\* What the operations on one store preserve.
SoundStore(store, signed) ==
  /\ store \in [Heights -> Ballots]
  /\ \A h \in Heights, v \in Masternodes :
       store[h][v] # NoQueue =>
         store[h][v] \in signed /\ store[h][v].voter = v /\ store[h][v].height = h

\* The store after a start holds nothing.
LEMMA EmptyIsSound == \A signed : SoundStore(EmptyStore, signed)
  BY DEF EmptyStore, SoundStore, Ballots

\* Pruning (OnBlockConnectedQueues) only forgets.
LEMMA PruneIsSound ==
  ASSUME NEW store, NEW signed, NEW height \in Heights, SoundStore(store, signed)
  PROVE  SoundStore(Prune(store, height), signed)
  BY DEF Prune, SoundStore, Ballots

\* So does disconnecting (OnBlockDisconnectedQueues).
LEMMA DisconnectIsSound ==
  ASSUME NEW store, NEW signed, NEW heights, SoundStore(store, signed)
  PROVE  SoundStore(Disconnect(store, heights), signed)
  BY DEF Disconnect, SoundStore, Ballots

\* Recording a signed queue (ProcessQueue) puts it into its own slot.
LEMMA RecordIsSound ==
  ASSUME NEW store, NEW signed, SoundStore(store, signed), NEW q \in Queues, q \in signed
  PROVE  SoundStore(Record(store, q), signed)
<1>1. q.height \in Heights /\ q.voter \in Masternodes
  BY DEF Queues
<1>2. CASE Record(store, q) = store
  BY <1>2
<1>3. CASE Record(store, q) = [store EXCEPT ![q.height][q.voter] = q]
  <2>1. Record(store, q) \in [Heights -> Ballots]
    BY <1>1, <1>3 DEF SoundStore, Ballots
  <2>2. \A h \in Heights, v \in Masternodes :
          \/ Record(store, q)[h][v] = store[h][v]
          \/ Record(store, q)[h][v] = q /\ q.voter = v /\ q.height = h
    BY <1>1, <1>3 DEF SoundStore, Ballots
  <2> QED BY <2>1, <2>2 DEF SoundStore
<1> QED BY <1>2, <1>3 DEF Record

\* Signing more does not spoil a store.
LEMMA MoreSigned ==
  ASSUME NEW store, NEW signed, NEW more, signed \subseteq more, SoundStore(store, signed)
  PROVE  SoundStore(store, more)
  BY DEF SoundStore

\* The invariant in terms of single stores.
LEMMA StoresSound ==
  ConsensusInv <=>
    /\ tip \in [Masternodes -> 0 .. MaxTip]
    /\ vMasternodes \in [Masternodes -> SUBSET Masternodes]
    /\ cast \subseteq Queues
    /\ mapQueues \in [Masternodes -> [Heights -> Ballots]]
    /\ \A n \in Masternodes : SoundStore(mapQueues[n], cast)
  BY DEF ConsensusInv, TypeOK, StoredWasSigned, SoundStore

-----------------------------------------------------------------------------
\* The invariant holds at the start.
LEMMA ConsensusInitially == Init => ConsensusInv
<1> SUFFICES ASSUME Init PROVE ConsensusInv
  OBVIOUS
<1>1. \A n \in Masternodes : SoundStore(mapQueues[n], cast)
  BY EmptyIsSound DEF Init
<1>2. mapQueues \in [Masternodes -> [Heights -> Ballots]]
  BY <1>1 DEF Init, SoundStore
<1>3. /\ tip \in [Masternodes -> 0 .. MaxTip]
      /\ vMasternodes \in [Masternodes -> SUBSET Masternodes]
      /\ cast \subseteq Queues
  BY ConsensusConstants DEF Init, Heights
<1> QED BY <1>1, <1>2, <1>3, StoresSound

\* One store changes, to a sound one, and no signature is forgotten.
LEMMA OneStoreChanges ==
  ASSUME ConsensusInv, NEW n \in Masternodes, NEW store,
         mapQueues' = [mapQueues EXCEPT ![n] = store],
         cast \subseteq cast', cast' \subseteq Queues, SoundStore(store, cast'),
         tip' \in [Masternodes -> 0 .. MaxTip],
         vMasternodes' \in [Masternodes -> SUBSET Masternodes]
  PROVE  ConsensusInv'
<1>1. /\ mapQueues \in [Masternodes -> [Heights -> Ballots]]
      /\ \A m \in Masternodes : SoundStore(mapQueues[m], cast)
  BY StoresSound
<1>2. \A m \in Masternodes : SoundStore(mapQueues[m], cast')
  BY <1>1, MoreSigned
<1>3. store \in [Heights -> Ballots]
  BY DEF SoundStore
<1>4. mapQueues' \in [Masternodes -> [Heights -> Ballots]]
  BY <1>1, <1>3
<1>5. \A m \in Masternodes : SoundStore(mapQueues'[m], cast')
  BY <1>1, <1>2
<1>6. \A m, v \in Masternodes, h \in Heights :
        mapQueues'[m][h][v] # NoQueue =>
          /\ mapQueues'[m][h][v] \in cast'
          /\ mapQueues'[m][h][v].voter = v
          /\ mapQueues'[m][h][v].height = h
  BY <1>5 DEF SoundStore
<1> QED BY <1>4, <1>6 DEF ConsensusInv, TypeOK, StoredWasSigned

\* What a node signs is a queue of its own for the height.
LEMMA SignedIsQueue ==
  ASSUME NEW n \in Masternodes, NEW h \in Heights, NEW q \in Signed(n, h)
  PROVE  q \in Queues
<1>1. ListsAt[h] \subseteq PayeeLists
  BY ConsensusConstants
<1>2. {0} \subseteq Times
  BY QueueConstants DEF Times
<1> DEFINE earlier == {c.time : c \in {c \in cast : c.voter = n /\ c.height = h}}
           times == IF earlier = {} THEN {0} ELSE {t \in Times : \A e \in earlier : e <= t}
<1>3. times \subseteq Times
  BY <1>2
<1>4. q \in [voter : {n}, height : {h}, payees : ListsAt[h], time : times]
  BY DEF Signed
<1> HIDE DEF times
<1> QED BY <1>1, <1>3, <1>4 DEF Queues

\* The end of ProcessBlock, whatever sound store it starts from.
LEMMA NewTipStep ==
  ASSUME ConsensusInv, NEW n \in Masternodes, NEW height \in 0 .. MaxTip, NEW store,
         SoundStore(store, cast), NewTip(n, height, store)
  PROVE  ConsensusInv'
<1> DEFINE pruned == Prune(store, height)
<1>1. /\ tip \in [Masternodes -> 0 .. MaxTip]
      /\ vMasternodes \in [Masternodes -> SUBSET Masternodes]
      /\ cast \subseteq Queues
  BY StoresSound
<1>2. height \in Heights
  BY ConsensusConstants, QueueConstants DEF Heights
<1>3. tip' \in [Masternodes -> 0 .. MaxTip] /\ vMasternodes' = vMasternodes
  BY <1>1 DEF NewTip
<1>4. SoundStore(pruned, cast)
  BY <1>2, PruneIsSound
<1>5. \/ \E q \in Signed(n, height) :
           /\ mapQueues' = [mapQueues EXCEPT ![n] = Record(pruned, q)]
           /\ cast' = cast \cup {q}
      \/ /\ mapQueues' = [mapQueues EXCEPT ![n] = pruned]
         /\ UNCHANGED cast
  BY DEF NewTip
<1> HIDE DEF pruned
<1>6. ASSUME NEW q \in Signed(n, height),
             mapQueues' = [mapQueues EXCEPT ![n] = Record(pruned, q)],
             cast' = cast \cup {q}
      PROVE  ConsensusInv'
  <2>1. q \in Queues
    BY <1>2, SignedIsQueue
  <2>2. SoundStore(pruned, cast')
    BY <1>4, <1>6, MoreSigned
  <2>3. SoundStore(Record(pruned, q), cast')
    BY <1>6, <2>1, <2>2, RecordIsSound
  <2> QED BY <1>1, <1>3, <1>6, <2>1, <2>3, OneStoreChanges
<1>7. CASE mapQueues' = [mapQueues EXCEPT ![n] = pruned] /\ UNCHANGED cast
  BY <1>1, <1>3, <1>4, <1>7, OneStoreChanges
<1> QED BY <1>5, <1>6, <1>7

\* Every step of every node preserves the invariant.
LEMMA ConsensusStep == ConsensusInv /\ [Next]_vars => ConsensusInv'
<1> SUFFICES ASSUME ConsensusInv, [Next]_vars PROVE ConsensusInv'
  OBVIOUS
<1>1. /\ tip \in [Masternodes -> 0 .. MaxTip]
      /\ vMasternodes \in [Masternodes -> SUBSET Masternodes]
      /\ cast \subseteq Queues
      /\ mapQueues \in [Masternodes -> [Heights -> Ballots]]
      /\ \A n \in Masternodes : SoundStore(mapQueues[n], cast)
  BY StoresSound
<1>2. MaxTip \in Nat /\ 0 .. MaxTip \subseteq Heights
  BY ConsensusConstants, QueueConstants DEF Heights
<1>3. ASSUME NEW n \in Masternodes, ExtendBestChain(n) PROVE ConsensusInv'
  <2>1. tip[n] + 1 \in 0 .. MaxTip /\ NewTip(n, tip[n] + 1, mapQueues[n])
    BY <1>1, <1>2, <1>3 DEF ExtendBestChain
  <2> QED BY <1>1, <2>1, NewTipStep
<1>9. ASSUME NEW n \in Masternodes, Reorganize(n) PROVE ConsensusInv'
  <2>1. PICK fork \in 0 .. tip[n] - 1, goal \in 1 .. MaxTip :
          NewTip(n, goal, Disconnect(mapQueues[n], fork + 1 .. tip[n]))
    BY <1>9 DEF Reorganize
  <2>2. SoundStore(Disconnect(mapQueues[n], fork + 1 .. tip[n]), cast) /\ goal \in 0 .. MaxTip
    BY <1>1, <1>2, DisconnectIsSound
  <2> QED BY <2>1, <2>2, NewTipStep
<1>10. ASSUME NEW n \in Masternodes, ReorganizeFails(n) PROVE ConsensusInv'
  <2>1. PICK low \in 1 .. tip[n], height \in 0 .. MaxTip :
          mapQueues' = [mapQueues EXCEPT ![n] =
                          Prune(Disconnect(mapQueues[n], low .. tip[n]), height)]
    BY <1>1, <1>10 DEF ReorganizeFails
  <2>2. tip' = tip /\ vMasternodes' = vMasternodes /\ cast' = cast /\ height \in Heights
    BY <1>2, <1>10 DEF ReorganizeFails
  <2>3. SoundStore(Disconnect(mapQueues[n], low .. tip[n]), cast)
    BY <1>1, DisconnectIsSound
  <2>4. SoundStore(Prune(Disconnect(mapQueues[n], low .. tip[n]), height), cast')
    BY <2>2, <2>3, PruneIsSound
  <2> QED BY <1>1, <2>1, <2>2, <2>4, OneStoreChanges
<1>4. ASSUME NEW n \in Masternodes, AcceptSideBlock(n) PROVE ConsensusInv'
  <2>1. tip[n] \in Heights
    BY <1>1, <1>2
  <2>2. PICK q \in Signed(n, tip[n]) :
          /\ mapQueues' = [mapQueues EXCEPT ![n] = Record(Prune(mapQueues[n], tip[n]), q)]
          /\ cast' = cast \cup {q}
    BY <1>1, <1>4 DEF AcceptSideBlock
  <2>3. q \in Queues
    BY <2>1, SignedIsQueue
  <2>4. SoundStore(Prune(mapQueues[n], tip[n]), cast)
    BY <1>1, <2>1, PruneIsSound
  <2>5. SoundStore(Prune(mapQueues[n], tip[n]), cast')
    BY <2>2, <2>4, MoreSigned
  <2>6. SoundStore(Record(Prune(mapQueues[n], tip[n]), q), cast')
    BY <2>2, <2>3, <2>5, RecordIsSound
  <2>7. tip' = tip /\ vMasternodes' = vMasternodes
    BY <1>4 DEF AcceptSideBlock
  <2> QED BY <1>1, <2>2, <2>3, <2>6, <2>7, OneStoreChanges
<1>5. ASSUME NEW n \in Masternodes, NEW q \in cast, ReceiveQueue(n, q) PROVE ConsensusInv'
  <2>1. /\ mapQueues' = [mapQueues EXCEPT ![n] = Record(mapQueues[n], q)]
        /\ tip' = tip /\ vMasternodes' = vMasternodes /\ cast' = cast
    BY <1>1, <1>5 DEF ReceiveQueue
  <2>2. SoundStore(Record(mapQueues[n], q), cast')
    BY <1>1, <2>1, RecordIsSound
  <2> QED BY <1>1, <2>1, <2>2, OneStoreChanges
<1>6. ASSUME NEW n \in Masternodes, NEW v \in Masternodes, Add(n, v) \/ CheckAndRemove(n, v)
      PROVE  ConsensusInv'
  <2>1. vMasternodes' \in [Masternodes -> SUBSET Masternodes]
    BY <1>1, <1>6 DEF Add, CheckAndRemove
  <2>2. tip' = tip /\ mapQueues' = mapQueues /\ cast' = cast
    BY <1>6 DEF Add, CheckAndRemove
  <2> QED BY <2>1, <2>2 DEF ConsensusInv, TypeOK, StoredWasSigned
<1>7. ASSUME NEW n \in Masternodes, Restart(n) PROVE ConsensusInv'
  BY <1>1, <1>7, EmptyIsSound, OneStoreChanges DEF Restart
<1>8. CASE UNCHANGED vars
  BY <1>8 DEF vars, ConsensusInv, TypeOK, StoredWasSigned
<1> QED BY <1>3, <1>4, <1>5, <1>6, <1>7, <1>8, <1>9, <1>10 DEF Next

-----------------------------------------------------------------------------
\* A tally that clears the threshold has at least a quorum's votes.
LEMMA ClearingIsQuorum ==
  ASSUME NEW votes \in Nat, NEW eligible \in Nat, ClearsThreshold(votes, eligible)
  PROVE  Quorum(eligible) \in Int /\ votes >= Quorum(eligible)
<1> DEFINE d == ThresholdDen  x == eligible * ThresholdNum  k == (x + d - 1) \div d
<1>1. d \in Nat /\ d > 0 /\ x \in Nat
  BY QueueConstants
<1>2. votes * d >= x
  BY DEF ClearsThreshold
<1>3. Quorum(eligible) = k
  BY DEF Quorum
<1> HIDE DEF d, x
<1>4. k \in Int /\ k * d <= x + d - 1
  BY <1>1
<1> HIDE DEF k
<1>5. ASSUME votes + 1 <= k PROVE FALSE
  <2>1. (votes + 1) * d <= k * d
    BY <1>1, <1>4, <1>5
  <2>2. (votes + 1) * d = votes * d + d
    BY <1>1
  <2>3. votes * d \in Int /\ k * d \in Int
    BY <1>1, <1>4
  <2> QED BY <1>1, <1>2, <1>4, <2>1, <2>2, <2>3
<1> QED BY <1>3, <1>4, <1>5

\* The step from the invariant to the property.
LEMMA SplitNeedsResigning == ConsensusInv => NoSplitWithoutResigning
<1> SUFFICES ASSUME ConsensusInv,
                    NEW m \in Masternodes, NEW n \in Masternodes,
                    NEW h \in Heights, NEW pos \in Positions,
                    NEW p \in Supermajority(m, h, pos), NEW q \in Supermajority(n, h, pos),
                    p # q
             PROVE  Cardinality(Resigned(h)) >=
                      Quorum(CountVotingEligible(m)) + Quorum(CountVotingEligible(n))
                        - Cardinality(Masternodes)
  BY DEF NoSplitWithoutResigning
<1> DEFINE A == Voters(mapQueues[m][h], pos, p)
           B == Voters(mapQueues[n][h], pos, q)
           qm == Quorum(CountVotingEligible(m))
           qn == Quorum(CountVotingEligible(n))
<1>1. IsFiniteSet(Masternodes)
  BY QueueConstants
<1>2. A \subseteq Masternodes /\ B \subseteq Masternodes
  BY DEF Voters
<1>3. CountVotingEligible(m) \in Nat /\ CountVotingEligible(n) \in Nat
  <2>1. vMasternodes[m] \subseteq Masternodes /\ vMasternodes[n] \subseteq Masternodes
    BY DEF ConsensusInv, TypeOK
  <2> QED BY <1>1, <2>1, FS_Subset, FS_CardinalityType DEF CountVotingEligible
<1>4. /\ ClearsThreshold(Cardinality(A), CountVotingEligible(m))
      /\ ClearsThreshold(Cardinality(B), CountVotingEligible(n))
  BY DEF Supermajority, Clearing
<1>5. A \cap B \subseteq Resigned(h)
  <2> SUFFICES ASSUME NEW v \in A \cap B PROVE v \in Resigned(h)
    OBVIOUS
  <2> DEFINE x == mapQueues[m][h][v]  y == mapQueues[n][h][v]
  <2>1. v \in Masternodes /\ x # NoQueue /\ y # NoQueue /\ x.payees[pos] = p /\ y.payees[pos] = q
    BY DEF Voters
  <2>2. /\ x \in cast /\ x.voter = v /\ x.height = h
        /\ y \in cast /\ y.voter = v /\ y.height = h
    BY <2>1 DEF ConsensusInv, StoredWasSigned
  <2>3. x.payees # y.payees
    BY <2>1
  <2> HIDE DEF x, y
  <2> QED BY <2>1, <2>2, <2>3 DEF Resigned
<1>6. Resigned(h) \subseteq Masternodes
  BY DEF Resigned
<1> HIDE DEF A, B
<1>7. /\ IsFiniteSet(A) /\ IsFiniteSet(B) /\ IsFiniteSet(A \cup B) /\ IsFiniteSet(A \cap B)
      /\ IsFiniteSet(Resigned(h))
  <2>1. A \cup B \subseteq Masternodes /\ A \cap B \subseteq Masternodes
    BY <1>2
  <2> QED BY <1>1, <1>2, <1>6, <2>1, FS_Subset
<1>8. Cardinality(A \cup B) <= Cardinality(Masternodes)
  BY <1>1, <1>2, FS_Subset
<1>9. Cardinality(A \cup B) = Cardinality(A) + Cardinality(B) - Cardinality(A \cap B)
  BY <1>7, FS_Union
<1>10. Cardinality(A \cap B) <= Cardinality(Resigned(h))
  BY <1>5, <1>7, FS_Subset
<1>11. /\ Cardinality(A) \in Nat /\ Cardinality(B) \in Nat /\ Cardinality(A \cap B) \in Nat
       /\ Cardinality(A \cup B) \in Nat /\ Cardinality(Resigned(h)) \in Nat
       /\ Cardinality(Masternodes) \in Nat
  BY <1>1, <1>7, FS_CardinalityType
<1>12. /\ qm \in Int /\ qn \in Int
       /\ Cardinality(A) >= qm /\ Cardinality(B) >= qn
  BY <1>3, <1>4, <1>11, ClearingIsQuorum
<1> HIDE DEF qm, qn
<1>13. Cardinality(Resigned(h)) >= qm + qn - Cardinality(Masternodes)
  BY <1>8, <1>9, <1>10, <1>11, <1>12
<1> QED BY <1>13 DEF qm, qn

\* For any number of masternodes, any lists and any threshold above one half,
\* two nodes count supermajorities for different payees at one queue height
\* only if at least as many voters as the quorums must share have signed two
\* different queues for it (GetCanonicalWinnerFromQueues over the stores that
\* ProcessQueue, pruning and restarts leave behind).
THEOREM ConsensusMargin == Spec => []NoSplitWithoutResigning
<1>1. Spec => []ConsensusInv
  BY ConsensusInitially, ConsensusStep, PTL DEF Spec
<1> QED BY <1>1, SplitNeedsResigning, PTL

\* For every instance: tips, lists, stores and signed queues keep their types.
THEOREM ConsensusTypes == Spec => []TypeOK
<1>1. ConsensusInv => TypeOK
  BY DEF ConsensusInv
<1> QED BY <1>1, ConsensusInitially, ConsensusStep, PTL DEF Spec

-----------------------------------------------------------------------------
(***************************************************************************)
(* The threshold is a quorum: two tallies of the same queue height that    *)
(* agree on every voter both know cannot elect different payees, as long   *)
(* as the voters are no more than the eligible masternodes.                *)
(***************************************************************************)

\* The voters that cast a queue in a ballot.
Cast(ballots) == {v \in Masternodes : ballots[v] # NoQueue}

\* Two disjoint groups of at most e voters cannot both clear the threshold.
LEMMA TwoQuorumsOverflow ==
  ASSUME NEW a \in Nat, NEW b \in Nat, NEW e \in Nat, a + b <= e, 0 < a,
         ClearsThreshold(a, e), ClearsThreshold(b, e)
  PROVE  FALSE
<1>1. /\ ThresholdNum \in Nat /\ ThresholdDen \in Nat
      /\ 2 * ThresholdNum >= ThresholdDen + 1
  BY QueueConstants
<1> DEFINE n == ThresholdNum  d == ThresholdDen
<1>2. n \in Nat /\ d \in Nat /\ 2 * n >= d + 1
  BY <1>1
<1>3. a * d >= e * n /\ b * d >= e * n
  BY DEF ClearsThreshold
<1> HIDE DEF n, d
<1>4. (a + b) * d <= e * d
  BY <1>2
<1>5. (a + b) * d = a * d + b * d
  BY <1>2
<1>6. e * (2 * n) >= e * (d + 1)
  BY <1>2
<1>7. e * (2 * n) = e * n + e * n /\ e * (d + 1) = e * d + e
  BY <1>2
<1>8. /\ a * d \in Int /\ b * d \in Int /\ e * n \in Int /\ e * d \in Int
  BY <1>2
<1> QED
  BY <1>3, <1>4, <1>5, <1>6, <1>7, <1>8

\* GetCanonicalWinnerFromQueues on two nodes, or on one node at two times: if
\* no voter shows them different queues and the voters both sides hold are at
\* most the eligible masternodes, the same payee clears the threshold on both.
THEOREM QuorumsAgree ==
  ASSUME NEW b1 \in Ballots, NEW b2 \in Ballots, NEW pos \in Positions, NEW eligible \in Nat,
         \A v \in Cast(b1) \cap Cast(b2) : b1[v] = b2[v],
         Cardinality(Cast(b1) \cup Cast(b2)) <= eligible,
         NEW p \in Clearing(b1, pos, eligible), NEW q \in Clearing(b2, pos, eligible)
  PROVE  p = q
<1> SUFFICES ASSUME p # q PROVE FALSE
  OBVIOUS
<1> DEFINE A == Voters(b1, pos, p)  B == Voters(b2, pos, q)  U == Cast(b1) \cup Cast(b2)
<1>1. A \cap B = {}
  BY DEF Voters, Cast
<1>2. A \cup B \subseteq U
  BY DEF Voters, Cast
<1>3. IsFiniteSet(U)
  <2>1. U \subseteq Masternodes
    BY DEF Cast
  <2> QED BY <2>1, QueueConstants, FS_Subset
<1>4. IsFiniteSet(A) /\ IsFiniteSet(B) /\ IsFiniteSet(A \cup B)
  BY <1>2, <1>3, FS_Subset
<1>5. Cardinality(A \cup B) <= Cardinality(U)
  BY <1>2, <1>3, FS_Subset
<1>6. Cardinality(A \cup B) = Cardinality(A) + Cardinality(B) - Cardinality(A \cap B)
  BY <1>4, FS_Union
<1>7. Cardinality(A \cap B) = 0
  BY <1>1, FS_EmptySet
<1>8. /\ Cardinality(A) \in Nat /\ Cardinality(B) \in Nat /\ Cardinality(U) \in Nat
      /\ Cardinality(A \cup B) \in Nat
  BY <1>3, <1>4, FS_CardinalityType
<1>9. A # {} /\ ClearsThreshold(Cardinality(A), eligible) /\ ClearsThreshold(Cardinality(B), eligible)
  BY DEF Clearing
<1>10. Cardinality(A) > 0
  BY <1>4, <1>8, <1>9, FS_EmptySet
<1>11. Cardinality(A) + Cardinality(B) <= eligible
  BY <1>5, <1>6, <1>7, <1>8
<1> QED
  BY <1>8, <1>9, <1>10, <1>11, TwoQuorumsOverflow

\* The branch of GetCanonicalWinnerFromQueues for an ambiguous position (two
\* payees clear the threshold) is taken only when more voters are stored for
\* the height than are eligible: the tally does not filter its voters.
THEOREM AtMostOneClears ==
  ASSUME NEW ballots \in Ballots, NEW pos \in Positions, NEW eligible \in Nat,
         Cardinality(Cast(ballots)) <= eligible,
         NEW p \in Clearing(ballots, pos, eligible), NEW q \in Clearing(ballots, pos, eligible)
  PROVE  p = q
<1>1. Cast(ballots) \cup Cast(ballots) = Cast(ballots)
  OBVIOUS
<1> QED
  BY <1>1, QuorumsAgree
=============================================================================
