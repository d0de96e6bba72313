----------------------------- MODULE VoteQueue -----------------------------
(***************************************************************************)
(* Payee queues and the tally over them.                                   *)
(*                                                                         *)
(* A masternode votes for the payees of the next QueueLength blocks with   *)
(* one signed, ordered list (CMasternodeVoteQueue).  This module holds the *)
(* data a vote consists of, the windows in which a node accepts one, and   *)
(* the rule that turns the votes a node holds into the payee of a block    *)
(* (CMasternodeVoteTracker::GetCanonicalWinnerFromQueues).  It has no      *)
(* state: VoteTracker keeps the votes, VotedConsensus runs several nodes.  *)
(*                                                                         *)
(* Abstractions: scripts and outpoints are model values; a hash is the     *)
(* hashed record itself, so hashing is injective; GetHash and the signed   *)
(* string leave out the signature, and so does the record.                 *)
(***************************************************************************)
EXTENDS Integers, FiniteSets

CONSTANTS
  Masternodes,   \* voters, by collateral outpoint (COutPoint)
  Payees,        \* non-empty payee scripts (CScript)
  NoPayee,       \* the empty CScript(), pushed when nobody is eligible
  NoQueue,       \* an absent map entry
  MaxHeight,     \* bound: largest block height a queue can name
  MaxTime,       \* bound: largest value of the adjusted clock
  QueueLength,   \* VOTE_QUEUE_LENGTH
  PastHorizon,   \* VOTE_PAST_HORIZON
  ReorgBuffer,   \* REORG_DEPTH_BUFFER
  CommitBuffer,  \* VOTE_COMMIT_BUFFER
  TimeWindow,    \* VOTE_TIME_WINDOW_SECONDS
  MinEnabled,    \* MIN_ENABLED_FOR_CONSENSUS
  ThresholdNum,  \* VOTED_CONSENSUS_THRESHOLD_NUMERATOR
  ThresholdDen   \* VOTED_CONSENSUS_THRESHOLD_DENOMINATOR

\* What the code's compile-time constants satisfy.  The threshold is a
\* strict majority: twice the numerator exceeds the denominator.
ASSUME QueueConstants ==
  /\ IsFiniteSet(Masternodes)
  /\ NoPayee \notin Payees
  /\ MaxHeight \in Nat
  /\ MaxTime \in Nat
  /\ QueueLength \in Nat \ {0}
  /\ PastHorizon \in Nat
  /\ ReorgBuffer \in Nat
  /\ CommitBuffer \in Nat
  /\ TimeWindow \in Nat
  /\ MinEnabled \in Nat \ {0}
  /\ ThresholdNum \in Nat
  /\ ThresholdDen \in Nat \ {0}
  /\ 2 * ThresholdNum > ThresholdDen

Heights == 0 .. MaxHeight
Times == 0 .. MaxTime
Positions == 0 .. QueueLength - 1
Scripts == Payees \cup {NoPayee}

\* vPayeeQueue: exactly QueueLength entries, any other size is refused.
PayeeLists == [Positions -> Scripts]

\* CMasternodeVoteQueue, without its signature.
Queues == [voter : Masternodes, height : Heights, payees : PayeeLists, time : Times]

\* The sentinel is not a vote.  (TLC evaluates this on every run.)
ASSUME NoQueueAssumption == NoQueue \notin Queues

\* The queues of one queue height, by voter: std::map<COutPoint, Queue>.
Ballots == [Masternodes -> Queues \cup {NoQueue}]

-----------------------------------------------------------------------------
\* The windows of ProcessQueue, which the message handler checks as well.
HeightInWindow(h, tip) == h <= tip + ReorgBuffer /\ h >= tip - PastHorizon
TimeInWindow(t, now) == t <= now + TimeWindow /\ t >= now - TimeWindow

\* Position of a target height in a queue cast at height qh.
PositionOf(target, qh) == target - 1 - qh

\* tallyByPayee[p]: every voter whose queue names p at the position.
Voters(ballots, pos, p) ==
  {v \in Masternodes : ballots[v] # NoQueue /\ ballots[v].payees[pos] = p}

\* Mutant: the share is rounded down to whole votes.
ThresholdRoundedDown(votes, eligible) ==
  votes >= (eligible * ThresholdNum) \div ThresholdDen

ClearsThreshold(votes, eligible) ==
  votes * ThresholdDen >= eligible * ThresholdNum

\* The payees of tallyByPayee that clear the threshold.  A payee nobody
\* names has no tally entry.
Clearing(ballots, pos, eligible) ==
  {p \in Scripts : /\ Voters(ballots, pos, p) # {}
                   /\ ClearsThreshold(Cardinality(Voters(ballots, pos, p)), eligible)}

\* The queue heights that cover a target and name exactly one payee.
DecisiveHeights(mapQueues, target, eligible) ==
  {qh \in Heights :
     /\ qh >= target - QueueLength
     /\ qh <= target - 1
     /\ Cardinality(Clearing(mapQueues[qh], PositionOf(target, qh), eligible)) = 1}

\* GetCanonicalWinnerFromQueues: the payees it may return (none or one).
\* The newest decisive queue height wins; older ones are the fallback.
CanonicalWinner(mapQueues, tip, target, eligible) ==
  LET decisive == DecisiveHeights(mapQueues, target, eligible)
      newest   == {qh \in decisive : \A o \in decisive : o <= qh}
  IN IF tip < target - CommitBuffer \/ eligible < MinEnabled
     THEN {}
     ELSE UNION {Clearing(mapQueues[qh], PositionOf(target, qh), eligible) : qh \in newest}
=============================================================================
