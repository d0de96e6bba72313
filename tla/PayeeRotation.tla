--------------------------- MODULE PayeeRotation ---------------------------
(***************************************************************************)
(* Who is paid next: the forward simulation a masternode signs as its      *)
(* queue (SimulateQueue over GetQueuePaymentSnapshot) at every new tip.    *)
(*                                                                         *)
(* The node's view is exact here: LastPaid has the ways in which it is     *)
(* not.  Every block may follow the head of the queue, or pay somebody     *)
(* else (the legacy fallbacks), or nobody (the devops address), and may    *)
(* confirm the collateral of a new masternode.                             *)
(***************************************************************************)
EXTENDS Integers

CONSTANTS
  NumMasternodes,    \* masternodes are numbered in the order of their outpoints
  Nobody,            \* the empty script; the devops address
  QueueLength,       \* VOTE_QUEUE_LENGTH
  ReferenceLag,      \* VOTE_LOOKAHEAD + REORG_DEPTH_BUFFER
  EligibilityDepth,  \* VOTER_ELIGIBILITY_DEPTH
  FirstHeight,       \* bound: height of the tip at the start
  MaxHeight          \* bound: height of the last tip

\* The code's values are 10, 20 and 17: a collateral confirmed after a queue
\* was cast is not eligible for any height the queue names.
ASSUME RotationConstants ==
  /\ NumMasternodes \in Nat \ {0}
  /\ QueueLength \in Nat \ {0}
  /\ ReferenceLag \in Nat
  /\ EligibilityDepth \in Nat
  /\ ReferenceLag + EligibilityDepth >= QueueLength
  /\ FirstHeight \in Nat /\ MaxHeight \in Nat /\ FirstHeight <= MaxHeight
  /\ Nobody \notin 1 .. NumMasternodes

VARIABLES
  height,     \* pindexBest->nHeight
  confirmed,  \* GetCollateralConfirmedHeight(), -1 when there is none
  paid,       \* mapLastPaidHeight, 0 when there is no entry
  queue,      \* the queue cast for the current tip
  waited      \* history: blocks that followed the queue past an eligible masternode

vars == <<height, confirmed, paid, queue, waited>>

Masternodes == 1 .. NumMasternodes
Positions == 0 .. QueueLength - 1
HeightOrNone == 0 .. MaxHeight

-----------------------------------------------------------------------------
\* The height of a position of a queue cast at qh.
TargetOf(qh, p) == qh + 1 + p

\* Mutant: eligibility is judged at the target height itself.
EligibleAtTarget(conf, target) ==
  {m \in Masternodes : conf[m] >= 0 /\ conf[m] + EligibilityDepth <= target}

\* IsVotingEligible(referenceHeight), from the snapshot's confirmedHeight.
EligibleFor(conf, target) ==
  LET reference == target - ReferenceLag
  IN {m \in Masternodes :
        reference > 0 /\ conf[m] >= 0 /\ conf[m] + EligibilityDepth <= reference}

\* Mutant: payments do not count, only the age of the collateral.
RankByConfirmation(conf, simPaid, m) == conf[m]

\* The last payment, or the confirmation for a masternode never paid.
Rank(conf, simPaid, m) == IF simPaid[m] # 0 THEN simPaid[m] ELSE conf[m]

\* Smallest rank, then smallest outpoint; Nobody when nobody is eligible.
Oldest(conf, simPaid, target) ==
  LET candidates == EligibleFor(conf, target)
      Before(m, n) == \/ Rank(conf, simPaid, m) < Rank(conf, simPaid, n)
                      \/ Rank(conf, simPaid, m) = Rank(conf, simPaid, n) /\ m < n
  IN IF candidates = {} THEN Nobody
     ELSE CHOOSE m \in candidates : \A n \in candidates \ {m} : Before(m, n)

\* Record a payment; Nobody is no masternode.
Pay(simPaid, m, h) == [n \in Masternodes |-> IF n = m THEN h ELSE simPaid[n]]

\* Mutant: the chosen masternode's simulated payment is not advanced.
SimulateWithoutAdvance(qh, conf, snapshot) ==
  [p \in Positions |-> Oldest(conf, snapshot, TargetOf(qh, p))]

\* Mutant: the loop runs one position too far.
SimulateOneTooMany(qh, conf, snapshot) ==
  LET sim[p \in 0 .. QueueLength] ==
        IF p = 0 THEN snapshot
        ELSE Pay(sim[p - 1], Oldest(conf, sim[p - 1], TargetOf(qh, p - 1)), TargetOf(qh, p - 1))
  IN [p \in 0 .. QueueLength |-> Oldest(conf, sim[p], TargetOf(qh, p))]

\* SimulateQueue: fill the positions in order, each time advancing the chosen
\* masternode's simulated payment.  sim[p] is simPaid before position p.
SimulateQueue(qh, conf, snapshot) ==
  LET sim[p \in 0 .. QueueLength] ==
        IF p = 0 THEN snapshot
        ELSE Pay(sim[p - 1], Oldest(conf, sim[p - 1], TargetOf(qh, p - 1)), TargetOf(qh, p - 1))
  IN [p \in Positions |-> Oldest(conf, sim[p], TargetOf(qh, p))]

-----------------------------------------------------------------------------
\* Any past: collaterals confirmed and payments made below the tip, one
\* payment a block.
Init ==
  /\ height = FirstHeight
  /\ confirmed \in [Masternodes -> -1 .. FirstHeight]
  /\ paid \in [Masternodes -> 0 .. FirstHeight]
  /\ \A m \in Masternodes : paid[m] # 0 => confirmed[m] >= 0 /\ confirmed[m] < paid[m]
  /\ \A m, n \in Masternodes : paid[m] = paid[n] /\ paid[m] # 0 => m = n
  /\ queue = SimulateQueue(height, confirmed, paid)
  /\ waited = [m \in Masternodes |-> 0]

\* A block that pays m (or Nobody) and confirms the collaterals of new, and
\* the queue cast on top of it.
NewBlock(m, new) ==
  /\ height < MaxHeight
  /\ height' = height + 1
  /\ confirmed' = [n \in Masternodes |-> IF n \in new THEN height + 1 ELSE confirmed[n]]
  /\ paid' = Pay(paid, m, height + 1)
  /\ queue' = SimulateQueue(height', confirmed', paid')
  /\ waited' = [n \in Masternodes |->
       CASE n = m -> 0
         [] n # m /\ m = queue[0] /\ n \in EligibleFor(confirmed, height + 1) -> waited[n] + 1
         [] OTHER -> waited[n]]

Confirmable == {n \in Masternodes : confirmed[n] = -1}

FollowQueue == \E new \in SUBSET Confirmable : NewBlock(queue[0], new)

PayOther ==
  \E m \in {n \in Masternodes : confirmed[n] >= 0} \cup {Nobody}, new \in SUBSET Confirmable :
    m # queue[0] /\ NewBlock(m, new)

Next == FollowQueue \/ PayOther

Spec == Init /\ [][Next]_vars
-----------------------------------------------------------------------------
\* Every queue names exactly QueueLength payees, masternodes or nobody.
TypeOK ==
  /\ height \in HeightOrNone
  /\ confirmed \in [Masternodes -> -1 .. MaxHeight]
  /\ paid \in [Masternodes -> HeightOrNone]
  /\ queue \in [Positions -> Masternodes \cup {Nobody}]
  /\ waited \in [Masternodes -> Nat]

\* Queues of successive heights agree: when a block pays the head of the
\* queue, the queue cast on top of it is the old one moved up by one.  Older
\* queues are then a sound fallback in GetCanonicalWinnerFromQueues.
QueuesShift ==
  [][paid' = Pay(paid, queue[0], height + 1) =>
       \A p \in Positions \ {0} : queue'[p - 1] = queue[p]]_vars

\* No streak: a masternode is named again only after every masternode that is
\* eligible for the later height has been named in between.
NoRepeatBeforeAll ==
  \A i, j \in Positions :
    i < j /\ queue[i] = queue[j] /\ queue[i] # Nobody =>
      \A m \in EligibleFor(confirmed, TargetOf(height, j)) \ {queue[i]} :
        \E k \in i + 1 .. j - 1 : queue[k] = m

\* Nobody starves: once eligible, a masternode is passed over by at most one
\* followed block per other masternode, whoever the blocks that do not follow
\* the queue pay and whoever joins meanwhile.
NobodyStarves == \A m \in Masternodes : waited[m] < NumMasternodes
=============================================================================
