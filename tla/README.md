# A verification project for DigitalNote's masternode-voted payments

DigitalNote-2 is a proof-of-stake/proof-of-work coin wallet of the Bitcoin
family.  Its own core logic, as opposed to what it inherits, is the payment of
masternodes: since v2.0.0.8 the masternodes *vote* for the payees of the next
blocks, every node tallies the votes, and block validation enforces the winner.
Nodes that tally differently reject each other's blocks, so this is where an
interleaving nobody tested forks the network.  The project models this part
first, from the source under `src/src/`.

## 1. Inventory

| Part | State | Operations | Model |
|---|---|---|---|
| Vote tracker (`cmasternodevotetracker.cpp`) | `mapQueues` (height -> voter -> queue), `mapQueuesByHash`, both memory only | `ProcessQueue`, `SyncQueues`, `GetCanonicalWinnerFromQueues`, `OnBlockConnectedQueues`, `OnBlockDisconnectedQueues`, the handlers of `mnvotequeue` and `getmnqueues` | `VoteQueue`, `VoteTracker`, `QueueStore`, `VotedConsensus` |
| Queue producer (`cactivemasternode.cpp`) | status and key of this masternode | `SimulateQueue`, `BroadcastQueue`; `ManageStatus`, `Register`, `Dseep`, `StopMasterNode` | `PayeeRotation`, `BroadcastQueue` in `VoteTracker`, the last three in `MasternodeList` |
| Queue relay (`main.cpp`, `net/cnode.cpp`) | per connection: `mapAskFor`, `setAskFor`, messages in flight | `inv`, `getdata`, `AskFor`, `SendMessages`, `verack` | `QueueGossip` |
| Payment record (`cmasternodeman.cpp`) | `vMasternodes`, `mapLastPaidHeight`, `mapHistoricalPayees` | `OnBlockConnected`, `OnBlockDisconnected`, `RecomputeLastPaidHeight`, `PopulateLastPaidHeightCache`, `Add`, `CheckAndRemove`, `OnBlockAccepted` | `LastPaid`, the historical payees in `PayeeEnforcement` |
| Best chain (`cblock.cpp`, `main.cpp`) | `pindexBest`, the stored best chain | `SetBestChain`, `SetBestChainInner`, `Reorganize`, `ProcessBlock` | as far as it drives the parts around it: `LastPaid`, `VoteTracker` (step by step), `PayeeEnforcement` (orphans, fork choice, what is checked) |
| Enforcement (`cblock.cpp`, `miner.cpp`, `cwallet.cpp`) | none of its own | `GetEnforcedPayee`, the payee checks of `CheckBlock`, the choice and demotion of the payee in `CreateNewBlock` and `CreateCoinStake` | `PayeeEnforcement` |
| Sporks (`spork.cpp`) | `mapSporks`, `mapSporksActive` | `ProcessSpork`, `GetSporkValue`; they move the activation height | `PayeeEnforcement`, on one node |
| Masternode list protocol (`cmasternodeman.cpp`, `cmasternode.cpp`) | the list, `mAskedUs...`, `mWeAskedFor...` | `dsee`, `dseep`, `dseg`, `Check`, `CheckAndRemove` | `MasternodeList`, for one masternode on several nodes |
| Legacy votes (`cmasternodepayments.cpp`) | `vWinning`, `mapSeenMasternodeVotes` | `mnw`, `GetBlockPayee`, `ProcessBlock` | inert: nothing reachable writes `vWinning`; `PayeeEnforcement` models the lookup as finding nothing |
| Threads and locks (`thread/`, all of the above) | `cs_main`, `mempool.cs`, `mnodeman.cs`, `voteTracker.cs`, `cs_vNodes`, `cs_vSend` | `LOCK`, `TRY_LOCK` on the payment paths of five kinds of threads | `LockOrder` |
| InstantX, MNengine pool, mempool and orphans, address manager, key pool | their maps | - | candidates for later |
| Script, kernel, difficulty, secure messaging, database, RPC, Qt, vendored code | - | - | not modelled (see section 8) |

How they interact.  The chain thread (whoever calls `ProcessBlock`, under `cs_main`)
connects and disconnects blocks; each one updates the payment record and, inside
`Reorganize`, the tracker.  `pindexBest` moves only at the end of `SetBestChain`.  At
the end of `ProcessBlock` the tracker is pruned and, on a masternode, a new queue is
computed from the record, recorded under the tracker's lock and then pushed under
`cs_vNodes`.  The message thread receives queues *without* `cs_main`, reads the tip,
relays, and takes the tracker's lock afterwards.  Other threads add masternodes, with a
walk down from `pindexBest`, and remove them under `mnodeman.cs`; the `dsee` of a listed
one walks without any lock and writes later.  Staking and validation read the tally.  A
block is stored in several database transactions: its index entry first, then the best
chain, of a longer branch block by block.

What is hard here, in short: state read outside the lock that protects it; hooks that
run before the tip moves; a rollback that is not complete when a reorganization fails; a
crash between two transactions of one block; a store that lives in memory while the
chain does not; two maps kept in step by hand; votes that are lost, late, repeated or
signed twice; quorums over lists that differ.  `PROJECT.json` lists the hazards one by
one with their lines and the properties that look for them.

What makes each part correct:

- tracker: both maps agree, the store stays in its window, gossip order does not
  decide which queue of a voter counts, nothing is tallied that peers were not
  offered, but for the own queue until its push;
- tally: nodes never name different winners as long as voters sign one queue;
- relay: a queue reaches every node that can check it; no request made once per
  connection, duplicate, lost connection or restart strands it;
- record: between blocks, the height of each masternode's last payment on the
  best chain;
- producer: fair rotation, and queues of successive heights that agree;
- enforcement: the best chain is the heaviest that was not refused or cut off by a
  crash, no orphan is forgotten, only the best chain attests payees, and a voted winner
  is enforced wherever a block extends the tip;
- masternode list: who runs is in every list under its present address, who is
  silent leaves every list, although nodes hand entries to one another;
- locks: no threads that wait for one another.

## 2. Modules

`VoteQueue` (no state).  A queue is a record of voter, height, list of
`QueueLength` payees and time; its hash is the record.  The height and time
windows of `ProcessQueue`, and `GetCanonicalWinnerFromQueues` as an operator from
a store to the set of winners (empty or one element).

`VoteTracker` extends it: one node, two threads.  `inHandler` is the queue the
message thread has checked but not recorded, `chain` the position of the chain
thread in `ProcessBlock`/`Reorganize`, `inBroadcast` the own queue that
`BroadcastQueue` has recorded but `PushQueue` not yet pushed: the message thread
runs in that gap too, and may serve the queue.  `announced` is a history of what was
offered to peers, `ibd` what the last `ProcessBlock` saw of initial download.
Reads (`AlreadyHaveQueue`, `GetQueueByHash`, RPC) are expressions.
`mapEquivocators` has no writer in this version and is left out.

`QueueStore` is the abstract specification of the tracker: a set of held queues, one per
voter and height, without threads, locks, chain or indexes.  A queue is taken in one
step, only if it was signed later than what its voter had, and it is either offered or
the only held one that is not: the own queue is held before it is pushed, and nothing
else comes in unoffered until it is.  Heights are forgotten as a whole; a crash forgets
everything. `VoteTracker` instantiates it with `held` as the queues of `mapQueuesByHash`
and `offered` as `announced`; `ImplementsStore` is its `Spec`.

`VotedConsensus` extends `VoteQueue`: several nodes with their own tips, lists
and stores; a signed queue may reach any node any time, again or never.  What a
node signs is left open (`ListsAt`), since `LastPaid` shows that records differ.
A node may change branches: a disconnect erases the queues of the height whoever
cast them and on whichever branch, and a reorganization that fails leaves the tip
where it was with the queues gone.  Its `Record` and `Prune` are those of
`VoteTracker` on a store; the threads of one node are not repeated here.

`QueueGossip`: one queue over connections, with `inv`, `getdata`, `mnvotequeue`,
`getmnqueues`, `mapAskFor`, `setAskFor`.  Messages on a connection are a set, so
their order is open and equal ones in flight count once.

`LastPaid`: the record of one node.  `chain` is where `SetBestChain` is;
`chain.found` is the pointer `FindByPayeeAddress` returned into the vector and
`chain.moved` says the vector changed under it (then the pointer may denote
anything: the build's behaviour is undefined).  `OnBlockDisconnected` checks the
record in one critical section, and walks and writes in another
(`RecomputeDisconnected`).  `update` is the `dsee` handler for a listed masternode:
it finds the entry, looks for a record without a lock (`StartBackfill`, which may
also miss one while the map is written to), walks down from the `pindexBest` of that
moment (`update.from`) and writes later (`EndBackfill`).  Blocks, list changes and the
other hooks happen in between.  `Add` walks and writes inside `mnodeman.cs`, in one
step: every other writer needs that lock.  `stored` is the best chain in the
database, from which a restart continues.  `doubtful` is a history variable: the
masternodes one of the code's known gaps touched since their record was last
right.  A block is its producer's and its masternode slot's destination.

`PayeeRotation`: `SimulateQueue` over an exact record, along any sequence of
blocks that follow the queue, pay somebody else or nobody, and confirm new
collaterals.

`PayeeEnforcement`: one node takes blocks in and builds its own.  A block is the
sequence of payees from the first block up to its own, so its parent is its front
and chain trust is its length; all else about it is valid.  `work` is the work
queue of the `ProcessBlock` that is running: each of its orphans is accepted in a
step of its own, because the tally (`voted`) and the list (`eligible`) change
under their own locks in between.  `attested` is `mapHistoricalPayees` with its
eviction and its rebuild at startup; `spork` is the activation spork this session
received.  `AcceptBlock` is one step for other threads (they need `cs_main`), not
for a crash: `CrashInAccept` stops the node after the index entry of a heavier block
is committed and before the best chain that ends with it is, with any part of the
branch committed that outweighs the old tip.  The node then starts on what is stored.
`rejected`, `stranded`, `vetted` and `onBest` are histories: which blocks
`AcceptBlock` refused, which a crash cut off, which were checked for their payee,
which have been on the best chain.

`LockOrder`: what the threads compute is left out, what they lock remains.  A path is
the sequence of enterings and leavings of one call, put together from named calls
(`ProcessBlock`, `GetCanonicalWinnerFromQueues`, `SendMessages`, ...) the way the code
nests them.  `Relay` sends inside `cs_vNodes` (queues, entries and pings alike),
`DsegUpdate` inside `mnodeman.cs`.  `LOCK` waits, `TRY_LOCK` skips its block, locks are
recursive.  There are five kinds of threads, which differ in their paths, and any number
of each (`Kind`): a node has one of most, but `-rpcthreads` of those that execute
commands.  Of the peers' `cs_vSend` there is one, that of a peer all threads send to; a
deadlock that needs two peers is therefore not seen.  Locks that are entered with
nothing taken inside are left out (`cs_inventory`, `cs_mapRelay`,
`cs_masternodepayments`), and so is the wallet's, which these paths enter below
`cs_main` or, in `Register`, with nothing taken inside.

`MasternodeList`: one masternode (`Owner`) and the nodes that list it.  Times are
ages in ticks of about half an hour; the constants keep the order of the code's
seconds.  Links are FIFO.  `Answer` is the `dseg` request and its answer in one
step.  The owner's own entry is always fresh, as `Register` and `Dseep` keep it;
so only its number and address are kept.  `faults` is a budget for what may go
wrong: `cs_main` busy when `Check` tries it, a port that does not answer, a
message late by a tick, a restart, a spent collateral, a node that has a list and
asks for it again.  A sweep waits until announcements in flight have arrived,
except where the budget pays for lateness.  An entry that circulates for ever
between nodes that add and drop it in turns would need messages slower than the
sweep, without end.

`MC...` modules hold the constants of the instances.  `...Proofs` modules hold the
theorems. Definitions marked *Mutant* are wrong variants of the definition below them,
used to show that a property can fail.

## 3. Runs

Every run with result "holds" also checks `TypeOK`.

| Run | Result | What it shows |
|---|---|---|
| `tracker` | holds | All interleavings of the two threads of a node over the queue store, with failing reorganizations, list changes, clock and restarts: `IndexInLockstep`, `PruningKeepsUp`, `StoredIsAnnounced` (but for the own queue until its push), `NewerWins` (a replayed older queue meets the newer one in the run), and the refinement `ImplementsStore`. |
| `consensus` | holds | Three nodes, one of them changing branches: supermajorities at one queue height split only if as many voters as the quorums must share signed two different queues (`NoSplitWithoutResigning`). |
| `gossip` | holds | Over an open connection between nodes that know the signer, a queue that one has and the other lacks is on its way (`NoneStranded`); the relay does not come to rest before it is complete (`QuietIsDelivered`); and it does reach every node that knows its signer through nodes that do (`QueueReachesAware`, liveness). |
| `gossip_suppressed` | violated | Behind a node that does not know the signer, nodes that do never get it (`NotSuppressed`, liveness). |
| `last_paid` | holds | With walks that blocks overtake, the record is exact for every masternode no known gap touched, and its next recorded payment heals a touched one (`ExactUnlessDoubtful`). |
| `last_paid_reorg` | violated | `OnBlockDisconnected` finds the disconnected block again, because `pindexBest` has not moved (`DisconnectForgets`). |
| `last_paid_staker` | violated | A block staked from a masternode's address is recorded as its payment; the payee's is not recorded (`PaymentIsRecorded`). |
| `rotation` | holds | No streaks, nobody starves, successive queues agree (`NoRepeatBeforeAll`, `NobodyStarves`, `QueuesShift`). |
| `enforcement` | holds | Competing branches in any order, orphans, refusals, own blocks, sporks, restarts, a crash inside `AcceptBlock`, votes and lists that change in between: the best chain is the heaviest that was not refused or cut off by the crash (`ForkChoice`), orphans wait only behind refused parents (`OrphansOnlyBehindRefused`), the best chain alone attests payees (`AttestedByBestChain`), and a voted winner is enforced when the tip is extended (`WinnerEnforcedAtTip`). |
| `enforcement_reorg` | violated | A reorganization brings in blocks whose payee was never checked (`ReorgBlocksWereChecked`). |
| `locks` | holds | Threads that wait for one another neither have nor want the tracker's lock (`TrackerNotInCycle`), and every circle of them goes through one of two named entries (`OnlyKnownCycles`). |
| `mnlist` | holds | Moves, stops, lost and late messages, restarts: an old address is gone once the masternode has been up for as long as an entry lives and messages can be late (`OldAddressDiesOut`), silent masternodes leave every list (`GhostsDie`, liveness), running ones end up in every list (`RunningIsListed`, liveness). |

About the findings:

- *Disconnect.*  `Reorganize` calls `OnBlockDisconnected` for each block it
  disconnects; `RecomputeLastPaidHeight` walks down from `pindexBest`, still the
  old tip, reads the very block from disk and writes its height back.  The record
  keeps orphaned payments until the masternode's next one, on this node only, so
  its queues differ from those of nodes that did not see the branch.
- *Staker.*  `OnBlockConnected` takes the first output that belongs to a listed
  masternode.  The producer's output comes first.
- *Suppression.*  For an unknown voter the handler announces the hash but does not
  keep the queue; the `getdata` is answered with `notfound`.  The asking node
  keeps the hash in `setAskFor`, so a later announcement on the same connection is
  ignored too.
- *Reorganized blocks.*  `CheckBlock` looks at the payee only of a block that is in
  the index and whose parent is `hashBestChain` (`cblock.cpp:1473`).  On first
  receipt a block is not in the index yet; when `Reorganize` connects it,
  `hashBestChain` is still the old tip.  The comment says that such blocks "were
  already strict-checked on first receipt".

Observed while modelling, without a run of their own:

- `RecomputeLastPaidHeight` reads `pindexBest` before and locks after its walk
  (`cmasternodeman.cpp:1813`, `1895`, `1918`).  From a `dsee` (`978`) it runs without
  `cs_main`, so a block that connects meanwhile has its height overwritten, or
  erased.  `doubtful` names the masternode until its next recorded payment.
- A crash after the index entry of a heavier block is committed
  (`cblock.cpp:1133`) and before its best chain is leaves the node below it:
  `LoadBlockIndex` starts from the stored best chain, and a relay of the block is a
  duplicate.  `ForkChoice` exempts these blocks (`stranded`).
- The own queue is tallied, and found by `getdata`, before it is pushed
  (`cactivemasternode.cpp:1165`, `1170`); a crash in between loses it.
- A second queue of a voter for a height replaces the first if it is later; the
  header (`cmasternodevotetracker.h`) still calls it equivocation.  `NewerWins`
  states what the code does.
- The empty script can win the tally: voters count as eligible at the target
  height, payees earlier, and in between all voters sign the empty script.
- The end of the warm-up is only compared with zero, never with the clock
  (`cblock.cpp:1402`).
- A builder that cannot resolve the voted winner pays somebody else
  (`miner.cpp:634`), which its own strict check refuses later.
- A refused block stays in the index.  When its payee is not in the list, the node asks
  the sender for the list, "so the NEXT relay of the same block (or any subsequent block
  paying the same MN) validates cleanly" (`cmasternodeman.cpp:1582-1584`; likewise
  `cblock.cpp:1545-1547`).  That relay ends at the duplicate check, "already have block"
  (`main.cpp:2043`), whatever the list has become; only a block on top of it brings it
  back.
- The orphans of a refused block wait until they are evicted (`main.cpp:2171`).
- A switch of several blocks attests the payee of the last one only
  (`cblock.cpp:964`).
- Two entries against the lock order: `FindOldestNotInVec` asks the chain inside
  `mnodeman.cs` (`cmasternodeman.cpp:347`), from `CreateCoinStake`
  (`cwallet.cpp:4106`, `4150`) without `cs_main`; and the daily address refresh
  takes `cs_vNodes` inside a peer's `cs_vSend` (`main.cpp:4203`).
- A stop that comes within the minimum time after the last update is neither obeyed
  nor relayed (`cmasternodeman.cpp:1190`), so a stopped masternode usually leaves
  the lists by expiry.  `Disable` sets the last seen time to zero, which
  `UpdateLastSeen` reads as now (`cmasternode.cpp:199`): an entry handed over
  between the stop and the next sweep looks fresh.
- `Register` does not touch an entry the own list already has
  (`cactivemasternode.cpp:487`).  If its announcement is lost, a masternode that
  moved answers `dseg` with its old address, and peers cannot verify its pings.
  `RunningIsListed` and `OldAddressDiesOut` therefore speak of masternodes whose
  own list has the new address.

## 4. Bounds

- `tracker`: two voters, heights 0 to 3, tips 0 to 2, a height window of one block on
  each side, a time window of one, two clock values, three wire queues of one slot (an
  older one, another of the same second, a newer one, all acceptable at one time),
  one own list.  Enough for: replacement, ties, a replayed older queue, an own queue
  signed twice, a message thread that runs before the push, a
  tip that moves past the window while the handler waits, reorganizations of
  two blocks, failures at every step.
- `consensus`: three masternodes (two are a quorum of three and of two), one
  queue height with two lists, one masternode that signs repeatedly, one that is
  missing from lists, two clock values.  Splits do occur in it, through
  the one that signs twice, which also reorganizes and fails to.  Symmetric in the
  two other masternodes and in the payees.
- `gossip`: a ring of four with one node that does not know the signer, one lost
  connection or restart.  `gossip_suppressed`: a line of three.
- `last_paid`: two masternodes, heights up to 2, a scan depth of 1 (so walks miss),
  one block staked by a stranger and one staked by a masternode.  A walk that blocks,
  reorganizations and list changes overtake.  Reorganizations
  of every depth, each failing at every step, postponed reconnects, list changes
  at every step, restarts everywhere.
- `rotation`: three masternodes, queues of four, five heights, every past within
  them.  The lag and depth keep the one relation of the code's constants that
  matters: lag plus depth is at least the length of a queue (20 + 17 against 10).
  The last height is a bound, so this run may stop.  `gossip` may stop as well: a
  delivered queue needs nothing more.
- `enforcement`: two masternode scripts and devops; the network sends a branch of
  three blocks and a competing single block in any order, the node builds on
  either while it knows fewer than three blocks.  Voting starts at block 3, or at
  2 under a first spork which a second one withdraws.  One orphan more than the
  limit of one, a scan depth of 2, so that both evictions happen.  One crash inside
  `AcceptBlock` (`MaxCrashes`), any number of other restarts.
- `locks`: one thread of each kind with all its paths; `MaxDepth` is the deepest
  recursive entry there is.  The run may stop: the two known circles do stop the
  threads in them.  More threads of a kind are left to the theorems.
- `mnlist`: a line owner-a-b, so that b hears of the owner only through a; two
  addresses, two announcements, an entry that expires after three ticks and is removed
  after four, two faults.  `Settled` is the time an entry lives, for each announcement
  but the last (here one), a tick for every fault, and one more.  The time an entry
  lives and one tick would do with two faults, but not with three: a stopped entry has a
  last seen time of zero, does not age on its way, and counts as just seen whenever it
  arrives.

## 5. Fairness

`QueueGossip` assumes weak fairness of: the broadcast, the handling of each message
on an open connection (the message thread serves all connections in turn), sending
a due `getdata`, and connecting again (outbound connections are reopened).  It does
not assume that a `dsee` arrives, that connections break or that nodes restart.
Restarts and breaks are finitely many.  `Signer` is not restarted: nobody else may
hold its queue yet, and it signs its next queue for another height.

`LiveSpec` of `MasternodeList` assumes weak fairness of: the handling of messages,
the ping of a running masternode and the sweep of every list (the masternode
thread does both in a loop), and the passing of time.  Time waits for the ping of
the tick, since the thread pings several times in one.  It does not assume that a
masternode registers, stops or moves, that nodes connect, or that faults happen.

## 6. Theorems

- `VoteTrackerProofs`: `TrackerLockstep` (`IndexInLockstep`), `TrackerGossip`
  (`StoredIsAnnounced`), `TrackerNewerWins` (`NewerWins`), for every set of masternodes,
  wire, windows and bounds.  The inductive invariant is `TypeOK`, `ReorgInBounds` (the
  walk of `Reorganize` stays between fork and goal, needed for the type of `chain`),
  `PushPending` (the chain thread is at the push exactly while it has a queue to push)
  and `SlotsMatch` (a queue lies in its own slot). `SlotsMatch` is what makes lockstep
  inductive: a height's erase removes its queues from the index, and no other slot can
  hold one of them. `TrackerTypes` is the type part of the same invariant.
  `TrackerImplementsStore` (`ImplementsStore`) shows the refinement: with lockstep, a
  voter's slot holds the only held queue of that slot (`HeldInSlot`), so that replacing
  and indexing a queue is one `Take` (`RecordIsTake`) and erasing heights is one
  `Forget` (`EraseIsForget`); all other steps offer or stutter.  The own queue may be
  taken unoffered because the one before it was pushed (`PushPending`). `TrackerPrunes`
  (`PruningKeepsUp`) has an invariant of its own, `PruneInv`: between the prune and the
  next block at most one slot lies below the horizon, and none while the message thread
  still holds a queue it checked against an older tip. Without the second half a late
  queue could come on top of another one.
- `VotedConsensusProofs`, about the tally itself: `QuorumsAgree` (two tallies over
  consistent queues of at most as many voters as are eligible name the same payee) and
  `AtMostOneClears` (the ambiguous branch of the tally needs more stored voters than
  eligible ones).  From `2 * ThresholdNum > ThresholdDen` alone.
- `VotedConsensusProofs`, about the nodes: `ConsensusMargin`
  (`NoSplitWithoutResigning`).  The inductive invariant is that a store holds in a slot
  only what this voter signed for this height; recording, pruning and restarts preserve
  it one store at a time, and so do branches: a disconnect only removes.  Then a voter
  both sides count for different payees signed twice, a tally that clears the threshold
  has at least `Quorum` votes, and the supermajorities overlap in at least `Quorum +
  Quorum - masternodes` voters.  `ConsensusTypes` is the type part.
- `QueueGossipProofs`: `GossipTypes` (`TypeOK`), `NoQueueStranded` (`NoneStranded`)
  and `RestIsDelivery` (`QuietIsDelivered`), for every network and any number of lost
  connections and restarts.  A hash is asked for once per connection, so what must be
  excluded is a request to a node that cannot serve it.  The invariant says so: a node
  that knows the signer announces only what it holds (`SendersHold`), is asked only for
  what it holds (`AskedHold`), and a request that is not due any more is on the wire or
  answered (`RequestsAnswered`).  It holds because a node forgets the queue only
  together with its connections.  The argument fails exactly for nodes that do not know
  the signer, which is the finding of `gossip_suppressed`.  `RestIsDelivery` follows by
  induction over the hops from the signer.
- `PayeeEnforcementProofs`: `HeaviestUnlessRefused` (`ForkChoice`), `NoOrphanForgotten`
  (`OrphansOnlyBehindRefused`), `AttestationIsEarned` (`AttestedByBestChain`),
  `TipPaysWinner` (`WinnerEnforcedAtTip`) and `EnforcementTypes` (`TypeOK`), for every
  set of scripts, supply of blocks and sporks, floor, orphan limit and scan depth.  The
  invariant adds to the properties: the index holds the ancestors of its blocks
  (`IndexHasBranches`), which makes the branch of a new tip part of the index; an orphan
  is not in the index (`OrphansApart`); an orphan whose parent is there waits behind a
  refusal or for the work queue of the running `ProcessBlock` (`OrphansWait`, which is
  `OrphansOnlyBehindRefused` in the middle of a call); and the blocks of the best chain
  are on record (`BestOnRecord`), from which the rebuild at startup attests.  A crash
  leaves one heavier block, which is then `stranded`, and a best chain that is the old
  one or a part of that block's branch, whose blocks the index had already; so the same
  invariant covers it (`CrashKeeps`).
- `PayeeRotationProofs`: `NoMasternodeStarves` (`NobodyStarves`), `NoStreaks`
  (`NoRepeatBeforeAll`), `SuccessiveQueuesAgree` (`QueuesShift`) and `RotationTypes`
  (`TypeOK`), for every number of masternodes, queue length, lag and depth.  The loop of
  `SimulateQueue` is shown to be well defined (`SimulationExists`) and its positions are
  compared by induction: a masternode that was not chosen keeps its rank, one that was
  goes behind all others.  Nobody starves because a masternode was passed over by at most
  as many followed blocks as there are masternodes behind it now (`PassedStandBehind`):
  whoever passes it goes behind it, and newcomers confirm behind it.  Queues shift because
  lag plus depth is at least the length of a queue: a collateral that confirms now is
  not eligible at any height a queue already speaks of (`NewcomersWait`).
- `LastPaidProofs`: `RecordIsExact` (`ExactUnlessDoubtful`) and `RecordTypes` (`TypeOK`),
  for every set of masternodes, scripts and blocks, scan depth and chain length.
  `ExactUnlessDoubtful` speaks of states between two calls.  In between, a record that is
  not doubtful is exact for the best chain until the first block of a switch is connected
  (`ExactOnBest`), then for the part of the branch that is recorded (`ExactOnBranch`);
  and while a failure can still abort the switch, a record that the branch did not touch
  belongs to a masternode the abandoned blocks did not pay (`Abortable`), so that it is
  exact again when the tip stays.  `Positioned` bounds the walk.  An unlocked walk clears a
  doubt only when it ends on the best chain it began on, between two calls and with its
  pointer intact; then it computes what a locked one would (`BackfillKeeps`).  In all
  other cases its write makes the record doubtful.  The walk at startup is a
  loop over the chain; `WalkExists` and `WalkBackIs` show what it computes.
  A masternode enters `doubtful` only where the code has one of the gaps section 3
  describes (a disconnect, a first output that is not the payee's, a moved pointer, a
  failed switch, a walk that a block overtook) or a walk overlooks its payment, so the
  theorem says these are all the gaps of the model.

- `MasternodeListProofs`: `ListTypes` (`TypeOK`) and `OldAddressesDie`
  (`OldAddressDiesOut`), for every network, number of faults and of moves, and order of
  the code's times, provided that each move is to an address that no entry, no
  announcement on its way and no own entry says (`FreshMove`).  The invariant bounds from
  below the age of whatever says another address than the masternode's present one
  (`Faded`): it has been up for at most as many ticks as that age and the faults so far,
  for entries, messages and pings alike.  A tick makes an entry a tick older or ends it,
  and makes every message on its way a fault (`InFlightCounts`).  An entry looks never
  seen after a stop, and counts as age zero: it was stopped by a ping for the old address,
  which was itself late.  Announcements are numbered; `w` is the number from which on they
  say the present address (`Signed`), so a later one never says an old address again
  (`StaysPresent`).  A list that replaces one old address by another takes it as just seen,
  so the age alone is no bound: what counts is the age on top of the time that all
  announcements before it can have lived (`Standing`), and that only grows.  This is why
  `Settled` has one removal time for each older announcement.  A move picks a new `w`
  (`Moved`), and here the condition is used: with an address that comes back, an entry that
  never left a list would count as present, be kept alive by pings, and could still be
  replaced by an older address.  `OneMoveDies`: for a masternode that moves at most once
  (`MaxEntries <= 2`, as in the run) the condition always holds (`FirstMoveIsFresh`), so
  there the theorem needs none.
- `LockOrderProofs`: `TrackerFree` (`TrackerNotInCycle`), `KnownCyclesOnly`
  (`OnlyKnownCycles`) and `LockTypes` (`TypeOK`), for any number of threads of each
  kind, several that execute commands included.  The locks have an order: `cs_main`,
  `mnodeman.cs`, `cs_vNodes`, `cs_vSend`, `voteTracker.cs`; the pool's is outside it,
  since it is only entered inside `cs_main`.  A path keeps to it if the depths before
  its steps can be written beside it (`Follows`) such that every `LOCK` enters a lock
  again, enters the guarded pool's, goes up, or is one of the two inverted entries, made
  without the tracker's lock (`Allowed`), and a block that `TRY_LOCK` may skip leads
  back to where it began.  That is shown once for a block inside a lock
  (`ReturnsAround`) and for one block after another (`ReturnsThen`), then for each call
  of the code in the places it is called from, up to all the paths (`PathsReturn`).  The
  invariant says it of what is left of each thread's path (`InOrder`), together with
  mutual exclusion, and needs to look at no pair of threads.  A thread that waits for
  another therefore goes up or inverts (`Waiting`): inside the tracker's lock, the
  highest, it waits for nobody (`TrackerHolderMoves`); and in a circle without inversion
  each would wait for a higher lock than the one before, of which there are five.

Assumptions: `QueueConstants`, `NoQueueAssumption`, `TrackerConstants`,
`ConsensusConstants`, `EnforcementConstants`, `RotationConstants`,
`LastPaidConstants`, `GossipConstants`, `ListAssumption`, `LockConstants`, which TLC
evaluates in the runs.  They give the constants their types; what they say beyond that
is: the threshold is above one half, lag plus depth covers a queue, no two masternodes
share a payee script, a connection has two ends, the times of the masternode list are in
the order of the code's seconds, and `MaxDepth`, which bounds what no path exceeds, is at
least 3.

Loops and recursion.  The provers cannot use an induction theorem that takes an
operator, but they can use induction over a *set* of naturals.  `SetInduction` of the
modules that need it states it so: a set of naturals that has 0 and the successor of
each of its elements is all of them.  A proof defines the set of the numbers for which
its claim holds. Recursive functions (`SimulateQueue`, `WalkBack`, `ReachOver`) are
first shown to exist up to each length, then unfolded.

Each inductive invariant was checked by TLC on the instance of the run, or a larger
one, before it was proved.

Only model-checked:

- liveness: `QueueReachesAware`, `GhostsDie`, `RunningIsListed` are out of the prover's
  reach.  `RestIsDelivery` is the part of the first that is about states.
- `OldAddressDiesOut` for a masternode that moves back to an address some list,
  announcement or own entry still says.

## 7. Plan

In this order:

1. `QueueGossip` implements the delivery that `VotedConsensus` assumes.
2. A masternode that moves back to an address some list still has: how long its other
   addresses can last then.
3. Sporks over several nodes: nodes that disagree on the activation height.
4. Candidates: `mncache.dat`, remote activation, InstantX locks, mempool and
   orphan transactions, address manager, key pool, the MNengine pool.

## 8. Not modelled

- Block validity, chain trust, the database: success or failure, chosen freely.
- Two masternodes with one payee address; blocks that cannot be read in a walk.
- Signatures: a queue on the wire is what its voter signed.  Bans and scores.
- Initial download in `VotedConsensus`; its time window (a queue outside it is
  one that does not arrive).
- In `MasternodeList`: remote (hot and cold) activation, `mvote`, the file
  `mncache.dat` (a restarted node starts without a list), several masternodes.
  `ReceiveOwn`, the masternode's own announcement coming back, updates the own entry
  and stops there: that the owner relays it once more (`cmasternodeman.cpp:987-993`)
  and that an owner without an entry takes it as an activation (`999-1110`) are left out.
- The walks over `vMasternodes` without `mnodeman.cs`, except the pointers of
  `OnBlockConnected`, `OnBlockDisconnected` and the `dsee` handler in `LastPaid`.  The
  locks of the wallet and the address manager.
- The translation catalogues under `src/src/qt/locale`: text without behaviour.
- Kernel, difficulty, script, cryptography: numeric or byte-level code without
  the interleavings a model checker is for.  RPC, Qt, secure messaging: mostly
  input and output.  Vendored libraries.
