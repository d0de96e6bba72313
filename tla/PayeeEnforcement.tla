-------------------------- MODULE PayeeEnforcement --------------------------
(***************************************************************************)
(* How one node takes blocks in (ProcessBlock, AcceptBlock, SetBestChain), *)
(* which of them have their masternode payee checked (CheckBlock), whom    *)
(* the chain attests as a payee (mapHistoricalPayees), and what the node   *)
(* pays in the blocks it builds itself.                                    *)
(*                                                                         *)
(* A block is the sequence of the payees from the block after genesis up   *)
(* to its own: its parent is its front, its payee its last element.  Chain *)
(* trust is height.  Everything but the payee is valid in every block, so  *)
(* a block fails only for its masternode slot.  ProcessBlock holds cs_main *)
(* throughout; the voting tracker and the masternode list change under     *)
(* their own locks, also between two orphans of one ProcessBlock.          *)
(* AcceptBlock commits several database transactions, and the node may     *)
(* stop between two of them.                                               *)
(*                                                                         *)
(* masternodePayments.GetBlockPayee finds nothing: vWinning stays empty,   *)
(* because its signing key is never loaded and the key it verifies against *)
(* is the empty string.                                                    *)
(***************************************************************************)
EXTENDS Integers, Sequences, FiniteSets, SequencesExt

CONSTANTS
  Scripts,           \* payee scripts of masternodes
  Devops,            \* the devops address
  NoPayee,           \* no voted winner
  Supply,            \* the blocks the network may send
  Floor,             \* VOTED_CONSENSUS_ACTIVATION_FLOOR_*_VAL
  Sporks,            \* the activation sporks the network may send, value and time
  NoSpork,           \* no spork received in this session
  ScanDepth,         \* MAX_LASTPAID_SCAN_DEPTH
  MaxOrphans,        \* -maxorphanblocks
  VotedHeights,      \* bound: heights whose tally changes
  MaxHeight,         \* bound: highest block
  MaxBlocks,         \* bound: the node builds while its index is smaller
  MaxCrashes         \* bound: AcceptBlock calls that a crash cuts off

Payees == Scripts \cup {Devops}
Heights == 1 .. MaxHeight
Genesis == <<>>
Blocks == UNION {[1 .. n -> Payees] : n \in 0 .. MaxHeight}

ASSUME EnforcementConstants ==
  /\ IsFiniteSet(Scripts)
  /\ Devops \notin Scripts /\ NoPayee \notin Payees
  /\ MaxHeight \in Nat /\ MaxBlocks \in Nat /\ MaxCrashes \in Nat /\ Floor \in Nat
  /\ VotedHeights \subseteq Heights
  /\ ScanDepth \in Nat \ {0} /\ MaxOrphans \in Nat
  /\ Supply \subseteq Blocks \ {Genesis}
  /\ Sporks \subseteq [value : Nat, time : Nat] /\ NoSpork \notin Sporks

VARIABLES
  index,     \* mapBlockIndex, on disk
  orphans,   \* mapOrphanBlocks
  best,      \* pindexBest, hashBestChain
  work,      \* vWorkQueue of the ProcessBlock that is running, {} between two
  voted,     \* GetCanonicalWinnerFromQueues at each height
  eligible,  \* scripts of the listed masternodes with a mature collateral; all of
             \* them while IsBlockchainSynced() is false
  attested,  \* mapHistoricalPayees, 0 for an absent entry
  ibd,       \* what IsInitialBlockDownload said in the last AcceptBlock
  spork,     \* mapSporksActive[SPORK_15_VOTED_CONSENSUS_ACTIVATION], or NoSpork
  built,     \* the block this node has built and not yet submitted, or genesis
  rejected,  \* history: blocks whose AcceptBlock failed
  stranded,  \* history: blocks whose AcceptBlock a crash cut off
  vetted,    \* history: blocks that passed the payee check, or came in initial download
  onBest     \* history: blocks that have been on the best chain

vars == <<index, orphans, best, work, voted, eligible, spork, attested, ibd, built,
          rejected, stranded, vetted, onBest>>
chainVars == <<index, best, attested, ibd, rejected, stranded, vetted, onBest>>
viewVars == <<voted, eligible, spork>>

Parent(b) == Front(b)
Payee(b) == Last(b)
Branch(b) == {SubSeq(b, 1, n) : n \in 1 .. Len(b)}

NoVotes == [h \in Heights |-> NoPayee]
Unattested == [p \in Payees |-> 0]

Init ==
  /\ index = {Genesis}
  /\ orphans = {}
  /\ best = Genesis
  /\ work = {}
  /\ voted = NoVotes
  /\ eligible = {}
  /\ attested = Unattested
  /\ ibd = TRUE
  /\ spork = NoSpork
  /\ built = Genesis
  /\ rejected = {}
  /\ stranded = {}
  /\ vetted = {}
  /\ onBest = {}

-----------------------------------------------------------------------------
\* The payee rules.

\* GetEffectiveVotedConsensusActivationHeight: a spork lowers the floor.
ActivationHeight ==
  IF spork # NoSpork /\ spork.value > 0 /\ spork.value < Floor THEN spork.value ELSE Floor

\* The voted winner from the activation height on; below it, and without a
\* winner, the legacy lookup, which finds nothing.
GetEnforcedPayee(h) == IF h >= ActivationHeight THEN voted[h] ELSE NoPayee

\* A mature listed masternode, or a payee the chain attests.
IsPayeeAValidMasternode(p) == p \in eligible \/ attested[p] # 0

\* Mutant: only the weak check is made.
WeakCheckOnly(b) ==
  Len(b) >= ActivationHeight => Payee(b) = Devops \/ IsPayeeAValidMasternode(Payee(b))

\* The weak and the strict check of the masternode slot outside initial
\* download.  nMasterNodeChecksEngageTime # 0 is true there: it was just set to
\* the base time plus the delay, and is not compared with the clock.
PayeeAccepted(b) ==
  Payee(b) = Devops
    \/ /\ Len(b) >= ActivationHeight => IsPayeeAValidMasternode(Payee(b))
       /\ GetEnforcedPayee(Len(b)) \in {NoPayee, Payee(b)}

\* The height below which OnBlockAccepted evicts: as many entries lie below
\* the first height that leaves no more than ScanDepth, ties included.
EvictBelow(a) ==
  LET known == {p \in Payees : a[p] # 0}
      surplus == Cardinality(known) - ScanDepth
      AtMost(h) == Cardinality({p \in known : a[p] <= h})
  IN IF surplus <= 0
     THEN 0
     ELSE CHOOSE h \in {a[p] : p \in known} :
            AtMost(h) > surplus /\ AtMost(h - 1) <= surplus

\* Mutant: the payee is recorded for the next height.
OnNextAccepted(b) == [attested EXCEPT ![Payee(b)] = Len(b) + 1]

\* OnBlockAccepted: the newest height of the payee, then the eviction.
OnBlockAccepted(b) ==
  LET a == [attested EXCEPT ![Payee(b)] = IF Len(b) > @ THEN Len(b) ELSE @]
  IN [p \in Payees |-> IF a[p] < EvictBelow(a) THEN 0 ELSE a[p]]

\* The walk of PopulateLastPaidHeightCache over a chain.
WalkBack(c) ==
  [p \in Payees |->
     LET paid == {h \in 1 .. Len(c) : c[h] = p /\ h > Len(c) - ScanDepth}
     IN IF paid = {} THEN 0 ELSE CHOOSE h \in paid : \A k \in paid : k <= h]

-----------------------------------------------------------------------------
\* Taking a block in.

\* The one block of a switch to b that CheckBlock takes for a new tip: its
\* parent is hashBestChain, which moves only at the end of SetBestChain.
CheckedBlock(b) == SubSeq(b, 1, Len(best) + 1)
ExtendsBest(b) == Len(b) > Len(best) /\ IsPrefix(best, b)

\* Mutant: a branch must lead by two blocks.
HeavierByTwo(b) == Len(b) > Len(best) + 1

\* AddToBlockIndex: more trust than the best chain.
Heavier(b) == Len(b) > Len(best)

\* Mutant: the payee is recorded whether or not the block connects.
AttestBeforeConnect(b, connects) == OnBlockAccepted(b)

\* The end of SetBestChain.
Attest(b, connects) == IF connects THEN OnBlockAccepted(b) ELSE attested

\* AcceptBlock: the block enters the index and, if it is heavier, SetBestChain
\* connects its branch, by extension or by Reorganize.  A block that fails
\* stays in the index.  SetBestChain feeds the attested payees with b alone.
AcceptBlock(b) ==
  LET first == CheckedBlock(b)
      checks == Heavier(b) /\ ExtendsBest(b) /\ ~ibd'
      fails == checks /\ ~PayeeAccepted(first)
      connects == Heavier(b) /\ ~fails
  IN /\ ibd' \in BOOLEAN
     /\ index' = index \cup {b}
     /\ best' = IF connects THEN b ELSE best
     /\ attested' = Attest(b, connects)
     /\ rejected' = IF fails THEN rejected \cup {b} ELSE rejected
     /\ vetted' = vetted \cup (IF ibd' THEN {b} ELSE {})
                        \cup (IF checks /\ ~fails THEN {first} ELSE {})
     /\ onBest' = IF connects THEN onBest \cup Branch(b) ELSE onBest
     /\ UNCHANGED stranded

\* ProcessBlock of a block whose parent is known.  Its own CheckBlock does not
\* look at the payee: the block is not in the index yet.
ReceiveBlock(b) ==
  /\ work = {}
  /\ b \notin index /\ b \notin orphans
  /\ Parent(b) \in index
  /\ AcceptBlock(b)
  /\ work' = IF b \in rejected' THEN {} ELSE {b}
  /\ UNCHANGED <<orphans, built, viewVars>>

\* The orphans PruneOrphanBlocks may pick: those no other orphan depends on.
Evictable == {o \in orphans : \A c \in orphans : Parent(c) # o}

\* ProcessBlock of a block from a peer whose parent is unknown.
ReceiveOrphan(b) ==
  /\ work = {}
  /\ b \notin index /\ b \notin orphans
  /\ Parent(b) \notin index
  /\ IF Cardinality(orphans) <= MaxOrphans
     THEN orphans' = orphans \cup {b}
     ELSE \E o \in Evictable : orphans' = (orphans \ {o}) \cup {b}
  /\ UNCHANGED <<work, built, chainVars, viewVars>>

\* Mutant: the orphans of an accepted orphan are left behind.
OrphanWithoutRecursion(o) ==
  /\ o \in orphans
  /\ Parent(o) \in work
  /\ AcceptBlock(o)
  /\ orphans' = orphans \ {o}
  /\ UNCHANGED <<work, built, viewVars>>

\* The next orphan that depends on a block accepted in this ProcessBlock.
AcceptOrphan(o) ==
  /\ o \in orphans
  /\ Parent(o) \in work
  /\ AcceptBlock(o)
  /\ orphans' = orphans \ {o}
  /\ work' = IF o \in rejected' THEN work ELSE work \cup {o}
  /\ UNCHANGED <<built, viewVars>>

FinishProcessBlock ==
  /\ work # {}
  /\ \A o \in orphans : Parent(o) \notin work
  /\ work' = {}
  /\ UNCHANGED <<orphans, built, chainVars, viewVars>>

-----------------------------------------------------------------------------
\* Building a block.

\* The payees a builder may put into the slot: the enforced one if it resolves
\* it, else the oldest enabled masternode (any), or devops if there is none.
BuilderPayees(h) ==
  LET w == GetEnforcedPayee(h)
  IN IF w # NoPayee /\ IsPayeeAValidMasternode(w) THEN {w} ELSE Payees

BuildOn(b, h) ==
  /\ h <= MaxHeight /\ Cardinality(index) < MaxBlocks
  /\ built = Genesis
  /\ \E p \in BuilderPayees(h) : built' = Append(b, p)
  /\ UNCHANGED <<orphans, work, chainVars, viewVars>>

\* CreateNewBlock for proof of work.
BuildWork == BuildOn(best, Len(best) + 1)

\* The staker waits for a canonical winner once voting is active.
BuildStake ==
  /\ Len(best) + 1 >= ActivationHeight /\ Len(best) < MaxHeight
       => voted[Len(best) + 1] # NoPayee
  /\ BuildOn(best, Len(best) + 1)

\* CheckWork, CheckStake: a stale block is dropped, another one goes through
\* ProcessBlock like a received one.
SubmitBuilt ==
  /\ work = {}
  /\ built # Genesis
  /\ built' = Genesis
  /\ IF Parent(built) # best \/ built \in index \/ built \in orphans
     THEN UNCHANGED <<work, chainVars>>
     ELSE /\ AcceptBlock(built)
          /\ work' = IF built \in rejected' THEN {} ELSE {built}
  /\ UNCHANGED <<orphans, viewVars>>

-----------------------------------------------------------------------------
\* What the other threads change.

\* The tally of a height changes: queues arrive, are replaced or pruned.
VotesChange(h, w) ==
  /\ voted' = [voted EXCEPT ![h] = w]
  /\ UNCHANGED <<orphans, work, built, eligible, spork, chainVars>>

\* A masternode enters the list, matures, or leaves it; the node falls out of
\* sync or is in sync again.
ListChanges(e) ==
  /\ eligible' = e
  /\ UNCHANGED <<orphans, work, built, voted, spork, chainVars>>

\* "spork" with a valid signature: only a later signed one replaces the active one.
ProcessSpork(s) ==
  /\ spork # NoSpork => s.time > spork.time
  /\ spork' = s
  /\ UNCHANGED <<orphans, work, built, voted, eligible, chainVars>>

\* The node starts with the stored best chain c.  Votes and orphans are memory
\* only.  The walk over the chain is skipped without an enabled masternode.
StartOn(c) ==
  /\ orphans' = {}
  /\ work' = {}
  /\ voted' = NoVotes
  /\ eligible' \in SUBSET Scripts
  /\ attested' \in {Unattested, WalkBack(c)}
  /\ spork' = NoSpork
  /\ built' = Genesis

Restart ==
  /\ StartOn(best)
  /\ UNCHANGED <<index, best, ibd, rejected, stranded, vetted, onBest>>

\* The blocks whose AcceptBlock may be under way.
UnderWay ==
  {o \in orphans : Parent(o) \in work} \cup
  {b \in Supply : work = {} /\ b \notin index \cup orphans /\ Parent(b) \in index} \cup
  {b \in {built} \ {Genesis} : work = {} /\ b \notin index \cup orphans /\ Parent(b) = best}

\* The best chains that are committed on the way to b: Reorganize stops at the
\* first block that outweighs the best chain, the further ones follow one by one.
CommittedBelow(b) == {SubSeq(b, 1, n) : n \in Len(best) + 1 .. Len(b) - 1}

\* The node stops in the AcceptBlock of a heavier block, after AddToBlockIndex
\* has committed its index entry and before the best chain that ends with it
\* is committed.  LoadBlockIndex starts from the stored best chain, whatever
\* the index holds above it.
CrashInAccept(b) ==
  LET first == CheckedBlock(b)
      checks == ExtendsBest(b) /\ ~ibd'
      fails == checks /\ ~PayeeAccepted(first)
  IN /\ Heavier(b)
     /\ Cardinality(stranded) < MaxCrashes
     /\ ibd' \in BOOLEAN
     /\ index' = index \cup {b}
     /\ best' \in {best} \cup (IF fails THEN {} ELSE CommittedBelow(b))
     /\ stranded' = stranded \cup {b}
     /\ vetted' = vetted \cup (IF ibd' THEN {b} ELSE {})
                        \cup (IF checks /\ best' # best THEN {first} ELSE {})
     /\ onBest' = onBest \cup Branch(best')
     /\ StartOn(best')
     /\ UNCHANGED rejected

Next ==
  \/ \E b \in Supply : ReceiveBlock(b) \/ ReceiveOrphan(b)
  \/ \E o \in orphans : AcceptOrphan(o)
  \/ FinishProcessBlock
  \/ BuildWork \/ BuildStake \/ SubmitBuilt
  \/ \E h \in VotedHeights, w \in Scripts \cup {NoPayee} : VotesChange(h, w)
  \/ \E e \in SUBSET Scripts : ListChanges(e)
  \/ (\E s \in Sporks : ProcessSpork(s)) \/ Restart
  \/ \E b \in UnderWay : CrashInAccept(b)

Spec == Init /\ [][Next]_vars
-----------------------------------------------------------------------------
\* The types of the node's chain state, its views and the histories.
TypeOK ==
  /\ index \subseteq Blocks
  /\ orphans \subseteq Blocks
  /\ best \in index
  /\ work \subseteq index
  /\ voted \in [Heights -> Scripts \cup {NoPayee}]
  /\ eligible \subseteq Scripts
  /\ attested \in [Payees -> 0 .. MaxHeight]
  /\ spork \in Sporks \cup {NoSpork}
  /\ ibd \in BOOLEAN
  /\ built \in Blocks
  /\ rejected \subseteq index
  /\ stranded \subseteq index
  /\ vetted \subseteq index
  /\ onBest \subseteq index

\* The best chain is the heaviest one the node could have: every block of the
\* index that is heavier was refused by SetBestChain when it arrived, or a crash
\* came between the commits of its index entry and of its best chain.  Such a
\* block is not selected at startup, and "already have block" meets a relay of
\* it: only a block on top of it brings it back.
ForkChoice == \A b \in index : Len(b) > Len(best) => b \in rejected \cup stranded

\* No orphan is forgotten, except behind a refusal: between two ProcessBlock
\* calls, an orphan whose parent is in the index waits for a parent whose
\* AcceptBlock failed.
OrphansOnlyBehindRefused ==
  work = {} => \A o \in orphans : Parent(o) \in index => Parent(o) \in rejected

\* Tier 2 of IsPayeeAValidMasternode vouches only for a payee that a block of
\* the best chain paid, at that block's height; a refused block never makes
\* its own payee valid.
AttestedByBestChain ==
  \A p \in Payees : attested[p] # 0 =>
    \E b \in onBest : Len(b) = attested[p] /\ Payee(b) = p

\* A vote is enforced against the tip: when the best chain grows on top of the
\* old tip outside initial download, also through a switch that starts there,
\* the first new block pays the winner of its height, or devops.
WinnerEnforcedAtTip ==
  [][best' # best /\ IsPrefix(best, best') /\ ~ibd'
       => LET b == SubSeq(best', 1, Len(best) + 1)
          IN GetEnforcedPayee(Len(b)) \in {NoPayee, Payee(b)} \/ Payee(b) = Devops]_vars

\* cblock.cpp says of the blocks a reorganization connects: "those blocks were
\* already strict-checked on first receipt via ProcessBlock".  Outside initial
\* download, and as long as no crash cut an AcceptBlock off, the best chain
\* gains only blocks whose payee was checked.
ReorgBlocksWereChecked ==
  [][best' # best /\ ~ibd' /\ stranded = {} => Branch(best') \ Branch(best) \subseteq vetted']_vars
=============================================================================
