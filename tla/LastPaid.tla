------------------------------ MODULE LastPaid ------------------------------
(***************************************************************************)
(* The chain-derived payment record of one node (CMasternodeMan's          *)
(* mapLastPaidHeight), which ranks the masternodes for the next payments.  *)
(*                                                                         *)
(* SetBestChain (under cs_main) keeps it up to date block by block and   *)
(* moves pindexBest only at its end.  The other threads change the         *)
(* masternode list under mnodeman.cs alone, so they run between any two    *)
(* steps of it.  A "dsee" handler that fills a missing record in walks the *)
(* chain with neither lock and takes mnodeman.cs only to write what it     *)
(* found (update).                                                         *)
(*                                                                         *)
(* FindByPayeeAddress and Find hand out a pointer into vMasternodes that   *)
(* is used after the lock is released: chain.found and update.mn are these *)
(* pointers, chain.moved and update.moved say that the list changed under  *)
(* them.                                                                   *)
(*                                                                         *)
(* A block is the destination of its producer's output and that of its     *)
(* masternode slot, in this order; the devops output never belongs to a    *)
(* masternode.  Chain trust is left open.  Blocks that cannot be read in a *)
(* walk, and two masternodes with one payee address, are left out.         *)
(***************************************************************************)
EXTENDS Sequences, FiniteSetsExt

CONSTANTS
  Masternodes,  \* by collateral outpoint
  Scripts,      \* payee scripts
  ScriptOf,     \* GetScriptForDestination(mn.pubkey.GetID())
  Blocks,       \* the blocks the network may produce
  NoMasternode, \* a NULL CMasternode*
  ScanDepth,    \* MAX_LASTPAID_SCAN_DEPTH
  MaxHeight     \* bound: highest block

ASSUME LastPaidConstants ==
  /\ IsFiniteSet(Masternodes) /\ IsFiniteSet(Scripts)
  /\ ScriptOf \in [Masternodes -> Scripts]
  /\ \A m, n \in Masternodes : ScriptOf[m] = ScriptOf[n] => m = n
  /\ Blocks \subseteq [producer : Scripts, payee : Scripts]
  /\ NoMasternode \notin Masternodes
  /\ ScanDepth \in Nat \ {0}
  /\ MaxHeight \in Nat

VARIABLES
  best,                 \* the blocks from height 1 to pindexBest
  stored,               \* the blocks up to the best chain hash in the database
  vMasternodes,         \* the listed masternodes
  mapLastPaidHeight,    \* 0 is an absent entry, as GetLastPaidHeight returns
  chain,                \* where SetBestChain is
  update,               \* where the "dsee" handler is with a listed masternode
  doubtful              \* history: masternodes whose record a known gap touched

vars == <<best, stored, vMasternodes, mapLastPaidHeight, chain, update, doubtful>>

HeightOrNone == 0 .. MaxHeight
Chains == UNION {[1 .. n -> Blocks] : n \in HeightOrNone}

\* branch: the chain SetBestChain switches to, as far as it is connected;
\* fork: the last common height; at: the block being disconnected;
\* committed: Reorganize is done, only "further blocks" are left.
ChainStates ==
  [pc : {"idle", "disconnect", "forget", "rewalk", "connect", "record", "commit", "settip"},
   branch : Chains, fork : HeightOrNone, at : HeightOrNone, committed : BOOLEAN,
   found : Masternodes \cup {NoMasternode}, moved : BOOLEAN]

Idle == [pc |-> "idle", branch |-> <<>>, fork |-> 0, at |-> 0, committed |-> FALSE,
         found |-> NoMasternode, moved |-> FALSE]

\* mn: the masternode the message is about, and the pointer Find returned;
\* from: the chain that the walk goes down.
Updates ==
  [pc : {"none", "found", "walk"}, mn : Masternodes \cup {NoMasternode}, from : Chains,
   moved : BOOLEAN]

NoUpdate == [pc |-> "none", mn |-> NoMasternode, from |-> <<>>, moved |-> FALSE]

Init ==
  /\ best = <<>>
  /\ stored = <<>>
  /\ vMasternodes = {}
  /\ mapLastPaidHeight = [m \in Masternodes |-> 0]
  /\ chain = Idle
  /\ update = NoUpdate
  /\ doubtful = {}

-----------------------------------------------------------------------------
Outputs(b) == {b.producer, b.payee}

\* The masternode of a script, in a set of masternodes.
OwnerIn(list, s) ==
  IF \E m \in list : ScriptOf[m] = s
  THEN CHOOSE m \in list : ScriptOf[m] = s
  ELSE NoMasternode

\* OnBlockConnected, OnBlockDisconnected, PopulateLastPaidHeightCache: the
\* first output, in order, that belongs to a masternode of the set.
FirstOwner(list, b) ==
  IF OwnerIn(list, b.producer) # NoMasternode
  THEN OwnerIn(list, b.producer)
  ELSE OwnerIn(list, b.payee)

\* The masternode a block pays: the owner of its masternode slot.
PaidBy(b) == OwnerIn(Masternodes, b.payee)

\* The largest height of a set, 0 when there is none.
Highest(S) == Max(S \cup {0})

\* Heights a walk down from the head of a chain reaches.
InScan(c, h) == h > Len(c) - ScanDepth

\* The height of the last block of a chain that pays m.
LastPayment(c, m) == Highest({h \in DOMAIN c : c[h].payee = ScriptOf[m]})

\* Mutant: a walk that finds nothing leaves a sentinel in the map.
RecomputeLeavesSentinel(c, m) ==
  Max({h \in DOMAIN c : InScan(c, h) /\ ScriptOf[m] \in Outputs(c[h])} \cup {-1})

\* RecomputeLastPaidHeight: the newest block within reach of the head of c,
\* pindexBest when the walk began, with any output to the masternode; no entry
\* when there is none.  pprev links never change, so the walk sees c alone.
RecomputeLastPaidHeight(c, m) ==
  Highest({h \in DOMAIN c : InScan(c, h) /\ ScriptOf[m] \in Outputs(c[h])})

\* PopulateLastPaidHeightCache: walk down from the tip.  A block settles the
\* first masternode it can that still needs an entry.  walk[k] is the state
\* after k blocks.
WalkBack(c, list) ==
  LET walk[k \in 0 .. Len(c)] ==
        IF k = 0
        THEN [paid |-> [m \in Masternodes |-> 0], needed |-> list]
        ELSE LET w == walk[k - 1]
                 h == Len(c) - k + 1
                 m == FirstOwner(w.needed, c[h])
             IN IF m = NoMasternode \/ ~InScan(c, h)
                THEN w
                ELSE [paid |-> [w.paid EXCEPT ![m] = h], needed |-> w.needed \ {m}]
  IN walk[Len(c)].paid

-----------------------------------------------------------------------------
\* SetBestChain.

\* The masternodes a pointer may denote once the list has changed under it:
\* the vector's memory has been shifted or freed.
Pointees == IF chain.found # NoMasternode /\ chain.moved THEN Masternodes ELSE {chain.found}

\* The hook is done with its pointer.
Released(c) == [c EXCEPT !.found = NoMasternode, !.moved = FALSE]

\* The block extends the best chain; ConnectBlock has succeeded and is
\* committed, OnBlockConnected has looked its payee up.
ExtendBestChain(b) ==
  /\ chain.pc = "idle"
  /\ Len(best) < MaxHeight
  /\ chain' = [Idle EXCEPT !.pc = "record", !.branch = Append(best, b), !.fork = Len(best),
                           !.committed = TRUE, !.found = FirstOwner(vMasternodes, b)]
  /\ stored' = Append(best, b)
  /\ UNCHANGED <<best, vMasternodes, mapLastPaidHeight, update, doubtful>>

\* The block heads another branch, which leaves the best chain at fork.
StartReorganize ==
  /\ chain.pc = "idle"
  /\ \E fork \in 0 .. Len(best) - 1 :
       chain' = [Idle EXCEPT !.pc = "disconnect", !.fork = fork, !.at = Len(best)]
  /\ UNCHANGED <<best, stored, vMasternodes, mapLastPaidHeight, update, doubtful>>

\* Reorganize disconnects a block; OnBlockDisconnected looks its payee up.
DisconnectBlock ==
  /\ chain.pc = "disconnect"
  /\ chain' = [chain EXCEPT !.pc = "forget", !.found = FirstOwner(vMasternodes, best[chain.at])]
  /\ UNCHANGED <<best, stored, vMasternodes, mapLastPaidHeight, update, doubtful>>

\* Where Reorganize goes after the hook: to the next block below, or to the
\* branch once the fork is reached.
AfterDisconnect ==
  IF chain.at = chain.fork + 1
  THEN [Released(chain) EXCEPT !.pc = "connect", !.at = 0,
                               !.branch = SubSeq(best, 1, chain.fork)]
  ELSE [Released(chain) EXCEPT !.pc = "disconnect", !.at = @ - 1]

\* OnBlockDisconnected goes on under mnodeman.cs: only a record of this very
\* height is to be recomputed.
OnBlockDisconnected ==
  /\ chain.pc = "forget"
  /\ \E m \in Pointees :
       chain' = IF m # NoMasternode /\ mapLastPaidHeight[m] = chain.at
                THEN [chain EXCEPT !.pc = "rewalk"]
                ELSE AfterDisconnect
  /\ doubtful' = doubtful \cup ((Pointees \cup {PaidBy(best[chain.at])}) \ {NoMasternode})
  /\ UNCHANGED <<best, stored, vMasternodes, mapLastPaidHeight, update>>

\* The walk of OnBlockDisconnected from pindexBest, and its write under
\* mnodeman.cs.  The pointer is read for the script and again for the entry.
RecomputeDisconnected ==
  /\ chain.pc = "rewalk"
  /\ \E p, of \in Pointees \cap Masternodes :
       /\ mapLastPaidHeight' = [mapLastPaidHeight EXCEPT ![p] = RecomputeLastPaidHeight(best, of)]
       /\ doubtful' = doubtful \cup {p}
  /\ chain' = AfterDisconnect
  /\ UNCHANGED <<best, stored, vMasternodes, update>>

\* The next block of the branch is connected, by Reorganize or after it by
\* SetBestChainInner; OnBlockConnected looks its payee up.
ConnectBlock(b) ==
  /\ chain.pc = "connect"
  /\ chain' = [chain EXCEPT !.pc = "record", !.branch = Append(@, b),
                            !.found = FirstOwner(vMasternodes, b)]
  /\ stored' = IF chain.committed THEN Append(chain.branch, b) ELSE stored
  /\ UNCHANGED <<best, vMasternodes, mapLastPaidHeight, update, doubtful>>

\* Where SetBestChain goes after a block: to the commit once the branch has
\* more trust than the best chain, to the end after its last block.
AfterBlock ==
  {pc \in {"connect", "commit", "settip"} :
     /\ pc = "connect" => Len(chain.branch) < MaxHeight /\ chain.fork < Len(best)
     /\ pc = "commit" => ~chain.committed
     /\ pc = "settip" => chain.committed}

\* Mutant: the block is recorded at the height of pindexBest.
OnBlockConnectedAtTip ==
  /\ chain.pc = "record"
  /\ \E m \in Pointees :
       LET payee == PaidBy(chain.branch[Len(chain.branch)])
       IN /\ mapLastPaidHeight' = IF m # NoMasternode
                                  THEN [mapLastPaidHeight EXCEPT ![m] = Len(best)]
                                  ELSE mapLastPaidHeight
          /\ doubtful' = IF m = payee
                         THEN doubtful \ {payee}
                         ELSE doubtful \cup ({m, payee} \ {NoMasternode})
  /\ \E pc \in AfterBlock : chain' = [Released(chain) EXCEPT !.pc = pc]
  /\ UNCHANGED <<best, stored, vMasternodes, update>>

\* The rest of OnBlockConnected: the block's height is recorded, whatever the
\* entry was.
OnBlockConnected ==
  /\ chain.pc = "record"
  /\ \E m \in Pointees :
       LET payee == PaidBy(chain.branch[Len(chain.branch)])
       IN /\ mapLastPaidHeight' = IF m # NoMasternode
                                  THEN [mapLastPaidHeight EXCEPT ![m] = Len(chain.branch)]
                                  ELSE mapLastPaidHeight
          /\ doubtful' = IF m = payee
                         THEN doubtful \ {payee}
                         ELSE doubtful \cup ({m, payee} \ {NoMasternode})
  /\ \E pc \in AfterBlock : chain' = [Released(chain) EXCEPT !.pc = pc]
  /\ UNCHANGED <<best, stored, vMasternodes, update>>

\* Reorganize commits its database transaction; blocks of the branch beyond
\* the first that outweighs the best chain are connected afterwards.
CommitReorganize ==
  /\ chain.pc = "commit"
  /\ \E pc \in {"connect", "settip"} :
       /\ pc = "connect" => Len(chain.branch) < MaxHeight
       /\ chain' = [chain EXCEPT !.pc = pc, !.committed = TRUE]
  /\ stored' = chain.branch
  /\ UNCHANGED <<best, vMasternodes, mapLastPaidHeight, update, doubtful>>

\* The masternodes paid by a range of blocks of a chain.
PaidOn(c, from) == {PaidBy(c[h]) : h \in from .. Len(c)} \ {NoMasternode}

\* Reorganize cannot read, disconnect, connect or commit: the database
\* transaction is aborted; the record is not.
ReorganizeFails ==
  /\ chain.pc \in {"disconnect", "connect", "commit"}
  /\ ~chain.committed
  /\ chain' = Idle
  /\ doubtful' = doubtful \cup PaidOn(chain.branch, chain.fork + 1)
  /\ UNCHANGED <<best, stored, vMasternodes, mapLastPaidHeight, update>>

\* A further block cannot be connected: "errors now are not fatal", and
\* pindexBest moves to the head of the branch all the same.
SecondaryFails ==
  /\ chain.pc = "connect"
  /\ chain.committed
  /\ \E n \in 1 .. MaxHeight - Len(chain.branch) : \E rest \in [1 .. n -> Blocks] :
       /\ chain' = [chain EXCEPT !.pc = "settip", !.branch = @ \o rest]
       /\ doubtful' = doubtful \cup PaidOn(rest, 1)
  /\ UNCHANGED <<best, stored, vMasternodes, mapLastPaidHeight, update>>

\* The end of SetBestChain.
SetTip ==
  /\ chain.pc = "settip"
  /\ best' = chain.branch
  /\ chain' = Idle
  /\ UNCHANGED <<stored, vMasternodes, mapLastPaidHeight, update, doubtful>>

-----------------------------------------------------------------------------
\* The masternode list, from other threads.

\* A walk from pindexBest finds the last payment of m: it is within reach, and
\* m has not produced a block since.
WalkFindsPayment(c, m) ==
  /\ LastPayment(c, m) # 0 => InScan(c, LastPayment(c, m))
  /\ \A h \in DOMAIN c : h > LastPayment(c, m) => c[h].producer # ScriptOf[m]

\* The vector's elements move; a pointer into it goes stale.
ListMoves ==
  /\ chain' = [chain EXCEPT !.moved = chain.pc \in {"forget", "rewalk", "record"}]
  /\ update' = [update EXCEPT !.moved = update.pc # "none"]

\* Add: push_back may reallocate the vector.  The walk is part of the step: Add
\* holds mnodeman.cs from the lookup to the write, and every hook needs it.
\* While a block is being connected the walk starts too low.
Add(m) ==
  /\ m \notin vMasternodes
  /\ vMasternodes' = vMasternodes \cup {m}
  /\ mapLastPaidHeight' = [mapLastPaidHeight EXCEPT ![m] = RecomputeLastPaidHeight(best, m)]
  /\ doubtful' = IF chain.pc = "idle" /\ WalkFindsPayment(best, m)
                 THEN doubtful \ {m} ELSE doubtful \cup {m}
  /\ ListMoves
  /\ UNCHANGED <<best, stored>>

\* "dsee" of a listed masternode: Find hands out a pointer to its entry, through
\* which the handler updates it.
FindEntry(m) ==
  /\ update.pc = "none"
  /\ m \in vMasternodes
  /\ update' = [NoUpdate EXCEPT !.pc = "found", !.mn = m]
  /\ UNCHANGED <<best, stored, vMasternodes, mapLastPaidHeight, chain, doubtful>>

\* Another thread may be writing to the map: a hook at its write, or Add for a
\* masternode that is not listed.
MapInFlux == chain.pc \in {"rewalk", "record"} \/ vMasternodes # Masternodes

\* The handler finds no record and starts a walk from pindexBest.  It looks
\* without a lock: while the map is written to, it may miss a record.
StartBackfill ==
  /\ update.pc = "found"
  /\ mapLastPaidHeight[update.mn] = 0 \/ MapInFlux
  /\ update' = [update EXCEPT !.pc = "walk", !.from = best]
  /\ UNCHANGED <<best, stored, vMasternodes, mapLastPaidHeight, chain, doubtful>>

\* The message is not newer, or the masternode has a record.
SkipBackfill ==
  /\ update.pc = "found"
  /\ update' = NoUpdate
  /\ UNCHANGED <<best, stored, vMasternodes, mapLastPaidHeight, chain, doubtful>>

\* The masternodes that the handler's pointer may denote.
UpdatePointees == IF update.moved THEN Masternodes ELSE {update.mn}

\* What the walk found is written under mnodeman.cs, over whatever was recorded
\* since it began.  It is the last payment only if no block was connected or is
\* being connected, and the pointer still denotes the masternode.
EndBackfill ==
  /\ update.pc = "walk"
  /\ \E p, of \in UpdatePointees :
       /\ mapLastPaidHeight' =
            [mapLastPaidHeight EXCEPT ![p] = RecomputeLastPaidHeight(update.from, of)]
       /\ doubtful' = IF /\ ~update.moved /\ update.from = best /\ chain.pc = "idle"
                         /\ WalkFindsPayment(best, p)
                      THEN doubtful \ {p} ELSE doubtful \cup {p}
  /\ update' = NoUpdate
  /\ UNCHANGED <<best, stored, vMasternodes, chain>>

\* CheckAndRemove: the record stays.
CheckAndRemove(m) ==
  /\ m \in vMasternodes
  /\ vMasternodes' = vMasternodes \ {m}
  /\ ListMoves
  /\ UNCHANGED <<best, stored, mapLastPaidHeight, doubtful>>

\* Masternodes whose last payment a startup walk over the enabled ones does
\* not see: paid but not enabled, missed by any walk, or paid by a block that
\* another enabled masternode produced.
Overlooked(c, enabled) ==
  {m \in Masternodes : LET last == LastPayment(c, m) IN
     \/ m \notin enabled /\ last # 0
     \/ m \in enabled /\ ~WalkFindsPayment(c, m)
     \/ last # 0 /\ OwnerIn(enabled \ {m}, c[last].producer) # NoMasternode}

\* Restart: the list is the one mncache.dat held; the record is rebuilt by
\* PopulateLastPaidHeightCache, which walks for the enabled masternodes.
Restart ==
  /\ \E list \in SUBSET Masternodes : \E enabled \in SUBSET list :
       /\ vMasternodes' = list
       /\ mapLastPaidHeight' = WalkBack(stored, enabled)
       /\ doubtful' = Overlooked(stored, enabled)
  /\ best' = stored
  /\ chain' = Idle
  /\ update' = NoUpdate
  /\ UNCHANGED stored

Next ==
  \/ \E b \in Blocks : ExtendBestChain(b) \/ ConnectBlock(b)
  \/ StartReorganize \/ DisconnectBlock \/ OnBlockDisconnected \/ RecomputeDisconnected
  \/ OnBlockConnected \/ CommitReorganize
  \/ ReorganizeFails \/ SecondaryFails \/ SetTip
  \/ \E m \in Masternodes : Add(m) \/ CheckAndRemove(m) \/ FindEntry(m)
  \/ StartBackfill \/ SkipBackfill \/ EndBackfill
  \/ Restart

Spec == Init /\ [][Next]_vars
-----------------------------------------------------------------------------
\* The record, the chains and the positions of SetBestChain and of the "dsee"
\* handler have their types; an absent record is 0 and never a sentinel.
TypeOK ==
  /\ best \in Chains
  /\ stored \in Chains
  /\ vMasternodes \subseteq Masternodes
  /\ mapLastPaidHeight \in [Masternodes -> HeightOrNone]
  /\ chain \in ChainStates
  /\ update \in Updates
  /\ doubtful \subseteq Masternodes

\* The record ranks masternodes by their last payment: between two blocks, a
\* listed masternode's entry is the height of its last payment on the best
\* chain, unless one of the gaps the code leaves touched it: an abandoned
\* branch or a failed switch that paid it, a walk during a connect or one that
\* a block overtook, a list change under a pointer, a producer mistaken for a
\* payee, a walk too short or one that skipped it.  Its next recorded payment
\* heals it.
ExactUnlessDoubtful ==
  chain.pc = "idle" =>
    \A m \in vMasternodes \ doubtful : mapLastPaidHeight[m] = LastPayment(best, m)

\* main.cpp says of the disconnect hook: "If this disconnected block was an
\* MN's last-known-payment block, this triggers RecomputeLastPaidHeight to
\* find the next-most-recent".  A disconnected height is not found again.
DisconnectForgets ==
  [][chain.pc \in {"forget", "rewalk"} /\ chain'.pc \in {"disconnect", "connect"}
       => \A m \in {chain.found} \cap Masternodes :
            ~chain.moved => mapLastPaidHeight'[m] # chain.at]_vars

\* OnBlockConnected says: "Scan outputs, find the one paying a known MN".  The
\* masternode in a connected block's slot gets the block's height.
PaymentIsRecorded ==
  [][chain.pc = "record" /\ chain'.pc \in AfterBlock /\ ~chain.moved
       => \A m \in {PaidBy(chain.branch[Len(chain.branch)])} \cap vMasternodes :
            mapLastPaidHeight'[m] = Len(chain.branch)]_vars
=============================================================================
