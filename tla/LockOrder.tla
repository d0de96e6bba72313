----------------------------- MODULE LockOrder ------------------------------
(***************************************************************************)
(* The critical sections that meet on the masternode-payment paths, and    *)
(* the order in which the threads of a node enter them.  There are five    *)
(* kinds of threads and any number of each; the node has one of most and   *)
(* -rpcthreads of one.                                                     *)
(*                                                                         *)
(* A path is a sequence of entering and leaving critical sections; what is *)
(* computed inside is left out.  LOCK waits, TRY_LOCK skips its block when *)
(* another thread is inside, and every lock is recursive.  Of the peers'   *)
(* cs_vSend there is one: that of a peer all threads send to.  Locks that  *)
(* are only entered with nothing taken inside (cs_inventory, cs_mapRelay,  *)
(* cs_masternodepayments while its winners stay disabled) or by one thread *)
(* (cs_process_message) cannot be in a cycle and are left out, as is the   *)
(* wallet's, which is entered below cs_main or, in Register, with nothing  *)
(* taken inside.                                                           *)
(***************************************************************************)
EXTENDS Naturals, Sequences

CONSTANTS
  Threads,
  Kind,      \* thread -> what it does
  MaxDepth   \* bound: how often a thread is inside one lock

Locks == {"cs_main", "mempool.cs", "mnodeman.cs", "voteTracker.cs", "cs_vNodes", "cs_vSend"}
Kinds == {"message", "staker", "mnengine", "rpc", "socket"}

ASSUME LockConstants ==
  /\ Kind \in [Threads -> Kinds]
  /\ MaxDepth \in Nat /\ MaxDepth >= 3

VARIABLES
  todo,   \* thread -> the steps left of its path
  inside  \* thread -> lock -> how often it has entered it

vars == <<todo, inside>>

-----------------------------------------------------------------------------
\* Paths.

Step(op, lock, skip) == [op |-> op, lock |-> lock, skip |-> skip]

\* LOCK(lock) around a block.
Under(lock, block) == <<Step("lock", lock, 0)>> \o block \o <<Step("unlock", lock, 0)>>

\* TRY_LOCK(lock) around a block that is skipped if it fails.
IfFree(lock, block) ==
  <<Step("try", lock, Len(block) + 1)>> \o block \o <<Step("unlock", lock, 0)>>

Nothing == <<>>

\* The transaction and its block are looked up, the pool first.
GetTransaction == Under("cs_main", Under("mempool.cs", Nothing))

\* Mutant: an empty message leaves cs_vSend locked.
PushWithoutLeaving == <<Step("lock", "cs_vSend", 0)>>

\* BeginMessage to EndMessage.
PushMessage == Under("cs_vSend", Nothing)

\* RelayMasternodeEntry, RelayMasternodeEntryPing, the end of BroadcastQueue,
\* the announcement of a received queue.
Relay == Under("cs_vNodes", PushMessage)

\* CMasternode::Check: nothing if cs_main is taken.
Check == IfFree("cs_main", Under("mempool.cs", Nothing))

\* Check, then GetMasternodeInputAge, which asks the chain the first time.
FindOldestNotInVec == Under("mnodeman.cs", Check \o GetTransaction)

CheckAndRemove == Under("mnodeman.cs", Check)

\* The request for the list is sent inside the list's lock.
DsegUpdate == Under("mnodeman.cs", PushMessage)

\* Mutant: the tracker's lock first, as before cs_main was added here.
WinnerTrackerFirst == Under("voteTracker.cs", GetTransaction)

\* LOCK2, then CountVotingEligible for the quorum.
GetCanonicalWinnerFromQueues == Under("cs_main", Under("voteTracker.cs", GetTransaction))

\* GetQueuePaymentSnapshot, ProcessQueue, and the push to the peers.
BroadcastQueue ==
  Under("mnodeman.cs", GetTransaction) \o Under("voteTracker.cs", Nothing) \o Relay

\* The callers hold cs_main: check the block, ask its sender for what is
\* missing, tell tracker and payment record about it, announce it, prune,
\* broadcast.
ProcessBlock ==
  Under("cs_main",
    GetCanonicalWinnerFromQueues \o PushMessage \o Under("voteTracker.cs", Nothing)
      \o Under("mnodeman.cs", Nothing) \o Under("cs_vNodes", Nothing) \o BroadcastQueue)

\* "inv" and "getdata": AlreadyHaveQueue or GetQueueByHash, then the answer.
AnswerInventory == Under("cs_main", Under("voteTracker.cs", Nothing) \o PushMessage)

\* "verack": ask for sporks and queues, and outside initial download for the
\* masternode list.
Connected == PushMessage \o Under("cs_main", Nothing) \o DsegUpdate

\* "mnvotequeue": known already?  who is the voter?  announce, record.
ReceiveQueue ==
  Under("voteTracker.cs", Nothing) \o Under("mnodeman.cs", Nothing)
    \o Relay \o Under("voteTracker.cs", Nothing)

\* ... of an unknown voter: announce, ask the sender for the voter (AskForMN).
RelayUnknown ==
  Under("voteTracker.cs", Nothing) \o Under("mnodeman.cs", Nothing) \o Relay \o PushMessage

\* "getmnqueues": collect the hashes, then send them.
SyncQueues == Under("voteTracker.cs", Nothing) \o PushMessage

\* "dsee": find the entry, check the collateral, add, clear, relay.
ReceiveEntry ==
  Under("mnodeman.cs", Nothing) \o Check \o GetTransaction
    \o Under("mnodeman.cs", Nothing) \o Under("voteTracker.cs", Nothing) \o Relay

\* "dsee" of a known entry: find it, clear, check, backfill its record, relay.
\* "dseep" does the same without the backfill.
UpdateEntry ==
  Under("mnodeman.cs", Nothing) \o Under("voteTracker.cs", Nothing) \o Check
    \o Under("mnodeman.cs", Nothing) \o Relay

\* Mutant: SendMessages waits for cs_main.
SendMessagesWaits ==
  IfFree("cs_vSend",
    Under("cs_main", Under("cs_vNodes", Nothing) \o Under("voteTracker.cs", Nothing)))

\* SendMessages, once a day with the address refresh over all peers, then the
\* getdata for what AlreadyHave does not know.
SendMessages ==
  IfFree("cs_vSend",
    IfFree("cs_main", Under("cs_vNodes", Nothing) \o Under("voteTracker.cs", Nothing)))

\* ThreadStakeMiner: the probe, the template, the coinstake, the new block.
CreateNewBlock ==
  Under("cs_main", Under("mempool.cs", GetCanonicalWinnerFromQueues \o FindOldestNotInVec))
CreateCoinStake == GetCanonicalWinnerFromQueues \o FindOldestNotInVec
ProbeWinner == Under("cs_main", GetCanonicalWinnerFromQueues)

\* ManageStatus with Register or Dseep.
ManageStatus == GetTransaction \o Under("mnodeman.cs", Nothing) \o Relay

\* A masternode command: CRPCTable::execute takes cs_main around it.
ExecuteCommand ==
  Under("cs_main", Under("mnodeman.cs", Nothing) \o GetCanonicalWinnerFromQueues \o Relay)

\* ThreadSocketHandler: over all peers, each send buffer only if it is free.
ServeSockets == Under("cs_vNodes", IfFree("cs_vSend", Nothing))

Paths(kind) ==
  CASE kind = "message"  -> {ProcessBlock, AnswerInventory, Connected, ReceiveQueue, RelayUnknown,
                             SyncQueues, ReceiveEntry, UpdateEntry, SendMessages}
    [] kind = "staker"   -> {ProbeWinner, CreateNewBlock, CreateCoinStake, ProcessBlock}
    [] kind = "mnengine" -> {ManageStatus, CheckAndRemove, Under("cs_vNodes", Nothing)}
    [] kind = "rpc"      -> {ExecuteCommand}
    [] kind = "socket"   -> {ServeSockets}

-----------------------------------------------------------------------------
Init ==
  /\ todo = [t \in Threads |-> Nothing]
  /\ inside = [t \in Threads |-> [l \in Locks |-> 0]]

Holds(t, l) == inside[t][l] > 0
Free(t, l) == \A u \in Threads \ {t} : ~Holds(u, l)
At(t, op) == todo[t] # Nothing /\ Head(todo[t]).op = op

Begin(t) ==
  /\ todo[t] = Nothing
  /\ \E path \in Paths(Kind[t]) : todo' = [todo EXCEPT ![t] = path]
  /\ UNCHANGED inside

Enter(t) ==
  LET l == Head(todo[t]).lock
  IN /\ At(t, "lock") \/ At(t, "try")
     /\ Free(t, l)
     /\ inside' = [inside EXCEPT ![t][l] = @ + 1]
     /\ todo' = [todo EXCEPT ![t] = Tail(@)]

SkipBlock(t) ==
  LET s == Head(todo[t])
  IN /\ At(t, "try")
     /\ ~Free(t, s.lock)
     /\ todo' = [todo EXCEPT ![t] = SubSeq(@, s.skip + 2, Len(@))]
     /\ UNCHANGED inside

Leave(t) ==
  /\ At(t, "unlock")
  /\ inside' = [inside EXCEPT ![t][Head(todo[t]).lock] = @ - 1]
  /\ todo' = [todo EXCEPT ![t] = Tail(@)]

Next == \E t \in Threads : Begin(t) \/ Enter(t) \/ SkipBlock(t) \/ Leave(t)

Spec == Init /\ [][Next]_vars
-----------------------------------------------------------------------------
\* One thread inside a lock at a time, and none inside any between two paths.
TypeOK ==
  /\ inside \in [Threads -> [Locks -> 0 .. MaxDepth]]
  /\ \A l \in Locks : \A t, u \in Threads : Holds(t, l) /\ Holds(u, l) => t = u
  /\ \A t \in Threads : todo[t] = Nothing => \A l \in Locks : ~Holds(t, l)

Wants(t, l) == At(t, "lock") /\ Head(todo[t]).lock = l

\* Threads that all wait for one another.
Stuck(D) ==
  /\ D # {}
  /\ \A t \in D : At(t, "lock") /\ \E u \in D \ {t} : Holds(u, Head(todo[t]).lock)

\* The comment in GetCanonicalWinnerFromQueues: the canonical order is cs_main,
\* then voteTracker.cs.  Threads that wait for one another neither have the
\* tracker's lock nor wait for it: whoever has it comes to its end.
TrackerNotInCycle ==
  \A D \in SUBSET Threads : Stuck(D) =>
    \A t \in D : ~Holds(t, "voteTracker.cs") /\ ~Wants(t, "voteTracker.cs")

\* The two entries against the order of all others: FindOldestNotInVec asks the
\* chain inside mnodeman.cs, and the daily address refresh goes over the peers
\* inside one peer's cs_vSend.
Inverted(t) ==
  \/ Holds(t, "mnodeman.cs") /\ Wants(t, "cs_main")
  \/ Holds(t, "cs_vSend") /\ Wants(t, "cs_vNodes")

\* No threads wait for one another except through these two entries: every
\* other nesting of these six locks on the payment paths, with its try-locks
\* and recursive entries, is free of deadlock.
OnlyKnownCycles ==
  \A D \in SUBSET Threads : Stuck(D) => \E t \in D : Inverted(t)
=============================================================================
