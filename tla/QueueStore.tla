----------------------------- MODULE QueueStore -----------------------------
(***************************************************************************)
(* What the tracker promises to the tally and to the peers, without        *)
(* threads, locks, chain or indexes: a set of held queues, one per voter   *)
(* and height.                                                             *)
(*                                                                         *)
(* A queue is taken in one step, only if it was signed later than what its *)
(* voter had for the height.  It has been offered to the peers by then, or *)
(* it is the only held queue that has not (the node's own one, until it is *)
(* pushed).  Heights are forgotten as a whole; a crash forgets everything. *)
(***************************************************************************)
EXTENDS Integers

CONSTANT Queues  \* records with the fields voter, height and time

VARIABLES
  held,    \* the queues that count
  offered  \* the queues the peers were offered since the last crash

storage == <<held, offered>>

SameSlot(p, q) == p.voter = q.voter /\ p.height = q.height

Init == held = {} /\ offered = {}

Offer ==
  /\ offered \subseteq offered' /\ offered' \subseteq Queues
  /\ held' = held

Take(q) ==
  /\ \A p \in held : SameSlot(p, q) => q.time > p.time
  /\ held' = {p \in held : ~SameSlot(p, q)} \cup {q}
  /\ q \in offered \/ held \subseteq offered
  /\ UNCHANGED offered

Forget ==
  /\ held' \subseteq held
  /\ \A p, q \in held : p.height = q.height => (p \in held' <=> q \in held')
  /\ UNCHANGED offered

Crash == held' = {} /\ offered' = {}

Next == Offer \/ (\E q \in Queues : Take(q)) \/ Forget \/ Crash

Spec == Init /\ [][Next]_storage
=============================================================================
