--------------------------- MODULE MCVoteTracker ---------------------------
(***************************************************************************)
(* Small instance of VoteTracker: two voters, two payees, a window of one  *)
(* block on each side, and the wire queues that make the cases of          *)
(* ProcessQueue happen: an older, a newer and an equally old queue for one *)
(* slot, all acceptable at one time, so that a replayed older one meets    *)
(* the newer.  The node's own queues fill the other voter's slots, at      *)
(* every height.                                                           *)
(***************************************************************************)
EXTENDS VoteTracker

CONSTANTS m1, m2, a, b

MCMasternodes == {m1, m2}
MCPayees == {a, b}

List(x) == [i \in Positions |-> x]
Cast(v, h, x, t) == [voter |-> v, height |-> h, payees |-> List(x), time |-> t]

MCOwnLists == {List(a)}
MCWire == {Cast(m2, 0, a, 0), Cast(m2, 0, b, 0), Cast(m2, 0, b, 1)}
=============================================================================
