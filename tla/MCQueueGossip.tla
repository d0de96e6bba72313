-------------------------- MODULE MCQueueGossip ----------------------------
(***************************************************************************)
(* Small instances of QueueGossip: a ring in which the far node c is       *)
(* reached over b, which knows the signer, and over u, which does not; and *)
(* a line with u in the middle.                                            *)
(***************************************************************************)
EXTENDS QueueGossip

CONSTANTS s, b, c, u

RingNodes == {s, b, c, u}
RingLinks == {{s, b}, {b, c}, {s, u}, {u, c}}
RingAware == {s, b, c}

LineNodes == {s, u, c}
LineLinks == {{s, u}, {u, c}}
LineAware == {s, c}
=============================================================================
