-------------------------- MODULE MCVotedConsensus -------------------------
(***************************************************************************)
(* A small instance of VotedConsensus: three masternodes, of which two are *)
(* a quorum, each computing one of two lists and m3 more than once.        *)
(***************************************************************************)
EXTENDS VotedConsensus, TLC

CONSTANTS m1, m2, m3, a, b

MCMasternodes == {m1, m2, m3}
MCPayees == {a, b}

List(x) == [i \in Positions |-> x]
TwoViews == [h \in Heights |-> IF h = 1 THEN {List(a), List(b)} ELSE {}]

MCSymmetry == Permutations({m1, m2}) \cup Permutations({a, b})
=============================================================================
