----------------------------- MODULE MCLastPaid -----------------------------
(***************************************************************************)
(* Small instance of LastPaid: two masternodes and a staker.  One block    *)
(* pays a masternode, the other is produced by that masternode and pays    *)
(* the other one.  PlainBlocks has no block a masternode produced.         *)
(***************************************************************************)
EXTENDS LastPaid

CONSTANTS m1, m2, s1, s2, staker

MCMasternodes == {m1, m2}
MCScripts == {s1, s2, staker}
MCScriptOf == [m \in MCMasternodes |-> IF m = m1 THEN s1 ELSE s2]

Block(x, y) == [producer |-> x, payee |-> y]
MCBlocks == {Block(staker, s1), Block(s1, s2)}
PlainBlocks == {Block(staker, s1), Block(staker, s2)}
=============================================================================
