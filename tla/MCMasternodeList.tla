-------------------------- MODULE MCMasternodeList --------------------------
(* A line of three nodes, the masternode at one end: the last node hears of *)
(* it only through the one in the middle.                                  *)
EXTENDS MasternodeList, TLC

CONSTANTS o, a, b

MCLinks == {<<o, a>>, <<a, o>>, <<a, b>>, <<b, a>>}
=============================================================================
