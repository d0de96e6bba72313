------------------------- MODULE MCPayeeEnforcement -------------------------
(***************************************************************************)
(* Small instance of PayeeEnforcement: two masternode scripts and devops.  *)
(* The network sends a branch of three blocks and a competing block, in    *)
(* any order; the node builds blocks on either.  Voting is active from the *)
(* third block on, and from the second while the first spork is active.    *)
(***************************************************************************)
EXTENDS PayeeEnforcement

CONSTANTS s1, s2

MCScripts == {s1, s2}
MCSupply == {<<s1>>, <<s1, s2>>, <<s1, s2, s1>>, <<s2>>}
MCSporks == {[value |-> 2, time |-> 1], [value |-> 0, time |-> 2]}
=============================================================================
