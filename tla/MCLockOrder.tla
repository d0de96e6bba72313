---------------------------- MODULE MCLockOrder -----------------------------
(***************************************************************************)
(* One thread of each kind.                                                *)
(***************************************************************************)
EXTENDS LockOrder

MCThreads == Kinds
MCKind == [t \in MCThreads |-> t]
=============================================================================
