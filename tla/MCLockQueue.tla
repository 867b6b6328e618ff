---------------------------- MODULE MCLockQueue ----------------------------
(* Two threads that push (as two game services do to net_logic), one that  *)
(* pops, and four nodes of memory, so that every node is used again.       *)
EXTENDS LockQueue
=============================================================================
