------------------------------ MODULE MCWakeup ------------------------------
(* Every thread's loop with its sockets; no symmetry, as the run checks    *)
(* that what is queued is handled in the end.                              *)
EXTENDS Wakeup
=============================================================================
