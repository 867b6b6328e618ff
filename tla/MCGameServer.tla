---------------------------- MODULE MCGameServer ----------------------------
(* The whole server with a few clients.                                    *)
EXTENDS GameServer, TLC

Symmetry == Permutations(Clients)
=============================================================================
