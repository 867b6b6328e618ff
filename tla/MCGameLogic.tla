---------------------------- MODULE MCGameLogic ----------------------------
(* The game services on small instances; the clients are interchangeable.  *)
EXTENDS GameLogic, TLC

Symmetry == Permutations(Uids)
=============================================================================
