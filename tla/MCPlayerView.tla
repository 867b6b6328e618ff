---------------------------- MODULE MCPlayerView ----------------------------
(* The players' pictures of each other on a small map.                     *)
EXTENDS PlayerView, TLC

Symmetry == Permutations(Uids)
=============================================================================
