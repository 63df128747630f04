---------------------------- MODULE MCIsoManager ----------------------------
(* TLC instances of IsoManager. *)
EXTENDS IsoManager, TLC

CONSTANTS j1, j2, j3, f1, f2

Symmetry == Permutations(Job \ Unsized) \cup Permutations(Name)
=============================================================================
