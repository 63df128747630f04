--------------------------- MODULE MCAgentUpdate ----------------------------
(* TLC instances of AgentUpdate. *)
EXTENDS AgentUpdate, TLC

CONSTANTS j1, j2, j3

Symmetry == Permutations(Job)
=============================================================================
