------------------------------ MODULE MCCluster ------------------------------
(* TLC instances of Cluster. *)
EXTENDS Cluster, TLC

CONSTANTS m1, m2, noMac, n1, n2, n3, n4

NodeSymmetry == Permutations(NodeID)
=============================================================================
