----------------------------- MODULE MCRegistry -----------------------------
(* TLC instances of Registry. *)
EXTENDS Registry, TLC

CONSTANTS n1, n2, a1, a2, noMac

\* Identifiers are opaque random strings and hardware addresses are only
\* compared with each other and with the empty one.
Symmetry == Permutations({n1, n2}) \cup Permutations({a1, a2})
=============================================================================
