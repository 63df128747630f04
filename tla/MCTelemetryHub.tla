--------------------------- MODULE MCTelemetryHub ---------------------------
(* TLC instances of TelemetryHub. *)
EXTENDS TelemetryHub, TLC

CONSTANTS c1, c2

ConnSymmetry == Permutations(Conn)
=============================================================================
