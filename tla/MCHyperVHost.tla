---------------------------- MODULE MCHyperVHost ----------------------------
(* TLC instances of HyperVHost. *)
EXTENDS HyperVHost

CONSTANTS ubuntu, web, iso
=============================================================================
