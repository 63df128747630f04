------------------------- MODULE MCTerminalSession --------------------------
(* TLC instances of TerminalSession. *)
EXTENDS TerminalSession
=============================================================================
