---------------------------- MODULE MCVMConsole -----------------------------
(* TLC instances of VMConsole. *)
EXTENDS VMConsole

CONSTANTS n1, n2, demo, i1, i2, ubuntu, Ubuntu, snap

\* "ubuntu" and "Ubuntu" are one name to strings.EqualFold.
FoldCase == (ubuntu :> ubuntu) @@ (Ubuntu :> ubuntu) @@ (NoName :> NoName)
=============================================================================
