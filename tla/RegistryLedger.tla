--------------------------- MODULE RegistryLedger ---------------------------
(***************************************************************************)
(* The registry implements the membership ledger as long as saves neither  *)
(* fail nor are cut short (SaveFaults = {}).  The ledger's members are the *)
(* nodes in memory, or those in the file while the controller is down;     *)
(* it is served while the controller is up.                                *)
(***************************************************************************)
EXTENDS Registry

Identities(ns) ==
    [i \in DOMAIN ns |-> [mac |-> ns[i].mac, octet |-> ns[i].octet]]

Members == Identities(IF up THEN nodes ELSE file.nodes)

Ledger == INSTANCE MembershipLedger WITH members <- Members, serving <- up

(* Membership is write-through: what a restart would load has exactly the   *)
(* members, machines and mesh addresses now in memory.  Every call that     *)
(* changes them saves before it returns (registry.go:68, 92, 150, 160).     *)
WriteThrough == up => Identities(file.nodes) = Identities(nodes)

(* Every step of the registry joins, removes or purges members the way the  *)
(* ledger allows; heartbeats, reaping and time leave it alone, and crashes  *)
(* and restarts change none of its members (registry.go:68, 92, 150, 160,   *)
(* 230-255).                                                                *)
ImplementsLedger == Ledger!Spec
=============================================================================
