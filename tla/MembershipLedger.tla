-------------------------- MODULE MembershipLedger --------------------------
(***************************************************************************)
(* What the registry promises an operator: a durable ledger of members.    *)
(* Each member keeps one mesh address for as long as it is a member, two   *)
(* members never have the same one, a machine is a member once, and        *)
(* membership changes only by joining, by removal and by a reset while the *)
(* ledger is served, never by the controller's crashing and coming back.   *)
(***************************************************************************)
EXTENDS Naturals

CONSTANTS NodeID, MAC, NoMAC

VARIABLES
    members,    \* identifier -> [mac, octet]
    serving     \* does anyone answer for the ledger?

vars == <<members, serving>>

Init ==
    /\ members = [i \in {} |-> 0]
    /\ serving = FALSE

Open  == ~serving /\ serving' = TRUE /\ UNCHANGED members
Close == serving /\ serving' = FALSE /\ UNCHANGED members

Entry == serving /\ UNCHANGED serving

Join(id, mac, octet) ==
    /\ Entry
    /\ id \notin DOMAIN members
    /\ \A i \in DOMAIN members : members[i].octet # octet
    /\ mac # NoMAC => \A i \in DOMAIN members : members[i].mac # mac
    /\ members' = [i \in DOMAIN members \cup {id} |->
                      IF i = id THEN [mac |-> mac, octet |-> octet]
                                ELSE members[i]]

\* The address of a new member is whatever the refining step assigns to it.
JoinSomewhere(id, mac) ==
    \E octet \in {members'[i].octet : i \in DOMAIN members'} :
        Join(id, mac, octet)

Leave(id) ==
    /\ Entry
    /\ id \in DOMAIN members
    /\ members' = [i \in DOMAIN members \ {id} |-> members[i]]

Purge == Entry /\ members' = [i \in {} |-> 0]

Next ==
    \/ Open
    \/ Close
    \/ \E id \in NodeID, mac \in MAC : JoinSomewhere(id, mac)
    \/ \E id \in NodeID : Leave(id)
    \/ Purge

Spec == Init /\ [][Next]_vars
=============================================================================
