------------------------------- MODULE Cluster -------------------------------
(***************************************************************************)
(* The controller's registry composed with the agents that use it          *)
(* (cmd/agent/main.go).  An agent registers once, when its process starts, *)
(* keeps the identifier and mesh address of the answer until it exits, and *)
(* from then on only sends heartbeats.  Requests and answers may be lost,  *)
(* both programs may die at any moment, the operator removes nodes and     *)
(* resets the cluster, and a machine's LAN address may change under it.    *)
(*                                                                         *)
(* An agent that cannot register exits (log.Fatalf).  Where a service      *)
(* manager starts it again, such an attempt changes nothing and is not a   *)
(* step here; where it is only started at boot and logon (install.bat), it *)
(* is down until then.  Heartbeats carry nothing that changes between      *)
(* their being sent and handled, so sending and handling is one step.      *)
(***************************************************************************)
EXTENDS RegistryLedger

CONSTANTS
    Machine,       \* the hosts; a host is its own hardware address
    Nameless,      \* hosts for which the agent finds no hardware address
    Supervised,    \* hosts that restart an agent that has exited
    Disruptions    \* model bound: crashes, exits, evictions and moves in all

ASSUME ClusterAssumption ==
    /\ MAC = Machine \cup {NoMAC}
    /\ NoMAC \notin Machine
    /\ Nameless \subseteq Machine
    /\ Supervised \subseteq Machine
    /\ Disruptions \in Nat

VARIABLES
    pc,         \* agent: "off" (starting), "answered" (answer in flight),
                \* "running", "stopped" (until the next boot or logon)
    holds,      \* the id and octet of the agent's registration answer
    addr,       \* the machine's current LAN address
    evicted,    \* has the operator removed the node behind this agent?
    joinToken,  \* the token the agents were installed with
    disrupted   \* disruptions so far

agentVars == <<pc, holds, addr, evicted>>
cvars == <<vars, agentVars, joinToken, disrupted>>

Nothing == [id |-> "none", octet |-> 0]

MacOf(m) == IF m \in Nameless THEN NoMAC ELSE m

Joined(m) == pc[m] \in {"answered", "running"}

\* Identifiers are 64 random bits: a new one is none that is still around,
\* and which one makes no difference.
NewIDs == NodeID \ (DOMAIN nodes \cup DOMAIN file.nodes
                     \cup {holds[m].id : m \in Machine})

generateRandomID == CHOOSE i \in NewIDs : TRUE

Disrupt ==
    /\ disrupted < Disruptions
    /\ disrupted' = disrupted + 1
    /\ UNCHANGED joinToken

Calm == UNCHANGED <<disrupted, joinToken>>

-----------------------------------------------------------------------------
CInit ==
    /\ Init
    /\ pc = [m \in Machine |-> "off"]
    /\ holds = [m \in Machine |-> Nothing]
    /\ addr \in [Machine -> Addr]
    /\ \A m, n \in Machine : addr[m] = addr[n] => m = n
    /\ evicted = [m \in Machine |-> FALSE]
    /\ joinToken = clusterToken
    /\ disrupted = 0

\* main: the token is the one given by -token or CRYBABY_TOKEN, else a new
\* random one.  The agents are installed with that of the first start.
StartController ==
    /\ \E tok \in Token :
          /\ disrupted = 0 => tok = clusterToken
          /\ Start(tok)
    /\ Calm
    /\ UNCHANGED agentVars

\* The process may die inside any save: a registration's, a removal's or a
\* reset's.  A reset may come at any time, so no other guard is left.
StopController ==
    /\ Crash \/ CrashInSave
    /\ Disrupt
    /\ UNCHANGED agentVars

\* Mutant: the answer's address is read from the counter, not from the node.
AnswerNext(i) == [id |-> i, octet |-> nextMeshOctet]

\* RegisterNodeResponse, built from the node after the registration.
Answer(i) == [id |-> i, octet |-> nodes'[i].octet]

(* registerWithController up to the handler's return: the answer holds the  *)
(* identifier and address of the node, whether it existed or is new.        *)
RegisterAgent(m) ==
    /\ pc[m] = "off"
    /\ \E i \in NodeID :
          /\ \/ RegisterExisting(joinToken, MacOf(m), addr[m], i)
             \/ /\ i \in NewIDs
                /\ i = generateRandomID
                /\ RegisterNew(joinToken, MacOf(m), addr[m], i)
          /\ holds' = [holds EXCEPT ![m] = Answer(i)]
    /\ pc' = [pc EXCEPT ![m] = "answered"]
    /\ evicted' = [evicted EXCEPT ![m] = FALSE]
    /\ Calm
    /\ UNCHANGED addr

\* Mutant: the agent goes on without a successful registration.
ReceiveAnswerUnchecked(m) ==
    /\ pc[m] # "running"
    /\ pc' = [pc EXCEPT ![m] = "running"]
    /\ Calm
    /\ UNCHANGED <<vars, holds, addr, evicted>>

ReceiveAnswer(m) ==
    /\ pc[m] = "answered"
    /\ pc' = [pc EXCEPT ![m] = "running"]
    /\ Calm
    /\ UNCHANGED <<vars, holds, addr, evicted>>

(* registerWithController fails: no controller, or another token.           *)
RegistrationFails(m) ==
    /\ m \notin Supervised
    /\ pc[m] = "off"
    /\ ~up \/ ~ValidateClusterToken(joinToken)
    /\ pc' = [pc EXCEPT ![m] = "stopped"]
    /\ Calm
    /\ UNCHANGED <<vars, holds, addr, evicted>>

Boot(m) ==
    /\ pc[m] = "stopped"
    /\ pc' = [pc EXCEPT ![m] = "off"]
    /\ Disrupt
    /\ UNCHANGED <<vars, holds, addr, evicted>>

\* The process dies (the answer never arrived, SIGTERM), or the machine with
\* it and boots again.
StopAgent(m) ==
    /\ Joined(m)
    /\ \E state \in {"off"} \cup (IF m \in Supervised THEN {} ELSE {"stopped"}) :
          pc' = [pc EXCEPT ![m] = state]
    /\ holds' = [holds EXCEPT ![m] = Nothing]
    /\ evicted' = [evicted EXCEPT ![m] = FALSE]
    /\ Disrupt
    /\ UNCHANGED <<vars, addr>>

\* sendHeartbeat: a refusal (404) is logged and the loop goes on.
Heartbeat(m) ==
    /\ pc[m] = "running"
    /\ UpdateHeartbeat(holds[m].id)
    /\ Calm
    /\ UNCHANGED agentVars

\* DELETE /api/v1/nodes/:id
Evict(id) ==
    /\ RemoveNode(id)
    /\ evicted' = [m \in Machine |->
                      evicted[m] \/ (Joined(m) /\ holds[m].id = id)]
    /\ Disrupt
    /\ UNCHANGED <<pc, holds, addr>>

\* POST /api/v1/cluster/reset
Reset ==
    /\ ResetCluster
    /\ evicted' = [m \in Machine |-> evicted[m] \/ Joined(m)]
    /\ Disrupt
    /\ UNCHANGED <<pc, holds, addr>>

(* The LAN's DHCP server gives the machines other leases: any assignment of *)
(* distinct addresses.                                                      *)
NewLeases ==
    /\ up
    /\ addr' \in [Machine -> Addr]
    /\ \A m, n \in Machine : addr'[m] = addr'[n] => m = n
    /\ addr' # addr
    /\ Disrupt
    /\ UNCHANGED <<vars, pc, holds, evicted>>

Background ==
    /\ ReapOfflineNodes \/ Tick
    /\ Calm
    /\ UNCHANGED agentVars

CNext ==
    \/ StartController
    \/ StopController
    \/ \E m \in Machine : RegisterAgent(m) \/ ReceiveAnswer(m) \/ StopAgent(m)
    \/ \E m \in Machine : RegistrationFails(m) \/ Boot(m) \/ Heartbeat(m)
    \/ \E id \in NodeID : Evict(id)
    \/ Reset
    \/ NewLeases
    \/ Background

CSpec == CInit /\ [][CNext]_cvars

(* systemd restarts the controller (Restart=always) and an agent that is    *)
(* starting starts; the network delivers; the agent's ticker and the        *)
(* reaper's keep firing.                                                    *)
Fairness ==
    /\ WF_cvars(StartController)
    /\ \A m \in Machine : /\ WF_cvars(RegisterAgent(m))
                          /\ WF_cvars(ReceiveAnswer(m))
                          /\ WF_cvars(Heartbeat(m))
    /\ WF_cvars(Background)

FairSpec == CSpec /\ Fairness

-----------------------------------------------------------------------------
(* The types of the agents' state.                                          *)
ClusterTypeOK ==
    /\ TypeOK
    /\ pc \in [Machine -> {"off", "answered", "running", "stopped"}]
    /\ \A m \in Machine : Joined(m) => holds[m].id \in NodeID
    /\ addr \in [Machine -> Addr]
    /\ evicted \in [Machine -> BOOLEAN]
    /\ joinToken \in Token
    /\ disrupted \in 0..Disruptions

(* Agent and controller agree: as long as the registry knows the identifier *)
(* an agent was given, it is the node of that machine at the mesh address   *)
(* the agent was given, whatever was removed, reset, saved or lost between. *)
AgentAgrees ==
    \A m \in Machine :
        Joined(m) /\ holds[m].id \in DOMAIN nodes =>
            /\ nodes[holds[m].id].octet = holds[m].octet
            /\ nodes[holds[m].id].mac = MacOf(m)

(* Two agents that were told different nodes are never the same node, and   *)
(* two that the operator has not removed never hold the same mesh address   *)
(* (registry.go:245: the octets are recalculated "to prevent IP collision   *)
(* after restart").                                                         *)
LiveAddressesDistinct ==
    \A m, n \in Machine :
        m # n /\ Joined(m) /\ Joined(n) /\ ~evicted[m] /\ ~evicted[n] =>
            /\ holds[m].id # holds[n].id
            /\ holds[m].octet # holds[n].octet

(* A registration the controller acknowledged is still there after any      *)
(* crash and restart, unless the operator removed it (README.md:103,        *)
(* "write-through JSON persistence").                                       *)
FleetSurvives ==
    \A m \in Machine :
        up /\ Joined(m) /\ ~evicted[m] => holds[m].id \in DOMAIN nodes

(* A command the controller forwards to a node it shows ONLINE (power,      *)
(* virtual machines, update: main.go:343-349, 452-473) is received by no    *)
(* other machine: whoever listens at the recorded address is that node.     *)
CommandReachesNode ==
    \A i \in DOMAIN nodes, m \in Machine :
        /\ nodes[i].status = "ONLINE"
        /\ nodes[i].mac # NoMAC
        /\ pc[m] = "running"
        /\ nodes[i].addr = addr[m]
        => nodes[i].mac = m

Shown(m) ==
    /\ up
    /\ pc[m] = "running"
    /\ holds[m].id \in DOMAIN nodes
    /\ nodes[holds[m].id].status = "ONLINE"

(* Every machine that has an agent the operator did not remove is shown     *)
(* ONLINE again and again, however controller and agents die and come back  *)
(* and whatever requests and answers are lost; but for agents with another  *)
(* token than the controller's and those that gave up until the next boot.  *)
EventuallyShown ==
    \A m \in Machine :
        []<>(\/ Shown(m) \/ evicted[m]
             \/ clusterToken # joinToken \/ pc[m] = "stopped")

(* The same without exception: agents that wait for their controller, and a *)
(* controller that knows its agents again (README.md:14, nodes "stay        *)
(* resilient against sleep, reboots, and power interruptions").             *)
EveryMachineShown ==
    \A m \in Machine : []<>(Shown(m) \/ evicted[m])
=============================================================================
