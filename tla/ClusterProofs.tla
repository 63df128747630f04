--------------------------- MODULE ClusterProofs ---------------------------
(***************************************************************************)
(* Proofs about Cluster.  The registry behaves among its agents as it does *)
(* alone, so what RegistryProofs shows of it carries over; what an agent   *)
(* was told stays true of the node it is; and with saves that do not fail, *)
(* nodes that were acknowledged are there until the operator removes them  *)
(* and no two agents have the same address.                                *)
(***************************************************************************)
EXTENDS Cluster, RegistryProofs

-----------------------------------------------------------------------------
(* Types, and the registry inside the cluster.                              *)

\* ClusterTypeOK, but for the registry's own part.
AgentTypes ==
    /\ pc \in [Machine -> {"off", "answered", "running", "stopped"}]
    /\ \A m \in Machine : Joined(m) => holds[m].id \in NodeID
    /\ DOMAIN holds = Machine
    /\ addr \in [Machine -> Addr]
    /\ evicted \in [Machine -> BOOLEAN]
    /\ joinToken \in Token
    /\ disrupted \in 0..Disruptions

\* What a step that registers nobody does to the agents: none joins, and who
\* stays joined keeps what it was told.
Stay ==
    \A m \in Machine :
        Joined(m)' => /\ Joined(m)
                      /\ holds'[m] = holds[m]
                      /\ evicted[m] => evicted'[m]

LEMMA AgentsAlone ==
    ASSUME AgentTypes,
           \/ \E m \in Machine : ReceiveAnswer(m) \/ StopAgent(m)
           \/ \E m \in Machine : RegistrationFails(m) \/ Boot(m)
           \/ NewLeases
    PROVE  UNCHANGED vars /\ Stay /\ AgentTypes'
<1>1. ASSUME NEW m \in Machine, ReceiveAnswer(m)
      PROVE  UNCHANGED vars /\ Stay /\ AgentTypes'
  BY <1>1 DEF ReceiveAnswer, Calm, Stay, Joined, AgentTypes
<1>2. ASSUME NEW m \in Machine, StopAgent(m)
      PROVE  UNCHANGED vars /\ Stay /\ AgentTypes'
  BY <1>2, ClusterAssumption DEF StopAgent, Disrupt, Stay, Joined, AgentTypes
<1>3. ASSUME NEW m \in Machine, RegistrationFails(m)
      PROVE  UNCHANGED vars /\ Stay /\ AgentTypes'
  BY <1>3 DEF RegistrationFails, Calm, Stay, Joined, AgentTypes
<1>4. ASSUME NEW m \in Machine, Boot(m)
      PROVE  UNCHANGED vars /\ Stay /\ AgentTypes'
  BY <1>4, ClusterAssumption DEF Boot, Disrupt, Stay, Joined, AgentTypes
<1>5. ASSUME NewLeases PROVE UNCHANGED vars /\ Stay /\ AgentTypes'
  BY <1>5, ClusterAssumption DEF NewLeases, Disrupt, Stay, Joined, AgentTypes
<1>6. QED
  BY <1>1, <1>2, <1>3, <1>4, <1>5

\* The operator's steps: who is joined stays so, and may be marked.
LEMMA OperatorStays ==
    ASSUME AgentTypes, (\E id \in NodeID : Evict(id)) \/ Reset
    PROVE  Stay /\ AgentTypes'
<1>1. ASSUME NEW id \in NodeID, Evict(id) PROVE Stay /\ AgentTypes'
  <2>1. \A m \in Machine : evicted[m] => evicted'[m]
    BY <1>1 DEF Evict
  <2>2. evicted' \in [Machine -> BOOLEAN]
    BY <1>1 DEF Evict, AgentTypes
  <2>3. QED
    BY <1>1, <2>1, <2>2, ClusterAssumption
       DEF Evict, Disrupt, Stay, Joined, AgentTypes
<1>2. ASSUME Reset PROVE Stay /\ AgentTypes'
  <2>1. \A m \in Machine : evicted[m] => evicted'[m]
    BY <1>2 DEF Reset
  <2>2. evicted' \in [Machine -> BOOLEAN]
    BY <1>2 DEF Reset, AgentTypes
  <2>3. QED
    BY <1>2, <2>1, <2>2, ClusterAssumption
       DEF Reset, Disrupt, Stay, Joined, AgentTypes
<1>3. QED
  BY <1>1, <1>2

\* Steps of the controller, heartbeats included, leave the agents alone.
LEMMA ControllerStays ==
    ASSUME AgentTypes,
           \/ StartController \/ StopController \/ Background
           \/ \E m \in Machine : Heartbeat(m)
    PROVE  Stay /\ AgentTypes'
BY ClusterAssumption
   DEF StartController, StopController, Background, Heartbeat, Calm, Disrupt,
       agentVars, Stay, Joined, AgentTypes

\* A registration: one machine joins and is told of a node.
LEMMA RegistrationJoins ==
    ASSUME AgentTypes, NEW m \in Machine, RegisterAgent(m)
    PROVE  /\ AgentTypes'
           /\ ~Joined(m) /\ Joined(m)'
           /\ \E i \in NodeID :
                 /\ \/ RegisterExisting(joinToken, MacOf(m), addr[m], i)
                    \/ RegisterNew(joinToken, MacOf(m), addr[m], i) /\ i \in NewIDs
                 /\ holds'[m] = [id |-> i, octet |-> nodes'[i].octet]
           /\ ~evicted'[m]
           /\ \A n \in Machine \ {m} : /\ Joined(n)' = Joined(n)
                                       /\ holds'[n] = holds[n]
                                       /\ evicted'[n] = evicted[n]
<1>1. PICK i \in NodeID :
          /\ \/ RegisterExisting(joinToken, MacOf(m), addr[m], i)
             \/ RegisterNew(joinToken, MacOf(m), addr[m], i) /\ i \in NewIDs
          /\ holds' = [holds EXCEPT ![m] = [id |-> i, octet |-> nodes'[i].octet]]
  BY DEF RegisterAgent, Answer
<1>2. holds'[m] = [id |-> i, octet |-> nodes'[i].octet] /\ holds'[m].id = i
  BY <1>1 DEF AgentTypes
<1>3. /\ pc[m] = "off" /\ pc' = [pc EXCEPT ![m] = "answered"]
      /\ evicted' = [evicted EXCEPT ![m] = FALSE]
      /\ UNCHANGED <<addr, joinToken, disrupted>>
  BY DEF RegisterAgent, Calm
<1>4. /\ ~Joined(m) /\ Joined(m)'
      /\ \A n \in Machine \ {m} : /\ Joined(n)' = Joined(n)
                                  /\ holds'[n] = holds[n]
                                  /\ evicted'[n] = evicted[n]
  BY <1>1, <1>3 DEF Joined, AgentTypes
<1>5. AgentTypes'
  BY <1>1, <1>2, <1>3 DEF Joined, AgentTypes
<1>6. QED
  BY <1>1, <1>2, <1>3, <1>4, <1>5 DEF AgentTypes

LEMMA RegistrationTyped ==
    ASSUME AgentTypes, NEW m \in Machine
    PROVE  joinToken \in Token /\ MacOf(m) \in MAC /\ addr[m] \in Addr
BY ClusterAssumption, RegistryAssumption DEF AgentTypes, MacOf

LEMMA AgentTypesInit == CInit => AgentTypes
BY ClusterAssumption DEF CInit, Init, AgentTypes, Joined

LEMMA AgentTypesStep == AgentTypes /\ [CNext]_cvars => AgentTypes'
<1>1. AgentTypes /\ UNCHANGED cvars => AgentTypes'
  BY DEF cvars, agentVars, AgentTypes, Joined
<1>2. QED
  BY <1>1, AgentsAlone, OperatorStays, ControllerStays, RegistrationJoins DEF CNext

LEMMA RegistryStep == AgentTypes /\ [CNext]_cvars => [Next]_vars
<1> SUFFICES ASSUME AgentTypes, [CNext]_cvars PROVE [Next]_vars
  OBVIOUS
<1>1. CASE StartController \/ StopController \/ Background \/ Reset
  BY <1>1 DEF StartController, StopController, Background, Reset, Next
<1>2. ASSUME NEW m \in Machine, RegisterAgent(m) PROVE Next
  <2>1. \E i \in NodeID : \/ RegisterExisting(joinToken, MacOf(m), addr[m], i)
                          \/ RegisterNew(joinToken, MacOf(m), addr[m], i)
    BY <1>2 DEF RegisterAgent
  <2>2. QED
    BY <2>1, RegistrationTyped DEF Next, Register
<1>3. ASSUME NEW m \in Machine, Heartbeat(m) PROVE Next
  BY <1>3 DEF Heartbeat, AgentTypes, Joined, Next
<1>4. ASSUME NEW id \in NodeID, Evict(id) PROVE Next
  BY <1>4 DEF Evict, Next
<1>5. CASE UNCHANGED cvars
  BY <1>5 DEF cvars
<1>6. QED
  BY <1>1, <1>2, <1>3, <1>4, <1>5, AgentsAlone DEF CNext

LEMMA AgentTypesHold == CSpec => []AgentTypes
BY AgentTypesInit, AgentTypesStep, PTL DEF CSpec

(* What the agents and the operator make the registry do, it could do       *)
(* alone: every theorem about the registry holds in the cluster.            *)
THEOREM RegistryInCluster == CSpec => Spec
<1>1. CInit => Init
  BY DEF CInit
<1>2. QED
  BY <1>1, RegistryStep, AgentTypesHold, PTL DEF CSpec, Spec

(* The types of the composition, for any machines, tokens and faults.       *)
THEOREM ClusterTypes == CSpec => []ClusterTypeOK
<1>1. TypeOK /\ AgentTypes => ClusterTypeOK
  BY DEF AgentTypes, ClusterTypeOK
<1>2. QED
  BY <1>1, AgentTypesHold, RegistryInCluster, TypeCorrect, PTL

(* With saves that succeed, the cluster's registry is the durable ledger    *)
(* and a restart finds what was in memory (registry.go:68, 92, 150, 160).   *)
THEOREM LedgerInCluster ==
    ASSUME SaveFaults = {}
    PROVE  CSpec => []WriteThrough /\ ImplementsLedger
BY RegistryInCluster, WriteThroughHolds, LedgerImplemented, PTL

-----------------------------------------------------------------------------
(* What an agent was told of its node stays true.                           *)

\* Two nodes are the same machine at the same mesh address.
Same(a, b) == a.mac = b.mac /\ a.octet = b.octet

\* Every node of a map is one the registry or its file already had.
Old(ns) ==
    \A i \in DOMAIN ns :
        \/ i \in DOMAIN nodes /\ Same(ns[i], nodes[i])
        \/ i \in DOMAIN file.nodes /\ Same(ns[i], file.nodes[i])

\* Memory and file agree on the nodes both have.
FileAgrees ==
    \A i \in DOMAIN nodes \cap DOMAIN file.nodes : Same(nodes[i], file.nodes[i])

\* A map that has an agent's node has it as the agent was told.
AsTold(ns) ==
    \A m \in Machine :
        Joined(m) /\ holds[m].id \in DOMAIN ns =>
            Same(ns[holds[m].id], [mac |-> MacOf(m), octet |-> holds[m].octet])

\* Agents that hold one identifier are one agent.
HeldOnce ==
    \A m, n \in Machine : Joined(m) /\ Joined(n) /\ holds[m].id = holds[n].id => m = n

Told == FileAgrees /\ AsTold(nodes) /\ AsTold(file.nodes) /\ HeldOnce

\* A save leaves a file of old nodes if it saves them.
LEMMA SaveOld ==
    ASSUME NEW ns, Old(ns), Save(ns)
    PROVE  Old(file'.nodes)
<1>1. file'.nodes \in {ns, file.nodes, NoNodes}
  BY DEF Save, Readable, Unreadable
<1>2. Old(file.nodes) /\ Old(NoNodes)
  BY NoNodesFacts DEF Old, Same
<1>3. QED
  BY <1>1, <1>2

\* Only a registration of a new machine makes a node that was not there.
LEMMA OldStep ==
    ASSUME TypeOK, [Next]_vars, ~up \/ DOMAIN nodes' \subseteq DOMAIN nodes
    PROVE  Old(nodes') /\ Old(file'.nodes)
<1>0. /\ \A i \in DOMAIN nodes : nodes[i] \in NodeRec
      /\ Old(nodes) /\ Old(file.nodes) /\ Old(NoNodes)
  BY NodeMapElim, NoNodesFacts DEF TypeOK, Old, Same
<1>1. ASSUME NEW tok \in Token, Start(tok) PROVE Old(nodes') /\ Old(file'.nodes)
  BY <1>0, <1>1 DEF Start
<1>2. CASE Crash \/ CrashInSave
  BY <1>0, <1>2 DEF Crash, CrashInSave, Stopped, Unreadable
<1>3. ASSUME NEW tok \in Token, NEW mac \in MAC, NEW ad \in Addr,
             NEW i \in NodeID, RegisterExisting(tok, mac, ad, i)
      PROVE  Old(nodes') /\ Old(file'.nodes)
  <2> DEFINE moved == [nodes[i] EXCEPT !.addr = ad]
  <2>1. i \in DOMAIN nodes /\ nodes' = [nodes EXCEPT ![i] = Seen(moved)]
    BY <1>3 DEF RegisterExisting, SameMAC
  <2>2. /\ moved \in NodeRec
        /\ moved.octet = nodes[i].octet /\ moved.mac = nodes[i].mac
    BY <1>0, <2>1 DEF NodeRec
  <2> HIDE DEF moved
  <2>3. Same(nodes'[i], nodes[i])
    BY <2>1, <2>2, SeenType DEF Same
  <2>4. Old(nodes')
    BY <2>1, <2>3 DEF Old, Same
  <2>5. QED
    BY <1>3, <2>4, SaveOld DEF RegisterExisting
<1>4. ASSUME NEW id \in NodeID, UpdateHeartbeat(id)
      PROVE  Old(nodes') /\ Old(file'.nodes)
  <2>1. /\ id \in DOMAIN nodes /\ file' = file
        /\ nodes' = [nodes EXCEPT ![id] = Seen(nodes[id])]
    BY <1>4 DEF UpdateHeartbeat
  <2>2. Same(nodes'[id], nodes[id])
    BY <1>0, <2>1, SeenType DEF Same
  <2>3. Old(nodes')
    BY <2>1, <2>2 DEF Old, Same
  <2>4. QED
    BY <1>0, <2>1, <2>3
<1>5. ASSUME NEW id \in NodeID, RemoveNode(id)
      PROVE  Old(nodes') /\ Old(file'.nodes)
  <2>1. Old(nodes')
    BY <1>5 DEF RemoveNode, Old, Same
  <2>2. QED
    BY <1>5, <2>1, SaveOld DEF RemoveNode
<1>6. CASE ResetCluster
  BY <1>0, <1>6, SaveOld DEF ResetCluster
<1>7. CASE ReapOfflineNodes
  <2>1. Old(nodes')
    BY <1>0, <1>7, ReapedType DEF ReapOfflineNodes, Old, Same
  <2>2. QED
    BY <1>0, <1>7, <2>1 DEF ReapOfflineNodes
<1>8. CASE Tick
  <2>1. nodes' = Aged(nodes) /\ file'.nodes = Aged(file.nodes)
    BY <1>8, AgedFile DEF Tick, TypeOK
  <2>2. QED
    BY <2>1, AgedFacts DEF TypeOK, IsFile, Old, Same
<1>9. CASE UNCHANGED vars
  BY <1>0, <1>9 DEF vars
<1>10. ASSUME NEW tok \in Token, NEW mac \in MAC, NEW ad \in Addr,
              NEW i \in NodeID, RegisterNew(tok, mac, ad, i)
       PROVE  FALSE
  BY <1>10 DEF RegisterNew
<1>11. QED
  BY <1>1, <1>2, <1>3, <1>4, <1>5, <1>6, <1>7, <1>8, <1>9, <1>10 DEF Next, Register

\* Old nodes are as the agents that stay were told.
LEMMA ToldKept ==
    ASSUME Told, Old(nodes'), Old(file'.nodes), Stay
    PROVE  Told'
<1>1. \A i \in DOMAIN nodes \cap DOMAIN file.nodes : Same(nodes[i], file.nodes[i])
  BY DEF Told, FileAgrees
<1>2. FileAgrees'
  BY <1>1 DEF FileAgrees, Old, Same
<1>3. ASSUME NEW ns, Old(ns), NEW m \in Machine,
             Joined(m)', holds'[m].id \in DOMAIN ns
      PROVE  Same(ns[holds'[m].id], [mac |-> MacOf(m), octet |-> holds'[m].octet])
  <2>1. Joined(m) /\ holds'[m] = holds[m]
    BY <1>3 DEF Stay
  <2> DEFINE i == holds[m].id
  <2>2. CASE i \in DOMAIN nodes /\ Same(ns[i], nodes[i])
    BY <2>1, <2>2 DEF Told, AsTold, Same
  <2>3. CASE i \in DOMAIN file.nodes /\ Same(ns[i], file.nodes[i])
    BY <2>1, <2>3 DEF Told, AsTold, Same
  <2>4. QED
    BY <1>3, <2>1, <2>2, <2>3 DEF Old
<1>4. (AsTold(nodes) /\ AsTold(file.nodes))'
  BY <1>3 DEF AsTold
<1>5. HeldOnce'
  BY DEF Stay, Told, HeldOnce
<1>6. QED
  BY <1>2, <1>4, <1>5 DEF Told

\* A machine registers and is known: it is told of the node that it is.
LEMMA ToldAgain ==
    ASSUME TypeOK, AgentTypes, Told, NEW m \in Machine, RegisterAgent(m),
           NEW i \in NodeID, RegisterExisting(joinToken, MacOf(m), addr[m], i),
           holds'[m] = [id |-> i, octet |-> nodes'[i].octet]
    PROVE  Told'
<1>1. Old(nodes') /\ Old(file'.nodes) /\ i \in DOMAIN nodes /\ i \in DOMAIN nodes'
  <2>1. RegisterExisting(joinToken, MacOf(m), addr[m], i) => i \in DOMAIN nodes
    BY DEF RegisterExisting, SameMAC
  <2>3. [Next]_vars
    BY RegistrationTyped DEF Next, Register
  <2>4. DOMAIN nodes' = DOMAIN nodes
    BY DEF RegisterExisting
  <2>5. QED
    BY <2>1, <2>3, <2>4, OldStep
<1>2. nodes[i].mac = MacOf(m) /\ MacOf(m) # NoMAC /\ MacOf(m) = m
  BY DEF RegisterExisting, SameMAC, MacOf
<1>3. \A k \in DOMAIN nodes \cap DOMAIN file.nodes : Same(nodes[k], file.nodes[k])
  BY DEF Told, FileAgrees
<1>4. FileAgrees'
  BY <1>1, <1>3 DEF FileAgrees, Old, Same
<1>5. /\ nodes'[i].mac = m
      /\ i \in DOMAIN file'.nodes => Same(file'.nodes[i], nodes'[i])
  BY <1>1, <1>2, <1>3 DEF Old, Same
<1>6. \A n \in Machine \ {m} : Joined(n)' = Joined(n) /\ holds'[n] = holds[n]
  BY RegistrationJoins
<1>7. ASSUME NEW ns, Old(ns), NEW n \in Machine \ {m},
             Joined(n)', holds'[n].id \in DOMAIN ns
      PROVE  Same(ns[holds'[n].id], [mac |-> MacOf(n), octet |-> holds'[n].octet])
  BY <1>6, <1>7 DEF Old, Told, AsTold, Same
<1>8. (AsTold(nodes) /\ AsTold(file.nodes))'
  BY <1>1, <1>2, <1>5, <1>7 DEF AsTold, Same
<1>9. \A n \in Machine \ {m} : Joined(n) => holds[n].id # i
  <2>1. ASSUME NEW n \in Machine \ {m}, Joined(n), holds[n].id = i PROVE FALSE
    <3>1. nodes[i].mac = MacOf(n)
      BY <1>1, <2>1 DEF Told, AsTold, Same
    <3>2. QED
      BY <1>2, <3>1 DEF MacOf
  <2>2. QED
    BY <2>1
<1>10. HeldOnce'
  BY <1>6, <1>9 DEF Told, HeldOnce
<1>11. QED
  BY <1>4, <1>8, <1>10 DEF Told

\* A machine registers and is new: its identifier is nobody's.
LEMMA ToldFirst ==
    ASSUME TypeOK, AgentTypes, Told, NEW m \in Machine, RegisterAgent(m),
           NEW i \in NewIDs, RegisterNew(joinToken, MacOf(m), addr[m], i),
           holds'[m] = [id |-> i, octet |-> nodes'[i].octet]
    PROVE  Told'
<1>1. /\ i \notin DOMAIN nodes /\ i \notin DOMAIN file.nodes
      /\ \A n \in Machine : holds[n].id # i
  BY DEF NewIDs
<1>2. /\ DOMAIN nodes' = DOMAIN nodes \cup {i}
      /\ nodes'[i].mac = MacOf(m)
      /\ \A k \in DOMAIN nodes : nodes'[k] = nodes[k]
  BY <1>1 DEF RegisterNew
<1>3. file'.nodes \in {nodes', file.nodes, NoNodes}
  BY DEF RegisterNew, Save, Readable, Unreadable
<1>4. \A n \in Machine \ {m} : Joined(n)' = Joined(n) /\ holds'[n] = holds[n]
  BY RegistrationJoins
<1>5. FileAgrees'
  BY <1>1, <1>2, <1>3, NoNodesFacts DEF FileAgrees, Told, Same
<1>6. AsTold(nodes)'
  BY <1>1, <1>2, <1>4 DEF AsTold, Told, Same
<1>7. AsTold(file.nodes)'
  <2>2. CASE file'.nodes = nodes'
    BY <1>6, <2>2 DEF AsTold
  <2>3. CASE file'.nodes = file.nodes
    BY <1>1, <1>4, <2>3 DEF AsTold, Told, Same
  <2>4. CASE file'.nodes = NoNodes
    BY <2>4, NoNodesFacts DEF AsTold
  <2>5. QED
    BY <1>3, <2>2, <2>3, <2>4
<1>8. HeldOnce'
  BY <1>1, <1>4 DEF HeldOnce, Told
<1>9. QED
  BY <1>5, <1>6, <1>7, <1>8 DEF Told

LEMMA ToldInit == CInit => Told
BY NoNodesFacts
   DEF CInit, Init, Told, FileAgrees, AsTold, HeldOnce, Joined, Unreadable

LEMMA ToldStep ==
    ASSUME TypeOK, AgentTypes, Told, [CNext]_cvars
    PROVE  Told'
<1>1. ASSUME Stay, ~up \/ DOMAIN nodes' \subseteq DOMAIN nodes PROVE Told'
  <2>1. [Next]_vars
    BY RegistryStep
  <2>2. QED
    BY <1>1, <2>1, OldStep, ToldKept
<1>2. CASE StartController \/ StopController
  BY <1>1, <1>2, NoNodesFacts, ControllerStays
     DEF StartController, Start, StopController, Crash, CrashInSave, Stopped
<1>3. CASE Background \/ \E m \in Machine : Heartbeat(m)
  BY <1>1, <1>3, AgedFacts, ControllerStays
     DEF Background, ReapOfflineNodes, Tick, Heartbeat, UpdateHeartbeat, TypeOK
<1>4. CASE (\E id \in NodeID : Evict(id)) \/ Reset
  BY <1>1, <1>4, NoNodesFacts, OperatorStays
     DEF Evict, RemoveNode, Reset, ResetCluster
<1>5. ASSUME UNCHANGED vars, Stay PROVE Told'
  BY <1>1, <1>5 DEF vars
<1>6. CASE UNCHANGED cvars
  BY <1>5, <1>6 DEF cvars, agentVars, Stay, Joined
<1>7. ASSUME NEW m \in Machine, RegisterAgent(m) PROVE Told'
  BY <1>7, RegistrationJoins, ToldAgain, ToldFirst
<1>8. QED
  BY <1>2, <1>3, <1>4, <1>5, <1>6, <1>7, AgentsAlone DEF CNext

LEMMA ToldHolds == CSpec => []Told
BY ToldInit, ToldStep, AgentTypesHold, RegistryInCluster, TypeCorrect, PTL DEF CSpec

(* Whatever was removed, reset, saved badly or lost since, a node that has  *)
(* the identifier an agent was given is that machine at the address the     *)
(* agent was given (cmd/agent/main.go:78-99, registry.go:52-92).            *)
THEOREM AgentsAgree == CSpec => []AgentAgrees
<1>1. Told => AgentAgrees
  BY DEF Told, AsTold, Same, AgentAgrees
<1>2. QED
  BY <1>1, ToldHolds, PTL

-----------------------------------------------------------------------------
(* With saves that succeed, the registry forgets nobody.                    *)

\* The nodes the controller has, or will have when it is back.
Kept == IF up THEN nodes ELSE file.nodes

Live(m) == Joined(m) /\ ~evicted[m]

FleetKept == \A m \in Machine : Live(m) => holds[m].id \in DOMAIN Kept

LEMMA FleetStays ==
    ASSUME FleetKept, Stay, DOMAIN Kept \subseteq DOMAIN Kept'
    PROVE  FleetKept'
BY DEF FleetKept, Stay, Live

LEMMA FleetStep ==
    ASSUME SaveFaults = {}, TypeOK, WriteThrough, AgentTypes, FleetKept, [CNext]_cvars
    PROVE  FleetKept'
<1>1. ASSUME NEW tok \in Token, Start(tok), Stay PROVE FleetKept'
  BY <1>1, FleetStays DEF Start, Kept
<1>2. ASSUME Crash, Stay PROVE FleetKept'
  <2>1. DOMAIN file.nodes = DOMAIN nodes
    BY <1>2, LedgerDomain DEF Crash, Stopped, WriteThrough
  <2>2. QED
    BY <1>2, <2>1, FleetStays DEF Crash, Stopped, Kept
<1>3. ASSUME ReapOfflineNodes \/ Tick, Stay PROVE FleetKept'
  <2>1. CASE ReapOfflineNodes
    BY <1>3, <2>1, FleetStays DEF ReapOfflineNodes, Kept
  <2>2. CASE Tick
    <3>1. nodes' = Aged(nodes) /\ file'.nodes = Aged(file.nodes) /\ up' = up
      BY <2>2, AgedFile DEF Tick, TypeOK
    <3>2. DOMAIN Kept' = DOMAIN Kept
      BY <3>1, AgedFacts DEF Kept, TypeOK, IsFile
    <3>3. QED
      BY <1>3, <3>2, FleetStays
  <2>3. QED
    BY <1>3, <2>1, <2>2
<1>4. ASSUME NEW m \in Machine, Heartbeat(m), Stay PROVE FleetKept'
  BY <1>4, FleetStays DEF Heartbeat, UpdateHeartbeat, Kept
<1>5. ASSUME NEW id \in NodeID, Evict(id), Stay PROVE FleetKept'
  <2>1. \A m \in Machine : Live(m)' => Live(m) /\ holds'[m] = holds[m] /\ holds[m].id # id
    BY <1>5 DEF Evict, Live, Stay
  <2>2. DOMAIN Kept' = DOMAIN Kept \ {id}
    BY <1>5 DEF Evict, RemoveNode, Kept
  <2>3. QED
    BY <2>1, <2>2 DEF FleetKept
<1>6. ASSUME Reset, Stay PROVE FleetKept'
  BY <1>6 DEF Reset, FleetKept, Live, Stay
<1>7. ASSUME NEW m \in Machine, RegisterAgent(m) PROVE FleetKept'
  <2>1. PICK i \in NodeID :
            /\ \/ RegisterExisting(joinToken, MacOf(m), addr[m], i)
               \/ RegisterNew(joinToken, MacOf(m), addr[m], i)
            /\ holds'[m] = [id |-> i, octet |-> nodes'[i].octet]
    BY <1>7, RegistrationJoins
  <2>2. /\ up /\ up' /\ holds'[m].id = i
        /\ i \in DOMAIN nodes' /\ DOMAIN nodes \subseteq DOMAIN nodes'
    BY <2>1 DEF RegisterExisting, RegisterNew, SameMAC
  <2>3. \A n \in Machine \ {m} : Live(n)' = Live(n) /\ holds'[n] = holds[n]
    BY <1>7, RegistrationJoins DEF Live
  <2>4. QED
    BY <2>1, <2>2, <2>3 DEF FleetKept, Kept
<1>8. ASSUME UNCHANGED vars, Stay PROVE FleetKept'
  BY <1>8, FleetStays DEF vars, Kept
<1>9. CASE UNCHANGED cvars
  BY <1>8, <1>9 DEF cvars, agentVars, Stay, Joined
<1>10. CrashInSave => FALSE
  BY DEF CrashInSave
<1>11. QED
  BY <1>1, <1>2, <1>3, <1>4, <1>5, <1>6, <1>7, <1>8, <1>9, <1>10,
     AgentsAlone, OperatorStays, ControllerStays
     DEF CNext, StartController, StopController, Background

LEMMA FleetHolds ==
    ASSUME SaveFaults = {}
    PROVE  CSpec => []FleetKept
<1>1. CInit => FleetKept
  BY DEF CInit, FleetKept, Live, Joined
<1>2. QED
  BY <1>1, FleetStep, AgentTypesHold, LedgerInCluster, RegistryInCluster,
     TypeCorrect, PTL DEF CSpec

(* A registration the controller acknowledged is there after any number of  *)
(* crashes and restarts, unless the operator removed it.                    *)
THEOREM FleetSurvivesCrashes ==
    ASSUME SaveFaults = {}
    PROVE  CSpec => []FleetSurvives
<1>1. FleetKept => FleetSurvives
  BY DEF FleetKept, FleetSurvives, Live, Kept
<1>2. QED
  BY <1>1, FleetHolds, PTL

(* Agents the operator has not removed never hold one address, although the *)
(* counter the addresses come from is recalculated at every restart         *)
(* (registry.go:245-253).                                                   *)
THEOREM AddressesDistinct ==
    ASSUME SaveFaults = {}
    PROVE  CSpec => []LiveAddressesDistinct
<1>1. Told /\ FleetKept /\ Allocation => LiveAddressesDistinct
  <2> SUFFICES ASSUME Told, FleetKept, Allocation,
                      NEW m \in Machine, NEW n \in Machine, m # n, Live(m), Live(n)
               PROVE  holds[m].id # holds[n].id /\ holds[m].octet # holds[n].octet
    BY DEF LiveAddressesDistinct, Live
  <2>1. holds[m].id # holds[n].id
    BY DEF Told, HeldOnce, Live
  <2>2. DistinctOctets(Kept) /\ AsTold(Kept)
    BY DEF Allocation, Told, Kept
  <2>3. /\ Kept[holds[m].id].octet = holds[m].octet
        /\ Kept[holds[n].id].octet = holds[n].octet
    BY <2>2 DEF AsTold, Same, FleetKept, Live
  <2>4. QED
    BY <2>1, <2>2, <2>3 DEF DistinctOctets, FleetKept
<1>2. QED
  BY <1>1, ToldHolds, FleetHolds, RegistryInCluster, AllocationHolds, PTL
=============================================================================
