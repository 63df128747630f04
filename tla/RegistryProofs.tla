--------------------------- MODULE RegistryProofs ---------------------------
(***************************************************************************)
(* Proofs about Registry: its types, the uniqueness of mesh addresses and  *)
(* of hardware addresses across failed saves, crashes and restarts, and    *)
(* the bound on the staleness of a node shown ONLINE.  With saves that do  *)
(* not fail, each of its steps is a step of the membership ledger or       *)
(* leaves it unchanged.                                                    *)
(***************************************************************************)
EXTENDS RegistryLedger, TLAPS

-----------------------------------------------------------------------------
(* Facts about node maps.                                                   *)

\* What it means to be a node map, node by node.
LEMMA NodeMapElim ==
    ASSUME NEW ns, IsNodeMap(ns)
    PROVE  /\ DOMAIN ns \subseteq NodeID
           /\ ns \in [DOMAIN ns -> NodeRec]
           /\ \A i \in DOMAIN ns : ns[i] \in NodeRec
BY DEF IsNodeMap

LEMMA NodeMapIntro ==
    ASSUME NEW S \in SUBSET NodeID, NEW ns \in [S -> NodeRec]
    PROVE  IsNodeMap(ns)
BY DEF IsNodeMap

LEMMA NoNodesFacts ==
    /\ IsNodeMap(NoNodes)
    /\ DOMAIN NoNodes = {}
<1>1. NoNodes \in [{} -> NodeRec]
  BY DEF NoNodes
<1>2. QED
  BY <1>1, NodeMapIntro

LEMMA FileIntro ==
    ASSUME NEW b \in BOOLEAN, NEW ns, IsNodeMap(ns)
    PROVE  IsFile([ok |-> b, nodes |-> ns])
BY DEF IsFile

\* The record fields of a node, spelled out for the provers.
LEMMA NodeRecFields ==
    ASSUME NEW r \in NodeRec
    PROVE  /\ r.mac \in MAC /\ r.addr \in Addr /\ r.octet \in Nat
           /\ r.status \in {"ONLINE", "OFFLINE"} /\ r.age \in 0..AgeCap
BY DEF NodeRec

LEMMA AgeCapType == AgeCap \in Nat /\ AgeCap > Timeout + ReapPeriod
BY RegistryAssumption DEF AgeCap

\* Growing older keeps a node's record a record and its identity unchanged.
LEMMA AgedFacts ==
    ASSUME NEW ns, IsNodeMap(ns)
    PROVE  /\ IsNodeMap(Aged(ns))
           /\ DOMAIN Aged(ns) = DOMAIN ns
           /\ \A i \in DOMAIN ns :
                 /\ Aged(ns)[i].mac = ns[i].mac
                 /\ Aged(ns)[i].octet = ns[i].octet
                 /\ Aged(ns)[i].status = ns[i].status
                 /\ Aged(ns)[i].age \in 0..AgeCap
                 /\ Aged(ns)[i].age <= ns[i].age + 1
<1> DEFINE older(i) == IF ns[i].age < AgeCap THEN ns[i].age + 1 ELSE ns[i].age
<1>1. DOMAIN Aged(ns) = DOMAIN ns
  BY DEF Aged
<1>2. ASSUME NEW i \in DOMAIN ns
      PROVE  /\ Aged(ns)[i] = [ns[i] EXCEPT !.age = older(i)]
             /\ older(i) \in 0..AgeCap
             /\ older(i) <= ns[i].age + 1
  <2>1. Aged(ns)[i] = [ns[i] EXCEPT !.age = older(i)]
    BY DEF Aged
  <2>2. ns[i].age \in 0..AgeCap
    BY NodeMapElim, NodeRecFields
  <2>3. QED
    BY <2>1, <2>2, AgeCapType
<1>3. ASSUME NEW i \in DOMAIN ns
      PROVE  /\ Aged(ns)[i] \in NodeRec
             /\ Aged(ns)[i].mac = ns[i].mac
             /\ Aged(ns)[i].octet = ns[i].octet
             /\ Aged(ns)[i].status = ns[i].status
             /\ Aged(ns)[i].age = older(i)
  <2>1. ns[i] \in NodeRec
    BY NodeMapElim
  <2> HIDE DEF older
  <2>2. QED
    BY <1>2, <2>1 DEF NodeRec
<1>4. Aged(ns) \in [DOMAIN ns -> NodeRec]
  BY <1>1, <1>3 DEF Aged
<1>5. QED
  BY <1>1, <1>2, <1>3, <1>4, NodeMapElim, NodeMapIntro

-----------------------------------------------------------------------------
(* Types.                                                                   *)

\* A node map changed at one place, extended by one node, cut by one node.
LEMMA UpdatedMap ==
    ASSUME NEW ns, IsNodeMap(ns), NEW i \in DOMAIN ns, NEW r \in NodeRec
    PROVE  IsNodeMap([ns EXCEPT ![i] = r])
<1>1. [ns EXCEPT ![i] = r] \in [DOMAIN ns -> NodeRec]
  BY NodeMapElim
<1>2. QED
  BY <1>1, NodeMapElim, NodeMapIntro

LEMMA ExtendedMap ==
    ASSUME NEW ns, IsNodeMap(ns), NEW id \in NodeID, NEW r \in NodeRec
    PROVE  IsNodeMap([i \in DOMAIN ns \cup {id} |->
                        IF i = id THEN r ELSE ns[i]])
<1>1. [i \in DOMAIN ns \cup {id} |-> IF i = id THEN r ELSE ns[i]]
          \in [DOMAIN ns \cup {id} -> NodeRec]
  BY NodeMapElim
<1>2. QED
  BY <1>1, NodeMapElim, NodeMapIntro

LEMMA CutMap ==
    ASSUME NEW ns, IsNodeMap(ns), NEW id
    PROVE  IsNodeMap([i \in DOMAIN ns \ {id} |-> ns[i]])
<1>1. [i \in DOMAIN ns \ {id} |-> ns[i]] \in [DOMAIN ns \ {id} -> NodeRec]
  BY NodeMapElim
<1>2. QED
  BY <1>1, NodeMapElim, NodeMapIntro

LEMMA SeenType ==
    ASSUME NEW r \in NodeRec
    PROVE  /\ Seen(r) \in NodeRec
           /\ Seen(r).mac = r.mac
           /\ Seen(r).octet = r.octet
           /\ Seen(r).age = 0
<1>1. 0 \in 0..AgeCap
  BY AgeCapType
<1>2. Seen(r) \in NodeRec
  BY <1>1 DEF Seen, NodeRec
<1>3. Seen(r).mac = r.mac
  BY DEF Seen, NodeRec
<1>4. Seen(r).octet = r.octet
  BY DEF Seen, NodeRec
<1>5. Seen(r).age = 0
  BY DEF Seen, NodeRec
<1>6. QED
  BY <1>2, <1>3, <1>4, <1>5

LEMMA ReapedType ==
    ASSUME NEW r \in NodeRec
    PROVE  /\ Reaped(r) \in NodeRec
           /\ Reaped(r).mac = r.mac
           /\ Reaped(r).octet = r.octet
           /\ Reaped(r).age = r.age
           /\ Reaped(r).status = "ONLINE" => r.age <= Timeout
BY AgeCapType, RegistryAssumption DEF Reaped, NodeRec

\* The file after time has passed.
LEMMA AgedFile ==
    ASSUME NEW f, IsFile(f)
    PROVE  /\ [f EXCEPT !.nodes = Aged(@)].nodes = Aged(f.nodes)
           /\ IsFile([f EXCEPT !.nodes = Aged(@)])
<1> DEFINE g == [ok |-> f.ok, nodes |-> f.nodes]
<1>1. f = g /\ f.ok \in BOOLEAN /\ IsNodeMap(f.nodes)
  BY DEF IsFile
<1>2. [f EXCEPT !.nodes = Aged(f.nodes)] = [ok |-> f.ok, nodes |-> Aged(f.nodes)]
  <2>1. [g EXCEPT !.nodes = Aged(f.nodes)] = [ok |-> f.ok, nodes |-> Aged(f.nodes)]
    OBVIOUS
  <2> HIDE DEF g
  <2>2. QED
    BY <1>1, <2>1
<1>3. IsNodeMap(Aged(f.nodes))
  BY <1>1, AgedFacts
<1>4. QED
  BY <1>1, <1>2, <1>3, FileIntro

\* Whatever happens to a save, the file holds a node map.
LEMMA SaveType ==
    ASSUME TypeOK, NEW ns, IsNodeMap(ns), Save(ns)
    PROVE  IsFile(file')
<1>1. CASE file' = Readable(ns)
  BY <1>1, FileIntro DEF Readable
<1>2. CASE file' = file
  BY <1>2 DEF TypeOK
<1>3. CASE file' = Unreadable
  BY <1>3, NoNodesFacts, FileIntro DEF Unreadable
<1>4. QED
  BY <1>1, <1>2, <1>3 DEF Save

(* The state always has the declared types, for every timeout, period and   *)
(* combination of save faults.                                              *)
THEOREM TypeCorrect == Spec => []TypeOK
<1>0. FirstOctet \in FirstOctet..(MaxOctet + 1) /\ 0 \in 0..ReapPeriod
  <2>1. MaxOctet \in Nat \ {0} /\ ReapPeriod \in Nat \ {0}
    BY RegistryAssumption
  <2>2. 2 \in 2..(MaxOctet + 1)
    BY <2>1
  <2>3. 0 \in 0..ReapPeriod
    BY <2>1
  <2>4. QED
    BY <2>2, <2>3 DEF FirstOctet
<1>1. Init => TypeOK
  <2>1. Init => IsFile(file)
    BY NoNodesFacts, FileIntro DEF Init, Unreadable
  <2>2. QED
    BY <1>0, <2>1, NoNodesFacts DEF Init, TypeOK
<1>2. TypeOK /\ [Next]_vars => TypeOK'
  <2> SUFFICES ASSUME TypeOK, [Next]_vars PROVE TypeOK'
    OBVIOUS
  <2> USE RegistryAssumption
  <2>1. ASSUME NEW tok \in Token, Start(tok) PROVE TypeOK'
    <3>1. nextMeshOctet' \in FirstOctet..(MaxOctet + 1)
      BY <2>1 DEF Start
    <3>2. IsNodeMap(nodes') /\ IsFile(file')
      BY <2>1 DEF Start, TypeOK, IsFile
    <3>3. QED
      BY <1>0, <2>1, <3>1, <3>2 DEF Start, TypeOK
  <2>2. CASE Crash
    BY <1>0, <2>2, NoNodesFacts DEF Crash, Stopped, TypeOK
  <2>3. CASE CrashInSave
    <3>1. IsFile(file')
      BY <2>3, NoNodesFacts, FileIntro DEF CrashInSave, Unreadable
    <3>2. QED
      BY <1>0, <2>3, <3>1, NoNodesFacts DEF CrashInSave, Stopped, TypeOK
  <2>4. ASSUME NEW tok \in Token, NEW mac \in MAC, NEW addr \in Addr,
               NEW i \in NodeID, RegisterExisting(tok, mac, addr, i)
        PROVE  TypeOK'
    <3> DEFINE r == Seen([nodes[i] EXCEPT !.addr = addr])
    <3>1. i \in DOMAIN nodes /\ nodes' = [nodes EXCEPT ![i] = r]
      BY <2>4 DEF RegisterExisting, SameMAC
    <3>2. nodes[i] \in NodeRec
      BY <3>1, NodeMapElim DEF TypeOK
    <3>3. [nodes[i] EXCEPT !.addr = addr] \in NodeRec
      BY <3>2 DEF NodeRec
    <3>4. IsNodeMap(nodes')
      BY <3>1, <3>3, SeenType, UpdatedMap DEF TypeOK
    <3>5. IsFile(file')
      BY <2>4, <3>4, SaveType DEF RegisterExisting
    <3>6. QED
      BY <2>4, <3>4, <3>5 DEF RegisterExisting, TypeOK, reaper
  <2>5. ASSUME NEW tok \in Token, NEW mac \in MAC, NEW addr \in Addr,
               NEW id \in NodeID, RegisterNew(tok, mac, addr, id)
        PROVE  TypeOK'
    <3> DEFINE r == [mac |-> mac, addr |-> addr, octet |-> nextMeshOctet,
                     status |-> "ONLINE", age |-> 0]
    <3>1. r \in NodeRec
      BY AgeCapType DEF NodeRec, TypeOK, FirstOctet
    <3>2. IsNodeMap(nodes')
      BY <2>5, <3>1, ExtendedMap DEF RegisterNew, TypeOK
    <3>3. IsFile(file')
      BY <2>5, <3>2, SaveType DEF RegisterNew
    <3>4. nextMeshOctet' \in FirstOctet..(MaxOctet + 1)
      BY <2>5 DEF RegisterNew, TypeOK, FirstOctet
    <3>5. QED
      BY <2>5, <3>2, <3>3, <3>4 DEF RegisterNew, TypeOK, reaper
  <2>6. ASSUME NEW id \in NodeID, UpdateHeartbeat(id) PROVE TypeOK'
    <3>1. IsNodeMap(nodes')
      BY <2>6, NodeMapElim, SeenType, UpdatedMap DEF UpdateHeartbeat, TypeOK
    <3>2. QED
      BY <2>6, <3>1 DEF UpdateHeartbeat, TypeOK, reaper
  <2>7. ASSUME NEW id \in NodeID, RemoveNode(id) PROVE TypeOK'
    <3>1. IsNodeMap(nodes')
      BY <2>7, CutMap DEF RemoveNode, TypeOK
    <3>2. IsFile(file')
      BY <2>7, <3>1, SaveType DEF RemoveNode
    <3>3. QED
      BY <2>7, <3>1, <3>2 DEF RemoveNode, TypeOK, reaper
  <2>8. CASE ResetCluster
    <3>1. IsFile(file')
      BY <2>8, NoNodesFacts, SaveType DEF ResetCluster
    <3>2. QED
      BY <2>8, <3>1, NoNodesFacts DEF ResetCluster, TypeOK, reaper, FirstOctet
  <2>9. CASE ReapOfflineNodes
    <3>1. nodes' \in [DOMAIN nodes -> NodeRec]
      BY <2>9, NodeMapElim, ReapedType DEF ReapOfflineNodes, TypeOK
    <3>2. IsNodeMap(nodes')
      BY <3>1, NodeMapElim, NodeMapIntro DEF TypeOK
    <3>3. QED
      BY <2>9, <3>2 DEF ReapOfflineNodes, TypeOK
  <2>10. CASE Tick
    <3>1. IsNodeMap(nodes')
      BY <2>10, AgedFacts DEF Tick, TypeOK
    <3>2. IsFile(file')
      BY <2>10, AgedFile DEF Tick, TypeOK
    <3>3. sinceReap' \in 0..ReapPeriod
      BY <2>10 DEF Tick, TypeOK
    <3>4. QED
      BY <2>10, <3>1, <3>2, <3>3 DEF Tick, TypeOK
  <2>11. CASE UNCHANGED vars
    BY <2>11 DEF vars, TypeOK
  <2>12. QED
    BY <2>1, <2>2, <2>3, <2>4, <2>5, <2>6, <2>7, <2>8, <2>9, <2>10, <2>11
       DEF Next, Register
<1>3. QED
  BY <1>1, <1>2, PTL DEF Spec

-----------------------------------------------------------------------------
(* Uniqueness.                                                              *)

\* Only the identity of nodes matters to the two uniqueness predicates.
LEMMA SameIdentities ==
    ASSUME NEW ns, NEW ms, DOMAIN ms \subseteq DOMAIN ns,
           \A i \in DOMAIN ms : /\ ms[i].octet = ns[i].octet
                                /\ ms[i].mac = ns[i].mac,
           DistinctOctets(ns), DistinctMACs(ns)
    PROVE  DistinctOctets(ms) /\ DistinctMACs(ms)
BY DEF DistinctOctets, DistinctMACs

LEMMA NoNodesDistinct == DistinctOctets(NoNodes) /\ DistinctMACs(NoNodes)
BY NoNodesFacts DEF DistinctOctets, DistinctMACs

\* Whatever happens to a save, a consistent map leaves a consistent file.
LEMMA SaveDistinct ==
    ASSUME Allocation, NEW ns, DistinctOctets(ns), DistinctMACs(ns), Save(ns)
    PROVE  DistinctOctets(file'.nodes) /\ DistinctMACs(file'.nodes)
<1>1. file'.nodes \in {ns, file.nodes, NoNodes}
  BY DEF Save, Readable, Unreadable
<1>2. QED
  BY <1>1, NoNodesDistinct DEF Allocation

\* A step that keeps the identities of the nodes, or drops some, and saves.
LEMMA KeepOrDrop ==
    ASSUME Allocation, DOMAIN nodes' \subseteq DOMAIN nodes,
           \A i \in DOMAIN nodes' : /\ nodes'[i].octet = nodes[i].octet
                                    /\ nodes'[i].mac = nodes[i].mac,
           nextMeshOctet' = nextMeshOctet,
           Save(nodes') \/ file' = file
    PROVE  Allocation'
<1>1. DistinctOctets(nodes') /\ DistinctMACs(nodes')
  BY SameIdentities DEF Allocation
<1>2. DistinctOctets(file'.nodes) /\ DistinctMACs(file'.nodes)
  BY <1>1, SaveDistinct DEF Allocation
<1>3. \A i \in DOMAIN nodes' : nodes'[i].octet < nextMeshOctet'
  BY DEF Allocation
<1>4. QED
  BY <1>1, <1>2, <1>3 DEF Allocation

LEMMA AllocationStep ==
    ASSUME TypeOK, Allocation, [Next]_vars
    PROVE  Allocation'
<1>1. ASSUME NEW tok \in Token, Start(tok) PROVE Allocation'
  BY <1>1 DEF Start, Allocation, IsNextOctet
<1>2. CASE Crash
  BY <1>2, NoNodesFacts, NoNodesDistinct DEF Crash, Stopped, Allocation
<1>3. CASE CrashInSave
  BY <1>3, NoNodesFacts, NoNodesDistinct
     DEF CrashInSave, Stopped, Allocation, Unreadable
<1>4. ASSUME NEW tok \in Token, NEW mac \in MAC, NEW addr \in Addr,
             NEW i \in NodeID, RegisterExisting(tok, mac, addr, i)
      PROVE  Allocation'
  <2> DEFINE moved == [nodes[i] EXCEPT !.addr = addr]
  <2>1. i \in DOMAIN nodes /\ nodes' = [nodes EXCEPT ![i] = Seen(moved)]
    BY <1>4 DEF RegisterExisting, SameMAC
  <2>2. /\ moved \in NodeRec
        /\ moved.octet = nodes[i].octet
        /\ moved.mac = nodes[i].mac
    <3>1. nodes[i] \in NodeRec
      BY <2>1, NodeMapElim DEF TypeOK
    <3>2. QED
      BY <3>1 DEF NodeRec
  <2> HIDE DEF moved
  <2>3. Seen(moved).octet = nodes[i].octet /\ Seen(moved).mac = nodes[i].mac
    BY <2>2, SeenType
  <2>4. QED
    BY <1>4, <2>1, <2>3, KeepOrDrop DEF RegisterExisting
<1>5. ASSUME NEW tok \in Token, NEW mac \in MAC, NEW addr \in Addr,
             NEW id \in NodeID, RegisterNew(tok, mac, addr, id)
      PROVE  Allocation'
  <2>1. /\ DOMAIN nodes' = DOMAIN nodes \cup {id}
        /\ id \notin DOMAIN nodes
        /\ nodes'[id].octet = nextMeshOctet
        /\ nodes'[id].mac = mac
        /\ \A i \in DOMAIN nodes : nodes'[i] = nodes[i]
        /\ nextMeshOctet' = nextMeshOctet + 1
    BY <1>5 DEF RegisterNew
  <2>2. \A i \in DOMAIN nodes : nodes[i].octet < nextMeshOctet
    BY DEF Allocation
  <2>3. nextMeshOctet \in Nat /\ \A i \in DOMAIN nodes : nodes[i].octet \in Nat
    BY NodeMapElim, NodeRecFields DEF TypeOK, FirstOctet
  <2>4. DistinctOctets(nodes')
    BY <2>1, <2>2, <2>3 DEF Allocation, DistinctOctets
  <2>5. mac = NoMAC \/ \A i \in DOMAIN nodes : nodes[i].mac # mac
    BY <1>5 DEF RegisterNew, SameMAC
  <2>6. DistinctMACs(nodes')
    BY <2>1, <2>5 DEF Allocation, DistinctMACs
  <2>7. \A i \in DOMAIN nodes' : nodes'[i].octet < nextMeshOctet'
    BY <2>1, <2>2, <2>3
  <2>8. DistinctOctets(file'.nodes) /\ DistinctMACs(file'.nodes)
    BY <1>5, <2>4, <2>6, SaveDistinct DEF RegisterNew
  <2>9. QED
    BY <2>4, <2>6, <2>7, <2>8 DEF Allocation
<1>6. ASSUME NEW id \in NodeID, UpdateHeartbeat(id) PROVE Allocation'
  <2>1. \A i \in DOMAIN nodes : nodes[i] \in NodeRec
    BY NodeMapElim DEF TypeOK
  <2>2. QED
    BY <1>6, <2>1, SeenType, KeepOrDrop DEF UpdateHeartbeat
<1>7. ASSUME NEW id \in NodeID, RemoveNode(id) PROVE Allocation'
  BY <1>7, KeepOrDrop DEF RemoveNode
<1>8. CASE ResetCluster
  <2>1. DistinctOctets(file'.nodes) /\ DistinctMACs(file'.nodes)
    BY <1>8, NoNodesDistinct, SaveDistinct DEF ResetCluster
  <2>2. QED
    BY <1>8, <2>1, NoNodesFacts, NoNodesDistinct DEF ResetCluster, Allocation
<1>9. CASE ReapOfflineNodes
  <2>1. \A i \in DOMAIN nodes : nodes[i] \in NodeRec
    BY NodeMapElim DEF TypeOK
  <2>2. QED
    BY <1>9, <2>1, ReapedType, KeepOrDrop DEF ReapOfflineNodes
<1>10. CASE Tick
  <2>1. /\ nodes' = Aged(nodes)
        /\ file'.nodes = Aged(file.nodes)
        /\ nextMeshOctet' = nextMeshOctet
    BY <1>10, AgedFile DEF Tick, TypeOK
  <2>2. DistinctOctets(nodes') /\ DistinctMACs(nodes')
    BY <2>1, AgedFacts, SameIdentities DEF TypeOK, Allocation, IsFile
  <2>3. DistinctOctets(file'.nodes) /\ DistinctMACs(file'.nodes)
    BY <2>1, AgedFacts, SameIdentities DEF TypeOK, Allocation, IsFile
  <2>4. \A i \in DOMAIN nodes' : nodes'[i].octet < nextMeshOctet'
    BY <2>1, AgedFacts DEF TypeOK, Allocation
  <2>5. QED
    BY <2>2, <2>3, <2>4 DEF Allocation
<1>11. CASE UNCHANGED vars
  BY <1>11 DEF vars, Allocation, DistinctOctets, DistinctMACs
<1>12. QED
  BY <1>1, <1>2, <1>3, <1>4, <1>5, <1>6, <1>7, <1>8, <1>9, <1>10, <1>11
     DEF Next, Register

(* The allocation invariant holds of every run of the controller, however   *)
(* saves fail and whenever it crashes.                                      *)
THEOREM AllocationHolds == Spec => []Allocation
<1>1. Init => Allocation
  BY NoNodesFacts, NoNodesDistinct DEF Init, Allocation, Unreadable
<1>2. TypeOK /\ Allocation /\ [Next]_vars => Allocation'
  BY AllocationStep
<1>3. QED
  BY <1>1, <1>2, TypeCorrect, PTL DEF Spec

(* No two registered nodes ever share a mesh address.                       *)
THEOREM MeshIPsUnique == Spec => []UniqueMeshIPs
<1>1. Allocation => UniqueMeshIPs
  BY DEF Allocation, UniqueMeshIPs
<1>2. QED
  BY <1>1, AllocationHolds, PTL

(* No two registered nodes ever report the same non-empty hardware address. *)
THEOREM MACsUnique == Spec => []UniqueMACs
<1>1. Allocation => UniqueMACs
  BY DEF Allocation, UniqueMACs
<1>2. QED
  BY <1>1, AllocationHolds, PTL

-----------------------------------------------------------------------------
(* Staleness.                                                               *)

\* A map in which every node shown ONLINE was heard of within the bound.
Recent(ns, bound) ==
    \A i \in DOMAIN ns : ns[i].status = "ONLINE" => ns[i].age <= bound

\* Only a running controller's reaper has fired.
ReaperRuns == reaped => up

LEMMA ReaperRunsStep ==
    ASSUME ReaperRuns, [Next]_vars
    PROVE  ReaperRuns'
BY DEF ReaperRuns, Next, vars, reaper, Start, Crash, CrashInSave, Stopped,
       Register, RegisterExisting, RegisterNew, UpdateHeartbeat, RemoveNode,
       ResetCluster, ReapOfflineNodes, Tick

LEMMA StalenessStep ==
    ASSUME TypeOK, ReaperRuns, StalenessBound, [Next]_vars
    PROVE  StalenessBound'
<1> SUFFICES ASSUME reaped' PROVE Recent(nodes', Timeout + sinceReap')
  BY DEF StalenessBound, Recent
<1>0. /\ Timeout \in Nat /\ sinceReap \in Nat
      /\ \A i \in DOMAIN nodes : nodes[i] \in NodeRec
      /\ \A i \in DOMAIN nodes : nodes[i].age \in 0..AgeCap /\ AgeCap \in Nat
  BY RegistryAssumption, NodeMapElim, NodeRecFields, AgeCapType DEF TypeOK
<1> DEFINE KeptOrHeard ==
              \A i \in DOMAIN nodes' :
                  \/ nodes'[i].age = 0
                  \/ i \in DOMAIN nodes /\ nodes'[i] = nodes[i]
<1>1. ASSUME UNCHANGED reaper, KeptOrHeard
      PROVE  Recent(nodes', Timeout + sinceReap')
  <2>1. reaped /\ sinceReap' = sinceReap
    BY <1>1 DEF reaper
  <2>2. Recent(nodes, Timeout + sinceReap)
    BY <2>1 DEF StalenessBound, Recent
  <2>3. QED
    BY <1>0, <1>1, <2>1, <2>2 DEF Recent
<1>2. ASSUME NEW tok \in Token, Start(tok) PROVE FALSE
  BY <1>2 DEF Start
<1>3. CASE Crash \/ CrashInSave
  BY <1>3 DEF Crash, CrashInSave, Stopped
<1>4. ASSUME NEW tok \in Token, NEW mac \in MAC, NEW addr \in Addr,
             NEW i \in NodeID, RegisterExisting(tok, mac, addr, i)
      PROVE  Recent(nodes', Timeout + sinceReap')
  <2>1. /\ i \in DOMAIN nodes
        /\ nodes' = [nodes EXCEPT ![i] = Seen([nodes[i] EXCEPT !.addr = addr])]
    BY <1>4 DEF RegisterExisting, SameMAC
  <2>2. [nodes[i] EXCEPT !.addr = addr] \in NodeRec
    BY <1>0, <2>1 DEF NodeRec
  <2>3. nodes'[i].age = 0
    BY <2>1, <2>2, SeenType
  <2>4. \A j \in DOMAIN nodes' : /\ j \in DOMAIN nodes
                                 /\ j # i => nodes'[j] = nodes[j]
    BY <2>1
  <2>5. UNCHANGED reaper
    BY <1>4 DEF RegisterExisting
  <2>6. KeptOrHeard
    BY <2>3, <2>4
  <2> HIDE DEF KeptOrHeard
  <2>7. QED
    BY <1>1, <2>5, <2>6
<1>5. ASSUME NEW tok \in Token, NEW mac \in MAC, NEW addr \in Addr,
             NEW id \in NodeID, RegisterNew(tok, mac, addr, id)
      PROVE  Recent(nodes', Timeout + sinceReap')
  <2>1. /\ DOMAIN nodes' = DOMAIN nodes \cup {id}
        /\ nodes'[id].age = 0
        /\ \A i \in DOMAIN nodes : i # id => nodes'[i] = nodes[i]
    BY <1>5 DEF RegisterNew
  <2>2. UNCHANGED reaper
    BY <1>5 DEF RegisterNew
  <2>3. KeptOrHeard
    BY <2>1
  <2> HIDE DEF KeptOrHeard
  <2>4. QED
    BY <1>1, <2>2, <2>3
<1>6. ASSUME NEW id \in NodeID, UpdateHeartbeat(id)
      PROVE  Recent(nodes', Timeout + sinceReap')
  <2>1. nodes'[id].age = 0
    BY <1>0, <1>6, SeenType DEF UpdateHeartbeat
  <2>2. \A j \in DOMAIN nodes' : /\ j \in DOMAIN nodes
                                 /\ j # id => nodes'[j] = nodes[j]
    BY <1>6 DEF UpdateHeartbeat
  <2>3. UNCHANGED reaper
    BY <1>6 DEF UpdateHeartbeat
  <2>4. KeptOrHeard
    BY <2>1, <2>2
  <2> HIDE DEF KeptOrHeard
  <2>5. QED
    BY <1>1, <2>3, <2>4
<1>7. ASSUME NEW id \in NodeID, RemoveNode(id)
      PROVE  Recent(nodes', Timeout + sinceReap')
  BY <1>1, <1>7 DEF RemoveNode
<1>8. CASE ResetCluster
  BY <1>8, NoNodesFacts DEF ResetCluster, Recent
<1>9. CASE ReapOfflineNodes
  <2>1. sinceReap' = 0 /\ DOMAIN nodes' = DOMAIN nodes
    BY <1>9 DEF ReapOfflineNodes
  <2>2. \A i \in DOMAIN nodes : nodes'[i] = Reaped(nodes[i])
    BY <1>9 DEF ReapOfflineNodes
  <2>3. QED
    BY <1>0, <2>1, <2>2, ReapedType DEF Recent
<1>10. CASE Tick
  <2>1. nodes' = Aged(nodes) /\ up
    BY <1>10 DEF Tick, ReaperRuns
  <2>2. sinceReap' = sinceReap + 1
    BY <1>10, <2>1 DEF Tick
  <2>3. Recent(nodes, Timeout + sinceReap)
    BY <1>10 DEF Tick, StalenessBound, Recent
  <2>4. ASSUME NEW i \in DOMAIN nodes', nodes'[i].status = "ONLINE"
        PROVE  nodes'[i].age <= Timeout + sinceReap'
    <3>1. /\ i \in DOMAIN nodes
          /\ nodes[i].status = "ONLINE"
          /\ nodes'[i].age \in 0..AgeCap
          /\ nodes'[i].age <= nodes[i].age + 1
      BY <2>1, <2>4, AgedFacts DEF TypeOK
    <3>2. nodes[i].age <= Timeout + sinceReap
      BY <2>3, <3>1 DEF Recent
    <3>3. QED
      BY <1>0, <2>2, <3>1, <3>2
  <2>5. QED
    BY <2>4 DEF Recent
<1>11. CASE UNCHANGED vars
  BY <1>11 DEF vars, StalenessBound, Recent
<1>12. QED
  BY <1>2, <1>3, <1>4, <1>5, <1>6, <1>7, <1>8, <1>9, <1>10, <1>11
     DEF Next, Register

(* A node the dashboard shows ONLINE was heard of within the timeout plus   *)
(* the time since the reaper last fired, once it has fired.                 *)
THEOREM StalenessBounded == Spec => []StalenessBound
<1>1. Init => StalenessBound /\ ReaperRuns
  BY DEF Init, StalenessBound, ReaperRuns
<1>2. TypeOK /\ ReaperRuns /\ StalenessBound /\ [Next]_vars
         => StalenessBound' /\ ReaperRuns'
  BY StalenessStep, ReaperRunsStep
<1>3. QED
  BY <1>1, <1>2, TypeCorrect, PTL DEF Spec

-----------------------------------------------------------------------------
(* The ledger.                                                              *)

\* Two maps have the same identities when they have the same nodes and each
\* node the same hardware and mesh address.
LEMMA IdentitiesEqual ==
    ASSUME NEW ns, NEW ms, DOMAIN ms = DOMAIN ns,
           \A i \in DOMAIN ns : ms[i].mac = ns[i].mac /\ ms[i].octet = ns[i].octet
    PROVE  Identities(ms) = Identities(ns)
BY DEF Identities

LEMMA AgedIdentities ==
    ASSUME NEW ns, IsNodeMap(ns)
    PROVE  Identities(Aged(ns)) = Identities(ns)
BY AgedFacts, IdentitiesEqual

\* A save that can only succeed leaves the file equal to the map.
LEMMA FaultlessSave ==
    ASSUME SaveFaults = {}, NEW ns, Save(ns)
    PROVE  file'.nodes = ns
BY DEF Save, Readable

-----------------------------------------------------------------------------
LEMMA WriteThroughStep ==
    ASSUME SaveFaults = {}, TypeOK, WriteThrough, [Next]_vars
    PROVE  WriteThrough'
<1>1. ASSUME Save(nodes') PROVE WriteThrough'
  BY <1>1, FaultlessSave DEF WriteThrough
<1>2. ASSUME NEW tok \in Token, Start(tok) PROVE WriteThrough'
  BY <1>2 DEF Start, WriteThrough
<1>3. CASE Crash \/ CrashInSave
  BY <1>3 DEF Crash, CrashInSave, Stopped, WriteThrough
<1>4. ASSUME NEW tok \in Token, NEW mac \in MAC, NEW addr \in Addr,
             NEW i \in NodeID,
             \/ RegisterExisting(tok, mac, addr, i)
             \/ RegisterNew(tok, mac, addr, i)
      PROVE  WriteThrough'
  BY <1>1, <1>4 DEF RegisterExisting, RegisterNew
<1>5. ASSUME NEW id \in NodeID, UpdateHeartbeat(id) PROVE WriteThrough'
  <2>1. nodes[id] \in NodeRec /\ id \in DOMAIN nodes
    BY <1>5, NodeMapElim DEF UpdateHeartbeat, TypeOK
  <2>2. Seen(nodes[id]).mac = nodes[id].mac /\ Seen(nodes[id]).octet = nodes[id].octet
    BY <2>1, SeenType
  <2>3. nodes' = [nodes EXCEPT ![id] = Seen(nodes[id])]
    BY <1>5 DEF UpdateHeartbeat
  <2>4. Identities(nodes') = Identities(nodes)
    BY <2>1, <2>2, <2>3, IdentitiesEqual
  <2>5. up /\ file' = file
    BY <1>5 DEF UpdateHeartbeat
  <2>6. QED
    BY <2>4, <2>5 DEF WriteThrough
<1>6. ASSUME NEW id \in NodeID, RemoveNode(id) PROVE WriteThrough'
  BY <1>1, <1>6 DEF RemoveNode
<1>7. CASE ResetCluster
  BY <1>1, <1>7 DEF ResetCluster
<1>8. CASE ReapOfflineNodes
  <2>1. \A i \in DOMAIN nodes : nodes[i] \in NodeRec
    BY NodeMapElim DEF TypeOK
  <2>2. Identities(nodes') = Identities(nodes)
    BY <1>8, <2>1, ReapedType, IdentitiesEqual DEF ReapOfflineNodes
  <2>3. up /\ file' = file
    BY <1>8 DEF ReapOfflineNodes
  <2>4. QED
    BY <2>2, <2>3 DEF WriteThrough
<1>9. CASE Tick
  <2>1. nodes' = Aged(nodes) /\ file'.nodes = Aged(file.nodes)
    BY <1>9, AgedFile DEF Tick, TypeOK
  <2>2. up' = up
    BY <1>9 DEF Tick
  <2>3. /\ Identities(nodes') = Identities(nodes)
        /\ Identities(file'.nodes) = Identities(file.nodes)
    BY <2>1, AgedIdentities DEF TypeOK, IsFile
  <2>4. QED
    BY <2>2, <2>3 DEF WriteThrough
<1>10. CASE UNCHANGED vars
  BY <1>10 DEF vars, WriteThrough, Identities
<1>11. QED
  BY <1>2, <1>3, <1>4, <1>5, <1>6, <1>7, <1>8, <1>9, <1>10 DEF Next, Register

(* With saves that succeed, what a restart would load always has the        *)
(* members the running controller has.                                      *)
THEOREM WriteThroughHolds ==
    ASSUME SaveFaults = {}
    PROVE  Spec => []WriteThrough
<1>1. Init => WriteThrough
  BY DEF Init, WriteThrough
<1>2. TypeOK /\ WriteThrough /\ [Next]_vars => WriteThrough'
  BY WriteThroughStep
<1>3. QED
  BY <1>1, <1>2, TypeCorrect, PTL DEF Spec

-----------------------------------------------------------------------------
\* The ledger's vocabulary, at the refinement mapping.
LEMMA LedgerDomain ==
    ASSUME NEW ns
    PROVE  /\ DOMAIN Identities(ns) = DOMAIN ns
           /\ \A i \in DOMAIN ns : /\ Identities(ns)[i].mac = ns[i].mac
                                   /\ Identities(ns)[i].octet = ns[i].octet
                                   /\ Identities(ns)[i] =
                                        [mac |-> ns[i].mac, octet |-> ns[i].octet]
BY DEF Identities

LEMMA JoinStep ==
    ASSUME TypeOK, Allocation, NEW tok \in Token, NEW mac \in MAC,
           NEW addr \in Addr, NEW id \in NodeID, RegisterNew(tok, mac, addr, id)
    PROVE  Ledger!JoinSomewhere(id, mac)
<1> DEFINE before == Identities(nodes)
           after  == Identities(nodes')
           new    == [mac |-> mac, octet |-> nextMeshOctet]
<1>0. Ledger!Entry
  BY DEF RegisterNew, Ledger!Entry
<1>1. Members = before /\ Members' = after
  BY DEF RegisterNew, Members
<1>2. /\ id \notin DOMAIN nodes
      /\ DOMAIN nodes' = DOMAIN nodes \cup {id}
      /\ nodes'[id].mac = mac /\ nodes'[id].octet = nextMeshOctet
      /\ \A i \in DOMAIN nodes : nodes'[i] = nodes[i]
  BY DEF RegisterNew
<1>3. \A i \in DOMAIN nodes : nodes[i].octet # nextMeshOctet
  <2>1. \A i \in DOMAIN nodes : nodes[i].octet \in Nat
    BY NodeMapElim, NodeRecFields DEF TypeOK
  <2>2. nextMeshOctet \in Nat
    BY DEF TypeOK, FirstOctet
  <2>3. \A i \in DOMAIN nodes : nodes[i].octet < nextMeshOctet
    BY DEF Allocation
  <2>4. QED
    BY <2>1, <2>2, <2>3
<1>4. mac # NoMAC => \A i \in DOMAIN nodes : nodes[i].mac # mac
  BY DEF RegisterNew, SameMAC
<1>5. after = [i \in DOMAIN before \cup {id} |->
                  IF i = id THEN new ELSE before[i]]
  BY <1>2, LedgerDomain DEF Identities
<1>6. nextMeshOctet \in {after[i].octet : i \in DOMAIN after}
  BY <1>2, LedgerDomain
<1> HIDE DEF before, after, new
<1>7. /\ DOMAIN before = DOMAIN nodes
      /\ \A i \in DOMAIN nodes : /\ before[i].mac = nodes[i].mac
                                 /\ before[i].octet = nodes[i].octet
  BY LedgerDomain DEF before
<1>8. Ledger!Join(id, mac, nextMeshOctet)
  BY <1>0, <1>1, <1>2, <1>3, <1>4, <1>5, <1>7 DEF Ledger!Join, new
<1>9. QED
  BY <1>1, <1>6, <1>8 DEF Ledger!JoinSomewhere

\* Steps that leave the identities in memory alone leave the ledger alone.
LEMMA QuietStep ==
    ASSUME up, up' = up, Identities(nodes') = Identities(nodes)
    PROVE  UNCHANGED Ledger!vars
BY DEF Members, Ledger!vars

LEMMA LedgerStep ==
    ASSUME SaveFaults = {}, TypeOK, Allocation, WriteThrough, [Next]_vars
    PROVE  [Ledger!Next]_(Ledger!vars)
<1>1. ASSUME NEW tok \in Token, Start(tok) PROVE Ledger!Open
  <2>1. Members' = Members
    BY <1>1 DEF Start, Members, Identities
  <2>2. QED
    BY <1>1, <2>1 DEF Start, Ledger!Open
<1>2. ASSUME Crash \/ CrashInSave PROVE Ledger!Close
  <2>1. Crash
    BY <1>2 DEF CrashInSave
  <2>2. Members' = Members
    BY <2>1 DEF Crash, Stopped, Members, WriteThrough, Identities
  <2>3. QED
    BY <2>1, <2>2 DEF Crash, Stopped, Ledger!Close
<1>3. ASSUME NEW tok \in Token, NEW mac \in MAC, NEW addr \in Addr,
             NEW i \in NodeID, RegisterExisting(tok, mac, addr, i)
      PROVE  UNCHANGED Ledger!vars
  <2> DEFINE moved == [nodes[i] EXCEPT !.addr = addr]
  <2>1. /\ i \in DOMAIN nodes /\ up /\ up' = up
        /\ nodes' = [nodes EXCEPT ![i] = Seen(moved)]
    BY <1>3 DEF RegisterExisting, SameMAC
  <2>2. nodes[i] \in NodeRec
    BY <2>1, NodeMapElim DEF TypeOK
  <2>3. /\ moved \in NodeRec
        /\ moved.octet = nodes[i].octet
        /\ moved.mac = nodes[i].mac
    BY <2>2 DEF NodeRec
  <2> HIDE DEF moved
  <2>4. Seen(moved).octet = nodes[i].octet /\ Seen(moved).mac = nodes[i].mac
    BY <2>3, SeenType
  <2>5. Identities(nodes') = Identities(nodes)
    BY <2>1, <2>4, IdentitiesEqual
  <2>6. QED
    BY <2>1, <2>5, QuietStep
<1>4. ASSUME NEW tok \in Token, NEW mac \in MAC, NEW addr \in Addr,
             NEW id \in NodeID, RegisterNew(tok, mac, addr, id)
      PROVE  Ledger!Next
  BY <1>4, JoinStep DEF Ledger!Next
<1>5. ASSUME NEW id \in NodeID, UpdateHeartbeat(id) PROVE UNCHANGED Ledger!vars
  <2>1. /\ id \in DOMAIN nodes /\ up /\ up' = up
        /\ nodes' = [nodes EXCEPT ![id] = Seen(nodes[id])]
    BY <1>5 DEF UpdateHeartbeat
  <2>2. nodes[id] \in NodeRec
    BY <2>1, NodeMapElim DEF TypeOK
  <2>3. Identities(nodes') = Identities(nodes)
    BY <2>1, <2>2, SeenType, IdentitiesEqual
  <2>4. QED
    BY <2>1, <2>3, QuietStep
<1>6. ASSUME NEW id \in NodeID, RemoveNode(id) PROVE Ledger!Leave(id)
  <2>1. /\ Members = Identities(nodes) /\ Members' = Identities(nodes')
        /\ id \in DOMAIN nodes
        /\ nodes' = [i \in DOMAIN nodes \ {id} |-> nodes[i]]
    BY <1>6 DEF RemoveNode, Members
  <2>2. Identities(nodes') =
            [i \in DOMAIN Identities(nodes) \ {id} |-> Identities(nodes)[i]]
    BY <2>1, LedgerDomain DEF Identities
  <2>3. QED
    BY <1>6, <2>1, <2>2, LedgerDomain DEF RemoveNode, Ledger!Leave, Ledger!Entry
<1>7. ASSUME ResetCluster PROVE Ledger!Purge
  <2>1. Members' = Identities(NoNodes)
    BY <1>7 DEF ResetCluster, Members
  <2>2. QED
    BY <1>7, <2>1, NoNodesFacts
       DEF ResetCluster, Identities, Ledger!Purge, Ledger!Entry
<1>8. ASSUME ReapOfflineNodes PROVE UNCHANGED Ledger!vars
  <2>1. \A i \in DOMAIN nodes : nodes[i] \in NodeRec
    BY NodeMapElim DEF TypeOK
  <2>2. Identities(nodes') = Identities(nodes)
    BY <1>8, <2>1, ReapedType, IdentitiesEqual DEF ReapOfflineNodes
  <2>3. up /\ up' = up
    BY <1>8 DEF ReapOfflineNodes
  <2>4. QED
    BY <2>2, <2>3, QuietStep
<1>9. ASSUME Tick PROVE UNCHANGED Ledger!vars
  <2>1. nodes' = Aged(nodes) /\ file'.nodes = Aged(file.nodes)
    BY <1>9, AgedFile DEF Tick, TypeOK
  <2>2. up' = up
    BY <1>9 DEF Tick
  <2>3. /\ Identities(nodes') = Identities(nodes)
        /\ Identities(file'.nodes) = Identities(file.nodes)
    BY <2>1, AgedIdentities DEF TypeOK, IsFile
  <2>4. QED
    BY <2>2, <2>3 DEF Members, Ledger!vars
<1>10. CASE UNCHANGED vars
  BY <1>10 DEF vars, Members, Identities, Ledger!vars
<1>11. QED
  BY <1>1, <1>2, <1>3, <1>4, <1>5, <1>6, <1>7, <1>8, <1>9, <1>10
     DEF Next, Register, Ledger!Next

(* With saves that succeed, the registry is the durable ledger: crashes and *)
(* restarts change none of its members.                                     *)
THEOREM LedgerImplemented ==
    ASSUME SaveFaults = {}
    PROVE  Spec => ImplementsLedger
<1>1. Init => Ledger!Init
  <2>1. Init => Members = Identities(NoNodes)
    BY DEF Init, Members, Unreadable
  <2>2. Identities(NoNodes) = [i \in {} |-> 0]
    BY NoNodesFacts DEF Identities
  <2>3. QED
    BY <2>1, <2>2 DEF Init, Ledger!Init
<1>2. TypeOK /\ Allocation /\ WriteThrough /\ [Next]_vars
         => [Ledger!Next]_(Ledger!vars)
  BY LedgerStep
<1>3. Spec => []WriteThrough
  BY WriteThroughHolds
<1>4. QED
  BY <1>1, <1>2, <1>3, TypeCorrect, AllocationHolds, PTL
     DEF Spec, ImplementsLedger, Ledger!Spec
=============================================================================
