------------------------------ MODULE Registry ------------------------------
(***************************************************************************)
(* The controller's node registry (pkg/cluster/registry.go) together with  *)
(* the JSON file it writes through to and the reaper goroutine of          *)
(* cmd/controller/main.go that ages nodes out.  Every exported method of   *)
(* Registry holds Registry.mu for its whole body, save included, so each   *)
(* is one action.  Real time is counted in ticks; a node carries the age   *)
(* of its LastSeen instead of the instant, capped where the code can no    *)
(* longer tell two ages apart.                                             *)
(***************************************************************************)
EXTENDS Naturals, FiniteSets

CONSTANTS
    NodeID,      \* values of generateRandomID
    MAC,         \* hardware addresses an agent may report
    NoMAC,       \* the empty MACAddress
    Addr,        \* remote IP and agent port, as one value
    Token,       \* cluster join tokens
    Timeout,     \* ReapOfflineNodes argument, in ticks
    ReapPeriod,  \* period of the reaper's ticker, in ticks
    SaveFaults,  \* what may go wrong with a save (see Save)
    MaxOctet     \* model bound: no registration once nextMeshOctet exceeds it

ASSUME RegistryAssumption ==
    /\ NoMAC \in MAC
    /\ Timeout \in Nat
    /\ ReapPeriod \in Nat \ {0}
    /\ SaveFaults \subseteq {"kept", "torn", "crash"}
    /\ MaxOctet \in Nat \ {0}

FirstOctet == 2     \* 10.42.0.1 is the controller

\* Ages from AgeCap on are indistinguishable: older than Timeout for sure, and
\* older than any age the reaper may leave ONLINE.
AgeCap == Timeout + ReapPeriod + 1

VARIABLES
    up,             \* is the controller process running?
    clusterToken,   \* the token the running controller was started with
    nodes,          \* Registry.nodes
    nextMeshOctet,  \* Registry.nextMeshOctet
    file,           \* what LoadFromFile would find at storagePath
    sinceReap,      \* ticks since the reaper's ticker last fired
    reaped          \* has the reaper fired since the controller started?

vars == <<up, clusterToken, nodes, nextMeshOctet, file, sinceReap, reaped>>

reaper == <<sinceReap, reaped>>

NodeRec == [mac: MAC, addr: Addr, octet: Nat,
            status: {"ONLINE", "OFFLINE"}, age: 0..AgeCap]

NoNodes == [i \in {} |-> 0]

\* A registry's map: a function from some identifiers to node records.
IsNodeMap(ns) == DOMAIN ns \subseteq NodeID /\ ns \in [DOMAIN ns -> NodeRec]

\* A file that is missing, empty or cut short is unreadable for LoadFromFile;
\* os.WriteFile truncates before it writes.
Readable(ns) == [ok |-> TRUE, nodes |-> ns]
Unreadable   == [ok |-> FALSE, nodes |-> NoNodes]

IsFile(f) ==
    /\ f = [ok |-> f.ok, nodes |-> f.nodes]
    /\ f.ok \in BOOLEAN
    /\ IsNodeMap(f.nodes)

-----------------------------------------------------------------------------
\* Mutant: the change is kept in memory only.
SaveSkipped(ns) == file' = file

(* saveToFileLocked: marshal the map and os.WriteFile it.  The call may     *)
(* fail before it touches the file ("kept") or after truncating ("torn").   *)
(* Callers differ in what they do with the error, none undoes the change.   *)
Save(ns) ==
    \/ file' = Readable(ns)
    \/ "kept" \in SaveFaults /\ file' = file
    \/ "torn" \in SaveFaults /\ file' = Unreadable

\* Mutants: no recalculation after loading, or one that stops at the highest.
IsNextOctetFirst(n, ns) == n = FirstOctet
IsNextOctetHighest(n, ns) ==
    /\ n >= FirstOctet
    /\ \A i \in DOMAIN ns : ns[i].octet <= n
    /\ n = FirstOctet \/ \E i \in DOMAIN ns : n = ns[i].octet

\* The loop of LoadFromFile over the loaded nodes, from FirstOctet on: the
\* least octet above every one in use.
IsNextOctet(n, ns) ==
    /\ n >= FirstOctet
    /\ \A i \in DOMAIN ns : ns[i].octet < n
    /\ n = FirstOctet \/ \E i \in DOMAIN ns : n = ns[i].octet + 1

ValidateClusterToken(tok) == clusterToken = tok

\* Mutant: only a node that is ONLINE is recognised.
SameMACOnline(mac) ==
    {i \in DOMAIN nodes : mac # NoMAC /\ nodes[i].mac = mac /\ nodes[i].status = "ONLINE"}

\* The nodes RegisterNode takes for the one that is registering.
SameMAC(mac) == {i \in DOMAIN nodes : mac # NoMAC /\ nodes[i].mac = mac}

\* Mutants: LastSeen is not stamped; an OFFLINE node stays so.
SeenUnstamped(node) == [node EXCEPT !.status = "ONLINE"]
SeenOffline(node) == [node EXCEPT !.age = 0]

Seen(node) == [node EXCEPT !.status = "ONLINE", !.age = 0]

-----------------------------------------------------------------------------
(* NewRegistry loads the file; whatever is wrong with it, the registry      *)
(* starts empty (the error is dropped).                                     *)
Start(tok) ==
    /\ ~up
    /\ up' = TRUE
    /\ clusterToken' = tok
    /\ nodes' = file.nodes
    /\ \E n \in FirstOctet..(MaxOctet + 1) :
          /\ IsNextOctet(n, file.nodes)
          /\ nextMeshOctet' = n
    /\ sinceReap' = 0
    /\ reaped' = FALSE
    /\ UNCHANGED file

Stopped ==
    /\ up
    /\ up' = FALSE
    /\ nodes' = NoNodes
    /\ nextMeshOctet' = FirstOctet
    /\ sinceReap' = 0
    /\ reaped' = FALSE
    /\ UNCHANGED clusterToken

\* The process dies between two calls, or inside the os.WriteFile of one.
Crash       == Stopped /\ UNCHANGED file
CrashInSave == "crash" \in SaveFaults /\ Stopped /\ file' = Unreadable

(* RegisterNode, one action per branch.  A wrong token changes nothing.     *)
RegisterExisting(tok, mac, addr, i) ==
    /\ up
    /\ ValidateClusterToken(tok)
    /\ i \in SameMAC(mac)
    /\ nodes' = [nodes EXCEPT ![i] = Seen([@ EXCEPT !.addr = addr])]
    /\ Save(nodes')
    /\ UNCHANGED <<up, clusterToken, nextMeshOctet, reaper>>

RegisterNew(tok, mac, addr, id) ==
    /\ up
    /\ ValidateClusterToken(tok)
    /\ SameMAC(mac) = {}
    /\ id \notin DOMAIN nodes
    /\ nextMeshOctet <= MaxOctet
    /\ nodes' = [i \in DOMAIN nodes \cup {id} |->
                    IF i = id
                    THEN [mac |-> mac, addr |-> addr, octet |-> nextMeshOctet,
                          status |-> "ONLINE", age |-> 0]
                    ELSE nodes[i]]
    /\ nextMeshOctet' = nextMeshOctet + 1
    /\ Save(nodes')
    /\ UNCHANGED <<up, clusterToken, reaper>>

\* An unknown id is refused without a state change.
UpdateHeartbeat(id) ==
    /\ up
    /\ id \in DOMAIN nodes
    /\ nodes' = [nodes EXCEPT ![id] = Seen(@)]
    /\ UNCHANGED <<up, clusterToken, nextMeshOctet, file, reaper>>

\* Mutant: the removal is not written through.
RemoveNodeUnsaved(id) ==
    /\ up
    /\ id \in DOMAIN nodes
    /\ nodes' = [i \in DOMAIN nodes \ {id} |-> nodes[i]]
    /\ UNCHANGED <<up, clusterToken, nextMeshOctet, file, reaper>>

RemoveNode(id) ==
    /\ up
    /\ id \in DOMAIN nodes
    /\ nodes' = [i \in DOMAIN nodes \ {id} |-> nodes[i]]
    /\ Save(nodes')
    /\ UNCHANGED <<up, clusterToken, nextMeshOctet, reaper>>

\* Mutants: the counter restarts at the controller's own octet or below; the
\* empty map is not written through.
ResetClusterFromZero ==
    /\ up
    /\ nodes' = NoNodes
    /\ nextMeshOctet' = 0
    /\ Save(nodes')
    /\ UNCHANGED <<up, clusterToken, reaper>>

ResetClusterUnsaved ==
    /\ up
    /\ nodes' = NoNodes
    /\ nextMeshOctet' = FirstOctet
    /\ UNCHANGED <<up, clusterToken, file, reaper>>

ResetCluster ==
    /\ up
    /\ nodes' = NoNodes
    /\ nextMeshOctet' = FirstOctet
    /\ Save(nodes')
    /\ UNCHANGED <<up, clusterToken, reaper>>

Reaped(node) ==
    IF node.status = "ONLINE" /\ node.age > Timeout
    THEN [node EXCEPT !.status = "OFFLINE"]
    ELSE node

\* The ticker fires every ReapPeriod ticks; OFFLINE is not written through.
ReapOfflineNodes ==
    /\ up
    /\ sinceReap = ReapPeriod
    /\ sinceReap' = 0
    /\ reaped' = TRUE
    /\ nodes' = [i \in DOMAIN nodes |-> Reaped(nodes[i])]
    /\ UNCHANGED <<up, clusterToken, nextMeshOctet, file>>

Aged(ns) ==
    [i \in DOMAIN ns |->
        [ns[i] EXCEPT !.age = IF @ < AgeCap THEN @ + 1 ELSE @]]

(* Time passes for the map and for the LastSeen stamps in the file alike.   *)
(* A running controller's ticker is assumed to fire on time.                *)
Tick ==
    /\ up => sinceReap < ReapPeriod
    /\ sinceReap' = IF up THEN sinceReap + 1 ELSE sinceReap
    /\ nodes' = Aged(nodes)
    /\ file' = [file EXCEPT !.nodes = Aged(@)]
    /\ UNCHANGED <<up, clusterToken, nextMeshOctet, reaped>>

-----------------------------------------------------------------------------
Init ==
    /\ up = FALSE
    /\ clusterToken \in Token
    /\ nodes = NoNodes
    /\ nextMeshOctet = FirstOctet
    /\ file = Unreadable
    /\ sinceReap = 0
    /\ reaped = FALSE

Register(tok, mac, addr) ==
    \E i \in NodeID : \/ RegisterExisting(tok, mac, addr, i)
                      \/ RegisterNew(tok, mac, addr, i)

Next ==
    \/ \E tok \in Token : Start(tok)
    \/ Crash
    \/ CrashInSave
    \/ \E tok \in Token, mac \in MAC, addr \in Addr : Register(tok, mac, addr)
    \/ \E id \in NodeID : UpdateHeartbeat(id) \/ RemoveNode(id)
    \/ ResetCluster
    \/ ReapOfflineNodes
    \/ Tick

Spec == Init /\ [][Next]_vars

-----------------------------------------------------------------------------
(* The types of the registry's state; both maps hold node records only.     *)
TypeOK ==
    /\ up \in BOOLEAN
    /\ clusterToken \in Token
    /\ IsNodeMap(nodes)
    /\ nextMeshOctet \in FirstOctet..(MaxOctet + 1)
    /\ IsFile(file)
    /\ sinceReap \in 0..ReapPeriod
    /\ reaped \in BOOLEAN

DistinctOctets(ns) ==
    \A i, j \in DOMAIN ns : i # j => ns[i].octet # ns[j].octet

DistinctMACs(ns) ==
    \A i, j \in DOMAIN ns :
        i # j /\ ns[i].mac = ns[j].mac => ns[i].mac = NoMAC

(* No two registered nodes share a mesh address, whatever the order of      *)
(* registrations, removals, resets, failed saves, crashes and restarts      *)
(* (registry.go:73-75, 158-159, 245-253).                                   *)
UniqueMeshIPs == DistinctOctets(nodes)

(* One machine is one node: two nodes with the same hardware address have   *)
(* an empty one, across restarts too (registry.go:56-58).                   *)
UniqueMACs == DistinctMACs(nodes)

(* The strengthening that makes the two inductive: the file, which a restart *)
(* turns into the registry, is as consistent as the registry itself, and    *)
(* the next octet to hand out is above every one in use (registry.go:74-75, *)
(* 159, 246-253), so a new node can never meet an old one's address.        *)
Allocation ==
    /\ DistinctOctets(nodes) /\ DistinctMACs(nodes)
    /\ DistinctOctets(file.nodes) /\ DistinctMACs(file.nodes)
    /\ \A i \in DOMAIN nodes : nodes[i].octet < nextMeshOctet

(* A node shown ONLINE was heard of recently: within the timeout plus the   *)
(* time since the reaper last fired.  The one exception is a controller     *)
(* whose reaper has not fired yet: nodes come back from the file with the   *)
(* status and LastSeen they were saved with (registry.go:164-174, 241 and   *)
(* main.go:77-83).                                                          *)
StalenessBound ==
    reaped => \A i \in DOMAIN nodes :
        nodes[i].status = "ONLINE" => nodes[i].age <= Timeout + sinceReap
=============================================================================
