------------------------------ MODULE VMEngine ------------------------------
(***************************************************************************)
(* The virtual machine engines of the nodes as the simulated one keeps     *)
(* them (pkg/hyperv/engine.go): what the Engine interface promises.  Every *)
(* method holds the engine's lock for its whole body, so each is one step; *)
(* its errors are the states in which the step is not enabled, and change  *)
(* nothing.                                                                *)
(*                                                                         *)
(* A machine's processors and memory are one number, its size; its disk is *)
(* counted in steps of growth.  Addresses, load and uptime are left out.   *)
(***************************************************************************)
EXTENDS Naturals, Sequences, SequencesExt

CONSTANTS
    Node,        \* nodes, each with an engine of its own
    ID,          \* identifiers of machines
    DemoID,      \* that of the machine every simulated engine begins with
    Name,        \* names of machines
    DemoName,    \* the name it begins with
    NoName,      \* the empty name
    Fold,        \* [Name -> Name]: what strings.EqualFold tells apart
    Fresh,       \* nodes whose engine never gives an identifier that is in
                 \* use: Hyper-V, not the simulated one
    Snapshot,    \* names of checkpoints
    Sizes,       \* 0 stands for the sizes ResizeVM turns down
    Disks        \* disk sizes; 0 stands for none given

ASSUME EngineAssumption ==
    /\ DemoID \in ID
    /\ DemoName \in Name
    /\ NoName \in Name
    /\ Fold \in [Name -> Name]
    /\ Fresh \subseteq Node
    /\ Sizes \subseteq Nat
    /\ Disks \subseteq Nat

VARIABLES
    vms,           \* per node: its machines by identifier
    checkpoints    \* per node and identifier: its checkpoints, oldest first

engines == <<vms, checkpoints>>

Machine == [name : Name, state : {"RUNNING", "STOPPED"}, size : Nat, disk : Nat]

newSimulatedEngine ==
    [id \in {DemoID} |-> [name |-> DemoName, state |-> "RUNNING", size |-> 1, disk |-> 1]]

EnginesInit ==
    /\ vms = [n \in Node |-> newSimulatedEngine]
    /\ checkpoints = [n \in Node |-> [id \in ID |-> <<>>]]

Exists(n, id) == id \in DOMAIN vms[n]

\* Mutant: names are compared as they are written.
NameFreeExact(n, name) ==
    \A id \in DOMAIN vms[n] : vms[n][id].name # name

NameFree(n, name) ==
    \A id \in DOMAIN vms[n] : Fold[vms[n][id].name] # Fold[name]

With(n, id, vm) ==
    vms' = [vms EXCEPT ![n] = [k \in DOMAIN @ \cup {id} |-> IF k = id THEN vm ELSE @[k]]]

\* The simulated engine's is vm-<nanoseconds modulo 1000000>: never the demo
\* machine's, but possibly another one's, and then that machine is replaced.
NewID(n, id) ==
    /\ id # DemoID
    /\ n \in Fresh => ~Exists(n, id)

CanCreate(n, name) == NameFree(n, name)

CreateVM(n, id, name, size, disk) ==
    /\ CanCreate(n, name)
    /\ NewID(n, id)
    /\ With(n, id, [name |-> name, state |-> "STOPPED", size |-> size, disk |-> disk])
    /\ UNCHANGED checkpoints

CanClone(n, src, name) == Exists(n, src) /\ name # NoName /\ NameFree(n, name)

CloneVM(n, id, src, name) ==
    /\ CanClone(n, src, name)
    /\ NewID(n, id)
    /\ With(n, id, [vms[n][src] EXCEPT !.name = name, !.state = "STOPPED"])
    /\ UNCHANGED checkpoints

SetState(n, id, state) ==
    /\ Exists(n, id)
    /\ vms' = [vms EXCEPT ![n][id].state = state]
    /\ UNCHANGED checkpoints

StartVM(n, id)   == SetState(n, id, "RUNNING")
StopVM(n, id)    == SetState(n, id, "STOPPED")
RestartVM(n, id) == SetState(n, id, "RUNNING")

\* Mutant: the checkpoints stay.
DeleteVMOnly(n, id) ==
    /\ Exists(n, id)
    /\ vms' = [vms EXCEPT ![n] = [k \in DOMAIN @ \ {id} |-> @[k]]]
    /\ UNCHANGED checkpoints

DeleteVM(n, id) ==
    /\ Exists(n, id)
    /\ vms' = [vms EXCEPT ![n] = [k \in DOMAIN @ \ {id} |-> @[k]]]
    /\ checkpoints' = [checkpoints EXCEPT ![n][id] = <<>>]

CanResize(n, id, size) == Exists(n, id) /\ size # 0

ResizeVM(n, id, size) ==
    /\ CanResize(n, id, size)
    /\ vms' = [vms EXCEPT ![n][id].size = size]
    /\ UNCHANGED checkpoints

CanExpand(n, id, disk) == Exists(n, id) /\ disk > vms[n][id].disk

ExpandDisk(n, id, disk) ==
    /\ CanExpand(n, id, disk)
    /\ vms' = [vms EXCEPT ![n][id].disk = disk]
    /\ UNCHANGED checkpoints

\* A checkpoint is its name and the name of the machine it was taken of;
\* two may have one name.
CreateCheckpoint(n, id, name) ==
    /\ Exists(n, id)
    /\ checkpoints' = [checkpoints EXCEPT ![n][id] =
                          Append(@, [name |-> name, of |-> vms[n][id].name])]
    /\ UNCHANGED vms

Found(n, id, name) ==
    {i \in DOMAIN checkpoints[n][id] : checkpoints[n][id][i].name = name}

HasCheckpoint(n, id, name) == Exists(n, id) /\ Found(n, id, name) # {}

\* The simulated engine only looks the checkpoint up.
RestoreCheckpoint(n, id, name) ==
    /\ HasCheckpoint(n, id, name)
    /\ UNCHANGED engines

\* The oldest of the name goes.
DeleteCheckpoint(n, id, name) ==
    /\ HasCheckpoint(n, id, name)
    /\ \E i \in Found(n, id, name) :
          /\ \A k \in Found(n, id, name) : i <= k
          /\ checkpoints' = [checkpoints EXCEPT ![n][id] = RemoveAt(@, i)]
    /\ UNCHANGED vms

EngineStep(n) ==
    \E id \in ID :
        \/ \E name \in Name :
              \/ \E size \in Sizes, disk \in Disks : CreateVM(n, id, name, size, disk)
              \/ \E src \in ID : CloneVM(n, id, src, name)
        \/ StartVM(n, id) \/ StopVM(n, id) \/ RestartVM(n, id) \/ DeleteVM(n, id)
        \/ \E size \in Sizes : ResizeVM(n, id, size)
        \/ \E disk \in Disks : ExpandDisk(n, id, disk)
        \/ \E s \in Snapshot : \/ CreateCheckpoint(n, id, s)
                               \/ RestoreCheckpoint(n, id, s)
                               \/ DeleteCheckpoint(n, id, s)

EnginesSpec == EnginesInit /\ [][\E n \in Node : EngineStep(n)]_engines

-----------------------------------------------------------------------------
(* No two machines of a node have the same name, whatever its case          *)
(* (engine.go:550-554, 761-765): their disk files would be one.             *)
NamesDistinct ==
    \A n \in Node : \A a, b \in DOMAIN vms[n] :
        Fold[vms[n][a].name] = Fold[vms[n][b].name] => a = b

(* Checkpoints are only kept for machines that are there, so none turns up  *)
(* under a later machine that gets the identifier of a deleted one          *)
(* (engine.go:625-626).  Where no two machines share an identifier they are *)
(* of the machine itself; a simulated machine that replaces another one     *)
(* finds that one's (engine.go:556, 570, 660-666).                          *)
CheckpointsOwned ==
    \A n \in Node, id \in ID : \A i \in DOMAIN checkpoints[n][id] :
        /\ Exists(n, id)
        /\ n \in Fresh => checkpoints[n][id][i].of = vms[n][id].name
=============================================================================
