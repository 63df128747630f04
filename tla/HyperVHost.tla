----------------------------- MODULE HyperVHost -----------------------------
(***************************************************************************)
(* The Windows engine of one node (pkg/hyperv/engine.go): every method     *)
(* runs one PowerShell script, the agent handles requests side by side,    *)
(* and no lock is held, so scripts interleave command by command.  A       *)
(* command that fails does not end its script unless it is a throw; the    *)
(* script's success is that of its last command.                           *)
(*                                                                         *)
(* Hyper-V, the file system and Invoke-WebRequest are external, modelled   *)
(* from how the scripts use them: machines live in a table of their own, a *)
(* disk in use cannot be copied, overwritten or removed, a running machine *)
(* cannot be resized, and New-VM may be refused.  A disk file is named by  *)
(* the machine it was made for.  Left out are a Remove-VM refused for a    *)
(* machine that is off, and checkpoints, one command each, with the .avhdx *)
(* a machine's drive is on once it has one.                                *)
(***************************************************************************)
EXTENDS Naturals, FiniteSets

CONSTANTS
    Host,        \* this node
    Script,      \* requests, each running one script: numbered as they come in
    Name, Image,
    FirstName,   \* that of the machine the host already has
    NoImage, NoDisk, Partial,
    Sizes, Disks,
    Exclusive    \* do requests under way concern different machines and
                 \* names?  Neither the agent nor the controller sees to it.

ASSUME HostAssumption ==
    /\ Script \subseteq Nat
    /\ IsFiniteSet(Script) /\ FirstName \in Name
    /\ NoImage \notin Image
    /\ Sizes \subseteq Nat \ {0} /\ Disks \subseteq Nat \ {0}
    /\ {1, 2} \subseteq Sizes /\ 1 \in Disks
    /\ {NoDisk, Partial} \cap Disks = {} /\ NoDisk # Partial
    /\ Exclusive \in BOOLEAN

VARIABLES
    vms,      \* Hyper-V's machines
    vhd,      \* C:\Crybaby\Disks: per name, the size of its .vhdx
    cache,    \* C:\Crybaby\ISOs: "none", "part" while a script downloads the
              \* image, "whole", or "broken" off
    pc,       \* the command each script is at, or how it ended
    req,      \* what it was asked
    seen,     \* what it read into its variables
    want      \* per machine, gone ones too: the state it was last ordered into

host == <<vms, vhd, cache>>
vars == <<host, pc, req, seen, want>>

\* Hyper-V gives every machine an identifier of its own, numbered here as
\* they are made; no request makes more than one.
FirstID == 0
ID == 0 .. Cardinality(Script)

\* "nothing": a clone that made no machine; its script succeeds all the same.
\* "spoiled": the image of a new machine could not be downloaded.
Over == {"idle", "done", "failed", "cut", "nothing", "spoiled"}
Active(r) == pc[r] \notin Over
Quiet == \A r \in Script : ~Active(r)

Request(op, vm, name, number, image, on) ==
    [op |-> op, vm |-> vm, name |-> name, number |-> number, image |-> image,
     on |-> on]

Unseen == [running |-> FALSE, size |-> 1, disk |-> FirstName, ids |-> {}]

Init ==
    /\ vms = [id \in {FirstID} |->
                 [name |-> FirstName, state |-> "RUNNING", size |-> 1,
                  disk |-> FirstName, dvd |-> NoImage]]
    /\ vhd = [f \in Name |-> IF f = FirstName THEN 1 ELSE NoDisk]
    /\ cache = [i \in Image |-> "none"]
    /\ pc = [r \in Script |-> "idle"]
    /\ req = [r \in Script |-> Request("none", FirstID, FirstName, 1, NoImage, {})]
    /\ seen = [r \in Script |-> Unseen]
    /\ want = [id \in {FirstID} |-> "RUNNING"]

Found(id) == id \in DOMAIN vms
Named(name) == {id \in DOMAIN vms : vms[id].name = name}

\* Opened by a running machine or by a copy under way.
InUse(f) ==
    \/ \E id \in DOMAIN vms : vms[id].disk = f /\ vms[id].state = "RUNNING"
    \/ \E r \in Script : pc[r] = "copying" /\ f \in {req[r].name, seen[r].disk}

Change(ids, field, value) ==
    vms' = [id \in DOMAIN vms |->
               IF id \in ids THEN [vms[id] EXCEPT ![field] = value] ELSE vms[id]]

Stopped(ids) == {id \in ids \cap DOMAIN vms : vms[id].state = "STOPPED"}

Goto(r, from, to) ==
    /\ pc[r] = from
    /\ pc' = [pc EXCEPT ![r] = to]

Outcome(ok) == IF ok THEN "done" ELSE "failed"

Forget(r) == seen' = [seen EXCEPT ![r] = Unseen]

-----------------------------------------------------------------------------
(* A request comes in.                                                      *)

NameOf(id) == IF Found(id) THEN {vms[id].name} ELSE {}

FirstCommand(op) ==
    CASE op = "CreateVM" -> "NewVM"  [] op = "CloneVM" -> "Check"
      [] op = "DeleteVM" -> "Find"   [] op = "ResizeVM" -> "FindRunning"
      [] op = "ExpandDisk" -> "ResizeVHD"
      [] OTHER -> "Power"

Accept(r, x) ==
    /\ \A q \in Script : q < r => pc[q] # "idle"
    /\ Exclusive => \A q \in Script : Active(q) => req[q].on \cap x.on = {}
    /\ Goto(r, "idle", FirstCommand(x.op))
    /\ req' = [req EXCEPT ![r] = x]
    /\ UNCHANGED <<host, seen, want>>

RequestNew(r) ==
    \E name \in Name, image \in Image \cup {NoImage} :
        Accept(r, Request("CreateVM", FirstID, name, 1, image, {name}))

RequestClone(r) ==
    \E name \in Name, id \in DOMAIN want :
        Accept(r, Request("CloneVM", id, name, 1, NoImage, {name} \cup NameOf(id)))

RequestOne(r) ==
    \E id \in DOMAIN want :
        \/ \E op \in {"StartVM", "StopVM", "RestartVM", "DeleteVM"} :
              Accept(r, Request(op, id, FirstName, 1, NoImage, NameOf(id)))
        \/ \E size \in Sizes :
              Accept(r, Request("ResizeVM", id, FirstName, size, NoImage, NameOf(id)))
        \/ \E disk \in Disks :
              Accept(r, Request("ExpandDisk", id, FirstName, disk, NoImage, NameOf(id)))

-----------------------------------------------------------------------------
(* CreateVM: machines are made two processors large.                        *)

NewID == Cardinality(DOMAIN want)

With(f, id, x) == [k \in DOMAIN f \cup {id} |-> IF k = id THEN x ELSE f[k]]

Made(id, name) ==
    /\ vms' = With(vms, id, [name |-> name, state |-> "STOPPED", size |-> 1,
                             disk |-> name, dvd |-> NoImage])
    /\ want' = With(want, id, "STOPPED")

\* Mutant: a disk that is there is taken over.
NewVMOnDisk(r) ==
    /\ Goto(r, "NewVM", "Tune")
    /\ Made(NewID, req[r].name)
    /\ vhd' = [vhd EXCEPT ![req[r].name] = req[r].number]
    /\ UNCHANGED <<cache, req, seen>>

\* New-VM -NewVHDPath: not where there is a file already; or refused, for
\* the memory or the switch.
NewVM(r) ==
    LET name == req[r].name
    IN /\ Goto(r, "NewVM", "Tune")
       /\ \/ /\ vhd[name] = NoDisk
             /\ Made(NewID, name)
             /\ vhd' = [vhd EXCEPT ![name] = req[r].number]
          \/ UNCHANGED <<vms, vhd, want>>
       /\ UNCHANGED <<cache, req, seen>>

\* Set-VMProcessor and Set-VM: whichever machine has the name.
Tune(r) ==
    LET ids == Named(req[r].name)
    IN /\ Goto(r, "Tune", IF req[r].image # NoImage THEN "TestPath"
                          ELSE Outcome(ids # {}))
       /\ Change(Stopped(ids), "size", 2)
       /\ UNCHANGED <<vhd, cache, req, seen, want>>


\* Any file of the name will do.
TestPath(r) ==
    LET image == req[r].image
    IN /\ Goto(r, "TestPath", IF cache[image] = "none" THEN "fetching" ELSE "AddDvd")
       /\ cache' = [cache EXCEPT ![image] = IF @ = "none" THEN "part" ELSE @]
       /\ UNCHANGED <<vms, vhd, req, seen, want>>

\* Invoke-WebRequest gets no answer and makes no file.
Unfetched(r) ==
    /\ Goto(r, "TestPath", "AddBroken")
    /\ cache[req[r].image] = "none"
    /\ UNCHANGED <<host, req, seen, want>>

Fetched(r) ==
    /\ Goto(r, "fetching", "AddDvd")
    /\ cache' = [cache EXCEPT ![req[r].image] = "whole"]
    /\ UNCHANGED <<vms, vhd, req, seen, want>>

\* The script goes on with what there is of the file.
FetchFails(r) ==
    /\ Goto(r, "fetching", "AddBroken")
    /\ cache' = [cache EXCEPT ![req[r].image] = "broken"]
    /\ UNCHANGED <<vms, vhd, req, seen, want>>

\* Add-VMDvdDrive and Set-VMFirmware.
AddDvd(r) ==
    LET image == req[r].image
        ids   == IF cache[image] = "none" THEN {} ELSE Stopped(Named(req[r].name))
    IN /\ Goto(r, "AddDvd", Outcome(ids # {})) \/ Goto(r, "AddBroken", "spoiled")
       /\ Change(ids, "dvd", image)
       /\ UNCHANGED <<vhd, cache, req, seen, want>>

CreateVM(r) ==
    \/ NewVM(r) \/ Tune(r) \/ TestPath(r) \/ Unfetched(r)
    \/ Fetched(r) \/ FetchFails(r) \/ AddDvd(r)

-----------------------------------------------------------------------------
(* StartVM, StopVM, RestartVM and ExpandDisk: one command.                  *)

\* Hyper-V may refuse any of them.
PowerFails(r) ==
    /\ Goto(r, "Power", "failed")
    /\ UNCHANGED <<host, req, seen, want>>

\* Mutant: Hyper-V's own word for a machine that is off.
PowerOff(r) ==
    /\ Found(req[r].vm)
    /\ Goto(r, "Power", "done")
    /\ Change({req[r].vm}, "state",
              IF req[r].op = "StopVM" THEN "Off" ELSE "RUNNING")
    /\ UNCHANGED <<vhd, cache, req, seen, want>>

Power(r) ==
    LET id == req[r].vm
        to == IF req[r].op = "StopVM" THEN "STOPPED" ELSE "RUNNING"
    IN /\ Found(id)
       /\ req[r].op = "RestartVM" => vms[id].state = "RUNNING"
       /\ Goto(r, "Power", "done")
       /\ Change({id}, "state", to)
       /\ want' = [want EXCEPT ![id] = to]
       /\ UNCHANGED <<vhd, cache, req, seen>>

\* Resize-VHD does not cut into what a disk holds.
CanGrow(r) ==
    /\ Found(req[r].vm)
    /\ LET size == vhd[vms[req[r].vm].disk]
       IN size \in Disks /\ size < req[r].number

ResizeVHD(r) ==
    /\ Goto(r, "ResizeVHD", Outcome(CanGrow(r)))
    /\ vhd' = IF CanGrow(r) THEN [vhd EXCEPT ![vms[req[r].vm].disk] = req[r].number]
              ELSE vhd
    /\ UNCHANGED <<vms, cache, req, seen, want>>

-----------------------------------------------------------------------------
(* DeleteVM, with the disk.                                                 *)

\* Get-VM and Get-VMHardDiskDrive; nothing found, nothing is done.
Find(r) ==
    LET id == req[r].vm
    IN /\ Goto(r, "Find", IF Found(id) THEN "TurnOff" ELSE "done")
       /\ IF Found(id) THEN seen' = [seen EXCEPT ![r].disk = vms[id].disk]
          ELSE UNCHANGED seen
       /\ UNCHANGED <<host, req, want>>

TurnOff(r) ==
    /\ Goto(r, "TurnOff", "Remove")
    /\ Change({req[r].vm}, "state", "STOPPED")
    /\ UNCHANGED <<vhd, cache, req, seen, want>>

\* Mutant: the disk is kept.
RemoveOnly(r) ==
    /\ Goto(r, "Remove", "done")
    /\ vms' = [id \in DOMAIN vms \ Stopped({req[r].vm}) |-> vms[id]]
    /\ UNCHANGED <<vhd, cache, req, seen, want>>

Remove(r) ==
    /\ Goto(r, "Remove", "Erase")
    /\ vms' = [id \in DOMAIN vms \ Stopped({req[r].vm}) |-> vms[id]]
    /\ UNCHANGED <<vhd, cache, req, seen, want>>

Erase(r) ==
    /\ Goto(r, "Erase", Outcome(~InUse(seen[r].disk)))
    /\ vhd' = [vhd EXCEPT ![seen[r].disk] = IF InUse(seen[r].disk) THEN @ ELSE NoDisk]
    /\ Forget(r)
    /\ UNCHANGED <<vms, cache, req, want>>

DeleteVM(r) == Find(r) \/ TurnOff(r) \/ Remove(r) \/ Erase(r)

-----------------------------------------------------------------------------
(* ResizeVM: a running machine is stopped for it and started again.         *)

FindRunning(r) ==
    LET id == req[r].vm
    IN /\ Goto(r, "FindRunning",
               IF ~Found(id) THEN "failed"
               ELSE IF vms[id].state = "RUNNING" THEN "Halt" ELSE "SetSize")
       /\ IF Found(id)
          THEN seen' = [seen EXCEPT ![r].running = (vms[id].state = "RUNNING")]
          ELSE UNCHANGED seen
       /\ UNCHANGED <<host, req, want>>

Halt(r) ==
    /\ Goto(r, "Halt", "SetSize")
    /\ Change({req[r].vm}, "state", "STOPPED")
    /\ UNCHANGED <<vhd, cache, req, seen, want>>

\* The guest does not shut down; the script goes on.
HaltFails(r) ==
    /\ Goto(r, "Halt", "SetSize")
    /\ UNCHANGED <<host, req, seen, want>>

\* Mutant: the machine is not started again.
SetSizeOnly(r) ==
    /\ Goto(r, "SetSize", "done")
    /\ Change(Stopped({req[r].vm}), "size", req[r].number)
    /\ UNCHANGED <<vhd, cache, req, seen, want>>

SetSize(r) ==
    /\ Goto(r, "SetSize",
            IF seen[r].running THEN "StartAgain"
            ELSE Outcome(Stopped({req[r].vm}) # {}))
    /\ Change(Stopped({req[r].vm}), "size", req[r].number)
    /\ UNCHANGED <<vhd, cache, req, seen, want>>

StartAgain(r) ==
    /\ Goto(r, "StartAgain", Outcome(Found(req[r].vm)))
    /\ Change({req[r].vm}, "state", "RUNNING")
    /\ Forget(r)
    /\ UNCHANGED <<vhd, cache, req, want>>

\* There is not memory enough for the new size.
StartAgainFails(r) ==
    /\ Goto(r, "StartAgain", "failed")
    /\ Forget(r)
    /\ UNCHANGED <<host, req, want>>

ResizeVM(r) ==
    \/ FindRunning(r) \/ Halt(r) \/ HaltFails(r) \/ SetSize(r)
    \/ StartAgain(r) \/ StartAgainFails(r)

-----------------------------------------------------------------------------
(* CloneVM.                                                                 *)

\* The two throws.
CheckThrows(r) ==
    /\ ~Found(req[r].vm) \/ Named(req[r].name) # {}
    /\ Goto(r, "Check", "failed")
    /\ UNCHANGED <<host, req, seen, want>>

\* Mutant: a name that is taken will do.
CheckSourceOnly(r) ==
    LET id == req[r].vm
    IN /\ Found(id)
       /\ Goto(r, "Check", "CopyItem")
       /\ seen' = [seen EXCEPT ![r].disk = vms[id].disk, ![r].size = vms[id].size]
       /\ UNCHANGED <<host, req, want>>

Check(r) ==
    LET id == req[r].vm
    IN /\ Found(id) /\ Named(req[r].name) = {}
       /\ Goto(r, "Check", "CopyItem")
       /\ seen' = [seen EXCEPT ![r].disk = vms[id].disk, ![r].size = vms[id].size]
       /\ UNCHANGED <<host, req, want>>

\* Copy-Item -Force, onto whatever is there.
CopyBegins(r) ==
    /\ vhd[seen[r].disk] # NoDisk
    /\ ~InUse(seen[r].disk) /\ ~InUse(req[r].name)
    /\ Goto(r, "CopyItem", "copying")
    /\ vhd' = [vhd EXCEPT ![req[r].name] = Partial]
    /\ UNCHANGED <<vms, cache, req, seen, want>>

CopyEnds(r) ==
    /\ Goto(r, "copying", "NewVMFromDisk")
    /\ vhd' = [vhd EXCEPT ![req[r].name] = vhd[seen[r].disk]]
    /\ UNCHANGED <<vms, cache, req, seen, want>>

\* The copy is refused; or, the source's disk being gone, New-VHD makes one
\* unless there is a file.
NotCopied(r) ==
    LET gone == vhd[seen[r].disk] = NoDisk
    IN /\ gone \/ InUse(seen[r].disk) \/ InUse(req[r].name)
       /\ Goto(r, "CopyItem", "NewVMFromDisk")
       /\ vhd' = [vhd EXCEPT ![req[r].name] = IF gone /\ @ = NoDisk THEN 1 ELSE @]
       /\ UNCHANGED <<vms, cache, req, seen, want>>

\* New-VM -VHDPath: needs the file, whoever else has it; or refused, for the
\* memory or the switch.  The script goes on.
NewVMFromDisk(r) ==
    LET name == req[r].name
    IN /\ Goto(r, "NewVMFromDisk", "TuneClone")
       /\ \/ /\ vhd[name] # NoDisk /\ ~InUse(name)
             /\ Made(NewID, name)
             /\ seen' = [seen EXCEPT ![r].ids = {NewID}]
          \/ UNCHANGED <<vms, seen, want>>
       /\ UNCHANGED <<vhd, cache, req>>

\* The last command prints an identifier, if there is one, and succeeds.
TuneClone(r) ==
    /\ Goto(r, "TuneClone", IF seen[r].ids = {} THEN "nothing" ELSE "done")
    /\ Change(Stopped(seen[r].ids), "size", seen[r].size)
    /\ Forget(r)
    /\ UNCHANGED <<vhd, cache, req, want>>

CloneVM(r) ==
    \/ CheckThrows(r) \/ Check(r) \/ CopyBegins(r) \/ CopyEnds(r) \/ NotCopied(r)
    \/ NewVMFromDisk(r) \/ TuneClone(r)

-----------------------------------------------------------------------------
\* The machine restarts: the scripts are gone, machines that ran run again
\* (AutomaticStartAction StartIfRunning).
HostReboots ==
    /\ ~Quiet
    /\ pc' = [r \in Script |-> IF Active(r) THEN "cut" ELSE pc[r]]
    /\ cache' = [i \in Image |-> IF cache[i] = "part" THEN "broken" ELSE cache[i]]
    /\ seen' = [r \in Script |-> Unseen]
    /\ UNCHANGED <<vms, vhd, req, want>>

Command(r) ==
    \/ CreateVM(r) \/ CloneVM(r) \/ DeleteVM(r) \/ ResizeVM(r)
    \/ Power(r) \/ PowerFails(r) \/ ResizeVHD(r)

Next ==
    \/ \E r \in Script : RequestNew(r) \/ RequestClone(r) \/ RequestOne(r) \/ Command(r)
    \/ HostReboots

Spec == Init /\ [][Next]_vars

-----------------------------------------------------------------------------
(* The types of the host's tables and of the scripts.                       *)
HostTypeOK ==
    /\ DOMAIN vms \subseteq DOMAIN want
    /\ want \in [0 .. NewID - 1 -> {"RUNNING", "STOPPED"}]
    /\ \A id \in DOMAIN vms :
          vms[id] \in [name : Name, state : {"RUNNING", "STOPPED"}, size : Sizes,
                       disk : Name, dvd : Image \cup {NoImage}]
    /\ vhd \in [Name -> Disks \cup {NoDisk, Partial}]
    /\ cache \in [Image -> {"none", "part", "whole", "broken"}]
    /\ \A r \in Script : seen[r].disk \in Name /\ seen[r].size \in Sizes

CloneCut == \E r \in Script : pc[r] = "cut" /\ req[r].op = "CloneVM"

(* No two machines share a disk, and every machine's disk is there          *)
(* (engine.go:186, 449-462; "A VM named '%s' already exists" of line 450):  *)
(* two would ruin each other's file.  It is whole, too, unless a clone was  *)
(* cut off: a later one whose copy is refused takes what that left.         *)
DisksUnshared ==
    \A a, b \in DOMAIN vms :
        /\ vhd[vms[a].disk] # NoDisk
        /\ vhd[vms[a].disk] = Partial => CloneCut
        /\ vms[a].disk = vms[b].disk => a = b

\* A clone whose machine was not made, or any clone or deletion cut off.
LeftBy(r, f) ==
    \/ req[r].op = "CloneVM" /\ pc[r] \in {"cut", "nothing"} /\ f = req[r].name
    \/ req[r].op = "DeleteVM" /\ pc[r] = "cut" /\ f \in req[r].on

(* When no script is at work, every disk file is some machine's, or was     *)
(* left by a script that was cut off or by a clone that came to nothing:    *)
(* New-VM, refused, does not take the copied disk away again                *)
(* (engine.go:455-465).  Nothing else leaves one, neither a creation,       *)
(* whatever of it fails, nor a deletion (engine.go:250-254).                *)
NoOrphanDisks ==
    Quiet =>
        \A f \in Name : vhd[f] # NoDisk =>
            \/ \E id \in DOMAIN vms : vms[id].disk = f
            \/ \E r \in Script : LeftBy(r, f)

(* When no script is at work, a machine is in the state it was last ordered *)
(* into: one stopped for a resize runs again (engine.go:407-415), unless    *)
(* the script was cut off or failed.                                        *)
RunsAsOrdered ==
    Quiet => \A id \in DOMAIN vms :
        \/ vms[id].state = want[id]
        \/ \E r \in Script : pc[r] \in {"cut", "failed"} /\ vms[id].name \in req[r].on


-----------------------------------------------------------------------------
\* The host as an engine: a machine's disk is as large as its file, and none
\* of the sizes there are when the file is broken off.
View(id) ==
    [name |-> vms[id].name, state |-> vms[id].state, size |-> vms[id].size,
     disk |-> IF vhd[vms[id].disk] = Partial THEN 0 ELSE vhd[vms[id].disk]]

Engine == INSTANCE VMEngine WITH
    Node <- {Host},
    DemoID <- FirstID, DemoName <- FirstName, NoName <- FirstName,
    Fold <- [n \in Name |-> n],
    Fresh <- {Host},
    Snapshot <- {},
    Disks <- Disks \cup {0},
    vms <- [h \in {Host} |-> [id \in DOMAIN vms |-> View(id)]],
    checkpoints <- [h \in {Host} |-> [id \in ID |-> <<>>]]

(* Scripts side by side do to the machines what the simulated engine, under *)
(* its lock, could do (engine.go:139-480 and 546-781): machines appear with *)
(* a free name, are resized, grown, started, stopped and deleted one at a   *)
(* time, and nothing else happens to them.                                  *)
ImplementsEngine == Engine!EnginesSpec
=============================================================================
