-------------------------- MODULE HyperVHostProofs ---------------------------
(***************************************************************************)
(* What the scripts of HyperVHost do to a host, proved for any number of   *)
(* scripts, names, images and sizes.                                       *)
(***************************************************************************)
EXTENDS HyperVHost, FiniteSetTheorems, TLAPS

(* The types, whatever the scripts do to each other.                        *)

Commands(op) ==
    CASE op = "CreateVM"   -> {"NewVM", "Tune", "TestPath", "fetching", "AddDvd",
                             "AddBroken"}
      [] op = "CloneVM"    -> {"Check", "CopyItem", "copying", "NewVMFromDisk", "TuneClone"}
      [] op = "DeleteVM"   -> {"Find", "TurnOff", "Remove", "Erase"}
      [] op = "ResizeVM"   -> {"FindRunning", "Halt", "SetSize", "StartAgain"}
      [] op = "ExpandDisk" -> {"ResizeVHD"}
      [] OTHER             -> {"Power"}

\* A request asks for a size or a disk that there can be, of a machine that
\* there has been.
Asked(x) ==
    /\ x.name \in Name
    /\ x.image \in Image \cup {NoImage}
    /\ x.vm \in DOMAIN want
    /\ x.number \in IF x.op = "ExpandDisk" THEN Disks
                    ELSE IF x.op = "ResizeVM" THEN Sizes ELSE {1}

\* Machines are numbered as they are made.
Numbered == \E k \in Nat \ {0} : DOMAIN want = 0 .. k - 1 /\ NewID = k

TablesOK ==
    /\ DOMAIN vms \subseteq DOMAIN want
    /\ \A id \in DOMAIN want : want[id] \in {"RUNNING", "STOPPED"}
    /\ want = [id \in DOMAIN want |-> want[id]]
    /\ \A id \in DOMAIN vms :
          vms[id] \in [name : Name, state : {"RUNNING", "STOPPED"}, size : Sizes,
                       disk : Name, dvd : Image \cup {NoImage}]
    /\ vhd \in [Name -> Disks \cup {NoDisk, Partial}]
    /\ cache \in [Image -> {"none", "part", "whole", "broken"}]

Findings == [running : BOOLEAN, size : Sizes, disk : Name, ids : SUBSET Nat]

ScriptOK(r) ==
    /\ Asked(req[r])
    /\ pc[r] \in Over \cup Commands(req[r].op)
    /\ seen[r] \in Findings

TypeInv ==
    /\ Numbered
    /\ TablesOK
    /\ DOMAIN pc = Script /\ DOMAIN req = Script /\ DOMAIN seen = Script
    /\ \A r \in Script : ScriptOK(r)

-----------------------------------------------------------------------------
(* Scripts that keep out of each other's way.                               *)

Apart ==
    \A q, r \in Script : q # r /\ Active(q) /\ Active(r) => req[q].on \cap req[r].on = {}

\* What a script is to keep the others away from.
Covers(r) ==
    Active(r) =>
        /\ req[r].op \in {"CreateVM", "CloneVM"} => req[r].name \in req[r].on
        /\ req[r].op # "CreateVM" /\ Found(req[r].vm) =>
              vms[req[r].vm].name \in req[r].on

\* A machine's disk file has its name, and is its own.
OwnDisks ==
    /\ \A id \in DOMAIN vms : vms[id].disk = vms[id].name /\ vhd[vms[id].disk] # NoDisk
    /\ \A a, b \in DOMAIN vms : vms[a].name = vms[b].name => a = b

\* What each script has found so far is so still.
Cloning(r) ==
    pc[r] \in {"CopyItem", "copying"} =>
        Found(req[r].vm) /\ seen[r].disk = vms[req[r].vm].disk
NameKept(r) ==
    pc[r] \in {"CopyItem", "copying", "NewVMFromDisk"} => Named(req[r].name) = {}
CloneSeen(r) ==
    seen[r].ids # {} =>
        /\ pc[r] = "TuneClone"
        /\ \E id \in DOMAIN want :
              seen[r].ids = {id} /\ (Found(id) => vms[id].name \in req[r].on)
Deleting(r) ==
    /\ pc[r] \in {"TurnOff", "Remove"} =>
          Found(req[r].vm) /\ seen[r].disk = vms[req[r].vm].disk
    /\ pc[r] = "Remove" => vms[req[r].vm].state = "STOPPED"
    /\ pc[r] = "Erase" => seen[r].disk \in req[r].on /\ Named(seen[r].disk) = {}

Blamed(id) ==
    \E r \in Script : pc[r] \in {"cut", "failed"} /\ vms[id].name \in req[r].on

Resizing(r) ==
    /\ pc[r] = "Halt" => seen[r].running
    /\ pc[r] \in {"Halt", "SetSize", "StartAgain"} /\ seen[r].running =>
          /\ Found(req[r].vm)
          /\ want[req[r].vm] = "RUNNING" \/ Blamed(req[r].vm)
    /\ pc[r] = "StartAgain" => seen[r].running

KeepsTo(r) ==
    Covers(r) /\ Cloning(r) /\ NameKept(r) /\ CloneSeen(r) /\ Deleting(r) /\ Resizing(r)

\* A broken off file is a copy under way, or what a clone that was cut left.
PartialCopies ==
    \A f \in Name : vhd[f] = Partial =>
        CloneCut \/ \E r \in Script : pc[r] = "copying" /\ f = req[r].name

\* A file that is no machine's is about to be erased, or to become one's, or
\* no machine could be made of it, or a script that was cut off left it.
AboutTo(r, f) ==
    \/ pc[r] = "Erase" /\ f = seen[r].disk
    \/ pc[r] \in {"copying", "NewVMFromDisk"} /\ f = req[r].name
    \/ pc[r] = "TuneClone" /\ seen[r].ids = {} /\ f = req[r].name

FileDue(f) ==
    \/ \E id \in DOMAIN vms : vms[id].disk = f
    \/ \E r \in Script : AboutTo(r, f) \/ LeftBy(r, f)

FilesDue == \A f \in Name : vhd[f] # NoDisk => FileDue(f)

\* A machine that is not in the state it was ordered into is being resized
\* or deleted.
StateDue(id) ==
    \/ vms[id].state = want[id]
    \/ Blamed(id)
    \/ \E r \in Script :
          /\ req[r].vm = id
          /\ \/ pc[r] \in {"SetSize", "StartAgain"} /\ seen[r].running
             \/ pc[r] = "Remove"

StatesDue == \A id \in DOMAIN vms : StateDue(id)

\* No request makes more than one machine.
Spent(r) == pc[r] \notin {"idle", "NewVM", "Check", "CopyItem", "copying", "NewVMFromDisk"}
OneEach == NewID <= 1 + Cardinality({r \in Script : Spent(r)})

HostInv ==
    /\ TypeInv
    /\ Apart /\ OwnDisks /\ PartialCopies /\ FilesDue /\ StatesDue /\ OneEach
    /\ \A r \in Script : KeepsTo(r)

-----------------------------------------------------------------------------
(* A command moves its own script and no other.                             *)

Ended == {"done", "failed", "nothing", "spoiled"}

Moves(r) ==
    /\ req' = req
    /\ DOMAIN pc' = Script /\ DOMAIN seen' = Script
    /\ pc'[r] \in Ended \cup Commands(req[r].op)
    /\ seen'[r] \in Findings
    /\ \A q \in Script \ {r} : pc'[q] = pc[q] /\ seen'[q] = seen[q]

LEMMA UnseenFits == Unseen \in Findings
BY HostAssumption DEF Unseen, Findings

LEMMA CreateMoves ==
    ASSUME TypeInv, NEW r \in Script, CreateVM(r), req[r].op = "CreateVM" PROVE Moves(r)
BY DEF CreateVM, NewVM, Tune, TestPath, Unfetched, Fetched, FetchFails, AddDvd, Goto, Outcome,
       Moves, Ended, TypeInv, ScriptOK, Commands, host

LEMMA PowerMoves ==
    ASSUME TypeInv, NEW r \in Script, Power(r) \/ PowerFails(r) \/ ResizeVHD(r)
    PROVE  Moves(r)
BY DEF Power, PowerFails, ResizeVHD, Goto, Outcome, Moves, Ended, TypeInv, ScriptOK, host

LEMMA DeleteMoves ==
    ASSUME TypeInv, NEW r \in Script, DeleteVM(r), req[r].op = "DeleteVM" PROVE Moves(r)
<1>1. CASE Find(r)
  <2>1. Found(req[r].vm) => vms[req[r].vm].disk \in Name
    BY DEF Found, TypeInv, TablesOK
  <2>2. seen[r] \in Findings
    BY DEF TypeInv, ScriptOK
  <2>3. seen'[r] \in Findings
    BY <1>1, <2>1, <2>2 DEF Find, Findings, TypeInv
  <2>4. DOMAIN seen' = Script /\ \A q \in Script \ {r} : seen'[q] = seen[q]
    BY <1>1 DEF Find, TypeInv
  <2>5. pc' = [pc EXCEPT ![r] = pc'[r]] /\ pc'[r] \in {"TurnOff", "done"} /\ req' = req
    BY <1>1 DEF Find, Goto, TypeInv
  <2>6. QED
    BY <2>3, <2>4, <2>5 DEF Moves, Ended, TypeInv, Commands
<1>2. CASE TurnOff(r) \/ Remove(r)
  BY <1>2 DEF TurnOff, Remove, Goto, Moves, Ended, TypeInv, ScriptOK, Commands
<1>3. CASE Erase(r)
  BY <1>3, UnseenFits DEF Erase, Forget, Goto, Outcome, Moves, Ended, TypeInv, ScriptOK
<1>4. QED
  BY <1>1, <1>2, <1>3 DEF DeleteVM

LEMMA ResizeMoves ==
    ASSUME TypeInv, NEW r \in Script, ResizeVM(r), req[r].op = "ResizeVM" PROVE Moves(r)
<1>1. CASE FindRunning(r)
  <2>1. PICK b \in BOOLEAN : b = (vms[req[r].vm].state = "RUNNING")
    OBVIOUS
  <2>2. seen' \in {seen, [seen EXCEPT ![r].running = b]}
    BY <1>1, <2>1 DEF FindRunning
  <2>3. /\ seen'[r] \in Findings /\ DOMAIN seen' = Script
        /\ \A q \in Script \ {r} : seen'[q] = seen[q]
    BY <2>2 DEF Findings, TypeInv, ScriptOK
  <2>4. pc' = [pc EXCEPT ![r] = pc'[r]] /\ pc'[r] \in {"failed", "Halt", "SetSize"} /\ req' = req
    BY <1>1 DEF FindRunning, Goto, TypeInv
  <2>5. QED
    BY <2>3, <2>4 DEF Moves, Ended, TypeInv, Commands
<1>2. CASE Halt(r) \/ HaltFails(r) \/ SetSize(r)
  BY <1>2 DEF Halt, HaltFails, SetSize, Goto, Outcome, Moves, Ended, TypeInv, ScriptOK, Commands,
              host
<1>3. CASE StartAgain(r) \/ StartAgainFails(r)
  BY <1>3, UnseenFits DEF StartAgain, StartAgainFails, Forget, Goto, Outcome, Moves, Ended,
                          TypeInv, ScriptOK, host
<1>4. QED
  BY <1>1, <1>2, <1>3 DEF ResizeVM

LEMMA CloneMoves ==
    ASSUME TypeInv, NEW r \in Script, CloneVM(r), req[r].op = "CloneVM" PROVE Moves(r)
<1>1. CASE CheckThrows(r) \/ CopyBegins(r) \/ CopyEnds(r) \/ NotCopied(r)
  BY <1>1 DEF CheckThrows, CopyBegins, CopyEnds, NotCopied, Goto, Moves, Ended, TypeInv, ScriptOK,
              Commands, host
<1>2. CASE Check(r)
  <2>1. vms[req[r].vm].disk \in Name /\ vms[req[r].vm].size \in Sizes
    BY <1>2 DEF Check, Found, TypeInv, TablesOK
  <2>2. seen[r] \in Findings
    BY DEF TypeInv, ScriptOK
  <2>3. seen'[r] \in Findings
    BY <1>2, <2>1, <2>2 DEF Check, Findings, TypeInv
  <2>4. QED
    BY <1>2, <2>3 DEF Check, Goto, Moves, Ended, TypeInv, Commands, host
<1>3. CASE NewVMFromDisk(r)
  BY <1>3 DEF NewVMFromDisk, Goto, Moves, Ended, TypeInv, Numbered, ScriptOK, Findings, Commands
<1>4. CASE TuneClone(r)
  BY <1>4, UnseenFits DEF TuneClone, Forget, Goto, Moves, Ended, TypeInv, ScriptOK
<1>5. QED
  BY <1>1, <1>2, <1>3, <1>4 DEF CloneVM

\* Each command is of the operation it is written for.
LEMMA OwnCommand ==
    ASSUME TypeInv, NEW r \in Script, Command(r)
    PROVE  /\ Active(r)
           /\ CreateVM(r) => req[r].op = "CreateVM"
           /\ CloneVM(r) => req[r].op = "CloneVM"
           /\ DeleteVM(r) => req[r].op = "DeleteVM"
           /\ ResizeVM(r) => req[r].op = "ResizeVM"
           /\ ResizeVHD(r) => req[r].op = "ExpandDisk"
           /\ Power(r) => req[r].op \notin {"CreateVM", "CloneVM", "DeleteVM", "ResizeVM",
                                            "ExpandDisk"}
<1>1. pc[r] \in Over \cup Commands(req[r].op)
  BY DEF TypeInv, ScriptOK
<1>2. CreateVM(r) => pc[r] \in Commands("CreateVM")
  BY DEF CreateVM, NewVM, Tune, TestPath, Unfetched, Fetched, FetchFails, AddDvd, Goto, Commands
<1>3. CloneVM(r) => pc[r] \in Commands("CloneVM")
  BY DEF CloneVM, CheckThrows, Check, CopyBegins, CopyEnds, NotCopied, NewVMFromDisk,
         TuneClone, Goto, Commands
<1>4. DeleteVM(r) => pc[r] \in Commands("DeleteVM")
  BY DEF DeleteVM, Find, TurnOff, Remove, Erase, Goto, Commands
<1>5. ResizeVM(r) => pc[r] \in Commands("ResizeVM")
  BY DEF ResizeVM, FindRunning, Halt, HaltFails, SetSize, StartAgain, StartAgainFails,
         Goto, Commands
<1>6. ResizeVHD(r) => pc[r] = "ResizeVHD"
  BY DEF ResizeVHD, Goto
<1>7. Power(r) \/ PowerFails(r) => pc[r] = "Power"
  BY DEF Power, PowerFails, Goto
<1>8. QED
  BY <1>1, <1>2, <1>3, <1>4, <1>5, <1>6, <1>7 DEF Command, Commands, Over, Active

LEMMA CommandMoves ==
    ASSUME TypeInv, NEW r \in Script, Command(r) PROVE Moves(r) /\ Active(r)
BY OwnCommand, CreateMoves, CloneMoves, DeleteMoves, ResizeMoves, PowerMoves DEF Command

-----------------------------------------------------------------------------
(* The tables keep their types.                                             *)

LEMMA ChangeFits ==
    ASSUME TablesOK, NEW ids, NEW field, NEW value, Change(ids, field, value),
           \/ field = "state" /\ value \in {"RUNNING", "STOPPED"}
           \/ field = "size" /\ value \in Sizes
           \/ field = "dvd" /\ value \in Image \cup {NoImage}
    PROVE  /\ DOMAIN vms' = DOMAIN vms
           /\ \A id \in DOMAIN vms :
                 /\ id \notin ids => vms'[id] = vms[id]
                 /\ vms'[id].name = vms[id].name /\ vms'[id].disk = vms[id].disk
                 /\ field # "state" => vms'[id].state = vms[id].state
                 /\ vms'[id] \in [name : Name, state : {"RUNNING", "STOPPED"}, size : Sizes,
                                  disk : Name, dvd : Image \cup {NoImage}]
BY DEF TablesOK, Change

LEMMA NumberedUp ==
    ASSUME Numbered
    PROVE  /\ NewID \in Nat \ {0} /\ DOMAIN want = 0 .. NewID - 1
           /\ NewID \notin DOMAIN want
BY DEF Numbered

LEMMA NumberedNext ==
    ASSUME Numbered, NEW name, Made(NewID, name)
    PROVE  /\ Numbered' /\ NewID' = NewID + 1
           /\ DOMAIN want' = DOMAIN want \cup {NewID}
<1>1. NewID \in Nat /\ DOMAIN want = 0 .. NewID - 1
  BY NumberedUp
<1>2. DOMAIN want' = 0 .. (NewID + 1) - 1 /\ DOMAIN want' = DOMAIN want \cup {NewID}
  BY <1>1 DEF Made, With
<1>3. NewID' = NewID + 1
  <2>1. Cardinality(0 .. (NewID + 1) - 1) = NewID + 1
    BY <1>1, FS_Interval
  <2>2. QED
    BY <1>2, <2>1 DEF NewID
<1>4. QED
  BY <1>1, <1>2, <1>3 DEF Numbered

LEMMA MadeFits ==
    ASSUME TypeInv, NEW name \in Name, Made(NewID, name)
    PROVE  /\ DOMAIN vms' \subseteq DOMAIN want'
           /\ \A id \in DOMAIN want' : want'[id] \in {"RUNNING", "STOPPED"}
           /\ want' = [id \in DOMAIN want' |-> want'[id]]
           /\ \A id \in DOMAIN vms' :
                 vms'[id] \in [name : Name, state : {"RUNNING", "STOPPED"}, size : Sizes,
                               disk : Name, dvd : Image \cup {NoImage}]
BY HostAssumption DEF TypeInv, TablesOK, Made, With

TypesMove ==
    Numbered' /\ TablesOK' /\ DOMAIN want \subseteq DOMAIN want'

\* A command that leaves the machines as they are.
LEMMA StillFits ==
    ASSUME TypeInv, UNCHANGED <<vms, want>>,
           vhd' \in [Name -> Disks \cup {NoDisk, Partial}],
           cache' \in [Image -> {"none", "part", "whole", "broken"}]
    PROVE  TypesMove
BY DEF TypeInv, Numbered, NewID, TablesOK, TypesMove

LEMMA ChangeTypes ==
    ASSUME TypeInv, UNCHANGED <<vhd, cache, want>>,
           NEW ids, NEW field, NEW value, Change(ids, field, value),
           \/ field = "state" /\ value \in {"RUNNING", "STOPPED"}
           \/ field = "size" /\ value \in Sizes
           \/ field = "dvd" /\ value \in Image \cup {NoImage}
    PROVE  TypesMove
<1>1. TablesOK
  BY DEF TypeInv
<1>2. /\ DOMAIN vms' = DOMAIN vms
      /\ \A id \in DOMAIN vms :
            vms'[id] \in [name : Name, state : {"RUNNING", "STOPPED"}, size : Sizes,
                          disk : Name, dvd : Image \cup {NoImage}]
  BY <1>1, ChangeFits
<1>3. QED
  BY <1>1, <1>2 DEF TypeInv, Numbered, NewID, TablesOK, TypesMove

LEMMA MadeTypes ==
    ASSUME TypeInv, NEW name \in Name, Made(NewID, name), UNCHANGED cache,
           vhd' \in [Name -> Disks \cup {NoDisk, Partial}]
    PROVE  TypesMove
<1>1. Numbered
  BY DEF TypeInv
<1>2. QED
  BY <1>1, NumberedNext, MadeFits DEF TypeInv, TablesOK, TypesMove

LEMMA CreateTypes ==
    ASSUME TypeInv, NEW r \in Script, CreateVM(r), req[r].op = "CreateVM"
    PROVE  TypesMove
<1>1. /\ req[r].name \in Name /\ req[r].number = 1 /\ req[r].image \in Image \cup {NoImage}
      /\ vhd \in [Name -> Disks \cup {NoDisk, Partial}]
      /\ cache \in [Image -> {"none", "part", "whole", "broken"}]
  BY DEF TypeInv, ScriptOK, Asked, TablesOK
<1>2. CASE NewVM(r)
  <2>1. CASE ~UNCHANGED <<vms, vhd, want>>
    BY <1>1, <1>2, <2>1, MadeTypes, HostAssumption DEF NewVM
  <2>2. CASE UNCHANGED <<vms, vhd, want>>
    BY <1>1, <1>2, <2>2, StillFits DEF NewVM
  <2>3. QED
    BY <2>1, <2>2
<1>3. CASE Tune(r)
  BY <1>1, <1>3, ChangeTypes, HostAssumption DEF Tune
<1>4. CASE TestPath(r) \/ Unfetched(r) \/ Fetched(r) \/ FetchFails(r)
  <2>1. cache' \in [Image -> {"none", "part", "whole", "broken"}]
    BY <1>1, <1>4 DEF TestPath, Unfetched, Fetched, FetchFails, host
  <2>2. QED
    BY <1>1, <1>4, <2>1, StillFits DEF TestPath, Unfetched, Fetched, FetchFails, host
<1>5. CASE AddDvd(r)
  BY <1>1, <1>5, ChangeTypes DEF AddDvd
<1>6. QED
  BY <1>2, <1>3, <1>4, <1>5 DEF CreateVM

LEMMA PowerTypes ==
    ASSUME TypeInv, NEW r \in Script, Power(r) \/ PowerFails(r) PROVE TypesMove
<1>1. CASE PowerFails(r)
  BY <1>1, StillFits DEF PowerFails, host, TypeInv, TablesOK
<1>2. CASE Power(r)
  <2> DEFINE to == IF req[r].op = "StopVM" THEN "STOPPED" ELSE "RUNNING"
  <2>1. Change({req[r].vm}, "state", to) /\ to \in {"RUNNING", "STOPPED"}
    BY <1>2 DEF Power
  <2>2. want' = [want EXCEPT ![req[r].vm] = to] /\ UNCHANGED <<vhd, cache>>
    BY <1>2 DEF Power
  <2> HIDE DEF to
  <2>3. /\ DOMAIN vms' = DOMAIN vms
        /\ \A id \in DOMAIN vms :
              vms'[id] \in [name : Name, state : {"RUNNING", "STOPPED"}, size : Sizes,
                            disk : Name, dvd : Image \cup {NoImage}]
    BY <2>1, ChangeFits DEF TypeInv
  <2>4. DOMAIN want' = DOMAIN want /\ \A id \in DOMAIN want : want'[id] \in {want[id], to}
    BY <2>2
  <2>5. want' = [id \in DOMAIN want' |-> want'[id]]
    BY <2>2 DEF TypeInv, TablesOK
  <2>6. Numbered'
    BY <2>4 DEF TypeInv, Numbered, NewID
  <2>7. QED
    BY <2>1, <2>2, <2>3, <2>4, <2>5, <2>6 DEF TypeInv, TablesOK, TypesMove
<1>3. QED
  BY <1>1, <1>2

LEMMA ResizeVHDTypes ==
    ASSUME TypeInv, NEW r \in Script, ResizeVHD(r), req[r].op = "ExpandDisk"
    PROVE  TypesMove
<1>1. req[r].number \in Disks /\ vhd \in [Name -> Disks \cup {NoDisk, Partial}]
  BY DEF TypeInv, ScriptOK, Asked, TablesOK
<1>2. vhd' \in [Name -> Disks \cup {NoDisk, Partial}]
  BY <1>1 DEF ResizeVHD
<1>3. QED
  BY <1>2, StillFits DEF ResizeVHD, TypeInv, TablesOK

LEMMA DeleteTypes ==
    ASSUME TypeInv, NEW r \in Script, DeleteVM(r) PROVE TypesMove
<1>1. CASE Find(r)
  BY <1>1, StillFits DEF Find, host, TypeInv, TablesOK
<1>2. CASE TurnOff(r)
  BY <1>2, ChangeTypes DEF TurnOff
<1>3. CASE Remove(r)
  BY <1>3 DEF Remove, TypeInv, TablesOK, Numbered, NewID, TypesMove
<1>4. CASE Erase(r)
  <2>1. vhd' \in [Name -> Disks \cup {NoDisk, Partial}]
    BY <1>4 DEF Erase, TypeInv, TablesOK
  <2>2. QED
    BY <1>4, <2>1, StillFits DEF Erase, TypeInv, TablesOK
<1>5. QED
  BY <1>1, <1>2, <1>3, <1>4 DEF DeleteVM

LEMMA ResizeTypes ==
    ASSUME TypeInv, NEW r \in Script, ResizeVM(r), req[r].op = "ResizeVM"
    PROVE  TypesMove
<1>1. CASE FindRunning(r) \/ HaltFails(r) \/ StartAgainFails(r)
  BY <1>1, StillFits DEF FindRunning, HaltFails, StartAgainFails, host, TypeInv, TablesOK
<1>2. CASE Halt(r) \/ StartAgain(r)
  BY <1>2, ChangeTypes DEF Halt, StartAgain
<1>3. CASE SetSize(r)
  <2>1. req[r].number \in Sizes
    BY DEF TypeInv, ScriptOK, Asked
  <2>2. QED
    BY <1>3, <2>1, ChangeTypes DEF SetSize
<1>4. QED
  BY <1>1, <1>2, <1>3 DEF ResizeVM

LEMMA CloneTypes ==
    ASSUME TypeInv, NEW r \in Script, CloneVM(r) PROVE TypesMove
<1>1. /\ req[r].name \in Name /\ seen[r].disk \in Name /\ seen[r].size \in Sizes
      /\ vhd \in [Name -> Disks \cup {NoDisk, Partial}]
  BY DEF TypeInv, ScriptOK, Asked, Findings, TablesOK
<1>2. CASE CheckThrows(r) \/ Check(r)
  BY <1>2, StillFits DEF CheckThrows, Check, host, TypeInv, TablesOK
<1>3. CASE CopyBegins(r) \/ CopyEnds(r) \/ NotCopied(r)
  <2>1. vhd' \in [Name -> Disks \cup {NoDisk, Partial}]
    BY <1>1, <1>3, HostAssumption DEF CopyBegins, CopyEnds, NotCopied
  <2>2. QED
    BY <1>3, <2>1, StillFits DEF CopyBegins, CopyEnds, NotCopied, TypeInv, TablesOK
<1>4. CASE NewVMFromDisk(r)
  <2>1. CASE ~UNCHANGED <<vms, seen, want>>
    BY <1>1, <1>4, <2>1, MadeTypes DEF NewVMFromDisk
  <2>2. CASE UNCHANGED <<vms, seen, want>>
    BY <1>1, <1>4, <2>2, StillFits DEF NewVMFromDisk, TypeInv, TablesOK
  <2>3. QED
    BY <2>1, <2>2
<1>5. CASE TuneClone(r)
  BY <1>1, <1>5, ChangeTypes DEF TuneClone
<1>6. QED
  BY <1>2, <1>3, <1>4, <1>5 DEF CloneVM

LEMMA CommandTypes ==
    ASSUME TypeInv, NEW r \in Script, Command(r) PROVE TypeInv'
<1>1. TypesMove
  BY OwnCommand, CreateTypes, CloneTypes, DeleteTypes, ResizeTypes, PowerTypes,
     ResizeVHDTypes DEF Command
<1>2. Moves(r)
  BY CommandMoves
<1>3. \A q \in Script : ScriptOK(q)'
  BY <1>1, <1>2 DEF Moves, TypesMove, TypeInv, ScriptOK, Asked, Over, Ended
<1>4. QED
  BY <1>1, <1>2, <1>3 DEF Moves, TypesMove, TypeInv

\* What a request asks, and what it is to keep the others away from.
Puts(x) ==
    /\ Asked(x)
    /\ x.op \in {"CreateVM", "CloneVM"} => x.name \in x.on
    /\ x.op # "CreateVM" /\ Found(x.vm) => vms[x.vm].name \in x.on

LEMMA RequestsPut ==
    ASSUME TypeInv, NEW r, RequestNew(r) \/ RequestClone(r) \/ RequestOne(r)
    PROVE  \E x : Accept(r, x) /\ Puts(x)
<1>1. CASE RequestNew(r)
  <2>1. PICK name \in Name, image \in Image \cup {NoImage} :
           Accept(r, Request("CreateVM", FirstID, name, 1, image, {name}))
    BY <1>1 DEF RequestNew
  <2>2. Puts(Request("CreateVM", FirstID, name, 1, image, {name}))
    BY DEF Puts, Asked, Request, TypeInv, Numbered, FirstID
  <2>3. QED
    BY <2>1, <2>2
<1>2. CASE RequestClone(r)
  <2>1. PICK name \in Name, id \in DOMAIN want :
           Accept(r, Request("CloneVM", id, name, 1, NoImage, {name} \cup NameOf(id)))
    BY <1>2 DEF RequestClone
  <2>2. Puts(Request("CloneVM", id, name, 1, NoImage, {name} \cup NameOf(id)))
    BY DEF Puts, Asked, Request, NameOf
  <2>3. QED
    BY <2>1, <2>2
<1>3. ASSUME NEW id \in DOMAIN want, NEW op, NEW number,
             Accept(r, Request(op, id, FirstName, number, NoImage, NameOf(id))),
             \/ op \in {"StartVM", "StopVM", "RestartVM", "DeleteVM"} /\ number = 1
             \/ op = "ResizeVM" /\ number \in Sizes
             \/ op = "ExpandDisk" /\ number \in Disks
      PROVE  \E x : Accept(r, x) /\ Puts(x)
  <2>1. Puts(Request(op, id, FirstName, number, NoImage, NameOf(id)))
    BY <1>3, HostAssumption DEF Puts, Asked, Request, NameOf
  <2>2. QED
    BY <1>3, <2>1
<1>4. QED
  BY <1>1, <1>2, <1>3 DEF RequestOne

LEMMA AcceptTypes ==
    ASSUME TypeInv, NEW r \in Script, NEW x, Accept(r, x), Puts(x) PROVE TypeInv'
<1>1. /\ UNCHANGED <<vms, vhd, cache, seen, want>>
      /\ req' = [req EXCEPT ![r] = x] /\ pc' = [pc EXCEPT ![r] = FirstCommand(x.op)]
  BY DEF Accept, Goto, host
<1>2. Numbered' /\ TablesOK'
  BY <1>1 DEF TypeInv, Numbered, NewID, TablesOK
<1>3. FirstCommand(x.op) \in Commands(x.op)
  BY DEF FirstCommand, Commands
<1>4. \A q \in Script : ScriptOK(q)'
  BY <1>1, <1>3 DEF TypeInv, ScriptOK, Asked, Puts
<1>5. QED
  BY <1>1, <1>2, <1>4 DEF TypeInv

LEMMA RebootTypes ==
    ASSUME TypeInv, HostReboots PROVE TypeInv'
<1>1. TypesMove
  BY StillFits DEF HostReboots, TypeInv, TablesOK
<1>2. \A q \in Script : ScriptOK(q)'
  BY UnseenFits DEF HostReboots, TypeInv, ScriptOK, Asked, Over
<1>3. QED
  BY <1>1, <1>2 DEF TypesMove, TypeInv, HostReboots

LEMMA InitTypes == Init => TypeInv
<1> SUFFICES ASSUME Init PROVE TypeInv
  OBVIOUS
<1>1. Numbered
  <2>1. DOMAIN want = {0} /\ {0} = 0 .. 1 - 1
    BY DEF Init, FirstID
  <2>2. Cardinality({0}) = 1
    BY FS_Singleton
  <2>3. QED
    BY <2>1, <2>2 DEF Numbered, NewID
<1>2. TablesOK
  BY HostAssumption DEF Init, TablesOK
<1>3. \A r \in Script : ScriptOK(r)
  BY UnseenFits, HostAssumption DEF Init, ScriptOK, Asked, Request, Over
<1>4. QED
  BY <1>1, <1>2, <1>3 DEF TypeInv, Init

LEMMA TypeStep ==
    ASSUME TypeInv, [Next]_vars PROVE TypeInv'
<1>1. CASE UNCHANGED vars
  BY <1>1 DEF vars, host, TypeInv, Numbered, NewID, TablesOK, ScriptOK, Asked
<1>2. ASSUME NEW r \in Script, RequestNew(r) \/ RequestClone(r) \/ RequestOne(r)
      PROVE  TypeInv'
  BY <1>2, RequestsPut, AcceptTypes
<1>3. QED
  BY <1>1, <1>2, CommandTypes, RebootTypes DEF Next

(* The host's tables and what its scripts have read keep their types,       *)
(* however many scripts run and whatever they do to each other's machines   *)
(* (engine.go:139-480).                                                     *)
THEOREM HostTypes == Spec => []HostTypeOK
<1>1. TypeInv => HostTypeOK
  <2> SUFFICES ASSUME TypeInv PROVE HostTypeOK
    OBVIOUS
  <2>1. want \in [0 .. NewID - 1 -> {"RUNNING", "STOPPED"}]
    BY NumberedUp DEF TypeInv, TablesOK
  <2>2. QED
    BY <2>1 DEF TypeInv, TablesOK, ScriptOK, Findings, HostTypeOK
<1>2. QED
  BY InitTypes, TypeStep, <1>1, PTL DEF Spec

-----------------------------------------------------------------------------
(* What a script does stays within the machines and names it is on.         *)

Confined(r) ==
    /\ DOMAIN want \subseteq DOMAIN want'
    /\ \A id \in DOMAIN vms : vms[id].name \notin req[r].on =>
          id \in DOMAIN vms' /\ vms'[id] = vms[id] /\ want'[id] = want[id]
    /\ \A id \in DOMAIN vms' \cap DOMAIN vms :
          vms'[id].name = vms[id].name /\ vms'[id].disk = vms[id].disk
    /\ \A id \in DOMAIN vms' \ DOMAIN vms :
          /\ id = NewID /\ id \notin DOMAIN want
          /\ Named(req[r].name) = {} /\ req[r].name \in req[r].on
          /\ vms'[id].name = req[r].name /\ vms'[id].disk = req[r].name
          /\ vms'[id].state = want'[id]
    /\ \A f \in Name : f \notin req[r].on => vhd'[f] = vhd[f]
    /\ \A id \in DOMAIN vms' : vhd'[vms'[id].disk] # NoDisk

\* The files a script is on.
FilesInOrder(r) ==
    \A f \in Name \cap req[r].on :
        /\ vhd'[f] # NoDisk => FileDue(f)'
        /\ vhd'[f] = Partial =>
              CloneCut \/ \E q \in Script : pc'[q] = "copying" /\ f = req[q].name

MakesOne(r) ==
    \/ DOMAIN want' = DOMAIN want /\ (Spent(r) => Spent(r)')
    \/ NewID' = NewID + 1 /\ ~Spent(r) /\ Spent(r)'

Tidy(r) == Confined(r) /\ FilesInOrder(r) /\ MakesOne(r)

\* Most commands leave the files and the set of machines as they are.
Kept(r) ==
    /\ DOMAIN vms' = DOMAIN vms /\ DOMAIN want' = DOMAIN want /\ vhd' = vhd
    /\ \A id \in DOMAIN vms :
          /\ vms'[id].name = vms[id].name /\ vms'[id].disk = vms[id].disk
          /\ vms[id].name \notin req[r].on => vms'[id] = vms[id] /\ want'[id] = want[id]

LEMMA CutStays ==
    ASSUME NEW r \in Script, Active(r), Moves(r)
    PROVE  CloneCut => CloneCut'
BY DEF CloneCut, Moves, Active, Over

\* A file that was due stays so unless its machine goes or its script is done
\* with it.
LEMMA FileStaysDue ==
    ASSUME NEW r \in Script, Active(r), Moves(r), NEW f, FileDue(f),
           \A id \in DOMAIN vms : vms[id].disk = f =>
              (id \in DOMAIN vms' /\ vms'[id].disk = f) \/ FileDue(f)',
           AboutTo(r, f) => FileDue(f)'
    PROVE  FileDue(f)'
<1>1. CASE \E id \in DOMAIN vms : vms[id].disk = f
  BY <1>1 DEF FileDue
<1>2. ASSUME NEW q \in Script \ {r}, AboutTo(q, f) \/ LeftBy(q, f) PROVE FileDue(f)'
  <2>1. pc'[q] = pc[q] /\ seen'[q] = seen[q] /\ req' = req
    BY DEF Moves
  <2>2. AboutTo(q, f)' \/ LeftBy(q, f)'
    BY <1>2, <2>1 DEF AboutTo, LeftBy
  <2>3. QED
    BY <2>2 DEF FileDue
<1>3. ~LeftBy(r, f)
  BY DEF LeftBy, Active, Over
<1>4. QED
  BY <1>1, <1>2, <1>3 DEF FileDue

LEMMA KeptTidy ==
    ASSUME HostInv, NEW r \in Script, Active(r), Moves(r), Kept(r), Spent(r) => Spent(r)',
           pc[r] \notin {"Erase", "copying", "NewVMFromDisk"},
           pc[r] = "TuneClone" /\ seen[r].ids = {} => pc'[r] = "nothing"
    PROVE  Tidy(r)
<1>1. Confined(r)
  BY DEF Confined, Kept, HostInv, OwnDisks
<1>2. MakesOne(r)
  BY DEF MakesOne, Kept
<1>3. ASSUME NEW f \in Name PROVE vhd'[f] # NoDisk => FileDue(f)'
  <2>1. vhd'[f] # NoDisk => FileDue(f)
    BY DEF HostInv, FilesDue, Kept
  <2>2. AboutTo(r, f) => LeftBy(r, f)'
    BY DEF AboutTo, LeftBy, Moves, HostInv, TypeInv, ScriptOK, Commands, Over
  <2>3. QED
    BY <2>1, <2>2, FileStaysDue DEF Kept, FileDue
<1>4. ASSUME NEW f \in Name, vhd'[f] = Partial
      PROVE  CloneCut \/ \E q \in Script : pc'[q] = "copying" /\ f = req[q].name
  BY <1>4 DEF HostInv, PartialCopies, Kept, Moves
<1>5. QED
  BY <1>1, <1>2, <1>3, <1>4 DEF Tidy, FilesInOrder

LEMMA StillKept ==
    ASSUME UNCHANGED <<vms, vhd, want>>, NEW r PROVE Kept(r)
BY DEF Kept

LEMMA ChangeKept ==
    ASSUME TypeInv, NEW r, NEW ids, NEW field, NEW value, Change(ids, field, value),
           \/ field = "state" /\ value \in {"RUNNING", "STOPPED"}
           \/ field = "size" /\ value \in Sizes
           \/ field = "dvd" /\ value \in Image \cup {NoImage},
           \A id \in ids \cap DOMAIN vms : vms[id].name \in req[r].on,
           UNCHANGED <<vhd, want>>
    PROVE  Kept(r)
BY ChangeFits DEF TypeInv, Kept

LEMMA CreateKept ==
    ASSUME HostInv, NEW r \in Script, req[r].op = "CreateVM", Active(r),
           Tune(r) \/ TestPath(r) \/ Unfetched(r) \/ Fetched(r) \/ FetchFails(r) \/ AddDvd(r)
    PROVE  Kept(r)
<1>1. TypeInv /\ req[r].name \in req[r].on /\ req[r].image \in Image \cup {NoImage}
  BY DEF HostInv, KeepsTo, Covers, TypeInv, ScriptOK, Asked
<1>2. CASE Tune(r)
  BY <1>1, <1>2, ChangeKept, HostAssumption DEF Tune, Named, Stopped
<1>3. CASE TestPath(r) \/ Unfetched(r) \/ Fetched(r) \/ FetchFails(r)
  BY <1>3, StillKept DEF TestPath, Unfetched, Fetched, FetchFails, host
<1>4. CASE AddDvd(r)
  BY <1>1, <1>4, ChangeKept DEF AddDvd, Named, Stopped
<1>5. QED
  BY <1>2, <1>3, <1>4

\* The machine asked about is one the script is on.
LEMMA OnItsMachine ==
    ASSUME HostInv, NEW r \in Script, Active(r), req[r].op # "CreateVM"
    PROVE  /\ TypeInv
           /\ \A id \in {req[r].vm} \cap DOMAIN vms : vms[id].name \in req[r].on
BY DEF HostInv, KeepsTo, Covers, Found

LEMMA PowerKept ==
    ASSUME HostInv, NEW r \in Script, req[r].op # "CreateVM", Active(r),
           Power(r) \/ PowerFails(r)
    PROVE  Kept(r)
<1>1. CASE PowerFails(r)
  BY <1>1, StillKept DEF PowerFails, host
<1>2. CASE Power(r)
  <2> DEFINE to == IF req[r].op = "StopVM" THEN "STOPPED" ELSE "RUNNING"
  <2>1. Change({req[r].vm}, "state", to) /\ to \in {"RUNNING", "STOPPED"}
    BY <1>2 DEF Power
  <2>2. want' = [want EXCEPT ![req[r].vm] = to] /\ vhd' = vhd
    BY <1>2 DEF Power
  <2> HIDE DEF to
  <2>3. /\ DOMAIN vms' = DOMAIN vms
        /\ \A id \in DOMAIN vms :
              /\ id # req[r].vm => vms'[id] = vms[id]
              /\ vms'[id].name = vms[id].name /\ vms'[id].disk = vms[id].disk
    BY <2>1, ChangeFits DEF HostInv, TypeInv
  <2>4. DOMAIN want' = DOMAIN want /\ \A id \in DOMAIN want : id # req[r].vm => want'[id] = want[id]
    BY <2>2
  <2>5. DOMAIN vms \subseteq DOMAIN want
    BY DEF HostInv, TypeInv, TablesOK
  <2>6. QED
    BY <2>2, <2>3, <2>4, <2>5, OnItsMachine DEF Kept
<1>3. QED
  BY <1>1, <1>2

LEMMA DeleteKept ==
    ASSUME HostInv, NEW r \in Script, req[r].op # "CreateVM", Active(r),
           Find(r) \/ TurnOff(r)
    PROVE  Kept(r)
<1>1. CASE Find(r)
  BY <1>1, StillKept DEF Find, host
<1>2. CASE TurnOff(r)
  BY <1>2, OnItsMachine, ChangeKept DEF TurnOff
<1>3. QED
  BY <1>1, <1>2

LEMMA ResizeKept ==
    ASSUME HostInv, NEW r \in Script, req[r].op = "ResizeVM", Active(r), ResizeVM(r)
    PROVE  Kept(r)
<1>1. CASE FindRunning(r) \/ HaltFails(r) \/ StartAgainFails(r)
  BY <1>1, StillKept DEF FindRunning, HaltFails, StartAgainFails, host
<1>2. CASE Halt(r) \/ StartAgain(r)
  BY <1>2, OnItsMachine, ChangeKept DEF Halt, StartAgain
<1>3. CASE SetSize(r)
  <2>1. req[r].number \in Sizes
    BY DEF HostInv, TypeInv, ScriptOK, Asked
  <2>2. QED
    BY <1>3, <2>1, OnItsMachine, ChangeKept DEF SetSize, Stopped
<1>4. QED
  BY <1>1, <1>2, <1>3 DEF ResizeVM

LEMMA CloneKept ==
    ASSUME HostInv, NEW r \in Script, req[r].op = "CloneVM", Active(r),
           CheckThrows(r) \/ Check(r) \/ TuneClone(r)
    PROVE  Kept(r)
<1>1. CASE CheckThrows(r) \/ Check(r)
  BY <1>1, StillKept DEF CheckThrows, Check, host
<1>2. CASE TuneClone(r)
  <2>1. \A id \in Stopped(seen[r].ids) \cap DOMAIN vms : vms[id].name \in req[r].on
    BY DEF HostInv, KeepsTo, CloneSeen, Stopped, Found
  <2>2. TypeInv /\ seen[r].size \in Sizes
    BY DEF HostInv, TypeInv, ScriptOK, Findings
  <2>3. QED
    BY <1>2, <2>1, <2>2, ChangeKept DEF TuneClone
<1>3. QED
  BY <1>1, <1>2

\* The commands that write, make or remove a file or a machine.

LEMMA FileTidy ==
    ASSUME HostInv, NEW r \in Script, Active(r), Moves(r), UNCHANGED <<vms, want>>,
           NEW f \in Name, f \in req[r].on, \A g \in Name \ {f} : vhd'[g] = vhd[g],
           vhd'[f] = NoDisk => Named(f) = {},
           vhd'[f] # NoDisk => FileDue(f)',
           vhd'[f] = Partial =>
              CloneCut \/ \E q \in Script : pc'[q] = "copying" /\ f = req[q].name,
           pc[r] \in {"copying", "NewVMFromDisk"} => f = req[r].name,
           pc[r] = "Erase" => f = seen[r].disk, pc[r] # "TuneClone",
           Spent(r) => Spent(r)'
    PROVE  Tidy(r)
<1>1. Confined(r)
  BY DEF Confined, HostInv, OwnDisks, TypeInv, TablesOK, Named
<1>2. MakesOne(r)
  BY DEF MakesOne
<1>3. ASSUME NEW g \in Name \ {f} PROVE vhd'[g] # NoDisk => FileDue(g)'
  <2>1. vhd'[g] # NoDisk => FileDue(g)
    BY DEF HostInv, FilesDue
  <2>2. ~AboutTo(r, g)
    BY DEF AboutTo
  <2>3. QED
    BY <2>1, <2>2, FileStaysDue
<1>4. ASSUME NEW g \in Name \ {f}, vhd'[g] = Partial
      PROVE  CloneCut \/ \E q \in Script : pc'[q] = "copying" /\ g = req[q].name
  BY <1>4 DEF HostInv, PartialCopies, Moves
<1>5. FilesInOrder(r)
  BY <1>3, <1>4 DEF FilesInOrder
<1>6. QED
  BY <1>1, <1>2, <1>5 DEF Tidy

LEMMA MadeTidy ==
    ASSUME HostInv, NEW r \in Script, Active(r), Moves(r),
           req[r].name \in req[r].on, Named(req[r].name) = {}, Made(NewID, req[r].name),
           ~Spent(r), Spent(r)',
           \A g \in Name \ {req[r].name} : vhd'[g] = vhd[g],
           vhd'[req[r].name] # NoDisk,
           vhd'[req[r].name] = Partial =>
              CloneCut \/ \E q \in Script \ {r} : pc[q] = "copying" /\ req[r].name = req[q].name
    PROVE  Tidy(r)
<1>1. /\ NewID \notin DOMAIN want /\ NewID \notin DOMAIN vms
      /\ NewID' = NewID + 1 /\ DOMAIN want' = DOMAIN want \cup {NewID}
      /\ \A id \in DOMAIN vms : vms[id].disk \in Name
  BY NumberedUp, NumberedNext DEF HostInv, TypeInv, TablesOK
<1>2. /\ DOMAIN vms' = DOMAIN vms \cup {NewID} /\ \A id \in DOMAIN vms : vms'[id] = vms[id]
      /\ vms'[NewID].name = req[r].name /\ vms'[NewID].disk = req[r].name
      /\ vms'[NewID].state = "STOPPED" /\ want'[NewID] = "STOPPED"
      /\ \A id \in DOMAIN vms : want'[id] = want[id]
  BY <1>1 DEF Made, With, HostInv, TypeInv, TablesOK
<1>3. Confined(r)
  <2>1. \A id \in DOMAIN vms' : vhd'[vms'[id].disk] # NoDisk
    BY <1>1, <1>2 DEF HostInv, OwnDisks
  <2>2. QED
    BY <1>1, <1>2, <2>1 DEF Confined
<1>4. MakesOne(r)
  BY <1>1 DEF MakesOne
<1>5. ASSUME NEW g \in Name PROVE vhd'[g] # NoDisk => FileDue(g)'
  <2>1. CASE g = req[r].name
    BY <1>2, <2>1 DEF FileDue
  <2>2. CASE g # req[r].name
    <3>1. vhd'[g] # NoDisk => FileDue(g)
      BY <2>2 DEF HostInv, FilesDue
    <3>2. ~AboutTo(r, g)
      BY <2>2 DEF AboutTo, Spent
    <3>3. QED
      BY <1>2, <3>1, <3>2, FileStaysDue
  <2>3. QED
    BY <2>1, <2>2
<1>6. ASSUME NEW g \in Name, vhd'[g] = Partial
      PROVE  CloneCut \/ \E q \in Script : pc'[q] = "copying" /\ g = req[q].name
  BY <1>6 DEF HostInv, PartialCopies, Moves
<1>7. FilesInOrder(r)
  BY <1>5, <1>6 DEF FilesInOrder
<1>8. QED
  BY <1>3, <1>4, <1>7 DEF Tidy

\* A file that is no machine's, of a name the script is on, is not in use.
LEMMA NotInUse ==
    ASSUME HostInv, NEW r \in Script, Active(r), pc[r] # "copying",
           NEW f \in req[r].on, Named(f) = {}
    PROVE  ~InUse(f)
<1>1. ~ \E id \in DOMAIN vms : vms[id].disk = f
  BY DEF HostInv, OwnDisks, Named
<1>2. ASSUME NEW q \in Script, pc[q] = "copying"
      PROVE  f \notin {req[q].name, seen[q].disk}
  <2>1. Active(q) /\ req[q].op = "CloneVM"
    BY <1>2 DEF Active, Over, HostInv, TypeInv, ScriptOK, Commands
  <2>2. req[q].name \in req[q].on /\ seen[q].disk \in req[q].on
    BY <1>2, <2>1 DEF HostInv, KeepsTo, Covers, Cloning, OwnDisks, Found
  <2>3. q # r => req[q].on \cap req[r].on = {}
    BY <2>1 DEF HostInv, Apart
  <2>4. QED
    BY <1>2, <2>2, <2>3
<1>3. QED
  BY <1>1, <1>2 DEF InUse

LEMMA CreateTidy ==
    ASSUME HostInv, NEW r \in Script, Active(r), Moves(r), CreateVM(r), req[r].op = "CreateVM"
    PROVE  Tidy(r)
<1>1. req[r].name \in req[r].on /\ req[r].name \in Name /\ req[r].number = 1
  BY DEF HostInv, KeepsTo, Covers, TypeInv, ScriptOK, Asked
<1>2. CASE NewVM(r)
  <2>0. pc[r] = "NewVM" /\ pc'[r] = "Tune"
    BY <1>2 DEF NewVM, Goto, HostInv, TypeInv
  <2>1. CASE ~UNCHANGED <<vms, vhd, want>>
    <3>1. Named(req[r].name) = {}
      BY <1>2, <2>1 DEF NewVM, HostInv, OwnDisks, Named
    <3>2. /\ Made(NewID, req[r].name) /\ vhd'[req[r].name] = 1
          /\ \A g \in Name \ {req[r].name} : vhd'[g] = vhd[g]
      BY <1>1, <1>2, <2>1 DEF NewVM, HostInv, TypeInv, TablesOK
    <3>3. vhd'[req[r].name] # NoDisk /\ vhd'[req[r].name] # Partial
      BY <3>2, HostAssumption
    <3>4. QED
      BY <1>1, <2>0, <3>1, <3>2, <3>3, MadeTidy DEF Spent
  <2>2. CASE UNCHANGED <<vms, vhd, want>>
    <3>1. Kept(r)
      BY <2>2, StillKept
    <3>2. QED
      BY <2>0, <3>1, KeptTidy DEF Spent
  <2>3. QED
    BY <2>1, <2>2
<1>3. CASE Tune(r) \/ TestPath(r) \/ Unfetched(r) \/ Fetched(r) \/ FetchFails(r) \/ AddDvd(r)
  <2>1. /\ pc[r] \in {"Tune", "TestPath", "fetching", "AddDvd", "AddBroken"}
        /\ pc'[r] \in {"TestPath", "fetching", "AddDvd", "AddBroken"} \cup Ended
    BY <1>3 DEF Tune, TestPath, Unfetched, Fetched, FetchFails, AddDvd, Goto, Outcome, HostInv, TypeInv,
                Ended
  <2>2. QED
    BY <1>3, <2>1, CreateKept, KeptTidy DEF Spent, Ended
<1>4. QED
  BY <1>2, <1>3 DEF CreateVM

LEMMA PowerTidy ==
    ASSUME HostInv, NEW r \in Script, Active(r), Moves(r), Power(r) \/ PowerFails(r),
           req[r].op # "CreateVM"
    PROVE  Tidy(r)
<1>1. pc[r] = "Power" /\ pc'[r] \in {"done", "failed"}
  BY DEF Power, PowerFails, Goto, HostInv, TypeInv
<1>2. QED
  BY <1>1, PowerKept, KeptTidy DEF Spent

LEMMA ResizeVHDTidy ==
    ASSUME HostInv, NEW r \in Script, Active(r), Moves(r), ResizeVHD(r),
           req[r].op = "ExpandDisk"
    PROVE  Tidy(r)
<1>0. pc[r] = "ResizeVHD" /\ pc'[r] \in {"done", "failed"} /\ Spent(r)'
  BY DEF ResizeVHD, Goto, Outcome, HostInv, TypeInv, Spent
<1>1. CASE CanGrow(r)
  <2>1. req[r].vm \in DOMAIN vms /\ req[r].number \in Disks
    BY <1>1 DEF CanGrow, Found, HostInv, TypeInv, ScriptOK, Asked
  <2>2. PICK f \in Name : f = vms[req[r].vm].disk /\ f \in req[r].on
    BY <2>1, OnItsMachine DEF HostInv, TypeInv, TablesOK, OwnDisks
  <2>3. /\ UNCHANGED <<vms, want>> /\ vhd'[f] \in Disks
        /\ \A g \in Name \ {f} : vhd'[g] = vhd[g]
    BY <1>1, <2>1, <2>2 DEF ResizeVHD, HostInv, TypeInv, TablesOK
  <2>4. FileDue(f)'
    BY <2>1, <2>2, <2>3 DEF FileDue
  <2>5. QED
    BY <1>0, <2>2, <2>3, <2>4, FileTidy, HostAssumption
<1>2. CASE ~CanGrow(r)
  <2>1. Kept(r)
    BY <1>2, StillKept DEF ResizeVHD
  <2>2. QED
    BY <1>0, <2>1, KeptTidy
<1>3. QED
  BY <1>1, <1>2

LEMMA DeleteTidy ==
    ASSUME HostInv, NEW r \in Script, Active(r), Moves(r), DeleteVM(r), req[r].op = "DeleteVM"
    PROVE  Tidy(r)
<1>1. CASE Find(r) \/ TurnOff(r)
  <2>1. /\ pc[r] \in {"Find", "TurnOff"} /\ pc'[r] \in {"TurnOff", "Remove", "done"}
    BY <1>1 DEF Find, TurnOff, Goto, HostInv, TypeInv
  <2>2. QED
    BY <1>1, <2>1, DeleteKept, KeptTidy DEF Spent
<1>2. CASE Remove(r)
  <2> DEFINE id == req[r].vm
  <2>1. pc[r] = "Remove" /\ pc'[r] = "Erase" /\ UNCHANGED <<vhd, req, seen, want>>
    BY <1>2 DEF Remove, Goto, HostInv, TypeInv
  <2>2. /\ id \in DOMAIN vms /\ vms[id].state = "STOPPED" /\ seen[r].disk = vms[id].disk
        /\ vms[id].name \in req[r].on
    BY <2>1, OnItsMachine DEF HostInv, KeepsTo, Deleting, Found
  <2>3. Stopped({id}) = {id}
    BY <2>2 DEF Stopped
  <2>4. vms' = [k \in DOMAIN vms \ {id} |-> vms[k]]
    BY <1>2, <2>3 DEF Remove
  <2> HIDE DEF id
  <2>5. Confined(r)
    BY <2>1, <2>2, <2>4 DEF Confined, HostInv, OwnDisks
  <2>6. MakesOne(r)
    BY <2>1 DEF MakesOne, Spent
  <2>7. ASSUME NEW f \in Name PROVE vhd'[f] # NoDisk => FileDue(f)'
    <3>1. vhd'[f] # NoDisk => FileDue(f)
      BY <2>1 DEF HostInv, FilesDue
    <3>2. ~AboutTo(r, f)
      BY <2>1 DEF AboutTo
    <3>3. f = seen[r].disk => AboutTo(r, f)'
      BY <2>1 DEF AboutTo
    <3>4. QED
      BY <2>2, <2>4, <3>1, <3>2, <3>3, FileStaysDue DEF FileDue
  <2>8. ASSUME NEW f \in Name, vhd'[f] = Partial
        PROVE  CloneCut \/ \E q \in Script : pc'[q] = "copying" /\ f = req[q].name
    BY <2>1, <2>8 DEF HostInv, PartialCopies, Moves
  <2>9. QED
    BY <2>5, <2>6, <2>7, <2>8 DEF Tidy, FilesInOrder
<1>3. CASE Erase(r)
  <2> DEFINE f == seen[r].disk
  <2>1. pc[r] = "Erase" /\ pc'[r] \in {"done", "failed"} /\ Spent(r)'
    BY <1>3 DEF Erase, Goto, Outcome, HostInv, TypeInv, Spent
  <2>2. f \in Name /\ f \in req[r].on /\ Named(f) = {}
    BY <2>1 DEF HostInv, KeepsTo, Deleting, TypeInv, ScriptOK, Findings
  <2>3. ~InUse(f)
    BY <2>1, <2>2, NotInUse
  <2>4. /\ UNCHANGED <<vms, want>> /\ vhd'[f] = NoDisk
        /\ \A g \in Name \ {f} : vhd'[g] = vhd[g]
    BY <1>3, <2>2, <2>3 DEF Erase, HostInv, TypeInv, TablesOK
  <2>5. QED
    BY <2>1, <2>2, <2>4, FileTidy, HostAssumption
<1>4. QED
  BY <1>1, <1>2, <1>3 DEF DeleteVM

LEMMA ResizeTidy ==
    ASSUME HostInv, NEW r \in Script, Active(r), Moves(r), ResizeVM(r), req[r].op = "ResizeVM"
    PROVE  Tidy(r)
<1>1. /\ pc[r] \in {"FindRunning", "Halt", "SetSize", "StartAgain"}
      /\ pc'[r] \in {"Halt", "SetSize", "StartAgain", "done", "failed"}
  BY DEF ResizeVM, FindRunning, Halt, HaltFails, SetSize, StartAgain, StartAgainFails, Goto,
         Outcome, HostInv, TypeInv
<1>2. QED
  BY <1>1, ResizeKept, KeptTidy DEF Spent

LEMMA CloneTidy ==
    ASSUME HostInv, NEW r \in Script, Active(r), Moves(r), CloneVM(r), req[r].op = "CloneVM"
    PROVE  Tidy(r)
<1> DEFINE f == req[r].name
<1>1. f \in req[r].on /\ f \in Name /\ vhd \in [Name -> Disks \cup {NoDisk, Partial}]
  BY DEF HostInv, KeepsTo, Covers, TypeInv, ScriptOK, Asked, TablesOK
<1>2. pc[r] \in {"CopyItem", "copying", "NewVMFromDisk"} => Named(f) = {}
  BY DEF HostInv, KeepsTo, NameKept
<1>3. CASE CheckThrows(r) \/ Check(r) \/ TuneClone(r)
  <2>1. /\ pc[r] \in {"Check", "TuneClone"} /\ pc'[r] \in {"CopyItem"} \cup Ended
        /\ pc[r] = "TuneClone" =>
              pc'[r] = IF seen[r].ids = {} THEN "nothing" ELSE "done"
    BY <1>3 DEF CheckThrows, Check, TuneClone, Goto, HostInv, TypeInv, Ended
  <2>2. QED
    BY <1>3, <2>1, CloneKept, KeptTidy DEF Spent
<1>4. CASE CopyBegins(r)
  <2>1. pc[r] = "CopyItem" /\ pc'[r] = "copying" /\ UNCHANGED <<vms, want, req>>
    BY <1>4 DEF CopyBegins, Goto, HostInv, TypeInv
  <2>2. vhd'[f] = Partial /\ \A g \in Name \ {f} : vhd'[g] = vhd[g]
    BY <1>1, <1>4 DEF CopyBegins
  <2>3. FileDue(f)'
    BY <2>1 DEF FileDue, AboutTo
  <2>4. QED
    BY <1>1, <2>1, <2>2, <2>3, FileTidy, HostAssumption DEF Spent
<1>5. CASE CopyEnds(r)
  <2>1. pc[r] = "copying" /\ pc'[r] = "NewVMFromDisk" /\ UNCHANGED <<vms, want, req>>
    BY <1>5 DEF CopyEnds, Goto, HostInv, TypeInv
  <2>2. vhd'[f] = vhd[seen[r].disk] /\ \A g \in Name \ {f} : vhd'[g] = vhd[g]
    BY <1>1, <1>5 DEF CopyEnds
  <2>3. /\ req[r].vm \in DOMAIN vms /\ seen[r].disk = vms[req[r].vm].name
        /\ vhd[seen[r].disk] # NoDisk /\ seen[r].disk \in req[r].on
        /\ seen[r].disk \in Name
    BY <2>1, OnItsMachine DEF HostInv, KeepsTo, Cloning, Found, OwnDisks, TypeInv, TablesOK
  <2>4. FileDue(f)'
    BY <2>1 DEF FileDue, AboutTo
  <2>5. vhd'[f] = Partial => CloneCut
    <3>1. ASSUME NEW q \in Script, pc[q] = "copying", seen[r].disk = req[q].name PROVE FALSE
      <4>1. Active(q) /\ req[q].name \in req[q].on
        BY <3>1 DEF Active, Over, HostInv, TypeInv, ScriptOK, Commands, KeepsTo, Covers
      <4>2. q = r
        BY <2>3, <3>1, <4>1 DEF HostInv, Apart
      <4>3. req[r].vm \in Named(f)
        BY <2>3, <3>1, <4>2 DEF Named
      <4>4. QED
        BY <1>2, <2>1, <4>3
    <3>2. QED
      BY <2>2, <2>3, <3>1 DEF HostInv, PartialCopies
  <2>6. QED
    BY <1>1, <1>2, <2>1, <2>2, <2>3, <2>4, <2>5, FileTidy DEF Spent
<1>6. CASE NotCopied(r)
  <2>1. pc[r] = "CopyItem" /\ pc'[r] = "NewVMFromDisk" /\ UNCHANGED <<vms, want, req>>
    BY <1>6 DEF NotCopied, Goto, HostInv, TypeInv
  <2>2. vhd'[f] \in {1, vhd[f]} /\ \A g \in Name \ {f} : vhd'[g] = vhd[g]
    BY <1>1, <1>6 DEF NotCopied
  <2>3. FileDue(f)'
    BY <2>1 DEF FileDue, AboutTo
  <2>4. vhd'[f] = Partial =>
           CloneCut \/ \E q \in Script : pc'[q] = "copying" /\ f = req[q].name
    BY <1>1, <2>1, <2>2, HostAssumption DEF HostInv, PartialCopies, Moves
  <2>5. QED
    BY <1>1, <1>2, <2>1, <2>2, <2>3, <2>4, FileTidy DEF Spent
<1>7. CASE NewVMFromDisk(r)
  <2>1. pc[r] = "NewVMFromDisk" /\ pc'[r] = "TuneClone" /\ UNCHANGED <<vhd, req>>
    BY <1>7 DEF NewVMFromDisk, Goto, HostInv, TypeInv
  <2>2. ~InUse(f)
    BY <1>1, <1>2, <2>1, NotInUse
  <2>3. CASE ~UNCHANGED <<vms, seen, want>>
    <3>1. Made(NewID, f) /\ vhd[f] # NoDisk
      BY <1>7, <2>3 DEF NewVMFromDisk
    <3>2. vhd[f] = Partial => CloneCut
      BY <1>1, <2>2 DEF HostInv, PartialCopies, InUse
    <3>3. QED
      BY <1>1, <1>2, <2>1, <3>1, <3>2, MadeTidy DEF Spent
  <2>4. CASE UNCHANGED <<vms, seen, want>>
    <3>1. seen'[r].ids = {}
      BY <2>1, <2>4 DEF HostInv, KeepsTo, CloneSeen
    <3>2. FileDue(f)'
      BY <2>1, <3>1 DEF FileDue, AboutTo
    <3>3. vhd[f] = Partial => CloneCut
      BY <1>1, <2>2 DEF HostInv, PartialCopies, InUse
    <3>4. QED
      BY <1>1, <1>2, <2>1, <2>4, <3>2, <3>3, FileTidy DEF Spent
  <2>5. QED
    BY <2>3, <2>4
<1>8. QED
  BY <1>3, <1>4, <1>5, <1>6, <1>7 DEF CloneVM

LEMMA CommandTidy ==
    ASSUME HostInv, NEW r \in Script, Command(r) PROVE Tidy(r)
<1>1. TypeInv /\ Moves(r) /\ Active(r)
  BY CommandMoves DEF HostInv
<1>2. PowerFails(r) => req[r].op # "CreateVM"
  BY <1>1 DEF PowerFails, Goto, TypeInv, ScriptOK, Over, Commands
<1>3. QED
  BY <1>1, <1>2, OwnCommand, CreateTidy, CloneTidy, DeleteTidy, ResizeTidy, PowerTidy,
     ResizeVHDTidy DEF Command

-----------------------------------------------------------------------------
(* The other scripts find what they found before.                           *)

LEMMA BlameStays ==
    ASSUME HostInv, NEW r \in Script, Active(r), Moves(r), Confined(r),
           NEW id \in DOMAIN vms' \cap DOMAIN vms, Blamed(id)
    PROVE  Blamed(id)'
BY DEF Blamed, Moves, Active, Over, Confined

LEMMA OthersKeepTo ==
    ASSUME HostInv, NEW r \in Script, Active(r), Moves(r), Confined(r),
           NEW q \in Script \ {r}
    PROVE  KeepsTo(q)'
<1>1. /\ req' = req /\ pc'[q] = pc[q] /\ seen'[q] = seen[q]
      /\ pc[q] \in Over \cup Commands(req[q].op) /\ req[q].vm \in DOMAIN want
      /\ KeepsTo(q)
  BY DEF Moves, HostInv, TypeInv, ScriptOK, Asked
<1>2. CASE ~Active(q)
  BY <1>1, <1>2 DEF Active, Over, KeepsTo, Covers, Cloning, NameKept, CloneSeen, Deleting,
                    Resizing
<1>3. CASE Active(q)
  <2>1. req[q].on \cap req[r].on = {}
    BY <1>3 DEF HostInv, Apart
  <2>2. ASSUME NEW id \in DOMAIN vms, vms[id].name \in req[q].on
        PROVE  id \in DOMAIN vms' /\ vms'[id] = vms[id] /\ want'[id] = want[id]
    BY <2>1, <2>2 DEF Confined
  <2>3. ASSUME NEW id \in DOMAIN vms', vms'[id].name \in req[q].on
        PROVE  id \in DOMAIN vms /\ vms'[id].name = vms[id].name
    BY <2>1, <2>3 DEF Confined
  <2>4. \A id \in DOMAIN want \cap DOMAIN vms' :
           id \in DOMAIN vms /\ vms'[id].name = vms[id].name
    BY DEF Confined
  <2>5. Covers(q)'
    BY <1>1, <1>3, <2>4 DEF Active, KeepsTo, Covers, Found
  <2>6. pc[q] \in {"CopyItem", "copying", "NewVMFromDisk"} => req[q].op = "CloneVM"
    BY <1>1 DEF Commands, Over
  <2>7. pc[q] \in {"TurnOff", "Remove", "Halt", "SetSize", "StartAgain"} =>
           req[q].op # "CreateVM"
    BY <1>1 DEF Commands, Over
  <2>8. req[q].op # "CreateVM" /\ Found(req[q].vm) =>
           /\ req[q].vm \in DOMAIN vms' /\ vms'[req[q].vm] = vms[req[q].vm]
           /\ want'[req[q].vm] = want[req[q].vm]
    BY <1>1, <1>3, <2>2 DEF KeepsTo, Covers, Found
  <2>9. Cloning(q)'
    BY <1>1, <2>6, <2>8 DEF KeepsTo, Cloning, Found
  <2>10. NameKept(q)'
    BY <1>1, <1>3, <2>3, <2>6 DEF KeepsTo, NameKept, Covers, Named
  <2>11. CloneSeen(q)'
    BY <1>1, <2>4 DEF KeepsTo, CloneSeen, Found, Confined
  <2>12. Deleting(q)'
    BY <1>1, <2>3, <2>7, <2>8 DEF KeepsTo, Deleting, Found, Named
  <2>13. Resizing(q)'
    <3>1. Found(req[q].vm) /\ req[q].op # "CreateVM" /\ Blamed(req[q].vm) =>
             Blamed(req[q].vm)'
      BY <2>8, <1>1, BlameStays DEF Found
    <3>2. QED
      BY <1>1, <2>7, <2>8, <3>1 DEF KeepsTo, Resizing, Found
  <2>14. QED
    BY <2>5, <2>9, <2>10, <2>11, <2>12, <2>13 DEF KeepsTo
<1>4. QED
  BY <1>2, <1>3

-----------------------------------------------------------------------------
(* Machines are in the states they were ordered into.                       *)

OwnStates(r) ==
    \A id \in DOMAIN vms' \cap DOMAIN vms : vms[id].name \in req[r].on => StateDue(id)'

LEMMA RestOfStates ==
    ASSUME HostInv, NEW r \in Script, Active(r), Moves(r), Confined(r), OwnStates(r)
    PROVE  StatesDue'
<1> SUFFICES ASSUME NEW id \in DOMAIN vms' PROVE StateDue(id)'
  BY DEF StatesDue
<1>1. CASE id \notin DOMAIN vms
  BY <1>1 DEF Confined, StateDue
<1>2. CASE id \in DOMAIN vms /\ vms[id].name \in req[r].on
  BY <1>2 DEF OwnStates
<1>3. CASE id \in DOMAIN vms /\ vms[id].name \notin req[r].on
  <2>1. vms'[id] = vms[id] /\ want'[id] = want[id]
    BY <1>3 DEF Confined
  <2>2. Blamed(id) => Blamed(id)'
    BY <1>3, BlameStays
  <2>3. ASSUME req[r].vm = id, pc[r] \in {"SetSize", "StartAgain", "Remove"} PROVE FALSE
    BY <1>3, <2>3 DEF HostInv, TypeInv, ScriptOK, Commands, Over, KeepsTo, Covers, Found
  <2>4. StateDue(id)
    BY <1>3 DEF HostInv, StatesDue
  <2>5. QED
    BY <2>1, <2>2, <2>3, <2>4 DEF StateDue, Moves
<1>4. QED
  BY <1>1, <1>2, <1>3

\* A machine whose state and order a command leaves alone.
LEMMA StateStays ==
    ASSUME HostInv, NEW r \in Script, Active(r), Moves(r), Confined(r),
           NEW id \in DOMAIN vms' \cap DOMAIN vms,
           pc[r] \notin {"SetSize", "StartAgain", "Remove"} \/ req[r].vm # id,
           vms'[id].state = vms[id].state, want'[id] = want[id]
    PROVE  StateDue(id)'
<1>1. Blamed(id) => Blamed(id)'
  BY BlameStays
<1>2. StateDue(id)
  BY DEF HostInv, StatesDue
<1>3. QED
  BY <1>1, <1>2 DEF StateDue, Moves

LEMMA StatesLeft ==
    ASSUME HostInv, NEW r \in Script, Active(r), Moves(r), Confined(r),
           pc[r] \notin {"SetSize", "StartAgain", "Remove"},
           \A id \in DOMAIN vms' \cap DOMAIN vms :
              vms'[id].state = vms[id].state /\ want'[id] = want[id]
    PROVE  OwnStates(r)
BY StateStays DEF OwnStates

\* What a command leaves its own script with.
Own(r) == KeepsTo(r)' /\ OwnStates(r)

LEMMA CoversStill ==
    ASSUME HostInv, NEW r \in Script, Active(r), Moves(r), Confined(r) PROVE Covers(r)'
<1>1. req[r].vm \in DOMAIN want /\ Covers(r) /\ req' = req
  BY DEF HostInv, TypeInv, ScriptOK, Asked, KeepsTo, Moves
<1>2. Found(req[r].vm)' => Found(req[r].vm) /\ vms'[req[r].vm].name = vms[req[r].vm].name
  BY <1>1 DEF Found, Confined
<1>3. QED
  BY <1>1, <1>2 DEF Covers

\* A script that has nothing more to look up or to undo.
LEMMA AtEase ==
    ASSUME HostInv, NEW r \in Script, Active(r), Moves(r), Confined(r),
           pc'[r] \notin {"CopyItem", "copying", "NewVMFromDisk", "TurnOff", "Remove",
                         "Erase", "Halt", "SetSize", "StartAgain"},
           seen'[r].ids = {}
    PROVE  KeepsTo(r)'
BY CoversStill DEF KeepsTo, Cloning, NameKept, CloneSeen, Deleting, Resizing

LEMMA CreateOwn ==
    ASSUME HostInv, NEW r \in Script, Active(r), Moves(r), Confined(r), CreateVM(r),
           req[r].op = "CreateVM"
    PROVE  Own(r)
<1>1. /\ pc[r] \in {"NewVM", "Tune", "TestPath", "fetching", "AddDvd", "AddBroken"}
      /\ pc'[r] \in {"Tune", "TestPath", "fetching", "AddDvd", "AddBroken"} \cup Ended
      /\ seen' = seen
  BY DEF CreateVM, NewVM, Tune, TestPath, Unfetched, Fetched, FetchFails, AddDvd, Goto, Outcome,
         HostInv, TypeInv, Ended
<1>2. seen'[r].ids = {}
  BY <1>1 DEF HostInv, KeepsTo, CloneSeen
<1>3. \A id \in DOMAIN vms' \cap DOMAIN vms :
         vms'[id].state = vms[id].state /\ want'[id] = want[id]
  <2>1. TypeInv /\ TablesOK /\ req[r].image \in Image \cup {NoImage}
        /\ NewID \notin DOMAIN want
    BY NumberedUp DEF HostInv, TypeInv, ScriptOK, Asked
  <2>2. CASE NewVM(r)
    BY <2>1, <2>2 DEF NewVM, Made, With, TablesOK
  <2>3. CASE Tune(r)
    <3>1. Change(Stopped(Named(req[r].name)), "size", 2) /\ want' = want
      BY <2>3 DEF Tune
    <3>2. QED
      BY <2>1, <3>1, ChangeFits, HostAssumption
  <2>4. CASE AddDvd(r)
    <3>1. (\E ids : Change(ids, "dvd", req[r].image)) /\ want' = want
      BY <2>4 DEF AddDvd
    <3>2. QED
      BY <2>1, <3>1, ChangeFits
  <2>5. CASE TestPath(r) \/ Unfetched(r) \/ Fetched(r) \/ FetchFails(r)
    BY <2>5 DEF TestPath, Unfetched, Fetched, FetchFails, host
  <2>6. QED
    BY <2>2, <2>3, <2>4, <2>5 DEF CreateVM
<1>4. QED
  BY <1>1, <1>2, <1>3, AtEase, StatesLeft DEF Own, Ended

LEMMA PowerOwn ==
    ASSUME HostInv, NEW r \in Script, Active(r), Moves(r), Confined(r),
           Power(r) \/ PowerFails(r)
    PROVE  Own(r)
<1>1. pc[r] = "Power" /\ pc'[r] \in {"done", "failed"} /\ seen' = seen
  BY DEF Power, PowerFails, Goto, HostInv, TypeInv
<1>2. KeepsTo(r)'
  <2>1. seen'[r].ids = {}
    BY <1>1 DEF HostInv, KeepsTo, CloneSeen
  <2>2. QED
    BY <1>1, <2>1, AtEase
<1>3. CASE PowerFails(r)
  BY <1>1, <1>2, <1>3, StatesLeft DEF PowerFails, host, Own
<1>4. CASE Power(r)
  <2> DEFINE to == IF req[r].op = "StopVM" THEN "STOPPED" ELSE "RUNNING"
  <2>1. Change({req[r].vm}, "state", to) /\ want' = [want EXCEPT ![req[r].vm] = to]
        /\ DOMAIN vms \subseteq DOMAIN want
    BY <1>4 DEF Power, HostInv, TypeInv, TablesOK
  <2> HIDE DEF to
  <2>2. ASSUME NEW id \in DOMAIN vms' \cap DOMAIN vms PROVE StateDue(id)'
    <3>1. CASE id = req[r].vm
      <4>1. vms'[id].state = to
        BY <2>1, <3>1 DEF Change, HostInv, TypeInv, TablesOK
      <4>2. want'[id] = to
        BY <2>1, <3>1
      <4>3. QED
        BY <4>1, <4>2 DEF StateDue
    <3>2. CASE id # req[r].vm
      BY <1>1, <2>1, <3>2, StateStays DEF Change
    <3>3. QED
      BY <3>1, <3>2
  <2>3. QED
    BY <1>2, <2>2 DEF Own, OwnStates
<1>5. QED
  BY <1>3, <1>4

LEMMA ResizeVHDOwn ==
    ASSUME HostInv, NEW r \in Script, Active(r), Moves(r), Confined(r), ResizeVHD(r)
    PROVE  Own(r)
<1>1. pc[r] = "ResizeVHD" /\ pc'[r] \in {"done", "failed"} /\ UNCHANGED <<seen, vms, want>>
  BY DEF ResizeVHD, Goto, Outcome, HostInv, TypeInv
<1>2. seen'[r].ids = {}
  BY <1>1 DEF HostInv, KeepsTo, CloneSeen
<1>3. QED
  BY <1>1, <1>2, AtEase, StatesLeft DEF Own

LEMMA DeleteOwn ==
    ASSUME HostInv, NEW r \in Script, Active(r), Moves(r), Confined(r), DeleteVM(r),
           req[r].op = "DeleteVM"
    PROVE  Own(r)
<1> DEFINE vm == req[r].vm
<1>0. /\ req' = req /\ DOMAIN seen = Script
      /\ pc[r] # "TuneClone" => seen[r].ids = {}
      /\ seen[r] \in Findings
  BY DEF Moves, HostInv, TypeInv, ScriptOK, KeepsTo, CloneSeen
<1>1. CASE Find(r)
  <2>1. pc[r] = "Find" /\ UNCHANGED <<vms, want>>
    BY <1>1 DEF Find, Goto, host
  <2>2. OwnStates(r)
    BY <2>1, StatesLeft
  <2>3. CASE Found(vm)
    <3>1. pc'[r] = "TurnOff" /\ seen' = [seen EXCEPT ![r].disk = vms[vm].disk]
      BY <1>1, <2>3 DEF Find, Goto, HostInv, TypeInv
    <3>2. seen'[r].disk = vms[vm].disk /\ seen'[r].ids = {}
      BY <1>0, <2>1, <3>1 DEF Findings
    <3>3. KeepsTo(r)'
      BY <1>0, <2>1, <2>3, <3>1, <3>2, CoversStill
         DEF KeepsTo, Cloning, NameKept, CloneSeen, Deleting, Resizing, Found
    <3>4. QED
      BY <2>2, <3>3 DEF Own
  <2>4. CASE ~Found(vm)
    <3>1. pc'[r] = "done" /\ seen' = seen
      BY <1>1, <2>4 DEF Find, Goto, HostInv, TypeInv
    <3>2. QED
      BY <1>0, <2>1, <2>2, <3>1, AtEase DEF Own
  <2>5. QED
    BY <2>3, <2>4
<1>2. CASE TurnOff(r)
  <2>1. /\ pc[r] = "TurnOff" /\ pc'[r] = "Remove" /\ UNCHANGED <<seen, want>>
        /\ Change({vm}, "state", "STOPPED")
    BY <1>2 DEF TurnOff, Goto, HostInv, TypeInv
  <2>2. vm \in DOMAIN vms /\ seen[r].disk = vms[vm].disk
    BY <2>1 DEF HostInv, KeepsTo, Deleting, Found
  <2>3. vm \in DOMAIN vms' /\ vms'[vm].state = "STOPPED" /\ vms'[vm].disk = vms[vm].disk
    BY <2>1, <2>2 DEF Change, HostInv, TypeInv, TablesOK
  <2>4. KeepsTo(r)'
    BY <1>0, <2>1, <2>2, <2>3, CoversStill
       DEF KeepsTo, Cloning, NameKept, CloneSeen, Deleting, Resizing, Found
  <2>5. ASSUME NEW id \in DOMAIN vms' \cap DOMAIN vms PROVE StateDue(id)'
    <3>1. CASE id = vm
      BY <1>0, <2>1, <3>1 DEF StateDue
    <3>2. CASE id # vm
      BY <2>1, <3>2, StateStays DEF Change
    <3>3. QED
      BY <3>1, <3>2
  <2>6. QED
    BY <2>4, <2>5 DEF Own, OwnStates
<1>3. CASE Remove(r)
  <2>1. pc[r] = "Remove" /\ pc'[r] = "Erase" /\ UNCHANGED <<seen, want>>
    BY <1>3 DEF Remove, Goto, HostInv, TypeInv
  <2>2. /\ vm \in DOMAIN vms /\ vms[vm].state = "STOPPED" /\ seen[r].disk = vms[vm].name
        /\ vms[vm].name \in req[r].on
    BY <2>1, OnItsMachine DEF HostInv, KeepsTo, Deleting, Found, OwnDisks
  <2>3. vms' = [k \in DOMAIN vms \ {vm} |-> vms[k]]
    BY <1>3, <2>2 DEF Remove, Stopped
  <2>4. Named(seen[r].disk)' = {}
    BY <2>1, <2>2, <2>3 DEF Named, HostInv, OwnDisks
  <2>5. KeepsTo(r)'
    BY <1>0, <2>1, <2>2, <2>4, CoversStill
       DEF KeepsTo, Cloning, NameKept, CloneSeen, Deleting, Resizing
  <2>6. ASSUME NEW id \in DOMAIN vms' \cap DOMAIN vms PROVE StateDue(id)'
    BY <2>1, <2>3, StateStays
  <2>7. QED
    BY <2>5, <2>6 DEF Own, OwnStates
<1>4. CASE Erase(r)
  <2>1. /\ pc[r] = "Erase" /\ pc'[r] \in {"done", "failed"} /\ UNCHANGED <<vms, want>>
        /\ seen'[r].ids = {}
    BY <1>4 DEF Erase, Forget, Unseen, Goto, Outcome, HostInv, TypeInv
  <2>2. QED
    BY <2>1, AtEase, StatesLeft DEF Own
<1>5. QED
  BY <1>1, <1>2, <1>3, <1>4 DEF DeleteVM

LEMMA CloneOwn ==
    ASSUME HostInv, NEW r \in Script, Active(r), Moves(r), Confined(r), CloneVM(r),
           req[r].op = "CloneVM"
    PROVE  Own(r)
<1> DEFINE vm == req[r].vm
<1>0. /\ req' = req /\ DOMAIN seen = Script
      /\ pc[r] # "TuneClone" => seen[r].ids = {}
      /\ seen[r] \in Findings /\ req[r].name \in req[r].on
      /\ pc[r] \in {"CopyItem", "copying"} => Found(vm) /\ seen[r].disk = vms[vm].disk
      /\ pc[r] \in {"CopyItem", "copying", "NewVMFromDisk"} => Named(req[r].name) = {}
  BY DEF Moves, HostInv, TypeInv, ScriptOK, KeepsTo, CloneSeen, Covers, Cloning, NameKept
<1>1. CASE CheckThrows(r)
  <2>1. pc[r] = "Check" /\ pc'[r] = "failed" /\ UNCHANGED <<seen, vms, want>>
    BY <1>1 DEF CheckThrows, Goto, host, HostInv, TypeInv
  <2>2. QED
    BY <1>0, <2>1, AtEase, StatesLeft DEF Own
<1>2. CASE Check(r)
  <2>1. /\ pc[r] = "Check" /\ pc'[r] = "CopyItem" /\ UNCHANGED <<vms, want>>
        /\ Found(vm) /\ Named(req[r].name) = {}
    BY <1>2 DEF Check, Goto, host, HostInv, TypeInv
  <2>2. seen'[r].disk = vms[vm].disk /\ seen'[r].ids = {}
    BY <1>0, <1>2, <2>1 DEF Check, Findings
  <2>3. KeepsTo(r)'
    BY <1>0, <2>1, <2>2, CoversStill
       DEF KeepsTo, Cloning, NameKept, CloneSeen, Deleting, Resizing, Found, Named
  <2>4. QED
    BY <2>1, <2>3, StatesLeft DEF Own
<1>3. CASE CopyBegins(r) \/ CopyEnds(r) \/ NotCopied(r)
  <2>1. /\ pc[r] \in {"CopyItem", "copying"} /\ pc'[r] \in {"copying", "NewVMFromDisk"}
        /\ UNCHANGED <<seen, vms, want>>
    BY <1>3 DEF CopyBegins, CopyEnds, NotCopied, Goto, HostInv, TypeInv
  <2>2. KeepsTo(r)'
    BY <1>0, <2>1, CoversStill
       DEF KeepsTo, Cloning, NameKept, CloneSeen, Deleting, Resizing, Found, Named
  <2>3. QED
    BY <2>1, <2>2, StatesLeft DEF Own
<1>4. CASE NewVMFromDisk(r)
  <2>1. pc[r] = "NewVMFromDisk" /\ pc'[r] = "TuneClone"
    BY <1>4 DEF NewVMFromDisk, Goto, HostInv, TypeInv
  <2>2. NewID \notin DOMAIN want /\ DOMAIN vms \subseteq DOMAIN want
    BY NumberedUp DEF HostInv, TypeInv, TablesOK
  <2>3. CASE Made(NewID, req[r].name) /\ seen' = [seen EXCEPT ![r].ids = {NewID}]
    <3>1. seen'[r].ids = {NewID}
      BY <1>0, <2>3 DEF Findings
    <3>2. /\ NewID \in DOMAIN want' /\ NewID \in DOMAIN vms'
          /\ vms'[NewID].name = req[r].name
      BY <2>3 DEF Made, With
    <3>3. CloneSeen(r)'
      BY <1>0, <2>1, <3>1, <3>2 DEF CloneSeen
    <3>4. KeepsTo(r)'
      BY <2>1, <3>3, CoversStill DEF KeepsTo, Cloning, NameKept, Deleting, Resizing
    <3>5. \A id \in DOMAIN vms' \cap DOMAIN vms :
             vms'[id].state = vms[id].state /\ want'[id] = want[id]
      BY <2>2, <2>3 DEF Made, With
    <3>6. QED
      BY <2>1, <3>4, <3>5, StatesLeft DEF Own
  <2>4. CASE UNCHANGED <<vms, seen, want>>
    BY <1>0, <2>1, <2>4, AtEase, StatesLeft DEF Own
  <2>5. QED
    BY <1>4, <2>3, <2>4 DEF NewVMFromDisk
<1>5. CASE TuneClone(r)
  <2>1. /\ pc[r] = "TuneClone" /\ pc'[r] \in {"done", "nothing"} /\ seen'[r].ids = {} /\ want' = want
        /\ Change(Stopped(seen[r].ids), "size", seen[r].size)
    BY <1>0, <1>5 DEF TuneClone, Forget, Unseen, Goto, HostInv, TypeInv
  <2>2. TablesOK /\ seen[r].size \in Sizes
    BY <1>0 DEF HostInv, TypeInv, Findings
  <2>3. \A id \in DOMAIN vms' \cap DOMAIN vms : vms'[id].state = vms[id].state
    BY <2>1, <2>2, ChangeFits
  <2>4. QED
    BY <2>1, <2>3, AtEase, StatesLeft DEF Own
<1>6. QED
  BY <1>1, <1>2, <1>3, <1>4, <1>5 DEF CloneVM

LEMMA ResizeOwn ==
    ASSUME HostInv, NEW r \in Script, Active(r), Moves(r), Confined(r), ResizeVM(r),
           req[r].op = "ResizeVM"
    PROVE  Own(r)
<1> DEFINE vm == req[r].vm
<1>0. /\ req' = req /\ DOMAIN seen = Script /\ DOMAIN pc = Script
      /\ seen[r] \in Findings /\ TypeInv /\ TablesOK /\ Resizing(r)
  BY DEF Moves, HostInv, TypeInv, ScriptOK, KeepsTo
<1>1. pc[r] \in {"FindRunning", "Halt", "SetSize", "StartAgain"} /\ seen[r].ids = {}
  BY DEF ResizeVM, FindRunning, Halt, HaltFails, SetSize, StartAgain, StartAgainFails, Goto,
         HostInv, KeepsTo, CloneSeen
<1>2. Found(vm) => Found(vm)' \/ ~(\/ Halt(r) \/ HaltFails(r) \/ SetSize(r) \/ FindRunning(r))
  BY <1>0, ChangeFits
     DEF Found, Halt, HaltFails, SetSize, FindRunning, Change, host
\* A script that is still at it has found its machine running, and it was
\* ordered to run.
<1>3. ASSUME pc'[r] \in {"Halt", "SetSize", "StartAgain"}, seen'[r].ids = {},
             pc'[r] \in {"Halt", "StartAgain"} => seen'[r].running,
             seen'[r].running =>
                Found(vm) /\ Found(vm)' /\ want' = want
                /\ (want[vm] = "RUNNING" \/ Blamed(vm))
      PROVE  KeepsTo(r)'
  <2>1. Blamed(vm) /\ Found(vm) /\ Found(vm)' => Blamed(vm)'
    BY <1>0, BlameStays DEF Found
  <2>2. Resizing(r)'
    BY <1>0, <1>3, <2>1 DEF Resizing
  <2>3. QED
    BY <1>3, <2>2, CoversStill DEF KeepsTo, Cloning, NameKept, CloneSeen, Deleting
<1>4. CASE FindRunning(r)
  <2>1. pc[r] = "FindRunning" /\ UNCHANGED <<vms, want>>
    BY <1>4 DEF FindRunning, Goto, host
  <2>2. OwnStates(r)
    BY <2>1, StatesLeft
  <2>3. CASE ~Found(vm)
    <3>1. pc'[r] = "failed" /\ seen' = seen
      BY <1>0, <1>4, <2>3 DEF FindRunning, Goto
    <3>2. QED
      BY <1>1, <2>2, <3>1, AtEase DEF Own
  <2>4. CASE Found(vm) /\ vms[vm].state # "RUNNING"
    <3>1. (vms[vm].state = "RUNNING") = FALSE
      BY <2>4
    <3>2. seen' = [seen EXCEPT ![r].running = FALSE]
      BY <1>4, <2>4, <3>1 DEF FindRunning
    <3>3. ~seen'[r].running /\ seen'[r].ids = {}
      BY <1>0, <1>1, <3>2 DEF Findings
    <3>4. pc'[r] = "SetSize"
      BY <1>0, <1>4, <2>4 DEF FindRunning, Goto
    <3>5. QED
      BY <1>3, <2>2, <3>3, <3>4 DEF Own
  <2>5. CASE Found(vm) /\ vms[vm].state = "RUNNING"
    <3>1. pc'[r] = "Halt" /\ seen'[r].running /\ seen'[r].ids = {}
      BY <1>0, <1>1, <1>4, <2>5 DEF FindRunning, Goto, Findings
    <3>2. ASSUME NEW q \in Script, req[q].vm = vm,
                 pc[q] \in {"SetSize", "StartAgain", "Remove"}
          PROVE  FALSE
      <4>1. q # r /\ Active(q) /\ req[q].op # "CreateVM"
        BY <2>1, <3>2 DEF Active, Over, HostInv, TypeInv, ScriptOK, Commands
      <4>2. vms[vm].name \in req[q].on /\ vms[vm].name \in req[r].on
        BY <2>5, <3>2, <4>1 DEF HostInv, KeepsTo, Covers
      <4>3. QED
        BY <4>1, <4>2 DEF HostInv, Apart
    <3>3. want[vm] = "RUNNING" \/ Blamed(vm)
      BY <2>5, <3>2 DEF HostInv, StatesDue, StateDue, Found
    <3>4. QED
      BY <1>2, <1>3, <1>4, <2>1, <2>2, <2>5, <3>1, <3>3 DEF Own
  <2>6. QED
    BY <2>3, <2>4, <2>5
<1>5. CASE Halt(r) \/ HaltFails(r)
  <2>1. pc[r] = "Halt" /\ pc'[r] = "SetSize" /\ UNCHANGED <<seen, want>>
    BY <1>0, <1>5 DEF Halt, HaltFails, Goto
  <2>2. seen[r].running /\ Found(vm) /\ (want[vm] = "RUNNING" \/ Blamed(vm))
    BY <1>0, <2>1 DEF Resizing
  <2>3. KeepsTo(r)'
    BY <1>1, <1>2, <1>3, <1>5, <2>1, <2>2
  <2>4. ASSUME NEW id \in DOMAIN vms' \cap DOMAIN vms PROVE StateDue(id)'
    <3>1. CASE id = vm
      BY <1>0, <2>1, <2>2, <3>1 DEF StateDue
    <3>2. CASE id # vm
      <4>1. vms'[id] = vms[id]
        BY <1>5, <3>2 DEF Halt, HaltFails, Change, host
      <4>2. QED
        BY <2>1, <3>2, <4>1, StateStays
    <3>3. QED
      BY <3>1, <3>2
  <2>5. QED
    BY <2>3, <2>4 DEF Own, OwnStates
<1>6. CASE SetSize(r)
  <2>1. /\ pc[r] = "SetSize" /\ UNCHANGED <<seen, want>>
        /\ seen[r].running => pc'[r] = "StartAgain"
        /\ ~seen[r].running => pc'[r] \in {"done", "failed"}
        /\ Change(Stopped({vm}), "size", req[r].number)
    BY <1>0, <1>6 DEF SetSize, Goto, Outcome
  <2>2. req[r].number \in Sizes
    BY <1>0 DEF TypeInv, ScriptOK, Asked
  <2>3. \A id \in DOMAIN vms : vms'[id].state = vms[id].state
    BY <1>0, <2>1, <2>2, ChangeFits
  <2>4. KeepsTo(r)'
    <3>1. CASE seen[r].running
      BY <1>0, <1>1, <1>2, <1>3, <1>6, <2>1, <3>1 DEF Resizing
    <3>2. CASE ~seen[r].running
      BY <1>1, <2>1, <3>2, AtEase
    <3>3. QED
      BY <3>1, <3>2
  <2>5. ASSUME NEW id \in DOMAIN vms' \cap DOMAIN vms PROVE StateDue(id)'
    <3>1. CASE seen[r].running /\ id = vm
      BY <1>0, <2>1, <3>1 DEF StateDue
    <3>2. CASE id # vm
      BY <2>1, <2>3, <3>2, StateStays
    <3>3. CASE ~seen[r].running /\ id = vm
      <4>1. Blamed(id) => Blamed(id)'
        BY BlameStays
      <4>2. StateDue(id)
        BY DEF HostInv, StatesDue
      <4>3. QED
        BY <2>1, <2>3, <3>3, <4>1, <4>2 DEF StateDue, Moves
    <3>4. QED
      BY <3>1, <3>2, <3>3
  <2>6. QED
    BY <2>4, <2>5 DEF Own, OwnStates
<1>7. CASE StartAgain(r) \/ StartAgainFails(r)
  <2>1. /\ pc[r] = "StartAgain" /\ pc'[r] \in {"done", "failed"} /\ want' = want
        /\ seen'[r].ids = {}
        /\ pc'[r] # "failed" => Change({vm}, "state", "RUNNING")
        /\ \A id \in DOMAIN vms : id # vm => vms'[id] = vms[id]
    BY <1>0, <1>7 DEF StartAgain, StartAgainFails, Forget, Unseen, Goto, Outcome, Change, host
  <2>2. Found(vm) /\ (want[vm] = "RUNNING" \/ Blamed(vm))
    BY <1>0, <2>1 DEF Resizing
  <2>3. KeepsTo(r)'
    BY <2>1, AtEase
  <2>4. ASSUME NEW id \in DOMAIN vms' \cap DOMAIN vms PROVE StateDue(id)'
    <3>1. CASE id # vm
      BY <2>1, <3>1, StateStays
    <3>2. CASE id = vm /\ pc'[r] = "failed"
      <4>1. vms'[id].name \in req[r].on
        BY <3>2, OnItsMachine DEF Confined
      <4>2. QED
        BY <1>0, <3>2, <4>1 DEF StateDue, Blamed
    <3>3. CASE id = vm /\ pc'[r] # "failed"
      <4>1. vms'[id].state = "RUNNING"
        BY <1>0, <2>1, <3>3 DEF Change, TablesOK
      <4>2. Blamed(id) => Blamed(id)'
        BY BlameStays
      <4>3. QED
        BY <2>1, <2>2, <3>3, <4>1, <4>2 DEF StateDue
    <3>4. QED
      BY <3>1, <3>2, <3>3
  <2>5. QED
    BY <2>3, <2>4 DEF Own, OwnStates
<1>8. QED
  BY <1>4, <1>5, <1>6, <1>7 DEF ResizeVM

LEMMA CommandOwn ==
    ASSUME HostInv, NEW r \in Script, Command(r) PROVE Own(r)
<1>1. TypeInv /\ Moves(r) /\ Active(r) /\ Confined(r)
  BY CommandMoves, CommandTidy DEF HostInv, Tidy
<1>2. QED
  BY <1>1, OwnCommand, CreateOwn, CloneOwn, DeleteOwn, ResizeOwn, PowerOwn, ResizeVHDOwn
     DEF Command

-----------------------------------------------------------------------------
(* The invariant.                                                           *)

LEMMA SpentGrows ==
    ASSUME HostInv, \A q \in Script : Spent(q) => Spent(q)', DOMAIN want' = DOMAIN want
    PROVE  OneEach'
<1> DEFINE S == {q \in Script : Spent(q)}
           T == {q \in Script : Spent(q)'}
<1>1. /\ IsFiniteSet(T) /\ S \subseteq T
      /\ Cardinality(S) \in Nat /\ Cardinality(T) \in Nat
  BY HostAssumption, FS_Subset, FS_CardinalityType
<1>2. Cardinality(S) <= Cardinality(T)
  BY <1>1, FS_Subset
<1>3. NewID \in Nat /\ NewID <= 1 + Cardinality(S) /\ NewID' = NewID
  BY NumberedUp DEF HostInv, TypeInv, OneEach, NewID
<1>4. NewID' <= 1 + Cardinality(T)
  BY <1>1, <1>2, <1>3
<1>5. QED
  BY <1>4 DEF OneEach

LEMMA MakesOneStill ==
    ASSUME HostInv, NEW r \in Script, Moves(r), NewID' = NewID + 1, ~Spent(r), Spent(r)'
    PROVE  OneEach' /\ NewID <= Cardinality(Script)
<1> DEFINE S == {q \in Script : Spent(q)}
           T == {q \in Script : Spent(q)'}
<1>1. /\ IsFiniteSet(S) /\ IsFiniteSet(Script)
      /\ Cardinality(S) \in Nat /\ Cardinality(T) \in Nat /\ Cardinality(Script) \in Nat
  BY HostAssumption, FS_Subset, FS_CardinalityType
<1>2. NewID \in Nat /\ NewID <= 1 + Cardinality(S)
  BY NumberedUp DEF HostInv, TypeInv, OneEach
<1>3. r \notin S /\ T = S \cup {r} /\ T \subseteq Script
  BY DEF Moves, Spent
<1>4. Cardinality(T) = Cardinality(S) + 1
  BY <1>1, <1>3, FS_AddElement
<1>5. Cardinality(T) <= Cardinality(Script)
  BY <1>1, <1>3, FS_Subset
<1>6. NewID' <= 1 + Cardinality(T) /\ NewID <= Cardinality(Script)
  BY <1>1, <1>2, <1>4, <1>5
<1>7. QED
  BY <1>6 DEF OneEach

LEMMA CommandInv ==
    ASSUME HostInv, NEW r \in Script, Command(r) PROVE HostInv'
<1>1. /\ Moves(r) /\ Active(r) /\ Tidy(r) /\ Confined(r) /\ Own(r) /\ req' = req
  BY CommandMoves, CommandTidy, CommandOwn DEF HostInv, Tidy, Moves
<1>2. TypeInv'
  BY CommandTypes DEF HostInv
<1>3. Apart'
  BY <1>1 DEF HostInv, Apart, Moves, Active
<1>4. OwnDisks'
  BY <1>1 DEF HostInv, OwnDisks, Confined, Named
<1>5. PartialCopies'
  <2> SUFFICES ASSUME NEW f \in Name, vhd'[f] = Partial
               PROVE  CloneCut' \/ \E q \in Script : pc'[q] = "copying" /\ f = req'[q].name
    BY DEF PartialCopies
  <2>1. CASE f \in req[r].on
    BY <1>1, <2>1, CutStays DEF Tidy, FilesInOrder
  <2>2. CASE f \notin req[r].on
    <3>1. vhd[f] = Partial
      BY <1>1, <2>2 DEF Confined
    <3>2. pc[r] = "copying" => f # req[r].name
      BY <1>1, <2>2 DEF HostInv, TypeInv, ScriptOK, Commands, Over, KeepsTo, Covers
    <3>3. QED
      BY <1>1, <3>1, <3>2, CutStays DEF HostInv, PartialCopies, Moves
  <2>3. QED
    BY <2>1, <2>2
<1>6. FilesDue'
  <2> SUFFICES ASSUME NEW f \in Name, vhd'[f] # NoDisk PROVE FileDue(f)'
    BY DEF FilesDue
  <2>1. CASE f \in req[r].on
    BY <1>1, <2>1 DEF Tidy, FilesInOrder
  <2>2. CASE f \notin req[r].on
    <3>1. FileDue(f)
      BY <1>1, <2>2 DEF Confined, HostInv, FilesDue
    <3>2. ~AboutTo(r, f)
      BY <1>1, <2>2 DEF AboutTo, HostInv, TypeInv, ScriptOK, Commands, Over, KeepsTo, Covers,
                        Deleting
    <3>3. ASSUME NEW id \in DOMAIN vms, vms[id].disk = f
          PROVE  id \in DOMAIN vms' /\ vms'[id].disk = f
      BY <1>1, <2>2, <3>3 DEF Confined, HostInv, OwnDisks
    <3>4. QED
      BY <1>1, <3>1, <3>2, <3>3, FileStaysDue
  <2>3. QED
    BY <2>1, <2>2
<1>7. StatesDue'
  BY <1>1, RestOfStates DEF Own
<1>8. OneEach'
  BY <1>1, SpentGrows, MakesOneStill DEF Tidy, MakesOne, Moves, Spent
<1>9. \A q \in Script : KeepsTo(q)'
  BY <1>1, OthersKeepTo DEF Own
<1>10. QED
  BY <1>2, <1>3, <1>4, <1>5, <1>6, <1>7, <1>8, <1>9 DEF HostInv

LEMMA AcceptInv ==
    ASSUME Exclusive, HostInv, NEW r \in Script, NEW x, Accept(r, x), Puts(x)
    PROVE  HostInv'
<1>1. /\ pc[r] = "idle" /\ UNCHANGED <<vms, vhd, cache, seen, want>>
      /\ DOMAIN req = Script /\ DOMAIN pc = Script
      /\ \A q \in Script : Active(q) => req[q].on \cap x.on = {}
      /\ KeepsTo(r)
  BY DEF Accept, Goto, host, HostInv, TypeInv
<1>2. /\ req' = [req EXCEPT ![r] = x] /\ pc' = [pc EXCEPT ![r] = FirstCommand(x.op)]
      /\ FirstCommand(x.op) \in {"NewVM", "Check", "Find", "FindRunning", "ResizeVHD",
                                 "Power"}
  BY DEF Accept, Goto, FirstCommand
<1>3. /\ pc'[r] \in {"NewVM", "Check", "Find", "FindRunning", "ResizeVHD", "Power"}
      /\ req'[r] = x /\ \A q \in Script \ {r} : pc'[q] = pc[q] /\ req'[q] = req[q]
  BY <1>1, <1>2
<1>4. TypeInv'
  BY AcceptTypes DEF HostInv
<1>5. Apart'
  BY <1>1, <1>3 DEF HostInv, Apart, Active
<1>6. OwnDisks'
  BY <1>1 DEF HostInv, OwnDisks
<1>7. PartialCopies'
  BY <1>1, <1>3 DEF HostInv, PartialCopies, CloneCut
<1>8. FilesDue'
  <2>1. ASSUME NEW q \in Script, NEW f, AboutTo(q, f) \/ LeftBy(q, f)
        PROVE  AboutTo(q, f)' \/ LeftBy(q, f)'
    BY <1>1, <1>3, <2>1 DEF AboutTo, LeftBy
  <2>2. QED
    BY <1>1, <2>1 DEF HostInv, FilesDue, FileDue
<1>9. \A id \in DOMAIN vms : Blamed(id) => Blamed(id)'
  BY <1>1, <1>3 DEF Blamed
<1>10. StatesDue'
  BY <1>1, <1>3, <1>9 DEF HostInv, StatesDue, StateDue
<1>11. OneEach'
  BY <1>1, <1>3, SpentGrows DEF Spent
<1>12. ASSUME NEW q \in Script \ {r} PROVE KeepsTo(q)'
  <2>1. Blamed(req[q].vm) /\ Found(req[q].vm) => Blamed(req[q].vm)'
    BY <1>1, <1>3 DEF Blamed, Found
  <2>2. KeepsTo(q)
    BY DEF HostInv
  <2>3. QED
    BY <1>1, <1>3, <2>1, <2>2
       DEF KeepsTo, Covers, Cloning, NameKept, CloneSeen, Deleting, Resizing, Active, Found,
           Named
<1>13. KeepsTo(r)'
  <2>1. Covers(r)'
    BY <1>1, <1>3 DEF Covers, Puts, Found
  <2>2. seen'[r].ids = {}
    BY <1>1 DEF KeepsTo, CloneSeen
  <2>3. QED
    BY <1>3, <2>1, <2>2 DEF KeepsTo, Cloning, NameKept, CloneSeen, Deleting, Resizing
<1>14. QED
  BY <1>4, <1>5, <1>6, <1>7, <1>8, <1>10, <1>11, <1>12, <1>13 DEF HostInv

LEMMA RebootInv ==
    ASSUME HostInv, HostReboots PROVE HostInv'
<1>1. /\ UNCHANGED <<vms, vhd, req, want>>
      /\ \A r \in Script : /\ pc'[r] = IF Active(r) THEN "cut" ELSE pc[r]
                           /\ seen'[r] = Unseen
  BY DEF HostReboots
<1>2. PICK s \in Script : Active(s)
  BY DEF HostReboots, Quiet
<1>3. \A r \in Script : ~Active(r)' /\ pc'[r] \in Over
  BY <1>1 DEF Active, Over
<1>4. TypeInv'
  BY RebootTypes DEF HostInv
<1>5. Apart' /\ OwnDisks'
  BY <1>1, <1>3 DEF Apart, HostInv, OwnDisks
<1>6. PartialCopies'
  <2>1. \A r \in Script : pc[r] = "copying" => pc'[r] = "cut" /\ req[r].op = "CloneVM"
    BY <1>1 DEF Active, Over, HostInv, TypeInv, ScriptOK, Commands
  <2>2. CloneCut => CloneCut'
    BY <1>1 DEF CloneCut, Active, Over
  <2>3. QED
    BY <1>1, <2>1, <2>2 DEF HostInv, PartialCopies, CloneCut
<1>7. FilesDue'
  <2>1. ASSUME NEW r \in Script, NEW f, AboutTo(r, f) \/ LeftBy(r, f) PROVE LeftBy(r, f)'
    <3>1. CASE LeftBy(r, f)
      BY <1>1, <3>1 DEF LeftBy, Active, Over
    <3>2. CASE AboutTo(r, f)
      <4>1. pc'[r] = "cut" /\ req'[r] = req[r]
        BY <1>1, <3>2 DEF AboutTo, Active, Over
      <4>2. IF pc[r] = "Erase" THEN req[r].op = "DeleteVM" /\ f \in req[r].on
            ELSE req[r].op = "CloneVM" /\ f = req[r].name
        BY <3>2 DEF AboutTo, HostInv, TypeInv, ScriptOK, Commands, Over, KeepsTo, Deleting
      <4>3. QED
        BY <4>1, <4>2 DEF LeftBy
    <3>3. QED
      BY <2>1, <3>1, <3>2
  <2>2. QED
    BY <1>1, <2>1 DEF HostInv, FilesDue, FileDue
<1>8. \A id \in DOMAIN vms : Blamed(id) => Blamed(id)'
  BY <1>1 DEF Blamed, Active, Over
<1>9. ASSUME NEW id \in DOMAIN vms, NEW r \in Script, req[r].vm = id,
             pc[r] \in {"SetSize", "StartAgain", "Remove"}
      PROVE  Blamed(id)'
  <2>1. Active(r) /\ vms[id].name \in req[r].on
    BY <1>9 DEF Active, Over, HostInv, TypeInv, ScriptOK, Commands, KeepsTo, Covers, Found
  <2>2. QED
    BY <1>1, <2>1 DEF Blamed
<1>10. StatesDue'
  BY <1>1, <1>8, <1>9 DEF HostInv, StatesDue, StateDue
<1>11. OneEach'
  BY <1>1, SpentGrows DEF Spent
<1>12. ASSUME NEW q \in Script PROVE KeepsTo(q)'
  BY <1>1, <1>3 DEF KeepsTo, Covers, Cloning, NameKept, CloneSeen, Deleting, Resizing, Over,
                    Unseen
<1>13. QED
  BY <1>4, <1>5, <1>6, <1>7, <1>10, <1>11, <1>12 DEF HostInv

LEMMA InitInv == Init => HostInv
<1> SUFFICES ASSUME Init PROVE HostInv
  OBVIOUS
<1>1. TypeInv
  BY InitTypes
<1>2. Apart /\ OwnDisks /\ PartialCopies /\ FilesDue /\ StatesDue
  BY HostAssumption DEF Init, Apart, Active, Over, OwnDisks, PartialCopies, FilesDue, FileDue,
                        AboutTo, LeftBy, StatesDue, StateDue
<1>3. OneEach
  <2>1. NewID = 1
    BY FS_Singleton DEF Init, NewID
  <2>2. Cardinality({r \in Script : Spent(r)}) \in Nat
    BY HostAssumption, FS_Subset, FS_CardinalityType
  <2>3. QED
    BY <2>1, <2>2 DEF OneEach
<1>4. \A r \in Script : KeepsTo(r)
  BY DEF Init, KeepsTo, Covers, Cloning, NameKept, CloneSeen, Deleting, Resizing, Active, Over,
         Unseen
<1>5. QED
  BY <1>1, <1>2, <1>3, <1>4 DEF HostInv

LEMMA HostStep ==
    ASSUME Exclusive, HostInv, [Next]_vars PROVE HostInv'
<1>1. CASE UNCHANGED vars
  <2>1. UNCHANGED <<vms, vhd, cache, pc, req, seen, want>>
    BY <1>1 DEF vars, host
  <2>2. TypeInv'
    BY <1>1, TypeStep DEF HostInv
  <2>3. Apart' /\ OwnDisks' /\ PartialCopies' /\ FilesDue' /\ StatesDue' /\ OneEach'
    <3>1. Apart' /\ OwnDisks' /\ PartialCopies'
      BY <2>1 DEF HostInv, Apart, Active, OwnDisks, PartialCopies, CloneCut
    <3>2. FilesDue'
      BY <2>1 DEF HostInv, FilesDue, FileDue, AboutTo, LeftBy
    <3>3. StatesDue' /\ OneEach'
      BY <2>1 DEF HostInv, StatesDue, StateDue, Blamed, OneEach, NewID, Spent
    <3>4. QED
      BY <3>1, <3>2, <3>3
  <2>4. \A r \in Script : KeepsTo(r)'
    BY <2>1 DEF HostInv, KeepsTo, Covers, Cloning, NameKept, CloneSeen, Deleting, Resizing,
                Active, Found, Named, Blamed
  <2>5. QED
    BY <2>2, <2>3, <2>4 DEF HostInv
<1>2. ASSUME NEW r \in Script, RequestNew(r) \/ RequestClone(r) \/ RequestOne(r)
      PROVE  HostInv'
  BY <1>2, RequestsPut, AcceptInv DEF HostInv
<1>3. QED
  BY <1>1, <1>2, CommandInv, RebootInv DEF Next

(* Requests under way on different machines and names never share a disk    *)
(* file or leave a machine without one (engine.go:186, 449-462).            *)
THEOREM DisksStayApart == Exclusive => (Spec => []DisksUnshared)
<1> SUFFICES ASSUME Exclusive PROVE Spec => []DisksUnshared
  OBVIOUS
<1>1. HostInv => DisksUnshared
  <2> SUFFICES ASSUME HostInv PROVE DisksUnshared
    OBVIOUS
  <2>1. ASSUME NEW a \in DOMAIN vms, vhd[vms[a].disk] = Partial PROVE CloneCut
    <3>1. vms[a].disk \in Name /\ vms[a].disk = vms[a].name
      BY DEF HostInv, TypeInv, TablesOK, OwnDisks
    <3>2. \A r \in Script : pc[r] = "copying" => vms[a].disk # req[r].name
      BY <3>1 DEF HostInv, KeepsTo, NameKept, Named
    <3>3. QED
      BY <2>1, <3>1, <3>2 DEF HostInv, PartialCopies
  <2>2. QED
    BY <2>1 DEF HostInv, OwnDisks, DisksUnshared
<1>2. QED
  BY InitInv, HostStep, <1>1, PTL DEF Spec

(* Only scripts that were cut off and clones that came to nothing leave a   *)
(* file behind; creations and deletions leave none (engine.go:250-254,      *)
(* 455-465).                                                                *)
THEOREM FilesHaveOwners == Exclusive => (Spec => []NoOrphanDisks)
<1> SUFFICES ASSUME Exclusive PROVE Spec => []NoOrphanDisks
  OBVIOUS
<1>1. HostInv => NoOrphanDisks
  <2>1. Quiet => \A r \in Script, f \in Name : ~AboutTo(r, f)
    BY DEF Quiet, Active, Over, AboutTo
  <2>2. QED
    BY <2>1 DEF HostInv, FilesDue, FileDue, NoOrphanDisks
<1>2. QED
  BY InitInv, HostStep, <1>1, PTL DEF Spec

(* A machine stopped for a resize runs again, and every other is in the     *)
(* state it was last ordered into (engine.go:407-415).                      *)
THEOREM MachinesAsOrdered == Exclusive => (Spec => []RunsAsOrdered)
<1> SUFFICES ASSUME Exclusive PROVE Spec => []RunsAsOrdered
  OBVIOUS
<1>1. HostInv => RunsAsOrdered
  BY DEF HostInv, StatesDue, StateDue, Blamed, RunsAsOrdered, Quiet, Active, Over
<1>2. QED
  BY InitInv, HostStep, <1>1, PTL DEF Spec

-----------------------------------------------------------------------------
(* The host implements the engine of VMEngine, step by step.                *)

EngineMoves == Engine!EngineStep(Host) \/ UNCHANGED Engine!engines

LEMMA EngineStays ==
    ASSUME DOMAIN vms' = DOMAIN vms, \A id \in DOMAIN vms : View(id)' = View(id)
    PROVE  EngineMoves
<1>1. UNCHANGED Engine!engines
  BY DEF Engine!engines
<1>2. QED
  BY <1>1 DEF EngineMoves

LEMMA Numbers == HostInv => DOMAIN vms \subseteq ID
<1> SUFFICES ASSUME HostInv PROVE DOMAIN vms \subseteq ID
  OBVIOUS
<1> DEFINE S == {q \in Script : Spent(q)}
<1>1. Cardinality(S) <= Cardinality(Script) /\ Cardinality(S) \in Nat
      /\ Cardinality(Script) \in Nat
  BY HostAssumption, FS_Subset, FS_CardinalityType
<1>2. NewID \in Nat /\ NewID <= 1 + Cardinality(S) /\ DOMAIN want = 0 .. NewID - 1
  BY NumberedUp DEF HostInv, TypeInv, OneEach
<1>3. 0 .. NewID - 1 \subseteq 0 .. Cardinality(Script)
  BY <1>1, <1>2
<1>4. QED
  BY <1>2, <1>3 DEF HostInv, TypeInv, TablesOK, ID

\* One machine's view changes in one field, and with it the whole.
LEMMA ViewsChange ==
    ASSUME NEW S, NEW id \in S, NEW E, NEW F, NEW x,
           E = [k \in S |-> E[k]], F = [k \in S |-> F[k]],
           \A k \in S \ {id} : F[k] = E[k]
    PROVE  /\ F[id] = [E[id] EXCEPT !.state = x] =>
                 [h \in {Host} |-> F] = [[h \in {Host} |-> E] EXCEPT ![Host][id].state = x]
           /\ F[id] = [E[id] EXCEPT !.size = x] =>
                 [h \in {Host} |-> F] = [[h \in {Host} |-> E] EXCEPT ![Host][id].size = x]
<1>1. ASSUME F[id] = [E[id] EXCEPT !.state = x]
      PROVE  [h \in {Host} |-> F] = [[h \in {Host} |-> E] EXCEPT ![Host][id].state = x]
  <2>1. F = [E EXCEPT ![id] = [E[id] EXCEPT !.state = x]]
    BY <1>1
  <2>2. QED
    BY <2>1
<1>2. ASSUME F[id] = [E[id] EXCEPT !.size = x]
      PROVE  [h \in {Host} |-> F] = [[h \in {Host} |-> E] EXCEPT ![Host][id].size = x]
  <2>1. F = [E EXCEPT ![id] = [E[id] EXCEPT !.size = x]]
    BY <1>2
  <2>2. QED
    BY <2>1
<1>3. QED
  BY <1>1, <1>2

LEMMA EngineSetsState ==
    ASSUME NEW id \in DOMAIN vms, id \in ID, DOMAIN vms' = DOMAIN vms,
           NEW state \in {"RUNNING", "STOPPED"}, View(id)' = [View(id) EXCEPT !.state = state],
           \A k \in DOMAIN vms \ {id} : View(k)' = View(k)
    PROVE  EngineMoves
<1>1. PICK E : E = [k \in DOMAIN vms |-> View(k)]
  OBVIOUS
<1>2. PICK F : F = [k \in DOMAIN vms |-> View(k)]'
  OBVIOUS
<1>3. [h \in {Host} |-> F] = [[h \in {Host} |-> E] EXCEPT ![Host][id].state = state]
  <2>1. /\ E = [k \in DOMAIN vms |-> E[k]] /\ F = [k \in DOMAIN vms |-> F[k]]
        /\ \A k \in DOMAIN vms \ {id} : F[k] = E[k]
        /\ F[id] = [E[id] EXCEPT !.state = state]
    BY <1>1, <1>2
  <2>2. QED
    BY <2>1, ViewsChange
<1>4. Engine!SetState(Host, id, state)
  BY <1>1, <1>2, <1>3 DEF Engine!SetState, Engine!Exists
<1>5. QED
  BY <1>4 DEF EngineMoves, Engine!EngineStep, Engine!StartVM, Engine!StopVM

LEMMA EngineSetsSize ==
    ASSUME NEW id \in DOMAIN vms, id \in ID, DOMAIN vms' = DOMAIN vms,
           NEW size \in Sizes, View(id)' = [View(id) EXCEPT !.size = size],
           \A k \in DOMAIN vms \ {id} : View(k)' = View(k)
    PROVE  EngineMoves
<1>1. PICK E : E = [k \in DOMAIN vms |-> View(k)]
  OBVIOUS
<1>2. PICK F : F = [k \in DOMAIN vms |-> View(k)]'
  OBVIOUS
<1>3. [h \in {Host} |-> F] = [[h \in {Host} |-> E] EXCEPT ![Host][id].size = size]
  <2>1. /\ E = [k \in DOMAIN vms |-> E[k]] /\ F = [k \in DOMAIN vms |-> F[k]]
        /\ \A k \in DOMAIN vms \ {id} : F[k] = E[k]
        /\ F[id] = [E[id] EXCEPT !.size = size]
    BY <1>1, <1>2
  <2>2. QED
    BY <2>1, ViewsChange
<1>4. Engine!ResizeVM(Host, id, size)
  BY <1>1, <1>2, <1>3, HostAssumption DEF Engine!ResizeVM, Engine!CanResize, Engine!Exists
<1>5. QED
  BY <1>4 DEF EngineMoves, Engine!EngineStep

LEMMA EngineGrowsDisk ==
    ASSUME NEW id \in DOMAIN vms, id \in ID, DOMAIN vms' = DOMAIN vms,
           NEW disk \in Disks, disk > View(id).disk, View(id)' = [View(id) EXCEPT !.disk = disk],
           \A k \in DOMAIN vms \ {id} : View(k)' = View(k)
    PROVE  EngineMoves
<1>1. PICK E : E = [k \in DOMAIN vms |-> View(k)]
  OBVIOUS
<1>2. PICK F : F = [k \in DOMAIN vms |-> View(k)]'
  OBVIOUS
<1>3. [h \in {Host} |-> F] = [[h \in {Host} |-> E] EXCEPT ![Host][id].disk = disk]
  <2>1. /\ E = [k \in DOMAIN vms |-> E[k]] /\ F = [k \in DOMAIN vms |-> F[k]]
        /\ \A k \in DOMAIN vms \ {id} : F[k] = E[k]
        /\ F[id] = [E[id] EXCEPT !.disk = disk]
    BY <1>1, <1>2
  <2>2. F = [E EXCEPT ![id] = [E[id] EXCEPT !.disk = disk]]
    BY <2>1
  <2>3. QED
    BY <2>2
<1>4. Engine!ExpandDisk(Host, id, disk)
  BY <1>1, <1>2, <1>3 DEF Engine!ExpandDisk, Engine!CanExpand, Engine!Exists
<1>5. QED
  BY <1>4 DEF EngineMoves, Engine!EngineStep

LEMMA EngineDeletes ==
    ASSUME NEW id \in DOMAIN vms, id \in ID, DOMAIN vms' = DOMAIN vms \ {id},
           \A k \in DOMAIN vms \ {id} : View(k)' = View(k)
    PROVE  EngineMoves
<1>1. Engine!DeleteVM(Host, id)
  BY DEF Engine!DeleteVM, Engine!Exists
<1>2. QED
  BY <1>1 DEF EngineMoves, Engine!EngineStep

LEMMA EngineCreates ==
    ASSUME HostInv, NEW id \in ID \ {FirstID}, id \notin DOMAIN vms, DOMAIN vms' = DOMAIN vms \cup {id},
           NEW name \in Name, Named(name) = {}, NEW disk \in Disks \cup {0},
           View(id)' = [name |-> name, state |-> "STOPPED", size |-> 1, disk |-> disk],
           \A k \in DOMAIN vms : View(k)' = View(k)
    PROVE  EngineMoves
<1>1. Engine!CanCreate(Host, name)
  <2>1. \A k \in DOMAIN vms : vms[k].name \in Name /\ vms[k].name # name
    BY DEF Named, HostInv, TypeInv, TablesOK
  <2>2. QED
    BY <2>1 DEF Engine!CanCreate, Engine!NameFree, View
<1>2. Engine!CreateVM(Host, id, name, 1, disk)
  BY <1>1 DEF Engine!CreateVM, Engine!NewID, Engine!Exists, Engine!With
<1>3. QED
  BY <1>2, HostAssumption DEF EngineMoves, Engine!EngineStep

LEMMA ChangeViews ==
    ASSUME TablesOK, NEW ids, NEW field, NEW value, Change(ids, field, value), vhd' = vhd,
           \/ field = "state" /\ value \in {"RUNNING", "STOPPED"}
           \/ field = "size" /\ value \in Sizes
           \/ field = "dvd" /\ value \in Image \cup {NoImage}
    PROVE  /\ DOMAIN vms' = DOMAIN vms
           /\ \A k \in DOMAIN vms :
                 /\ k \notin ids \/ field = "dvd" => View(k)' = View(k)
                 /\ k \in ids /\ field = "state" => View(k)' = [View(k) EXCEPT !.state = value]
                 /\ k \in ids /\ field = "size" => View(k)' = [View(k) EXCEPT !.size = value]
BY DEF TablesOK, Change, View

\* A command that changes a field of at most one machine.
LEMMA ChangeMoves ==
    ASSUME HostInv, NEW ids, NEW field, NEW value, Change(ids, field, value), vhd' = vhd,
           \/ field = "state" /\ value \in {"RUNNING", "STOPPED"}
           \/ field = "size" /\ value \in Sizes
           \/ field = "dvd" /\ value \in Image \cup {NoImage},
           \A j, k \in ids \cap DOMAIN vms : j = k
    PROVE  EngineMoves
<1>1. TablesOK
  BY DEF HostInv, TypeInv
<1>2. CASE ids \cap DOMAIN vms = {} \/ field = "dvd"
  BY <1>1, <1>2, ChangeViews, EngineStays
<1>3. CASE ids \cap DOMAIN vms # {} /\ field # "dvd"
  <2>1. PICK id \in DOMAIN vms : id \in ids /\ \A k \in DOMAIN vms \ {id} : k \notin ids
    BY <1>3
  <2>2. id \in ID
    BY Numbers
  <2>3. DOMAIN vms' = DOMAIN vms /\ \A k \in DOMAIN vms \ {id} : View(k)' = View(k)
    BY <1>1, <2>1, ChangeViews
  <2>4. CASE field = "state"
    BY <1>1, <2>1, <2>2, <2>3, <2>4, ChangeViews, EngineSetsState
  <2>5. CASE field = "size"
    BY <1>1, <2>1, <2>2, <2>3, <2>5, ChangeViews, EngineSetsSize
  <2>6. QED
    BY <1>3, <2>4, <2>5
<1>4. QED
  BY <1>2, <1>3

LEMMA StillMoves ==
    ASSUME UNCHANGED <<vms, vhd>> PROVE EngineMoves
<1>1. \A id \in DOMAIN vms : View(id)' = View(id)
  BY DEF View
<1>2. QED
  BY <1>1, EngineStays

\* A file that is no machine's.
LEMMA FileMoves ==
    ASSUME HostInv, vms' = vms, NEW f, Named(f) = {}, \A g \in Name \ {f} : vhd'[g] = vhd[g]
    PROVE  EngineMoves
<1>1. \A id \in DOMAIN vms : vms[id].disk \in Name \ {f}
  BY DEF HostInv, TypeInv, TablesOK, OwnDisks, Named
<1>2. \A id \in DOMAIN vms : View(id)' = View(id)
  BY <1>1 DEF View
<1>3. QED
  BY <1>2, EngineStays

LEMMA MadeMoves ==
    ASSUME HostInv, NEW r \in Script, Moves(r), Made(NewID, req[r].name),
           Named(req[r].name) = {}, ~Spent(r), Spent(r)',
           vhd'[req[r].name] \in Disks \cup {Partial},
           \A g \in Name \ {req[r].name} : vhd'[g] = vhd[g]
    PROVE  EngineMoves
<1>1. /\ NewID \in Nat \ {0} /\ NewID \notin DOMAIN want /\ NewID \notin DOMAIN vms
      /\ NewID' = NewID + 1
      /\ req[r].name \in Name
  BY NumberedUp, NumberedNext DEF HostInv, TypeInv, TablesOK, ScriptOK, Asked
<1>2. NewID \in ID
  <2>1. NewID <= Cardinality(Script) /\ Cardinality(Script) \in Nat
    BY <1>1, MakesOneStill, HostAssumption, FS_CardinalityType
  <2>2. QED
    BY <1>1, <2>1 DEF ID
<1>3. DOMAIN vms' = DOMAIN vms \cup {NewID}
  BY DEF Made, With
<1>4. ASSUME NEW k \in DOMAIN vms PROVE View(k)' = View(k)
  <2>1. vms'[k] = vms[k] /\ vms[k].disk \in Name \ {req[r].name}
    BY <1>1 DEF Made, With, HostInv, TypeInv, TablesOK, OwnDisks, Named
  <2>2. QED
    BY <2>1 DEF View
<1>5. PICK id \in ID \ {FirstID} : id = NewID
  BY <1>1, <1>2 DEF FirstID
<1>6. PICK disk \in Disks \cup {0} :
         disk = IF vhd'[req[r].name] = Partial THEN 0 ELSE vhd'[req[r].name]
  OBVIOUS
<1>7. View(id)' = [name |-> req[r].name, state |-> "STOPPED", size |-> 1, disk |-> disk]
  BY <1>5, <1>6 DEF View, Made, With
<1>8. QED
  BY <1>1, <1>3, <1>4, <1>5, <1>7, EngineCreates

LEMMA CreateEngine ==
    ASSUME HostInv, NEW r \in Script, Active(r), Moves(r), CreateVM(r), req[r].op = "CreateVM"
    PROVE  EngineMoves
<1>1. /\ req[r].name \in Name /\ req[r].number = 1 /\ req[r].image \in Image \cup {NoImage}
      /\ vhd \in [Name -> Disks \cup {NoDisk, Partial}]
  BY DEF HostInv, TypeInv, ScriptOK, Asked, TablesOK
<1>2. \A j, k \in Stopped(Named(req[r].name)) \cap DOMAIN vms : j = k
  BY DEF Stopped, Named, HostInv, OwnDisks
<1>3. CASE NewVM(r)
  <2>1. CASE ~UNCHANGED <<vms, vhd, want>>
    <3>1. Named(req[r].name) = {}
      BY <1>3, <2>1 DEF NewVM, HostInv, OwnDisks, Named
    <3>2. /\ Made(NewID, req[r].name) /\ vhd'[req[r].name] = 1
          /\ \A g \in Name \ {req[r].name} : vhd'[g] = vhd[g]
      BY <1>1, <1>3, <2>1 DEF NewVM
    <3>3. ~Spent(r) /\ Spent(r)'
      BY <1>3 DEF NewVM, Goto, Spent, HostInv, TypeInv
    <3>4. QED
      BY <3>1, <3>2, <3>3, MadeMoves, HostAssumption
  <2>2. CASE UNCHANGED <<vms, vhd, want>>
    BY <2>2, StillMoves
  <2>3. QED
    BY <2>1, <2>2
<1>4. CASE Tune(r)
  BY <1>2, <1>4, ChangeMoves, HostAssumption DEF Tune
<1>5. CASE TestPath(r) \/ Unfetched(r) \/ Fetched(r) \/ FetchFails(r)
  BY <1>5, StillMoves DEF TestPath, Unfetched, Fetched, FetchFails, host
<1>6. CASE AddDvd(r)
  BY <1>1, <1>2, <1>6, ChangeMoves DEF AddDvd
<1>7. QED
  BY <1>3, <1>4, <1>5, <1>6 DEF CreateVM

LEMMA PowerEngine ==
    ASSUME HostInv, NEW r \in Script, Power(r) \/ PowerFails(r) PROVE EngineMoves
<1>1. CASE PowerFails(r)
  BY <1>1, StillMoves DEF PowerFails, host
<1>2. CASE Power(r)
  <2>1. PICK to \in {"RUNNING", "STOPPED"} : Change({req[r].vm}, "state", to) /\ vhd' = vhd
    BY <1>2 DEF Power
  <2>2. QED
    BY <2>1, ChangeMoves
<1>3. QED
  BY <1>1, <1>2

LEMMA ResizeVHDEngine ==
    ASSUME HostInv, NEW r \in Script, ResizeVHD(r), req[r].op = "ExpandDisk"
    PROVE  EngineMoves
<1>1. CASE CanGrow(r)
  <2>1. PICK id \in DOMAIN vms : id = req[r].vm
    BY <1>1 DEF CanGrow, Found
  <2>2. PICK disk \in Disks : disk = req[r].number
    BY DEF HostInv, TypeInv, ScriptOK, Asked
  <2>3. /\ vms[id].disk \in Name /\ vhd[vms[id].disk] \in Disks /\ vhd[vms[id].disk] < disk
        /\ vms' = vms /\ vhd' = [vhd EXCEPT ![vms[id].disk] = disk]
        /\ DOMAIN vhd = Name
    BY <1>1, <2>1, <2>2 DEF CanGrow, ResizeVHD, HostInv, TypeInv, TablesOK
  <2>4. View(id).disk = vhd[vms[id].disk] /\ View(id)' = [View(id) EXCEPT !.disk = disk]
    BY <2>3, HostAssumption DEF View
  <2>5. ASSUME NEW k \in DOMAIN vms \ {id} PROVE View(k)' = View(k)
    <3>1. vms[k].disk # vms[id].disk
      BY DEF HostInv, OwnDisks
    <3>2. QED
      BY <2>3, <3>1 DEF View
  <2>6. disk > View(id).disk
    BY <2>3, <2>4, HostAssumption
  <2>7. QED
    BY <2>3, <2>4, <2>5, <2>6, Numbers, EngineGrowsDisk
<1>2. CASE ~CanGrow(r)
  BY <1>2, StillMoves DEF ResizeVHD
<1>3. QED
  BY <1>1, <1>2

LEMMA DeleteEngine ==
    ASSUME HostInv, NEW r \in Script, Active(r), DeleteVM(r) PROVE EngineMoves
<1>1. CASE Find(r)
  BY <1>1, StillMoves DEF Find, host
<1>2. CASE TurnOff(r)
  BY <1>2, ChangeMoves DEF TurnOff
<1>3. CASE Remove(r)
  <2>1. pc[r] = "Remove" /\ vhd' = vhd
    BY <1>3 DEF Remove, Goto
  <2>2. PICK id \in DOMAIN vms : id = req[r].vm /\ vms[id].state = "STOPPED"
    BY <2>1 DEF HostInv, KeepsTo, Deleting, Found
  <2>3. vms' = [k \in DOMAIN vms \ {id} |-> vms[k]]
    BY <1>3, <2>2 DEF Remove, Stopped
  <2>4. \A k \in DOMAIN vms \ {id} : View(k)' = View(k)
    BY <2>1, <2>3 DEF View
  <2>5. QED
    BY <2>3, <2>4, Numbers, EngineDeletes
<1>4. CASE Erase(r)
  <2>1. PICK f \in Name : f = seen[r].disk
    BY DEF HostInv, TypeInv, ScriptOK, Findings
  <2>2. Named(f) = {}
    BY <1>4, <2>1 DEF Erase, Goto, HostInv, KeepsTo, Deleting
  <2>3. vms' = vms /\ \A g \in Name \ {f} : vhd'[g] = vhd[g]
    BY <1>4, <2>1 DEF Erase, HostInv, TypeInv, TablesOK
  <2>4. QED
    BY <2>2, <2>3, FileMoves
<1>5. QED
  BY <1>1, <1>2, <1>3, <1>4 DEF DeleteVM

LEMMA ResizeEngine ==
    ASSUME HostInv, NEW r \in Script, ResizeVM(r), req[r].op = "ResizeVM"
    PROVE  EngineMoves
<1>1. CASE FindRunning(r) \/ HaltFails(r) \/ StartAgainFails(r)
  BY <1>1, StillMoves DEF FindRunning, HaltFails, StartAgainFails, host
<1>2. CASE Halt(r) \/ StartAgain(r)
  BY <1>2, ChangeMoves DEF Halt, StartAgain
<1>3. CASE SetSize(r)
  <2>1. req[r].number \in Sizes
    BY DEF HostInv, TypeInv, ScriptOK, Asked
  <2>2. \A j, k \in Stopped({req[r].vm}) : j = k
    BY DEF Stopped
  <2>3. QED
    BY <1>3, <2>1, <2>2, ChangeMoves DEF SetSize
<1>4. QED
  BY <1>1, <1>2, <1>3 DEF ResizeVM

LEMMA CloneEngine ==
    ASSUME HostInv, NEW r \in Script, Active(r), Moves(r), CloneVM(r), req[r].op = "CloneVM"
    PROVE  EngineMoves
<1>1. /\ req[r].name \in Name /\ seen[r].size \in Sizes
      /\ vhd \in [Name -> Disks \cup {NoDisk, Partial}]
      /\ pc[r] \in {"CopyItem", "copying", "NewVMFromDisk"} => Named(req[r].name) = {}
  BY DEF HostInv, TypeInv, ScriptOK, Asked, Findings, TablesOK, KeepsTo, NameKept
<1>2. CASE CheckThrows(r) \/ Check(r)
  BY <1>2, StillMoves DEF CheckThrows, Check, host
<1>3. CASE CopyBegins(r) \/ CopyEnds(r) \/ NotCopied(r)
  <2>1. PICK f \in Name : f = req[r].name /\ Named(f) = {}
    BY <1>1, <1>3 DEF CopyBegins, CopyEnds, NotCopied, Goto
  <2>2. vms' = vms /\ \A g \in Name \ {f} : vhd'[g] = vhd[g]
    BY <1>1, <1>3, <2>1 DEF CopyBegins, CopyEnds, NotCopied
  <2>3. QED
    BY <2>1, <2>2, FileMoves
<1>4. CASE NewVMFromDisk(r)
  <2>1. vhd' = vhd /\ ~Spent(r) /\ Spent(r)' /\ Named(req[r].name) = {}
    BY <1>1, <1>4 DEF NewVMFromDisk, Goto, Spent, HostInv, TypeInv
  <2>2. CASE ~UNCHANGED <<vms, seen, want>>
    <3>1. Made(NewID, req[r].name) /\ vhd'[req[r].name] \in Disks \cup {Partial}
      BY <1>1, <1>4, <2>1, <2>2 DEF NewVMFromDisk
    <3>2. QED
      BY <2>1, <3>1, MadeMoves
  <2>3. CASE UNCHANGED <<vms, seen, want>>
    BY <2>1, <2>3, StillMoves
  <2>4. QED
    BY <2>2, <2>3
<1>5. CASE TuneClone(r)
  <2>1. \A j, k \in Stopped(seen[r].ids) : j = k
    BY DEF Stopped, HostInv, KeepsTo, CloneSeen
  <2>2. QED
    BY <1>1, <1>5, <2>1, ChangeMoves DEF TuneClone
<1>6. QED
  BY <1>2, <1>3, <1>4, <1>5 DEF CloneVM

LEMMA StepEngine ==
    ASSUME HostInv, [Next]_vars PROVE EngineMoves
<1>1. ASSUME NEW r \in Script, Command(r) PROVE EngineMoves
  <2>1. Moves(r) /\ Active(r)
    BY <1>1, CommandMoves DEF HostInv
  <2>2. QED
    BY <1>1, <2>1, OwnCommand, CreateEngine, CloneEngine, DeleteEngine, ResizeEngine,
       PowerEngine, ResizeVHDEngine DEF Command, HostInv
<1>2. ASSUME NEW r \in Script, RequestNew(r) \/ RequestClone(r) \/ RequestOne(r)
      PROVE  EngineMoves
  BY <1>2, StillMoves DEF RequestNew, RequestClone, RequestOne, Accept, host
<1>3. CASE HostReboots \/ UNCHANGED vars
  BY <1>3, StillMoves DEF HostReboots, vars, host
<1>4. QED
  BY <1>1, <1>2, <1>3 DEF Next

LEMMA InitEngine == Init => Engine!EnginesInit
<1> SUFFICES ASSUME Init PROVE Engine!EnginesInit
  OBVIOUS
<1>1. /\ DOMAIN vms = {FirstID}
      /\ View(FirstID) = [name |-> FirstName, state |-> "RUNNING", size |-> 1, disk |-> 1]
  BY HostAssumption DEF Init, View
<1>2. QED
  BY <1>1 DEF Engine!EnginesInit, Engine!newSimulatedEngine

(* Scripts on different machines and names, each a dozen commands that      *)
(* interleave with the others', do together what the simulated engine does  *)
(* under its lock (engine.go:139-480 and 546-781).                          *)
THEOREM HostImplementsEngine == Exclusive => (Spec => ImplementsEngine)
<1> SUFFICES ASSUME Exclusive PROVE Spec => ImplementsEngine
  OBVIOUS
<1>1. HostInv /\ [Next]_vars => [\E n \in {Host} : Engine!EngineStep(n)]_(Engine!engines)
  BY StepEngine DEF EngineMoves
<1>2. QED
  BY InitInv, InitEngine, HostStep, <1>1, PTL DEF Spec, ImplementsEngine, Engine!EnginesSpec
=============================================================================
