----------------------------- MODULE VMConsole ------------------------------
(***************************************************************************)
(* The dashboard's virtual machine windows (cmd/controller/dashboard.go),  *)
(* the controller's proxyToNode and the agents' handlers (cmd/agent),      *)
(* composed with the engines of VMEngine.  The page sends requests and     *)
(* handles their answers in the order they arrive in, whatever it shows by *)
(* then; the proxy gives up after ten seconds on a request the node goes   *)
(* on with, and never repeats one.                                         *)
(*                                                                         *)
(* The windows for resizing, expanding and cloning name the machine and    *)
(* cover the table they were opened from, so opening one and submitting it *)
(* are one step.  Forms, their lists of switches and images, alerts and    *)
(* markup are left out.                                                    *)
(***************************************************************************)
EXTENDS VMEngine

CONSTANTS
    None,       \* JavaScript's null
    Patient,    \* does the operator wait for the page to settle before
                \* clicking again?  The page does not ask for it.
    Clicks      \* model bound: commands and windows opened, in all

ASSUME ConsoleAssumption ==
    /\ None \notin Node \cup ID
    /\ Patient \in BOOLEAN
    /\ Clicks \in Nat

VARIABLES
    node,         \* currentVMNodeId
    table,        \* vmTableBody: whose machines, and the machines
    snapVM,       \* currentSnapshotVMId
    snapTable,    \* snapshotTableBody: whose checkpoints, and their names
    pending,      \* requests the page waits for
    late,         \* requests the proxy gave up on and the node goes on with
    answers,      \* answers on their way to the page
    sent,         \* requests sent so far: they tell requests apart
    clicks,       \* clicks so far
    unheard       \* has the proxy ever missed the answer to a request that the
                  \* node went on with, or had carried out?

page    == <<node, table, snapVM, snapTable>>
network == <<pending, late, answers, sent>>
vars    == <<engines, page, network, clicks, unheard>>

\* A machine, or no machine in particular, of a node.
At(n, id) == [node |-> n, vm |-> id]
Loading == [text |-> "loading"]
Failed  == [text |-> "failed"]
Machines(at, rows) == [at |-> at, vms |-> rows]
Snapshots(at, rows) == [at |-> at, snaps |-> rows]

ConsoleInit ==
    /\ EnginesInit
    /\ node = None /\ table = Loading
    /\ snapVM = None /\ snapTable = Loading
    /\ pending = {} /\ late = {} /\ answers = {} /\ sent = 0
    /\ clicks = 0
    /\ unheard = FALSE

SnapshotNames(n, id) ==
    {checkpoints[n][id][i].name : i \in DOMAIN checkpoints[n][id]}

\* A request: what is asked of which machine, with a name and a number, and
\* the machine on whose row, or among whose checkpoints, the operator clicked.
Request(op, to, name, number, shown) ==
    [op |-> op, to |-> to, name |-> name, number |-> number,
     shown |-> shown, seq |-> sent]

Fetch(op, to) == Request(op, to, None, 0, to)

Post(r) ==
    /\ pending' = pending \cup {r}
    /\ sent' = sent + 1

Settled == pending = {} /\ answers = {}

Click ==
    /\ Patient => Settled
    /\ clicks < Clicks
    /\ clicks' = clicks + 1
    /\ UNCHANGED <<engines, late, answers, unheard>>

-----------------------------------------------------------------------------
(* The operator.  A window covers what it was opened from.                  *)

\* Mutant: the table is left as it was and not loaded again.
openVMModalAsLeft(n) ==
    /\ Click
    /\ node = None
    /\ node' = n
    /\ UNCHANGED <<table, snapVM, snapTable, pending, sent>>

openVMModal(n) ==
    /\ Click
    /\ node = None
    /\ node' = n
    /\ table' = Loading
    /\ Post(Fetch("ListVMs", At(n, None)))
    /\ UNCHANGED <<snapVM, snapTable>>

closeVMModal ==
    /\ Patient => Settled
    /\ node # None /\ snapVM = None
    /\ node' = None
    /\ UNCHANGED <<engines, table, snapVM, snapTable, network, clicks, unheard>>

\* A button of the row of id; the request goes to the node of the moment.
RowButton(id, op, name, number) ==
    /\ Click
    /\ node # None /\ snapVM = None
    /\ table \notin {Loading, Failed}
    /\ id \in DOMAIN table.vms
    /\ Post(Request(op, At(node, id), name, number, At(table.at.node, id)))
    /\ UNCHANGED page

controlVM(id) ==
    LET Running == table.vms[id].state = "RUNNING"
    IN \/ ~Running /\ RowButton(id, "StartVM", None, 0)
       \/ Running  /\ RowButton(id, "StopVM", None, 0)
       \/ Running  /\ RowButton(id, "RestartVM", None, 0)

deleteVM(id)         == RowButton(id, "DeleteVM", None, 0)
submitResizeVM(id)   == \E size \in Sizes : RowButton(id, "ResizeVM", None, size)
submitExpandDisk(id) == \E disk \in Disks \ {0} : RowButton(id, "ExpandDisk", None, disk)
submitCloneVM(id)    == \E name \in Name \ {NoName} : RowButton(id, "CloneVM", name, 0)

submitNewVM ==
    /\ Click
    /\ node # None /\ snapVM = None
    /\ \E name \in Name, disk \in Disks :
          Post(Request("CreateVM", At(node, None), name, disk, At(node, None)))
    /\ UNCHANGED page

openSnapshotsModal(id) ==
    /\ Click
    /\ node # None /\ snapVM = None
    /\ table \notin {Loading, Failed}
    /\ id \in DOMAIN table.vms
    /\ snapVM' = id
    /\ snapTable' = Loading
    /\ Post(Fetch("ListCheckpoints", At(node, id)))
    /\ UNCHANGED <<node, table>>

closeSnapshotsModal ==
    /\ Patient => Settled
    /\ snapVM # None
    /\ snapVM' = None
    /\ UNCHANGED <<engines, node, table, snapTable, network, clicks, unheard>>

submitNewSnapshot ==
    /\ Click
    /\ node # None /\ snapVM # None
    /\ \E s \in Snapshot :
          Post(Request("CreateCheckpoint", At(node, snapVM), s, 0, At(node, snapVM)))
    /\ UNCHANGED page

\* A button of the row of a checkpoint; the request names the machine of the
\* moment.
SnapshotButton(op) ==
    /\ Click
    /\ node # None /\ snapVM # None
    /\ snapTable \notin {Loading, Failed}
    /\ \E s \in snapTable.snaps :
          Post(Request(op, At(node, snapVM), s, 0, snapTable.at))
    /\ UNCHANGED page

restoreSnapshot == SnapshotButton("RestoreCheckpoint")
deleteSnapshot  == SnapshotButton("DeleteCheckpoint")

Operator ==
    \/ \E n \in Node : openVMModal(n)
    \/ closeVMModal \/ submitNewVM
    \/ /\ table \notin {Loading, Failed}
       /\ \E id \in DOMAIN table.vms :
             \/ controlVM(id) \/ deleteVM(id) \/ submitResizeVM(id)
             \/ submitExpandDisk(id) \/ submitCloneVM(id) \/ openSnapshotsModal(id)
    \/ closeSnapshotsModal \/ submitNewSnapshot \/ restoreSnapshot \/ deleteSnapshot

-----------------------------------------------------------------------------
(* The node: the agent's handlers call the engine and answer once.          *)

Perform(r) ==
    LET n == r.to.node  id == r.to.vm
    IN \/ r.op = "CreateVM" /\ \E new \in ID : CreateVM(n, new, r.name, 1, r.number)
       \/ r.op = "CloneVM"  /\ \E new \in ID : CloneVM(n, new, id, r.name)
       \/ r.op = "StartVM"    /\ StartVM(n, id)
       \/ r.op = "StopVM"     /\ StopVM(n, id)
       \/ r.op = "RestartVM"  /\ RestartVM(n, id)
       \/ r.op = "DeleteVM"   /\ DeleteVM(n, id)
       \/ r.op = "ResizeVM"   /\ ResizeVM(n, id, r.number)
       \/ r.op = "ExpandDisk" /\ ExpandDisk(n, id, r.number)
       \/ r.op = "CreateCheckpoint"  /\ CreateCheckpoint(n, id, r.name)
       \/ r.op = "RestoreCheckpoint" /\ RestoreCheckpoint(n, id, r.name)
       \/ r.op = "DeleteCheckpoint"  /\ DeleteCheckpoint(n, id, r.name)

\* What the node accepts; a request for no node is the controller's 404.
Accepted(r) ==
    LET n == r.to.node  id == r.to.vm
    IN CASE r.op = "ListVMs"    -> TRUE
         [] r.op = "CreateVM"   -> CanCreate(n, r.name)
         [] r.op = "CloneVM"    -> CanClone(n, id, r.name)
         [] r.op = "ResizeVM"   -> CanResize(n, id, r.number)
         [] r.op = "ExpandDisk" -> CanExpand(n, id, r.number)
         [] r.op \in {"RestoreCheckpoint", "DeleteCheckpoint"}
                                -> HasCheckpoint(n, id, r.name)
         [] OTHER               -> Exists(n, id)

Refused(r) == r.to.node = None \/ ~Accepted(r)

Listing == {"ListVMs", "ListCheckpoints"}

Error(r) == [req |-> r, ok |-> FALSE]
Done(r)  == [req |-> r, ok |-> TRUE]

Reply(r, answer) ==
    /\ r \in pending
    /\ pending' = pending \ {r}
    /\ answers' = answers \cup {answer}
    /\ UNCHANGED <<page, sent, clicks>>

HandleRefused(r) ==
    /\ Refused(r)
    /\ Reply(r, Error(r))
    /\ UNCHANGED <<engines, late, unheard>>

HandleCommand(r) ==
    /\ ~Refused(r) /\ r.op \notin Listing
    /\ Perform(r)
    /\ Reply(r, Done(r))
    /\ UNCHANGED <<late, unheard>>

HandleListVMs(r) ==
    /\ ~Refused(r) /\ r.op = "ListVMs"
    /\ Reply(r, [req |-> r, ok |-> TRUE, vms |-> vms[r.to.node]])
    /\ UNCHANGED <<engines, late, unheard>>

HandleListCheckpoints(r) ==
    /\ ~Refused(r) /\ r.op = "ListCheckpoints"
    /\ Reply(r, [req |-> r, ok |-> TRUE,
                 snaps |-> SnapshotNames(r.to.node, r.to.vm)])
    /\ UNCHANGED <<engines, late, unheard>>

\* The node is OFFLINE, or its agent cannot be reached: 502.  So is a listing
\* whose answer is lost.
Unreachable(r) ==
    /\ Reply(r, Error(r))
    /\ UNCHANGED <<engines, late, unheard>>

\* The connection breaks once the node has carried a command out: 502 too.
AnswerLost(r) ==
    /\ ~Refused(r) /\ r.op \notin Listing
    /\ Perform(r)
    /\ Reply(r, Error(r))
    /\ unheard' = TRUE
    /\ UNCHANGED late

\* Ten seconds, or a connection that breaks while the node is at work: 502,
\* and the node knows nothing of it.
TimesOut(r) ==
    /\ r.to.node # None
    /\ Reply(r, Error(r))
    /\ late' = late \cup {r}
    /\ unheard' = TRUE
    /\ UNCHANGED engines

HandleLate(r) ==
    /\ r \in late
    /\ IF Refused(r) \/ r.op \in Listing
       THEN UNCHANGED engines
       ELSE Perform(r)
    /\ late' = late \ {r}
    /\ UNCHANGED <<page, pending, answers, sent, clicks, unheard>>

-----------------------------------------------------------------------------
(* The page handles an answer.                                              *)

Take(a) ==
    /\ a \in answers
    /\ answers' = answers \ {a}
    /\ UNCHANGED <<engines, node, snapVM, late, clicks, unheard>>

\* Mutant: no catch.
ShowVMsAnswered(a) ==
    /\ Take(a)
    /\ a.req.op = "ListVMs"
    /\ table' = IF a.ok THEN Machines(a.req.to, a.vms) ELSE table
    /\ UNCHANGED <<snapTable, pending, sent>>

ShowVMs(a) ==
    /\ Take(a)
    /\ a.req.op = "ListVMs"
    /\ table' = IF a.ok THEN Machines(a.req.to, a.vms) ELSE Failed
    /\ UNCHANGED <<snapTable, pending, sent>>

ShowSnapshots(a) ==
    /\ Take(a)
    /\ a.req.op = "ListCheckpoints"
    /\ snapTable' = IF a.ok THEN Snapshots(a.req.to, a.snaps) ELSE Failed
    /\ UNCHANGED <<table, pending, sent>>

OnCheckpoints == {"CreateCheckpoint", "DeleteCheckpoint"}

\* Mutant: the table is left as it is.
ReloadVMsForgotten(a) ==
    /\ Take(a)
    /\ a.ok /\ a.req.op \notin Listing \cup OnCheckpoints
    /\ UNCHANGED <<table, snapTable, pending, sent>>

\* loadVMs(currentVMNodeId), which may be another node, or null, by now.
ReloadVMs(a) ==
    /\ Take(a)
    /\ a.ok /\ a.req.op \notin Listing \cup OnCheckpoints
    /\ table' = Loading
    /\ Post(Fetch("ListVMs", At(node, None)))
    /\ UNCHANGED snapTable

ReloadSnapshots(a) ==
    /\ Take(a)
    /\ a.ok /\ a.req.op \in OnCheckpoints
    /\ snapTable' = Loading
    /\ Post(Fetch("ListCheckpoints", At(node, snapVM)))
    /\ UNCHANGED table

\* An alert and nothing else.
AlertError(a) ==
    /\ Take(a)
    /\ ~a.ok /\ a.req.op \notin Listing
    /\ UNCHANGED <<table, snapTable, pending, sent>>

Page(a) ==
    \/ ShowVMs(a) \/ ShowSnapshots(a) \/ ReloadVMs(a) \/ ReloadSnapshots(a)
    \/ AlertError(a)

Proxy ==
    \E r \in pending :
        \/ HandleRefused(r) \/ HandleCommand(r)
        \/ HandleListVMs(r) \/ HandleListCheckpoints(r)
        \/ Unreachable(r) \/ AnswerLost(r) \/ TimesOut(r)
AnswerArrives == \E a \in answers : Page(a)

Next == Operator \/ Proxy \/ AnswerArrives \/ \E r \in late : HandleLate(r)

\* Every request is answered, by the proxy's timeout if by nothing else, and
\* the page handles what arrives.
Spec == ConsoleInit /\ [][Next]_vars /\ WF_vars(Proxy) /\ WF_vars(AnswerArrives)
-----------------------------------------------------------------------------
(* What the operator clicks is what is done: a command goes to the machine  *)
(* on whose row, or among whose checkpoints, the button was                 *)
(* (dashboard.go:1206, 1213, 1152 and 1168 take node and machine from the   *)
(* page's variables, the row from the last answer).  It holds for an        *)
(* operator who lets the page settle between clicks.                        *)
ActsOnWhatItShows ==
    \A r \in pending \cup late : r.to = r.shown

(* While nothing is under way, the windows show what the node has           *)
(* (dashboard.go:1004-1057, 1099-1126, and the reload after every command   *)
(* that is answered), as long as the proxy got the answer to every request  *)
(* a node acted on: after an error the page does not load anything again.   *)
ShowsTheNode ==
    Settled /\ ~unheard /\ node # None =>
        /\ table \in {Failed, Machines(At(node, None), vms[node])}
        /\ snapVM # None =>
              snapTable \in {Failed, Snapshots(At(node, snapVM),
                                               SnapshotNames(node, snapVM))}

(* A table does not go on loading: whatever the node does, the proxy        *)
(* answers (main.go:472-478) and the page shows it (dashboard.go:1009-1056).*)
LoadingEnds ==
    /\ (node # None /\ table = Loading) ~> (node = None \/ table # Loading)
    /\ (snapVM # None /\ snapTable = Loading)
          ~> (snapVM = None \/ snapTable # Loading)
=============================================================================
