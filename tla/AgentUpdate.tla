---------------------------- MODULE AgentUpdate -----------------------------
(***************************************************************************)
(* Over-the-air update of one node's agent (pkg/updater, the handlers of   *)
(* agent and controller, the installers): a request is answered, then a    *)
(* goroutine of the agent downloads the controller's binary, stages it as  *)
(* <exe>.new and either starts apply-update.bat, which outlives the agent, *)
(* or, off Windows, renames the staged file over the running one.          *)
(*                                                                         *)
(* A file is the build it holds; the controller only offers builds for     *)
(* Windows (main.go:325).  An executable cannot be written while it runs,  *)
(* but a POSIX path may come to name another file than the one that runs;  *)
(* a POSIX file renamed is still the one its writers write to.             *)
(***************************************************************************)
EXTENDS Naturals

CONSTANTS
    Job,           \* update requests
    Builds,        \* model bound: builds after build 0
    Elf,           \* the Linux agent's binary
    Torn,          \* a file cut short or mixed from two
    NoFile,        \* no file; no running agent
    Deployments,   \* how the node may be set up: a "task" started at boot
                   \* (install.bat, the PowerShell installer), or "linux"
    Overlap        \* what may begin before the update under way is over: an
                   \* "update", an "install"; the code takes both at any time

Build == 0..Builds

ASSUME UpdateAssumption ==
    /\ Builds \in Nat
    /\ {Elf, Torn, NoFile} \cap Build = {}
    /\ Elf # Torn /\ Torn # NoFile /\ NoFile # Elf
    /\ Deployments \subseteq {"task", "linux"}
    /\ Overlap \subseteq {"update", "install"}

VARIABLES
    bin,          \* the build in the controller's bin directory
    deployment,   \* how the node is set up
    running,      \* the binary the agent was started from
    inUse,        \* is the file at <exe> the one the agent runs?
    exe, new,     \* the files <exe> and <exe>.new
    bat,          \* is apply-update.bat there?
    setup,        \* an installer: "none", "writing" <exe>, "written"
    cut,          \* was the last write into <exe> itself cut off?
    placed,       \* history: the updates that put their build at <exe>,
                  \* since the last installation
    met,          \* history: was an update asked for with one under way?
    pc,           \* where the update is, in the agent and then in its script
    asked,        \* the build the operator was offering when asking
    data,         \* the build downloaded
    open          \* the file its staging write goes to

agent == <<running, inUse>>
files == <<exe, new, bat>>
since == <<setup, cut, placed, met>>
node  == <<deployment, agent, files, since>>
vars  == <<bin, node, pc, asked, data, open>>

InAgent  == {"asked", "fetched", "staging", "staged"}
InScript == {"waiting", "stopped", "copying", "copied", "cleaned", "started"}

Copying == \E j \in Job : pc[j] = "copying"
Updating == \E j \in Job : pc[j] \in InAgent \cup InScript

\* The build for the wrong system cannot be executed, nor can half a file.
Runnable(file) ==
    IF deployment = "linux" THEN file = Elf ELSE file \in Build

Init ==
    /\ bin = 0
    /\ deployment \in Deployments
    /\ running = NoFile /\ inUse = FALSE
    /\ exe = NoFile /\ new = NoFile /\ bat = FALSE
    /\ setup = "none" /\ cut = FALSE /\ placed = {} /\ met = FALSE
    /\ pc = [j \in Job |-> "idle"]
    /\ asked = [j \in Job |-> 0]
    /\ data = [j \in Job |-> 0]
    /\ open = [j \in Job |-> "none"]

Goto(j, from, to) ==
    /\ pc[j] = from
    /\ pc' = [pc EXCEPT ![j] = to]

\* The agent's process ends, and the updates it had under way with it.
Killed == [j \in Job |-> IF pc[j] \in InAgent THEN "killed" ELSE pc[j]]

AgentEnds ==
    /\ running' = NoFile
    /\ inUse' = FALSE
    /\ open' = [j \in Job |-> "none"]

-----------------------------------------------------------------------------
(* The request.                                                             *)

\* go build -o bin/crybaby-agent.exe
NewBuild ==
    /\ bin < Builds
    /\ bin' = bin + 1
    /\ UNCHANGED <<node, pc, asked, data, open>>

\* The node answers 200 before it begins.  An OFFLINE node, a missing binary
\* and a malformed request are turned down without a change.
Trigger(j) ==
    /\ running # NoFile
    /\ Updating => "update" \in Overlap
    /\ setup # "none" => "install" \in Overlap
    /\ Goto(j, "idle", "asked")
    /\ asked' = [asked EXCEPT ![j] = bin]
    /\ met' = (met \/ Updating)
    /\ UNCHANGED <<bin, deployment, agent, files, setup, cut, placed, data, open>>

-----------------------------------------------------------------------------
(* ApplyUpdate, in the agent.                                               *)

\* No answer, not 200, cut short, too small or not an executable.
DownloadFails(j) ==
    /\ Goto(j, "asked", "failed")
    /\ UNCHANGED <<bin, node, asked, data, open>>

\* Mutant: the bytes in memory are those of the first download.
DownloadCached(j) ==
    /\ Goto(j, "asked", "fetched")
    /\ UNCHANGED <<bin, node, asked, data, open>>

\* Mutant: the error of io.ReadAll is ignored.
DownloadCutShort(j) ==
    /\ Goto(j, "asked", "fetched")
    /\ data' = [data EXCEPT ![j] = Torn]
    /\ UNCHANGED <<bin, node, asked, open>>

\* validateBinary takes Windows and Linux executables on either system.
Download(j) ==
    /\ Goto(j, "asked", "fetched")
    /\ data' = [data EXCEPT ![j] = bin]
    /\ UNCHANGED <<bin, node, asked, open>>

\* os.WriteFile truncates the file it finds.
StageBegins(j) ==
    /\ Goto(j, "fetched", "staging")
    /\ new' = Torn
    /\ open' = [open EXCEPT ![j] = "new"]
    /\ UNCHANGED <<bin, deployment, agent, exe, bat, since, asked, data>>

\* What is left when a build is written over what was there, alone or not.
Over(file, build, alone) ==
    IF alone /\ file \in {Torn, build} THEN {build} ELSE {build, Torn}

StageEnds(j) ==
    /\ Goto(j, "staging", "staged")
    /\ LET alone == \A k \in Job : open[k] = open[j] => k = j
       IN  /\ new' \in IF open[j] = "new" THEN Over(new, data[j], alone) ELSE {new}
           /\ exe' \in IF open[j] = "exe"
                       THEN Over(exe, data[j], alone /\ setup # "writing") ELSE {exe}
    /\ open' = [open EXCEPT ![j] = "none"]
    /\ UNCHANGED <<bin, deployment, agent, bat, since, asked, data>>

\* Mutant: the error of os.WriteFile is ignored.
StageFailsIgnored(j) ==
    /\ Goto(j, "staging", "staged")
    /\ open' = [open EXCEPT ![j] = "none"]
    /\ UNCHANGED <<bin, node, asked, data>>

\* A full disk: the torn file is left.
StageFails(j) ==
    /\ Goto(j, "staging", "failed")
    /\ open' = [open EXCEPT ![j] = "none"]
    /\ UNCHANGED <<bin, node, asked, data>>

SpawnScript(j) ==
    /\ deployment # "linux"
    /\ Goto(j, "staged", "waiting")
    /\ bat' = TRUE
    /\ UNCHANGED <<bin, deployment, agent, exe, new, since, asked, data, open>>

\* The script is not written or cmd.exe does not start: both files go.
SpawnFails(j) ==
    /\ deployment # "linux"
    /\ Goto(j, "staged", "failed")
    /\ new' = IF \E k \in Job : open[k] = "new" THEN new ELSE NoFile
    /\ bat' = FALSE
    /\ UNCHANGED <<bin, deployment, agent, exe, since, asked, data, open>>

\* os.Rename; the process goes on running the file it was started from, and
\* an installer's curl goes on writing to the file that was there.
RenameOver(j) ==
    /\ deployment = "linux"
    /\ new # NoFile
    /\ Goto(j, "staged", "done")
    /\ exe' = new
    /\ new' = NoFile
    /\ inUse' = FALSE
    /\ setup' = IF setup = "writing" THEN "written" ELSE setup
    /\ cut' = FALSE
    /\ placed' = placed \cup {j}
    /\ open' = [k \in Job |-> IF open[k] = "new" THEN "exe" ELSE "none"]
    /\ UNCHANGED <<bin, deployment, running, bat, met, asked, data>>

\* Another update has renamed it already, or the directory refuses.
RenameFails(j) ==
    /\ deployment = "linux"
    /\ Goto(j, "staged", "failed")
    /\ new' = NoFile
    /\ open' = [k \in Job |-> IF open[k] = "new" THEN "none" ELSE open[k]]
    /\ UNCHANGED <<bin, deployment, agent, exe, bat, since, asked, data>>

ApplyUpdate(j) ==
    /\ running # NoFile
    /\ \/ DownloadFails(j) \/ Download(j)
       \/ StageBegins(j) \/ StageEnds(j) \/ StageFails(j)
       \/ SpawnScript(j) \/ SpawnFails(j)
       \/ RenameOver(j) \/ RenameFails(j)

-----------------------------------------------------------------------------
(* apply-update.bat, one command after the other; none looks at the outcome *)
(* of the one before.                                                       *)

\* net stop CrybabyAgent: no installer sets up a service of that name.
NetStop(j) ==
    /\ Goto(j, "waiting", "stopped")
    /\ bat
    /\ UNCHANGED <<bin, node, asked, data, open>>

\* What cannot be written: an executable that runs or that another copies.
Locked == inUse \/ Copying

\* copy /y onto a file in use, or of one that is not there.
CopyRefused(j) ==
    /\ Goto(j, "stopped", "copied")
    /\ bat
    /\ Locked \/ setup = "writing" \/ new = NoFile
    /\ UNCHANGED <<bin, node, asked, data, open>>

CopyBegins(j) ==
    /\ Goto(j, "stopped", "copying")
    /\ bat
    /\ ~Locked /\ setup # "writing" /\ new # NoFile
    /\ exe' = Torn
    /\ cut' = FALSE
    /\ UNCHANGED <<bin, deployment, agent, new, bat, setup, placed, met, asked, data, open>>

CopyEnds(j) ==
    /\ Goto(j, "copying", "copied")
    /\ exe' = new
    /\ placed' = placed \cup {j}
    /\ UNCHANGED <<bin, deployment, agent, new, bat, setup, cut, met, asked, data, open>>

\* A full disk.
CopyFails(j) ==
    /\ Goto(j, "copying", "copied")
    /\ cut' = TRUE
    /\ UNCHANGED <<bin, deployment, agent, files, setup, placed, met, asked, data, open>>

\* del <exe>.new, which fails while the file is in use.
DeleteNew(j) ==
    /\ Goto(j, "copied", "cleaned")
    /\ bat
    /\ new' = IF Copying \/ \E k \in Job : open[k] = "new" THEN new ELSE NoFile
    /\ UNCHANGED <<bin, deployment, agent, exe, bat, since, asked, data, open>>

\* net start CrybabyAgent: no such service either.
NetStart(j) ==
    /\ Goto(j, "cleaned", "started")
    /\ bat
    /\ UNCHANGED <<bin, node, asked, data, open>>

\* del "%~f0"
DeleteScript(j) ==
    /\ Goto(j, "started", "done")
    /\ bat' = FALSE
    /\ UNCHANGED <<bin, deployment, agent, exe, new, since, asked, data, open>>

\* cmd.exe reads its script line by line: one that is gone ends it.
ScriptAborts(j) ==
    /\ pc[j] \in InScript \ {"copying", "started"}
    /\ ~bat
    /\ pc' = [pc EXCEPT ![j] = "killed"]
    /\ UNCHANGED <<bin, node, asked, data, open>>

Script(j) ==
    \/ NetStop(j) \/ CopyRefused(j) \/ CopyBegins(j) \/ CopyEnds(j) \/ CopyFails(j)
    \/ DeleteNew(j) \/ NetStart(j) \/ DeleteScript(j) \/ ScriptAborts(j)

-----------------------------------------------------------------------------
(* The agent's process and the machine.                                     *)

\* At boot, by systemd or by an installer; a file open for writing is refused.
AgentStarts ==
    /\ running = NoFile
    /\ Runnable(exe)
    /\ ~Copying /\ setup # "writing" /\ \A j \in Job : open[j] # "exe"
    /\ running' = exe
    /\ inUse' = TRUE
    /\ UNCHANGED <<bin, deployment, files, since, pc, asked, data, open>>

\* log.Fatalf, or killed.  The scripts go on.
AgentExits ==
    /\ running # NoFile
    /\ AgentEnds
    /\ pc' = Killed
    /\ UNCHANGED <<bin, deployment, files, since, asked, data>>

\* The machine goes down, at any moment, and comes up again.
Reboot ==
    /\ AgentEnds
    /\ pc' = [j \in Job |-> IF pc[j] \in InScript THEN "killed" ELSE Killed[j]]
    /\ setup' = "none"
    /\ cut' = (cut \/ Copying \/ setup = "writing")
    /\ UNCHANGED <<bin, deployment, files, placed, met, asked, data>>

-----------------------------------------------------------------------------
(* The installers, one at a time: install.bat and the PowerShell installer  *)
(* for a "task", the shell installer on "linux".                            *)

MayInstall == setup = "none" /\ (Updating => "install" \in Overlap)

\* copy /y, Invoke-WebRequest -OutFile and curl -o write <exe> itself.
InstallBegins ==
    /\ MayInstall
    /\ ~Locked
    /\ exe' = Torn
    /\ setup' = "writing"
    /\ cut' = FALSE
    /\ placed' = {}
    /\ UNCHANGED <<bin, deployment, agent, new, bat, met, pc, asked, data, open>>

\* install.bat does not look whether its copy was refused; the others stop,
\* which changes nothing.
InstallRefused ==
    /\ MayInstall
    /\ deployment = "task"
    /\ Locked
    /\ setup' = "written"
    /\ UNCHANGED <<bin, deployment, agent, files, cut, placed, met, pc, asked, data, open>>

\* A USB pack may hold an older build than the controller has now.
InstallEnds ==
    /\ setup = "writing"
    /\ \E build \in IF deployment = "linux" THEN {Elf} ELSE 0..bin :
          exe' \in Over(exe, build, \A j \in Job : open[j] # "exe")
    /\ setup' = "written"
    /\ UNCHANGED <<bin, deployment, agent, new, bat, cut, placed, met, pc, asked, data, open>>

\* The download breaks or the disk is full; install.bat goes on all the same.
InstallFails ==
    /\ setup = "writing"
    /\ setup' \in {"none"} \cup (IF deployment = "task" THEN {"written"} ELSE {})
    /\ cut' = TRUE
    /\ UNCHANGED <<bin, deployment, agent, files, placed, met, pc, asked, data, open>>

\* The agent is ended (taskkill, Stop-Process, systemctl restart) and the
\* task or unit registered; AgentStarts is the start that follows.
InstallRestarts ==
    /\ setup = "written"
    /\ AgentEnds
    /\ pc' = Killed
    /\ setup' = "none"
    /\ UNCHANGED <<bin, deployment, files, cut, placed, met, asked, data>>

Install ==
    \/ InstallBegins \/ InstallRefused \/ InstallEnds
    \/ InstallFails \/ InstallRestarts

Next ==
    \/ NewBuild \/ AgentStarts \/ AgentExits \/ Reboot \/ Install
    \/ \E j \in Job : Trigger(j) \/ ApplyUpdate(j) \/ Script(j)

\* A goroutine and a script that can go on do, and an agent that can start
\* does some time, at the next boot at the latest; the rest need not happen.
Spec ==
    /\ Init /\ [][Next]_vars
    /\ \A j \in Job : WF_vars(ApplyUpdate(j)) /\ WF_vars(Script(j))
    /\ WF_vars(AgentStarts)

-----------------------------------------------------------------------------
(* The types of the node, its files and the updates.                        *)
TypeOK ==
    /\ bin \in Build
    /\ deployment \in {"task", "linux"}
    /\ running \in Build \cup {Elf, NoFile}
    /\ inUse \in BOOLEAN
    /\ exe \in Build \cup {Elf, Torn, NoFile}
    /\ new \in Build \cup {Torn, NoFile}
    /\ bat \in BOOLEAN
    /\ setup \in {"none", "writing", "written"}
    /\ cut \in BOOLEAN
    /\ placed \subseteq Job
    /\ met \in BOOLEAN
    /\ pc \in [Job -> {"idle", "done", "failed", "killed"} \cup InAgent \cup InScript]
    /\ asked \in [Job -> Build]
    /\ data \in [Job -> Build]
    /\ open \in [Job -> {"none", "new", "exe"}]

\* The file at <exe> is whole, but for a write into itself.
WholeInPlace == exe = Torn => Copying \/ setup = "writing" \/ cut

(* The executable in place is a whole one, whatever fails and whenever      *)
(* agent and machine go down, unless the last write into that very file is  *)
(* still under way or was cut off: a staged build that is cut short is      *)
(* never put there (updater.go:74-81, 87-92;                                *)
(* docs/superpowers/plans/2026-11-01-crybaby-ota-update.md:17, 25).  Once   *)
(* two updates have met nothing is said: they share <exe>.new.              *)
InstalledWhole == met \/ WholeInPlace

Ended(j) == pc[j] \in {"failed", "killed"}
AtLeast(file, j) == file \in Build /\ file >= asked[j]

\* What updates put in place is there, or a build no older.
NoneOlder == \A j \in placed : exe = Torn \/ AtLeast(exe, j)

(* Once an update has put its build in place, nothing but a reinstallation  *)
(* brings back a build older than was offered when it was asked for: no     *)
(* later download, no staged file or script left by an update that failed   *)
(* (updater.go:78-92, 109), until two updates meet, as above.               *)
DoneStaysInstalled == met \/ NoneOlder

(* The answer given for an update says "initiated, restarting service..."   *)
(* (agent main.go:385): the node then runs the build, or the update failed. *)
RestartAsAnnounced ==
    \A j \in Job : pc[j] = "asked" ~> Ended(j) \/ AtLeast(running, j)
=============================================================================
