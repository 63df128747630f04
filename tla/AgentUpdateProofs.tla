------------------------- MODULE AgentUpdateProofs --------------------------
(***************************************************************************)
(* Proofs about AgentUpdate, for any number of update requests and builds, *)
(* and installers at any time: until an update is asked for while another  *)
(* is under way, the installed executable is a whole one, and what an      *)
(* update put in place is not replaced by an older build.                  *)
(***************************************************************************)
EXTENDS AgentUpdate, TLAPS

Active(j) == pc[j] \in InAgent \cup InScript

OneAtATime == \A j, k \in Job : Active(j) /\ Active(k) => j = k

\* A staging write goes to <exe>.new, never to a file renamed under it.
WritesToNew ==
    \A j \in Job : /\ open[j] # "exe"
                   /\ open[j] = "new" <=> pc[j] = "staging"

\* What a lone update staged is what it downloaded, up to the copy.
StagedWhole ==
    \A j \in Job :
        /\ pc[j] = "staging" => new = Torn
        /\ pc[j] \in {"staged", "waiting", "stopped", "copying"} => new = data[j]

\* An installer writes alone, over a file no update has been put in since.
WritesAlone ==
    setup = "writing" => exe = Torn /\ placed = {} /\ ~Copying

\* Holds until two updates meet.
UpdateInv ==
    /\ TypeOK /\ OneAtATime /\ WritesToNew /\ StagedWhole /\ WritesAlone
    /\ WholeInPlace

LEMMA UpdateInitInv == Init => UpdateInv
<1>1. Init => TypeOK
  <2>1. 0 \in Build
    BY UpdateAssumption DEF Build
  <2>2. Init => pc \in [Job -> {"idle", "done", "failed", "killed"}
                                 \cup InAgent \cup InScript]
    BY DEF Init, InAgent, InScript
  <2>3. Init => open \in [Job -> {"none", "new", "exe"}]
    BY DEF Init
  <2>4. Init => asked \in [Job -> Build] /\ data \in [Job -> Build]
    BY <2>1 DEF Init
  <2>5. Init => bin \in Build /\ exe = NoFile /\ running = NoFile /\ inUse = FALSE
    BY <2>1 DEF Init
  <2>6. Init => /\ deployment \in {"task", "linux"} /\ new = NoFile /\ bat = FALSE
                /\ setup = "none" /\ cut = FALSE /\ placed = {} /\ met = FALSE
    BY UpdateAssumption DEF Init
  <2>7. QED
    BY <2>2, <2>3, <2>4, <2>5, <2>6 DEF TypeOK
<1>2. Init => WritesToNew /\ OneAtATime /\ StagedWhole
  BY DEF Init, WritesToNew, OneAtATime, StagedWhole, Active, InAgent, InScript
<1>3. Init => WritesAlone /\ WholeInPlace
  BY UpdateAssumption DEF Init, WritesAlone, WholeInPlace
<1>4. QED
  BY <1>1, <1>2, <1>3 DEF UpdateInv

(* New builds, the request, the agent's process and the machine.            *)
LEMMA MachineKeeps ==
    ASSUME UpdateInv, ~met',
           NewBuild \/ AgentStarts \/ AgentExits \/ Reboot \/ \E j \in Job : Trigger(j)
    PROVE  UpdateInv'
<1> USE UpdateAssumption DEF UpdateInv, TypeOK, OneAtATime, WritesToNew,
     StagedWhole, WritesAlone, WholeInPlace, Active, Copying, InAgent, InScript,
     Build, node, agent, files, since
<1>1. CASE NewBuild
  BY <1>1 DEF NewBuild
<1>2. CASE AgentStarts
  BY <1>2 DEF AgentStarts, Runnable
<1>3. CASE AgentExits
  BY <1>3 DEF AgentExits, AgentEnds, Killed
<1>4. CASE Reboot
  <2>1. \A j \in Job : /\ pc'[j] \in {"idle", "done", "failed", "killed"}
                       /\ open'[j] = "none"
    BY <1>4 DEF Reboot, Killed, AgentEnds
  <2>2. TypeOK'
    BY <1>4, <2>1 DEF Reboot, Killed, AgentEnds
  <2>3. OneAtATime' /\ WritesToNew' /\ StagedWhole'
    BY <2>1
  <2>4. WritesAlone' /\ WholeInPlace'
    BY <1>4 DEF Reboot
  <2>5. QED
    BY <2>2, <2>3, <2>4
<1>5. CASE \E j \in Job : Trigger(j)
  <2>1. PICK j \in Job : Trigger(j)
    BY <1>5
  <2>2. \A k \in Job : ~Active(k)
    BY <2>1 DEF Trigger, Updating
  <2>3. pc' = [pc EXCEPT ![j] = "asked"] /\ asked' = [asked EXCEPT ![j] = bin]
    BY <2>1 DEF Trigger, Goto
  <2>4. UNCHANGED <<bin, deployment, agent, files, setup, cut, placed, data, open>>
    BY <2>1 DEF Trigger
  <2>5. TypeOK'
    BY <2>3, <2>4, <2>1 DEF Trigger, Updating
  <2>6. OneAtATime' /\ WritesToNew' /\ StagedWhole'
    BY <2>2, <2>3, <2>4
  <2>7. WritesAlone' /\ WholeInPlace'
    BY <2>2, <2>3, <2>4
  <2>8. QED
    BY <2>5, <2>6, <2>7
<1>6. QED
  BY <1>1, <1>2, <1>3, <1>4, <1>5

(* The installers.                                                          *)
LEMMA InstallKeeps ==
    ASSUME UpdateInv, Install
    PROVE  UpdateInv'
<1> USE UpdateAssumption DEF UpdateInv, TypeOK, OneAtATime, WritesToNew,
     StagedWhole, WritesAlone, WholeInPlace, Active, Copying, InAgent, InScript,
     Build, node, agent, files, since
<1>1. CASE InstallBegins
  BY <1>1 DEF InstallBegins, Locked
<1>2. CASE InstallRefused
  <2>1. TypeOK'
    BY <1>2 DEF InstallRefused
  <2>2. OneAtATime' /\ WritesToNew'
    BY <1>2 DEF InstallRefused
  <2>3. StagedWhole'
    BY <1>2 DEF InstallRefused
  <2>4. WritesAlone'
    BY <1>2 DEF InstallRefused
  <2>5. WholeInPlace'
    BY <1>2 DEF InstallRefused, MayInstall
  <2>6. QED
    BY <2>1, <2>2, <2>3, <2>4, <2>5
<1>3. CASE InstallEnds
  BY <1>3 DEF InstallEnds, Over
<1>4. CASE InstallFails
  BY <1>4 DEF InstallFails
<1>5. CASE InstallRestarts
  BY <1>5 DEF InstallRestarts, AgentEnds, Killed
<1>6. QED
  BY <1>1, <1>2, <1>3, <1>4, <1>5 DEF Install

(* The update in the agent.                                                 *)
LEMMA ApplyKeeps ==
    ASSUME UpdateInv, NEW j \in Job, ApplyUpdate(j)
    PROVE  UpdateInv'
<1> USE UpdateAssumption DEF UpdateInv, TypeOK, OneAtATime, WritesToNew,
     StagedWhole, WritesAlone, WholeInPlace, Active, Copying, InAgent, InScript,
     Build, node, agent, files, since, Goto
<1>1. CASE DownloadFails(j)
  BY <1>1 DEF DownloadFails
<1>2. CASE Download(j)
  BY <1>2 DEF Download
<1>3. CASE StageBegins(j)
  BY <1>3 DEF StageBegins
<1>4. CASE StageEnds(j)
  <2>1. \A k \in Job : open[k] = open[j] => k = j
    BY <1>4 DEF StageEnds
  <2>2. new' = data[j] /\ exe' = exe /\ UNCHANGED <<bin, deployment, agent, bat, since>>
    BY <1>4, <2>1 DEF StageEnds, Over
  <2>3. QED
    BY <1>4, <2>2 DEF StageEnds
<1>5. CASE StageFails(j)
  BY <1>5 DEF StageFails
<1>6. CASE SpawnScript(j)
  BY <1>6 DEF SpawnScript
<1>7. CASE SpawnFails(j)
  <2>1. TypeOK'
    BY <1>7 DEF SpawnFails
  <2>2. OneAtATime' /\ WritesToNew'
    BY <1>7 DEF SpawnFails
  <2>3. StagedWhole'
    BY <1>7 DEF SpawnFails
  <2>4. WritesAlone'
    BY <1>7 DEF SpawnFails
  <2>5. WholeInPlace'
    BY <1>7 DEF SpawnFails
  <2>6. QED
    BY <2>1, <2>2, <2>3, <2>4, <2>5
<1>8. CASE RenameOver(j)
  <2>1. TypeOK'
    BY <1>8 DEF RenameOver
  <2>2. OneAtATime' /\ WritesToNew'
    BY <1>8 DEF RenameOver
  <2>3. StagedWhole'
    BY <1>8 DEF RenameOver
  <2>4. WritesAlone'
    BY <1>8 DEF RenameOver
  <2>5. WholeInPlace'
    BY <1>8 DEF RenameOver
  <2>6. QED
    BY <2>1, <2>2, <2>3, <2>4, <2>5
<1>9. CASE RenameFails(j)
  <2>1. open' = open
    BY <1>9 DEF RenameFails
  <2>2. QED
    BY <1>9, <2>1 DEF RenameFails
<1>10. QED
  BY <1>1, <1>2, <1>3, <1>4, <1>5, <1>6, <1>7, <1>8, <1>9 DEF ApplyUpdate

(* The script.                                                              *)
LEMMA ScriptKeeps ==
    ASSUME UpdateInv, NEW j \in Job, Script(j)
    PROVE  UpdateInv'
<1> USE UpdateAssumption DEF UpdateInv, TypeOK, OneAtATime, WritesToNew,
     StagedWhole, WritesAlone, WholeInPlace, Active, Copying, InAgent, InScript,
     Build, node, agent, files, since, Goto
<1>1. CASE NetStop(j) \/ NetStart(j)
  BY <1>1 DEF NetStop, NetStart
<1>2. CASE CopyRefused(j)
  BY <1>2 DEF CopyRefused
<1>3. CASE CopyBegins(j)
  <2>1. TypeOK'
    BY <1>3 DEF CopyBegins
  <2>2. OneAtATime' /\ WritesToNew'
    BY <1>3 DEF CopyBegins
  <2>3. StagedWhole'
    BY <1>3 DEF CopyBegins
  <2>4. WritesAlone'
    BY <1>3 DEF CopyBegins
  <2>5. WholeInPlace'
    BY <1>3 DEF CopyBegins
  <2>6. QED
    BY <2>1, <2>2, <2>3, <2>4, <2>5
<1>4. CASE CopyEnds(j)
  BY <1>4 DEF CopyEnds
<1>5. CASE CopyFails(j)
  BY <1>5 DEF CopyFails
<1>6. CASE DeleteNew(j)
  BY <1>6 DEF DeleteNew
<1>7. CASE DeleteScript(j)
  <2>1. TypeOK'
    BY <1>7 DEF DeleteScript
  <2>2. OneAtATime' /\ WritesToNew'
    BY <1>7 DEF DeleteScript
  <2>3. StagedWhole'
    BY <1>7 DEF DeleteScript
  <2>4. WritesAlone'
    BY <1>7 DEF DeleteScript
  <2>5. WholeInPlace'
    BY <1>7 DEF DeleteScript
  <2>6. QED
    BY <2>1, <2>2, <2>3, <2>4, <2>5
<1>8. CASE ScriptAborts(j)
  BY <1>8 DEF ScriptAborts
<1>9. QED
  BY <1>1, <1>2, <1>3, <1>4, <1>5, <1>6, <1>7, <1>8 DEF Script

(* The types, whether or not updates meet.                                  *)
LEMMA TypeStep == TypeOK /\ [Next]_vars => TypeOK'
<1> SUFFICES ASSUME TypeOK, [Next]_vars
             PROVE  TypeOK'
  OBVIOUS
<1> USE UpdateAssumption DEF TypeOK, InAgent, InScript, Build, node, agent, files,
     since, Goto, Killed, AgentEnds, Over
<1>1. CASE NewBuild \/ AgentStarts
  <2>1. CASE NewBuild
    BY <2>1 DEF NewBuild
  <2>2. CASE AgentStarts
    <3>1. running' \in Build \cup {Elf}
      BY <2>2 DEF AgentStarts, Runnable
    <3>2. QED
      BY <2>2, <3>1 DEF AgentStarts
  <2>3. QED
    BY <1>1, <2>1, <2>2
<1>2. CASE AgentExits \/ Reboot \/ InstallRestarts
  <2>1. pc' \in [Job -> {"idle", "done", "failed", "killed"} \cup InAgent \cup InScript]
    BY <1>2 DEF AgentExits, Reboot, InstallRestarts
  <2>2. QED
    BY <1>2, <2>1 DEF AgentExits, Reboot, InstallRestarts
<1>3. CASE InstallBegins \/ InstallRefused \/ InstallFails
  BY <1>3 DEF InstallBegins, InstallRefused, InstallFails
<1>4. CASE InstallEnds
  <2>1. exe' \in Build \cup {Elf, Torn}
    BY <1>4 DEF InstallEnds
  <2>2. QED
    BY <1>4, <2>1 DEF InstallEnds
<1>5. ASSUME NEW j \in Job, Trigger(j)
      PROVE  TypeOK'
  BY <1>5 DEF Trigger, Updating
<1>6. ASSUME NEW j \in Job, ApplyUpdate(j)
      PROVE  TypeOK'
  <2>1. CASE DownloadFails(j) \/ Download(j) \/ StageFails(j)
    BY <2>1 DEF DownloadFails, Download, StageFails
  <2>2. CASE StageBegins(j) \/ StageEnds(j)
    BY <2>2 DEF StageBegins, StageEnds
  <2>3. CASE SpawnScript(j) \/ SpawnFails(j)
    BY <2>3 DEF SpawnScript, SpawnFails
  <2>4. CASE RenameOver(j) \/ RenameFails(j)
    BY <2>4 DEF RenameOver, RenameFails
  <2>5. QED
    BY <1>6, <2>1, <2>2, <2>3, <2>4 DEF ApplyUpdate
<1>7. ASSUME NEW j \in Job, Script(j)
      PROVE  TypeOK'
  <2>1. CASE NetStop(j) \/ CopyRefused(j) \/ CopyBegins(j) \/ CopyEnds(j) \/ CopyFails(j)
    BY <2>1 DEF NetStop, CopyRefused, CopyBegins, CopyEnds, CopyFails
  <2>2. CASE DeleteNew(j) \/ NetStart(j) \/ DeleteScript(j) \/ ScriptAborts(j)
    BY <2>2 DEF DeleteNew, NetStart, DeleteScript, ScriptAborts
  <2>3. QED
    BY <1>7, <2>1, <2>2 DEF Script
<1>8. CASE UNCHANGED vars
  BY <1>8 DEF vars
<1>9. QED
  BY <1>1, <1>2, <1>3, <1>4, <1>5, <1>6, <1>7, <1>8 DEF Next, Install

\* Updates that have met have.
LEMMA MetStays == met /\ [Next]_vars => met'
<1> SUFFICES ASSUME met, [Next]_vars
             PROVE  met'
  OBVIOUS
<1> USE DEF node, since
<1>1. CASE NewBuild \/ AgentStarts \/ AgentExits \/ Reboot \/ Install
  BY <1>1 DEF NewBuild, AgentStarts, AgentExits, Reboot, Install, InstallBegins,
     InstallRefused, InstallEnds, InstallFails, InstallRestarts
<1>2. ASSUME NEW j \in Job, Trigger(j) \/ ApplyUpdate(j)
      PROVE  met'
  BY <1>2 DEF Trigger, ApplyUpdate, DownloadFails, Download, StageBegins, StageEnds,
     StageFails, SpawnScript, SpawnFails, RenameOver, RenameFails
<1>3. ASSUME NEW j \in Job, Script(j)
      PROVE  met'
  BY <1>3 DEF Script, NetStop, CopyRefused, CopyBegins, CopyEnds, CopyFails, DeleteNew,
     NetStart, DeleteScript, ScriptAborts
<1>4. QED
  BY <1>1, <1>2, <1>3 DEF Next, vars

LEMMA UpdateStep ==
    UpdateInv /\ ~met' /\ [Next]_vars => UpdateInv'
<1> SUFFICES ASSUME UpdateInv, ~met', [Next]_vars
             PROVE  UpdateInv'
  OBVIOUS
<1>1. CASE Next
  BY <1>1, MachineKeeps, InstallKeeps, ApplyKeeps, ScriptKeeps DEF Next
<1>2. CASE UNCHANGED vars
  BY <1>2 DEF vars, node, agent, files, since, UpdateInv, TypeOK, OneAtATime,
     WritesToNew, StagedWhole, WritesAlone, WholeInPlace, Active, Copying
<1>3. QED
  BY <1>1, <1>2

(* Until two updates meet, the installed executable is whole, unless the    *)
(* last write into the file itself, the script's copy or an installer's     *)
(* download, is under way or was cut off (updater.go:74-81, 87-92); and     *)
(* node, files and updates always keep their types.                         *)
THEOREM InstalledStaysWhole == Spec => [](TypeOK /\ InstalledWhole)
<1> DEFINE Inv == TypeOK /\ (met \/ UpdateInv)
<1>1. Init => Inv
  BY UpdateInitInv DEF UpdateInv
<1>2. Inv /\ [Next]_vars => Inv'
  BY TypeStep, MetStays, UpdateStep
<1>3. Inv => TypeOK /\ InstalledWhole
  BY DEF UpdateInv, InstalledWhole
<1> HIDE DEF Inv
<1>4. QED
  BY <1>1, <1>2, <1>3, PTL DEF Spec

-----------------------------------------------------------------------------
(* What has been put in place stays: the builds on offer only get newer,    *)
(* and the update under way asked after every other one.                    *)
Asked ==
    /\ \A j \in Job : /\ asked[j] <= bin
                      /\ Active(j) /\ pc[j] # "asked" => asked[j] <= data[j]
    /\ \A j, k \in Job : Active(k) => asked[j] <= asked[k]

\* An update that has put its build in place is not asked for again.
AskedOnce == \A j \in placed : pc[j] # "idle"

DoneInv == Asked /\ AskedOnce /\ NoneOlder

LEMMA DoneInitInv == Init => DoneInv
BY UpdateAssumption DEF Init, DoneInv, Asked, AskedOnce, NoneOlder, Active, InAgent,
   InScript

LEMMA AskedStep ==
    UpdateInv /\ Asked /\ ~met' /\ Next => Asked'
<1> SUFFICES ASSUME UpdateInv, Asked, ~met', Next
             PROVE  Asked'
  OBVIOUS
<1> USE UpdateAssumption DEF UpdateInv, TypeOK, OneAtATime, Asked, Active,
     InAgent, InScript, Build, node, agent, files, since, Goto
<1>1. CASE NewBuild
  BY <1>1 DEF NewBuild
<1>2. ASSUME NEW j \in Job, Trigger(j)
      PROVE  Asked'
  <2>1. \A k \in Job : ~Active(k)
    BY <1>2 DEF Trigger, Updating
  <2>2. pc' = [pc EXCEPT ![j] = "asked"] /\ asked' = [asked EXCEPT ![j] = bin]
    BY <1>2 DEF Trigger
  <2>3. bin' = bin /\ data' = data
    BY <1>2 DEF Trigger
  <2>4. QED
    BY <2>1, <2>2, <2>3
<1>3. ASSUME NEW j \in Job, Download(j)
      PROVE  Asked'
  BY <1>3 DEF Download
<1>4. ASSUME UNCHANGED <<bin, asked, data>>,
             \A j \in Job : pc'[j] = pc[j] \/ ~Active(j)' \/ (Active(j) /\ pc[j] # "asked")
      PROVE  Asked'
  BY <1>4
<1>5. CASE AgentStarts
  BY <1>5, <1>4 DEF AgentStarts
<1>6. CASE AgentExits \/ Reboot
  BY <1>6, <1>4 DEF AgentExits, Reboot, Killed
<1>7. CASE Install
  <2>1. CASE InstallRestarts
    BY <2>1, <1>4 DEF InstallRestarts, Killed
  <2>2. CASE ~InstallRestarts
    BY <1>7, <2>2, <1>4 DEF Install, InstallBegins, InstallRefused, InstallEnds,
       InstallFails
  <2>3. QED
    BY <2>1, <2>2
<1>8. ASSUME NEW j \in Job, ApplyUpdate(j), ~Download(j)
      PROVE  Asked'
  <2>1. CASE DownloadFails(j) \/ StageBegins(j) \/ StageFails(j)
    BY <2>1, <1>4 DEF DownloadFails, StageBegins, StageFails
  <2>2. CASE StageEnds(j)
    BY <2>2, <1>4 DEF StageEnds
  <2>3. CASE SpawnScript(j) \/ SpawnFails(j)
    BY <2>3, <1>4 DEF SpawnScript, SpawnFails
  <2>4. CASE RenameOver(j) \/ RenameFails(j)
    BY <2>4, <1>4 DEF RenameOver, RenameFails
  <2>5. QED
    BY <1>8, <2>1, <2>2, <2>3, <2>4 DEF ApplyUpdate
<1>9. ASSUME NEW j \in Job, Script(j)
      PROVE  Asked'
  BY <1>9, <1>4 DEF Script, NetStop, CopyRefused, CopyBegins, CopyEnds, CopyFails,
     DeleteNew, NetStart, DeleteScript, ScriptAborts
<1>10. QED
  BY <1>1, <1>2, <1>3, <1>5, <1>6, <1>7, <1>8, <1>9 DEF Next

LEMMA OnceStep ==
    UpdateInv /\ AskedOnce /\ Next => AskedOnce'
<1> SUFFICES ASSUME UpdateInv, AskedOnce, Next
             PROVE  AskedOnce'
  OBVIOUS
<1> USE DEF UpdateInv, TypeOK, AskedOnce, InAgent, InScript, node, agent, files,
     since, Goto
<1>1. ASSUME placed' \subseteq placed,
             \A j \in Job : pc[j] # "idle" => pc'[j] # "idle"
      PROVE  AskedOnce'
  BY <1>1
<1>2. CASE NewBuild \/ AgentStarts
  BY <1>2, <1>1 DEF NewBuild, AgentStarts
<1>3. CASE AgentExits \/ Reboot
  BY <1>3, <1>1 DEF AgentExits, Reboot, Killed
<1>4. CASE Install
  BY <1>4, <1>1 DEF Install, InstallBegins, InstallRefused, InstallEnds, InstallFails,
     InstallRestarts, Killed
<1>5. ASSUME NEW j \in Job, Trigger(j)
      PROVE  AskedOnce'
  BY <1>5, <1>1 DEF Trigger
<1>6. ASSUME NEW j \in Job, ApplyUpdate(j)
      PROVE  AskedOnce'
  <2>1. CASE RenameOver(j)
    BY <2>1 DEF RenameOver
  <2>2. CASE ~RenameOver(j)
    BY <1>6, <2>2, <1>1 DEF ApplyUpdate, DownloadFails, Download, StageBegins,
       StageEnds, StageFails, SpawnScript, SpawnFails, RenameFails
  <2>3. QED
    BY <2>1, <2>2
<1>7. ASSUME NEW j \in Job, Script(j)
      PROVE  AskedOnce'
  <2>1. CASE CopyEnds(j)
    BY <2>1 DEF CopyEnds
  <2>2. CASE ~CopyEnds(j)
    BY <1>7, <2>2, <1>1 DEF Script, NetStop, CopyRefused, CopyBegins, CopyFails,
       DeleteNew, NetStart, DeleteScript, ScriptAborts
  <2>3. QED
    BY <2>1, <2>2
<1>8. QED
  BY <1>2, <1>3, <1>4, <1>5, <1>6, <1>7 DEF Next

LEMMA DoneStep ==
    UpdateInv /\ DoneInv /\ ~met' /\ Next => NoneOlder'
<1> SUFFICES ASSUME UpdateInv, DoneInv, ~met', Next
             PROVE  NoneOlder'
  OBVIOUS
<1> USE UpdateAssumption DEF UpdateInv, TypeOK, OneAtATime, WritesToNew, StagedWhole,
     WritesAlone, DoneInv, Asked, NoneOlder, AtLeast, Active, InAgent,
     InScript, Build, node, agent, files, since, Goto
<1>1. ASSUME UNCHANGED <<exe, placed, asked>>
      PROVE  NoneOlder'
  BY <1>1
<1>2. CASE NewBuild \/ AgentStarts \/ AgentExits \/ Reboot
  BY <1>2, <1>1 DEF NewBuild, AgentStarts, AgentExits, Reboot
<1>3. CASE Install
  <2>1. CASE InstallBegins
    BY <2>1 DEF InstallBegins
  <2>2. CASE InstallEnds
    BY <2>2 DEF InstallEnds
  <2>3. CASE InstallRefused \/ InstallFails \/ InstallRestarts
    BY <2>3, <1>1 DEF InstallRefused, InstallFails, InstallRestarts
  <2>4. QED
    BY <1>3, <2>1, <2>2, <2>3 DEF Install
<1>4. ASSUME NEW j \in Job, Trigger(j)
      PROVE  NoneOlder'
  <2>1. exe' = exe /\ placed' = placed /\ j \notin placed
    BY <1>4 DEF Trigger, AskedOnce
  <2>2. \A k \in placed : asked'[k] = asked[k]
    BY <1>4, <2>1 DEF Trigger
  <2>3. QED
    BY <2>1, <2>2
<1>5. ASSUME NEW j \in Job, ApplyUpdate(j)
      PROVE  NoneOlder'
  <2>1. CASE RenameOver(j)
    <3>1. exe' = data[j] /\ asked' = asked /\ placed' = placed \cup {j}
      BY <2>1 DEF RenameOver
    <3>2. \A k \in Job : asked[k] <= data[j]
      BY <2>1 DEF RenameOver
    <3>3. QED
      BY <3>1, <3>2
  <2>2. CASE StageEnds(j)
    BY <2>2, <1>1 DEF StageEnds
  <2>3. CASE ~StageEnds(j) /\ ~RenameOver(j)
    BY <1>5, <2>3, <1>1 DEF ApplyUpdate, DownloadFails, Download, StageBegins,
       StageFails, SpawnScript, SpawnFails, RenameFails
  <2>4. QED
    BY <2>1, <2>2, <2>3
<1>6. ASSUME NEW j \in Job, Script(j)
      PROVE  NoneOlder'
  <2>1. CASE CopyBegins(j)
    BY <2>1 DEF CopyBegins
  <2>2. CASE CopyEnds(j)
    <3>1. exe' = data[j] /\ asked' = asked /\ placed' = placed \cup {j}
      BY <2>2 DEF CopyEnds
    <3>2. \A k \in Job : asked[k] <= data[j]
      BY <2>2 DEF CopyEnds
    <3>3. QED
      BY <3>1, <3>2
  <2>3. CASE ~CopyBegins(j) /\ ~CopyEnds(j)
    BY <1>6, <2>3, <1>1 DEF Script, NetStop, CopyRefused, CopyFails, DeleteNew,
       NetStart, DeleteScript, ScriptAborts
  <2>4. QED
    BY <2>1, <2>2, <2>3
<1>7. QED
  BY <1>2, <1>3, <1>4, <1>5, <1>6 DEF Next

(* Until two updates meet, once an update has put its build in place,       *)
(* nothing but a reinstallation brings back a build older than was offered  *)
(* when it was asked for (updater.go:78-92, 109).                           *)
THEOREM DoneStays == Spec => []DoneStaysInstalled
<1> DEFINE Inv == met \/ (UpdateInv /\ DoneInv)
<1>1. Init => Inv
  BY UpdateInitInv, DoneInitInv
<1>2. UpdateInv /\ DoneInv /\ UNCHANGED vars => DoneInv'
  BY DEF vars, node, agent, files, since, DoneInv, Asked, AskedOnce,
     NoneOlder, AtLeast, Active
<1>3. UpdateInv /\ DoneInv /\ ~met' /\ [Next]_vars => UpdateInv' /\ DoneInv'
  BY <1>2, UpdateStep, AskedStep, OnceStep, DoneStep DEF DoneInv
<1>4. Inv /\ [Next]_vars => Inv'
  BY <1>3, MetStays
<1>5. Inv => DoneStaysInstalled
  BY DEF DoneInv, DoneStaysInstalled
<1> HIDE DEF Inv
<1>6. QED
  BY <1>1, <1>4, <1>5, PTL DEF Spec
=============================================================================
