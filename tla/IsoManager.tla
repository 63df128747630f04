----------------------------- MODULE IsoManager -----------------------------
(***************************************************************************)
(* The controller's ISO downloads (pkg/iso/catalog.go): a request starts a *)
(* goroutine that streams into <name>.part and renames it to <name>; the   *)
(* job table is guarded by Manager.mu, the files are not.  The directory   *)
(* is a POSIX one, modelled by what the code asks of it: creating a file   *)
(* that exists truncates it, and a file that is renamed or removed is      *)
(* still the one its open descriptors write to.                            *)
(*                                                                         *)
(* Each job downloads its own image of Blocks blocks; a block of a file is *)
(* the job it came from.                                                   *)
(***************************************************************************)
EXTENDS Naturals, Sequences, FiniteSets

CONSTANTS
    Job,       \* downloads, each requested at most once
    Name,      \* sanitised file names
    NoJob,     \* not a job
    Blocks,    \* blocks of an image
    Unsized,   \* downloads whose server ends the body by closing the
               \* connection (ContentLength = -1): cut short, it ends as well
    Overlap    \* when the operator asks for a name again: "after" the job
               \* for it is no longer downloading, or at "any" time; the code
               \* takes every request

ASSUME IsoAssumption ==
    /\ NoJob \notin Job
    /\ Blocks \in Nat \ {0}
    /\ Unsized \subseteq Job
    /\ Overlap \in {"after", "any"}

\* A file is named by the job that created it.
NoFile == NoJob

VARIABLES
    status,   \* DownloadJob.Status, "none" before the request, "lost" with the process
    name,     \* DownloadJob.Filename
    pc,       \* where executeDownload is
    got,      \* blocks received and written
    out,      \* the file behind the job's descriptor
    part,     \* per name: the file at <name>.part
    dest,     \* per name: the file at <name>
    data      \* per file: its blocks; NoJob is a hole

vars == <<status, name, pc, got, out, part, dest, data>>

Init ==
    /\ status = [j \in Job |-> "none"]
    /\ name \in [Job -> Name]
    /\ pc = [j \in Job |-> "idle"]
    /\ got = [j \in Job |-> 0]
    /\ out = [j \in Job |-> NoFile]
    /\ part = [f \in Name |-> NoFile]
    /\ dest = [f \in Name |-> NoFile]
    /\ data = [i \in Job |-> <<>>]

\* os.File.Write at the descriptor's own offset, past the end if need be.
WriteBlock(file, k, j) ==
    [n \in 1..(IF Len(file) < k THEN k ELSE Len(file)) |->
        IF n = k THEN j ELSE IF n <= Len(file) THEN file[n] ELSE NoJob]

Goto(j, from, to) ==
    /\ pc[j] = from
    /\ pc' = [pc EXCEPT ![j] = to]

-----------------------------------------------------------------------------
Asked(j, f) == status[j] # "none" /\ name[j] = f

MayAsk(f) ==
    \/ Overlap = "any"
    \/ Overlap = "after" /\ \A j \in Job : Asked(j, f) => status[j] # "downloading"

\* Mutant: a status no reader knows.
StartDownloadQueued(j) ==
    /\ Goto(j, "idle", "connecting")
    /\ MayAsk(name[j])
    /\ status' = [status EXCEPT ![j] = "queued"]
    /\ UNCHANGED <<name, got, out, part, dest, data>>

StartDownload(j) ==
    /\ Goto(j, "idle", "connecting")
    /\ MayAsk(name[j])
    /\ status' = [status EXCEPT ![j] = "downloading"]
    /\ UNCHANGED <<name, got, out, part, dest, data>>

\* Client.Get fails, or the answer is not 200.
ConnectFails(j) ==
    /\ Goto(j, "connecting", "done")
    /\ status' = [status EXCEPT ![j] = "failed"]
    /\ UNCHANGED <<name, got, out, part, dest, data>>

\* os.Create(partPath)
CreatePart(j) ==
    /\ Goto(j, "connecting", "streaming")
    /\ LET i == IF part[name[j]] = NoFile THEN j ELSE part[name[j]]
       IN /\ out' = [out EXCEPT ![j] = i]
          /\ part' = [part EXCEPT ![name[j]] = i]
          /\ data' = [data EXCEPT ![i] = <<>>]
    /\ UNCHANGED <<status, name, got, dest>>

ReceiveBlock(j) ==
    /\ pc[j] = "streaming"
    /\ got[j] < Blocks
    /\ got' = [got EXCEPT ![j] = @ + 1]
    /\ data' = [data EXCEPT ![out[j]] = WriteBlock(@, got[j] + 1, j)]
    /\ UNCHANGED <<status, name, pc, out, part, dest>>

\* Mutant: the partial file is left behind.
TransferFailsUncleaned(j) ==
    /\ Goto(j, "streaming", "done")
    /\ got[j] < Blocks
    /\ status' = [status EXCEPT ![j] = "failed"]
    /\ UNCHANGED <<name, got, out, part, dest, data>>

\* A read or write error: the job is failed first, its part removed after.
TransferFails(j) ==
    /\ Goto(j, "streaming", "removing")
    /\ got[j] < Blocks \/ j \in Unsized
    /\ status' = [status EXCEPT ![j] = "failed"]
    /\ UNCHANGED <<name, got, out, part, dest, data>>

\* os.Remove(partPath), whatever file is there by now.
RemovePart(j) ==
    /\ Goto(j, "removing", "done")
    /\ part' = [part EXCEPT ![name[j]] = NoFile]
    /\ UNCHANGED <<status, name, got, out, dest, data>>

\* Read returns io.EOF.  The bytes received are never compared with the
\* length; where there is one, net/http makes an early end an error.
AtEOF(j) == got[j] = Blocks \/ j \in Unsized

\* Mutant: any error of Read is taken for the end.
RenamePartEarly(j) ==
    /\ Goto(j, "streaming", "completing")
    /\ part[name[j]] # NoFile
    /\ dest' = [dest EXCEPT ![name[j]] = part[name[j]]]
    /\ part' = [part EXCEPT ![name[j]] = NoFile]
    /\ UNCHANGED <<status, name, got, out, data>>

\* EOF, then os.Rename(partPath, destPath): again whatever file is there.
RenamePart(j) ==
    /\ Goto(j, "streaming", "completing")
    /\ AtEOF(j)
    /\ part[name[j]] # NoFile
    /\ dest' = [dest EXCEPT ![name[j]] = part[name[j]]]
    /\ part' = [part EXCEPT ![name[j]] = NoFile]
    /\ UNCHANGED <<status, name, got, out, data>>

\* Mutant: the error of os.Rename is ignored.
RenameFailsIgnored(j) ==
    /\ Goto(j, "streaming", "completing")
    /\ AtEOF(j)
    /\ part[name[j]] = NoFile
    /\ UNCHANGED <<status, name, got, out, part, dest, data>>

RenameFails(j) ==
    /\ Goto(j, "streaming", "removing")
    /\ AtEOF(j)
    /\ part[name[j]] = NoFile
    /\ status' = [status EXCEPT ![j] = "failed"]
    /\ UNCHANGED <<name, got, out, part, dest, data>>

Complete(j) ==
    /\ Goto(j, "completing", "done")
    /\ status' = [status EXCEPT ![j] = "completed"]
    /\ UNCHANGED <<name, got, out, part, dest, data>>

\* The controller dies: the job table is gone, the files stay.
Crash ==
    /\ \E j \in Job : pc[j] \notin {"idle", "done"}
    /\ pc' = [j \in Job |-> IF pc[j] = "idle" THEN "idle" ELSE "done"]
    /\ status' = [j \in Job |-> IF pc[j] = "idle" THEN "none" ELSE "lost"]
    /\ UNCHANGED <<name, got, out, part, dest, data>>

executeDownload(j) ==
    \/ ConnectFails(j) \/ CreatePart(j)
    \/ ReceiveBlock(j) \/ TransferFails(j) \/ RemovePart(j)
    \/ RenamePart(j) \/ RenameFails(j) \/ Complete(j)

Next ==
    \/ \E j \in Job : StartDownload(j) \/ executeDownload(j)
    \/ Crash

Spec == Init /\ [][Next]_vars

-----------------------------------------------------------------------------
(* The types of the jobs and of the directory.                              *)
TypeOK ==
    /\ status \in [Job -> {"none", "downloading", "completed", "failed", "lost"}]
    /\ name \in [Job -> Name]
    /\ pc \in [Job -> {"idle", "connecting", "streaming", "removing",
                       "completing", "done"}]
    /\ got \in [Job -> 0..Blocks]
    /\ out \in [Job -> Job \cup {NoFile}]
    /\ part \in [Name -> Job \cup {NoFile}]
    /\ dest \in [Name -> Job \cup {NoFile}]
    /\ \A i \in Job : /\ Len(data[i]) <= Blocks
                      /\ \A k \in 1..Len(data[i]) : data[i][k] \in Job \cup {NoJob}

\* The first n blocks of the image that download j was sent.
Image(j, n) == [k \in 1..n |-> j]

\* A file is one download's for the name f, whole unless nobody said how long.
Downloaded(f, file) ==
    \E j \in Job :
        /\ name[j] = f
        /\ \E n \in IF j \in Unsized THEN 0..Blocks ELSE {Blocks} : file = Image(j, n)

(* Every image the catalog lists under a name is what one download asked    *)
(* for under that name was sent, in order and unmixed, now and for as long  *)
(* as it is listed, through failed downloads, retries and crashes; and it   *)
(* is whole, but for a body of unknown length that was cut short            *)
(* (catalog.go:160-202; catalog_test.go:88 compares the file with what the  *)
(* server sent).                                                            *)
CatalogImagesWhole ==
    \A f \in Name : dest[f] # NoFile => Downloaded(f, data[dest[f]])

(* The same of every body: what ends early is not listed either.            *)
EveryImageWhole ==
    \A f \in Name : dest[f] # NoFile => Len(data[dest[f]]) = Blocks

(* A job shown "completed" has its file in the catalog (catalog.go:192-201). *)
CompletedIsListed ==
    \A j \in Job : status[j] = "completed" => dest[name[j]] # NoFile

(* When no download for a name is under way any more and the controller has *)
(* not died meanwhile, no partial file of that name is left (suite plan,    *)
(* docs/superpowers/plans/2026-11-01-crybaby-proxmox-hyperv-suite.md:31).   *)
NoOrphanParts ==
    (\A j \in Job : status[j] # "lost") =>
        \A f \in Name :
            part[f] # NoFile =>
                \E j \in Job : name[j] = f /\ pc[j] \in {"streaming", "removing"}
=============================================================================
