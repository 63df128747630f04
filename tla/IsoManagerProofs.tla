-------------------------- MODULE IsoManagerProofs ---------------------------
(***************************************************************************)
(* Proofs about IsoManager: completed downloads are listed and failed ones *)
(* leave no partial file whatever operators ask for; with one download of  *)
(* a name at a time, every listed image is one download's, unmixed, and    *)
(* whole where its server said how long it is.                             *)
(***************************************************************************)
EXTENDS IsoManager, TLAPS

Typed ==
    /\ status \in [Job -> {"none", "downloading", "completed", "failed", "lost"}]
    /\ name \in [Job -> Name]
    /\ pc \in [Job -> {"idle", "connecting", "streaming", "removing",
                       "completing", "done"}]
    /\ got \in [Job -> Nat]
    /\ out \in [Job -> Job \cup {NoFile}]
    /\ part \in [Name -> Job \cup {NoFile}]
    /\ dest \in [Name -> Job \cup {NoFile}]
    /\ data = [i \in Job |-> data[i]]
    /\ \A j \in Job : pc[j] = "streaming" => out[j] \in Job

\* A download about to be shown "completed" has renamed its file.
Listed ==
    \A j \in Job : pc[j] = "completing" \/ status[j] = "completed" => dest[name[j]] # NoFile

\* Statuses and places go together.
StatusFits ==
    \A j \in Job :
        /\ pc[j] \in {"connecting", "streaming", "completing"} <=> status[j] = "downloading"
        /\ pc[j] = "idle" <=> status[j] = "none"

DirInv == Typed /\ Listed /\ StatusFits /\ NoOrphanParts

LEMMA DirInit == Init => DirInv
BY IsoAssumption DEF Init, DirInv, Typed, Listed, StatusFits, NoOrphanParts, NoFile

LEMMA TypedStep == Typed /\ [Next]_vars => Typed'
<1> SUFFICES ASSUME Typed, [Next]_vars PROVE Typed'
  OBVIOUS
<1>1. ASSUME NEW j \in Job, CreatePart(j) PROVE Typed'
  <2> DEFINE i == IF part[name[j]] = NoFile THEN j ELSE part[name[j]]
  <2>1. i \in Job /\ name[j] \in Name
    BY DEF Typed
  <2>2. /\ pc' = [pc EXCEPT ![j] = "streaming"]
        /\ out' = [out EXCEPT ![j] = i] /\ part' = [part EXCEPT ![name[j]] = i]
        /\ data' = [data EXCEPT ![i] = <<>>] /\ UNCHANGED <<status, name, got, dest>>
    BY <1>1 DEF CreatePart, Goto
  <2> HIDE DEF i
  <2>3. QED
    BY <2>1, <2>2 DEF Typed
<1>2. ASSUME NEW j \in Job, ReceiveBlock(j) PROVE Typed'
  <2>1. got' = [got EXCEPT ![j] = got[j] + 1] /\ got[j] + 1 \in Nat
    BY <1>2 DEF ReceiveBlock, Typed
  <2>2. data' = [i \in Job |-> data'[i]] /\ UNCHANGED <<status, name, pc, out, part, dest>>
    BY <1>2 DEF ReceiveBlock, Typed
  <2>3. QED
    BY <2>1, <2>2 DEF Typed
<1>3. ASSUME NEW j \in Job,
             \/ StartDownload(j) \/ ConnectFails(j) \/ TransferFails(j) \/ RenameFails(j)
             \/ Complete(j) \/ RemovePart(j)
      PROVE  Typed'
  BY <1>3 DEF StartDownload, ConnectFails, TransferFails, RenameFails, Complete,
              RemovePart, Goto, Typed
<1>4. ASSUME NEW j \in Job, RenamePart(j) PROVE Typed'
  BY <1>4 DEF RenamePart, Goto, Typed
<1>5. CASE Crash
  BY <1>5 DEF Crash, Typed
<1>6. CASE UNCHANGED vars
  BY <1>6 DEF vars, Typed
<1>7. QED
  BY <1>1, <1>2, <1>3, <1>4, <1>5, <1>6 DEF Next, executeDownload

LEMMA StatusStep == Typed /\ StatusFits /\ [Next]_vars => StatusFits'
<1> SUFFICES ASSUME Typed, StatusFits, [Next]_vars PROVE StatusFits'
  OBVIOUS
<1>1. ASSUME NEW j \in Job, StartDownload(j) \/ executeDownload(j) PROVE StatusFits'
  <2>1. \A k \in Job \ {j} : pc'[k] = pc[k] /\ status'[k] = status[k]
    BY <1>1 DEF StartDownload, executeDownload, ConnectFails, CreatePart, ReceiveBlock,
                TransferFails, RenamePart, RenameFails, Complete, RemovePart, Goto, Typed
  <2>2. /\ pc'[j] \in {"connecting", "streaming", "completing"} <=> status'[j] = "downloading"
        /\ pc'[j] = "idle" <=> status'[j] = "none"
    <3>1. CASE StartDownload(j) \/ ConnectFails(j) \/ CreatePart(j) \/ ReceiveBlock(j)
      BY <3>1 DEF StartDownload, ConnectFails, CreatePart, ReceiveBlock, Goto,
                  Typed, StatusFits
    <3>2. CASE TransferFails(j) \/ RenameFails(j) \/ Complete(j) \/ RemovePart(j)
      BY <3>2 DEF TransferFails, RenameFails, Complete, RemovePart, Goto, Typed, StatusFits
    <3>3. CASE RenamePart(j)
      BY <3>3 DEF RenamePart, Goto, Typed, StatusFits
    <3>4. QED
      BY <1>1, <3>1, <3>2, <3>3 DEF executeDownload
  <2>3. QED
    BY <2>1, <2>2 DEF StatusFits
<1>2. CASE Crash
  BY <1>2 DEF Crash, Typed, StatusFits
<1>3. CASE UNCHANGED vars
  BY <1>3 DEF vars, StatusFits
<1>4. QED
  BY <1>1, <1>2, <1>3 DEF Next

LEMMA ListedStep == Typed /\ Listed /\ [Next]_vars => Listed'
<1> SUFFICES ASSUME Typed, Listed, [Next]_vars PROVE Listed'
  OBVIOUS
<1>1. ASSUME NEW j \in Job,
             \/ StartDownload(j) \/ ConnectFails(j) \/ CreatePart(j) \/ ReceiveBlock(j)
             \/ TransferFails(j) \/ RenameFails(j) \/ Complete(j) \/ RemovePart(j)
      PROVE  Listed'
  BY <1>1 DEF StartDownload, ConnectFails, CreatePart, ReceiveBlock, TransferFails,
              RenameFails, Complete, RemovePart, Goto, Typed, Listed
<1>2. ASSUME NEW j \in Job, RenamePart(j) PROVE Listed'
  BY <1>2 DEF RenamePart, Goto, Typed, Listed
<1>3. CASE Crash
  BY <1>3 DEF Crash, Typed, Listed
<1>4. CASE UNCHANGED vars
  BY <1>4 DEF vars, Listed
<1>5. QED
  BY <1>1, <1>2, <1>3, <1>4 DEF Next, executeDownload

LEMMA PartsStep ==
    Typed /\ StatusFits /\ NoOrphanParts /\ [Next]_vars => NoOrphanParts'
<1> SUFFICES ASSUME Typed, StatusFits, NoOrphanParts, [Next]_vars PROVE NoOrphanParts'
  OBVIOUS
<1>1. ASSUME NEW j \in Job,
             \/ StartDownload(j) \/ ConnectFails(j) \/ ReceiveBlock(j)
             \/ TransferFails(j) \/ RenameFails(j) \/ Complete(j)
      PROVE  NoOrphanParts'
  BY <1>1 DEF StartDownload, ConnectFails, ReceiveBlock, TransferFails,
              RenameFails, Complete, Goto, Typed, StatusFits, NoOrphanParts
<1>2. ASSUME NEW j \in Job, RenamePart(j) \/ RemovePart(j) \/ CreatePart(j)
      PROVE  NoOrphanParts'
  <2>1. /\ status' = status /\ name' = name
        /\ \A k \in Job \ {j} : pc'[k] = pc[k]
        /\ \A f \in Name \ {name[j]} : part'[f] = part[f]
        /\ part'[name[j]] = NoFile \/ pc'[j] = "streaming"
    BY <1>2 DEF RenamePart, RemovePart, CreatePart, Goto, Typed
  <2>2. QED
    BY <2>1 DEF NoOrphanParts, Typed
<1>3. CASE Crash
  BY <1>3 DEF Crash, Typed, StatusFits, NoOrphanParts
<1>4. CASE UNCHANGED vars
  BY <1>4 DEF vars, NoOrphanParts
<1>5. QED
  BY <1>1, <1>2, <1>3, <1>4 DEF Next, executeDownload

LEMMA DirStep == DirInv /\ [Next]_vars => DirInv'
BY TypedStep, StatusStep, ListedStep, PartsStep DEF DirInv

(* A download shown "completed" is in the catalog, even when two of a name  *)
(* run at the same time (catalog.go:192-201).                               *)
THEOREM CompletedStaysListed == Spec => []CompletedIsListed
<1>1. DirInv => CompletedIsListed
  BY DEF DirInv, Listed, CompletedIsListed
<1>2. QED
  BY DirInit, DirStep, <1>1, PTL DEF Spec

(* Failed downloads clean up after themselves, whatever fails and whoever   *)
(* removes or renames whose part (catalog.go:165-190).                      *)
THEOREM FailuresCleanUp == Spec => []NoOrphanParts
<1>1. DirInv => NoOrphanParts
  BY DEF DirInv
<1>2. QED
  BY DirInit, DirStep, <1>1, PTL DEF Spec

-----------------------------------------------------------------------------
(* The types.                                                               *)

\* A file holds at most the blocks of an image, each a job's or a hole.
Bounded(file) == \E n \in 0..Blocks : file \in [1..n -> Job \cup {NoJob}]

Sized ==
    /\ \A j \in Job : got[j] \in 0..Blocks
    /\ \A i \in Job : Bounded(data[i])

LEMMA WriteBounded ==
    ASSUME NEW file, Bounded(file), NEW k \in 1..Blocks, NEW j \in Job
    PROVE  Bounded(WriteBlock(file, k, j))
<1>1. PICK n \in 0..Blocks : file \in [1..n -> Job \cup {NoJob}]
  BY DEF Bounded
<1>2. Len(file) = n /\ Blocks \in Nat
  BY <1>1, IsoAssumption
<1> DEFINE m == IF n < k THEN k ELSE n
<1>3. m \in 0..Blocks
  BY <1>2
<1>4. WriteBlock(file, k, j) =
        [i \in 1..m |-> IF i = k THEN j ELSE IF i <= n THEN file[i] ELSE NoJob]
  BY <1>2 DEF WriteBlock
<1>5. \A i \in 1..m :
        (IF i = k THEN j ELSE IF i <= n THEN file[i] ELSE NoJob) \in Job \cup {NoJob}
  BY <1>1, <1>2, <1>3
<1>6. WriteBlock(file, k, j) \in [1..m -> Job \cup {NoJob}]
  BY <1>4, <1>5
<1>7. QED
  BY <1>3, <1>6 DEF Bounded

LEMMA SizedInit == Init => Sized
<1> SUFFICES ASSUME Init PROVE Sized
  OBVIOUS
<1>1. Blocks \in Nat /\ 0 \in 0..Blocks
  BY IsoAssumption
<1>2. <<>> \in [1..0 -> Job \cup {NoJob}]
  OBVIOUS
<1>3. Bounded(<<>>)
  BY <1>1, <1>2 DEF Bounded
<1>4. QED
  BY <1>1, <1>3 DEF Init, Sized

LEMMA SizedStep == Typed /\ Sized /\ [Next]_vars => Sized'
<1> SUFFICES ASSUME Typed, Sized, [Next]_vars PROVE Sized'
  OBVIOUS
<1>1. ASSUME NEW j \in Job, CreatePart(j) PROVE Sized'
  <2>1. Blocks \in Nat /\ 0 \in 0..Blocks /\ <<>> \in [1..0 -> Job \cup {NoJob}]
    BY IsoAssumption
  <2>2. Bounded(<<>>)
    BY <2>1 DEF Bounded
  <2>3. \A i \in Job : data'[i] = data[i] \/ data'[i] = <<>>
    BY <1>1 DEF CreatePart, Typed
  <2>4. QED
    BY <1>1, <2>2, <2>3 DEF CreatePart, Sized, Bounded
<1>2. ASSUME NEW j \in Job, ReceiveBlock(j) PROVE Sized'
  <2>1. Blocks \in Nat /\ got[j] \in 0..Blocks /\ got[j] < Blocks
    BY <1>2, IsoAssumption DEF ReceiveBlock, Sized
  <2>2. out[j] \in Job
    BY <1>2 DEF ReceiveBlock, Typed
  <2>3. Bounded(WriteBlock(data[out[j]], got[j] + 1, j))
    <3>1. got[j] + 1 \in 1..Blocks /\ Bounded(data[out[j]])
      BY <2>1, <2>2 DEF Sized
    <3>2. QED
      BY <3>1, WriteBounded
  <2>4. \A i \in Job : Bounded(data'[i])
    <3>1. \A i \in Job :
            data'[i] = IF i = out[j] THEN WriteBlock(data[out[j]], got[j] + 1, j) ELSE data[i]
      BY <1>2, <2>2 DEF ReceiveBlock, Typed
    <3>2. QED
      BY <2>3, <3>1 DEF Sized
  <2>5. \A i \in Job : got'[i] \in 0..Blocks
    BY <1>2, <2>1 DEF ReceiveBlock, Typed, Sized
  <2>6. QED
    BY <2>4, <2>5 DEF Sized, Bounded
<1>3. ASSUME UNCHANGED <<got, data>> PROVE Sized'
  BY <1>3 DEF Sized, Bounded
<1>4. QED
  BY <1>1, <1>2, <1>3 DEF Next, executeDownload, StartDownload, ConnectFails,
     TransferFails, RemovePart, RenamePart, RenameFails, Complete, Crash, vars

(* Files never outgrow the image and hold blocks of downloads and holes     *)
(* only, however downloads of a name overlap (catalog.go:153-183).          *)
THEOREM IsoTypes == Spec => []TypeOK
<1>1. Typed /\ Sized => TypeOK
  <2> SUFFICES ASSUME Typed, Sized PROVE TypeOK
    OBVIOUS
  <2>1. ASSUME NEW i \in Job
        PROVE  /\ Len(data[i]) <= Blocks
               /\ \A k \in 1..Len(data[i]) : data[i][k] \in Job \cup {NoJob}
    <3>1. PICK n \in 0..Blocks : data[i] \in [1..n -> Job \cup {NoJob}]
      BY DEF Sized, Bounded
    <3>2. Len(data[i]) = n /\ Blocks \in Nat
      BY <3>1, IsoAssumption
    <3>3. QED
      BY <3>1, <3>2
  <2>2. got \in [Job -> 0..Blocks]
    BY DEF Typed, Sized
  <2>3. QED
    BY <2>1, <2>2 DEF Typed, TypeOK
<1>2. Init => Typed /\ Sized
  BY DirInit, SizedInit DEF DirInv
<1>3. Typed /\ Sized /\ [Next]_vars => (Typed /\ Sized)'
  BY TypedStep, SizedStep
<1>4. QED
  BY <1>1, <1>2, <1>3, PTL DEF Spec

-----------------------------------------------------------------------------
(* One download of a name at a time.                                        *)

Streaming(j) == pc[j] = "streaming"

Alone ==
    \A j, k \in Job :
        /\ status[j] = "downloading" /\ status[k] = "downloading"
        /\ name[j] = name[k]
        => j = k

\* A file that is anywhere was made by a job that got that far.
Known(i) == pc[i] \notin {"idle", "connecting"}

Files ==
    /\ \A f \in Name : part[f] # NoFile => Known(part[f])
    /\ \A f \in Name : dest[f] # NoFile => Known(dest[f])
    /\ \A j \in Job : Streaming(j) => Known(out[j])

\* Files are not shared.
Apart ==
    /\ \A f, g \in Name : part[f] # NoFile => part[f] # dest[g]
    /\ \A f, g \in Name : part[f] # NoFile /\ part[f] = part[g] => f = g
    /\ \A j \in Job, g \in Name : Streaming(j) => out[j] # dest[g]
    /\ \A j, k \in Job : Streaming(j) /\ Streaming(k) /\ out[j] = out[k] => j = k
    /\ \A j \in Job, f \in Name : Streaming(j) /\ part[f] = out[j] => f = name[j]
    /\ \A j \in Job : Streaming(j) => part[name[j]] \in {NoFile, out[j]}

Contents ==
    /\ \A j \in Job : pc[j] \in {"idle", "connecting"} => got[j] = 0
    /\ \A j \in Job : Streaming(j) => data[out[j]] = Image(j, got[j])
    /\ CatalogImagesWhole

ImageInv == Typed /\ Sized /\ StatusFits /\ Alone /\ Files /\ Apart /\ Contents

LEMMA WriteNext ==
    ASSUME NEW j, NEW n \in Nat
    PROVE  WriteBlock(Image(j, n), n + 1, j) = Image(j, n + 1)
<1> DEFINE file == Image(j, n)
<1>1. Len(file) = n /\ \A k \in 1..n : file[k] = j
  BY DEF Image
<1> HIDE DEF file
<1>2. WriteBlock(file, n + 1, j) =
        [k \in 1..n + 1 |-> IF k = n + 1 THEN j ELSE IF k <= n THEN file[k] ELSE NoJob]
  BY <1>1 DEF WriteBlock
<1>3. \A k \in 1..n + 1 : (IF k = n + 1 THEN j ELSE IF k <= n THEN file[k] ELSE NoJob) = j
  BY <1>1
<1>4. QED
  BY <1>2, <1>3 DEF file, Image

LEMMA ImageNone == \A j : Image(j, 0) = <<>>
BY DEF Image

LEMMA ImageInitInv == Init => ImageInv
<1> SUFFICES ASSUME Init PROVE ImageInv
  OBVIOUS
<1>1. Typed /\ Sized /\ StatusFits
  BY DirInit, SizedInit DEF DirInv
<1>2. QED
  BY <1>1 DEF Init, ImageInv, Alone, Files, Apart, Contents, Streaming, CatalogImagesWhole

\* The new download is the only one of its name.
LEMMA AloneStep ==
    ASSUME Overlap = "after", ImageInv, [Next]_vars
    PROVE  Alone'
<1>1. ASSUME NEW j \in Job, StartDownload(j) PROVE Alone'
  <2>1. \A k \in Job : status[k] = "downloading" /\ name[k] = name[j] => FALSE
    BY <1>1 DEF StartDownload, MayAsk, Asked
  <2>2. name' = name /\ \A k \in Job \ {j} : status'[k] = status[k]
    BY <1>1 DEF StartDownload, ImageInv, Typed
  <2>3. QED
    BY <2>1, <2>2 DEF ImageInv, Alone
<1>2. ASSUME name' = name,
             \A k \in Job : status'[k] = "downloading" => status[k] = "downloading"
      PROVE  Alone'
  BY <1>2 DEF ImageInv, Alone
<1>3. ASSUME NEW j \in Job, executeDownload(j) PROVE Alone'
  BY <1>2, <1>3 DEF executeDownload, ConnectFails, CreatePart, ReceiveBlock, TransferFails,
     RemovePart, RenamePart, RenameFails, Complete, ImageInv, Typed
<1>4. CASE Crash
  BY <1>2, <1>4 DEF Crash
<1>5. CASE UNCHANGED vars
  BY <1>2, <1>5 DEF vars
<1>6. QED
  BY <1>1, <1>3, <1>4, <1>5 DEF Next

FileInv == Files /\ Apart /\ Contents

\* Steps that touch no file and open none.
LEMMA NoFileTouched ==
    ASSUME ImageInv, UNCHANGED <<name, out, dest, data, got>>,
           \A f \in Name : part'[f] \in {part[f], NoFile},
           \A j \in Job : pc'[j] = pc[j]
                          \/ (pc[j] = "idle" /\ pc'[j] = "connecting")
                          \/ pc'[j] \in {"removing", "completing", "done"}
    PROVE  FileInv'
<1>1. /\ \A j \in Job : pc'[j] = "streaming" => pc[j] = "streaming"
      /\ \A j \in Job : pc'[j] \in {"idle", "connecting"} => pc[j] \in {"idle", "connecting"}
      /\ \A f \in Name : part'[f] # NoFile => part'[f] = part[f]
  OBVIOUS
<1>2. Files'
  BY <1>1 DEF ImageInv, Typed, Files, Streaming, Known
<1>3. Apart'
  <2>1. /\ \A f, g \in Name : part'[f] # NoFile => part'[f] # dest[g]
        /\ \A f, g \in Name : part'[f] # NoFile /\ part'[f] = part'[g] => f = g
    BY <1>1 DEF ImageInv, Apart
  <2>2. /\ \A j \in Job, g \in Name : pc'[j] = "streaming" => out[j] # dest[g]
        /\ \A j, k \in Job : pc'[j] = "streaming" /\ pc'[k] = "streaming"
                             /\ out[j] = out[k] => j = k
    BY <1>1 DEF ImageInv, Apart, Streaming
  <2>3. ASSUME NEW j \in Job, pc'[j] = "streaming"
        PROVE  /\ \A f \in Name : part'[f] = out[j] => f = name[j]
               /\ part'[name[j]] \in {NoFile, out[j]}
    <3>1. pc[j] = "streaming" /\ out[j] # NoFile /\ name[j] \in Name
      BY <1>1, <2>3, IsoAssumption DEF ImageInv, Typed, NoFile
    <3>2. QED
      BY <1>1, <3>1 DEF ImageInv, Apart, Streaming
  <2>4. QED
    BY <2>1, <2>2, <2>3 DEF Apart, Streaming
<1>4. Contents'
  BY <1>1 DEF ImageInv, Contents, CatalogImagesWhole, Downloaded,
     Streaming
<1>5. QED
  BY <1>2, <1>3, <1>4 DEF FileInv

\* A block goes to the downloader's own file.
LEMMA BlockReceived ==
    ASSUME ImageInv, NEW j \in Job, ReceiveBlock(j)
    PROVE  FileInv'
<1>1. /\ pc[j] = "streaming" /\ got[j] \in Nat /\ out[j] \in Job
      /\ data[out[j]] = Image(j, got[j])
      /\ UNCHANGED <<name, pc, out, part, dest>>
      /\ got' = [got EXCEPT ![j] = got[j] + 1]
      /\ data' = [data EXCEPT ![out[j]] = WriteBlock(data[out[j]], got[j] + 1, j)]
  BY DEF ReceiveBlock, ImageInv, Typed, Contents, Streaming
<1>2. /\ data'[out[j]] = Image(j, got[j] + 1) /\ got'[j] = got[j] + 1
      /\ \A i \in Job : i # out[j] => data'[i] = data[i]
      /\ \A k \in Job : k # j => got'[k] = got[k]
  BY <1>1, WriteNext DEF ImageInv, Typed
<1>3. Files' /\ Apart'
  BY <1>1 DEF ImageInv, Files, Apart, Streaming, Known
<1>4. ASSUME NEW k \in Job, pc[k] = "streaming" PROVE data'[out[k]] = Image(k, got'[k])
  <2>1. CASE k = j
    BY <1>2, <2>1
  <2>2. CASE k # j
    <3>1. out[k] # out[j] /\ out[k] \in Job
      BY <1>1, <1>4, <2>2 DEF ImageInv, Typed, Apart, Streaming
    <3>2. QED
      BY <1>2, <1>4, <2>2, <3>1 DEF ImageInv, Contents, Streaming
  <2>3. QED
    BY <2>1, <2>2
<1>5. ASSUME NEW f \in Name, dest[f] # NoFile PROVE Downloaded(f, data'[dest[f]])
  <2>1. dest[f] \in Job /\ dest[f] # out[j]
    BY <1>1, <1>5 DEF ImageInv, Typed, Apart, Streaming
  <2>2. QED
    BY <1>2, <1>5, <2>1 DEF ImageInv, Contents, CatalogImagesWhole
<1>6. Contents'
  BY <1>1, <1>2, <1>4, <1>5 DEF ImageInv, Contents, CatalogImagesWhole, Downloaded,
     Streaming
<1>7. QED
  BY <1>3, <1>6 DEF FileInv

\* The part renamed is the downloader's own, and complete.
LEMMA PartRenamed ==
    ASSUME ImageInv, NEW j \in Job, RenamePart(j)
    PROVE  FileInv'
<1> DEFINE f0 == name[j]
           i  == part[f0]
<1>1. /\ pc[j] = "streaming" /\ AtEOF(j) /\ got[j] \in 0..Blocks /\ f0 \in Name /\ i \in Job /\ i # NoFile
      /\ i = out[j] /\ data[i] = Image(j, got[j]) /\ Known(i)
      /\ UNCHANGED <<name, got, out, data>>
      /\ pc' = [pc EXCEPT ![j] = "completing"]
      /\ dest' = [dest EXCEPT ![f0] = i]
      /\ part' = [part EXCEPT ![f0] = NoFile]
  BY DEF RenamePart, Goto, ImageInv, Typed, Sized, Apart, Contents, Streaming, Files
<1> HIDE DEF i, f0
<1>2. /\ \A f \in Name : dest'[f] = IF f = f0 THEN i ELSE dest[f]
      /\ \A f \in Name : part'[f] = IF f = f0 THEN NoFile ELSE part[f]
      /\ \A k \in Job : pc'[k] = IF k = j THEN "completing" ELSE pc[k]
      /\ part[f0] = i
  BY <1>1 DEF ImageInv, Typed, i
<1>3. \A k \in Job : Known(k) => Known(k)'
  BY <1>2 DEF Known
<1>4. \A f \in Name : /\ part'[f] # NoFile => pc'[part'[f]] \notin {"idle", "connecting"}
                      /\ dest'[f] # NoFile => pc'[dest'[f]] \notin {"idle", "connecting"}
  BY <1>1, <1>2 DEF ImageInv, Typed, Files, Known
<1>5. \A k \in Job : pc'[k] = "streaming" => pc'[out[k]] \notin {"idle", "connecting"}
  BY <1>2 DEF ImageInv, Typed, Files, Known, Streaming
<1>6. Files'
  BY <1>1, <1>4, <1>5 DEF Files, Known, Streaming
<1>7. ASSUME NEW k \in Job, pc'[k] = "streaming"
      PROVE  k # j /\ pc[k] = "streaming" /\ out[k] # i
  BY <1>1, <1>2, <1>7 DEF ImageInv, Apart, Streaming
<1>8. /\ \A f, g \in Name : part'[f] # NoFile => part'[f] # dest'[g]
      /\ \A f, g \in Name : part'[f] # NoFile /\ part'[f] = part'[g] => f = g
  BY <1>1, <1>2 DEF ImageInv, Apart
<1>9. /\ \A k \in Job, g \in Name : pc'[k] = "streaming" => out[k] # dest'[g]
      /\ \A k, l \in Job : pc'[k] = "streaming" /\ pc'[l] = "streaming"
                           /\ out[k] = out[l] => k = l
  BY <1>2, <1>7 DEF ImageInv, Apart, Streaming
<1>10. ASSUME NEW k \in Job, pc'[k] = "streaming"
       PROVE  /\ \A f \in Name : part'[f] = out[k] => f = name[k]
              /\ part'[name[k]] \in {NoFile, out[k]}
  <2>1. pc[k] = "streaming" /\ name[k] \in Name /\ out[k] # NoFile
    BY <1>7, <1>10, IsoAssumption DEF ImageInv, Typed, NoFile
  <2>2. QED
    BY <1>2, <2>1 DEF ImageInv, Apart, Streaming
<1>11. Apart'
  BY <1>1, <1>8, <1>9, <1>10 DEF Apart, Streaming
<1>12. Downloaded(f0, data[i])
  BY <1>1 DEF Downloaded, AtEOF, f0
<1>13. Contents'
  BY <1>1, <1>2, <1>7, <1>12 DEF ImageInv, Contents, CatalogImagesWhole, Downloaded,
     Streaming
<1>14. QED
  BY <1>6, <1>11, <1>13 DEF FileInv

\* A part is created, or emptied: nobody else is writing to it.
LEMMA PartCreated ==
    ASSUME ImageInv, NEW j \in Job, CreatePart(j)
    PROVE  FileInv'
<1> DEFINE f0 == name[j]
           i  == IF part[f0] = NoFile THEN j ELSE part[f0]
<1>1. /\ pc[j] = "connecting" /\ status[j] = "downloading" /\ got[j] = 0
      /\ f0 \in Name /\ i \in Job /\ i # NoFile
      /\ UNCHANGED <<name, got, dest>>
      /\ pc' = [pc EXCEPT ![j] = "streaming"]
      /\ out' = [out EXCEPT ![j] = i]
      /\ part' = [part EXCEPT ![f0] = i]
      /\ data' = [data EXCEPT ![i] = <<>>]
  BY IsoAssumption DEF CreatePart, Goto, ImageInv, Typed, StatusFits, Contents, NoFile
<1>2. /\ \A f \in Name : part'[f] = IF f = f0 THEN i ELSE part[f]
      /\ \A k \in Job : pc'[k] = IF k = j THEN "streaming" ELSE pc[k]
      /\ \A k \in Job : out'[k] = IF k = j THEN i ELSE out[k]
      /\ \A k \in Job : k # i => data'[k] = data[k]
      /\ data'[i] = <<>>
  BY <1>1 DEF ImageInv, Typed
\* The file is nobody else's.
<1>3. /\ \A g \in Name : dest[g] # i
      /\ \A g \in Name : part[g] = i => g = f0
      /\ \A k \in Job : pc[k] = "streaming" => out[k] # i
      /\ pc'[i] \notin {"idle", "connecting"}
  <2>1. CASE part[f0] = NoFile
    <3>1. i = j /\ ~Known(j)
      BY <1>1, <2>1 DEF Known
    <3>2. QED
      BY <1>1, <1>2, <3>1 DEF ImageInv, Files, Streaming
  <2>2. CASE part[f0] # NoFile
    <3>1. i = part[f0] /\ Known(i)
      BY <1>1, <2>2 DEF ImageInv, Files
    <3>2. ASSUME NEW k \in Job, pc[k] = "streaming", out[k] = i PROVE FALSE
      <4>1. f0 = name[k]
        BY <1>1, <3>1, <3>2 DEF ImageInv, Apart, Streaming
      <4>2. status[k] = "downloading"
        BY <3>2 DEF ImageInv, StatusFits
      <4>3. k = j
        BY <1>1, <4>1, <4>2 DEF ImageInv, Alone
      <4>4. QED
        BY <1>1, <3>2, <4>3
    <3>3. QED
      BY <1>1, <1>2, <2>2, <3>1, <3>2 DEF ImageInv, Apart, Known
  <2>3. QED
    BY <2>1, <2>2
<1> HIDE DEF i, f0
<1>4. Files'
  <2>1. \A k \in Job : pc[k] \notin {"idle", "connecting"} => pc'[k] \notin {"idle", "connecting"}
    BY <1>1, <1>2
  <2>2. \A f \in Name : part'[f] # NoFile => pc'[part'[f]] \notin {"idle", "connecting"}
    BY <1>2, <1>3, <2>1 DEF ImageInv, Typed, Files, Known
  <2>3. \A f \in Name : dest[f] # NoFile => pc'[dest[f]] \notin {"idle", "connecting"}
    BY <2>1 DEF ImageInv, Typed, Files, Known
  <2>4. \A k \in Job : pc'[k] = "streaming" => pc'[out'[k]] \notin {"idle", "connecting"}
    BY <1>2, <1>3, <2>1 DEF ImageInv, Typed, Files, Known, Streaming
  <2>5. QED
    BY <1>1, <2>2, <2>3, <2>4 DEF Files, Known, Streaming
<1>5. /\ \A f, g \in Name : part'[f] # NoFile => part'[f] # dest[g]
      /\ \A f, g \in Name : part'[f] # NoFile /\ part'[f] = part'[g] => f = g
  BY <1>1, <1>2, <1>3 DEF ImageInv, Apart
<1>6. /\ \A k \in Job, g \in Name : pc'[k] = "streaming" => out'[k] # dest[g]
      /\ \A k, l \in Job : pc'[k] = "streaming" /\ pc'[l] = "streaming"
                           /\ out'[k] = out'[l] => k = l
  BY <1>1, <1>2, <1>3 DEF ImageInv, Apart, Streaming
<1>7. ASSUME NEW k \in Job, pc'[k] = "streaming"
      PROVE  /\ \A f \in Name : part'[f] = out'[k] => f = name[k]
             /\ part'[name[k]] \in {NoFile, out'[k]}
  <2>1. CASE k = j
    BY <1>1, <1>2, <1>3, <2>1 DEF f0
  <2>2. CASE k # j
    <3>1. pc[k] = "streaming" /\ out'[k] = out[k] /\ out[k] # i /\ name[k] \in Name
      BY <1>2, <1>3, <1>7, <2>2 DEF ImageInv, Typed
    <3>2. name[k] # f0
      <4>1. status[k] = "downloading"
        BY <3>1 DEF ImageInv, StatusFits
      <4>2. QED
        BY <1>1, <2>2, <4>1 DEF ImageInv, Alone, f0
    <3>3. QED
      BY <1>2, <3>1, <3>2 DEF ImageInv, Apart, Streaming
  <2>3. QED
    BY <2>1, <2>2
<1>8. Apart'
  BY <1>1, <1>5, <1>6, <1>7 DEF Apart, Streaming
<1>9. ASSUME NEW k \in Job, pc'[k] = "streaming" PROVE data'[out'[k]] = Image(k, got[k])
  <2>1. CASE k = j
    BY <1>1, <1>2, <2>1, ImageNone
  <2>2. CASE k # j
    <3>1. pc[k] = "streaming" /\ out'[k] = out[k] /\ out[k] # i /\ out[k] \in Job
      BY <1>2, <1>3, <1>9, <2>2 DEF ImageInv, Typed
    <3>2. QED
      BY <1>2, <3>1 DEF ImageInv, Contents, Streaming
  <2>3. QED
    BY <2>1, <2>2
<1>10. ASSUME NEW f \in Name, dest[f] # NoFile PROVE Downloaded(f, data'[dest[f]])
  <2>1. dest[f] \in Job /\ dest[f] # i
    BY <1>3, <1>10 DEF ImageInv, Typed
  <2>2. QED
    BY <1>2, <1>10, <2>1 DEF ImageInv, Contents, CatalogImagesWhole
<1>11. Contents'
  BY <1>1, <1>2, <1>9, <1>10 DEF ImageInv, Contents, CatalogImagesWhole, Downloaded,
     Streaming
<1>12. QED
  BY <1>4, <1>8, <1>11 DEF FileInv

LEMMA ImageStep ==
    ASSUME Overlap = "after"
    PROVE  ImageInv /\ [Next]_vars => ImageInv'
<1> SUFFICES ASSUME ImageInv, [Next]_vars PROVE ImageInv'
  OBVIOUS
<1>1. Typed' /\ Sized'
  BY TypedStep, SizedStep DEF ImageInv
<1>2. StatusFits'
  BY StatusStep DEF ImageInv
<1>3. Alone'
  BY AloneStep
<1>4. ASSUME NEW j \in Job,
             \/ StartDownload(j) \/ ConnectFails(j) \/ TransferFails(j) \/ RenameFails(j)
             \/ Complete(j) \/ RemovePart(j)
      PROVE  FileInv'
  BY <1>4, NoFileTouched
     DEF StartDownload, ConnectFails, TransferFails, RenameFails, Complete, RemovePart,
         Goto, ImageInv, Typed
<1>5. ASSUME Crash PROVE FileInv'
  BY <1>5, NoFileTouched DEF Crash, ImageInv, Typed
<1>6. ASSUME UNCHANGED vars PROVE FileInv'
  BY <1>6, NoFileTouched DEF vars, ImageInv, Typed
<1>7. FileInv'
  BY <1>4, <1>5, <1>6, BlockReceived, PartRenamed, PartCreated DEF Next, executeDownload
<1>8. QED
  BY <1>1, <1>2, <1>3, <1>7 DEF ImageInv, FileInv

(* With one download of a name at a time, every listed image is what one    *)
(* download of that name was sent, whole but for a body of unknown length   *)
(* that was cut short, through failures, retries over the remains of failed *)
(* downloads and crashes (catalog.go:160-202).                              *)
THEOREM ListedImagesWhole == Overlap = "after" => (Spec => []CatalogImagesWhole)
<1> SUFFICES ASSUME Overlap = "after" PROVE Spec => []CatalogImagesWhole
  OBVIOUS
<1>1. ImageInv /\ [Next]_vars => ImageInv'
  BY ImageStep
<1>2. ImageInv => CatalogImagesWhole
  BY DEF ImageInv, Contents
<1>3. QED
  BY ImageInitInv, <1>1, <1>2, PTL DEF Spec
=============================================================================
