----------------------------- MODULE AssetFiles -----------------------------
(* The files behind a cloud-store column: one file name in the local folder of
   an AssetFolderCache, its object in the cloud store, and the entry of the file
   cache that serves it. The requests: GET of the asset (AssetRouteHandler), a
   write of the column (UploadFiles and the upload queued for the cloud), and
   the deletion of the row.

   External and modelled as they are used: the file system (a name refers to an
   inode, an open file keeps its inode when the name moves, O_TRUNC empties the
   inode under whoever writes it), rclone transfers, which run in the background
   and may fail, and the Olric map of the file cache, which may drop an entry.
   Files are small enough to be cached. *)
EXTENDS Integers, FiniteSets

CONSTANTS Gets,          \* GET requests, each served once
          Uploads,       \* writes of the column, each served once
          Chunks,        \* a file takes this many writes
          MaxVersion,    \* bound on the contents ever uploaded
          MaxRestarts,   \* bound on the restarts of the process
          MaxDeletes,    \* bound on the attempts to delete the row
          Overlap        \* FALSE: requests come one after the other

ASSUME ConstantsAssumption ==
  /\ IsFiniteSet(Gets) /\ IsFiniteSet(Uploads) /\ Gets \cap Uploads = {}
  /\ Chunks \in Nat \ {0}
  /\ MaxVersion \in Nat \ {0}
  /\ MaxRestarts \in Nat /\ MaxDeletes \in Nat
  /\ Overlap \in BOOLEAN

Requests == Gets \cup Uploads

(* Every request creates at most one file. *)
Inodes == 1 .. Cardinality(Requests)

VARIABLES
  row,        \* the row of the file: "live", "deleting", "gone"
  deletes,    \* attempts to delete it
  version,    \* contents uploaded so far
  cloud,      \* version in the cloud store, 0: no object
  transfers,  \* queued transfers: v copies version v there, 0 deletes the object
  dest,       \* inode of the file in the folder, 0: no file
  tmp,        \* inode of the file with ".tmp" appended, 0: no file
  data,       \* data[i][k]: version the k-th chunk of inode i is from, 0: none
  created,    \* inodes in use
  cached,     \* content in the file cache, Nothing: no entry
  pc,         \* pc[q]: where request q is
  fd,         \* fd[q]: the inode q has open
  source,     \* source[q]: version that q writes
  written,    \* written[q]: chunks that q has written
  renamed,    \* renamed[g]: the download of g succeeded
  body,       \* body[g]: content g was answered with
  restarts

fileVars == <<dest, tmp, data, created>>
cloudVars == <<row, deletes, version, cloud, transfers>>
requestVars == <<fd, source, written, renamed, body>>
vars == <<fileVars, cloudVars, cached, pc, requestVars, restarts>>

Content == [1 .. Chunks -> 0 .. MaxVersion]
Empty == [k \in 1 .. Chunks |-> 0]
Nothing == <<>>

Downloading == {"create", "source", "copy", "cleanup"}

TypeOK ==
  /\ row \in {"live", "deleting", "gone"}
  /\ deletes \in 0 .. MaxDeletes
  /\ version \in 1 .. MaxVersion
  /\ cloud \in 0 .. MaxVersion
  /\ transfers \subseteq 0 .. MaxVersion
  /\ dest \in {0} \cup Inodes
  /\ tmp \in {0} \cup Inodes
  /\ data \in [Inodes -> Content]
  /\ created \in 0 .. Cardinality(Requests)
  /\ cached \in Content \cup {Nothing}
  /\ pc \in [Requests -> {"idle", "open", "reopen", "read", "answered", "failed",
                          "lost", "truncate", "write"} \cup Downloading]
  /\ fd \in [Requests -> {0} \cup Inodes]
  /\ source \in [Requests -> 0 .. MaxVersion]
  /\ written \in [Requests -> 0 .. Chunks]
  /\ renamed \in [Gets -> BOOLEAN]
  /\ body \in [Gets -> Content \cup {Nothing}]
  /\ restarts \in 0 .. MaxRestarts

Init ==
  /\ row = "live" /\ deletes = 0 /\ version = 1 /\ cloud = 1 /\ transfers = {}
  /\ dest = 0 /\ tmp = 0 /\ created = 0
  /\ data = [i \in Inodes |-> Empty]
  /\ cached = Nothing
  /\ pc = [q \in Requests |-> "idle"]
  /\ fd = [q \in Requests |-> 0]
  /\ source = fd /\ written = fd
  /\ renamed = [g \in Gets |-> FALSE]
  /\ body = [g \in Gets |-> Nothing]
  /\ restarts = 0

GoTo(q, label) == pc' = [pc EXCEPT ![q] = label]

Finished == {"idle", "answered", "failed", "lost"}

(* The request may come now. *)
Arrives(q) == /\ pc[q] = "idle"
              /\ Overlap \/ \A p \in Requests : pc[p] \in Finished

(* O_CREATE | O_TRUNC on a name that refers to inode i, 0 if it is free:
   q has the file `now` open, which is empty. *)
Creates(q, i, now) ==
  /\ now = IF i = 0 THEN created + 1 ELSE i
  /\ created' = IF i = 0 THEN created + 1 ELSE created
  /\ data' = [data EXCEPT ![now] = Empty]
  /\ fd' = [fd EXCEPT ![q] = now]

(* Mutant of WritesChunk: off by one. *)
WritesChunkTooMany(q) ==
  /\ written[q] <= Chunks
  /\ data' = [data EXCEPT ![fd[q]][written[q] + 1] = source[q]]
  /\ written' = [written EXCEPT ![q] = @ + 1]

(* One more write at q's own offset. *)
WritesChunk(q) ==
  /\ written[q] < Chunks
  /\ data' = [data EXCEPT ![fd[q]][written[q] + 1] = source[q]]
  /\ written' = [written EXCEPT ![q] = @ + 1]

-----------------------------------------------------------------------------
(* GET of the asset. *)

(* An entry of the file cache answers at once, else FindOne needs the row. *)
Get(g) ==
  /\ Arrives(g)
  /\ IF cached # Nothing
     THEN GoTo(g, "answered") /\ body' = [body EXCEPT ![g] = cached]
     ELSE GoTo(g, IF row = "gone" THEN "failed" ELSE "open") /\ UNCHANGED body
  /\ UNCHANGED <<fileVars, cloudVars, cached, fd, source, written, renamed, restarts>>

(* GetFileByName, before a download and after it. *)
OpenLocal(g) ==
  /\ pc[g] \in {"open", "reopen"}
  /\ fd' = [fd EXCEPT ![g] = dest]
  /\ GoTo(g, IF dest # 0 THEN "read" ELSE IF pc[g] = "open" THEN "create" ELSE "failed")
  /\ UNCHANGED <<fileVars, cloudVars, cached, source, written, renamed, body, restarts>>

(* Without an object in the cloud the download fails, and still cleans up. *)
CreateTmp(g) ==
  /\ pc[g] = "create"
  /\ \/ /\ cloud # 0
        /\ \E now \in Inodes : Creates(g, tmp, now) /\ tmp' = now
        /\ GoTo(g, "source")
     \/ /\ GoTo(g, "cleanup")          \* no object, or the store cannot be reached
        /\ UNCHANGED <<tmp, data, created, fd>>
  /\ UNCHANGED <<dest, cloudVars, cached, source, written, renamed, body, restarts>>

OpenSource(g) ==
  /\ pc[g] = "source"
  /\ cloud # 0
  /\ source' = [source EXCEPT ![g] = cloud]
  /\ GoTo(g, "copy")
  /\ UNCHANGED <<fileVars, cloudVars, cached, fd, written, renamed, body, restarts>>

CopyChunk(g) ==
  /\ pc[g] = "copy"
  /\ WritesChunk(g)
  /\ UNCHANGED <<dest, tmp, created, cloudVars, cached, pc, fd, source, renamed, body,
                 restarts>>

(* The source does not open, a write fails or the five minutes are over. *)
CopyFails(g) ==
  /\ pc[g] \in {"source", "copy"}
  /\ GoTo(g, "cleanup")
  /\ UNCHANGED <<fileVars, cloudVars, cached, requestVars, restarts>>

(* Mutant of Rename: the error of the copy is ignored. *)
RenameAnyCopy(g) ==
  /\ pc[g] = "copy"
  /\ dest' = IF tmp # 0 THEN tmp ELSE dest
  /\ tmp' = 0
  /\ renamed' = [renamed EXCEPT ![g] = (tmp # 0)]
  /\ GoTo(g, "cleanup")
  /\ UNCHANGED <<data, created, cloudVars, cached, fd, source, written, body, restarts>>

(* Mutant of Rename: the error of the rename is not returned. *)
RenameUnchecked(g) ==
  /\ pc[g] = "copy" /\ written[g] = Chunks
  /\ dest' = IF tmp # 0 THEN tmp ELSE dest
  /\ tmp' = 0
  /\ renamed' = [renamed EXCEPT ![g] = TRUE]
  /\ GoTo(g, "cleanup")
  /\ UNCHANGED <<data, created, cloudVars, cached, fd, source, written, body, restarts>>

(* What the .tmp name refers to by now becomes the file; it fails without one. *)
Rename(g) ==
  /\ pc[g] = "copy" /\ written[g] = Chunks
  /\ dest' = IF tmp # 0 THEN tmp ELSE dest
  /\ tmp' = 0
  /\ renamed' = [renamed EXCEPT ![g] = (tmp # 0)]
  /\ GoTo(g, "cleanup")
  /\ UNCHANGED <<data, created, cloudVars, cached, fd, source, written, body, restarts>>

(* Mutant of CleanUp: the deferred removal is forgotten. *)
CleanUpNothing(g) ==
  /\ pc[g] = "cleanup"
  /\ GoTo(g, IF renamed[g] THEN "reopen" ELSE "failed")
  /\ UNCHANGED <<fileVars, cloudVars, cached, requestVars, restarts>>

(* Mutant of CleanUp: a failed download is tried again. *)
CleanUpAndRetry(g) ==
  /\ pc[g] = "cleanup"
  /\ tmp' = 0
  /\ GoTo(g, IF renamed[g] THEN "reopen" ELSE "open")
  /\ UNCHANGED <<dest, data, created, cloudVars, cached, requestVars, restarts>>

(* The deferred removal takes the .tmp file, whoever is writing it. *)
CleanUp(g) ==
  /\ pc[g] = "cleanup"
  /\ tmp' = 0
  /\ GoTo(g, IF renamed[g] THEN "reopen" ELSE "failed")
  /\ UNCHANGED <<dest, data, created, cloudVars, cached, requestVars, restarts>>

(* ReadAll, the entry in the file cache, the answer. *)
Read(g) ==
  /\ pc[g] = "read"
  /\ body' = [body EXCEPT ![g] = data[fd[g]]]
  /\ cached' = data[fd[g]]
  /\ GoTo(g, "answered")
  /\ UNCHANGED <<fileVars, cloudVars, fd, source, written, renamed, restarts>>

-----------------------------------------------------------------------------
(* A write of the column, and the deletion of the row. *)

(* The upload to the cloud is queued before the local file is written. *)
StartUpload(u) ==
  /\ Arrives(u) /\ row = "live" /\ version < MaxVersion
  /\ version' = version + 1
  /\ source' = [source EXCEPT ![u] = version + 1]
  /\ transfers' = transfers \cup {version + 1}
  /\ GoTo(u, "truncate")
  /\ UNCHANGED <<fileVars, row, deletes, cloud, cached, fd, written, renamed, body, restarts>>

UploadOpens(u) ==
  /\ pc[u] = "truncate"
  /\ \E now \in Inodes : Creates(u, dest, now) /\ dest' = now
  /\ GoTo(u, "write")
  /\ UNCHANGED <<tmp, cloudVars, cached, source, written, renamed, body, restarts>>

UploadWrites(u) ==
  /\ pc[u] = "write"
  /\ WritesChunk(u)
  /\ UNCHANGED <<dest, tmp, created, cloudVars, cached, pc, fd, source, renamed, body,
                 restarts>>

(* A failed WriteFile fails the request and leaves the file as it is. *)
UploadEnds(u) ==
  /\ pc[u] = "write"
  /\ \/ written[u] = Chunks /\ GoTo(u, "answered")
     \/ written[u] < Chunks /\ GoTo(u, "failed")
  /\ UNCHANGED <<fileVars, cloudVars, cached, requestVars, restarts>>

(* DeleteWithoutFilters removes the file and queues the removal of the object
   before the row is deleted, and long before the transaction commits. *)
DeleteFile ==
  /\ row = "live" /\ deletes < MaxDeletes
  /\ row' = "deleting"
  /\ deletes' = deletes + 1
  /\ transfers' = transfers \cup {0}
  /\ dest' = 0
  /\ UNCHANGED <<tmp, data, created, version, cloud, cached, pc, requestVars, restarts>>

DeleteEnds ==
  /\ row = "deleting"
  /\ row' \in {"live", "gone"}          \* rolled back, committed
  /\ UNCHANGED <<fileVars, deletes, version, cloud, transfers, cached, pc, requestVars, restarts>>

-----------------------------------------------------------------------------
(* The background. *)

TransferEnds(v) ==
  /\ v \in transfers
  /\ transfers' = transfers \ {v}
  /\ cloud' \in {v, cloud}              \* done, failed
  /\ UNCHANGED <<fileVars, row, deletes, version, cached, pc, requestVars, restarts>>

Expire ==
  /\ cached # Nothing
  /\ cached' = Nothing
  /\ UNCHANGED <<fileVars, cloudVars, pc, requestVars, restarts>>

(* The process stops and comes back: files and cloud are what they were, a
   deletion under way is rolled back. *)
Restart ==
  /\ restarts < MaxRestarts
  /\ restarts' = restarts + 1
  /\ pc' = [q \in Requests |-> IF pc[q] \in Finished THEN pc[q] ELSE "lost"]
  /\ row' = IF row = "deleting" THEN "live" ELSE row
  /\ transfers' = {}
  /\ cached' = Nothing
  /\ UNCHANGED <<fileVars, deletes, version, cloud, requestVars>>

GetStep(g) ==
  \/ OpenLocal(g) \/ CreateTmp(g) \/ OpenSource(g) \/ CopyChunk(g)
  \/ CopyFails(g) \/ Rename(g) \/ CleanUp(g) \/ Read(g)

UploadStep(u) == UploadOpens(u) \/ UploadWrites(u) \/ UploadEnds(u)

Next ==
  \/ \E g \in Gets : Get(g) \/ GetStep(g)
  \/ \E u \in Uploads : StartUpload(u) \/ UploadStep(u)
  \/ DeleteFile \/ DeleteEnds
  \/ \E v \in transfers : TransferEnds(v)
  \/ Expire \/ Restart

Spec == Init /\ [][Next]_vars

(* A request under way goes on: the download has a deadline of five minutes. *)
FairSpec == Spec /\ \A g \in Gets : WF_vars(GetStep(g))

-----------------------------------------------------------------------------
(* The deferred removal of asset_cache.go:85: in a process that was never
   killed, a .tmp file is there only while a download is. With several
   downloads of the name, each removes what the others may have left. *)
TmpIsBeingDownloaded ==
  tmp # 0 => restarts > 0 \/ \E g \in Gets : pc[g] \in Downloading

(* asset_cache.go:47: a download that succeeded has put the file where the
   second open looks for it; a concurrent download or upload may have replaced
   it, only a deletion of the row takes it away. *)
DownloadedFileIsThere ==
  \A g \in Gets : (pc[g] = "reopen" /\ deletes = 0) => dest # 0

(* Every GET is answered, whatever other requests do to its files. *)
EveryGetEnds ==
  \A g \in Gets : (pc[g] = "open") ~> (pc[g] \in Finished)

(* A file served is one version of it, from the first byte to the last. *)
Whole(content) == \E v \in 1 .. MaxVersion : content = [k \in 1 .. Chunks |-> v]

ServedFileIsWhole ==
  \A g \in Gets : pc[g] = "answered" => Whole(body[g])
=============================================================================
