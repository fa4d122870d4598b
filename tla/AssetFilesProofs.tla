-------------------------- MODULE AssetFilesProofs --------------------------
(* Theorems about AssetFiles, for any requests, file size and bounds. *)
EXTENDS AssetFiles, FiniteSetTheorems, TLAPS

(* A request that is reading has a file open. *)
OpenInv == \A q \in Requests : pc[q] = "read" => fd[q] # 0

(* A rename puts a file into place, and only the deletion of a row removes it. *)
RenamedInv ==
  \A g \in Gets : /\ pc[g] = "reopen" => renamed[g]
                  /\ renamed[g] /\ deletes = 0 => dest # 0

IInv == TypeOK /\ OpenInv /\ TmpIsBeingDownloaded /\ RenamedInv

LEMMA CardType == Cardinality(Requests) \in Nat
  BY ConstantsAssumption, FS_Union, FS_CardinalityType DEF Requests

LEMMA InitIInv == Init => IInv
<1> SUFFICES ASSUME Init PROVE IInv
  OBVIOUS
<1>1. TypeOK
  BY CardType, ConstantsAssumption
     DEF Init, TypeOK, Inodes, Content, Empty, Nothing, Requests, Downloading
<1>2. OpenInv /\ TmpIsBeingDownloaded /\ RenamedInv
  BY DEF Init, OpenInv, TmpIsBeingDownloaded, RenamedInv, Requests
<1>3. QED
  BY <1>1, <1>2 DEF IInv

LEMMA CreatesType ==
  ASSUME TypeOK, NEW q \in Requests, NEW i \in {0} \cup Inodes, NEW now \in Inodes,
         Creates(q, i, now)
  PROVE  /\ data' \in [Inodes -> Content]
         /\ created' \in 0 .. Cardinality(Requests)
         /\ fd' \in [Requests -> {0} \cup Inodes]
<1>1. Empty \in Content
  BY ConstantsAssumption DEF Empty, Content
<1>2. QED
  BY <1>1, CardType DEF TypeOK, Creates, Inodes

LEMMA WritesChunkType ==
  ASSUME TypeOK, NEW q \in Requests, WritesChunk(q)
  PROVE  /\ data' \in [Inodes -> Content]
         /\ written' \in [Requests -> 0 .. Chunks]
<1>1. written[q] + 1 \in 0 .. Chunks
  BY ConstantsAssumption DEF TypeOK, WritesChunk
<1>2. written' \in [Requests -> 0 .. Chunks]
  BY <1>1 DEF TypeOK, WritesChunk
<1>3. CASE fd[q] \in Inodes
  <2>1. [data[fd[q]] EXCEPT ![written[q] + 1] = source[q]] \in Content
    BY <1>3 DEF TypeOK, Content
  <2>2. data' = [data EXCEPT ![fd[q]] = [data[fd[q]] EXCEPT ![written[q] + 1] = source[q]]]
    BY DEF WritesChunk
  <2>3. QED BY <1>2, <2>1, <2>2 DEF TypeOK
<1>4. CASE fd[q] \notin Inodes
  <2>1. data' = data
    BY <1>4 DEF TypeOK, WritesChunk
  <2>2. QED BY <1>2, <2>1 DEF TypeOK
<1>5. QED
  BY <1>3, <1>4

LEMMA GetStepIInv ==
  ASSUME IInv, NEW g \in Gets, GetStep(g) PROVE IInv'
<1> g \in Requests
  BY DEF Requests
<1> USE DEF IInv, TypeOK, OpenInv, TmpIsBeingDownloaded, RenamedInv, GoTo, Downloading,
            fileVars, cloudVars, requestVars
<1>1. CASE OpenLocal(g)
  BY <1>1 DEF OpenLocal
<1>2. CASE CreateTmp(g)
  <2>1. CASE \E now \in Inodes : Creates(g, tmp, now) /\ tmp' = now /\ GoTo(g, "source")
    <3>1. PICK now \in Inodes : Creates(g, tmp, now) /\ tmp' = now /\ GoTo(g, "source")
      BY <2>1
    <3>2. /\ data' \in [Inodes -> Content]
          /\ created' \in 0 .. Cardinality(Requests)
          /\ fd' \in [Requests -> {0} \cup Inodes]
      BY <3>1, CreatesType
    <3>3. \A q \in Requests : q # g => fd'[q] = fd[q]
      BY <3>1 DEF Creates
    <3>4. TypeOK'
      BY <1>2, <3>1, <3>2 DEF CreateTmp
    <3>5. OpenInv'
      BY <1>2, <3>1, <3>3 DEF CreateTmp
    <3>6. TmpIsBeingDownloaded'
      BY <1>2, <3>1 DEF CreateTmp
    <3>7. RenamedInv'
      BY <1>2, <3>1 DEF CreateTmp, Requests
    <3>8. QED BY <3>4, <3>5, <3>6, <3>7
  <2>2. CASE GoTo(g, "cleanup") /\ UNCHANGED <<tmp, data, created, fd>>
    BY <1>2, <2>2 DEF CreateTmp, Requests
  <2>3. QED BY <1>2, <2>1, <2>2 DEF CreateTmp
<1>3. CASE OpenSource(g)
  BY <1>3 DEF OpenSource, Requests
<1>4. CASE CopyChunk(g)
  BY <1>4, WritesChunkType DEF CopyChunk, Requests
<1>5. CASE CopyFails(g)
  BY <1>5 DEF CopyFails, Requests
<1>6. CASE Rename(g)
  BY <1>6 DEF Rename, Requests, Inodes
<1>7. CASE CleanUp(g)
  BY <1>7 DEF CleanUp, Requests
<1>8. CASE Read(g)
  BY <1>8 DEF Read, Requests, Inodes
<1>9. QED
  BY <1>1, <1>2, <1>3, <1>4, <1>5, <1>6, <1>7, <1>8 DEF GetStep

LEMMA UploadIInv ==
  ASSUME IInv, NEW u \in Uploads, StartUpload(u) \/ UploadStep(u) PROVE IInv'
<1>1. u \in Requests /\ u \notin Gets
  BY ConstantsAssumption DEF Requests
<1> USE DEF IInv, TypeOK, OpenInv, TmpIsBeingDownloaded, RenamedInv, GoTo, Downloading,
            fileVars, cloudVars, requestVars
<1>2. CASE StartUpload(u)
  <2>1. version + 1 \in 1 .. MaxVersion
    BY <1>2, ConstantsAssumption DEF StartUpload
  <2>2. QED BY <1>1, <1>2, <2>1 DEF StartUpload, Requests
<1>3. CASE UploadOpens(u)
  <2>1. PICK now \in Inodes : Creates(u, dest, now) /\ dest' = now
    BY <1>3 DEF UploadOpens
  <2>2. /\ data' \in [Inodes -> Content]
        /\ created' \in 0 .. Cardinality(Requests)
        /\ fd' \in [Requests -> {0} \cup Inodes]
    BY <1>1, <2>1, CreatesType
  <2>3. \A q \in Requests : q # u => fd'[q] = fd[q]
    BY <2>1 DEF Creates
  <2>4. TypeOK'
    BY <1>3, <2>1, <2>2 DEF UploadOpens
  <2>5. OpenInv'
    BY <1>3, <2>3 DEF UploadOpens
  <2>6. TmpIsBeingDownloaded' /\ RenamedInv'
    BY <1>1, <1>3, <2>1 DEF UploadOpens, Requests, Inodes
  <2>7. QED BY <2>4, <2>5, <2>6
<1>4. CASE UploadWrites(u)
  BY <1>1, <1>4, WritesChunkType DEF UploadWrites, Requests
<1>5. CASE UploadEnds(u)
  BY <1>1, <1>5 DEF UploadEnds, Requests
<1>6. QED
  BY <1>2, <1>3, <1>4, <1>5 DEF UploadStep

LEMMA NextIInv == IInv /\ [Next]_vars => IInv'
<1> SUFFICES ASSUME IInv, [Next]_vars PROVE IInv'
  OBVIOUS
<1> USE DEF IInv, TypeOK, OpenInv, TmpIsBeingDownloaded, RenamedInv, GoTo, Downloading,
            fileVars, cloudVars, requestVars
<1>1. ASSUME NEW g \in Gets, Get(g) PROVE IInv'
  BY <1>1 DEF Get, Arrives, Requests, Nothing
<1>2. ASSUME NEW g \in Gets, GetStep(g) PROVE IInv'
  BY <1>2, GetStepIInv
<1>3. ASSUME NEW u \in Uploads, StartUpload(u) \/ UploadStep(u) PROVE IInv'
  BY <1>3, UploadIInv
<1>4. CASE DeleteFile
  BY <1>4, ConstantsAssumption DEF DeleteFile
<1>5. CASE DeleteEnds
  BY <1>5 DEF DeleteEnds
<1>6. CASE \E v \in transfers : TransferEnds(v)
  BY <1>6 DEF TransferEnds
<1>7. CASE Expire
  BY <1>7 DEF Expire
<1>8. CASE Restart
  <2>1. restarts' > 0 /\ restarts' \in 0 .. MaxRestarts
    BY <1>8, ConstantsAssumption DEF Restart
  <2>2. TypeOK'
    BY <1>8, <2>1 DEF Restart
  <2>3. \A q \in Requests : pc'[q] \in Finished
    BY <1>8 DEF Restart, Finished
  <2>4. QED BY <1>8, <2>1, <2>2, <2>3 DEF Restart, Finished, Requests
<1>9. CASE UNCHANGED vars
  BY <1>9 DEF vars
<1>10. QED
  BY <1>1, <1>2, <1>3, <1>4, <1>5, <1>6, <1>7, <1>8, <1>9 DEF Next

LEMMA Invariance == Spec => []IInv
  BY InitIInv, NextIInv, PTL DEF Spec

(* The variables have their types, whatever overlaps. *)
THEOREM TypeCorrect == Spec => []TypeOK
  BY Invariance, PTL DEF IInv

(* No number of overlapping downloads leaves a .tmp file behind: asset_cache.go:85. *)
THEOREM NoTmpIsLeftBehind == Spec => []TmpIsBeingDownloaded
  BY Invariance, PTL DEF IInv

(* A successful download has its file in place: asset_cache.go:47. *)
THEOREM DownloadsAreFound == Spec => []DownloadedFileIsThere
<1>1. IInv => DownloadedFileIsThere
  BY DEF IInv, RenamedInv, DownloadedFileIsThere
<1>2. QED
  BY <1>1, Invariance, PTL

-----------------------------------------------------------------------------
(* Downloads that come one after the other. *)

InTurn == ~Overlap /\ Uploads = {}

(* At most one request is under way. *)
AloneInv ==
  \A p, q \in Gets : pc[p] \notin Finished /\ pc[q] \notin Finished => p = q

(* The file in place is whole and is not the file being downloaded; what was
   read from it is whole. *)
PlaceInv ==
  /\ dest <= created /\ tmp <= created
  /\ dest # 0 => dest # tmp /\ Whole(data[dest])
  /\ cached # Nothing => Whole(cached)
  /\ \A g \in Gets : pc[g] = "answered" => Whole(body[g])

(* The download of g has the .tmp file open and filled up to written[g]. *)
Progress(g) ==
  /\ pc[g] \in {"idle", "open", "create", "source"} => written[g] = 0
  /\ pc[g] \in {"source", "copy"} => fd[g] = tmp /\ tmp # 0
  /\ pc[g] = "copy" => /\ source[g] \in 1 .. MaxVersion
                       /\ \A k \in 1 .. written[g] : data[tmp][k] = source[g]
  /\ pc[g] = "read" => fd[g] # 0 /\ Whole(data[fd[g]])

ProgressInv == \A g \in Gets : Progress(g)

TurnInv == IInv /\ AloneInv /\ PlaceInv /\ ProgressInv

LEMMA InitTurnInv == Init => TurnInv
<1> SUFFICES ASSUME Init PROVE TurnInv
  OBVIOUS
<1>1. IInv
  BY InitIInv
<1>2. AloneInv /\ PlaceInv
  BY DEF Init, AloneInv, PlaceInv, Finished, Nothing, Requests
<1>3. ProgressInv
  BY DEF Init, ProgressInv, Progress, Requests
<1>4. QED
  BY <1>1, <1>2, <1>3 DEF TurnInv

(* Once all chunks are there, they make a whole file. *)
LEMMA CopyIsWhole ==
  ASSUME TypeOK, ProgressInv, NEW g \in Gets, pc[g] = "copy", written[g] = Chunks
  PROVE  tmp # 0 /\ Whole(data[tmp])
<1>1. tmp \in Inodes /\ source[g] \in 1 .. MaxVersion
  BY DEF TypeOK, ProgressInv, Progress
<1>2. data[tmp] \in [1 .. Chunks -> 0 .. MaxVersion]
  BY <1>1 DEF TypeOK, Content
<1>3. \A k \in 1 .. Chunks : data[tmp][k] = source[g]
  BY DEF ProgressInv, Progress
<1>4. data[tmp] = [k \in 1 .. Chunks |-> source[g]]
  BY <1>2, <1>3
<1>5. Whole(data[tmp])
  BY <1>1, <1>4, Zenon DEF Whole
<1>6. QED
  BY <1>1, <1>5 DEF Inodes

LEMMA GetStepTurnInv ==
  ASSUME InTurn, TurnInv, NEW g \in Gets, GetStep(g)
  PROVE  AloneInv' /\ PlaceInv' /\ ProgressInv'
<1>1. g \in Requests /\ Requests = Gets
  BY DEF InTurn, Requests
<1>2. pc[g] \notin Finished /\ \A q \in Gets : q # g => pc[q] \in Finished
  <2>1. pc[g] \notin Finished
    BY DEF GetStep, OpenLocal, CreateTmp, OpenSource, CopyChunk, CopyFails, Rename, CleanUp,
           Read, Finished
  <2>2. QED BY <2>1 DEF TurnInv, AloneInv
<1>3. \A q \in Gets : q # g => pc'[q] = pc[q]
  BY <1>1 DEF GetStep, OpenLocal, CreateTmp, OpenSource, CopyChunk, CopyFails, Rename,
              CleanUp, Read, GoTo, TurnInv, IInv, TypeOK
<1>4. AloneInv'
  BY <1>2, <1>3 DEF AloneInv
<1>5. TypeOK /\ PlaceInv /\ ProgressInv
  BY DEF TurnInv, IInv
<1> USE <1>1, <1>5 DEF TypeOK, GoTo, fileVars, cloudVars, requestVars
<1>6. CASE OpenLocal(g)
  <2>1. PlaceInv'
    BY <1>6 DEF OpenLocal, PlaceInv
  <2>2. ProgressInv'
    BY <1>6, <1>2 DEF OpenLocal, PlaceInv, ProgressInv, Progress, Finished
  <2>3. QED BY <1>4, <2>1, <2>2
<1>7. CASE CreateTmp(g)
  <2>1. CASE \E now \in Inodes : Creates(g, tmp, now) /\ tmp' = now /\ GoTo(g, "source")
    <3>1. PICK now \in Inodes : Creates(g, tmp, now) /\ tmp' = now /\ GoTo(g, "source")
      BY <2>1
    <3>2. now # 0 /\ now # dest /\ now <= created' /\ dest <= created'
      BY <3>1, CardType DEF Creates, PlaceInv, Inodes
    <3>3. \A i \in Inodes : i # now => data'[i] = data[i]
      BY <3>1 DEF Creates
    <3>4. PlaceInv'
      <4>1. dest' = dest /\ tmp' = now /\ cached' = cached /\ body' = body
        BY <1>7, <3>1 DEF CreateTmp
      <4>2. dest' <= created' /\ tmp' <= created'
        BY <3>2, <4>1
      <4>3. dest' # 0 => dest' # tmp' /\ Whole(data'[dest'])
        BY <3>2, <3>3, <4>1 DEF PlaceInv
      <4>4. \A q \in Gets : pc'[q] = "answered" => Whole(body'[q])
        BY <3>1, <4>1 DEF PlaceInv
      <4>5. QED BY <4>1, <4>2, <4>3, <4>4 DEF PlaceInv
    <3>5. fd'[g] = now /\ \A q \in Gets : q # g => fd'[q] = fd[q]
      BY <3>1 DEF Creates
    <3>6. ProgressInv'
      BY <1>2, <1>7, <3>1, <3>2, <3>5 DEF CreateTmp, ProgressInv, Progress, Finished
    <3>7. QED BY <1>4, <3>4, <3>6
  <2>2. CASE GoTo(g, "cleanup") /\ UNCHANGED <<tmp, data, created, fd>>
    <3>1. PlaceInv'
      BY <1>7, <2>2 DEF CreateTmp, PlaceInv
    <3>2. ProgressInv'
      BY <1>7, <2>2 DEF CreateTmp, ProgressInv, Progress
    <3>3. QED BY <1>4, <3>1, <3>2
  <2>3. QED BY <1>7, <2>1, <2>2 DEF CreateTmp
<1>8. CASE OpenSource(g)
  <2>1. PlaceInv'
    BY <1>8 DEF OpenSource, PlaceInv
  <2>2. ProgressInv'
    BY <1>8 DEF OpenSource, ProgressInv, Progress
  <2>3. QED BY <1>4, <2>1, <2>2
<1>9. CASE CopyChunk(g)
  <2>1. fd[g] = tmp /\ tmp # 0 /\ tmp \in Inodes /\ pc[g] = "copy"
    BY <1>9 DEF CopyChunk, ProgressInv, Progress
  <2>2. data' = [data EXCEPT ![tmp] = [data[tmp] EXCEPT ![written[g] + 1] = source[g]]]
    BY <1>9, <2>1 DEF CopyChunk, WritesChunk
  <2>3. written' = [written EXCEPT ![g] = written[g] + 1] /\ written[g] < Chunks
    BY <1>9 DEF CopyChunk, WritesChunk
  <2>4. PlaceInv'
    BY <1>9, <2>1, <2>2 DEF CopyChunk, PlaceInv
  <2>5. \A k \in 1 .. written'[g] : data'[tmp][k] = source[g]
    <3>1. data[tmp] \in [1 .. Chunks -> 0 .. MaxVersion]
      BY <2>1 DEF Content
    <3>2. \A k \in 1 .. written[g] : data[tmp][k] = source[g]
      BY <2>1 DEF ProgressInv, Progress
    <3>3. written[g] + 1 \in 1 .. Chunks
      BY <2>3, ConstantsAssumption
    <3>4. QED BY <2>1, <2>2, <2>3, <3>1, <3>2, <3>3, ConstantsAssumption
  <2>6. ProgressInv'
    BY <1>2, <1>9, <2>1, <2>3, <2>5 DEF CopyChunk, ProgressInv, Progress, Finished
  <2>7. QED BY <1>4, <2>4, <2>6
<1>10. CASE CopyFails(g)
  <2>1. PlaceInv'
    BY <1>10 DEF CopyFails, PlaceInv
  <2>2. ProgressInv'
    BY <1>10 DEF CopyFails, ProgressInv, Progress
  <2>3. QED BY <1>4, <2>1, <2>2
<1>11. CASE Rename(g)
  <2>1. tmp # 0 /\ Whole(data[tmp])
    BY <1>11, CopyIsWhole DEF Rename
  <2>2. PlaceInv'
    BY <1>11, <2>1 DEF Rename, PlaceInv, Inodes
  <2>3. ProgressInv'
    BY <1>2, <1>11 DEF Rename, ProgressInv, Progress, Finished
  <2>4. QED BY <1>4, <2>2, <2>3
<1>12. CASE CleanUp(g)
  <2>1. PlaceInv'
    BY <1>12 DEF CleanUp, PlaceInv, Inodes
  <2>2. ProgressInv'
    BY <1>2, <1>12 DEF CleanUp, ProgressInv, Progress, Finished
  <2>3. QED BY <1>4, <2>1, <2>2
<1>13. CASE Read(g)
  <2>1. Whole(data[fd[g]])
    BY <1>13 DEF Read, ProgressInv, Progress
  <2>2. PlaceInv'
    BY <1>13, <2>1 DEF Read, PlaceInv
  <2>3. ProgressInv'
    BY <1>13 DEF Read, ProgressInv, Progress
  <2>4. QED BY <1>4, <2>2, <2>3
<1>14. QED
  BY <1>6, <1>7, <1>8, <1>9, <1>10, <1>11, <1>12, <1>13 DEF GetStep

LEMMA NextTurnInv == InTurn /\ TurnInv /\ [Next]_vars => TurnInv'
<1> SUFFICES ASSUME InTurn, TurnInv, [Next]_vars PROVE TurnInv'
  OBVIOUS
<1>1. IInv'
  BY NextIInv DEF TurnInv
<1>2. Requests = Gets
  BY DEF InTurn, Requests
<1>3. TypeOK /\ AloneInv /\ PlaceInv /\ ProgressInv
  BY DEF TurnInv, IInv
<1> SUFFICES AloneInv' /\ PlaceInv' /\ ProgressInv'
  BY <1>1 DEF TurnInv
<1>4. ASSUME NEW g \in Gets, Get(g) PROVE AloneInv' /\ PlaceInv' /\ ProgressInv'
  <2> USE <1>2, <1>3, <1>4 DEF Get, Arrives, TypeOK, GoTo, fileVars, cloudVars, requestVars
  <2>1. \A q \in Gets : pc[q] \in Finished
    BY DEF InTurn
  <2>2. AloneInv'
    BY <2>1 DEF AloneInv
  <2>3. PlaceInv'
    BY DEF PlaceInv
  <2>4. ProgressInv'
    BY DEF ProgressInv, Progress
  <2>5. QED BY <2>2, <2>3, <2>4
<1>5. ASSUME NEW g \in Gets, GetStep(g) PROVE AloneInv' /\ PlaceInv' /\ ProgressInv'
  BY <1>5, GetStepTurnInv
<1> USE <1>2, <1>3 DEF AloneInv, PlaceInv, ProgressInv, Progress, TypeOK, fileVars, cloudVars,
                       requestVars
<1>6. ~ \E u \in Uploads : StartUpload(u) \/ UploadStep(u)
  BY DEF InTurn
<1>7. CASE DeleteFile
  BY <1>7 DEF DeleteFile, Inodes
<1>8. CASE DeleteEnds
  BY <1>8 DEF DeleteEnds
<1>9. CASE \E v \in transfers : TransferEnds(v)
  BY <1>9 DEF TransferEnds
<1>10. CASE Expire
  BY <1>10 DEF Expire
<1>11. CASE Restart
  <2>1. \A q \in Gets : pc'[q] \in Finished /\ pc'[q] \in {pc[q], "lost"}
    BY <1>11 DEF Restart, Finished
  <2>2. QED BY <1>11, <2>1 DEF Restart, Finished
<1>12. CASE UNCHANGED vars
  BY <1>12 DEF vars
<1>13. QED
  BY <1>4, <1>5, <1>6, <1>7, <1>8, <1>9, <1>10, <1>11, <1>12 DEF Next

(* Downloads that do not overlap serve whole files, whatever fails, is deleted
   or restarts between their steps: asset_cache.go:55-141, asset_route_handler.go:330. *)
THEOREM ServedInTurn == InTurn => (Spec => []ServedFileIsWhole)
<1>1. TurnInv => ServedFileIsWhole
  BY DEF TurnInv, PlaceInv, ServedFileIsWhole
<1>2. InTurn => (Spec => []TurnInv)
  <2>1. SUFFICES ASSUME InTurn PROVE Spec => []TurnInv
    OBVIOUS
  <2>2. TurnInv /\ [Next]_vars => TurnInv'
    BY <2>1, NextTurnInv
  <2>3. QED BY InitTurnInv, <2>2, PTL DEF Spec
<1>3. QED
  BY <1>1, <1>2, PTL
=============================================================================
