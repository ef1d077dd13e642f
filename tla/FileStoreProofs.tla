--------------------------- MODULE FileStoreProofs ---------------------------
(***************************************************************************)
(* Proofs about files, for any number and size of them.                    *)
(*                                                                         *)
(* The chunk store: being backed is stable.  A chunk whose blob is whole,  *)
(* is being written, or was damaged stays so under every step of every     *)
(* other upload, peer and deletion (BackedStays).  The chunk routing       *)
(* table: the times kept are the latest ones.  The coding of a file: where *)
(* each shard stands (Coded), from which follow the storage proofs, the    *)
(* reassembly of a file (ComesBack) and of a group that has lost shards    *)
(* (GroupRestored).                                                        *)
(***************************************************************************)
EXTENDS FileStore, ChunkDht, FileCoding, DataLemmas

Steps == {"idle", "count", "open", "blob", "orphan", "index", "answered", "failed"}

UploadStates == [at : Steps, file : Uploads \cup {None}, stored : Nat]

FileTypeOK ==
    /\ index \subseteq ChunkIds
    /\ IsFiniteSet(index)
    /\ blob \in [ChunkIds -> {"none", "partial", "whole"}]
    /\ manifests \in [Uploads -> Uploads \cup {None}]
    /\ upload \in [Uploads -> UploadStates]
    /\ receiving \in Shared \cup {None}
    /\ deleting \in Shared \cup {None}
    /\ damaged \subseteq ChunkIds

\* An upload has stored a part of its chunks, and all of them once it is answered.
Progress ==
    \A u \in Uploads :
        /\ upload[u].at # "answered" => upload[u].stored < Len(Layout[u])
        /\ upload[u].at = "answered" => upload[u].stored = Len(Layout[u])
        /\ upload[u].at # "idle" => upload[u].file \in Uploads

\* Chunk c can be read, or there is a reason why not.
Backed(c) == blob[c] = "whole" \/ BeingWritten(c) \/ c \in damaged

\* The chunks that an upload has written so far are backed, and so is the one whose
\* index entry it inserts next.
UploadsBacked ==
    \A u \in Uploads :
        /\ \A i \in 1..upload[u].stored : Backed(Layout[u][i].id)
        /\ upload[u].at \in {"orphan", "index"} => Backed(Current(u))

IndexBacked == \A c \in index : Backed(c)

\* The uploads that have passed the limit for a chunk they have not indexed.
Admitted == {u \in Uploads : upload[u].at \in {"open", "blob", "orphan", "index"}}

\* Index entries and the ones still to come.
AdmittedBounded ==
    Cardinality(index) + Cardinality(Admitted) <= MAX_LOCAL_CHUNKS + Cardinality(Uploads) - 1

IInv ==
    /\ FileTypeOK
    /\ Progress
    /\ UploadsBacked
    /\ IndexBacked
    /\ AdmittedBounded

-----------------------------------------------------------------------------
(* Types, and the progress of an upload.                                   *)

LEMMA UploadTyped ==
    ASSUME FileTypeOK, NEW u \in Uploads
    PROVE  /\ upload[u] \in UploadStates
           /\ upload[u].at \in Steps /\ upload[u].stored \in Nat
           /\ upload[u].file \in Uploads \cup {None}
  BY DEF FileTypeOK, UploadStates

LEMMA LayoutTyped ==
    ASSUME NEW u \in Uploads
    PROVE  /\ Len(Layout[u]) \in Nat \ {0} /\ DOMAIN Layout[u] = 1..Len(Layout[u])
           /\ \A i \in 1..Len(Layout[u]) : Layout[u][i] \in [id : ChunkIds, data : BOOLEAN]
<1>1. Layout[u] \in Seq([id : ChunkIds, data : BOOLEAN]) /\ Layout[u] # <<>>
  BY FileStoreAssumption
<1>2. \A i \in 1..Len(Layout[u]) : Layout[u][i] \in [id : ChunkIds, data : BOOLEAN]
  BY <1>1, ElementOfSeq
<1>3. Len(Layout[u]) \in Nat \ {0} /\ DOMAIN Layout[u] = 1..Len(Layout[u])
  BY <1>1
<1> QED  BY <1>2, <1>3

LEMMA CurrentTyped ==
    ASSUME FileTypeOK, Progress, NEW u \in Uploads, upload[u].at # "answered"
    PROVE  /\ Current(u) \in ChunkIds
           /\ upload[u].stored + 1 \in 1..Len(Layout[u])
<1>1. upload[u].stored < Len(Layout[u]) /\ upload[u].stored \in Nat
  BY UploadTyped DEF Progress
<1>2. upload[u].stored + 1 \in 1..Len(Layout[u])
  BY <1>1, LayoutTyped
<1> QED  BY <1>2, LayoutTyped DEF Current

\* The steps of an upload that keep its file and the chunks it has stored.
Advances(from, to) ==
    \/ from = "count" /\ to \in {"failed", "open"}
    \/ from = "open" /\ to = "blob"
    \/ from = "blob" /\ to \in {"index", "failed", "orphan"}
    \/ from = "orphan" /\ to = "index"

\* Every step moves an upload in one of these ways, or leaves it.
Moved(u) ==
    \/ upload'[u] = upload[u]
    \/ /\ upload[u].at = "idle" /\ upload'[u].at = "count"
       /\ upload'[u].file \in Uploads /\ upload'[u].stored = upload[u].stored
    \/ /\ Advances(upload[u].at, upload'[u].at)
       /\ upload'[u].file = upload[u].file /\ upload'[u].stored = upload[u].stored
    \/ /\ upload[u].at = "index"
       /\ upload'[u].stored = upload[u].stored + 1
       /\ upload'[u].file = upload[u].file
       /\ upload'[u].at = IF upload[u].stored + 1 = Len(Layout[u]) THEN "answered" ELSE "count"

LEMMA UploadsMove ==
    ASSUME FileTypeOK, FileStoreNext
    PROVE  upload' \in [Uploads -> UploadStates] /\ \A u \in Uploads : Moved(u)
<1> USE FileStoreAssumption
<1>1. ASSUME NEW u \in Uploads, put_manifest(u)
      PROVE  upload' \in [Uploads -> UploadStates] /\ \A v \in Uploads : Moved(v)
  <2>1. PICK f \in FileIds(u) : upload' = [upload EXCEPT ![u].at = "count", ![u].file = f]
    BY <1>1 DEF put_manifest
  <2>2. f \in Uploads
    BY DEF FileIds
  <2>3. upload[u].at = "idle"
    BY <1>1 DEF put_manifest
  <2>4. upload' \in [Uploads -> UploadStates]
    BY ZenonT(60), <2>1, <2>2 DEF FileTypeOK, UploadStates, Steps
  <2>5. /\ upload'[u].at = "count" /\ upload'[u].file = f /\ upload'[u].stored = upload[u].stored
        /\ \A v \in Uploads \ {u} : upload'[v] = upload[v]
    BY <2>1, <2>2 DEF FileTypeOK, UploadStates, Steps
  <2> QED  BY <2>2, <2>3, <2>4, <2>5 DEF Moved
<1>2. ASSUME NEW u \in Uploads, NEW at \in Steps,
             upload' = [upload EXCEPT ![u].at = at],
             Advances(upload[u].at, at)
      PROVE  upload' \in [Uploads -> UploadStates] /\ \A v \in Uploads : Moved(v)
  <2>1. upload' \in [Uploads -> UploadStates]
    BY <1>2 DEF FileTypeOK, UploadStates
  <2>2. /\ upload'[u].at = at /\ upload'[u].file = upload[u].file
        /\ upload'[u].stored = upload[u].stored
        /\ \A v \in Uploads \ {u} : upload'[v] = upload[v]
    BY <1>2 DEF FileTypeOK, UploadStates
  <2> QED  BY <1>2, <2>1, <2>2 DEF Moved
<1>3. ASSUME NEW u \in Uploads, CountChunks(u)
      PROVE  upload' \in [Uploads -> UploadStates] /\ \A v \in Uploads : Moved(v)
  <2>1. CASE Cardinality(index) >= MAX_LOCAL_CHUNKS
    <3>1. upload' = [upload EXCEPT ![u].at = "failed"] /\ upload[u].at = "count"
      BY <1>3, <2>1 DEF CountChunks
    <3> QED  BY <3>1, <1>2 DEF Steps, Advances
  <2>2. CASE ~(Cardinality(index) >= MAX_LOCAL_CHUNKS)
    <3>1. upload' = [upload EXCEPT ![u].at = "open"] /\ upload[u].at = "count"
      BY <1>3, <2>2 DEF CountChunks
    <3> QED  BY <3>1, <1>2 DEF Steps, Advances
  <2> QED  BY <2>1, <2>2
<1>4. ASSUME NEW u \in Uploads, OpenBlob(u)
      PROVE  upload' \in [Uploads -> UploadStates] /\ \A v \in Uploads : Moved(v)
  BY <1>4, <1>2 DEF OpenBlob, Steps, Advances
<1>5. ASSUME NEW u \in Uploads, WriteBlob(u)
      PROVE  upload' \in [Uploads -> UploadStates] /\ \A v \in Uploads : Moved(v)
  <2>1. upload' = [upload EXCEPT ![u].at = "index"] /\ upload[u].at \in {"blob", "orphan"}
    BY <1>5 DEF WriteBlob
  <2> QED  BY <2>1, <1>2 DEF Steps, Advances
<1>6. ASSUME NEW u \in Uploads, WriteBlobFails(u)
      PROVE  upload' \in [Uploads -> UploadStates] /\ \A v \in Uploads : Moved(v)
  BY <1>6, <1>2 DEF WriteBlobFails, Steps, Advances
<1>7. ASSUME NEW u \in Uploads, InsertIndex(u)
      PROVE  upload' \in [Uploads -> UploadStates] /\ \A v \in Uploads : Moved(v)
  <2> DEFINE at == IF upload[u].stored + 1 = Len(Layout[u]) THEN "answered" ELSE "count"
  <2>1. /\ upload' = [upload EXCEPT ![u].stored = upload[u].stored + 1, ![u].at = at]
        /\ upload[u].at = "index"
    BY <1>7 DEF InsertIndex
  <2>2. at \in Steps /\ upload[u].stored + 1 \in Nat
    BY UploadTyped DEF Steps
  <2>3. upload' \in [Uploads -> UploadStates]
    <3> HIDE DEF at
    <3> QED  BY ZenonT(60), <2>1, <2>2 DEF FileTypeOK, UploadStates
  <2>4. /\ upload'[u].at = at /\ upload'[u].file = upload[u].file
        /\ upload'[u].stored = upload[u].stored + 1
        /\ \A v \in Uploads \ {u} : upload'[v] = upload[v]
    <3> HIDE DEF at
    <3> QED  BY <2>1, <2>2 DEF FileTypeOK, UploadStates
  <2> QED  BY <2>1, <2>3, <2>4 DEF Moved
<1>8. ASSUME UNCHANGED upload
      PROVE  upload' \in [Uploads -> UploadStates] /\ \A v \in Uploads : Moved(v)
  BY <1>8, UploadTyped DEF Moved, FileTypeOK
<1>9. ASSUME NEW ok \in BOOLEAN, RemoveBlob(ok)
      PROVE  upload' \in [Uploads -> UploadStates] /\ \A v \in Uploads : Moved(v)
  <2>1. CASE ok /\ blob[deleting] # "none"
    <3>1. upload' = [u \in Uploads |-> IF u \in WritersOf(deleting)
                                       THEN [upload[u] EXCEPT !.at = "orphan"] ELSE upload[u]]
      BY <1>9, <2>1 DEF RemoveBlob
    <3>2. ASSUME NEW u \in Uploads
          PROVE  upload'[u] \in UploadStates /\ Moved(u)
      <4>1. CASE u \in WritersOf(deleting)
        <5>1. upload'[u] = [upload[u] EXCEPT !.at = "orphan"]
          BY <3>1, <4>1
        <5>2. upload'[u] \in UploadStates
          BY <5>1 DEF FileTypeOK, UploadStates, Steps
        <5>3. /\ upload'[u].at = "orphan" /\ upload'[u].file = upload[u].file
              /\ upload'[u].stored = upload[u].stored
          BY <5>1 DEF FileTypeOK, UploadStates
        <5>4. upload[u].at = "blob"
          BY <4>1 DEF WritersOf
        <5> QED  BY <5>2, <5>3, <5>4 DEF Moved, Advances
      <4>2. CASE u \notin WritersOf(deleting)
        BY <3>1, <4>2, UploadTyped DEF Moved
      <4> QED  BY <4>1, <4>2
    <3> QED  BY <3>1, <3>2
  <2>2. CASE ~(ok /\ blob[deleting] # "none")
    BY <1>8, <1>9, <2>2 DEF RemoveBlob
  <2> QED  BY <2>1, <2>2
<1>10. ASSUME NEW c \in Shared, ChunkResponse(c) \/ delete_chunk(c)
       PROVE  UNCHANGED upload
  BY <1>10 DEF ChunkResponse, delete_chunk
<1>11. ASSUME NEW ok \in BOOLEAN, EndChunkResponse(ok)
       PROVE  UNCHANGED upload
  BY <1>11 DEF EndChunkResponse
<1>12. ASSUME NEW f \in Uploads, NEW u \in Uploads, ManifestResponse(f, u)
       PROVE  UNCHANGED upload
  BY <1>12 DEF ManifestResponse
<1> QED
  BY <1>1, <1>3, <1>4, <1>5, <1>6, <1>7, <1>8, <1>9, <1>10, <1>11, <1>12 DEF FileStoreNext

LEMMA ProgressKept ==
    ASSUME FileTypeOK, Progress, FileStoreNext
    PROVE  Progress'
<1> SUFFICES ASSUME NEW u \in Uploads
             PROVE  /\ upload'[u].at # "answered" => upload'[u].stored < Len(Layout[u])
                    /\ upload'[u].at = "answered" => upload'[u].stored = Len(Layout[u])
                    /\ upload'[u].at # "idle" => upload'[u].file \in Uploads
  BY DEF Progress
<1>1. Moved(u)
  BY UploadsMove
<1>2. Len(Layout[u]) \in Nat
  BY FileStoreAssumption
<1> QED  BY <1>1, <1>2, UploadTyped DEF Moved, Advances, Progress

LEMMA TypesKept ==
    ASSUME FileTypeOK, Progress, FileStoreNext
    PROVE  FileTypeOK'
<1> USE FileStoreAssumption DEF FileTypeOK
<1>1. upload' \in [Uploads -> UploadStates]
  BY UploadsMove
<1>2. ASSUME NEW u \in Uploads, put_manifest(u)
      PROVE  FileTypeOK'
  BY <1>1, <1>2 DEF put_manifest, FileIds
<1>3. ASSUME NEW u \in Uploads, CountChunks(u)
      PROVE  FileTypeOK'
  BY <1>1, <1>3 DEF CountChunks
<1>4. ASSUME NEW u \in Uploads, OpenBlob(u)
      PROVE  FileTypeOK'
  BY <1>1, <1>4 DEF OpenBlob
<1>5. ASSUME NEW u \in Uploads, WriteBlob(u)
      PROVE  FileTypeOK'
  BY <1>1, <1>5 DEF WriteBlob
<1>6. ASSUME NEW u \in Uploads, WriteBlobFails(u)
      PROVE  FileTypeOK'
  <2>1. Current(u) \in ChunkIds
    BY <1>6, CurrentTyped DEF WriteBlobFails
  <2> QED  BY <1>1, <1>6, <2>1 DEF WriteBlobFails
<1>7. ASSUME NEW u \in Uploads, InsertIndex(u)
      PROVE  FileTypeOK'
  <2>1. Current(u) \in ChunkIds
    BY <1>7, CurrentTyped DEF InsertIndex
  <2>2. IsFiniteSet(index \cup {Current(u)})
    BY FS_AddElement
  <2> QED  BY <1>1, <1>7, <2>1, <2>2 DEF InsertIndex
<1>8. ASSUME NEW c \in Shared, ChunkResponse(c)
      PROVE  FileTypeOK'
  BY <1>1, <1>8 DEF ChunkResponse
<1>9. ASSUME NEW c \in Shared, delete_chunk(c)
      PROVE  FileTypeOK'
  <2>1. IsFiniteSet(index \ {c})
    BY FS_RemoveElement
  <2> QED  BY <1>1, <1>9, <2>1 DEF delete_chunk
<1>10. ASSUME NEW ok \in BOOLEAN, EndChunkResponse(ok)
       PROVE  FileTypeOK'
  BY <1>1, <1>10 DEF EndChunkResponse
<1>11. ASSUME NEW ok \in BOOLEAN, RemoveBlob(ok)
       PROVE  FileTypeOK'
  <2>1. index' = index /\ manifests' = manifests /\ deleting' = None
    BY <1>11 DEF RemoveBlob
  <2>2. /\ blob' \in [ChunkIds -> {"none", "partial", "whole"}]
        /\ receiving' \in Shared \cup {None} /\ damaged' \subseteq ChunkIds
    BY <1>11 DEF RemoveBlob
  <2> QED  BY <1>1, <2>1, <2>2
<1>12. ASSUME NEW f \in Uploads, NEW u \in Uploads, ManifestResponse(f, u)
       PROVE  FileTypeOK'
  BY <1>1, <1>12 DEF ManifestResponse
<1> QED
  BY <1>2, <1>3, <1>4, <1>5, <1>6, <1>7, <1>8, <1>9, <1>10, <1>11, <1>12 DEF FileStoreNext

-----------------------------------------------------------------------------
(* Being backed is stable.                                                 *)

LEMMA Written ==
    ASSUME NEW c
    PROVE  /\ BeingWritten(c) <=> \/ receiving = c
                                  \/ \E u \in Uploads : upload[u].at = "blob" /\ Current(u) = c
           /\ BeingWritten(c)' <=> \/ receiving' = c
                                   \/ \E u \in Uploads : upload'[u].at = "blob" /\ Current(u)' = c
  BY DEF BeingWritten, WritersOf

\* A step that leaves an upload where it is leaves the chunk it writes, too.
LEMMA CurrentKept ==
    ASSUME NEW u \in Uploads, upload'[u].stored = upload[u].stored
    PROVE  Current(u)' = Current(u)
  BY DEF Current

LEMMA BackedStays ==
    ASSUME FileTypeOK, Progress, FileStoreNext, NEW c \in ChunkIds, Backed(c)
    PROVE  Backed(c)'
<1> USE FileStoreAssumption
\* Steps that end no write: every writer of c stays one.
<1>1. ASSUME /\ \A u \in Uploads : upload[u].at = "blob" => upload'[u] = upload[u]
             /\ receiving' = receiving \/ receiving = None
             /\ blob'[c] = blob[c] \/ BeingWritten(c)'
             /\ damaged' = damaged
      PROVE  Backed(c)'
  <2>1. CASE BeingWritten(c)
    <3>1. BeingWritten(c)'
      BY <1>1, <2>1, Written, CurrentKept
    <3> QED  BY <3>1 DEF Backed
  <2> QED  BY <1>1, <2>1 DEF Backed
<1>2. ASSUME NEW u \in Uploads, put_manifest(u) \/ CountChunks(u) \/ InsertIndex(u)
      PROVE  Backed(c)'
  <2>1. \A v \in Uploads : upload[v].at = "blob" => upload'[v] = upload[v]
    BY <1>2 DEF FileTypeOK, UploadStates, put_manifest, CountChunks, InsertIndex
  <2> QED  BY <1>1, <1>2, <2>1 DEF put_manifest, CountChunks, InsertIndex
<1>3. ASSUME NEW u \in Uploads, OpenBlob(u)
      PROVE  Backed(c)'
  <2>1. /\ upload'[u].at = "blob" /\ upload'[u].stored = upload[u].stored
        /\ \A v \in Uploads : upload[v].at = "blob" => upload'[v] = upload[v]
    BY <1>3 DEF FileTypeOK, UploadStates, OpenBlob
  <2>2. Current(u)' = Current(u)
    BY <2>1, CurrentKept
  <2>3. Current(u) = c => BeingWritten(c)'
    BY <2>1, <2>2, Written
  <2>4. Current(u) # c => blob'[c] = blob[c]
    BY <1>3 DEF FileTypeOK, OpenBlob
  <2> QED  BY <1>1, <1>3, <2>1, <2>3, <2>4 DEF OpenBlob
\* Upload u ends its write.
<1>4. ASSUME NEW u \in Uploads, WriteBlob(u) \/ WriteBlobFails(u)
      PROVE  Backed(c)'
  <2>1. /\ \A v \in Uploads \ {u} : upload'[v] = upload[v]
        /\ upload'[u].at # "blob" /\ receiving' = receiving
    BY <1>4 DEF FileTypeOK, UploadStates, WriteBlob, WriteBlobFails
  <2>2. ASSUME NEW v \in Uploads \ {u}, upload[v].at = "blob", Current(v) = c
        PROVE  Backed(c)'
    <3>1. upload'[v].at = "blob" /\ Current(v)' = c
      BY <2>1, <2>2, CurrentKept
    <3> QED  BY <3>1, Written DEF Backed
  <2>3. CASE receiving = c
    BY <2>1, <2>3, Written DEF Backed
  <2>4. CASE WriteBlobFails(u)
    <3>1. CASE Current(u) = c
      BY <2>4, <3>1 DEF WriteBlobFails, Backed
    <3>2. CASE Current(u) # c
      <4>1. blob' = blob /\ damaged \subseteq damaged'
        BY <2>4 DEF WriteBlobFails
      <4> QED  BY <2>2, <2>3, <3>2, <4>1, Written DEF Backed
    <3> QED  BY <3>1, <3>2
  <2>5. CASE WriteBlob(u)
    <3> DEFINE last == WritersOf(Current(u)) = {u} /\ receiving # Current(u)
    <3>1. /\ blob' = IF last THEN [blob EXCEPT ![Current(u)] = "whole"] ELSE blob
          /\ damaged' = IF last THEN damaged \ {Current(u)} ELSE damaged
          /\ upload[u].at \in {"blob", "orphan"}
      BY <2>5 DEF WriteBlob
    <3>2. CASE last /\ Current(u) = c
      BY <3>1, <3>2 DEF Backed, FileTypeOK
    <3>3. CASE last /\ Current(u) # c
      <4>1. blob'[c] = blob[c] /\ (c \in damaged => c \in damaged')
        BY <3>1, <3>3 DEF FileTypeOK
      <4> QED  BY <2>2, <2>3, <3>3, <4>1, Written DEF Backed
    <3>4. CASE ~last
      <4>1. blob' = blob /\ damaged' = damaged
        BY <3>1, <3>4
      <4>2. CASE upload[u].at = "blob" /\ Current(u) = c
        <5>1. u \in WritersOf(c) /\ (WritersOf(c) # {u} \/ receiving = c)
          BY <3>4, <4>2 DEF WritersOf
        <5>2. CASE WritersOf(c) # {u}
          <6>1. PICK v \in WritersOf(c) : v # u
            BY <5>1, <5>2
          <6> QED  BY <6>1, <2>2 DEF WritersOf
        <5> QED  BY <5>1, <5>2, <2>3
      <4>3. CASE ~(upload[u].at = "blob" /\ Current(u) = c)
        BY <2>2, <2>3, <4>1, <4>3, Written DEF Backed
      <4> QED  BY <4>2, <4>3
    <3> QED  BY <3>2, <3>3, <3>4
  <2> QED  BY <1>4, <2>4, <2>5
<1>5. ASSUME NEW d \in Shared, ChunkResponse(d)
      PROVE  Backed(c)'
  <2>1. /\ upload' = upload /\ receiving = None /\ damaged' = damaged
        /\ d = c => receiving' = c
        /\ d # c => blob'[c] = blob[c]
    BY <1>5 DEF ChunkResponse, FileTypeOK
  <2>2. d = c => BeingWritten(c)'
    BY <2>1, Written
  <2> QED  BY <1>1, <2>1, <2>2
<1>6. ASSUME NEW d \in Shared, delete_chunk(d)
      PROVE  Backed(c)'
  BY <1>1, <1>6 DEF delete_chunk
<1>7. ASSUME NEW ok \in BOOLEAN, EndChunkResponse(ok)
      PROVE  Backed(c)'
  <2>1. upload' = upload /\ receiving # None
    BY <1>7 DEF EndChunkResponse
  <2>2. CASE WritersOf(c) # {}
    <3>1. WritersOf(c)' = WritersOf(c)
      BY <2>1 DEF WritersOf, Current
    <3> QED  BY <2>2, <3>1 DEF Backed, BeingWritten
  <2>3. CASE WritersOf(c) = {} /\ receiving = c
    BY <1>7, <2>3 DEF EndChunkResponse, Backed, FileTypeOK
  <2>4. CASE WritersOf(c) = {} /\ receiving # c
    <3>1. blob'[c] = blob[c] /\ (c \in damaged => c \in damaged')
      BY <1>7, <2>4 DEF EndChunkResponse, FileTypeOK
    <3> QED  BY <2>4, <3>1 DEF Backed, BeingWritten
  <2> QED  BY <2>2, <2>3, <2>4
<1>8. ASSUME NEW ok \in BOOLEAN, RemoveBlob(ok)
      PROVE  Backed(c)'
  <2>1. CASE ok /\ blob[deleting] # "none"
    <3>1. CASE deleting = c
      BY <1>8, <2>1, <3>1 DEF RemoveBlob, Backed
    <3>2. CASE deleting # c
      <4>1. /\ blob'[c] = blob[c] /\ (c \in damaged => c \in damaged')
            /\ receiving = c => receiving' = c
        BY <1>8, <2>1, <3>2 DEF RemoveBlob, FileTypeOK
      <4>2. ASSUME NEW v \in Uploads, upload[v].at = "blob", Current(v) = c
            PROVE  upload'[v].at = "blob" /\ Current(v)' = c
        <5>1. v \notin WritersOf(deleting)
          BY <3>2, <4>2 DEF WritersOf
        <5>2. upload'[v] = upload[v]
          BY <1>8, <2>1, <5>1 DEF RemoveBlob
        <5> QED  BY <4>2, <5>2, CurrentKept
      <4> QED  BY <4>1, <4>2, Written DEF Backed
    <3> QED  BY <3>1, <3>2
  <2>2. CASE ~(ok /\ blob[deleting] # "none")
    BY <1>1, <1>8, <2>2 DEF RemoveBlob
  <2> QED  BY <2>1, <2>2
<1>9. ASSUME NEW f \in Uploads, NEW u \in Uploads, ManifestResponse(f, u)
      PROVE  Backed(c)'
  BY <1>1, <1>9 DEF ManifestResponse
<1> QED
  BY <1>2, <1>3, <1>4, <1>5, <1>6, <1>7, <1>8, <1>9 DEF FileStoreNext

LEMMA UploadsStayBacked ==
    ASSUME FileTypeOK, Progress, UploadsBacked, FileStoreNext
    PROVE  UploadsBacked'
<1> SUFFICES ASSUME NEW u \in Uploads
             PROVE  /\ \A i \in 1..upload'[u].stored : Backed(Layout[u][i].id)'
                    /\ upload'[u].at \in {"orphan", "index"} => Backed(Current(u))'
  BY DEF UploadsBacked
<1>1. Moved(u)
  BY UploadsMove
<1>2. upload[u].stored \in Nat /\ upload[u].stored <= Len(Layout[u]) /\ Len(Layout[u]) \in Nat
  BY UploadTyped, LayoutTyped DEF Progress
<1>3. \A i \in 1..upload[u].stored : Backed(Layout[u][i].id)'
  <2> TAKE i \in 1..upload[u].stored
  <2>1. Layout[u][i].id \in ChunkIds
    BY <1>2, LayoutTyped
  <2>2. Backed(Layout[u][i].id)
    BY DEF UploadsBacked
  <2> QED  BY <2>1, <2>2, BackedStays
<1>4. ASSUME upload[u].at \in {"blob", "orphan", "index"}
      PROVE  Current(u) \in ChunkIds /\ \A c : c = Current(u) => Backed(c)'
  <2>1. Current(u) \in ChunkIds
    BY <1>4, CurrentTyped
  <2>2. Backed(Current(u))
    BY <1>4, Written DEF UploadsBacked, Backed
  <2> QED  BY <2>1, <2>2, BackedStays
<1>5. CASE upload'[u] = upload[u]
  BY <1>3, <1>4, <1>5 DEF Current
<1>6. CASE upload'[u].stored = upload[u].stored /\ upload'[u].at = "count"
  BY <1>3, <1>6
<1>7. CASE upload'[u].stored = upload[u].stored /\ Advances(upload[u].at, upload'[u].at)
  <2>1. upload'[u].at \in {"orphan", "index"} => upload[u].at \in {"blob", "orphan", "index"}
    BY <1>7 DEF Advances
  <2> QED  BY <1>3, <1>4, <1>7, <2>1 DEF Current
<1>8. CASE /\ upload[u].at = "index" /\ upload'[u].stored = upload[u].stored + 1
           /\ upload'[u].at \in {"answered", "count"}
  <2>1. \A i \in 1..(upload[u].stored + 1) : i \in 1..upload[u].stored \/ i = upload[u].stored + 1
    BY <1>2
  <2> QED  BY <1>3, <1>4, <1>8, <2>1 DEF Current
<1> QED  BY <1>1, <1>5, <1>6, <1>7, <1>8 DEF Moved

LEMMA IndexStaysBacked ==
    ASSUME FileTypeOK, Progress, UploadsBacked, IndexBacked, FileStoreNext
    PROVE  IndexBacked'
<1> SUFFICES ASSUME NEW c \in index'
             PROVE  Backed(c)'
  BY DEF IndexBacked
<1>1. CASE c \in index
  BY <1>1, BackedStays DEF IndexBacked, FileTypeOK
<1>2. CASE c \notin index
  <2>1. PICK u \in Uploads : InsertIndex(u)
    BY <1>2 DEF FileStoreNext, put_manifest, CountChunks, OpenBlob, WriteBlob, WriteBlobFails,
                ChunkResponse, delete_chunk, EndChunkResponse, RemoveBlob, ManifestResponse
  <2>2. c = Current(u) /\ upload[u].at = "index"
    BY <1>2, <2>1 DEF InsertIndex
  <2> QED  BY <2>2, CurrentTyped, BackedStays DEF UploadsBacked
<1> QED  BY <1>1, <1>2

-----------------------------------------------------------------------------
(* The limit.                                                              *)

LEMMA AdmittedStaysBounded ==
    ASSUME FileTypeOK, Progress, AdmittedBounded, FileStoreNext
    PROVE  AdmittedBounded'
<1> USE FileStoreAssumption
<1>1. /\ IsFiniteSet(index) /\ Cardinality(index) \in Nat
      /\ IsFiniteSet(Admitted) /\ Cardinality(Admitted) \in Nat
      /\ IsFiniteSet(Admitted') /\ Cardinality(Admitted)' \in Nat
      /\ Cardinality(Admitted)' <= Cardinality(Uploads)
      /\ Cardinality(Uploads) \in Nat /\ MAX_LOCAL_CHUNKS \in Nat
  <2>1. Admitted \subseteq Uploads /\ Admitted' \subseteq Uploads
    BY DEF Admitted
  <2> QED  BY <2>1, FS_Subset, FS_CardinalityType DEF FileTypeOK
<1>2. ASSUME index' \subseteq index, Admitted' \subseteq Admitted
      PROVE  AdmittedBounded'
  <2>1. Cardinality(index') <= Cardinality(index) /\ Cardinality(index') \in Nat
    BY <1>1, <1>2, FS_Subset, FS_CardinalityType
  <2>2. Cardinality(Admitted') <= Cardinality(Admitted)
    BY <1>1, <1>2, FS_Subset
  <2> QED  BY <1>1, <2>1, <2>2 DEF AdmittedBounded
<1>3. ASSUME NEW u \in Uploads, CountChunks(u), Cardinality(index) < MAX_LOCAL_CHUNKS
      PROVE  AdmittedBounded'
  <2>1. index' = index
    BY <1>3 DEF CountChunks
  <2> QED  BY <1>1, <1>3, <2>1 DEF AdmittedBounded
<1>4. ASSUME NEW u \in Uploads, InsertIndex(u)
      PROVE  AdmittedBounded'
  <2>1. index' = index \cup {Current(u)}
    BY <1>4 DEF InsertIndex
  <2>2. Cardinality(index') <= Cardinality(index) + 1 /\ Cardinality(index') \in Nat
    <3>1. PICK c : c = Current(u)
      OBVIOUS
    <3>2. IsFiniteSet(index \cup {c})
          /\ Cardinality(index \cup {c}) \in {Cardinality(index), Cardinality(index) + 1}
      BY <1>1, FS_AddElement
    <3> QED  BY <1>1, <2>1, <3>1, <3>2
  <2>3. /\ upload[u].at = "index" /\ upload'[u].at \in {"answered", "count"}
        /\ \A v \in Uploads \ {u} : upload'[v] = upload[v]
    BY <1>4 DEF InsertIndex, FileTypeOK, UploadStates
  <2>4. u \in Admitted /\ Admitted' = Admitted \ {u}
    BY <2>3 DEF Admitted
  <2>5. Cardinality(Admitted') = Cardinality(Admitted) - 1
    BY <1>1, <2>4, FS_RemoveElement
  <2> QED  BY <1>1, <2>2, <2>5 DEF AdmittedBounded
<1>5. ASSUME NEW u \in Uploads, CountChunks(u), ~(Cardinality(index) < MAX_LOCAL_CHUNKS)
      PROVE  AdmittedBounded'
  <2>1. Cardinality(index) >= MAX_LOCAL_CHUNKS
    BY <1>1, <1>5
  <2>2. upload'[u].at = "failed" /\ \A v \in Uploads \ {u} : upload'[v] = upload[v]
    BY <1>5, <2>1 DEF CountChunks, FileTypeOK, UploadStates
  <2>3. Admitted' \subseteq Admitted
    BY <2>2 DEF Admitted
  <2> QED  BY <1>2, <1>5, <2>3 DEF CountChunks
<1>6. ASSUME NEW u \in Uploads, put_manifest(u)
      PROVE  AdmittedBounded'
  <2>1. upload'[u].at = "count" /\ \A v \in Uploads \ {u} : upload'[v] = upload[v]
    BY <1>6 DEF put_manifest, FileTypeOK, UploadStates
  <2>2. Admitted' \subseteq Admitted
    BY <2>1 DEF Admitted
  <2> QED  BY <1>2, <1>6, <2>2 DEF put_manifest
<1>7. ASSUME NEW u \in Uploads, OpenBlob(u) \/ WriteBlob(u) \/ WriteBlobFails(u)
      PROVE  AdmittedBounded'
  <2>1. u \in Admitted /\ \A v \in Uploads \ {u} : upload'[v] = upload[v]
    BY <1>7 DEF OpenBlob, WriteBlob, WriteBlobFails, FileTypeOK, UploadStates, Admitted
  <2>2. Admitted' \subseteq Admitted
    BY <2>1 DEF Admitted
  <2> QED  BY <1>2, <1>7, <2>2 DEF OpenBlob, WriteBlob, WriteBlobFails
<1>8. ASSUME UNCHANGED upload, index' \subseteq index
      PROVE  AdmittedBounded'
  BY <1>2, <1>8 DEF Admitted
<1>9. ASSUME NEW c \in Shared, ChunkResponse(c) \/ delete_chunk(c)
      PROVE  AdmittedBounded'
  BY <1>8, <1>9 DEF ChunkResponse, delete_chunk
<1>10. ASSUME NEW ok \in BOOLEAN, EndChunkResponse(ok)
       PROVE  AdmittedBounded'
  BY <1>8, <1>10 DEF EndChunkResponse
<1>11. ASSUME NEW ok \in BOOLEAN, RemoveBlob(ok)
       PROVE  AdmittedBounded'
  <2>1. \A v \in Uploads : upload'[v].at = upload[v].at
                           \/ v \in Admitted
    <3>1. CASE ok /\ blob[deleting] # "none"
      <4>1. upload' = [u \in Uploads |-> IF u \in WritersOf(deleting)
                                         THEN [upload[u] EXCEPT !.at = "orphan"] ELSE upload[u]]
        BY <1>11, <3>1 DEF RemoveBlob
      <4> QED  BY <4>1 DEF Admitted, WritersOf
    <3>2. CASE ~(ok /\ blob[deleting] # "none")
      BY <1>11, <3>2 DEF RemoveBlob
    <3> QED  BY <3>1, <3>2
  <2>2. Admitted' \subseteq Admitted
    BY <2>1 DEF Admitted
  <2> QED  BY <1>2, <1>11, <2>2 DEF RemoveBlob
<1>12. ASSUME NEW f \in Uploads, NEW u \in Uploads, ManifestResponse(f, u)
       PROVE  AdmittedBounded'
  BY <1>8, <1>12 DEF ManifestResponse
<1> QED
  BY <1>3, <1>4, <1>5, <1>6, <1>7, <1>9, <1>10, <1>11, <1>12 DEF FileStoreNext

-----------------------------------------------------------------------------
(* The theorems.                                                           *)

\* The invariant that the two properties need, for fs_upload, put_chunk,
\* delete_chunk and the peers' chunks: what uploads have stored and the index lists
\* is backed, and the entries still to come are counted.
THEOREM FileStoreInvariance == FileStoreSpec => []IInv
<1>1. FileStoreInit => IInv
  <2> SUFFICES ASSUME FileStoreInit
               PROVE  IInv
    OBVIOUS
  <2> USE FileStoreAssumption DEF FileStoreInit
  <2>1. FileTypeOK
    BY FS_EmptySet DEF FileTypeOK, UploadStates, Steps
  <2>2. Progress
    BY LayoutTyped DEF Progress
  <2>3. UploadsBacked /\ IndexBacked
    BY DEF UploadsBacked, IndexBacked
  <2>4. Admitted = {}
    BY DEF Admitted
  <2>5. AdmittedBounded
    <3>1. Cardinality(index) = 0 /\ Cardinality(Admitted) = 0
      BY <2>4, FS_EmptySet
    <3>2. Cardinality(Uploads) \in Nat /\ Cardinality(Uploads) # 0
      BY FS_CardinalityType, FS_EmptySet
    <3> QED  BY <3>1, <3>2 DEF AdmittedBounded
  <2> QED  BY <2>1, <2>2, <2>3, <2>5 DEF IInv
<1>2. IInv /\ [FileStoreNext]_fileVars => IInv'
  <2> SUFFICES ASSUME IInv, [FileStoreNext]_fileVars
               PROVE  IInv'
    OBVIOUS
  <2>1. CASE FileStoreNext
    BY <2>1, TypesKept, ProgressKept, UploadsStayBacked, IndexStaysBacked, AdmittedStaysBounded
       DEF IInv
  <2>2. CASE UNCHANGED fileVars
    BY <2>2 DEF fileVars, IInv, FileTypeOK, Progress, UploadsBacked, IndexBacked, AdmittedBounded,
                Admitted, Backed, BeingWritten, WritersOf, Current
  <2> QED  BY <2>1, <2>2
<1> QED  BY <1>1, <1>2, PTL DEF FileStoreSpec

\* Whatever concurrent uploads, peers' chunks, deletions and write errors do, what
\* the index of LocalChunkStore lists is backed by its blob, and the entries pass
\* MAX_LOCAL_CHUNKS by at most one for each upload but one.
THEOREM IndexAlwaysSound == FileStoreSpec => []IndexSound
<1>1. IInv => IndexSound
  <2> SUFFICES ASSUME IInv
               PROVE  IndexSound
    OBVIOUS
  <2>1. IndexedBacked
    BY DEF IInv, IndexBacked, Backed, IndexedBacked
  <2>2. Cardinality(index) \in Nat /\ Cardinality(Admitted) \in Nat
        /\ Cardinality(Uploads) \in Nat
    <3>1. Admitted \subseteq Uploads
      BY DEF Admitted
    <3> QED  BY <3>1, FileStoreAssumption, FS_Subset, FS_CardinalityType DEF IInv, FileTypeOK
  <2>3. LimitOvershoot
    BY <2>2, FileStoreAssumption DEF IInv, AdmittedBounded, LimitOvershoot
  <2> QED  BY <2>1, <2>3 DEF IndexSound
<1> QED  BY <1>1, FileStoreInvariance, PTL

\* A file whose fs_upload was answered downloads, unless one of its chunks is being
\* rewritten or was damaged or its manifest was replaced.
THEOREM AnsweredAlwaysDownloads == FileStoreSpec => []AnsweredDownloads
<1>1. IInv => AnsweredDownloads
  <2> SUFFICES ASSUME IInv, NEW u \in Uploads, upload[u].at = "answered",
                      manifests[upload[u].file] = u,
                      ~ \E i \in DOMAIN Layout[u] :
                          BeingWritten(Layout[u][i].id) \/ Layout[u][i].id \in damaged
               PROVE  Downloads(upload[u].file)
    BY DEF AnsweredDownloads
  <2>1. upload[u].stored = Len(Layout[u])
    BY DEF IInv, Progress
  <2>2. \A i \in DOMAIN Layout[u] : Backed(Layout[u][i].id)
    BY <2>1, LayoutTyped DEF IInv, UploadsBacked
  <2>3. \A i \in DOMAIN Layout[u] : blob[Layout[u][i].id] = "whole"
    BY <2>2 DEF Backed
  <2>4. u # None
    BY FileStoreAssumption
  <2> QED  BY <2>3, <2>4 DEF Downloads
<1> QED  BY <1>1, FileStoreInvariance, PTL

-----------------------------------------------------------------------------
(* The chunk routing table.  A bucket keeps the peers' latest times, so that    *)
(* the one it gives up was seen no later than any that stay.  A record's        *)
(* last_verified is the latest announcement of its chunk, so that whatever      *)
(* makes room for another record leaves only chunks that were announced since.  *)

\* The bucket: peers that were seen, with the time they were seen last.
BucketSound ==
    /\ clock \in Nat
    /\ seen \in [DhtPeers -> {Never} \cup Nat]
    /\ \A p \in DhtPeers : seen[p] <= clock
    /\ DOMAIN bucket \subseteq DhtPeers /\ IsFiniteSet(DOMAIN bucket)
    /\ \A p \in DOMAIN bucket : bucket[p] = seen[p] /\ seen[p] # Never

BucketInv == BucketSound /\ BucketKeepsRecent

LEMMA NeverIsNoTime == Never \in Int /\ \A t \in Nat : Never < t
    BY DEF Never

\* A peer is added, to the room there is or in the place of the one seen first.
LEMMA AddPeerStep ==
    ASSUME BucketInv, NEW p \in DhtPeers, add_peer(p)
    PROVE  BucketInv'
<1> PICK n : n = Cardinality(DOMAIN bucket)
    OBVIOUS
<1> PICK D : D = DOMAIN bucket
    OBVIOUS
<1>0. /\ clock \in Nat /\ seen \in [DhtPeers -> {Never} \cup Nat] /\ D \subseteq DhtPeers
      /\ IsFiniteSet(D) /\ n = Cardinality(D) /\ \A x \in D : bucket[x] = seen[x] /\ seen[x] # Never
      /\ \A x \in DhtPeers : seen[x] <= clock
    BY DEF BucketInv, BucketSound
<1>1. /\ seen' = [seen EXCEPT ![p] = clock] /\ clock' = clock
    BY DEF add_peer
<1>2. /\ seen' \in [DhtPeers -> {Never} \cup Nat] /\ seen'[p] = clock
      /\ \A x \in DhtPeers \ {p} : seen'[x] = seen[x]
    BY <1>0, <1>1
<1>3. clock # Never /\ K_BUCKET_SIZE \in Nat \ {0} /\ n \in Nat /\ n <= K_BUCKET_SIZE
    BY <1>0, DhtAssumption, FS_CardinalityType DEF Never, BucketInv, BucketKeepsRecent
<1>4. \A x \in DhtPeers : seen[x] # Never /\ x \notin D =>
         n = K_BUCKET_SIZE /\ \A q \in D : bucket[q] >= seen[x]
    BY DEF BucketInv, BucketKeepsRecent
<1>5. \A x \in DhtPeers : seen'[x] <= clock
    BY <1>0, <1>2
<1>6. \A x \in D : bucket[x] \in Nat /\ bucket[x] <= clock
    BY <1>0
<1>7. CASE p \in D \/ n < K_BUCKET_SIZE
  <2>1. bucket' = [x \in D \cup {p} |-> IF x = p THEN clock ELSE bucket[x]]
    BY <1>7 DEF add_peer, Put
  <2>2. /\ DOMAIN bucket' = D \cup {p} /\ bucket'[p] = clock
        /\ \A x \in D \ {p} : bucket'[x] = bucket[x]
    BY <2>1
  <2> PICK E : E = DOMAIN bucket'
    OBVIOUS
  <2>3. /\ IsFiniteSet(E) /\ Cardinality(E) \in Nat /\ Cardinality(E) <= K_BUCKET_SIZE
        /\ Cardinality(E) = (IF p \in D THEN n ELSE n + 1)
    <3>1. E = D \cup {p}
      BY <2>2
    <3>2. IsFiniteSet(E) /\ Cardinality(E) = (IF p \in D THEN n ELSE n + 1)
      BY <1>0, <3>1, FS_AddElement
    <3>3. QED
      BY <1>3, <1>7, <3>2
  <2>4. BucketSound'
    BY <1>0, <1>1, <1>2, <1>3, <1>5, <2>2, <2>3 DEF BucketSound
  <2>5. \A q \in E : bucket'[q] \in Nat /\ (q \in D => bucket'[q] >= bucket[q])
    BY <1>0, <1>6, <2>2
  <2>6. ASSUME NEW x \in DhtPeers, seen'[x] # Never, x \notin E
        PROVE  Cardinality(E) = K_BUCKET_SIZE /\ \A q \in E : bucket'[q] >= seen'[x]
    <3>1. x # p /\ x \notin D /\ seen'[x] = seen[x] /\ seen[x] \in Nat
      BY <1>0, <1>2, <2>2, <2>6
    <3>2. n = K_BUCKET_SIZE /\ \A q \in D : bucket[q] >= seen[x]
      BY <1>4, <2>6, <3>1
    <3>3. p \in D /\ E = D
      BY <1>3, <1>7, <2>2, <3>2
    <3>4. QED
      BY <1>6, <2>3, <2>5, <3>1, <3>2, <3>3
  <2>7. BucketKeepsRecent'
    BY <2>3, <2>6 DEF BucketKeepsRecent
  <2>8. QED
    BY <2>4, <2>7 DEF BucketInv
<1>8. CASE ~(p \in D \/ n < K_BUCKET_SIZE)
  <2>0. p \notin D /\ n = K_BUCKET_SIZE
    BY <1>3, <1>8
  <2>1. PICK q \in D :
          /\ \A r \in D : bucket[q] <= bucket[r]
          /\ bucket' = IF bucket[q] < clock THEN Put(Drop(bucket, q), p, clock) ELSE bucket
    BY <1>8 DEF add_peer
  <2>2. CASE bucket[q] < clock
    <3>1. DOMAIN Drop(bucket, q) = D \ {q} /\ \A x \in D \ {q} : Drop(bucket, q)[x] = bucket[x]
      BY DEF Drop
    <3>2. /\ DOMAIN bucket' = (D \ {q}) \cup {p} /\ bucket'[p] = clock
          /\ \A x \in D \ {q} : bucket'[x] = bucket[x]
      BY <2>0, <2>1, <2>2, <3>1 DEF Put
    <3> PICK E : E = DOMAIN bucket'
      OBVIOUS
    <3>3. IsFiniteSet(D \ {q}) /\ Cardinality(D \ {q}) = n - 1
      BY <1>0, FS_RemoveElement
    <3>4. IsFiniteSet(E) /\ Cardinality(E) = n
      BY <1>3, <2>0, <3>2, <3>3, FS_AddElement
    <3>5. BucketSound'
      BY <1>0, <1>1, <1>2, <1>3, <1>5, <2>0, <3>2, <3>4 DEF BucketSound
    <3>6. ASSUME NEW x \in DhtPeers, seen'[x] # Never, x \notin E, NEW r \in E
          PROVE  bucket'[r] >= seen'[x]
      <4>1. x # p /\ seen'[x] = seen[x] /\ seen[x] \in Nat /\ seen[x] <= clock
        BY <1>0, <1>2, <3>2, <3>6
      <4>2. CASE r = p
        BY <1>0, <3>2, <4>1, <4>2
      <4>3. CASE r # p
        <5>1. r \in D /\ bucket'[r] = bucket[r]
          BY <3>2, <4>3
        <5>2. bucket[q] <= bucket[r] /\ bucket[q] = seen[q]
          BY <1>0, <2>1, <5>1
        <5>3. CASE x = q
          BY <1>6, <4>1, <5>1, <5>2, <5>3
        <5>4. CASE x # q
          <6>1. x \notin D
            BY <3>2, <3>6, <5>4
          <6>2. QED
            BY <1>4, <3>6, <4>1, <5>1, <6>1
        <5>5. QED
          BY <5>3, <5>4
      <4>4. QED
        BY <4>2, <4>3
    <3>7. BucketKeepsRecent'
      BY <1>3, <2>0, <3>4, <3>6 DEF BucketKeepsRecent
    <3>8. QED
      BY <3>5, <3>7 DEF BucketInv
  <2>3. CASE ~(bucket[q] < clock)
    <3>1. bucket' = bucket
      BY <2>1, <2>3
    <3>2. BucketSound'
      BY <1>0, <1>1, <1>2, <1>5, <2>0, <3>1 DEF BucketSound
    <3>3. \A r \in D : bucket[r] >= clock
      BY <1>0, <1>6, <2>1, <2>3
    <3>4. ASSUME NEW x \in DhtPeers, seen'[x] # Never, x \notin D, NEW r \in D
          PROVE  bucket[r] >= seen'[x]
      <4>1. seen'[x] \in Nat /\ seen'[x] <= clock
        BY <1>2, <1>5, <3>4
      <4>2. QED
        BY <1>0, <1>6, <3>3, <4>1
    <3>5. BucketKeepsRecent'
      BY <1>3, <2>0, <3>1, <3>4 DEF BucketKeepsRecent
    <3>6. QED
      BY <3>2, <3>5 DEF BucketInv
  <2>4. QED
    BY <2>2, <2>3
<1>9. QED
    BY <1>7, <1>8

LEMMA RemovePeerStep ==
    ASSUME BucketInv, NEW p \in DhtPeers, remove_peer(p)
    PROVE  BucketInv'
<1> PICK D : D = DOMAIN bucket
    OBVIOUS
<1>0. /\ clock \in Nat /\ seen \in [DhtPeers -> {Never} \cup Nat] /\ D \subseteq DhtPeers
      /\ IsFiniteSet(D) /\ \A x \in D : bucket[x] = seen[x] /\ seen[x] # Never
      /\ \A x \in DhtPeers : seen[x] <= clock
    BY DEF BucketInv, BucketSound
<1>1. /\ bucket' = [y \in D \ {p} |-> bucket[y]] /\ clock' = clock
      /\ seen' = [q \in DhtPeers |-> IF q \in D \ {p} THEN seen[q] ELSE Never]
    BY DEF remove_peer, Drop
<1>2. DOMAIN bucket' = D \ {p} /\ \A x \in D \ {p} : bucket'[x] = bucket[x] /\ seen'[x] = seen[x]
    BY <1>0, <1>1
<1>3. /\ seen' \in [DhtPeers -> {Never} \cup Nat]
      /\ \A x \in DhtPeers \ (D \ {p}) : seen'[x] = Never
    BY <1>0, <1>1
<1> PICK E : E = DOMAIN bucket'
    OBVIOUS
<1>4. /\ IsFiniteSet(E) /\ Cardinality(E) <= Cardinality(D)
      /\ Cardinality(E) \in Nat /\ Cardinality(D) \in Nat
  <2>1. E \subseteq D
    BY <1>2
  <2>2. QED
    BY <1>0, <2>1, FS_Subset, FS_CardinalityType
<1>5. \A x \in DhtPeers : seen'[x] <= clock
    BY <1>0, <1>1, NeverIsNoTime
<1>6. BucketSound'
    BY <1>0, <1>1, <1>2, <1>3, <1>4, <1>5 DEF BucketSound
<1>7. Cardinality(D) <= K_BUCKET_SIZE /\ K_BUCKET_SIZE \in Nat
    BY DhtAssumption DEF BucketInv, BucketKeepsRecent
<1>8. BucketKeepsRecent'
    BY <1>2, <1>3, <1>4, <1>7 DEF BucketKeepsRecent
<1>9. QED
    BY <1>6, <1>8 DEF BucketInv

\* The records: what a record says of its holders is what they announced last,
\* and it was verified at the latest announcement of its chunk.
RecordSound(c) ==
    /\ dht_records[c] = [holders |-> dht_records[c].holders,
                         last_verified |-> dht_records[c].last_verified]
    /\ DOMAIN dht_records[c].holders \subseteq DhtHolders
    /\ \A h \in DOMAIN dht_records[c].holders :
          dht_records[c].holders[h] = announced[c][h] /\ announced[c][h] # Never
    /\ dht_records[c].last_verified \in Nat
    /\ \A q \in DhtHolders : announced[c][q] <= dht_records[c].last_verified
    /\ \E q \in DhtHolders : announced[c][q] = dht_records[c].last_verified

RecordsSound ==
    /\ clock \in Nat
    /\ announced \in [DhtChunks -> [DhtHolders -> {Never} \cup Nat]]
    /\ \A c \in DhtChunks, p \in DhtHolders : announced[c][p] <= clock
    /\ evicted \in {Never} \cup Nat /\ evicted <= clock
    /\ DOMAIN dht_records \subseteq DhtChunks
    /\ \A c \in DOMAIN dht_records : RecordSound(c)

RecordsInv == RecordsSound /\ HoldersFound

\* The part of HoldersFound about one pair.
Found(c, p) ==
    \/ c \in DOMAIN dht_records /\ p \in DOMAIN dht_records[c].holders
    \/ evicted - announced[c][p] > MaxAge
    \/ Cardinality(OthersSince(c, announced[c][p])) >= MAX_DHT_RECORDS

\* Announcements only get later, so what was announced since still was.
LEMMA OthersSinceGrows ==
    ASSUME RecordsSound, NEW c0 \in DhtChunks, NEW p0 \in DhtHolders,
           announced' = [announced EXCEPT ![c0][p0] = clock],
           NEW c \in DhtChunks, NEW t \in Nat,
           Cardinality(OthersSince(c, t)) >= MAX_DHT_RECORDS
    PROVE  Cardinality(OthersSince(c, t)') >= MAX_DHT_RECORDS
<1> PICK S : S = OthersSince(c, t)
    OBVIOUS
<1> PICK T : T = OthersSince(c, t)'
    OBVIOUS
<1>1. \A d \in DhtChunks, q \in DhtHolders :
         announced[d][q] >= t => announced'[d][q] >= t
    BY DEF RecordsSound, Never
<1>2. S \subseteq T /\ T \subseteq DhtChunks
    BY <1>1 DEF OthersSince
<1>3. IsFiniteSet(T)
    BY <1>2, DhtAssumption, FS_Subset
<1>4. Cardinality(S) <= Cardinality(T) /\ Cardinality(S) \in Nat /\ Cardinality(T) \in Nat
    BY <1>2, <1>3, FS_Subset, FS_CardinalityType
<1>5. QED
    BY <1>4, DhtAssumption

\* A chunk's record goes for another's only when as many other chunks were
\* announced since: those whose records stay, and the new one.
LEMMA MadeRoom ==
    ASSUME RecordsSound, NEW c0 \in DhtChunks, NEW p0 \in DhtHolders,
           announced' = [announced EXCEPT ![c0][p0] = clock],
           c0 \notin DOMAIN dht_records, Cardinality(DOMAIN dht_records) >= MAX_DHT_RECORDS,
           NEW d \in DOMAIN dht_records,
           \A e \in DOMAIN dht_records :
              dht_records[d].last_verified <= dht_records[e].last_verified,
           NEW p \in DhtHolders, announced[d][p] \in Nat
    PROVE  Cardinality(OthersSince(d, announced[d][p])') >= MAX_DHT_RECORDS
<1> PICK D : D = DOMAIN dht_records
    OBVIOUS
<1> PICK t : t = announced[d][p]
    OBVIOUS
<1> PICK T : T = {x \in DhtChunks \ {d} : \E q \in DhtHolders : announced'[x][q] >= t}
    OBVIOUS
<1>1. D \subseteq DhtChunks /\ d \in D /\ c0 \notin D /\ IsFiniteSet(D)
    BY DhtAssumption, FS_Subset DEF RecordsSound
<1>2. /\ announced'[c0][p0] = clock
      /\ \A x \in DhtChunks \ {c0} : announced'[x] = announced[x]
    BY DEF RecordsSound
<1>3. t \in Nat /\ t <= clock /\ t <= dht_records[d].last_verified /\ clock \in Nat
    BY <1>1 DEF RecordsSound, RecordSound
<1>4. c0 \in T
    BY <1>1, <1>2, <1>3
<1>5. ASSUME NEW e \in D \ {d}
      PROVE  e \in T
  <2>1. PICK q \in DhtHolders : announced[e][q] = dht_records[e].last_verified
    BY <1>5 DEF RecordsSound, RecordSound
  <2>2. dht_records[d].last_verified <= dht_records[e].last_verified
    BY <1>5
  <2>3. dht_records[d].last_verified \in Nat /\ dht_records[e].last_verified \in Nat
    BY <1>1, <1>5 DEF RecordsSound, RecordSound
  <2>4. announced'[e][q] >= t
    BY <1>1, <1>2, <1>3, <1>5, <2>1, <2>2, <2>3
  <2>5. QED
    BY <1>1, <1>5, <2>4
<1> PICK E : E = (D \ {d}) \cup {c0}
    OBVIOUS
<1>6. E \subseteq T /\ T \subseteq DhtChunks
    BY <1>4, <1>5
<1>7. IsFiniteSet(D \ {d}) /\ Cardinality(D \ {d}) = Cardinality(D) - 1
    BY <1>1, FS_RemoveElement
<1>8. Cardinality(D) \in Nat
    BY <1>1, FS_CardinalityType
<1>9. IsFiniteSet(E) /\ Cardinality(E) = Cardinality(D)
    BY <1>1, <1>7, <1>8, FS_AddElement
<1>10. IsFiniteSet(T) /\ Cardinality(E) <= Cardinality(T) /\ Cardinality(T) \in Nat
    BY <1>6, DhtAssumption, FS_Subset, FS_CardinalityType
<1>11. Cardinality(T) >= MAX_DHT_RECORDS
    BY <1>8, <1>9, <1>10, DhtAssumption
<1>12. announced'[d][p] = t
    BY <1>1, <1>2
<1>13. OthersSince(d, announced[d][p])' = T
    BY <1>12 DEF OthersSince
<1>14. QED
    BY <1>11, <1>13

LEMMA AnnounceStep ==
    ASSUME RecordsInv, NEW c \in DhtChunks, NEW p \in DhtHolders, announce_chunk(c, p)
    PROVE  RecordsInv'
<1> PICK D : D = DOMAIN dht_records
    OBVIOUS
<1>0. /\ clock \in Nat /\ announced \in [DhtChunks -> [DhtHolders -> {Never} \cup Nat]]
      /\ D \subseteq DhtChunks /\ \A x \in D : RecordSound(x)
      /\ evicted \in {Never} \cup Nat /\ evicted <= clock
      /\ \A x \in DhtChunks, q \in DhtHolders : announced[x][q] <= clock
    BY DEF RecordsInv, RecordsSound
<1>1. PICK recs \in WithRoom(c) :
        dht_records' = Put(recs, c,
             [holders |-> IF c \in DOMAIN recs THEN Put(recs[c].holders, p, clock)
                                               ELSE [h \in {p} |-> clock],
              last_verified |-> clock])
    BY DEF announce_chunk
<1>2. /\ announced' = [announced EXCEPT ![c][p] = clock]
      /\ clock' = clock /\ evicted' = evicted
    BY DEF announce_chunk
<1>3. /\ announced' \in [DhtChunks -> [DhtHolders -> {Never} \cup Nat]]
      /\ announced'[c][p] = clock
      /\ \A x \in DhtChunks \ {c} : announced'[x] = announced[x]
      /\ \A q \in DhtHolders \ {p} : announced'[c][q] = announced[c][q]
    BY <1>0, <1>2
<1>4. \/ recs = dht_records
      \/ \E d \in D : /\ recs = Drop(dht_records, d)
                      /\ Cardinality(D) >= MAX_DHT_RECORDS /\ c \notin D
                      /\ \A e \in D : dht_records[d].last_verified <= dht_records[e].last_verified
    BY DEF WithRoom
<1>5. DOMAIN recs \subseteq D /\ \A x \in DOMAIN recs : recs[x] = dht_records[x]
    BY <1>4 DEF Drop
<1> PICK new : new = [holders |-> IF c \in DOMAIN recs THEN Put(recs[c].holders, p, clock)
                                               ELSE [h \in {p} |-> clock],
              last_verified |-> clock]
    OBVIOUS
<1>6. /\ DOMAIN dht_records' = DOMAIN recs \cup {c} /\ dht_records'[c] = new
      /\ \A x \in DOMAIN recs \ {c} : dht_records'[x] = dht_records[x]
    BY <1>1, <1>5 DEF Put
<1>7. /\ new.last_verified = clock
      /\ p \in DOMAIN new.holders /\ new.holders[p] = clock
      /\ c \in DOMAIN recs => /\ DOMAIN new.holders = DOMAIN dht_records[c].holders \cup {p}
                              /\ \A h \in DOMAIN dht_records[c].holders \ {p} :
                                     new.holders[h] = dht_records[c].holders[h]
      /\ c \notin DOMAIN recs => DOMAIN new.holders = {p}
    BY <1>5 DEF Put
<1>8. \A x \in DhtChunks, q \in DhtHolders : announced'[x][q] <= clock
    BY <1>0, <1>3
<1>9. ASSUME NEW x \in DOMAIN dht_records'
      PROVE  RecordSound(x)'
  <2>1. CASE x = c
    <3>1. dht_records'[x] = new
      BY <1>6, <2>1
    <3>2. /\ DOMAIN new.holders \subseteq DhtHolders
          /\ \A h \in DOMAIN new.holders : new.holders[h] = announced'[c][h] /\ announced'[c][h] # Never
      <4>1. clock # Never
        BY <1>0, NeverIsNoTime
      <4>2. CASE c \in DOMAIN recs
        <5>1. RecordSound(c)
          BY <1>0, <1>5, <4>2
        <5>2. QED
          BY <1>3, <1>7, <4>1, <4>2, <5>1 DEF RecordSound
      <4>3. CASE c \notin DOMAIN recs
        BY <1>3, <1>7, <4>1, <4>3
      <4>4. QED
        BY <4>2, <4>3
    <3>3. QED
      BY <1>0, <1>3, <1>7, <1>8, <2>1, <3>1, <3>2 DEF RecordSound
  <2>2. CASE x # c
    <3>1. x \in D /\ dht_records'[x] = dht_records[x] /\ announced'[x] = announced[x] /\ RecordSound(x)
      BY <1>0, <1>3, <1>5, <1>6, <1>9, <2>2
    <3>2. QED
      BY <3>1 DEF RecordSound
  <2>3. QED
    BY <2>1, <2>2
<1>10. RecordsSound'
    BY <1>0, <1>2, <1>3, <1>5, <1>6, <1>8, <1>9 DEF RecordsSound
<1>11. ASSUME NEW x \in DhtChunks, NEW q \in DhtHolders, announced'[x][q] # Never
       PROVE  Found(x, q)'
  <2>1. CASE x = c /\ q = p
    BY <1>6, <1>7, <2>1 DEF Found
  <2>2. CASE ~(x = c /\ q = p)
    <3>1. announced'[x][q] = announced[x][q]
      BY <1>3, <2>2
    <3> PICK t : t = announced[x][q]
      OBVIOUS
    <3>2. t \in Nat /\ announced'[x][q] = t /\ t # Never
      BY <1>0, <1>11, <3>1
    <3>3. Found(x, q)
      BY <3>1, <1>11 DEF RecordsInv, HoldersFound, Found
    <3>4. CASE evicted - t > MaxAge
      BY <1>2, <3>2, <3>4 DEF Found
    <3>5. CASE Cardinality(OthersSince(x, t)) >= MAX_DHT_RECORDS
      <4>1. Cardinality(OthersSince(x, t)') >= MAX_DHT_RECORDS
        BY <1>2, <3>2, <3>5, OthersSinceGrows DEF RecordsInv
      <4>2. OthersSince(x, t)' = OthersSince(x, announced[x][q])'
        BY <3>2 DEF OthersSince
      <4>3. QED
        BY <4>1, <4>2 DEF Found
    <3>6. CASE x \in D /\ q \in DOMAIN dht_records[x].holders
      <4>1. CASE x = c
        <5>1. x \in DOMAIN recs
          BY <1>4, <3>6, <4>1
        <5>2. QED
          BY <1>6, <1>7, <3>6, <4>1, <5>1 DEF Found
      <4>2. CASE x # c /\ x \in DOMAIN recs
        BY <1>6, <3>6, <4>2 DEF Found
      <4>3. CASE x \notin DOMAIN recs
        <5>1. /\ Cardinality(D) >= MAX_DHT_RECORDS /\ c \notin D
              /\ \A e \in D : dht_records[x].last_verified <= dht_records[e].last_verified
          BY <1>4, <3>6, <4>3 DEF Drop
        <5>2. Cardinality(OthersSince(x, announced[x][q])') >= MAX_DHT_RECORDS
          BY <1>2, <3>2, <3>6, <5>1, MadeRoom DEF RecordsInv
        <5>3. QED
          BY <5>2 DEF Found
      <4>4. QED
        BY <4>1, <4>2, <4>3
    <3>7. QED
      BY <3>3, <3>4, <3>5, <3>6 DEF Found
  <2>3. QED
    BY <2>1, <2>2
<1>12. HoldersFound'
    BY <1>11 DEF HoldersFound, Found
<1>13. QED
    BY <1>10, <1>12 DEF RecordsInv

LEMMA EvictStep ==
    ASSUME RecordsInv, evict_stale_holders
    PROVE  RecordsInv'
<1> PICK D : D = DOMAIN dht_records
    OBVIOUS
<1> DEFINE Kept(c) == {h \in DOMAIN dht_records[c].holders : Fresh(dht_records[c].holders[h])}
<1>0. /\ clock \in Nat /\ announced \in [DhtChunks -> [DhtHolders -> {Never} \cup Nat]]
      /\ D \subseteq DhtChunks /\ \A x \in D : RecordSound(x)
      /\ evicted \in {Never} \cup Nat /\ evicted <= clock
      /\ \A x \in DhtChunks, q \in DhtHolders : announced[x][q] <= clock
    BY DEF RecordsInv, RecordsSound
<1>1. /\ dht_records' = [c \in {c \in D : Kept(c) # {}} |->
                             [dht_records[c] EXCEPT !.holders =
                                [h \in Kept(c) |-> dht_records[c].holders[h]]]]
      /\ evicted' = clock /\ clock' = clock /\ announced' = announced
    BY DEF evict_stale_holders
<1>2. DOMAIN dht_records' = {c \in D : Kept(c) # {}}
    BY <1>1
<1>3. ASSUME NEW x \in D
      PROVE  \A h \in DOMAIN dht_records[x].holders :
               \/ h \in Kept(x)
               \/ announced[x][h] \in Nat /\ clock - announced[x][h] > MaxAge
    <2>1. \A h \in DOMAIN dht_records[x].holders :
             dht_records[x].holders[h] = announced[x][h] /\ announced[x][h] \in Nat
        BY <1>0, <1>3 DEF RecordSound
    <2>2. QED
        BY <1>0, <2>1, DhtAssumption DEF Fresh
<1>4. ASSUME NEW x \in DOMAIN dht_records'
      PROVE  /\ x \in D /\ RecordSound(x)
             /\ dht_records'[x] = [holders |-> [h \in Kept(x) |-> dht_records[x].holders[h]],
                                   last_verified |-> dht_records[x].last_verified]
  <2>1. x \in D /\ RecordSound(x)
    BY <1>0, <1>2, <1>4
  <2>2. dht_records'[x] = [dht_records[x] EXCEPT !.holders =
                                [h \in Kept(x) |-> dht_records[x].holders[h]]]
    BY <1>1, <1>2, <1>4
  <2> PICK r : r = dht_records[x]
    OBVIOUS
  <2> PICK f : f = [h \in Kept(x) |-> dht_records[x].holders[h]]
    OBVIOUS
  <2>3. r = [holders |-> r.holders, last_verified |-> r.last_verified]
    BY <2>1 DEF RecordSound
  <2>4. [r EXCEPT !.holders = f] = [holders |-> f, last_verified |-> r.last_verified]
    BY <2>3
  <2>5. QED
    BY <2>1, <2>2, <2>4
<1>5. ASSUME NEW x \in DOMAIN dht_records'
      PROVE  RecordSound(x)' /\ DOMAIN dht_records'[x].holders = Kept(x)
  <2>1. /\ dht_records'[x].holders = [h \in Kept(x) |-> dht_records[x].holders[h]]
        /\ dht_records'[x].last_verified = dht_records[x].last_verified
        /\ dht_records'[x] = [holders |-> dht_records'[x].holders,
                              last_verified |-> dht_records'[x].last_verified]
    BY SMTT(30), <1>4, <1>5
  <2> HIDE DEF Kept
  <2>2. /\ DOMAIN dht_records'[x].holders = Kept(x)
        /\ \A h \in Kept(x) : dht_records'[x].holders[h] = dht_records[x].holders[h]
    BY <2>1
  <2>3. Kept(x) \subseteq DOMAIN dht_records[x].holders
    BY DEF Kept
  <2>4. RecordSound(x)
    BY <1>4, <1>5
  <2>5. QED
    BY <1>1, <2>1, <2>2, <2>3, <2>4 DEF RecordSound
<1>6. RecordsSound'
  <2>1. \A x \in DhtChunks, q \in DhtHolders : (announced[x][q] <= clock)'
    BY <1>0, <1>1
  <2>2. \A x \in DOMAIN dht_records' : RecordSound(x)'
    BY <1>5
  <2>3. DOMAIN dht_records' \subseteq DhtChunks
    BY <1>0, <1>2
  <2>4. (clock \in Nat /\ evicted \in {Never} \cup Nat /\ evicted <= clock)'
    BY <1>0, <1>1
  <2>5. (announced \in [DhtChunks -> [DhtHolders -> {Never} \cup Nat]])'
    BY <1>0, <1>1
  <2>6. QED
    BY <2>1, <2>2, <2>3, <2>4, <2>5 DEF RecordsSound
<1>7. ASSUME NEW x \in DhtChunks, NEW q \in DhtHolders, announced'[x][q] # Never
      PROVE  Found(x, q)'
  <2> PICK t : t = announced[x][q]
    OBVIOUS
  <2>1. t \in Nat /\ announced'[x][q] = t /\ announced[x][q] # Never
    BY <1>0, <1>1, <1>7
  <2>2. Found(x, q)
    BY <2>1 DEF RecordsInv, HoldersFound, Found
  <2>3. CASE evicted - t > MaxAge
    <3>1. evicted' - announced'[x][q] > MaxAge
      BY <1>0, <1>1, <2>1, <2>3, DhtAssumption, NeverIsNoTime
    <3>2. QED
      BY <3>1 DEF Found
  <2>4. CASE Cardinality(OthersSince(x, announced[x][q])) >= MAX_DHT_RECORDS
    <3>1. OthersSince(x, announced[x][q])' = OthersSince(x, announced[x][q])
      BY <1>1 DEF OthersSince
    <3>2. QED
      BY <2>4, <3>1 DEF Found
  <2>5. CASE x \in D /\ q \in DOMAIN dht_records[x].holders
    <3>1. CASE q \in Kept(x)
      <4>1. x \in DOMAIN dht_records'
        BY <1>2, <2>5, <3>1
      <4>2. DOMAIN dht_records'[x].holders = Kept(x)
        BY <1>5, <4>1
      <4>3. QED
        BY <3>1, <4>1, <4>2 DEF Found
    <3>2. CASE clock - announced[x][q] > MaxAge
      BY <1>1, <3>2 DEF Found
    <3>3. QED
      BY <1>3, <2>5, <3>1, <3>2
  <2>6. QED
    BY <2>2, <2>3, <2>4, <2>5 DEF Found
<1>8. HoldersFound'
    BY <1>7 DEF HoldersFound, Found
<1>9. QED
    BY <1>6, <1>8 DEF RecordsInv

DhtInv == BucketInv /\ RecordsInv

\* Whatever leaves the records alone keeps what is said of them.
LEMMA RecordsUntouched ==
    ASSUME RecordsInv, clock' \in Nat, clock' >= clock,
           UNCHANGED <<dht_records, announced, evicted>>
    PROVE  RecordsInv'
<1>1. \A c \in DOMAIN dht_records : RecordSound(c) => RecordSound(c)'
    BY DEF RecordSound
<1>2. RecordsSound'
  <2>1. \A x \in DhtChunks, q \in DhtHolders : announced[x][q] \in Int /\ announced[x][q] <= clock
    BY NeverIsNoTime DEF RecordsInv, RecordsSound
  <2>2. \A x \in DhtChunks, q \in DhtHolders : (announced[x][q] <= clock)'
    BY <2>1 DEF RecordsInv, RecordsSound
  <2>3. (evicted \in {Never} \cup Nat /\ evicted <= clock)'
    BY NeverIsNoTime DEF RecordsInv, RecordsSound
  <2>4. QED
    BY <1>1, <2>2, <2>3 DEF RecordsInv, RecordsSound
<1>3. \A x, t : OthersSince(x, t)' = OthersSince(x, t)
    BY DEF OthersSince
<1>4. HoldersFound'
    BY DEF RecordsInv, HoldersFound, OthersSince
<1>5. QED
    BY <1>2, <1>4 DEF RecordsInv

\* The same of the bucket.
LEMMA BucketUntouched ==
    ASSUME BucketInv, clock' \in Nat, clock' >= clock, UNCHANGED <<bucket, seen>>
    PROVE  BucketInv'
<1>1. \A p \in DhtPeers : seen[p] \in Int /\ seen[p] <= clock /\ clock \in Nat
    BY NeverIsNoTime DEF BucketInv, BucketSound
<1>2. \A p \in DhtPeers : (seen[p] <= clock)'
    BY <1>1
<1>3. BucketSound'
    BY <1>2 DEF BucketInv, BucketSound
<1>4. BucketKeepsRecent'
    BY DEF BucketInv, BucketKeepsRecent
<1>5. QED
    BY <1>3, <1>4 DEF BucketInv

LEMMA DhtStart == DhtInit => DhtInv
<1> SUFFICES ASSUME DhtInit PROVE DhtInv
    OBVIOUS
<1>1. clock = 0 /\ DOMAIN bucket = {} /\ DOMAIN dht_records = {} /\ evicted = Never
    BY DEF DhtInit
<1>2. seen \in [DhtPeers -> {Never} \cup Nat] /\ \A p \in DhtPeers : seen[p] = Never
    BY DEF DhtInit
<1>3. /\ announced \in [DhtChunks -> [DhtHolders -> {Never} \cup Nat]]
      /\ \A c \in DhtChunks, p \in DhtHolders : announced[c][p] = Never
    BY DEF DhtInit
<1>4. IsFiniteSet({}) /\ Cardinality({}) = 0
    BY FS_EmptySet
<1>5. BucketInv
    BY <1>1, <1>2, <1>4, DhtAssumption, NeverIsNoTime DEF BucketInv, BucketSound, BucketKeepsRecent
<1>6. RecordsInv
    BY <1>1, <1>3, NeverIsNoTime DEF RecordsInv, RecordsSound, HoldersFound
<1>7. QED
    BY <1>5, <1>6 DEF DhtInv

LEMMA DhtStep == DhtInv /\ [DhtNext]_dhtVars => DhtInv'
<1> SUFFICES ASSUME DhtInv, [DhtNext]_dhtVars PROVE DhtInv'
    OBVIOUS
<1>0. BucketInv /\ RecordsInv /\ clock \in Nat
    BY DEF DhtInv, BucketInv, BucketSound
<1>1. CASE TimePasses
    BY <1>0, <1>1, BucketUntouched, RecordsUntouched DEF TimePasses, DhtInv
<1>2. ASSUME NEW p \in DhtPeers, add_peer(p)
      PROVE  DhtInv'
  <2>1. BucketInv'
    BY <1>0, <1>2, AddPeerStep
  <2>2. UNCHANGED <<clock, dht_records, announced, evicted>>
    BY <1>2 DEF add_peer
  <2>3. QED
    BY <1>0, <2>1, <2>2, RecordsUntouched DEF DhtInv
<1>3. ASSUME NEW p \in DhtPeers, remove_peer(p)
      PROVE  DhtInv'
  <2>1. BucketInv'
    BY <1>0, <1>3, RemovePeerStep
  <2>2. UNCHANGED <<clock, dht_records, announced, evicted>>
    BY <1>3 DEF remove_peer
  <2>3. QED
    BY <1>0, <2>1, <2>2, RecordsUntouched DEF DhtInv
<1>4. ASSUME NEW c \in DhtChunks, NEW p \in DhtHolders, announce_chunk(c, p)
      PROVE  DhtInv'
  <2>1. RecordsInv'
    BY <1>0, <1>4, AnnounceStep
  <2>2. UNCHANGED <<clock, bucket, seen>>
    BY <1>4 DEF announce_chunk
  <2>3. QED
    BY <1>0, <2>1, <2>2, BucketUntouched DEF DhtInv
<1>5. CASE evict_stale_holders
  <2>1. RecordsInv'
    BY <1>0, <1>5, EvictStep
  <2>2. UNCHANGED <<clock, bucket, seen>>
    BY <1>5 DEF evict_stale_holders
  <2>3. QED
    BY <1>0, <2>1, <2>2, BucketUntouched DEF DhtInv
<1>6. CASE UNCHANGED dhtVars
    BY <1>0, <1>6, BucketUntouched, RecordsUntouched DEF dhtVars, DhtInv
<1>7. QED
    BY <1>1, <1>2, <1>3, <1>4, <1>5, <1>6 DEF DhtNext

\* The bucket's and the records' times are the latest there are, in every
\* reachable state (fs/dht.rs).
THEOREM DhtInvariance == DhtSpec => []DhtInv
<1>1. DhtInit => DhtInv
    BY DhtStart
<1>2. DhtInv /\ [DhtNext]_dhtVars => DhtInv'
    BY DhtStep
<1>3. QED
    BY <1>1, <1>2, PTL DEF DhtSpec

\* The table forgets a peer or a holder only for its age or for fresher ones:
\* add_peer gives up the peer seen least recently, announce_chunk the record
\* verified least recently, evict_stale_holders what is older than max_age_ms,
\* for any number of peers, chunks and holders and any limits.
THEOREM FreshestAlwaysKept == DhtSpec => []FreshestKept
<1>1. DhtInv => FreshestKept
    BY DEF DhtInv, BucketInv, RecordsInv, FreshestKept
<1>2. QED
    BY <1>1, DhtInvariance, PTL


-----------------------------------------------------------------------------
(* Pieces of a sequence.                                                    *)

\* The bounds of piece k of a sequence of length m.
Bounds(m, n, q) ==
    /\ q \in Nat /\ m <= q * n /\ (m # 0 => q # 0)
    /\ \A k \in 1..q : /\ (k - 1) * n \in Nat /\ k * n \in Nat
                       /\ (k - 1) * n < m /\ k * n = (k - 1) * n + n
    /\ \A k \in 1..q : k # q => k * n < m

LEMMA PieceBounds ==
    ASSUME NEW m \in Nat, NEW n \in Nat \ {0}, NEW q, q = (m + n - 1) \div n
    PROVE  Bounds(m, n, q)
<1>1. PICK a \in Nat : a = m + n - 1
    OBVIOUS
<1>2. q \in Nat /\ n * q <= a /\ a < n * q + n
    BY <1>1
<1>3. n * q = q * n
    BY <1>2
<1>4. ASSUME NEW k \in 1..q PROVE k * n \in Nat /\ k * n <= q * n
    BY <1>2
<1>5. ASSUME NEW k \in 1..q PROVE (k - 1) * n = k * n - n /\ (k - 1) * n \in Nat
    BY <1>2
<1>6. ASSUME NEW k \in 1..q PROVE (k - 1) * n < m
    BY <1>1, <1>2, <1>3, <1>4, <1>5
<1>7. ASSUME NEW k \in 1..q, k # q PROVE k * n < m
  <2>1. k + 1 \in 1..q /\ (k + 1) - 1 = k
    BY <1>2, <1>7
  <2>2. QED
    BY <1>6, <2>1
<1>8. m <= q * n
    BY <1>1, <1>2, <1>3
<1>9. m # 0 => q # 0
    BY <1>2, <1>8
<1>10. QED
    BY <1>2, <1>4, <1>5, <1>6, <1>7, <1>8, <1>9 DEF Bounds

\* Every piece holds the bytes of its place, at least one and at most n.
Cut(p, s, n, S) ==
    /\ Len(p) = (Len(s) + n - 1) \div n /\ Len(p) \in Nat /\ DOMAIN p = 1..Len(p)
    /\ Bounds(Len(s), n, Len(p))
    /\ p \in Seq(Seq(S))
    /\ \A k \in 1..Len(p) :
         /\ p[k] \in Seq(S)
         /\ Len(p[k]) = (IF k * n < Len(s) THEN k * n ELSE Len(s)) - (k - 1) * n
         /\ Len(p[k]) \in 1..n
         /\ \A j \in 1..Len(p[k]) : p[k][j] = s[(k - 1) * n + j]

LEMMA PiecesAre ==
    ASSUME NEW S, NEW s \in Seq(S), NEW n \in Nat \ {0}, NEW p, p = Pieces(s, n)
    PROVE  Cut(p, s, n, S)
<1>1. PICK m, q : m \in Nat /\ m = Len(s) /\ q = (m + n - 1) \div n
    OBVIOUS
<1>2. /\ q \in Nat /\ m <= q * n
      /\ \A k \in 1..q : /\ (k - 1) * n \in Nat /\ k * n \in Nat
                         /\ (k - 1) * n < m /\ k * n = (k - 1) * n + n
  <2>1. Bounds(m, n, q)
    BY <1>1, PieceBounds
  <2>2. QED
    BY <2>1 DEF Bounds
<1>3. p = [k \in 1..q |-> SubSeq(s, (k - 1) * n + 1, IF k * n < m THEN k * n ELSE m)]
    BY <1>1 DEF Pieces
<1>4. Len(p) = q /\ DOMAIN p = 1..q
  <2>1. DOMAIN p = 1..q
    BY <1>3, Zenon
  <2>2. q \in Nat
    BY <1>2
  <2>3. QED
    BY ONLY <2>1, <2>2
<1>5. ASSUME NEW k \in 1..q
      PROVE  /\ p[k] \in Seq(S)
             /\ Len(p[k]) = (IF k * n < m THEN k * n ELSE m) - (k - 1) * n
             /\ Len(p[k]) \in 1..n
             /\ \A j \in 1..Len(p[k]) : p[k][j] = s[(k - 1) * n + j]
  <2>1. PICK f \in Nat, b \in Nat : f = (k - 1) * n /\ b = IF k * n < m THEN k * n ELSE m
    BY <1>1, <1>2
  <2>2. f < b /\ b <= f + n /\ b <= m
    BY <1>1, <1>2, <2>1
  <2>3. PICK a \in Nat : a = f + 1
    OBVIOUS
  <2>4. p[k] = SubSeq(s, a, b)
    BY <1>3, <2>1, <2>3
  <2>5. /\ SubSeq(s, a, b) \in Seq(S) /\ Len(SubSeq(s, a, b)) = b - a + 1
        /\ \A i \in 1..(b - a + 1) : SubSeq(s, a, b)[i] = s[a + i - 1]
    <3>1. a \in 1..Len(s) /\ b \in 1..Len(s) /\ a <= b
      BY <1>1, <2>2, <2>3
    <3>2. QED
      BY <3>1, SubSeqProperties
  <2>6. p[k] \in Seq(S) /\ Len(p[k]) = b - f
    BY <2>3, <2>4, <2>5
  <2>7. ASSUME NEW j \in 1..Len(p[k]) PROVE p[k][j] = s[f + j]
    <3>1. j \in 1..(b - a + 1) /\ a + j - 1 = f + j
      BY <2>3, <2>6
    <3>2. QED
      BY <2>4, <2>5, <3>1
  <2>8. Len(p[k]) \in 1..n
    BY <2>2, <2>6
  <2>9. QED
    BY ONLY <2>1, <2>6, <2>7, <2>8
<1>6. p \in Seq(Seq(S))
  <2>1. p = [k \in 1..q |-> p[k]]
    BY <1>3, Zenon
  <2>2. \A k \in 1..q : p[k] \in Seq(S)
    BY <1>5
  <2>3. p \in [1..q -> Seq(S)]
    BY ONLY <2>1, <2>2
  <2>4. q \in Nat
    BY <1>2
  <2>5. QED
    BY ONLY <2>3, <2>4
<1>7. \A k \in 1..Len(p) :
        /\ p[k] \in Seq(S)
        /\ Len(p[k]) = (IF k * n < Len(s) THEN k * n ELSE Len(s)) - (k - 1) * n
        /\ Len(p[k]) \in 1..n
        /\ \A j \in 1..Len(p[k]) : p[k][j] = s[(k - 1) * n + j]
    BY ONLY <1>1, <1>4, <1>5
<1>8. Len(p) = (Len(s) + n - 1) \div n /\ Len(p) \in Nat /\ DOMAIN p = 1..Len(p)
    BY ONLY <1>1, <1>2, <1>4
<1>9. Bounds(Len(s), n, Len(p))
    BY <1>1, <1>4, PieceBounds
<1>10. QED
    BY ONLY <1>6, <1>7, <1>8, <1>9 DEF Cut

-----------------------------------------------------------------------------
(* The shards of a file.                                                    *)

SeqsOf(seqs, n, S) == \A i \in 1..n : seqs[i] \in Seq(S)

\* Each of the flattened sequences is the one before with one more appended.
Glued(fl, seqs, n, S) ==
    /\ n # 0 => fl[1] = seqs[1]
    /\ \A i \in 1..n : fl[i] \in Seq(S) /\ Len(fl[i]) \in Nat
    /\ \A i \in 1..(n - 1) :
         /\ fl[i + 1] = fl[i] \o seqs[i + 1]
         /\ Len(fl[i + 1]) = Len(fl[i]) + Len(seqs[i + 1])
         /\ \A j \in 1..Len(fl[i]) : fl[i + 1][j] = fl[i][j]
         /\ \A j \in 1..Len(seqs[i + 1]) : fl[i + 1][Len(fl[i]) + j] = seqs[i + 1][j]

LEMMA FlattenStep ==
    ASSUME NEW S, NEW n \in Nat, NEW seqs, SeqsOf(seqs, n, S),
           NEW fl, Flattened(fl, seqs, n)
    PROVE  Glued(fl, seqs, n, S)
<1>1. \A i \in 1..n : fl[i] \in Seq(S)
    BY FlattenedSeq DEF SeqsOf
<1>2. \A i \in 1..n : fl[i] = IF i = 1 THEN seqs[i] ELSE fl[i - 1] \o seqs[i]
    BY DEF Flattened
<1>3. n # 0 => fl[1] = seqs[1]
  <2>1. n # 0 => 1 \in 1..n
    OBVIOUS
  <2>2. QED
    BY <1>2, <2>1
<1>4. ASSUME NEW i \in 1..(n - 1)
      PROVE  /\ fl[i + 1] = fl[i] \o seqs[i + 1]
             /\ Len(fl[i + 1]) = Len(fl[i]) + Len(seqs[i + 1])
             /\ \A j \in 1..Len(fl[i]) : fl[i + 1][j] = fl[i][j]
             /\ \A j \in 1..Len(seqs[i + 1]) : fl[i + 1][Len(fl[i]) + j] = seqs[i + 1][j]
  <2>1. PICK k \in Nat : k = i + 1
    OBVIOUS
  <2>2. k \in 1..n /\ k # 1 /\ k - 1 = i /\ i \in 1..n
    BY <2>1
  <2>3. fl[k] = fl[i] \o seqs[k]
    BY <1>2, <2>2
  <2>4. PICK u, v, w : u = fl[i] /\ v = seqs[k] /\ w = fl[k]
    OBVIOUS
  <2>5. u \in Seq(S) /\ v \in Seq(S) /\ w = u \o v
    BY <1>1, <2>2, <2>3, <2>4 DEF SeqsOf
  <2>6. /\ Len(w) = Len(u) + Len(v)
        /\ \A j \in 1..(Len(u) + Len(v)) : w[j] = IF j <= Len(u) THEN u[j] ELSE v[j - Len(u)]
    BY <2>5, ConcatProperties
  <2>7. Len(u) \in Nat /\ Len(v) \in Nat
    BY <2>5
  <2>8. \A j \in 1..Len(u) : w[j] = u[j]
    BY <2>6, <2>7
  <2>9. \A j \in 1..Len(v) : w[Len(u) + j] = v[j]
    BY <2>6, <2>7
  <2>10. QED
    BY <2>1, <2>3, <2>4, <2>6, <2>8, <2>9
<1>5. \A i \in 1..n : Len(fl[i]) \in Nat
    BY <1>1
<1>6. QED
    BY <1>1, <1>3, <1>4, <1>5 DEF Glued

DataShard(groups, g, i) == [group |-> g, type |-> "Data", bytes |-> groups[g][i]]
ParityShard(groups, g, p) ==
    [group |-> g, type |-> "Parity", bytes |-> encode_group(groups[g])[p]]

\* All shards of the groups.
ShardsIn(groups) ==
    UNION {{DataShard(groups, g, i) : i \in DOMAIN groups[g]}
             \cup {ParityShard(groups, g, p) : p \in 1..RS_PARITY_SHARDS} : g \in DOMAIN groups}

\* The shards of a group: one for each chunk, then the parity shards.
LEMMA ShardsAre ==
    ASSUME NEW S, NEW groups, NEW g \in DOMAIN groups, groups[g] \in Seq(S),
           NEW sh, sh = Shards(groups, g)
    PROVE  /\ sh \in Seq(ShardsIn(groups)) /\ Len(sh) = Len(groups[g]) + RS_PARITY_SHARDS
           /\ \A i \in 1..Len(groups[g]) : sh[i] = DataShard(groups, g, i)
           /\ \A p \in 1..RS_PARITY_SHARDS : sh[Len(groups[g]) + p] = ParityShard(groups, g, p)
<1>1. PICK n \in Nat, m \in Nat : n = Len(groups[g]) /\ m = RS_PARITY_SHARDS
    BY FileCodingAssumption
<1>2. PICK T : T = ShardsIn(groups)
    OBVIOUS
<1>3. PICK u, v : /\ u = [i \in 1..n |-> DataShard(groups, g, i)]
                  /\ v = [p \in 1..m |-> ParityShard(groups, g, p)]
    OBVIOUS
<1>4. DOMAIN groups[g] = 1..n
    BY <1>1
<1>5. sh = u \o v
    BY <1>1, <1>3, <1>4 DEF Shards, DataShard, ParityShard
<1>6. u \in Seq(T) /\ Len(u) = n
  <2>1. \A i \in 1..n : DataShard(groups, g, i) \in T
    BY <1>2, <1>4 DEF ShardsIn
  <2>2. u \in [1..n -> T]
    BY <1>3, <2>1
  <2>3. QED
    BY <2>2
<1>7. v \in Seq(T) /\ Len(v) = m
  <2>1. \A p \in 1..m : ParityShard(groups, g, p) \in T
    BY <1>1, <1>2 DEF ShardsIn
  <2>2. v \in [1..m -> T]
    BY <1>3, <2>1
  <2>3. QED
    BY <2>2
<1>8. /\ sh \in Seq(T) /\ Len(sh) = n + m
      /\ \A i \in 1..(n + m) : sh[i] = IF i <= n THEN u[i] ELSE v[i - n]
  <2>1. /\ u \o v \in Seq(T) /\ Len(u \o v) = Len(u) + Len(v)
        /\ \A i \in 1..(Len(u) + Len(v)) :
              (u \o v)[i] = IF i <= Len(u) THEN u[i] ELSE v[i - Len(u)]
    BY ONLY <1>6, <1>7, ConcatProperties
  <2>2. QED
    BY ONLY <1>5, <1>6, <1>7, <2>1
<1>9. \A i \in 1..n : sh[i] = DataShard(groups, g, i)
  <2>1. \A i \in 1..n : i \in 1..(n + m) /\ i <= n
    OBVIOUS
  <2>2. QED
    BY <1>3, <1>8, <2>1
<1>10. ASSUME NEW p \in 1..m PROVE sh[n + p] = ParityShard(groups, g, p)
  <2>1. n + p \in 1..(n + m) /\ ~(n + p <= n) /\ (n + p) - n = p
    OBVIOUS
  <2>2. QED
    BY <1>3, <1>8, <2>1
<1>11. QED
    BY <1>1, <1>2, <1>8, <1>9, <1>10

\* chunk_file puts the shards of one group after those of the other.
ShardedFile(f, chunks, groups, seqs, fl, S) ==
    /\ Cut(chunks, f, CHUNK_SIZE, S) /\ Len(chunks) # 0
    /\ Cut(groups, chunks, RS_DATA_SHARDS, Seq(S)) /\ Len(groups) # 0
    /\ seqs = [g \in 1..Len(groups) |-> Shards(groups, g)]
    /\ SeqsOf(seqs, Len(groups), ShardsIn(groups))
    /\ Glued(fl, seqs, Len(groups), ShardsIn(groups))
    /\ chunk_file(f) = fl[Len(groups)]

LEMMA ChunkFileIs ==
    ASSUME NEW S, NEW f \in Seq(S), Len(f) # 0
    PROVE  \E chunks, groups, seqs, fl : ShardedFile(f, chunks, groups, seqs, fl, S)
<1>1. CHUNK_SIZE \in Nat \ {0} /\ RS_DATA_SHARDS \in Nat \ {0}
    BY FileCodingAssumption
<1>2. PICK chunks, groups : chunks = Pieces(f, CHUNK_SIZE) /\ groups = Pieces(chunks, RS_DATA_SHARDS)
    OBVIOUS
<1>3. Cut(chunks, f, CHUNK_SIZE, S)
    BY <1>1, <1>2, PiecesAre
<1>4. Len(chunks) # 0 /\ chunks \in Seq(Seq(S))
    BY <1>3 DEF Cut, Bounds
<1>5. PICK T : T = Seq(S)
    OBVIOUS
<1>6. Cut(groups, chunks, RS_DATA_SHARDS, T)
    BY <1>1, <1>2, <1>4, <1>5, PiecesAre
<1>7. Len(groups) # 0 /\ groups \in Seq(Seq(T)) /\ Len(groups) \in Nat
    BY <1>4, <1>6 DEF Cut, Bounds
<1>8. PICK n \in Nat : n = Len(groups) /\ n # 0 /\ DOMAIN groups = 1..n
    BY <1>7
<1>9. \A g \in 1..n : Shards(groups, g) \in Seq(ShardsIn(groups))
  <2>1. ASSUME NEW g \in 1..n PROVE Shards(groups, g) \in Seq(ShardsIn(groups))
    <3>1. groups[g] \in Seq(T) /\ g \in DOMAIN groups
      BY <1>7, <1>8
    <3>2. QED
      BY <3>1, ShardsAre
  <2>2. QED
    BY <2>1
<1>10. PICK seqs : seqs = [g \in 1..n |-> Shards(groups, g)]
    OBVIOUS
<1>11. Len(seqs) = n
  <2>1. DOMAIN seqs = 1..n
    BY <1>10, Zenon
  <2>2. QED
    BY <2>1
<1>12. chunk_file(f) = FlattenSeq(seqs)
    BY <1>2, <1>8, <1>10 DEF chunk_file
<1>13. PICK fl : Flattened(fl, seqs, n) /\ FlattenSeq(seqs) = fl[n]
    BY <1>8, <1>11, FlattenIs
<1>14. SeqsOf(seqs, n, ShardsIn(groups))
    BY <1>9, <1>10 DEF SeqsOf
<1>15. Glued(fl, seqs, n, ShardsIn(groups))
    BY <1>13, <1>14, FlattenStep
<1>16. ShardedFile(f, chunks, groups, seqs, fl, S)
    BY <1>3, <1>4, <1>5, <1>6, <1>8, <1>10, <1>12, <1>13, <1>14, <1>15 DEF ShardedFile
<1>17. QED
    BY <1>16

\* The first shard is the first chunk: not empty.
LEMMA FirstShard ==
    ASSUME NEW S, NEW f \in Seq(S), Len(f) # 0
    PROVE  /\ chunk_file(f) # <<>>
           /\ chunk_file(f)[1].bytes \in Seq(S)
           /\ Len(chunk_file(f)[1].bytes) # 0
<1>1. PICK chunks, groups, seqs, fl : ShardedFile(f, chunks, groups, seqs, fl, S)
    BY ChunkFileIs
<1>2. /\ Cut(chunks, f, CHUNK_SIZE, S) /\ Len(chunks) # 0
      /\ Cut(groups, chunks, RS_DATA_SHARDS, Seq(S)) /\ Len(groups) # 0
      /\ SeqsOf(seqs, Len(groups), ShardsIn(groups))
      /\ Glued(fl, seqs, Len(groups), ShardsIn(groups))
      /\ chunk_file(f) = fl[Len(groups)]
    BY <1>1 DEF ShardedFile
<1>3. PICK n, T : n \in Nat /\ n = Len(groups) /\ T = ShardsIn(groups)
    BY <1>2 DEF Cut
<1>4. chunk_file(f) = fl[n] /\ n # 0
    BY <1>2, <1>3
<1>5. 1 \in 1..n /\ n \in 1..n /\ 1 \in DOMAIN groups
    BY <1>2, <1>3 DEF Cut
<1>6. \A g \in 1..n : seqs[g] \in Seq(T)
    BY <1>2, <1>3 DEF SeqsOf
<1>7. /\ fl[1] = seqs[1]
      /\ \A i \in 1..n : fl[i] \in Seq(T) /\ Len(fl[i]) \in Nat
      /\ \A i \in 1..(n - 1) : /\ Len(fl[i + 1]) = Len(fl[i]) + Len(seqs[i + 1])
                               /\ \A j \in 1..Len(fl[i]) : fl[i + 1][j] = fl[i][j]
    BY <1>2, <1>3, <1>4 DEF Glued
<1>8. /\ groups[1] \in Seq(Seq(S)) /\ Len(groups[1]) \in Nat /\ Len(groups[1]) # 0
      /\ groups[1][1] = chunks[1]
  <2>1. RS_DATA_SHARDS \in Nat \ {0}
    BY FileCodingAssumption
  <2>2. /\ groups[1] \in Seq(Seq(S)) /\ Len(groups[1]) \in 1..RS_DATA_SHARDS
        /\ \A j \in 1..Len(groups[1]) : groups[1][j] = chunks[(1 - 1) * RS_DATA_SHARDS + j]
    BY <1>2, <1>3, <1>5 DEF Cut
  <2>3. 1 \in 1..Len(groups[1]) /\ (1 - 1) * RS_DATA_SHARDS + 1 = 1
    BY <2>1, <2>2
  <2>4. groups[1][1] = chunks[1]
    BY <2>2, <2>3
  <2>5. QED
    BY <2>1, <2>2, <2>4
<1>9. chunks[1] \in Seq(S) /\ Len(chunks[1]) \in Nat /\ Len(chunks[1]) # 0
  <2>1. CHUNK_SIZE \in Nat \ {0}
    BY FileCodingAssumption
  <2>2. 1 \in 1..Len(chunks)
    BY <1>2 DEF Cut
  <2>3. chunks[1] \in Seq(S) /\ Len(chunks[1]) \in 1..CHUNK_SIZE
    BY <1>2, <2>2 DEF Cut
  <2>4. QED
    BY <2>1, <2>3
<1>10. PICK x : x = DataShard(groups, 1, 1)
    OBVIOUS
<1>11. fl[1][1] = x /\ Len(fl[1]) # 0
  <2>1. PICK sh : sh = Shards(groups, 1)
    OBVIOUS
  <2>2. /\ Len(sh) = Len(groups[1]) + RS_PARITY_SHARDS
        /\ \A i \in 1..Len(groups[1]) : sh[i] = DataShard(groups, 1, i)
    BY <1>5, <1>8, <2>1, ShardsAre
  <2>3. RS_PARITY_SHARDS \in Nat /\ 1 \in 1..Len(groups[1])
    BY <1>8, FileCodingAssumption
  <2>4. fl[1] = sh
    BY <1>1, <1>3, <1>5, <1>7, <2>1 DEF ShardedFile
  <2>5. QED
    BY <1>8, <1>10, <2>2, <2>3, <2>4
<1> DEFINE Good == {i \in 0..n : i # 0 => fl[i][1] = x /\ Len(fl[i]) # 0}
<1>12. 0 \in Good
    BY <1>3
<1>13. ASSUME NEW i \in 0..(n - 1), i \in Good PROVE i + 1 \in Good
  <2>1. CASE i = 0
    BY <1>3, <1>11, <2>1
  <2>2. CASE i # 0
    <3>1. i \in 1..(n - 1) /\ i \in 1..n /\ i + 1 \in 1..n /\ i + 1 \in 0..n
      BY <1>3, <2>2
    <3>2. fl[i][1] = x /\ Len(fl[i]) # 0 /\ Len(fl[i]) \in Nat
      BY <1>7, <1>13, <2>2, <3>1
    <3>3. /\ Len(fl[i + 1]) = Len(fl[i]) + Len(seqs[i + 1])
          /\ \A j \in 1..Len(fl[i]) : fl[i + 1][j] = fl[i][j]
      BY <1>7, <3>1
    <3>4. Len(seqs[i + 1]) \in Nat
      BY <1>6, <3>1
    <3>5. 1 \in 1..Len(fl[i])
      BY <3>2
    <3>6. fl[i + 1][1] = x
      BY <3>2, <3>3, <3>5
    <3>8. Len(fl[i + 1]) # 0
      <4>1. PICK a \in Nat, b \in Nat : a = Len(fl[i]) /\ b = Len(seqs[i + 1])
        BY <3>2, <3>4
      <4>2. Len(fl[i + 1]) = a + b /\ a # 0
        BY <3>2, <3>3, <4>1
      <4>3. QED
        BY <4>2
    <3>9. QED
      BY <3>1, <3>6, <3>8
  <2>3. QED
    BY <2>1, <2>2
<1> HIDE DEF Good
<1>14. 0..n \subseteq Good
    BY <1>3, <1>12, <1>13, Reaches
<1>15. fl[n][1] = x /\ Len(fl[n]) # 0
    BY <1>5, <1>14 DEF Good
<1>16. x.bytes = chunks[1]
    BY <1>8, <1>10 DEF DataShard
<1>17. chunk_file(f) # <<>>
  <2>1. fl[n] # <<>>
    BY <1>15
  <2>2. QED
    BY <1>4, <2>1
<1>18. QED
    BY <1>4, <1>9, <1>15, <1>16, <1>17

-----------------------------------------------------------------------------
(* Storage proofs.                                                          *)

\* Ranges that are not empty and end in the chunk.
RangesIn(ranges, n, m) ==
    \A i \in 1..n : /\ ranges[i][1] \in Nat /\ ranges[i][2] \in Nat
                    /\ ranges[i][1] < ranges[i][2] /\ ranges[i][2] <= m

\* Equal answers need every byte of every range: what a copy that ends too early has of
\* a range is shorter.
LEMMA EqualAnswers ==
    ASSUME NEW S, NEW c \in Seq(S), NEW size \in 0..Len(c),
           NEW n \in Nat, n # 0, NEW ranges, DOMAIN ranges = 1..n, RangesIn(ranges, n, Len(c)),
           compute_proof_hash(SubSeq(c, 1, size), ranges) = compute_proof_hash(c, ranges)
    PROVE  \A i \in 1..n : ranges[i][2] <= size
<1>1. PICK mine : mine = SubSeq(c, 1, size)
    OBVIOUS
<1>2. PICK ps : ps = [i \in 1..n |-> SubSeq(mine, ranges[i][1] + 1,
                        IF ranges[i][2] < Len(mine) THEN ranges[i][2] ELSE Len(mine))]
    OBVIOUS
<1>3. PICK qs : qs = [i \in 1..n |-> SubSeq(c, ranges[i][1] + 1,
                        IF ranges[i][2] < Len(c) THEN ranges[i][2] ELSE Len(c))]
    OBVIOUS
<1>4. FlattenSeq(ps) = FlattenSeq(qs)
  <2>1. compute_proof_hash(mine, ranges) = FlattenSeq(ps)
    BY <1>2 DEF compute_proof_hash
  <2>2. compute_proof_hash(c, ranges) = FlattenSeq(qs)
    BY <1>3 DEF compute_proof_hash
  <2>3. QED
    BY <1>1, <2>1, <2>2
<1>5. ASSUME NEW i \in 1..n
      PROVE  /\ ps[i] \in Seq(S) /\ qs[i] \in Seq(S) /\ Len(ps[i]) <= Len(qs[i])
             /\ ranges[i][2] > size => Len(ps[i]) < Len(qs[i])
  <2>1. PICK a \in Nat, b \in Nat : a = ranges[i][1] /\ b = ranges[i][2] /\ a < b /\ b <= Len(c)
    BY DEF RangesIn
  <2>2. PICK p, q : p = ps[i] /\ q = qs[i]
    OBVIOUS
  <2>a. PICK f, e, h : /\ f \in Nat /\ f = a + 1
                       /\ e = IF b < Len(mine) THEN b ELSE Len(mine)
                       /\ h = IF b < Len(c) THEN b ELSE Len(c)
    <3>1. a + 1 \in Nat
      OBVIOUS
    <3>2. QED
      BY ONLY <3>1
  <2>f. f \in Nat
    BY <2>a
  <2>3. p = SubSeq(mine, f, e) /\ q = SubSeq(c, f, h)
    BY <1>2, <1>3, <2>1, <2>2, <2>a
  <2>4. /\ p \in Seq(S) /\ q \in Seq(S) /\ Len(p) <= Len(q)
        /\ b > size => Len(p) < Len(q)
    <3>1. mine \in Seq(S) /\ Len(mine) = size
      BY <1>1
    <3>2. e \in Nat /\ e = IF b < size THEN b ELSE size
      BY <2>a, <3>1
    <3>3. p \in Seq(S) /\ Len(p) = IF f <= e THEN e - f + 1 ELSE 0
      BY ONLY <2>a, <2>3, <3>1, <3>2
    <3>4. h = b
      BY <2>1, <2>a
    <3>5. q = SubSeq(c, f, b)
      BY ONLY <2>3, <3>4
    <3>6. 1 <= f /\ f <= b /\ b <= Len(c) /\ size \in Nat
      BY <2>1, <2>a
    <3>7. q \in Seq(S) /\ Len(q) = b - f + 1
      BY ONLY c \in Seq(S), b \in Nat, <2>f, <3>5, <3>6
    <3>8. Len(p) <= Len(q) /\ (b > size => Len(p) < Len(q))
      BY ONLY b \in Nat, <2>f, <3>2, <3>3, <3>6, <3>7
    <3>9. QED
      BY <3>3, <3>7, <3>8
  <2>5. QED
    BY <2>1, <2>2, <2>4
<1>6. Len(ps) = n /\ Len(qs) = n
  <2>1. DOMAIN ps = 1..n /\ DOMAIN qs = 1..n
    BY <1>2, <1>3, Zenon
  <2>2. QED
    BY ONLY <2>1, n \in Nat
<1>7. PICK fp : Flattened(fp, ps, n) /\ FlattenSeq(ps) = fp[n]
    BY <1>6, FlattenIs
<1>8. PICK fq : Flattened(fq, qs, n) /\ FlattenSeq(qs) = fq[n]
    BY <1>6, FlattenIs
<1>9. Glued(fp, ps, n, S) /\ Glued(fq, qs, n, S)
  <2>1. SeqsOf(ps, n, S) /\ SeqsOf(qs, n, S)
    BY <1>5 DEF SeqsOf
  <2>2. QED
    BY <1>7, <1>8, <2>1, FlattenStep
<1> DEFINE Good == {i \in 0..n : i # 0 =>
                      /\ Len(fp[i]) <= Len(fq[i])
                      /\ (\E j \in 1..i : ranges[j][2] > size) => Len(fp[i]) < Len(fq[i])}
<1>10. 0 \in Good
    OBVIOUS
<1>11. ASSUME NEW i \in 0..(n - 1), i \in Good PROVE i + 1 \in Good
  <2>1. PICK k \in 1..n : k = i + 1
    OBVIOUS
  <2>2. PICK a \in Nat, b \in Nat : a = Len(ps[k]) /\ b = Len(qs[k])
    BY <1>5
  <2>3. a <= b /\ (ranges[k][2] > size => a < b)
    BY <1>5, <2>2
  <2>4. CASE i = 0
    <3>1. fp[k] = ps[k] /\ fq[k] = qs[k] /\ k = 1
      BY <1>9, <2>1, <2>4 DEF Glued
    <3>2. \A j \in 1..k : j = k
      BY <3>1
    <3>3. Len(fp[k]) <= Len(fq[k])
      BY <2>2, <2>3, <3>1
    <3>4. (\E j \in 1..k : ranges[j][2] > size) => Len(fp[k]) < Len(fq[k])
      BY <2>2, <2>3, <3>1, <3>2
    <3>5. QED
      BY <2>1, <3>3, <3>4
  <2>5. CASE i # 0
    <3>1. i \in 1..(n - 1) /\ i \in 1..n
      BY <2>5
    <3>2. PICK x \in Nat, y \in Nat : x = Len(fp[i]) /\ y = Len(fq[i])
      BY <1>9, <3>1 DEF Glued
    <3>3. x <= y /\ ((\E j \in 1..i : ranges[j][2] > size) => x < y)
      BY <1>11, <2>5, <3>2
    <3>4. Len(fp[k]) = x + a /\ Len(fq[k]) = y + b
      BY <1>9, <2>1, <2>2, <3>1, <3>2 DEF Glued
    <3>5. \A j \in 1..k : j \in 1..i \/ j = k
      BY <2>1
    <3>6. Len(fp[k]) <= Len(fq[k])
      BY <2>3, <3>3, <3>4
    <3>7. (\E j \in 1..k : ranges[j][2] > size) => Len(fp[k]) < Len(fq[k])
      <4>1. (\E j \in 1..k : ranges[j][2] > size) => x < y \/ a < b
        BY <2>3, <3>3, <3>5
      <4>2. QED
        BY <2>3, <3>3, <3>4, <4>1
    <3>8. QED
      BY <2>1, <3>6, <3>7
  <2>6. QED
    BY <2>4, <2>5
<1> HIDE DEF Good
<1>12. 0..n \subseteq Good
    BY <1>10, <1>11, Reaches
<1>13. n \in Good
    BY <1>12
<1>14. (\E j \in 1..n : ranges[j][2] > size) => Len(fp[n]) < Len(fq[n])
    BY <1>13 DEF Good
<1>15. fp[n] = fq[n] /\ Len(fp[n]) \in Nat
  <2>1. fp[n] = fq[n]
    BY ONLY <1>4, <1>7, <1>8
  <2>2. n \in 1..n
    OBVIOUS
  <2>3. Len(fp[n]) \in Nat
    BY ONLY <1>9, <2>2 DEF Glued
  <2>4. QED
    BY <2>1, <2>3
<1>16. \A j \in 1..n : ~(ranges[j][2] > size)
    BY <1>14, <1>15
<1>17. QED
    BY <1>16 DEF RangesIn

\* What a challenge may draw.
LEMMA RangesSound ==
    ASSUME NEW m \in Nat \ {0}, NEW r \in Ranges(m)
    PROVE  r[1] \in Nat /\ r[2] \in Nat /\ r[1] < r[2] /\ r[2] <= m
<1>1. PICK z \in RangeSizes : r \in LET n == Min({z, m}) IN
           {<<start, start + n>> : start \in IF m > n THEN 0..(m - n - 1) ELSE {0}}
    BY DEF Ranges
<1>2. PICK n : n = Min({z, m})
    OBVIOUS
<1>3. z \in Nat \ {0}
    BY FileCodingAssumption
<1>4. n \in Nat \ {0} /\ n <= m
  <2>1. \E x \in {z, m} : \A y \in {z, m} : x <= y
    BY <1>3
  <2>2. n \in {z, m} /\ \A y \in {z, m} : n <= y
    BY <1>2, <2>1 DEF Min
  <2>3. QED
    BY <1>3, <2>2
<1>5. PICK start \in IF m > n THEN 0..(m - n - 1) ELSE {0} : r = <<start, start + n>>
    BY <1>1, <1>2
<1>6. start \in Nat /\ start + n <= m
    BY <1>4, <1>5
<1>7. QED
    BY <1>4, <1>5, <1>6

-----------------------------------------------------------------------------
(* The invariant.                                                           *)

\* Bytes of a file are its positions; the first shard holds some of them.
FirstHolds == /\ stored[1].bytes \in Seq(Nat)
              /\ Len(stored[1].bytes) # 0

ProofInv ==
    /\ stored # <<>> => file # <<>> /\ FirstHolds
    /\ byte_ranges # <<>> => /\ stored # <<>> /\ NumRanges # 0
                             /\ DOMAIN byte_ranges = 1..NumRanges
                             /\ RangesIn(byte_ranges, NumRanges, Len(stored[1].bytes))
    /\ proof # NoProof => byte_ranges # <<>>
    /\ ProofBinds

LEMMA ProofInvInit == CodingInit => ProofInv
    BY DEF CodingInit, ProofInv, ProofBinds

LEMMA UploadBinds ==
    ASSUME ProofInv, NEW n \in FileSizes, Upload(n)
    PROVE  ProofInv'
<1>1. n \in Nat /\ n # 0
    BY FileCodingAssumption
<1>2. /\ file = <<>> /\ file' = [i \in 1..n |-> i] /\ stored' = chunk_file(file')
      /\ UNCHANGED <<byte_ranges, proof>>
    BY DEF Upload
<1>3. stored = <<>> /\ byte_ranges = <<>> /\ proof = NoProof
    BY <1>2 DEF ProofInv
<1>4. PICK f : f = file'
    OBVIOUS
<1>5. f \in Seq(Nat) /\ Len(f) = n /\ f # <<>>
  <2>1. f \in [1..n -> Nat]
    BY <1>1, <1>2, <1>4
  <2>2. QED
    BY <1>1, <2>1
<1>6. /\ chunk_file(f)[1].bytes \in Seq(Nat)
      /\ Len(chunk_file(f)[1].bytes) # 0
    BY <1>1, <1>5, FirstShard
<1>7. FirstHolds'
    BY <1>2, <1>4, <1>6 DEF FirstHolds
<1>8. ProofBinds'
    BY <1>2, <1>3 DEF ProofBinds
<1>9. QED
    BY <1>2, <1>3, <1>4, <1>5, <1>7, <1>8 DEF ProofInv

LEMMA GenerateBinds ==
    ASSUME ProofInv, stored # <<>>,
           NEW ranges \in [1..NumRanges -> Ranges(Len(stored[1].bytes))], generate(ranges)
    PROVE  ProofInv'
<1>1. /\ byte_ranges = <<>> /\ byte_ranges' = ranges
      /\ UNCHANGED <<file, stored, proof>>
    BY DEF generate
<1>2. proof = NoProof /\ FirstHolds /\ file # <<>>
    BY <1>1 DEF ProofInv
<1>3. PICK m \in Nat \ {0} : m = Len(stored[1].bytes)
    BY <1>2 DEF FirstHolds
<1>4. RangesIn(ranges, NumRanges, m)
  <2>1. ASSUME NEW i \in 1..NumRanges
        PROVE  /\ ranges[i][1] \in Nat /\ ranges[i][2] \in Nat
               /\ ranges[i][1] < ranges[i][2] /\ ranges[i][2] <= m
    <3>1. PICK r : r = ranges[i]
      OBVIOUS
    <3>2. r \in Ranges(m)
      BY <1>3, <3>1
    <3>3. r[1] \in Nat /\ r[2] \in Nat /\ r[1] < r[2] /\ r[2] <= m
      BY <3>2, RangesSound
    <3>4. QED
      BY <3>1, <3>3
  <2>2. QED
    BY <2>1 DEF RangesIn
<1>5. NumRanges = 0 => ranges = <<>>
    OBVIOUS
<1>6. QED
    BY <1>1, <1>2, <1>3, <1>4, <1>5 DEF ProofInv, FirstHolds, ProofBinds

LEMMA ProveBinds ==
    ASSUME ProofInv, NEW size \in 0..Len(stored[1].bytes), NEW late \in BOOLEAN, Prove(size, late)
    PROVE  ProofInv'
<1>1. PICK c : c = stored[1].bytes
    OBVIOUS
<1>2. /\ byte_ranges # <<>> /\ UNCHANGED <<file, stored, byte_ranges>>
      /\ proof' = [size |-> size, late |-> late,
                   accepted |-> ~late /\ compute_proof_hash(SubSeq(c, 1, size), byte_ranges)
                                           = compute_proof_hash(c, byte_ranges)]
    BY <1>1 DEF Prove
<1>3. /\ stored # <<>> /\ c \in Seq(Nat) /\ NumRanges # 0 /\ DOMAIN byte_ranges = 1..NumRanges
      /\ RangesIn(byte_ranges, NumRanges, Len(c))
    BY <1>1, <1>2 DEF ProofInv, FirstHolds
<1>4. ASSUME proof'.accepted
      PROVE  ~proof'.late /\ \A i \in DOMAIN byte_ranges' : byte_ranges'[i][2] <= proof'.size
  <2>1. /\ ~late /\ proof'.late = late /\ proof'.size = size
        /\ compute_proof_hash(SubSeq(c, 1, size), byte_ranges) = compute_proof_hash(c, byte_ranges)
    BY <1>2, <1>4
  <2>2. NumRanges \in Nat
    BY FileCodingAssumption
  <2>3. \A i \in 1..NumRanges : byte_ranges[i][2] <= size
    BY <1>1, <1>3, <2>1, <2>2, EqualAnswers
  <2>4. QED
    BY <1>2, <1>3, <2>1, <2>3
<1>5. ProofBinds'
    BY <1>4 DEF ProofBinds
<1>6. QED
    BY <1>2, <1>5 DEF ProofInv, FirstHolds

\* A holder's proof is accepted only in time and from a copy that reaches to the end
\* of every challenged range, for any chunk, file and challenge sizes.
THEOREM ProofAlwaysBinds == CodingSpec => []ProofBinds
<1>1. CodingInit => ProofInv
    BY ProofInvInit
<1>2. ProofInv /\ [CodingNext]_codingVars => ProofInv'
  <2> SUFFICES ASSUME ProofInv, [CodingNext]_codingVars PROVE ProofInv'
    OBVIOUS
  <2>1. ASSUME NEW n \in FileSizes, Upload(n) PROVE ProofInv'
    BY <2>1, UploadBinds
  <2>2. ASSUME NEW g \in Groups, NEW kept \in SUBSET (1..(RS_DATA_SHARDS + RS_PARITY_SHARDS)),
               Reconstruct(g, kept)
        PROVE  ProofInv'
    BY <2>2 DEF Reconstruct, ProofInv, FirstHolds, ProofBinds
  <2>3. ASSUME stored # <<>>,
               NEW ranges \in [1..NumRanges -> Ranges(Len(stored[1].bytes))], generate(ranges)
        PROVE  ProofInv'
    BY <2>3, GenerateBinds
  <2>4. ASSUME NEW size \in 0..Len(stored[1].bytes), NEW late \in BOOLEAN, Prove(size, late)
        PROVE  ProofInv'
    BY <2>4, ProveBinds
  <2>5. CASE UNCHANGED codingVars
    BY <2>5 DEF codingVars, ProofInv, FirstHolds, ProofBinds
  <2>6. QED
    BY <2>1, <2>2, <2>3, <2>4, <2>5 DEF CodingNext
<1>3. ProofInv => ProofBinds
    BY DEF ProofInv
<1>4. QED
    BY <1>1, <1>2, <1>3, PTL DEF CodingSpec

-----------------------------------------------------------------------------
(* Where the shards of a file stand.                                        *)

\* The shards before those of group g: all groups but the last are full.
Width == RS_DATA_SHARDS + RS_PARITY_SHARDS
Base(g) == (g - 1) * Width

LEMMA CodingConstants ==
    /\ CHUNK_SIZE \in Nat /\ CHUNK_SIZE # 0
    /\ RS_DATA_SHARDS \in Nat /\ RS_DATA_SHARDS # 0
    /\ RS_PARITY_SHARDS \in Nat /\ Width \in Nat /\ Width # 0
    BY FileCodingAssumption DEF Width

LEMMA BaseFirst == Base(1) = 0
    BY CodingConstants DEF Base

LEMMA BaseNext ==
    ASSUME NEW g \in Nat \ {0}
    PROVE  Base(g) \in Nat /\ Base(g + 1) = Base(g) + Width
    BY CodingConstants DEF Base

LEMMA BaseBefore ==
    ASSUME NEW g \in Nat \ {0}, NEW h \in Nat \ {0}, g < h
    PROVE  Base(g) + Width <= Base(h)
<1>1. PICK w \in Nat, a \in Nat, b \in Nat : w = Width /\ a = g - 1 /\ b = h - 1
    BY CodingConstants
<1>2. a + 1 <= b /\ Base(g) = a * w /\ Base(h) = b * w
    BY <1>1 DEF Base
<1>3. (a + 1) * w <= b * w /\ (a + 1) * w = a * w + w
    BY <1>2
<1>4. QED
    BY <1>1, <1>2, <1>3

DataAt(s, groups, g) == \A i \in 1..Len(groups[g]) : s[Base(g) + i] = DataShard(groups, g, i)
ParityAt(s, groups, g) ==
    \A p \in 1..RS_PARITY_SHARDS :
        s[Base(g) + Len(groups[g]) + p] = ParityShard(groups, g, p)

\* k is a place of group g.
PlaceOf(k, groups, g) ==
    \E r \in 1..(Len(groups[g]) + RS_PARITY_SHARDS) : k = Base(g) + r

\* The shards of the first n groups.
Laid(s, groups, n) ==
    /\ Len(s) = Base(n) + (Len(groups[n]) + RS_PARITY_SHARDS)
    /\ \A g \in 1..n : DataAt(s, groups, g) /\ ParityAt(s, groups, g)
    /\ \A k \in 1..Len(s) : \E g \in 1..n : PlaceOf(k, groups, g)

\* Of m pieces, all but the last have the full size n.
FullBut(p, m, n) ==
    /\ \A k \in 1..m : Len(p[k]) \in Nat /\ Len(p[k]) \in 1..n
    /\ \A k \in 1..(m - 1) : Len(p[k]) = n

\* sh has the shards of group g, and t is s and then sh.
ShardsOf(sh, groups, g) ==
    /\ Len(sh) = Len(groups[g]) + RS_PARITY_SHARDS
    /\ \A i \in 1..Len(groups[g]) : sh[i] = DataShard(groups, g, i)
    /\ \A p \in 1..RS_PARITY_SHARDS : sh[Len(groups[g]) + p] = ParityShard(groups, g, p)

Joined(t, s, sh) ==
    /\ Len(t) = Len(s) + Len(sh)
    /\ \A j \in 1..Len(s) : t[j] = s[j]
    /\ \A j \in 1..Len(sh) : t[Len(s) + j] = sh[j]

\* One group.
LEMMA LaidFirst ==
    ASSUME NEW groups, Len(groups[1]) \in Nat, NEW s, ShardsOf(s, groups, 1)
    PROVE  Laid(s, groups, 1)
<1>0. /\ Len(s) = Len(groups[1]) + RS_PARITY_SHARDS
      /\ \A i \in 1..Len(groups[1]) : s[i] = DataShard(groups, 1, i)
      /\ \A p \in 1..RS_PARITY_SHARDS :
           s[Len(groups[1]) + p] = ParityShard(groups, 1, p)
    BY DEF ShardsOf
<1>1. PICK m \in Nat, P \in Nat : m = Len(groups[1]) /\ P = RS_PARITY_SHARDS
    BY CodingConstants
<1>2. Base(1) = 0 /\ \A k \in Nat : 0 + k = k
    BY BaseFirst
<1>3. \A g \in 1..1 : g = 1
    OBVIOUS
<1>4. DataAt(s, groups, 1)
  <2>1. \A i \in 1..m : 0 + i = i
    OBVIOUS
  <2>2. QED
    BY <1>0, <1>1, <1>2, <2>1 DEF DataAt
<1>5. ParityAt(s, groups, 1)
  <2>1. \A p \in 1..P : (0 + m) + p = m + p
    OBVIOUS
  <2>2. QED
    BY <1>0, <1>1, <1>2, <2>1 DEF ParityAt
<1>6. \A k \in 1..(m + P) : PlaceOf(k, groups, 1)
  <2>1. \A k \in 1..(m + P) : k = 0 + k
    OBVIOUS
  <2>2. QED
    BY <1>1, <1>2, <2>1 DEF PlaceOf
<1>7. Len(s) = m + P /\ Len(s) = Base(1) + (Len(groups[1]) + RS_PARITY_SHARDS)
    BY <1>0, <1>1, <1>2
<1>8. QED
    BY <1>3, <1>4, <1>5, <1>6, <1>7 DEF Laid

\* One more group.
LEMMA LaidNext ==
    ASSUME NEW groups, NEW n \in Nat \ {0}, NEW k, k = n + 1,
           FullBut(groups, k, RS_DATA_SHARDS),
           NEW s, Len(s) \in Nat, Laid(s, groups, n),
           NEW sh, ShardsOf(sh, groups, k), NEW t, Joined(t, s, sh)
    PROVE  Laid(t, groups, k)
<1>1. PICK P \in Nat, D \in Nat : P = RS_PARITY_SHARDS /\ D = RS_DATA_SHARDS
    BY CodingConstants
<1>k. k \in Nat \ {0} /\ n \in 1..(k - 1) /\ k \in 1..k
    OBVIOUS
<1>2. PICK m \in Nat, L \in Nat : m = Len(groups[k]) /\ L = Len(s)
    BY <1>k DEF FullBut
<1>3. Len(groups[n]) = D
    BY <1>1, <1>k DEF FullBut
<1>4. Base(n) \in Nat /\ Base(k) = Base(n) + (D + P) /\ Base(k) \in Nat
    BY <1>1, <1>k, BaseNext DEF Width
<1>5. L = Base(k)
    BY <1>1, <1>2, <1>3, <1>4 DEF Laid
<1>6. /\ Len(sh) = m + P /\ Len(t) = L + (m + P)
      /\ \A j \in 1..L : t[j] = s[j]
      /\ \A j \in 1..(m + P) : t[L + j] = sh[j]
    BY <1>1, <1>2 DEF ShardsOf, Joined
<1>7. \A i \in 1..m : t[L + i] = DataShard(groups, k, i)
  <2>1. ASSUME NEW i \in 1..m PROVE t[L + i] = DataShard(groups, k, i)
    <3>1. i \in 1..(m + P)
      OBVIOUS
    <3>2. QED
      BY <1>1, <1>2, <1>6, <3>1 DEF ShardsOf
  <2>2. QED
    BY <2>1
<1>8. \A p \in 1..P : t[(L + m) + p] = ParityShard(groups, k, p)
  <2>1. ASSUME NEW p \in 1..P PROVE t[(L + m) + p] = ParityShard(groups, k, p)
    <3>1. m + p \in 1..(m + P) /\ (L + m) + p = L + (m + p)
      OBVIOUS
    <3>2. t[L + (m + p)] = sh[m + p]
      BY <1>6, <3>1
    <3>3. sh[m + p] = ParityShard(groups, k, p)
      BY <1>1, <1>2 DEF ShardsOf
    <3>4. QED
      BY ONLY <3>1, <3>2, <3>3
  <2>2. QED
    BY <2>1
<1>9. DataAt(t, groups, k) /\ ParityAt(t, groups, k)
    BY <1>1, <1>2, <1>5, <1>7, <1>8 DEF DataAt, ParityAt
<1>10. ASSUME NEW g \in 1..n PROVE DataAt(t, groups, g) /\ ParityAt(t, groups, g)
  <2>1. PICK a \in Nat, b \in Nat : a = Len(groups[g]) /\ b = Base(g)
    <3>1. g \in Nat \ {0} /\ g \in 1..k
      OBVIOUS
    <3>2. Base(g) \in Nat
      BY <3>1, BaseNext
    <3>3. Len(groups[g]) \in Nat
      BY <3>1 DEF FullBut
    <3>4. QED
      BY <3>2, <3>3
  <2>2. a <= D /\ b + (D + P) <= L
    <3>1. g \in Nat \ {0} /\ g < k /\ g \in 1..k
      OBVIOUS
    <3>2. Base(g) + (D + P) <= Base(k)
      BY <1>1, <1>k, <3>1, BaseBefore DEF Width
    <3>3. a <= D
      BY <1>1, <2>1, <3>1 DEF FullBut
    <3>4. QED
      BY <1>5, <2>1, <3>2, <3>3
  <2>3. DataAt(s, groups, g) /\ ParityAt(s, groups, g)
    BY DEF Laid
  <2>4. \A i \in 1..a : b + i \in 1..L
    BY <2>2
  <2>5. \A p \in 1..P : (b + a) + p \in 1..L
    BY <2>2
  <2>6. DataAt(t, groups, g)
    BY <1>6, <2>1, <2>3, <2>4 DEF DataAt
  <2>7. ParityAt(t, groups, g)
    BY <1>1, <1>6, <2>1, <2>3, <2>5 DEF ParityAt
  <2>8. QED
    BY <2>6, <2>7
<1>11. ASSUME NEW j \in 1..Len(t) PROVE \E g \in 1..k : PlaceOf(j, groups, g)
  <2>1. CASE j <= L
    <3>1. PICK g \in 1..n : PlaceOf(j, groups, g)
      BY <1>2, <1>6, <2>1 DEF Laid
    <3>2. QED
      BY <1>1, <3>1
  <2>2. CASE j > L
    <3>1. j - L \in 1..(m + P) /\ j = Base(k) + (j - L)
      BY <1>5, <1>6, <2>2
    <3>2. PlaceOf(j, groups, k)
      BY <1>1, <1>2, <3>1 DEF PlaceOf
    <3>3. QED
      BY <1>1, <3>2
  <2>3. QED
    BY <1>6, <2>1, <2>2
<1>12. Len(t) = Base(k) + (Len(groups[k]) + RS_PARITY_SHARDS)
    BY <1>1, <1>2, <1>5, <1>6
<1>13. \A g \in 1..k : g = k \/ g \in 1..n
    BY <1>1
<1>14. Laid(t, groups, k)
    BY <1>9, <1>10, <1>11, <1>12, <1>13 DEF Laid
<1>15. QED
    BY <1>14

\* All pieces but the last have the full size.
LEMMA PiecesFull ==
    ASSUME NEW S, NEW s, Len(s) \in Nat, NEW n \in Nat \ {0}, NEW p, Cut(p, s, n, S)
    PROVE  FullBut(p, Len(p), n)
<1>1. Len(p) \in Nat
    BY DEF Cut
<1>2. ASSUME NEW k \in 1..Len(p) PROVE Len(p[k]) \in Nat /\ Len(p[k]) \in 1..n
  <2>1. Len(p[k]) \in 1..n
    BY Zenon DEF Cut
  <2>2. QED
    BY ONLY <2>1, n \in Nat \ {0}
<1>3. ASSUME NEW k \in 1..(Len(p) - 1) PROVE Len(p[k]) = n
  <2>1. k \in 1..Len(p) /\ k # Len(p)
    BY <1>1
  <2>2. /\ (k - 1) * n \in Nat /\ k * n \in Nat /\ k * n = (k - 1) * n + n
        /\ k * n < Len(s)
    BY <2>1 DEF Cut, Bounds
  <2>3. Len(p[k]) = (IF k * n < Len(s) THEN k * n ELSE Len(s)) - (k - 1) * n
    BY <2>1 DEF Cut
  <2>4. PICK a \in Nat, b \in Nat : a = k * n /\ b = (k - 1) * n
    BY <2>2
  <2>5. a = b + n /\ Len(p[k]) = a - b
    BY ONLY <2>2, <2>3, <2>4
  <2>6. QED
    BY <2>5
<1>4. QED
    BY <1>1, <1>2, <1>3 DEF FullBut

\* A file f, its chunks, their groups, and the shards s that are stored.
Coded(f, chunks, groups, s, S) ==
    /\ Cut(chunks, f, CHUNK_SIZE, S) /\ Len(chunks) # 0
    /\ Cut(groups, chunks, RS_DATA_SHARDS, Seq(S)) /\ Len(groups) # 0
    /\ FullBut(groups, Len(groups), RS_DATA_SHARDS)
    /\ Laid(s, groups, Len(groups))
    /\ s \in Seq(ShardsIn(groups))

LEMMA FileCoded ==
    ASSUME NEW S, NEW f \in Seq(S), Len(f) # 0
    PROVE  \E chunks, groups : Coded(f, chunks, groups, chunk_file(f), S)
<1>1. PICK chunks, groups, seqs, fl : ShardedFile(f, chunks, groups, seqs, fl, S)
    BY ChunkFileIs
<1>2. /\ Cut(chunks, f, CHUNK_SIZE, S) /\ Len(chunks) # 0
      /\ Cut(groups, chunks, RS_DATA_SHARDS, Seq(S)) /\ Len(groups) # 0
      /\ seqs = [g \in 1..Len(groups) |-> Shards(groups, g)]
      /\ Glued(fl, seqs, Len(groups), ShardsIn(groups))
      /\ chunk_file(f) = fl[Len(groups)]
    BY <1>1 DEF ShardedFile
<1>3. PICK n \in Nat : n = Len(groups) /\ n # 0 /\ DOMAIN groups = 1..n
    BY <1>2 DEF Cut
<1>4. PICK T : T = ShardsIn(groups)
    OBVIOUS
<1>5. FullBut(groups, n, RS_DATA_SHARDS)
  <2>1. Len(chunks) \in Nat /\ RS_DATA_SHARDS \in Nat \ {0}
    BY <1>2, CodingConstants DEF Cut
  <2>2. PICK U : U = Seq(S)
    OBVIOUS
  <2>3. Cut(groups, chunks, RS_DATA_SHARDS, U)
    BY <1>2, <2>2
  <2>4. QED
    BY ONLY <1>3, <2>1, <2>3, PiecesFull
<1>6. /\ fl[1] = seqs[1]
      /\ \A i \in 1..n : fl[i] \in Seq(T) /\ Len(fl[i]) \in Nat
      /\ \A i \in 1..(n - 1) : /\ Len(fl[i + 1]) = Len(fl[i]) + Len(seqs[i + 1])
                               /\ \A j \in 1..Len(fl[i]) : fl[i + 1][j] = fl[i][j]
                               /\ \A j \in 1..Len(seqs[i + 1]) :
                                     fl[i + 1][Len(fl[i]) + j] = seqs[i + 1][j]
    BY <1>2, <1>3, <1>4 DEF Glued
<1>7. ASSUME NEW g \in 1..n
      PROVE  ShardsOf(seqs[g], groups, g)
  <2>1. PICK sh, U : sh = Shards(groups, g) /\ U = Seq(S)
    OBVIOUS
  <2>2. seqs[g] = sh
    BY <1>2, <1>3, <2>1
  <2>3. groups[g] \in Seq(U) /\ g \in DOMAIN groups
    BY <1>2, <1>3, <2>1 DEF Cut
  <2>4. /\ Len(sh) = Len(groups[g]) + RS_PARITY_SHARDS
        /\ \A i \in 1..Len(groups[g]) : sh[i] = DataShard(groups, g, i)
        /\ \A p \in 1..RS_PARITY_SHARDS : sh[Len(groups[g]) + p] = ParityShard(groups, g, p)
    BY <2>1, <2>3, ShardsAre
  <2>5. QED
    BY ONLY <2>2, <2>4 DEF ShardsOf
<1> DEFINE Good == {i \in 0..n : i # 0 => Laid(fl[i], groups, i)}
<1>8. 0 \in Good
    OBVIOUS
<1>9. ASSUME NEW i \in 0..(n - 1), i \in Good PROVE i + 1 \in Good
  <2>0. PICK k \in 1..n : k = i + 1
    OBVIOUS
  <2>1. CASE i = 0
    <3>1. k = 1 /\ 1 \in 1..n /\ fl[k] = seqs[1]
      BY <1>6, <2>0, <2>1
    <3>2. Laid(seqs[1], groups, 1)
      <4>1. Len(groups[1]) \in Nat
        BY <1>5, <3>1 DEF FullBut
      <4>2. ShardsOf(seqs[1], groups, 1)
        BY <1>7, <3>1
      <4>3. QED
        BY ONLY <4>1, <4>2, LaidFirst
    <3>3. QED
      BY <2>0, <3>1, <3>2
  <2>2. CASE i # 0
    <3>1. i \in Nat \ {0} /\ i \in 1..(n - 1) /\ i \in 1..n
      BY <2>2
    <3>2. PICK s, sh, t : s = fl[i] /\ sh = seqs[k] /\ t = fl[k]
      OBVIOUS
    <3>3. Len(s) \in Nat /\ Laid(s, groups, i)
      BY <1>6, <1>9, <3>1, <3>2
    <3>4. Joined(t, s, sh)
      BY <1>6, <2>0, <3>1, <3>2 DEF Joined
    <3>5. ShardsOf(sh, groups, k)
      BY <1>7, <3>2
    <3>6. FullBut(groups, k, RS_DATA_SHARDS)
      BY <1>5, <2>0, <3>1 DEF FullBut
    <3>7. Laid(t, groups, k)
      BY ONLY <2>0, <3>1, <3>3, <3>4, <3>5, <3>6, LaidNext
    <3>8. QED
      BY <2>0, <3>2, <3>7
  <2>3. QED
    BY <2>1, <2>2
<1> HIDE DEF Good
<1>10. 0..n \subseteq Good
    BY <1>8, <1>9, Reaches
<1>11. Laid(fl[n], groups, n)
    BY <1>3, <1>10 DEF Good
<1>12. fl[n] \in Seq(ShardsIn(groups))
    BY <1>3, <1>4, <1>6
<1>13. Coded(f, chunks, groups, chunk_file(f), S)
    BY <1>2, <1>3, <1>5, <1>11, <1>12 DEF Coded
<1>14. QED
    BY <1>13

-----------------------------------------------------------------------------
(* The order in which a file is put together.                               *)

Left(refs, o, k) == {i \in DataRefs(refs) : k = 1 \/ Before(refs, o[k - 1], i)}

FirstOf(refs, left) == CHOOSE i \in left : \A j \in left : j = i \/ Before(refs, i, j)

Ordered(o, refs, n) == o = [k \in 1..n |-> FirstOf(refs, Left(refs, o, k))]

\* The data chunks stand at the places at[1], at[2], ..., at[n], in this order.
Lined(at, refs, n) ==
    /\ DataRefs(refs) = {at[c] : c \in 1..n}
    /\ Cardinality(DataRefs(refs)) = n
    /\ \A c, d \in 1..n : Before(refs, at[c], at[d]) <=> c < d

LEMMA NextIs ==
    ASSUME NEW refs, NEW n \in Nat, NEW at, Lined(at, refs, n),
           NEW o, NEW k \in 1..n, k # 1 => o[k - 1] = at[k - 1]
    PROVE  FirstOf(refs, Left(refs, o, k)) = at[k]
<1>1. PICK left : left = Left(refs, o, k)
    OBVIOUS
<1>2. \A c \in 1..n : c >= k => at[c] \in left
  <2>1. ASSUME NEW c \in 1..n, c >= k PROVE at[c] \in left
    <3>1. at[c] \in DataRefs(refs)
      BY DEF Lined
    <3>2. k # 1 => Before(refs, o[k - 1], at[c])
      <4>1. SUFFICES ASSUME k # 1 PROVE Before(refs, o[k - 1], at[c])
        OBVIOUS
      <4>2. PICK d \in 1..n : d = k - 1
        BY <4>1
      <4>3. d < c /\ o[k - 1] = at[d]
        BY <2>1, <4>1, <4>2
      <4>4. Before(refs, at[d], at[c])
        BY <4>3 DEF Lined
      <4>5. QED
        BY <4>3, <4>4
    <3>3. QED
      BY <1>1, <3>1, <3>2 DEF Left
  <2>2. QED
    BY <2>1
<1>3. ASSUME NEW x \in left PROVE \E c \in 1..n : c >= k /\ x = at[c]
  <2>1. x \in DataRefs(refs) /\ (k = 1 \/ Before(refs, o[k - 1], x))
    BY <1>1 DEF Left
  <2>2. PICK c \in 1..n : x = at[c]
    BY <2>1 DEF Lined
  <2>3. CASE k = 1
    BY <2>2, <2>3
  <2>4. CASE k # 1
    <3>1. PICK d \in 1..n : d = k - 1
      BY <2>4
    <3>2. Before(refs, at[d], at[c])
      BY <2>1, <2>2, <2>4, <3>1
    <3>3. d < c
      BY <3>2 DEF Lined
    <3>4. QED
      BY <2>2, <3>1, <3>3
  <2>5. QED
    BY <2>3, <2>4
<1>4. at[k] \in left /\ \A j \in left : j = at[k] \/ Before(refs, at[k], j)
  <2>1. at[k] \in left
    BY <1>2
  <2>2. ASSUME NEW j \in left PROVE j = at[k] \/ Before(refs, at[k], j)
    <3>1. PICK c \in 1..n : c >= k /\ j = at[c]
      BY <1>3
    <3>2. CASE c = k
      BY <3>1, <3>2
    <3>3. CASE c # k
      <4>1. k < c
        BY <3>1, <3>3
      <4>2. Before(refs, at[k], at[c])
        BY <4>1 DEF Lined
      <4>3. QED
        BY <3>1, <4>2
    <3>4. QED
      BY <3>2, <3>3
  <2>3. QED
    BY <2>1, <2>2
<1>5. ASSUME NEW x \in left, \A j \in left : j = x \/ Before(refs, x, j)
      PROVE  x = at[k]
  <2>1. PICK c \in 1..n : c >= k /\ x = at[c]
    BY <1>3
  <2>2. at[k] = x \/ Before(refs, at[c], at[k])
    BY <1>4, <1>5, <2>1
  <2>3. ~(c < k)
    BY <2>1
  <2>4. ~Before(refs, at[c], at[k])
    BY <2>3 DEF Lined
  <2>5. QED
    BY <2>2, <2>4
<1>6. PICK x : x = FirstOf(refs, left)
    OBVIOUS
<1>7. x \in left /\ \A j \in left : j = x \/ Before(refs, x, j)
    BY <1>4, <1>6 DEF FirstOf
<1>8. QED
    BY <1>1, <1>5, <1>6, <1>7

\* sort_by_key gives them in this order.
LEMMA ByIndexIs ==
    ASSUME NEW refs, NEW n \in Nat, NEW at, Lined(at, refs, n)
    PROVE  DOMAIN ByIndex(refs) = 1..n /\ \A k \in 1..n : ByIndex(refs)[k] = at[k]
<1>1. PICK a : a = [k \in 1..n |-> at[k]]
    OBVIOUS
<1>2. Ordered(a, refs, n)
  <2>1. ASSUME NEW k \in 1..n PROVE at[k] = FirstOf(refs, Left(refs, a, k))
    <3>1. k # 1 => a[k - 1] = at[k - 1]
      <4>1. k # 1 => k - 1 \in 1..n
        OBVIOUS
      <4>2. QED
        BY <1>1, <4>1
    <3>2. QED
      BY <3>1, NextIs
  <2>2. a = [k \in 1..n |-> FirstOf(refs, Left(refs, a, k))]
    BY <1>1, <2>1
  <2>3. QED
    BY <2>2 DEF Ordered
<1> DEFINE F == CHOOSE o : o = [k \in 1..n |-> FirstOf(refs, Left(refs, o, k))]
<1>3. Ordered(F, refs, n)
    BY <1>2 DEF Ordered
<1>4. ByIndex(refs) = F
    BY DEF ByIndex, Left, FirstOf, Lined
<1>5. PICK o : o = ByIndex(refs)
    OBVIOUS
<1>6. Ordered(o, refs, n)
    BY <1>3, <1>4, <1>5
<1> HIDE DEF F
<1>7. DOMAIN o = 1..n
    BY <1>6, Zenon DEF Ordered
<1>8. \A k \in 1..n : o[k] = FirstOf(refs, Left(refs, o, k))
    BY <1>6 DEF Ordered
<1> DEFINE Good == {i \in 0..n : i # 0 => o[i] = at[i]}
<1>9. 0 \in Good
    OBVIOUS
<1>10. ASSUME NEW i \in 0..(n - 1), i \in Good PROVE i + 1 \in Good
  <2>1. PICK k \in 1..n : k = i + 1 /\ i = k - 1
    OBVIOUS
  <2>2. k # 1 => o[k - 1] = at[k - 1]
    BY <1>10, <2>1
  <2>3. FirstOf(refs, Left(refs, o, k)) = at[k]
    BY <2>2, NextIs
  <2>4. QED
    BY <1>8, <2>1, <2>3
<1> HIDE DEF Good
<1>11. 0..n \subseteq Good
    BY <1>9, <1>10, Reaches
<1>12. ASSUME NEW k \in 1..n PROVE o[k] = at[k]
  <2>1. k \in Good /\ k # 0
    BY <1>11
  <2>2. QED
    BY <2>1 DEF Good
<1>13. QED
    BY <1>5, <1>7, <1>12

-----------------------------------------------------------------------------
(* The places of the chunks.                                                *)

\* The chunks before those of group g, and where chunk c is stored.
Off(g) == (g - 1) * RS_DATA_SHARDS
Place(c) == c + ((c - 1) \div RS_DATA_SHARDS) * RS_PARITY_SHARDS

LEMMA PlaceUp ==
    ASSUME NEW c \in Nat \ {0}, NEW d \in Nat \ {0}, c < d
    PROVE  Place(c) \in Nat /\ Place(d) \in Nat /\ Place(c) < Place(d)
<1>1. PICK D \in Nat \ {0}, P \in Nat : D = RS_DATA_SHARDS /\ P = RS_PARITY_SHARDS
    BY CodingConstants
<1>2. PICK u \in Nat, v \in Nat : u = c - 1 /\ v = d - 1 /\ u < v
    OBVIOUS
<1>3. PICK x \in Int, y \in Int : x = u \div D /\ y = v \div D
    OBVIOUS
<1>4. x \in Nat /\ D * x <= u /\ u < D * x + D
    BY <1>3
<1>5. y \in Nat /\ D * y <= v /\ v < D * y + D
    BY <1>3
<1>6. x <= y
  <2>1. SUFFICES ASSUME y + 1 <= x PROVE FALSE
    BY <1>4, <1>5
  <2>2. D * (y + 1) <= D * x /\ D * (y + 1) = D * y + D
    BY <1>4, <1>5, <2>1
  <2>3. QED
    BY <1>2, <1>4, <1>5, <2>2
<1>7. x * P \in Nat /\ y * P \in Nat /\ x * P <= y * P
    BY <1>4, <1>5, <1>6
<1>8. Place(c) = c + x * P /\ Place(d) = d + y * P
    BY <1>1, <1>2, <1>3 DEF Place
<1>9. QED
    BY <1>7, <1>8

LEMMA PlaceIs ==
    ASSUME NEW g \in Nat \ {0}, NEW i \in 1..RS_DATA_SHARDS
    PROVE  Off(g) \in Nat /\ Place(Off(g) + i) = Base(g) + i
<1>1. PICK D \in Nat \ {0}, P \in Nat : D = RS_DATA_SHARDS /\ P = RS_PARITY_SHARDS
    BY CodingConstants
<1>2. PICK a \in Nat, r \in Nat : a = g - 1 /\ r = i - 1 /\ r < D
    BY <1>1
<1>3. Off(g) = a * D /\ a * D \in Nat
    BY <1>1, <1>2 DEF Off
<1>4. PICK q \in Int, z \in Nat : z = a * D + r /\ q = z \div D
    BY <1>3
<1>5. q \in Nat /\ D * q <= z /\ z < D * q + D
    BY <1>4
<1>6. q <= a
  <2>1. SUFFICES ASSUME a + 1 <= q PROVE FALSE
    BY <1>5
  <2>2. D * (a + 1) <= D * q /\ D * (a + 1) = a * D + D
    BY <1>5, <2>1
  <2>3. QED
    BY <1>2, <1>3, <1>4, <1>5, <2>2
<1>7. a <= q
  <2>1. SUFFICES ASSUME q + 1 <= a PROVE FALSE
    BY <1>5
  <2>2. D * (q + 1) <= D * a /\ D * (q + 1) = D * q + D /\ D * a = a * D
    BY <1>5, <2>1
  <2>3. QED
    BY <1>2, <1>3, <1>4, <1>5, <2>2
<1>8. q = a
    BY <1>5, <1>6, <1>7
<1>9. (Off(g) + i) - 1 = z
    BY <1>2, <1>3, <1>4
<1>10. Place(Off(g) + i) = (a * D + i) + a * P
    BY <1>1, <1>3, <1>4, <1>8, <1>9 DEF Place
<1>11. Base(g) = a * D + a * P
    BY <1>1, <1>2 DEF Base, Width
<1>12. a * P \in Nat
    OBVIOUS
<1>13. QED
    BY <1>3, <1>10, <1>11, <1>12

\* The chunks of the groups are those of the file.
Grouped(chunks, groups, C, n) ==
    /\ \A g \in 1..n : \A i \in 1..Len(groups[g]) :
         /\ Off(g) + i \in 1..C /\ groups[g][i] = chunks[Off(g) + i]
    /\ \A c \in 1..C : \E g \in 1..n : \E i \in 1..Len(groups[g]) : c = Off(g) + i

LEMMA GroupsAre ==
    ASSUME NEW S, NEW chunks, NEW groups, Len(chunks) \in Nat,
           Cut(groups, chunks, RS_DATA_SHARDS, S)
    PROVE  Grouped(chunks, groups, Len(chunks), Len(groups))
<1>1. PICK D \in Nat \ {0}, C \in Nat : D = RS_DATA_SHARDS /\ C = Len(chunks)
    BY CodingConstants
<1>2. PICK n \in Nat : n = Len(groups)
    BY DEF Cut
<1>3. /\ C <= n * D
      /\ \A k \in 1..n : (k - 1) * D \in Nat /\ k * D \in Nat /\ k * D = (k - 1) * D + D
    BY <1>1, <1>2 DEF Cut, Bounds
<1>4. ASSUME NEW g \in 1..n
      PROVE  /\ Off(g) \in Nat
             /\ Len(groups[g]) = (IF Off(g) + D < C THEN Off(g) + D ELSE C) - Off(g)
             /\ \A j \in 1..Len(groups[g]) : groups[g][j] = chunks[Off(g) + j]
  <2>1. Off(g) = (g - 1) * D
    BY <1>1 DEF Off
  <2>2. /\ Len(groups[g]) = (IF g * D < C THEN g * D ELSE C) - (g - 1) * D
        /\ \A j \in 1..Len(groups[g]) : groups[g][j] = chunks[(g - 1) * D + j]
    BY <1>1, <1>2 DEF Cut
  <2>3. (g - 1) * D \in Nat /\ g * D = (g - 1) * D + D
    BY <1>3
  <2>4. QED
    BY ONLY <2>1, <2>2, <2>3
<1>5. ASSUME NEW g \in 1..n, NEW i \in 1..Len(groups[g])
      PROVE  Off(g) + i \in 1..C /\ groups[g][i] = chunks[Off(g) + i]
  <2>0. PICK o \in Nat : o = Off(g)
    BY <1>4
  <2>1. PICK m \in Int : o = Off(g) /\ m = Len(groups[g])
    BY <1>4, <2>0
  <2>2. m = (IF o + D < C THEN o + D ELSE C) - o /\ i \in 1..m
    BY <1>4, <2>1
  <2>3. o + i \in 1..C
    BY <2>2
  <2>4. QED
    BY <1>4, <2>1, <2>3
<1>6. ASSUME NEW c \in 1..C
      PROVE  \E g \in 1..n : \E i \in 1..Len(groups[g]) : c = Off(g) + i
  <2>0. PICK u \in Nat : u = c - 1
    OBVIOUS
  <2>1. PICK q \in Int : u = c - 1 /\ q = u \div D
    BY <2>0
  <2>2. q \in Nat /\ D * q <= u /\ u < D * q + D
    BY <2>1
  <2>3. q + 1 <= n
    <3>1. SUFFICES ASSUME n <= q PROVE FALSE
      BY <2>2
    <3>2. D * n <= D * q /\ D * n = n * D
      BY <2>2, <3>1
    <3>3. QED
      BY <1>3, <2>1, <2>2, <3>2
  <2>4. PICK g \in 1..n : g = q + 1
    BY <2>2, <2>3
  <2>5. Off(g) = D * q
    BY <1>1, <2>2, <2>4 DEF Off
  <2>6. PICK o \in Nat, m \in Int, i \in Nat : o = Off(g) /\ m = Len(groups[g]) /\ i = c - o
    BY <1>4, <2>1, <2>2, <2>5
  <2>7. m = (IF o + D < C THEN o + D ELSE C) - o
    BY <1>4, <2>6
  <2>8. o <= u /\ u < o + D
    BY <2>2, <2>5, <2>6
  <2>9. i \in 1..m /\ c = o + i
    BY ONLY C \in Nat, D \in Nat, c \in 1..C, u \in Nat, o \in Nat, m \in Int, i \in Nat,
            <2>0, <2>6, <2>7, <2>8
  <2>10. QED
    BY <2>6, <2>9
<1>7. QED
    BY <1>1, <1>2, <1>5, <1>6 DEF Grouped

\* The shards of a group are within the stored ones.
LEMMA WithinStored ==
    ASSUME NEW groups, NEW n \in Nat \ {0}, FullBut(groups, n, RS_DATA_SHARDS),
           NEW s, Laid(s, groups, n), NEW g \in 1..n,
           NEW r \in 1..(Len(groups[g]) + RS_PARITY_SHARDS)
    PROVE  /\ Base(g) \in Nat /\ Len(groups[g]) \in Nat /\ Len(groups[g]) <= RS_DATA_SHARDS
           /\ Len(s) \in Nat /\ Base(g) + r \in 1..Len(s)
<1>1. PICK P \in Nat, D \in Nat : P = RS_PARITY_SHARDS /\ D = RS_DATA_SHARDS
    BY CodingConstants
<1>2. n \in 1..n /\ g \in Nat \ {0}
    OBVIOUS
<1>3. PICK m \in Nat, k \in Nat : m = Len(groups[g]) /\ k = Len(groups[n])
    BY <1>2 DEF FullBut
<1>4. PICK a \in Nat, b \in Nat : a = Base(g) /\ b = Base(n)
    BY <1>2, BaseNext
<1>5. m <= D
    BY <1>1, <1>3 DEF FullBut
<1>6. Len(s) = b + (k + P)
    BY <1>1, <1>3, <1>4 DEF Laid
<1>7. CASE g = n
  <2>1. a = b /\ m = k
    BY <1>3, <1>4, <1>7
  <2>2. QED
    BY <1>1, <1>3, <1>4, <1>5, <1>6, <2>1
<1>8. CASE g # n
  <2>1. g < n
    BY <1>8
  <2>2. Base(g) + Width <= Base(n)
    BY <1>2, <2>1, BaseBefore
  <2>3. a + (D + P) <= b
    BY <1>1, <1>4, <2>2 DEF Width
  <2>4. r \in 1..(m + P)
    BY <1>1, <1>3
  <2>5. a + r \in 1..Len(s) /\ Len(s) \in Nat
    BY ONLY a \in Nat, b \in Nat, m \in Nat, k \in Nat, D \in Nat, P \in Nat,
            <1>5, <1>6, <2>3, <2>4
  <2>6. QED
    BY <1>1, <1>3, <1>4, <1>5, <2>5
<1>9. QED
    BY <1>7, <1>8

\* Chunk c stands at its place, and at no other place is there a chunk.
ChunksAt(s, chunks, C) ==
    /\ Len(s) \in Nat
    /\ \A c \in 1..C : /\ Place(c) \in 1..Len(s)
                       /\ s[Place(c)].type = "Data" /\ s[Place(c)].bytes = chunks[c]
    /\ \A k \in 1..Len(s) : s[k].type = "Data" => \E c \in 1..C : k = Place(c)

LEMMA ChunksAre ==
    ASSUME NEW S, NEW f, NEW chunks, NEW groups, NEW s, Coded(f, chunks, groups, s, S)
    PROVE  Len(chunks) \in Nat /\ ChunksAt(s, chunks, Len(chunks))
<1>1. PICK n \in Nat \ {0}, C \in Nat : n = Len(groups) /\ C = Len(chunks)
    BY DEF Coded, Cut
<1>2. FullBut(groups, n, RS_DATA_SHARDS) /\ Laid(s, groups, n)
    BY <1>1 DEF Coded
<1>3. Grouped(chunks, groups, C, n)
  <2>1. PICK U : U = Seq(S)
    OBVIOUS
  <2>2. Cut(groups, chunks, RS_DATA_SHARDS, U)
    BY <2>1 DEF Coded
  <2>3. QED
    BY <1>1, <2>2, GroupsAre
<1>4. PICK P \in Nat, D \in Nat : P = RS_PARITY_SHARDS /\ D = RS_DATA_SHARDS
    BY CodingConstants
<1>5. Len(s) \in Nat
  <2>1. n \in 1..n
    OBVIOUS
  <2>2. Len(groups[n]) \in Nat
    BY <1>2, <2>1 DEF FullBut
  <2>3. Base(n) \in Nat
    BY BaseNext
  <2>4. Len(s) = Base(n) + (Len(groups[n]) + P)
    BY <1>2, <1>4 DEF Laid
  <2>5. QED
    BY <2>2, <2>3, <2>4
<1>6. ASSUME NEW g \in 1..n, NEW i \in 1..Len(groups[g])
      PROVE  /\ Place(Off(g) + i) = Base(g) + i
             /\ Base(g) + i \in 1..Len(s)
             /\ s[Base(g) + i] = DataShard(groups, g, i)
  <2>1. Len(groups[g]) \in Nat /\ Len(groups[g]) <= D
    BY <1>2, <1>4 DEF FullBut
  <2>2. i \in 1..(Len(groups[g]) + P) /\ i \in 1..D
    BY <2>1
  <2>3. Base(g) + i \in 1..Len(s)
    BY <1>2, <1>4, <2>2, WithinStored
  <2>4. Place(Off(g) + i) = Base(g) + i
    <3>1. g \in Nat \ {0} /\ i \in 1..RS_DATA_SHARDS
      BY <1>4, <2>2
    <3>2. QED
      BY <3>1, PlaceIs
  <2>5. s[Base(g) + i] = DataShard(groups, g, i)
    BY <1>2 DEF Laid, DataAt
  <2>6. QED
    BY <2>3, <2>4, <2>5
<1>7. ASSUME NEW c \in 1..C
      PROVE  /\ Place(c) \in 1..Len(s)
             /\ s[Place(c)].type = "Data" /\ s[Place(c)].bytes = chunks[c]
  <2>1. PICK g \in 1..n : \E i \in 1..Len(groups[g]) : c = Off(g) + i
    BY <1>3 DEF Grouped
  <2>2. PICK i \in 1..Len(groups[g]) : c = Off(g) + i
    BY <2>1
  <2>3. PICK k : k = Base(g) + i
    OBVIOUS
  <2>4. Place(c) = k /\ k \in 1..Len(s) /\ s[k] = DataShard(groups, g, i)
    BY <1>6, <2>2, <2>3
  <2>5. groups[g][i] = chunks[c]
    BY <1>3, <2>2 DEF Grouped
  <2>6. s[k].type = "Data" /\ s[k].bytes = chunks[c]
    BY <2>4, <2>5 DEF DataShard
  <2>7. QED
    BY <2>4, <2>6
<1>8. ASSUME NEW k \in 1..Len(s), s[k].type = "Data" PROVE \E c \in 1..C : k = Place(c)
  <2>1. PICK g \in 1..n : PlaceOf(k, groups, g)
    BY <1>2 DEF Laid
  <2>2. PICK r \in 1..(Len(groups[g]) + P) : k = Base(g) + r
    BY <1>4, <2>1 DEF PlaceOf
  <2>3. PICK m \in Nat : m = Len(groups[g])
    BY <1>2 DEF FullBut
  <2>4. CASE r <= m
    <3>1. r \in 1..Len(groups[g])
      BY <2>3, <2>4
    <3>2. Place(Off(g) + r) = k
      BY <1>6, <2>2, <3>1
    <3>3. Off(g) + r \in 1..C
      BY <1>3, <3>1 DEF Grouped
    <3>4. QED
      BY <3>2, <3>3
  <2>5. CASE r > m
    <3>1. PICK p \in 1..P : p = r - m
      <4>1. r \in 1..(m + P)
        BY <2>3
      <4>2. r - m \in 1..P
        BY ONLY m \in Nat, P \in Nat, <2>5, <4>1
      <4>3. QED
        BY <4>2
    <3>2. Base(g) \in Nat
      <4>1. g \in Nat \ {0}
        OBVIOUS
      <4>2. QED
        BY ONLY <4>1, BaseNext
    <3>3. k = (Base(g) + m) + p
      BY <2>2, <2>3, <2>5, <3>1, <3>2
    <3>4. s[k] = ParityShard(groups, g, p)
      BY <1>2, <1>4, <2>3, <3>3 DEF Laid, ParityAt
    <3>5. s[k].type = "Parity"
      BY <3>4 DEF ParityShard
    <3>6. QED
      BY <1>8, <3>5
  <2>6. QED
    BY <2>3, <2>4, <2>5
<1>9. QED
    BY <1>1, <1>5, <1>7, <1>8 DEF ChunksAt

\* A manifest's references to chunks, in the order of their index.
LEMMA ManifestLined ==
    ASSUME NEW S, NEW s \in Seq(S), NEW chunks, NEW C \in Nat, ChunksAt(s, chunks, C),
           NEW refs, refs = build_manifest(s),
           NEW at, at = [c \in 1..C |-> Place(c)]
    PROVE  /\ Lined(at, refs, C)
           /\ \A c \in 1..C : s[refs[at[c]].chunk].bytes = chunks[c]
<1>1. PICK L \in Nat : L = Len(s) /\ DOMAIN s = 1..L
    OBVIOUS
<1>2. /\ DOMAIN refs = 1..L
      /\ \A k \in 1..L : refs[k].chunk = k /\ refs[k].index = k - 1 /\ refs[k].type = s[k].type
    BY <1>1 DEF build_manifest
<1>3. /\ \A c \in 1..C : at[c] = Place(c) /\ Place(c) \in 1..L
      /\ \A c \in 1..C : s[Place(c)].type = "Data" /\ s[Place(c)].bytes = chunks[c]
      /\ \A k \in 1..L : s[k].type = "Data" => \E c \in 1..C : k = Place(c)
    BY <1>1 DEF ChunksAt
<1>4. DataRefs(refs) = {at[c] : c \in 1..C}
  <2>1. ASSUME NEW k \in DataRefs(refs) PROVE k \in {at[c] : c \in 1..C}
    <3>1. k \in 1..L /\ s[k].type = "Data"
      BY <1>2 DEF DataRefs
    <3>2. PICK c \in 1..C : k = Place(c)
      BY <1>3, <3>1
    <3>3. QED
      BY <1>3, <3>2
  <2>2. ASSUME NEW c \in 1..C PROVE at[c] \in DataRefs(refs)
    <3>1. PICK k \in 1..L : k = Place(c) /\ at[c] = k /\ s[k].type = "Data"
      BY <1>3
    <3>2. k \in DOMAIN refs /\ refs[k].type = "Data"
      BY <1>2, <3>1
    <3>3. QED
      BY <3>1, <3>2 DEF DataRefs
  <2>3. QED
    BY <2>1, <2>2
<1>5. ASSUME NEW c \in 1..C, NEW d \in 1..C
      PROVE  (at[c] < at[d] <=> c < d) /\ (at[c] = at[d] => c = d)
  <2>1. c < d => at[c] < at[d]
    BY <1>3, PlaceUp
  <2>2. d < c => at[d] < at[c]
    BY <1>3, PlaceUp
  <2>3. at[c] \in Nat /\ at[d] \in Nat /\ (c < d \/ d < c \/ c = d)
    BY <1>3
  <2>4. QED
    BY <2>1, <2>2, <2>3
<1>6. ASSUME NEW c \in 1..C, NEW d \in 1..C PROVE Before(refs, at[c], at[d]) <=> c < d
  <2>1. PICK x \in 1..L, y \in 1..L : x = at[c] /\ y = at[d]
    BY <1>3
  <2>2. refs[x].index = x - 1 /\ refs[y].index = y - 1
    BY <1>2
  <2>3. Before(refs, x, y) <=> x < y
    BY <2>2 DEF Before
  <2>4. QED
    BY <1>5, <2>1, <2>3
<1>7. Cardinality(DataRefs(refs)) = C
  <2>1. PICK T : T = DataRefs(refs)
    OBVIOUS
  <2>2. at \in [1..C -> T] /\ \A k \in T : \E c \in 1..C : at[c] = k
    <3>1. \A c \in 1..C : at[c] \in T
      BY <1>4, <2>1
    <3>2. at = [c \in 1..C |-> at[c]]
      BY Zenon
    <3>3. QED
      BY <1>4, <2>1, <3>1, <3>2
  <2>3. at \in Bijection(1..C, T)
    <3>1. DOMAIN at = 1..C
      BY <2>2
    <3>2. at \in Injection(1..C, T)
      BY <1>5, <2>2, <3>1 DEF Injection, IsInjective
    <3>3. at \in Surjection(1..C, T)
      BY <2>2 DEF Surjection
    <3>4. QED
      BY <3>2, <3>3 DEF Bijection
  <2>4. ExistsBijection(1..C, T)
    BY <2>3 DEF ExistsBijection
  <2>5. IsFiniteSet(1..C) /\ Cardinality(1..C) = C
    BY FS_Interval
  <2>6. Cardinality(T) = C
    BY ONLY <2>4, <2>5, FS_Bijection
  <2>7. QED
    BY <2>1, <2>6
<1>8. Lined(at, refs, C)
    BY <1>4, <1>6, <1>7 DEF Lined
<1>9. ASSUME NEW c \in 1..C PROVE s[refs[at[c]].chunk].bytes = chunks[c]
  <2>1. PICK k \in 1..L : k = Place(c) /\ at[c] = k /\ s[k].bytes = chunks[c]
    BY <1>3
  <2>2. refs[k].chunk = k
    BY <1>2
  <2>3. QED
    BY <2>1, <2>2
<1>10. QED
    BY <1>8, <1>9

-----------------------------------------------------------------------------
(* A file comes back from its chunks.                                       *)

\* Two sequences of one length with the same elements.
LEMMA SameSeq ==
    ASSUME NEW S, NEW u \in Seq(S), NEW v \in Seq(S), Len(u) = Len(v),
           \A i \in 1..Len(v) : u[i] = v[i]
    PROVE  u = v
<1>1. PICK n \in Nat : n = Len(u) /\ n = Len(v)
    OBVIOUS
<1>2. u \in [1..n -> S] /\ v \in [1..n -> S]
    BY <1>1
<1>3. \A i \in 1..n : u[i] = v[i]
    BY <1>1
<1>4. QED
    BY ONLY <1>2, <1>3

\* The pieces of a sequence, one after the other, give it back.
LEMMA PiecesGlued ==
    ASSUME NEW S, NEW s \in Seq(S), NEW n \in Nat \ {0}, NEW p, Cut(p, s, n, S), Len(p) # 0,
           NEW fl, Glued(fl, p, Len(p), S)
    PROVE  fl[Len(p)] = s
<1>1. PICK m \in Nat, q \in Nat \ {0} : m = Len(s) /\ q = Len(p)
    BY DEF Cut
<1>2. /\ m <= q * n
      /\ \A k \in 1..q : /\ (k - 1) * n \in Nat /\ k * n \in Nat
                         /\ (k - 1) * n < m /\ k * n = (k - 1) * n + n
      /\ \A k \in 1..q : k # q => k * n < m
    BY <1>1 DEF Cut, Bounds
<1>3. \A k \in 1..q :
         /\ p[k] \in Seq(S)
         /\ Len(p[k]) = (IF k * n < m THEN k * n ELSE m) - (k - 1) * n
         /\ \A j \in 1..Len(p[k]) : p[k][j] = s[(k - 1) * n + j]
    BY <1>1, Zenon DEF Cut
<1>4. /\ fl[1] = p[1]
      /\ \A i \in 1..q : fl[i] \in Seq(S)
      /\ \A i \in 1..(q - 1) :
         /\ Len(fl[i + 1]) = Len(fl[i]) + Len(p[i + 1])
         /\ \A j \in 1..Len(fl[i]) : fl[i + 1][j] = fl[i][j]
         /\ \A j \in 1..Len(p[i + 1]) : fl[i + 1][Len(fl[i]) + j] = p[i + 1][j]
    BY <1>1 DEF Glued
<1> DEFINE Upto(k) == IF k * n < m THEN k * n ELSE m
<1> DEFINE Good == {k \in 0..q : k # 0 => /\ Len(fl[k]) = Upto(k)
                                          /\ \A j \in 1..Upto(k) : fl[k][j] = s[j]}
<1>5. 0 \in Good
    OBVIOUS
<1>6. ASSUME NEW i \in 0..(q - 1), i \in Good PROVE i + 1 \in Good
  <2>1. PICK k \in 1..q : k = i + 1 /\ k - 1 = i
    OBVIOUS
  <2>2. PICK a \in Nat, b \in Nat : a = i * n /\ b = Upto(k)
    BY <1>2, <2>1
  <2>3. a < m /\ a <= b
    <3>1. i * n < m /\ k * n \in Nat /\ k * n = i * n + n
      BY <1>2, <2>1
    <3>2. PICK h \in Nat : h = k * n
      BY <3>1
    <3>3. a < m /\ h = a + n /\ b = IF h < m THEN h ELSE m
      BY <2>2, <3>1, <3>2
    <3>4. QED
      BY ONLY a \in Nat, b \in Nat, h \in Nat, m \in Nat, n \in Nat \ {0}, <3>3
  <2>4. /\ p[k] \in Seq(S) /\ Len(p[k]) = b - a
        /\ \A j \in 1..Len(p[k]) : p[k][j] = s[a + j]
    BY <1>3, <2>1, <2>2
  <2>5. CASE i = 0
    <3>1. k = 1 /\ a = 0 /\ fl[k] = p[k]
      BY <1>4, <2>1, <2>2, <2>5
    <3>2. Len(fl[k]) = b
      BY <2>4, <3>1
    <3>3. ASSUME NEW j \in 1..b PROVE fl[k][j] = s[j]
      <4>1. j \in 1..Len(p[k]) /\ a + j = j
        BY <2>4, <3>1
      <4>2. QED
        BY <2>4, <3>1, <4>1
    <3>4. QED
      BY <2>1, <2>2, <3>2, <3>3
  <2>6. CASE i # 0
    <3>1. i \in 1..(q - 1)
      BY <2>6
    <3>2. Upto(i) = a
      BY <2>2, <2>3
    <3>3. Len(fl[i]) = a /\ \A j \in 1..a : fl[i][j] = s[j]
      BY <1>6, <2>6, <3>2
    <3>4. /\ Len(fl[k]) = a + Len(p[k])
          /\ \A j \in 1..a : fl[k][j] = fl[i][j]
          /\ \A j \in 1..Len(p[k]) : fl[k][a + j] = p[k][j]
      BY <1>4, <2>1, <3>1, <3>3
    <3>5. Len(fl[k]) = b
      BY <2>4, <3>4
    <3>6. ASSUME NEW j \in 1..b PROVE fl[k][j] = s[j]
      <4>1. CASE j <= a
        BY <3>3, <3>4, <4>1
      <4>2. CASE j > a
        <5>1. PICK h \in 1..Len(p[k]) : j = a + h
          <6>1. j - a \in 1..(b - a) /\ j = a + (j - a)
            BY <4>2
          <6>2. QED
            BY <2>4, <6>1
        <5>2. QED
          BY <2>4, <3>4, <5>1
      <4>3. QED
        BY <4>1, <4>2
    <3>7. QED
      BY <2>1, <2>2, <3>5, <3>6
  <2>7. QED
    BY <2>5, <2>6
<1> HIDE DEF Good
<1>7. 0..q \subseteq Good
    BY <1>5, <1>6, Reaches
<1>8. q \in Good
    BY <1>7
<1>9. Upto(q) = m
    BY <1>2
<1>10. Len(fl[q]) = m /\ \A j \in 1..m : fl[q][j] = s[j]
    BY <1>8, <1>9 DEF Good
<1>11. fl[q] \in Seq(S)
    BY <1>4
<1>12. fl[q] = s
  <2>1. PICK u : u = fl[q]
    OBVIOUS
  <2>2. u \in Seq(S) /\ Len(u) = Len(s) /\ \A j \in 1..Len(s) : u[j] = s[j]
    BY <1>1, <1>10, <1>11, <2>1
  <2>3. QED
    BY ONLY s \in Seq(S), <2>1, <2>2, SameSeq
<1>13. QED
    BY <1>1, <1>12

\* What was uploaded comes back, whatever stands between its chunks.
LEMMA ComesBack ==
    ASSUME NEW S, NEW f \in Seq(S), Len(f) # 0,
           NEW chunks, NEW groups, NEW s, Coded(f, chunks, groups, s, S)
    PROVE  reassemble_file(build_manifest(s), s, Len(f)) = f
<1>1. PICK C \in Nat \ {0} : C = Len(chunks)
    BY DEF Coded, Cut
<1>2. ChunksAt(s, chunks, C)
    BY <1>1, ChunksAre
<1>3. PICK refs, at, T : refs = build_manifest(s) /\ at = [c \in 1..C |-> Place(c)]
                         /\ T = ShardsIn(groups)
    OBVIOUS
<1>4. s \in Seq(T)
    BY <1>3 DEF Coded
<1>5. Lined(at, refs, C) /\ \A c \in 1..C : s[refs[at[c]].chunk].bytes = chunks[c]
    BY <1>2, <1>3, <1>4, ManifestLined
<1>6. PICK order : order = ByIndex(refs)
    OBVIOUS
<1>7. DOMAIN order = 1..C /\ \A k \in 1..C : order[k] = at[k]
    BY <1>5, <1>6, ByIndexIs
<1>8. chunks \in Seq(Seq(S)) /\ DOMAIN chunks = 1..C
    BY <1>1 DEF Coded, Cut
<1>9. [k \in DOMAIN order |-> s[refs[order[k]].chunk].bytes] = chunks
  <2>1. \A k \in 1..C : s[refs[order[k]].chunk].bytes = chunks[k]
    BY <1>5, <1>7
  <2>2. PICK b : b = [k \in DOMAIN order |-> s[refs[order[k]].chunk].bytes]
    OBVIOUS
  <2>3. b = [k \in 1..C |-> chunks[k]]
    BY <1>7, <2>1, <2>2
  <2>4. chunks = [k \in 1..C |-> chunks[k]]
    BY <1>8
  <2>5. QED
    BY <2>2, <2>3, <2>4
<1>10. FlattenSeq(chunks) = f
  <2>1. PICK fl : Flattened(fl, chunks, C) /\ FlattenSeq(chunks) = fl[C]
    BY <1>1, FlattenIs
  <2>2. SeqsOf(chunks, C, S)
    BY <1>8 DEF SeqsOf
  <2>3. Glued(fl, chunks, C, S)
    BY <2>1, <2>2, FlattenStep
  <2>4. Cut(chunks, f, CHUNK_SIZE, S) /\ CHUNK_SIZE \in Nat \ {0}
    BY CodingConstants DEF Coded
  <2>5. fl[C] = f
    BY <1>1, <2>3, <2>4, PiecesGlued
  <2>6. QED
    BY <2>1, <2>5
<1>11. reassemble_file(refs, s, Len(f))
         = SubSeq(f, 1, IF Len(f) < Len(f) THEN Len(f) ELSE Len(f))
    BY <1>6, <1>9, <1>10 DEF reassemble_file
<1>12. SubSeq(f, 1, Len(f)) = f
  <2>1. 1 \in 1..Len(f) /\ Len(f) \in 1..Len(f) /\ 1 <= Len(f) /\ Len(f) - 1 + 1 = Len(f)
    OBVIOUS
  <2>2. /\ SubSeq(f, 1, Len(f)) \in Seq(S) /\ Len(SubSeq(f, 1, Len(f))) = Len(f)
        /\ \A i \in 1..Len(f) : SubSeq(f, 1, Len(f))[i] = f[1 + i - 1]
    BY <2>1, SubSeqProperties
  <2>3. \A i \in 1..Len(f) : SubSeq(f, 1, Len(f))[i] = f[i]
    BY <2>2
  <2>4. QED
    BY <2>2, <2>3, SameSeq
<1>13. QED
    BY <1>3, <1>11, <1>12

-----------------------------------------------------------------------------
(* The shards of a group.                                                   *)

\* What stands at place r of group g.
ShardAt(x, groups, g, r) ==
    IF r <= Len(groups[g]) THEN x = DataShard(groups, g, r)
                           ELSE x = ParityShard(groups, g, r - Len(groups[g]))

LEMMA ShardAtPlace ==
    ASSUME NEW groups, NEW n \in Nat \ {0}, FullBut(groups, n, RS_DATA_SHARDS),
           NEW s, Laid(s, groups, n), NEW g \in 1..n,
           NEW r \in 1..(Len(groups[g]) + RS_PARITY_SHARDS)
    PROVE  ShardAt(s[Base(g) + r], groups, g, r)
<1>1. PICK b \in Nat, m \in Nat, P \in Nat :
        b = Base(g) /\ m = Len(groups[g]) /\ P = RS_PARITY_SHARDS
    BY WithinStored, CodingConstants
<1>2. CASE r <= m
  <2>1. r \in 1..m
    BY <1>1, <1>2
  <2>2. s[Base(g) + r] = DataShard(groups, g, r)
    BY <1>1, <2>1 DEF Laid, DataAt
  <2>3. QED
    BY <1>1, <1>2, <2>2 DEF ShardAt
<1>3. CASE r > m
  <2>1. r \in 1..(m + P)
    BY <1>1
  <2>2. PICK p \in 1..P : p = r - m /\ (b + m) + p = b + r
    BY ONLY b \in Nat, m \in Nat, P \in Nat, <1>3, <2>1
  <2>3. s[(b + m) + p] = ParityShard(groups, g, p)
    BY <1>1 DEF Laid, ParityAt
  <2>4. QED
    BY <1>1, <1>3, <2>1, <2>2, <2>3 DEF ShardAt
<1>4. QED
    BY <1>1, <1>2, <1>3

Own(s, g, type) == {i \in DOMAIN s : s[i].group = g /\ s[i].type = type}

LEMMA OwnPlaces ==
    ASSUME NEW groups, NEW n \in Nat \ {0}, FullBut(groups, n, RS_DATA_SHARDS),
           NEW s, Laid(s, groups, n), DOMAIN s = 1..Len(s), NEW g \in 1..n,
           NEW b, b = Base(g), NEW m, m = Len(groups[g]), NEW P, P = RS_PARITY_SHARDS
    PROVE  /\ b \in Nat /\ m \in 1..RS_DATA_SHARDS /\ P \in Nat
           /\ Len(s) \in Nat /\ (b + m) + P <= Len(s)
           /\ Own(s, g, "Data") = (b + 1)..(b + m)
           /\ Own(s, g, "Parity") = (b + m + 1)..(b + m + P)
<1>1. m \in Nat /\ m \in 1..RS_DATA_SHARDS /\ P \in Nat
    BY CodingConstants DEF FullBut
<1>2. \A r \in 1..(m + P) : /\ b \in Nat /\ Len(s) \in Nat /\ b + r \in 1..Len(s)
                            /\ ShardAt(s[b + r], groups, g, r)
    BY WithinStored, ShardAtPlace
<1>3. 1 \in 1..(m + P) /\ m + P \in 1..(m + P)
    BY <1>1, CodingConstants
<1>4. b \in Nat /\ Len(s) \in Nat /\ (b + m) + P <= Len(s)
  <2>1. b \in Nat /\ Len(s) \in Nat /\ b + (m + P) \in 1..Len(s)
    BY <1>2, <1>3
  <2>2. QED
    BY <1>1, <2>1
<1>5. ASSUME NEW k \in DOMAIN s, s[k].group = g
      PROVE  \E r \in 1..(m + P) : k = b + r
  <2>1. PICK h \in 1..n : PlaceOf(k, groups, h)
    BY DEF Laid
  <2>2. PICK r \in 1..(Len(groups[h]) + P) : k = Base(h) + r
    BY <2>1 DEF PlaceOf
  <2>3. ShardAt(s[k], groups, h, r)
    BY <2>2, ShardAtPlace
  <2>4. s[k].group = h
    BY <2>3 DEF ShardAt, DataShard, ParityShard
  <2>5. h = g
    BY <1>5, <2>4
  <2>6. QED
    BY <2>2, <2>5
<1>6. ASSUME NEW r \in 1..(m + P)
      PROVE  /\ b + r \in DOMAIN s /\ s[b + r].group = g
             /\ r <= m => s[b + r].type = "Data"
             /\ r > m => s[b + r].type = "Parity"
  <2>1. b + r \in DOMAIN s /\ ShardAt(s[b + r], groups, g, r)
    BY <1>2
  <2>2. CASE r <= m
    <3>1. s[b + r] = DataShard(groups, g, r)
      BY <2>1, <2>2 DEF ShardAt
    <3>2. QED
      BY <1>1, <2>1, <2>2, <3>1 DEF DataShard
  <2>3. CASE r > m
    <3>1. s[b + r] = ParityShard(groups, g, r - m)
      BY <1>1, <2>1, <2>3 DEF ShardAt
    <3>2. QED
      BY <1>1, <2>1, <2>3, <3>1 DEF ParityShard
  <2>4. QED
    BY <1>1, <2>2, <2>3
<1>7. {i \in DOMAIN s : s[i].group = g /\ s[i].type = "Data"} = (b + 1)..(b + m)
  <2>1. ASSUME NEW k \in DOMAIN s, s[k].group = g, s[k].type = "Data"
        PROVE  k \in (b + 1)..(b + m)
    <3>1. PICK r \in 1..(m + P) : k = b + r
      BY <1>5, <2>1
    <3>2. ~(r > m)
      BY <1>6, <2>1, <3>1
    <3>3. QED
      BY ONLY r \in 1..(m + P), <1>1, <1>4, <3>1, <3>2
  <2>2. ASSUME NEW k \in (b + 1)..(b + m)
        PROVE  k \in DOMAIN s /\ s[k].group = g /\ s[k].type = "Data"
    <3>1. PICK r \in 1..(m + P) : k = b + r /\ r <= m
      <4>1. k - b \in 1..(m + P) /\ k = b + (k - b) /\ k - b <= m
        BY ONLY k \in (b + 1)..(b + m), <1>1, <1>4
      <4>2. QED
        BY <4>1
    <3>2. QED
      BY <1>6, <3>1
  <2>3. QED
    BY <2>1, <2>2
<1>8. {i \in DOMAIN s : s[i].group = g /\ s[i].type = "Parity"} = (b + m + 1)..(b + m + P)
  <2>1. ASSUME NEW k \in DOMAIN s, s[k].group = g, s[k].type = "Parity"
        PROVE  k \in (b + m + 1)..(b + m + P)
    <3>1. PICK r \in 1..(m + P) : k = b + r
      BY <1>5, <2>1
    <3>2. ~(r <= m)
      BY <1>6, <2>1, <3>1
    <3>3. QED
      BY ONLY r \in 1..(m + P), <1>1, <1>4, <3>1, <3>2
  <2>2. ASSUME NEW k \in (b + m + 1)..(b + m + P)
        PROVE  k \in DOMAIN s /\ s[k].group = g /\ s[k].type = "Parity"
    <3>1. PICK r \in 1..(m + P) : k = b + r /\ r > m
      <4>1. k - b \in 1..(m + P) /\ k = b + (k - b) /\ k - b > m
        BY ONLY k \in (b + m + 1)..(b + m + P), <1>1, <1>4
      <4>2. QED
        BY <4>1
    <3>2. QED
      BY <1>6, <3>1
  <2>3. QED
    BY <2>1, <2>2
<1>9. QED
    BY <1>1, <1>4, <1>7, <1>8 DEF Own

-----------------------------------------------------------------------------
(* A group, its parity and what they give back.                             *)

\* A group of chunks: the first is the longest, only the last may be shorter.
Chunked(group, m, sz) ==
    /\ m \in 1..RS_DATA_SHARDS /\ sz \in Nat \ {0}
    /\ group \in Seq(Seq(Nat)) /\ Len(group) = m /\ DOMAIN group = 1..m
    /\ \A i \in 1..m : group[i] \in Seq(Nat) /\ Len(group[i]) \in 1..sz
    /\ Len(group[1]) = sz
    /\ \A i \in 1..m : i # m => Len(group[i]) = sz

PaddedTo(group, sz) ==
    [i \in 1..RS_DATA_SHARDS |-> IF i <= Len(group) THEN Resize(group[i], sz) ELSE Zeros(sz)]
Col(group, sz, row) == [i \in 1..RS_DATA_SHARDS |-> PaddedTo(group, sz)[i][row]]
ParityRows(group, sz) == [row \in 1..sz |-> Col(group, sz, row)]

LEMMA PaddedSeq ==
    ASSUME NEW group, NEW m, NEW sz, Chunked(group, m, sz), NEW i \in 1..RS_DATA_SHARDS
    PROVE  /\ PaddedTo(group, sz)[i] \in Seq(Nat) /\ PaddedTo(group, sz)[i] \in [1..sz -> Nat]
           /\ Len(PaddedTo(group, sz)[i]) = sz
           /\ i <= m => PaddedTo(group, sz)[i] = Resize(group[i], sz)
<1>1. sz \in Nat /\ m \in Nat /\ Len(group) = m /\ i \in Nat
    BY CodingConstants DEF Chunked
<1>2. PICK u : u = PaddedTo(group, sz)[i]
    OBVIOUS
<1>3. u = IF i <= m THEN Resize(group[i], sz) ELSE Zeros(sz)
    BY <1>1, <1>2 DEF PaddedTo
<1>4. u \in [1..sz -> Nat]
  <2>1. CASE i <= m
    <3>1. PICK c : c = group[i]
      OBVIOUS
    <3>2. c \in Seq(Nat)
      BY <1>1, <2>1, <3>1 DEF Chunked
    <3>3. \A j \in 1..sz : (IF j <= Len(c) THEN c[j] ELSE 0) \in Nat
      BY <3>2
    <3>4. u = [j \in 1..sz |-> IF j <= Len(c) THEN c[j] ELSE 0]
      BY <1>3, <2>1, <3>1 DEF Resize
    <3>5. QED
      BY <3>3, <3>4
  <2>2. CASE ~(i <= m)
    BY <1>3, <2>2 DEF Zeros
  <2>3. QED
    BY <2>1, <2>2
<1>5. u \in Seq(Nat) /\ Len(u) = sz
    BY <1>1, <1>4
<1>6. QED
    BY <1>2, <1>3, <1>4, <1>5

LEMMA EncodeIs ==
    ASSUME NEW group, NEW m, NEW sz, Chunked(group, m, sz), NEW p \in 1..RS_PARITY_SHARDS
    PROVE  encode_group(group)[p] = ParityRows(group, sz)
<1>1. PICK T : T = {Len(group[i]) : i \in DOMAIN group}
    OBVIOUS
<1>2. sz \in T /\ \A y \in T : y \in Nat /\ sz >= y
  <2>1. 1 \in 1..m /\ sz \in Nat
    BY CodingConstants DEF Chunked
  <2>2. sz \in T
    BY <1>1, <2>1 DEF Chunked
  <2>3. ASSUME NEW y \in T PROVE y \in Nat /\ sz >= y
    <3>1. PICK i \in 1..m : y = Len(group[i])
      BY <1>1 DEF Chunked
    <3>2. y \in 1..sz
      BY <3>1 DEF Chunked
    <3>3. QED
      BY <2>1, <3>2
  <2>4. QED
    BY <2>2, <2>3
<1>3. Max(T) = sz
  <2>1. \A x \in T : (\A y \in T : x >= y) => x = sz
    BY <1>2
  <2>2. QED
    BY <1>2, <2>1 DEF Max
<1>4. PICK q : q = PaddedTo(group, sz)
    OBVIOUS
<1>5. encode_group(group) = [k \in 1..RS_PARITY_SHARDS |->
           [row \in 1..sz |-> [i \in 1..RS_DATA_SHARDS |-> q[i][row]]]]
    BY <1>1, <1>3, <1>4 DEF encode_group, PaddedTo
<1>6. ParityRows(group, sz) = [row \in 1..sz |-> [i \in 1..RS_DATA_SHARDS |-> q[i][row]]]
    BY <1>4 DEF ParityRows, Col
<1>7. QED
    BY <1>5, <1>6

\* What may be given to reconstruct_group for this group.
Given(sh, group, m, sz) ==
    /\ DOMAIN sh = 1..Width
    /\ \A i \in 1..Width : \/ sh[i] = Missing
                           \/ i <= m /\ sh[i] = group[i]
                           \/ i > RS_DATA_SHARDS /\ sh[i] = ParityRows(group, sz)

\* More data shards than parity shards and one.
MoreData == RS_PARITY_SHARDS + 1 < RS_DATA_SHARDS

LEMMA PresentFinite ==
    ASSUME NEW group, NEW m, NEW sz, NEW sh, Given(sh, group, m, sz)
    PROVE  /\ Present(sh) \subseteq 1..Width /\ IsFiniteSet(Present(sh))
           /\ Cardinality(Present(sh)) \in Nat
           /\ \A i \in Present(sh) : sh[i] # Missing /\ i \in Nat
<1>1. IsFiniteSet(1..Width) /\ Width \in Nat
    BY FS_Interval, CodingConstants
<1>2. Present(sh) \subseteq 1..Width
    BY DEF Given, Present
<1>3. IsFiniteSet(Present(sh))
    BY <1>1, <1>2, FS_Subset
<1>4. Cardinality(Present(sh)) \in Nat
    BY <1>3, FS_CardinalityType
<1>5. \A i \in Present(sh) : sh[i] # Missing /\ i \in Nat
    BY <1>1, <1>2 DEF Present
<1>6. QED
    BY <1>2, <1>3, <1>4, <1>5

LEMMA MinIs ==
    ASSUME NEW T, T \subseteq Nat, T # {}
    PROVE  Min(T) \in T /\ \A y \in T : Min(T) <= y
<1>1. \E x \in T : \A y \in T : x =< y
    BY LeastOf
<1>2. QED
    BY <1>1 DEF Min

\* The shard that gives the size is a whole one: only the last chunk of a group is
\* short, and it comes before all others only with too few of them.
LEMMA FirstWhole ==
    ASSUME MoreData, NEW group, NEW m, NEW sz, Chunked(group, m, sz),
           NEW sh, Given(sh, group, m, sz), Cardinality(Present(sh)) >= RS_DATA_SHARDS
    PROVE  Present(sh) # {} /\ Len(sh[Min(Present(sh))]) = sz
<1>1. PICK D \in Nat, P \in Nat :
        D = RS_DATA_SHARDS /\ P = RS_PARITY_SHARDS /\ D # 0 /\ P + 1 < D /\ Width = D + P
    BY CodingConstants DEF MoreData, Width
<1>2. PICK T : T = Present(sh)
    OBVIOUS
<1>3. /\ T \subseteq 1..(D + P) /\ IsFiniteSet(T) /\ Cardinality(T) \in Nat
      /\ \A i \in T : sh[i] # Missing
    BY <1>1, <1>2, PresentFinite
<1>4. T # {}
    BY <1>1, <1>2, <1>3, FS_EmptySet
<1>5. PICK x \in T : x = Min(T) /\ \A y \in T : x <= y
  <2>1. T \subseteq Nat
    BY <1>1, <1>3
  <2>2. QED
    BY <1>4, <2>1, MinIs
<1>6. m \in 1..D /\ sz \in Nat \ {0}
    BY <1>1 DEF Chunked
<1>7. \/ x <= m /\ sh[x] = group[x]
      \/ x > D /\ sh[x] = ParityRows(group, sz)
    BY <1>1, <1>3 DEF Given
<1>8. CASE x > D /\ sh[x] = ParityRows(group, sz)
  <2>1. Len([row \in 1..sz |-> Col(group, sz, row)]) = sz
    BY <1>6
  <2>2. QED
    BY <1>2, <1>4, <1>5, <1>8, <2>1 DEF ParityRows
<1>9. CASE x <= m /\ sh[x] = group[x]
  <2>1. x \in 1..m
    BY <1>3, <1>6, <1>9
  <2>2. CASE x = 1 \/ x # m
    <3>1. Len(group[x]) = sz
      BY <2>1, <2>2 DEF Chunked
    <3>2. QED
      BY <1>2, <1>4, <1>5, <1>9, <3>1
  <2>3. CASE x = m /\ x # 1
    <3>1. PICK U : U = (D + 1)..(D + P)
      OBVIOUS
    <3>2. IsFiniteSet(U) /\ Cardinality(U) = P
      <4>1. D + 1 \in Int /\ D + P \in Int
        OBVIOUS
      <4>2. IsFiniteSet(U) /\ Cardinality(U) = IF D + 1 > D + P THEN 0 ELSE D + P - (D + 1) + 1
        BY <3>1, <4>1, FS_Interval
      <4>3. QED
        BY <4>2
    <3>3. T \subseteq U \cup {m}
      <4>1. ASSUME NEW i \in T, i # m PROVE i \in U
        <5>1. i \in 1..(D + P) /\ i >= m /\ sh[i] # Missing
          BY <1>3, <1>5, <2>3
        <5>2. ~(i <= m)
          BY <1>6, <4>1, <5>1
        <5>3. i > D
          BY <1>1, <5>1, <5>2 DEF Given
        <5>4. QED
          BY <3>1, <5>1, <5>3
      <4>2. QED
        BY <4>1
    <3>4. IsFiniteSet(U \cup {m}) /\ Cardinality(U \cup {m}) <= P + 1
      <4>1. m \notin U
        BY <1>6, <3>1
      <4>2. IsFiniteSet(U \cup {m}) /\ Cardinality(U \cup {m}) = Cardinality(U) + 1
        BY <3>2, <4>1, FS_AddElement
      <4>3. QED
        BY <3>2, <4>2
    <3>5. Cardinality(T) <= Cardinality(U \cup {m}) /\ Cardinality(U \cup {m}) \in Nat
      BY <3>3, <3>4, FS_Subset, FS_CardinalityType
    <3>6. QED
      BY <1>1, <1>2, <1>3, <3>4, <3>5
  <2>4. QED
    BY <2>2, <2>3
<1>10. QED
    BY <1>7, <1>8, <1>9

\* The shards at one size: those that are there hold their rows of the padded group.
SizedTo(sh, sz) == [i \in DOMAIN sh |-> IF sh[i] = Missing THEN Missing ELSE Resize(sh[i], sz)]

InColumns(z, sh, group, sz) ==
    /\ DOMAIN z = 1..Width
    /\ \A i \in 1..Width : z[i] = Missing <=> sh[i] = Missing
    /\ \A i \in 1..Width : z[i] # Missing =>
         \A row \in 1..sz :
            z[i][row] = IF i <= RS_DATA_SHARDS THEN Col(group, sz, row)[i] ELSE Col(group, sz, row)

LEMMA SizedColumns ==
    ASSUME NEW group, NEW m, NEW sz, Chunked(group, m, sz), NEW sh, Given(sh, group, m, sz)
    PROVE  InColumns(SizedTo(sh, sz), sh, group, sz)
<1>1. PICK z : z = SizedTo(sh, sz)
    OBVIOUS
<1>2. PICK D \in Nat, w \in Nat : D = RS_DATA_SHARDS /\ w = Width /\ D <= w
    BY CodingConstants DEF Width
<1>3. DOMAIN z = 1..w
    BY <1>1, <1>2 DEF SizedTo, Given
<1>4. \A i \in 1..w : z[i] = IF sh[i] = Missing THEN Missing ELSE Resize(sh[i], sz)
    BY <1>1, <1>2 DEF SizedTo, Given
<1>5. sz \in Nat /\ sz # 0 /\ m \in 1..D
    BY <1>2 DEF Chunked
<1>6. \A c : Resize(c, sz) # Missing
  <2>1. ASSUME NEW c PROVE Resize(c, sz) # Missing
    <3>1. DOMAIN Resize(c, sz) = 1..sz
      BY Zenon DEF Resize
    <3>2. 1 \in 1..sz /\ DOMAIN Missing = {}
      BY <1>5 DEF Missing
    <3>3. QED
      BY <3>1, <3>2
  <2>2. QED
    BY <2>1
<1>7. ASSUME NEW i \in 1..w, z[i] # Missing, NEW row \in 1..sz
      PROVE  z[i][row] = IF i <= D THEN Col(group, sz, row)[i] ELSE Col(group, sz, row)
  <2>1. sh[i] # Missing /\ z[i] = Resize(sh[i], sz)
    BY <1>4, <1>7
  <2>2. \/ i <= m /\ sh[i] = group[i]
        \/ i > D /\ sh[i] = ParityRows(group, sz)
    BY <1>2, <2>1 DEF Given
  <2>3. CASE i <= m /\ sh[i] = group[i]
    <3>1. i \in 1..D /\ i <= D
      BY <1>5, <2>3
    <3>2. PaddedTo(group, sz)[i] = Resize(group[i], sz)
      BY <1>2, <2>3, <3>1, PaddedSeq
    <3>3. Col(group, sz, row)[i] = PaddedTo(group, sz)[i][row]
      BY <1>2, <3>1 DEF Col
    <3>4. QED
      BY <2>1, <2>3, <3>1, <3>2, <3>3
  <2>4. CASE i > D /\ sh[i] = ParityRows(group, sz)
    <3>1. PICK c : c = ParityRows(group, sz)
      OBVIOUS
    <3>2. Len(c) = sz /\ c[row] = Col(group, sz, row)
      BY <1>5, <3>1 DEF ParityRows
    <3>3. Resize(c, sz)[row] = c[row]
      BY <1>5, <3>2 DEF Resize
    <3>4. QED
      BY <2>1, <2>4, <3>1, <3>2, <3>3
  <2>5. QED
    BY <2>2, <2>3, <2>4
<1>8. \A i \in 1..w : z[i] = Missing <=> sh[i] = Missing
    BY <1>4, <1>6
<1>9. InColumns(z, sh, group, sz)
    BY <1>2, <1>3, <1>7, <1>8 DEF InColumns
<1>10. QED
    BY <1>1, <1>9

\* Enough shards give each column.
LEMMA ColumnBack ==
    ASSUME NEW group, NEW m, NEW sz, Chunked(group, m, sz),
           NEW sh, Given(sh, group, m, sz), Cardinality(Present(sh)) >= RS_DATA_SHARDS,
           NEW z, InColumns(z, sh, group, sz), NEW row \in 1..sz
    PROVE  ReconstructColumn(z, row) = Col(group, sz, row)
<1>1. PICK D \in Nat, w \in Nat : D = RS_DATA_SHARDS /\ w = Width /\ D <= w
    BY CodingConstants DEF Width
<1>2. PICK c : c = Col(group, sz, row)
    OBVIOUS
<1>3. /\ DOMAIN z = 1..w
      /\ \A i \in 1..w : z[i] = Missing <=> sh[i] = Missing
      /\ \A i \in 1..w : z[i] # Missing => z[i][row] = IF i <= D THEN c[i] ELSE c
    BY <1>1, <1>2 DEF InColumns
<1>4. PICK par : par = {i \in DOMAIN z : i > RS_DATA_SHARDS /\ z[i] # Missing}
    OBVIOUS
<1>5. PICK col : col = IF par = {} THEN [i \in 1..RS_DATA_SHARDS |-> z[i][row]]
                                   ELSE z[Min(par)][row]
    OBVIOUS
<1>6. col = c
  <2>1. CASE par = {}
    <3>1. PICK T : T = Present(sh)
      OBVIOUS
    <3>2. T \subseteq 1..D
      <4>1. ASSUME NEW i \in T PROVE i \in 1..D
        <5>1. i \in 1..w /\ sh[i] # Missing
          BY <1>1, <3>1, PresentFinite
        <5>2. z[i] # Missing
          BY <1>3, <5>1
        <5>3. ~(i > D)
          BY <1>1, <1>3, <1>4, <2>1, <5>1, <5>2
        <5>4. QED
          BY <5>1, <5>3
      <4>2. QED
        BY <4>1
    <3>3. T = 1..D
      <4>1. IsFiniteSet(1..D) /\ Cardinality(1..D) = D
        <5>1. IsFiniteSet(1..D) /\ Cardinality(1..D) = IF 1 > D THEN 0 ELSE D - 1 + 1
          BY FS_Interval
        <5>2. QED
          BY <5>1
      <4>2. Cardinality(T) >= D /\ Cardinality(T) \in Nat
        BY <1>1, <3>1, PresentFinite
      <4>3. Cardinality(T) <= D
        BY <3>2, <4>1, FS_Subset
      <4>4. Cardinality(T) = Cardinality(1..D)
        BY ONLY <4>1, <4>2, <4>3, D \in Nat
      <4>5. QED
        BY ONLY <3>2, <4>1, <4>4, FS_Subset
    <3>4. \A i \in 1..D : z[i][row] = c[i]
      <4>1. ASSUME NEW i \in 1..D PROVE z[i][row] = c[i]
        <5>1. i \in 1..w /\ i <= D
          BY <1>1
        <5>2. sh[i] # Missing
          BY <3>1, <3>3, PresentFinite
        <5>3. QED
          BY <1>3, <5>1, <5>2
      <4>2. QED
        BY <4>1
    <3>5. col = [i \in 1..D |-> c[i]]
      BY <1>1, <1>5, <2>1, <3>4
    <3>6. c = [i \in 1..D |-> c[i]]
      BY <1>1, <1>2 DEF Col
    <3>7. QED
      BY <3>5, <3>6
  <2>2. CASE par # {}
    <3>1. par \subseteq Nat
      BY <1>3, <1>4
    <3>2. PICK x : x = Min(par) /\ x \in par
      BY <2>2, <3>1, MinIs
    <3>3. x \in 1..w /\ x > D /\ z[x] # Missing
      BY <1>1, <1>3, <1>4, <3>2
    <3>4. z[x][row] = c
      BY <1>3, <3>3
    <3>5. QED
      BY <1>5, <2>2, <3>2, <3>4
  <2>3. QED
    BY <2>1, <2>2
<1>7. \A i \in DOMAIN z : z[i] # Missing => z[i][row] = IF i <= RS_DATA_SHARDS THEN col[i] ELSE col
    BY <1>1, <1>3, <1>6
<1>8. ReconstructColumn(z, row) = col
    BY <1>4, <1>5, <1>7 DEF ReconstructColumn
<1>9. QED
    BY <1>2, <1>6, <1>8

\* The group comes back, padded.
LEMMA GroupBack ==
    ASSUME MoreData, NEW group, NEW m, NEW sz, Chunked(group, m, sz),
           NEW sh, Given(sh, group, m, sz), Cardinality(Present(sh)) >= RS_DATA_SHARDS
    PROVE  reconstruct_group(sh) = FlattenSeq(PaddedTo(group, sz))
<1>1. Len(sh[Min(Present(sh))]) = sz
    BY FirstWhole
<1>2. PICK z : z = SizedTo(sh, sz)
    OBVIOUS
<1>3. InColumns(z, sh, group, sz)
    BY <1>2, SizedColumns
<1>4. \A row \in 1..sz : ReconstructColumn(z, row) = Col(group, sz, row)
    BY <1>3, ColumnBack
<1>5. ~(Cardinality(Present(sh)) < RS_DATA_SHARDS)
    BY PresentFinite, CodingConstants
<1>6. reconstruct_group(sh) = FlattenSeq([i \in 1..RS_DATA_SHARDS |->
                                   [row \in 1..sz |-> ReconstructColumn(z, row)[i]]])
    BY <1>1, <1>2, <1>5 DEF reconstruct_group, SizedTo
<1>7. PICK q : q = PaddedTo(group, sz)
    OBVIOUS
<1>8. ASSUME NEW i \in 1..RS_DATA_SHARDS
      PROVE  [row \in 1..sz |-> ReconstructColumn(z, row)[i]] = q[i]
  <2>1. q[i] \in [1..sz -> Nat]
    BY <1>7, PaddedSeq
  <2>2. \A row \in 1..sz : Col(group, sz, row)[i] = q[i][row]
    BY <1>7 DEF Col
  <2>3. QED
    BY <1>4, <2>1, <2>2
<1>9. q = [i \in 1..RS_DATA_SHARDS |-> q[i]]
    BY <1>7 DEF PaddedTo
<1>10. [i \in 1..RS_DATA_SHARDS |-> [row \in 1..sz |-> ReconstructColumn(z, row)[i]]] = q
    BY <1>8, <1>9
<1>11. QED
    BY <1>6, <1>7, <1>10

-----------------------------------------------------------------------------
(* What comes back begins with the chunks of the group.                     *)

\* u begins t.
Begins(u, t) == Len(u) <= Len(t) /\ \A j \in 1..Len(u) : t[j] = u[j]

LEMMA BeginsIsPrefix ==
    ASSUME NEW S, NEW u \in Seq(S), NEW t \in Seq(S), Begins(u, t)
    PROVE  IsPrefix(u, t)
<1>1. PICK n \in Nat : n = Len(u)
    OBVIOUS
<1>2. n <= Len(t) /\ \A j \in 1..n : t[j] = u[j]
    BY <1>1 DEF Begins
<1>3. CASE n = 0
  <2>1. SubSeq(u, 1, 0) = <<>> /\ SubSeq(t, 1, 0) = <<>>
    BY SubSeqProperties
  <2>2. QED
    BY <1>1, <1>2, <1>3, <2>1 DEF IsPrefix
<1>4. CASE n # 0
  <2>1. PICK v, w : v = SubSeq(u, 1, n) /\ w = SubSeq(t, 1, n)
    OBVIOUS
  <2>2. /\ v \in Seq(S) /\ Len(v) = n /\ \A i \in 1..n : v[i] = u[1 + i - 1]
    BY <1>1, <1>4, <2>1, SubSeqProperties
  <2>3. /\ w \in Seq(S) /\ Len(w) = n /\ \A i \in 1..n : w[i] = t[1 + i - 1]
    BY <1>1, <1>2, <1>4, <2>1, SubSeqProperties
  <2>4. \A i \in 1..n : v[i] = w[i]
    BY <1>2, <2>2, <2>3
  <2>5. v = w
    BY <2>2, <2>3, <2>4, SameSeq
  <2>6. QED
    BY <1>1, <1>2, <2>1, <2>5 DEF IsPrefix
<1>5. QED
    BY <1>3, <1>4

\* One more piece, and its padded form after what has the same length.
LEMMA BeginsNext ==
    ASSUME NEW u, NEW t, NEW a, NEW b, Len(u) \in Nat, Len(a) \in Nat, Len(b) \in Nat,
           Begins(u, t), Len(u) = Len(t), Begins(a, b),
           NEW u2, NEW t2, Joined(u2, u, a), Joined(t2, t, b)
    PROVE  Begins(u2, t2)
<1>1. PICK n \in Nat, h \in Nat, k \in Nat : n = Len(u) /\ n = Len(t) /\ h = Len(a) /\ k = Len(b)
    OBVIOUS
<1>2. /\ Len(u2) = n + h /\ Len(t2) = n + k /\ h <= k
      /\ \A j \in 1..n : u2[j] = u[j] /\ t2[j] = t[j] /\ t[j] = u[j]
      /\ \A j \in 1..h : u2[n + j] = a[j] /\ b[j] = a[j]
      /\ \A j \in 1..k : t2[n + j] = b[j]
    BY <1>1 DEF Begins, Joined
<1>3. ASSUME NEW j \in 1..(n + h) PROVE t2[j] = u2[j]
  <2>1. CASE j <= n
    BY <1>2, <2>1
  <2>2. CASE j > n
    <3>1. PICK i \in 1..h : j = n + i /\ i \in 1..k
      <4>1. j - n \in 1..h /\ j = n + (j - n) /\ j - n \in 1..k
        BY <1>2, <2>2
      <4>2. QED
        BY <4>1
    <3>2. QED
      BY <1>2, <3>1
  <2>3. QED
    BY <2>1, <2>2
<1>4. QED
    BY <1>2, <1>3 DEF Begins

\* The chunks of a group begin what comes back.
LEMMA PaddedBegins ==
    ASSUME NEW group, NEW m, NEW sz, Chunked(group, m, sz)
    PROVE  IsPrefix(FlattenSeq(group), FlattenSeq(PaddedTo(group, sz)))
<1>1. PICK D \in Nat : D = RS_DATA_SHARDS /\ D # 0
    BY CodingConstants
<1>2. PICK q : q = PaddedTo(group, sz)
    OBVIOUS
<1>3. m \in 1..D /\ m \in Nat /\ m # 0 /\ sz \in Nat
    BY <1>1 DEF Chunked
<1>4. \A i \in 1..D : q[i] \in Seq(Nat) /\ Len(q[i]) = sz
    BY <1>1, <1>2, PaddedSeq
<1>5. Len(q) = D
    BY <1>1, <1>2 DEF PaddedTo
<1>6. PICK f : Flattened(f, group, m) /\ FlattenSeq(group) = f[m]
    BY <1>3, FlattenIs DEF Chunked
<1>7. PICK e : Flattened(e, q, D) /\ FlattenSeq(q) = e[D]
    BY <1>1, <1>5, FlattenIs
<1>8. Glued(f, group, m, Nat)
  <2>1. SeqsOf(group, m, Nat)
    BY DEF SeqsOf, Chunked
  <2>2. QED
    BY <1>3, <1>6, <2>1, FlattenStep
<1>9. Glued(e, q, D, Nat)
  <2>1. SeqsOf(q, D, Nat)
    BY <1>4 DEF SeqsOf
  <2>2. QED
    BY <1>7, <2>1, FlattenStep
<1>10. /\ f[1] = group[1]
       /\ \A i \in 1..m : f[i] \in Seq(Nat)
       /\ \A i \in 1..(m - 1) : Joined(f[i + 1], f[i], group[i + 1])
    BY <1>3, <1>8 DEF Glued, Joined
<1>11. /\ e[1] = q[1]
       /\ \A i \in 1..D : e[i] \in Seq(Nat)
       /\ \A i \in 1..(D - 1) : Joined(e[i + 1], e[i], q[i + 1])
    BY <1>1, <1>9 DEF Glued, Joined
<1>12. ASSUME NEW i \in 1..m
       PROVE  /\ Len(group[i]) \in Nat /\ Len(q[i]) \in Nat /\ Begins(group[i], q[i])
              /\ i # m => Len(group[i]) = Len(q[i])
  <2>1. i \in 1..D /\ i <= m
    BY <1>3
  <2>2. PICK c : c = group[i] /\ c \in Seq(Nat) /\ Len(c) \in 1..sz
    BY DEF Chunked
  <2>3. q[i] = Resize(c, sz)
    BY <1>1, <1>2, <2>1, <2>2, PaddedSeq
  <2>4. \A j \in 1..Len(c) : Resize(c, sz)[j] = c[j]
    BY <1>3, <2>2 DEF Resize
  <2>5. Len(q[i]) = sz
    BY <1>4, <2>1
  <2>6. Begins(c, q[i])
    BY <1>3, <2>2, <2>3, <2>4, <2>5 DEF Begins
  <2>7. i # m => Len(group[i]) = sz
    BY DEF Chunked
  <2>8. QED
    BY <1>3, <2>2, <2>5, <2>6, <2>7
<1> DEFINE Good == {k \in 0..m : k # 0 => Begins(f[k], e[k]) /\ (k # m => Len(f[k]) = Len(e[k]))}
<1>13. 0 \in Good
    BY <1>3
<1>14. ASSUME NEW i \in 0..(m - 1), i \in Good PROVE i + 1 \in Good
  <2>1. PICK k \in 1..m : k = i + 1
    BY <1>3
  <2>2. CASE i = 0
    <3>1. k = 1 /\ f[k] = group[k] /\ e[k] = q[k]
      BY <1>10, <1>11, <2>1, <2>2
    <3>2. QED
      BY <1>12, <2>1, <3>1
  <2>3. CASE i # 0
    <3>1. i \in 1..(m - 1) /\ i \in 1..(D - 1) /\ i \in 1..m /\ i \in 1..D /\ i # m
      BY <1>3, <2>3
    <3>2. Begins(f[i], e[i]) /\ Len(f[i]) = Len(e[i]) /\ Len(f[i]) \in Nat
      BY <1>10, <1>14, <2>3, <3>1
    <3>3. Joined(f[k], f[i], group[k]) /\ Joined(e[k], e[i], q[k])
      BY <1>10, <1>11, <2>1, <3>1
    <3>4. Len(group[k]) \in Nat /\ Len(q[k]) \in Nat /\ Begins(group[k], q[k])
      BY <1>12
    <3>5. Begins(f[k], e[k])
      BY <3>2, <3>3, <3>4, BeginsNext
    <3>6. k # m => Len(f[k]) = Len(e[k])
      BY <1>12, <3>2, <3>3 DEF Joined
    <3>7. QED
      BY <2>1, <3>5, <3>6
  <2>4. QED
    BY <2>2, <2>3
<1> HIDE DEF Good
<1>15. 0..m \subseteq Good
    BY <1>3, <1>13, <1>14, Reaches
<1>16. Begins(f[m], e[m])
    BY <1>3, <1>15 DEF Good
<1> DEFINE More == {k \in 0..(D - m) : Begins(f[m], e[m + k])}
<1>17. 0 \in More
    BY <1>1, <1>3, <1>16
<1>18. ASSUME NEW i \in 0..(D - m - 1), i \in More PROVE i + 1 \in More
  <2>1. m + i \in 1..(D - 1) /\ m + i \in 1..D /\ m + (i + 1) = (m + i) + 1 /\ (m + i) + 1 \in 1..D
    BY <1>1, <1>3
  <2>2. PICK a, b, u, r : a = e[m + i] /\ b = e[m + (i + 1)] /\ u = f[m] /\ r = q[(m + i) + 1]
    OBVIOUS
  <2>3. Joined(b, a, r) /\ Len(a) \in Nat /\ Len(r) \in Nat /\ Len(u) \in Nat
    <3>1. PICK k \in 1..(D - 1) : k = m + i
      BY <2>1
    <3>2. Joined(e[k + 1], e[k], q[k + 1])
      BY <1>11
    <3>3. e[k] \in Seq(Nat) /\ f[m] \in Seq(Nat) /\ Len(q[k + 1]) \in Nat
      BY <1>3, <1>4, <1>10, <1>11, <2>1, <3>1
    <3>4. e[k + 1] = b /\ e[k] = a /\ q[k + 1] = r
      BY <2>1, <2>2, <3>1
    <3>5. QED
      BY <2>2, <3>2, <3>3, <3>4
  <2>4. Begins(u, a)
    BY <1>18, <2>2
  <2>5. Begins(u, b)
    <3>1. PICK x \in Nat, y \in Nat, w \in Nat : x = Len(u) /\ y = Len(a) /\ w = Len(r)
      BY <2>3
    <3>2. x <= y /\ (\A j \in 1..x : a[j] = u[j])
          /\ Len(b) = y + w /\ (\A j \in 1..y : b[j] = a[j])
      BY <2>3, <2>4, <3>1 DEF Begins, Joined
    <3>3. x <= Len(b) /\ \A j \in 1..x : b[j] = u[j]
      BY ONLY x \in Nat, y \in Nat, w \in Nat, <3>2
    <3>4. QED
      BY <3>1, <3>3 DEF Begins
  <2>6. QED
    BY <1>3, <1>18, <2>2, <2>5
<1> HIDE DEF More
<1>19. 0..(D - m) \subseteq More
  <2>1. D - m \in Nat
    BY <1>1, <1>3
  <2>2. QED
    BY <1>17, <1>18, <2>1, Reaches
<1>20. Begins(f[m], e[D])
  <2>1. D - m \in 0..(D - m) /\ m + (D - m) = D
    BY <1>1, <1>3
  <2>2. QED
    BY <1>19, <2>1 DEF More
<1>21. f[m] \in Seq(Nat) /\ e[D] \in Seq(Nat)
    BY <1>1, <1>3, <1>10, <1>11
<1>22. IsPrefix(f[m], e[D])
    BY <1>20, <1>21, BeginsIsPrefix
<1>23. QED
    BY <1>2, <1>6, <1>7, <1>22

-----------------------------------------------------------------------------
(* The groups that are stored.                                              *)

LEMMA IntervalEnds ==
    ASSUME NEW a \in Int, NEW b \in Int, a <= b
    PROVE  Min(a..b) = a /\ Max(a..b) = b
<1>1. a \in a..b /\ b \in a..b /\ \A y \in a..b : a =< y /\ b >= y
    OBVIOUS
<1>2. \A x \in a..b : (\A y \in a..b : x =< y) => x = a
    BY <1>1
<1>3. \A x \in a..b : (\A y \in a..b : x >= y) => x = b
    BY <1>1
<1>4. QED
    BY <1>1, <1>2, <1>3 DEF Min, Max

\* A run of n places after place a.
Run(t, s, a, n) == Len(t) = n /\ DOMAIN t = 1..n /\ \A i \in 1..n : t[i] = s[a + i]

LEMMA RunOf ==
    ASSUME NEW S, NEW s \in Seq(S), NEW a \in Nat, NEW n \in Nat, n # 0, a + n <= Len(s),
           NEW own, own = (a + 1)..(a + n), NEW t, t = SubSeq(s, Min(own), Max(own))
    PROVE  Run(t, s, a, n)
<1>1. Min(own) = a + 1 /\ Max(own) = a + n
    BY IntervalEnds
<1>2. PICK x, y : x = a + 1 /\ y = a + n
    OBVIOUS
<1>3. /\ x \in 1..Len(s) /\ y \in 1..Len(s) /\ x <= y /\ y - x + 1 = n
      /\ \A i \in 1..n : x + i - 1 = a + i
    BY <1>2
<1>4. t \in Seq(S) /\ Len(t) = n /\ \A i \in 1..n : t[i] = s[x + i - 1]
    BY <1>1, <1>2, <1>3, SubSeqProperties
<1>5. DOMAIN t = 1..n
    BY <1>4
<1>6. \A i \in 1..n : t[i] = s[a + i]
    BY <1>3, <1>4
<1>7. QED
    BY <1>4, <1>5, <1>6 DEF Run

\* The shards of a group, as they are stored.
LEMMA GroupStored ==
    ASSUME NEW S, stored \in Seq(S), NEW groups, NEW n \in Nat \ {0},
           FullBut(groups, n, RS_DATA_SHARDS), Laid(stored, groups, n), NEW g \in 1..n,
           NEW m, m = Len(groups[g])
    PROVE  /\ m \in 1..RS_DATA_SHARDS
           /\ Len(DataOf(g)) = m /\ DOMAIN DataOf(g) = 1..m
           /\ \A i \in 1..m : DataOf(g)[i].bytes = groups[g][i]
           /\ \A p \in 1..RS_PARITY_SHARDS :
                ParityOf(g)[p].bytes = encode_group(groups[g])[p]
<1>1. PICK b, P : b = Base(g) /\ P = RS_PARITY_SHARDS
    OBVIOUS
<1>2. PICK own, par :
        own = Own(stored, g, "Data") /\ par = Own(stored, g, "Parity")
    OBVIOUS
<1>3. DOMAIN stored = 1..Len(stored)
    OBVIOUS
<1>4. /\ b \in Nat /\ m \in 1..RS_DATA_SHARDS /\ P \in Nat
      /\ Len(stored) \in Nat /\ (b + m) + P <= Len(stored)
      /\ own = (b + 1)..(b + m) /\ par = (b + m + 1)..(b + m + P)
    BY <1>1, <1>2, <1>3, OwnPlaces
<1>5. m \in Nat /\ m # 0 /\ b + m <= Len(stored) /\ b + m \in Nat
    BY <1>4, CodingConstants
<1>6. DataOf(g) = SubSeq(stored, Min(own), Max(own))
    BY <1>2 DEF DataOf, OfGroup, Own
<1>7. ParityOf(g) = SubSeq(stored, Min(par), Max(par))
    BY <1>2 DEF ParityOf, OfGroup, Own
<1>8. /\ Len(DataOf(g)) = m /\ DOMAIN DataOf(g) = 1..m
      /\ \A i \in 1..m : DataOf(g)[i] = stored[b + i]
  <2>1. PICK t : t = DataOf(g)
    OBVIOUS
  <2>2. Run(t, stored, b, m)
    BY <1>4, <1>5, <1>6, <2>1, RunOf
  <2>3. QED
    BY <2>1, <2>2 DEF Run
<1>9. ASSUME NEW i \in 1..m PROVE DataOf(g)[i].bytes = groups[g][i]
  <2>1. stored[b + i] = DataShard(groups, g, i)
    BY <1>1 DEF Laid, DataAt
  <2>2. QED
    BY <1>8, <2>1 DEF DataShard
<1>10. ASSUME NEW p \in 1..P PROVE ParityOf(g)[p].bytes = encode_group(groups[g])[p]
  <2>1. P # 0
    BY <1>4
  <2>2. PICK a \in Nat : a = b + m
    BY <1>5
  <2>3. par = (a + 1)..(a + P) /\ a + P <= Len(stored)
    BY <1>4, <2>2
  <2>4. ParityOf(g)[p] = stored[a + p]
    <3>1. PICK t : t = ParityOf(g)
      OBVIOUS
    <3>2. Run(t, stored, a, P)
      BY <1>4, <1>7, <2>1, <2>3, <3>1, RunOf
    <3>3. QED
      BY <3>1, <3>2 DEF Run
  <2>5. stored[a + p] = ParityShard(groups, g, p)
    BY <1>1, <2>2 DEF Laid, ParityAt
  <2>6. QED
    BY <2>4, <2>5 DEF ParityShard
<1>11. QED
    BY <1>1, <1>4, <1>8, <1>9, <1>10

\* Every group of a file is a group of chunks.
LEMMA GroupChunked ==
    ASSUME NEW f, NEW chunks, NEW groups, NEW s, Coded(f, chunks, groups, s, Nat),
           Len(f) \in Nat, NEW g \in 1..Len(groups)
    PROVE  \E sz : Chunked(groups[g], Len(groups[g]), sz)
<1>1. PICK C \in Nat, K \in Nat \ {0}, D \in Nat \ {0} :
        C = Len(chunks) /\ K = CHUNK_SIZE /\ D = RS_DATA_SHARDS
    BY CodingConstants DEF Coded, Cut
<1>2. PICK U : U = Seq(Nat)
    OBVIOUS
<1>3. Cut(chunks, f, K, Nat) /\ Cut(groups, chunks, D, U)
    BY <1>1, <1>2 DEF Coded
<1>4. FullBut(chunks, C, K)
    BY ONLY <1>1, <1>3, Len(f) \in Nat, PiecesFull
<1>5. Grouped(chunks, groups, C, Len(groups))
    BY <1>1, <1>3, GroupsAre
<1>6. PICK group, m : group = groups[g] /\ m = Len(groups[g])
    OBVIOUS
<1>7. group \in Seq(U) /\ m \in 1..D
    BY <1>3, <1>6, Zenon DEF Cut
<1>8. m \in Nat /\ DOMAIN group = 1..m /\ Len(group) = m
    BY <1>6, <1>7
<1>9. PICK o \in Nat : o = Off(g)
  <2>1. g \in Nat \ {0} /\ 1 \in 1..RS_DATA_SHARDS
    BY <1>1, <1>3 DEF Cut
  <2>2. QED
    BY <2>1, PlaceIs
<1>10. \A i \in 1..m : o + i \in 1..C /\ group[i] = chunks[o + i]
    BY <1>5, <1>6, <1>9 DEF Grouped
<1>11. ASSUME NEW i \in 1..m
       PROVE  group[i] \in Seq(Nat) /\ Len(group[i]) \in 1..K /\ (i # m => Len(group[i]) = K)
  <2>1. group[i] \in Seq(Nat)
    BY <1>2, <1>7, <1>8
  <2>2. Len(group[i]) \in 1..K
    BY <1>4, <1>10 DEF FullBut
  <2>3. ASSUME i # m PROVE Len(group[i]) = K
    <3>1. o + m \in 1..C
      BY <1>7, <1>8, <1>10
    <3>2. o + i \in 1..(C - 1)
      BY <1>8, <1>10, <2>3, <3>1
    <3>3. QED
      BY <1>4, <1>10, <3>2 DEF FullBut
  <2>4. QED
    BY <2>1, <2>2, <2>3
<1>12. PICK sz : sz = Len(group[1])
    OBVIOUS
<1>13. 1 \in 1..m
    BY <1>1, <1>7
<1>14. sz \in Nat \ {0}
    BY <1>11, <1>12, <1>13
<1>15. \A i \in 1..m : Len(group[i]) \in 1..sz /\ (i # m => Len(group[i]) = sz)
  <2>1. CASE m = 1
    BY <1>12, <1>14, <2>1
  <2>2. CASE m # 1
    <3>1. sz = K
      BY <1>11, <1>12, <1>13, <2>2
    <3>2. QED
      BY <1>11, <3>1
  <2>3. QED
    BY <2>1, <2>2
<1>16. Chunked(group, m, sz)
    BY <1>1, <1>2, <1>7, <1>8, <1>11, <1>12, <1>14, <1>15 DEF Chunked
<1>17. QED
    BY <1>6, <1>16

LEMMA GroupsWithin ==
    ASSUME NEW S, stored \in Seq(S), NEW groups, NEW n \in Nat \ {0},
           FullBut(groups, n, RS_DATA_SHARDS), Laid(stored, groups, n), NEW g \in Groups
    PROVE  g \in 1..n
<1>1. PICK k \in DOMAIN stored : g = stored[k].group
    BY DEF Groups
<1>2. k \in 1..Len(stored)
    OBVIOUS
<1>3. PICK h \in 1..n : PlaceOf(k, groups, h)
    BY <1>2 DEF Laid
<1>4. PICK r \in 1..(Len(groups[h]) + RS_PARITY_SHARDS) : k = Base(h) + r
    BY <1>3 DEF PlaceOf
<1>5. ShardAt(stored[k], groups, h, r)
    BY <1>4, ShardAtPlace
<1>6. stored[k].group = h
    BY <1>5 DEF ShardAt, DataShard, ParityShard
<1>7. QED
    BY <1>1, <1>6

\* What survives of a stored group may be given to reconstruct_group.
LEMMA PlacedGiven ==
    ASSUME NEW g, NEW group, NEW m, NEW sz, Chunked(group, m, sz), NEW kept,
           Len(DataOf(g)) = m, \A i \in 1..m : DataOf(g)[i].bytes = group[i],
           \A p \in 1..RS_PARITY_SHARDS : ParityOf(g)[p].bytes = encode_group(group)[p]
    PROVE  Given(Placed(g, kept), group, m, sz)
<1>1. PICK D \in Nat, P \in Nat :
        D = RS_DATA_SHARDS /\ P = RS_PARITY_SHARDS /\ Width = D + P
    BY CodingConstants DEF Width
<1>2. m \in 1..D
    BY <1>1 DEF Chunked
<1>3. PICK sh : sh = Placed(g, kept)
    OBVIOUS
<1>4. DOMAIN sh = 1..(D + P)
    BY <1>1, <1>3 DEF Placed
<1>5. ASSUME NEW i \in 1..(D + P)
      PROVE  \/ sh[i] = Missing
             \/ i <= m /\ sh[i] = group[i]
             \/ i > D /\ sh[i] = ParityRows(group, sz)
  <2>1. sh[i] = CASE i \notin kept -> Missing
                  [] i \in kept /\ i <= D ->
                       IF i <= m THEN DataOf(g)[i].bytes ELSE Missing
                  [] OTHER -> ParityOf(g)[i - D].bytes
    BY <1>1, <1>3 DEF Placed
  <2>2. CASE i \notin kept
    <3>1. ~(i \in kept /\ i <= D)
      BY <2>2
    <3>2. QED
      BY <2>1, <2>2, <3>1
  <2>3. CASE i \in kept /\ i <= D
    <3>1. sh[i] = IF i <= m THEN DataOf(g)[i].bytes ELSE Missing
      BY <2>1, <2>3
    <3>2. CASE i <= m
      <4>1. i \in 1..m
        BY <1>2, <3>2
      <4>2. QED
        BY <3>1, <3>2, <4>1
    <3>3. CASE ~(i <= m)
      BY <3>1, <3>3
    <3>4. QED
      BY <3>2, <3>3
  <2>4. CASE i \in kept /\ ~(i <= D)
    <3>1. sh[i] = ParityOf(g)[i - D].bytes
      BY <2>1, <2>4
    <3>2. PICK p \in 1..P : p = i - D
      BY <2>4
    <3>3. ParityOf(g)[p].bytes = encode_group(group)[p]
      BY <1>1
    <3>4. encode_group(group)[p] = ParityRows(group, sz)
      BY <1>1, EncodeIs
    <3>5. i > D
      BY <2>4
    <3>6. QED
      BY <3>1, <3>2, <3>3, <3>4, <3>5
  <2>5. QED
    BY <2>2, <2>3, <2>4
<1>6. QED
    BY <1>1, <1>3, <1>4, <1>5 DEF Given

\* As many shards as there are data shards bring a stored group back.
LEMMA GroupRestored ==
    ASSUME MoreData, NEW f \in Seq(Nat), Len(f) # 0, stored = chunk_file(f), NEW g \in Groups,
           NEW kept, Cardinality(Present(Placed(g, kept))) >= RS_DATA_SHARDS
    PROVE  IsPrefix(FlattenSeq([i \in DOMAIN DataOf(g) |-> DataOf(g)[i].bytes]),
                    reconstruct_group(Placed(g, kept)))
<1>1. PICK chunks, groups : Coded(f, chunks, groups, stored, Nat)
    BY FileCoded
<1>2. PICK n \in Nat \ {0} : n = Len(groups)
    BY <1>1 DEF Coded, Cut
<1>t. PICK T : T = ShardsIn(groups)
    OBVIOUS
<1>3. FullBut(groups, n, RS_DATA_SHARDS) /\ Laid(stored, groups, n) /\ stored \in Seq(T)
    BY <1>1, <1>2, <1>t DEF Coded
<1>4. g \in 1..n
    BY <1>3, GroupsWithin
<1>5. PICK group, m : group = groups[g] /\ m = Len(groups[g])
    OBVIOUS
<1>6. PICK sz : Chunked(group, m, sz)
  <2>1. Len(f) \in Nat /\ g \in 1..Len(groups)
    BY <1>2, <1>4
  <2>2. PICK s : s = stored
    OBVIOUS
  <2>3. Coded(f, chunks, groups, s, Nat)
    BY ONLY <1>1, <2>2
  <2>4. \E x : Chunked(groups[g], Len(groups[g]), x)
    BY ONLY <2>1, <2>3, GroupChunked
  <2>5. QED
    BY ONLY <1>5, <2>4
<1>7. /\ Len(DataOf(g)) = m /\ DOMAIN DataOf(g) = 1..m
      /\ \A i \in 1..m : DataOf(g)[i].bytes = group[i]
      /\ \A p \in 1..RS_PARITY_SHARDS : ParityOf(g)[p].bytes = encode_group(group)[p]
    BY <1>3, <1>4, <1>5, GroupStored
<1>8. PICK sh : sh = Placed(g, kept)
    OBVIOUS
<1>9. Given(sh, group, m, sz)
    BY <1>6, <1>7, <1>8, PlacedGiven
<1>10. reconstruct_group(sh) = FlattenSeq(PaddedTo(group, sz))
    BY <1>6, <1>8, <1>9, GroupBack
<1>11. [i \in DOMAIN DataOf(g) |-> DataOf(g)[i].bytes] = group
  <2>1. group = [i \in 1..m |-> group[i]]
    BY <1>6 DEF Chunked
  <2>2. [i \in DOMAIN DataOf(g) |-> DataOf(g)[i].bytes] = [i \in 1..m |-> group[i]]
    BY <1>7
  <2>3. QED
    BY <2>1, <2>2
<1>12. IsPrefix(FlattenSeq(group), FlattenSeq(PaddedTo(group, sz)))
    BY <1>6, PaddedBegins
<1>13. QED
    BY <1>8, <1>10, <1>11, <1>12

-----------------------------------------------------------------------------
(* The invariant of a file that is restored.                                *)

\* What is stored is what chunk_file made of the file; what was reconstructed is what
\* reconstruct_group made of shards of a stored group.
RestoreInv ==
    /\ file = <<>> => stored = <<>>
    /\ stored # <<>> => /\ file \in Seq(Nat) /\ Len(file) # 0
                        /\ stored = chunk_file(file) /\ manifest = build_manifest(stored)
    /\ restored # NotRestored =>
         /\ stored # <<>>
         /\ \E g \in Groups : \E kept \in SUBSET (1..Width) :
              /\ restored = [group |-> g, bytes |-> reconstruct_group(Placed(g, kept))]
              /\ survivors = Present(Placed(g, kept))

LEMMA RestoreInvInit == CodingInit => RestoreInv
    BY DEF CodingInit, RestoreInv

LEMMA RestoreInvUpload ==
    ASSUME RestoreInv, NEW n \in FileSizes, Upload(n)
    PROVE  RestoreInv'
<1>1. n \in Nat /\ n # 0
    BY FileCodingAssumption
<1>2. /\ file = <<>> /\ file' = [i \in 1..n |-> i] /\ stored' = chunk_file(file')
      /\ manifest' = build_manifest(stored') /\ UNCHANGED restored
    BY DEF Upload
<1>3. stored = <<>> /\ restored = NotRestored
    BY <1>2 DEF RestoreInv
<1>4. file' \in Seq(Nat) /\ Len(file') = n /\ file' # <<>>
  <2>1. file' \in [1..n -> Nat]
    BY <1>1, <1>2
  <2>2. QED
    BY <1>1, <2>1
<1>5. QED
    BY <1>1, <1>2, <1>3, <1>4 DEF RestoreInv

LEMMA RestoreInvReconstruct ==
    ASSUME RestoreInv, NEW g \in Groups, NEW kept \in SUBSET (1..Width), Reconstruct(g, kept)
    PROVE  RestoreInv'
<1>1. /\ restored' = [group |-> g, bytes |-> reconstruct_group(Placed(g, kept))]
      /\ survivors' = Present(Placed(g, kept))
      /\ UNCHANGED <<file, stored, manifest>>
    BY DEF Reconstruct
<1>2. stored # <<>>
    BY DEF Groups
<1>3. Groups' = Groups /\ Placed(g, kept)' = Placed(g, kept)
    BY <1>1 DEF Groups, Placed, DataOf, ParityOf, OfGroup
<1>4. QED
    BY <1>1, <1>2, <1>3 DEF RestoreInv

LEMMA RestoreInvSame ==
    ASSUME RestoreInv, UNCHANGED <<file, stored, manifest, restored, survivors>>
    PROVE  RestoreInv'
<1>1. Groups' = Groups /\ \A g, kept : Placed(g, kept)' = Placed(g, kept)
    BY DEF Groups, Placed, DataOf, ParityOf, OfGroup
<1>2. QED
    BY <1>1 DEF RestoreInv

LEMMA RestoreInvHolds == RestoreInv /\ MoreData => FilesRestored
<1> SUFFICES ASSUME RestoreInv, MoreData PROVE FilesRestored
    OBVIOUS
<1>1. ReassembledExact
  <2> SUFFICES ASSUME stored # <<>>
               PROVE  reassemble_file(manifest, stored, Len(file)) = file
    BY DEF ReassembledExact
  <2>1. /\ file \in Seq(Nat) /\ Len(file) # 0
        /\ stored = chunk_file(file) /\ manifest = build_manifest(stored)
    BY DEF RestoreInv
  <2>2. PICK f, s : f = file /\ s = stored
    OBVIOUS
  <2>3. \E chunks, groups : Coded(f, chunks, groups, s, Nat)
    BY <2>1, <2>2, FileCoded
  <2>4. reassemble_file(build_manifest(s), s, Len(f)) = f
    BY <2>1, <2>2, <2>3, ComesBack
  <2>5. QED
    BY <2>1, <2>2, <2>4
<1>2. RestoredExact
  <2> SUFFICES ASSUME restored # NotRestored
               PROVE  IF Cardinality(survivors) < RS_DATA_SHARDS THEN restored.bytes = Error
                      ELSE IsPrefix(FlattenSeq([i \in DOMAIN DataOf(restored.group) |->
                                                  DataOf(restored.group)[i].bytes]),
                                    restored.bytes)
    BY DEF RestoredExact
  <2>1. stored # <<>>
    BY DEF RestoreInv
  <2>2. file \in Seq(Nat) /\ Len(file) # 0 /\ stored = chunk_file(file)
    BY <2>1 DEF RestoreInv
  <2>3. PICK g \in Groups, kept \in SUBSET (1..Width) :
          /\ restored = [group |-> g, bytes |-> reconstruct_group(Placed(g, kept))]
          /\ survivors = Present(Placed(g, kept))
    BY DEF RestoreInv
  <2>4. PICK sh : sh = Placed(g, kept)
    OBVIOUS
  <2>5. restored.group = g /\ restored.bytes = reconstruct_group(sh) /\ survivors = Present(sh)
    BY <2>3, <2>4
  <2>6. CASE Cardinality(survivors) < RS_DATA_SHARDS
    <3>1. reconstruct_group(sh) = Error
      BY <2>5, <2>6 DEF reconstruct_group
    <3>2. QED
      BY <2>5, <2>6, <3>1
  <2>7. CASE ~(Cardinality(survivors) < RS_DATA_SHARDS)
    <3>1. Cardinality(Present(sh)) \in Nat
      <4>1. DOMAIN sh = 1..Width
        BY <2>4, Zenon DEF Placed, Width
      <4>2. IsFiniteSet(1..Width) /\ Present(sh) \subseteq 1..Width
        BY <4>1, FS_Interval, CodingConstants DEF Present
      <4>3. QED
        BY <4>2, FS_Subset, FS_CardinalityType
    <3>2. Cardinality(Present(Placed(g, kept))) >= RS_DATA_SHARDS
      BY <2>4, <2>5, <2>7, <3>1, CodingConstants
    <3>3. PICK f : f = file
      OBVIOUS
    <3>4. IsPrefix(FlattenSeq([i \in DOMAIN DataOf(g) |-> DataOf(g)[i].bytes]),
                   reconstruct_group(Placed(g, kept)))
      BY <2>2, <3>2, <3>3, GroupRestored
    <3>5. QED
      BY <2>4, <2>5, <2>7, <3>4
  <2>8. QED
    BY <2>6, <2>7
<1>3. QED
    BY <1>1, <1>2 DEF FilesRestored

\* Every byte of a file comes back, from all of its chunks or from any RS_DATA_SHARDS
\* surviving shards of a group, and fewer are refused, for every file, chunk and group
\* size with more data shards than parity shards and one (4 and 2 in fs/types.rs): with
\* less, the short last chunk of a file can be the first survivor and give the size.
THEOREM FilesAlwaysRestored == MoreData => (CodingSpec => []FilesRestored)
<1> SUFFICES ASSUME MoreData PROVE CodingSpec => []FilesRestored
    OBVIOUS
<1>1. CodingInit => RestoreInv
    BY RestoreInvInit
<1>2. RestoreInv /\ [CodingNext]_codingVars => RestoreInv'
  <2> SUFFICES ASSUME RestoreInv, [CodingNext]_codingVars PROVE RestoreInv'
    OBVIOUS
  <2>1. ASSUME NEW n \in FileSizes, Upload(n) PROVE RestoreInv'
    BY <2>1, RestoreInvUpload
  <2>2. ASSUME NEW g \in Groups, NEW kept \in SUBSET (1..(RS_DATA_SHARDS + RS_PARITY_SHARDS)),
               Reconstruct(g, kept)
        PROVE  RestoreInv'
    BY <2>2, RestoreInvReconstruct DEF Width
  <2>3. ASSUME NEW ranges, generate(ranges) PROVE RestoreInv'
    BY <2>3, RestoreInvSame DEF generate
  <2>4. ASSUME NEW size, NEW late, Prove(size, late) PROVE RestoreInv'
    BY <2>4, RestoreInvSame DEF Prove
  <2>5. CASE UNCHANGED codingVars
    BY <2>5, RestoreInvSame DEF codingVars
  <2>6. QED
    BY <2>1, <2>2, <2>3, <2>4, <2>5 DEF CodingNext
<1>3. RestoreInv => FilesRestored
    BY RestoreInvHolds
<1>4. QED
    BY <1>1, <1>2, <1>3, PTL DEF CodingSpec

=============================================================================
