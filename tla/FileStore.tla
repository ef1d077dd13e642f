------------------------------ MODULE FileStore ------------------------------
(***************************************************************************)
(* The chunk store of the file system (fs/local_store.rs), the upload and  *)
(* download endpoints (api.rs), and the peer messages that write to the    *)
(* same directory and trees (p2p.rs).                                      *)
(*                                                                         *)
(* A chunk is a blob, a file named by the hash of its bytes, and an entry  *)
(* of the index tree.  Nothing locks the two: an upload counts the index,  *)
(* writes the blob, then inserts the entry, chunk after chunk, while other *)
(* uploads, peers and deletions do the same.  Writing a blob truncates the *)
(* file first, so that it is partial while anybody writes it, and stays so *)
(* when the write fails.  A blob that is removed while it is written is    *)
(* gone, whatever its writer still does to the open file.                  *)
(*                                                                         *)
(* Chunk ids are honest: put_chunk and ChunkResponse compare the id with   *)
(* the hash of the bytes.  Pins, which nothing reads, and what only counts *)
(* or lists are left out.                                                  *)
(***************************************************************************)
EXTENDS Integers, Sequences, FiniteSets

CONSTANTS
    Uploads,            \* upload requests
    Layout,             \* Layout[u]: u's chunks in order, [id, data]
    SameLabel,          \* pairs of uploads of equal name, size and owner
    ChunkIds,
    Shared,             \* bound: the chunks that peers send and somebody deletes
    MAX_LOCAL_CHUNKS

None == "none"

\* An empty file is refused, so that every layout has a chunk.
ASSUME FileStoreAssumption ==
    /\ IsFiniteSet(Uploads) /\ Uploads # {}
    /\ \A u \in Uploads : Layout[u] \in Seq([id : ChunkIds, data : BOOLEAN]) /\ Layout[u] # <<>>
    /\ None \notin Uploads \cup ChunkIds
    /\ Shared \subseteq ChunkIds
    /\ SameLabel \subseteq Uploads \X Uploads
    /\ MAX_LOCAL_CHUNKS \in Nat

VARIABLES
    index,       \* keys of the fs_chunks tree
    blob,        \* blob[c]: "none", "partial" or "whole"
    manifests,   \* fs_manifests: file id -> the upload whose layout it holds
    upload,      \* upload[u]: its step, its file id and the chunks it has stored
    receiving,   \* the chunk that the peer connection is writing, if any
    deleting,    \* the chunk whose entry delete_chunk has removed, and not its blob
    damaged      \* history: chunks lost to a failed rewrite or to a deletion

fileVars == <<index, blob, manifests, upload, receiving, deleting, damaged>>

\* The file id hashes the name, size, owner, number of chunks and the time in
\* milliseconds: it names an upload, unless another one of the same label is
\* made in the same millisecond.
FileIds(u) == {u} \cup {v \in Uploads : <<v, u>> \in SameLabel}

FileStoreInit ==
    /\ index = {}
    /\ blob = [c \in ChunkIds |-> "none"]
    /\ manifests = [f \in Uploads |-> None]
    /\ upload = [u \in Uploads |-> [at |-> "idle", file |-> None, stored |-> 0]]
    /\ receiving = None
    /\ deleting = None
    /\ damaged = {}

-----------------------------------------------------------------------------
(* fs_upload.                                                              *)

\* The chunk that u stores next.
Current(u) == Layout[u][upload[u].stored + 1].id

\* The uploads that are writing chunk c, and whether anybody is.
WritersOf(c) == {u \in Uploads : upload[u].at = "blob" /\ Current(u) = c}
BeingWritten(c) == receiving = c \/ WritersOf(c) # {}

\* The file is cut into chunks and its manifest is stored, before any chunk is.
put_manifest(u) ==
    /\ upload[u].at = "idle"
    /\ \E f \in FileIds(u) :
         /\ manifests' = [manifests EXCEPT ![f] = u]
         /\ upload' = [upload EXCEPT ![u].at = "count", ![u].file = f]
    /\ UNCHANGED <<index, blob, receiving, deleting, damaged>>

\* Mutant of CountChunks: a full store takes one chunk more.
CountPastLimit(u) ==
    /\ upload[u].at = "count"
    /\ upload' = [upload EXCEPT ![u].at = IF Cardinality(index) > MAX_LOCAL_CHUNKS
                                          THEN "failed" ELSE "open"]
    /\ UNCHANGED <<index, blob, manifests, receiving, deleting, damaged>>

\* put_chunk, the limit: also for a chunk that is stored already.
CountChunks(u) ==
    /\ upload[u].at = "count"
    /\ upload' = [upload EXCEPT ![u].at = IF Cardinality(index) >= MAX_LOCAL_CHUNKS
                                          THEN "failed" ELSE "open"]
    /\ UNCHANGED <<index, blob, manifests, receiving, deleting, damaged>>

\* put_chunk, the blob: the file is opened and truncated, then written.
OpenBlob(u) ==
    /\ upload[u].at = "open"
    /\ blob' = [blob EXCEPT ![Current(u)] = "partial"]
    /\ upload' = [upload EXCEPT ![u].at = "blob"]
    /\ UNCHANGED <<index, manifests, receiving, deleting, damaged>>

\* An upload at "orphan" writes a file that has been removed.
WriteBlob(u) ==
    /\ upload[u].at \in {"blob", "orphan"}
    /\ LET c == Current(u)
           last == WritersOf(c) = {u} /\ receiving # c
       IN  /\ blob' = IF last THEN [blob EXCEPT ![c] = "whole"] ELSE blob
           /\ damaged' = IF last THEN damaged \ {c} ELSE damaged
    /\ upload' = [upload EXCEPT ![u].at = "index"]
    /\ UNCHANGED <<index, manifests, receiving, deleting>>

\* Mutant of WriteBlobFails: the error is not returned.
IgnoreWriteError(u) ==
    /\ upload[u].at = "blob"
    /\ upload' = [upload EXCEPT ![u].at = "index"]
    /\ UNCHANGED <<index, blob, manifests, receiving, deleting, damaged>>

\* The disk is full: the upload ends with an error, and with a manifest.
WriteBlobFails(u) ==
    /\ upload[u].at = "blob"
    /\ damaged' = damaged \cup {Current(u)}
    /\ upload' = [upload EXCEPT ![u].at = "failed"]
    /\ UNCHANGED <<index, blob, manifests, receiving, deleting>>

\* put_chunk, the entry; the next chunk, or the answer.
InsertIndex(u) ==
    /\ upload[u].at = "index"
    /\ index' = index \cup {Current(u)}
    /\ upload' = [upload EXCEPT ![u].stored = @ + 1,
                                ![u].at = IF upload[u].stored + 1 = Len(Layout[u])
                                          THEN "answered" ELSE "count"]
    /\ UNCHANGED <<blob, manifests, receiving, deleting, damaged>>

-----------------------------------------------------------------------------
(* Peers and deletions.                                                    *)

\* A peer sends a chunk whose id matches: the blob is written, without an index
\* entry and without a look at the limit.
ChunkResponse(c) ==
    /\ receiving = None
    /\ receiving' = c
    /\ blob' = [blob EXCEPT ![c] = "partial"]
    /\ UNCHANGED <<index, manifests, upload, deleting, damaged>>

EndChunkResponse(ok) ==
    /\ receiving # None
    /\ receiving' = None
    /\ IF ok
       THEN /\ blob' = IF WritersOf(receiving) = {} THEN [blob EXCEPT ![receiving] = "whole"] ELSE blob
            /\ damaged' = IF WritersOf(receiving) = {} THEN damaged \ {receiving} ELSE damaged
       ELSE /\ damaged' = damaged \cup {receiving}
            /\ UNCHANGED blob
    /\ UNCHANGED <<index, manifests, upload, deleting>>

\* A peer sends a manifest: it replaces whatever the file's manifest was.
ManifestResponse(f, u) ==
    /\ receiving = None
    /\ manifests' = [manifests EXCEPT ![f] = u]
    /\ UNCHANGED <<index, blob, upload, receiving, deleting, damaged>>

\* delete_chunk: the entry first, then the blob, whose removal may fail.
delete_chunk(c) ==
    /\ deleting = None
    /\ index' = index \ {c}
    /\ deleting' = c
    /\ UNCHANGED <<blob, manifests, upload, receiving, damaged>>

RemoveBlob(ok) ==
    /\ deleting # None
    /\ deleting' = None
    /\ IF ok /\ blob[deleting] # "none"
       THEN /\ blob' = [blob EXCEPT ![deleting] = "none"]
            /\ damaged' = damaged \cup {deleting}
            /\ upload' = [u \in Uploads |-> IF u \in WritersOf(deleting)
                                            THEN [upload[u] EXCEPT !.at = "orphan"] ELSE upload[u]]
            /\ receiving' = IF receiving = deleting THEN None ELSE receiving
       ELSE UNCHANGED <<blob, damaged, upload, receiving>>
    /\ UNCHANGED <<index, manifests>>

FileStoreNext ==
    \/ \E u \in Uploads :
         \/ put_manifest(u) \/ CountChunks(u) \/ OpenBlob(u)
         \/ WriteBlob(u) \/ WriteBlobFails(u) \/ InsertIndex(u)
    \/ \E c \in Shared : ChunkResponse(c) \/ delete_chunk(c)
    \/ \E ok \in BOOLEAN : EndChunkResponse(ok) \/ RemoveBlob(ok)
    \/ \E f, u \in Uploads : ManifestResponse(f, u)

FileStoreSpec == FileStoreInit /\ [][FileStoreNext]_fileVars

-----------------------------------------------------------------------------
(* Properties.                                                             *)

\* What the index lists can be read: its blob is whole, unless somebody is
\* writing it anew, such a write failed, or a deletion took it away.
IndexedBacked ==
    \A c \in index : blob[c] = "whole" \/ BeingWritten(c) \/ c \in damaged

\* fs_download and reassemble_file: every data chunk of the manifest is read from
\* its blob, in order; parity is not used.
Downloads(f) ==
    manifests[f] # None /\ \A i \in DOMAIN Layout[manifests[f]] :
        LET chunk == Layout[manifests[f]][i] IN chunk.data => blob[chunk.id] = "whole"

\* A file whose upload was answered can be downloaded, whatever other uploads,
\* peers and limits did meanwhile: unless one of its chunks is being rewritten or
\* was damaged, or its manifest was replaced by a peer's or by that of another
\* upload of the same label.
AnsweredDownloads ==
    \A u \in Uploads : upload[u].at = "answered" /\ manifests[upload[u].file] = u =>
        \/ Downloads(upload[u].file)
        \/ \E i \in DOMAIN Layout[u] :
             BeingWritten(Layout[u][i].id) \/ Layout[u][i].id \in damaged

\* Each of the concurrent uploads may pass the limit by the chunk it was let in
\* for, and no more.
LimitOvershoot ==
    Cardinality(index) <= MAX_LOCAL_CHUNKS + Cardinality(Uploads) - 1

\* The chunk index is sound under concurrent put_chunk calls, failures and
\* deletions: what it lists is there, and it stays within reach of its limit.
IndexSound ==
    /\ IndexedBacked
    /\ LimitOvershoot

=============================================================================
