------------------------------ MODULE BlobStore ------------------------------
(***************************************************************************)
(* The content-addressed blob directory of marmotte-core                    *)
(* (crates/marmotte-core/src/storage.rs): uploads that run concurrently,   *)
(* each streaming into its own tmp/<uuid> file and then placing it under   *)
(* blobs/<aa>/<bb>/<sha256> or discarding it, and the unlinks and purges   *)
(* that other tasks and processes do meanwhile.                            *)
(*                                                                         *)
(* One element of Upload stands for one call of write_streamed, with its   *)
(* own uuid.  A file's content is determined by its name, so disk is the   *)
(* set of hashes that have a file.                                         *)
(***************************************************************************)
EXTENDS Content

CONSTANT
    Upload          \* calls of write_streamed (bound: uploads ever made)

VARIABLES
    disk,           \* files under blobs/
    tmp,            \* files under tmp/, named by the upload that made them
    upload,         \* [Upload -> [pc, hash]]; hash is the body's digest
    late,           \* files whose unlink is in the blocking pool although the
                    \* caller of delete_blob is gone
    unlinked        \* history: uploads whose blob was unlinked after they
                    \* had found or placed it

storeVars == <<disk, tmp, upload, late, unlinked>>

UploadPc == {"idle", "streaming", "reuse", "place", "stored", "failed"}

(* Uploads whose write_streamed call has not returned. *)
InFlight == {u \in Upload : upload[u].pc \in {"streaming", "reuse", "place"}}

(* Uploads that rely on the file of h being there. *)
Relying(h) ==
    {u \in Upload : upload[u].hash = h /\ upload[u].pc \in {"reuse", "stored"}}

Goto(u, pc) == upload' = [upload EXCEPT ![u].pc = pc]

-----------------------------------------------------------------------------
(* File::create of a fresh tmp/<uuid>; upload[u].hash is the digest of the  *)
(* body that is about to be read.                                           *)
WriteStart(u) ==
    /\ upload[u].pc = "idle"
    /\ tmp' = tmp \cup {u}
    /\ Goto(u, "streaming")
    /\ UNCHANGED <<disk, late, unlinked>>

(* A body chunk, a write, the sync or create_dir_all fails, or the request  *)
(* is cancelled at an await: the call ends and the tmp file stays.  (A file *)
(* operation the blocking pool already runs completes nevertheless: that is *)
(* WriteDiscard or WriteRename, and the caller cancelled after it.)         *)
WriteAbort(u) ==
    /\ u \in InFlight
    /\ Goto(u, "failed")
    /\ UNCHANGED <<disk, tmp, late, unlinked>>

(* The stream has ended and is synced; dest.exists() decides.               *)
WriteCheck(u) ==
    /\ upload[u].pc = "streaming"
    /\ Goto(u, IF upload[u].hash \in disk THEN "reuse" ELSE "place")
    /\ UNCHANGED <<disk, tmp, late, unlinked>>

(* "Existing blob wins": the tmp file is removed ... *)
WriteDiscard(u) ==
    /\ upload[u].pc = "reuse"
    /\ tmp' = tmp \ {u}
    /\ Goto(u, "stored")
    /\ UNCHANGED <<disk, late, unlinked>>

(* ... or stays: the error of remove_file is ignored. *)
WriteDiscardFails(u) ==
    /\ upload[u].pc = "reuse"
    /\ Goto(u, "stored")
    /\ UNCHANGED <<disk, tmp, late, unlinked>>

(* rename(2) onto the blob path, which replaces a file another upload has   *)
(* placed meanwhile; it fails when the tmp file is gone.                    *)
WriteRename(u) ==
    /\ upload[u].pc = "place"
    /\ u \in tmp
    /\ disk' = disk \cup {upload[u].hash}
    /\ tmp' = tmp \ {u}
    /\ Goto(u, "stored")
    /\ UNCHANGED <<late, unlinked>>

(* Mutant of WriteRenameFails: the error is ignored. *)
WriteRenameFailsSilently(u) ==
    /\ upload[u].pc = "place"
    /\ u \notin tmp
    /\ Goto(u, "stored")
    /\ UNCHANGED <<disk, tmp, late, unlinked>>

(* The tmp file was purged meanwhile: rename(2) fails, and so does the call. *)
WriteRenameFails(u) ==
    /\ upload[u].pc = "place"
    /\ u \notin tmp
    /\ Goto(u, "failed")
    /\ UNCHANGED <<disk, tmp, late, unlinked>>

(* remove_file of the blob of h. *)
Unlink(h) ==
    /\ disk' = disk \ {h}
    /\ unlinked' = unlinked \cup Relying(h)
    /\ UNCHANGED <<tmp, upload>>

(* delete_blob: idempotent. *)
DeleteBlob(h) == Unlink(h) /\ UNCHANGED late

(* The caller of delete_blob is cancelled while remove_file waits in the    *)
(* blocking pool, which nothing takes back ...                              *)
DeleteDropped(h) ==
    /\ late' = late \cup {h}
    /\ UNCHANGED <<disk, tmp, upload, unlinked>>

(* ... and runs at any time later.  (It may fail and change nothing: the    *)
(* step need not come.)                                                     *)
DeleteLate(h) ==
    /\ h \in late
    /\ late' = late \ {h}
    /\ Unlink(h)

(* LocalFsStore::open by another process (marmotte init) on a live store:   *)
(* it removes every file in tmp/, those of live uploads too.                *)
OpenStore ==
    /\ tmp' = {}
    /\ UNCHANGED <<disk, upload, late, unlinked>>

(* The server process stops and starts again: its uploads and its blocking  *)
(* pool are gone and LocalFsStore::open purges tmp/.                        *)
RestartStore ==
    /\ tmp' = {}
    /\ late' = {}
    /\ upload' = [u \in Upload |-> IF u \in InFlight
                                   THEN [upload[u] EXCEPT !.pc = "failed"]
                                   ELSE upload[u]]
    /\ UNCHANGED <<disk, unlinked>>

WriteStep(u) ==
    \/ WriteCheck(u)
    \/ WriteDiscard(u)
    \/ WriteRename(u)
    \/ WriteRenameFails(u)

StoreInit ==
    /\ disk = {}
    /\ tmp = {}
    /\ upload \in [Upload -> {[pc |-> "idle", hash |-> h] : h \in Hash}]
    /\ late = {}
    /\ unlinked = {}

StoreNext ==
    \/ \E u \in Upload : WriteStart(u)
    \/ \E u \in Upload : WriteAbort(u)
    \/ \E u \in Upload : WriteStep(u)
    \/ \E u \in Upload : WriteDiscardFails(u)
    \/ \E h \in Hash : DeleteBlob(h) \/ DeleteDropped(h) \/ DeleteLate(h)
    \/ OpenStore
    \/ RestartStore

(* tokio polls every runnable task: an upload whose body has ended finishes. *)
StoreSpec ==
    /\ StoreInit /\ [][StoreNext]_storeVars
    /\ \A u \in Upload : WF_storeVars(WriteStep(u))

-----------------------------------------------------------------------------
(* Properties *)

(* The files and uploads have their types; a tmp file was made by an upload  *)
(* that has started, and only uploads that relied on a blob lost it          *)
(* (write_streamed).                                                         *)
StoreTypeOK ==
    /\ disk \subseteq Hash
    /\ tmp \subseteq Upload
    /\ upload \in [Upload -> [pc : UploadPc, hash : Hash]]
    /\ late \subseteq Hash
    /\ unlinked \subseteq Upload
    /\ \A u \in tmp : upload[u].pc # "idle"
    /\ \A u \in unlinked : upload[u].pc \in {"reuse", "stored", "failed"}

(* A write_streamed call that returned Ok has its file in place, unless      *)
(* somebody unlinked it after the call had found or placed it: concurrent    *)
(* writers of one hash, purges of tmp/, failed renames and restarts never    *)
(* make it return Ok for a file that is not there.                           *)
StoredIsPlaced ==
    \A u \in Upload :
        upload[u].pc = "stored" => upload[u].hash \in disk \/ u \in unlinked

=============================================================================
