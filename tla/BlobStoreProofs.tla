--------------------------- MODULE BlobStoreProofs ---------------------------
(* Proofs about BlobStore, for any number of uploads and contents. *)
EXTENDS BlobStore, TLAPS

(* Inductive strengthening of StoredIsPlaced: the promise already holds for  *)
(* an upload that has found an existing file and not yet discarded its own.  *)
Placed ==
    \A u \in Upload :
        upload[u].pc \in {"reuse", "stored"} => upload[u].hash \in disk \/ u \in unlinked

StoreInv == StoreTypeOK /\ Placed

(* An empty store satisfies the invariant (LocalFsStore::open). *)
LEMMA InitStoreInv == StoreInit => StoreInv
<1> SUFFICES ASSUME StoreInit PROVE StoreInv
  OBVIOUS
<1>1. upload \in [Upload -> [pc : UploadPc, hash : Hash]]
  BY DEF StoreInit, UploadPc
<1>2. \A u \in Upload : upload[u].pc = "idle"
  BY DEF StoreInit
<1>3. QED
  BY <1>1, <1>2 DEF StoreInit, StoreInv, StoreTypeOK, Placed

(* Every step of an upload keeps the types and the promise. *)
LEMMA UploadStep ==
  ASSUME StoreInv, NEW u \in Upload, WriteStart(u) \/ WriteAbort(u) \/ WriteStep(u)
                                          \/ WriteDiscardFails(u)
  PROVE  StoreInv'
<1> USE DEF StoreInv, StoreTypeOK, UploadPc, Goto
<1>1. CASE WriteStart(u)
  BY <1>1 DEF WriteStart, Placed
<1>2. CASE WriteAbort(u)
  BY <1>2 DEF WriteAbort, InFlight, Placed
<1>3. CASE WriteCheck(u)
  BY <1>3 DEF WriteCheck, Placed
<1>4. CASE WriteDiscard(u)
  BY <1>4 DEF WriteDiscard, Placed
<1>5. CASE WriteRename(u)
  BY <1>5 DEF WriteRename, Placed
<1>6. CASE WriteRenameFails(u)
  BY <1>6 DEF WriteRenameFails, Placed
<1>7. CASE WriteDiscardFails(u)
  BY <1>7 DEF WriteDiscardFails, Placed
<1>8. QED
  BY <1>1, <1>2, <1>3, <1>4, <1>5, <1>6, <1>7 DEF WriteStep

(* Every step of an upload, unlink, open and restart keeps the invariant. *)
LEMMA NextStoreInv == StoreInv /\ [StoreNext]_storeVars => StoreInv'
<1> SUFFICES ASSUME StoreInv, [StoreNext]_storeVars PROVE StoreInv'
  OBVIOUS
<1>1. ASSUME NEW h \in Hash, DeleteBlob(h) \/ DeleteDropped(h) \/ DeleteLate(h)
      PROVE  StoreInv'
  <2>1. CASE DeleteBlob(h)
    BY <2>1 DEF DeleteBlob, Unlink, Relying, StoreInv, StoreTypeOK, Placed
  <2>2. CASE DeleteDropped(h)
    BY <2>2 DEF DeleteDropped, StoreInv, StoreTypeOK, Placed
  <2>3. CASE DeleteLate(h)
    BY <2>3 DEF DeleteLate, Unlink, Relying, StoreInv, StoreTypeOK, Placed
  <2>4. QED
    BY <1>1, <2>1, <2>2, <2>3
<1>2. CASE OpenStore
  BY <1>2 DEF OpenStore, StoreInv, StoreTypeOK, Placed
<1>3. CASE RestartStore
  BY <1>3 DEF RestartStore, InFlight, StoreInv, StoreTypeOK, UploadPc, Placed
<1>4. CASE UNCHANGED storeVars
  BY <1>4 DEF storeVars, StoreInv, StoreTypeOK, Placed
<1>5. QED
  BY <1>1, <1>2, <1>3, <1>4, UploadStep DEF StoreNext

(* The types of the blob directory and its uploads hold for every number of  *)
(* concurrent write_streamed calls.                                          *)
THEOREM StoreTypeCorrect == StoreSpec => []StoreTypeOK
<1>1. StoreInv => StoreTypeOK
  BY DEF StoreInv
<1>2. QED
  BY InitStoreInv, NextStoreInv, <1>1, PTL DEF StoreSpec

(* write_streamed never returns Ok for a file that is not in place, unless   *)
(* the file was unlinked after the call had found or placed it.              *)
THEOREM OkMeansPlaced == StoreSpec => []StoredIsPlaced
<1>1. StoreInv => StoredIsPlaced
  BY DEF StoreInv, Placed, StoredIsPlaced
<1>2. QED
  BY InitStoreInv, NextStoreInv, <1>1, PTL DEF StoreSpec
=============================================================================
