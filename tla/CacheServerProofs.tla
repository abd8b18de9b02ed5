-------------------------- MODULE CacheServerProofs --------------------------
(***************************************************************************)
(* Proofs about the running server, for any number of concurrent PUTs and  *)
(* GETs, any tables and files, and any limits: it uses the metadata store  *)
(* and the blob directory only through their methods, so their invariants  *)
(* carry over, and what its interleavings with the collector may cost.     *)
(***************************************************************************)
EXTENDS CacheServer, GcProofs

-----------------------------------------------------------------------------
(* Types *)

PutRecord == [pc : PutPc, project_id : ProjectId \cup {NULL}, key : Key \cup {NULL}]

ReaderRecord == [pc : {"idle", "found", "touch"}, id : EntryId \cup {NULL}, hash : Hash \cup {NULL}]

(* A PUT that has begun names a project that has existed and has begun its   *)
(* upload; past its body the upload is stored.                               *)
PutOk(u) ==
    /\ put[u].pc = "idle" <=> upload[u].pc = "idle"
    /\ put[u].pc # "idle" =>
          put[u].project_id \in ProjectId /\ put[u].project_id < nextProject /\ put[u].key \in Key
    /\ put[u].pc \in {"recorded", "counted", "done"} => upload[u].pc = "stored"

(* A GET that has found an entry holds an id that has been drawn. *)
ReaderOk(r) ==
    reader[r].pc # "idle" =>
        reader[r].id \in EntryId /\ reader[r].id < nextEntry /\ reader[r].hash \in Hash

HandlersOk ==
    /\ put \in [Upload -> PutRecord]
    /\ reader \in [Reader -> ReaderRecord]
    /\ \A u \in Upload : PutOk(u)
    /\ \A r \in Reader : ReaderOk(r)
    /\ puts \in [ProjectId -> Nat]
    /\ queued \in Nat
    /\ faults \in 0..MaxFaults

HistoryOk == held \subseteq EntryId /\ overlap \subseteq Upload /\ raced \subseteq Hash

ServerTyped == DbInv /\ StoreInv /\ GcType /\ HandlersOk /\ HistoryOk

-----------------------------------------------------------------------------
(* Races *)

(* The collector holds a batch, a walk or their differences. *)
RacePc == {"unlink", "row", "walk", "scan_rows", "scan_unlink", "scan_purge"}

(* A PUT that overlaps them carries h. *)
Overlapped(h) == \E u \in overlap : upload[u].hash = h

(* The time a PUT may overlap: the collector holds its choice, or an unlink  *)
(* that a cancelled pass chose is still to come.                             *)
RaceOpen == gc.pc \in RacePc \/ late # {}

BodiesOverlap ==
    RaceOpen => {u \in Upload : put[u].pc = "body"} \subseteq overlap

(* A PUT that relies on a file has it, or lost it to a race. *)
BodiesBacked ==
    \A u \in Upload :
        put[u].pc = "body" /\ upload[u].pc \in {"reuse", "stored"} => upload[u].hash \in disk \cup raced

(* What is about to be unlinked is not referenced, or by an overlapping PUT. *)
BatchPc == {"unlink", "row", "scan_unlink"}

ToUnlink == late \cup IF gc.pc \in BatchPc THEN gc.batch ELSE {}

BatchFree == \A h \in ToUnlink : Refs(h) = {} \/ Overlapped(h)

(* A row about to be dropped has no file any more, or one whose unlink       *)
(* failed, or one that an overlapping PUT has placed again.                  *)
RowBare ==
    gc.pc = "row" => \A h \in gc.current : h \notin disk \/ h \in gc.kept \/ Overlapped(h)

(* What the walk has passed without seeing it, and later what is about to be *)
(* purged, has no file, or one that an overlapping PUT placed.               *)
WalkSeen ==
    /\ gc.pc \in {"walk", "scan_rows"} =>
          \A h \in Hash \ (gc.unseen \cup gc.batch) : h \notin disk \/ Overlapped(h)
    /\ gc.pc = "scan_rows" => gc.unseen = {}
    /\ gc.pc \in {"scan_unlink", "scan_purge"} =>
          \A h \in gc.missing : h \notin disk \/ Overlapped(h)

RaceInv ==
    BodiesOverlap /\ BodiesBacked /\ BatchFree /\ RowBare /\ WalkSeen /\ DanglingOnlyByRace

(* No candidate was pinned ever since the sweep began. *)
PinInv == held \subseteq Pinned /\ \A c \in gc.queue : c.id \notin held

(* The PUTs of project p that have been counted. *)
Counted(p) == {u \in Upload : put[u].pc \in {"counted", "done"} /\ put[u].project_id = p}

CountInv ==
    \A p \in ProjectId :
        /\ IsFiniteSet(Counted(p))
        /\ p \in LiveProjects => puts[p] >= Cardinality(Counted(p))

ServerInv == ServerTyped /\ RaceInv /\ PinInv /\ CountInv

-----------------------------------------------------------------------------
(* Who moves *)

(* A step of the collector, which no handler takes part in. *)
GcMoves ==
    /\ GcAction
    /\ UNCHANGED <<put, reader, puts>>
    /\ History

(* A step of a handler, an admin request, the clock or the blocking pool; the *)
(* collector waits.                                                           *)
HandlerMoves ==
    \/ \E u \in Upload, p \in ProjectId, k \in Key : PutStart(u, p, k)
    \/ \E u \in Upload : \/ PutWrite(u) \/ PutDiscardFails(u) \/ PutCancelBody(u)
                         \/ PutUpsert(u) \/ PutUpsertRefused(u) \/ PutBump(u)
                         \/ PutTrigger(u) \/ PutCancel(u)
    \/ \E r \in Reader, p \in ProjectId, k \in Key : GetFind(r, p, k)
    \/ \E r \in Reader : GetOpen(r) \/ GetTouch(r)
    \/ AdminCreateProject \/ AdminUpdateProject \/ AdminDeleteProject
    \/ AdminDeleteEntry \/ AdminPin \/ CliInit \/ ClockTick \/ LateUnlink

(* Every step is a handler's, the collector's or a restart. *)
LEMMA ServerCases ==
    ASSUME ServerNext
    PROVE  HandlerMoves \/ CrashRestart
           \/ (GcMoves /\ faults' \in {faults, faults + 1} /\ queued' \in {queued, queued - 1}
                       /\ (queued' # queued => queued > 0) /\ (faults' # faults => faults < MaxFaults))
<1>1. CASE AdminSweep \/ AdminScan \/ TickerSweep
  <2>1. \E dry \in BOOLEAN : SweepStart(dry) \/ ScanStart(dry)
    BY <1>1 DEF AdminSweep, AdminScan, TickerSweep
  <2> QED
    BY <1>1, <2>1 DEF AdminSweep, AdminScan, TickerSweep, GcMoves, GcAction, handlers
<1>2. CASE QueuedSweep
  <2>1. \E dry \in BOOLEAN : SweepStart(dry) \/ ScanStart(dry)
    BY <1>2 DEF QueuedSweep
  <2> QED
    BY <1>2, <2>1 DEF QueuedSweep, GcMoves, GcAction
<1>3. CASE GcStep
  BY <1>3 DEF GcStep, GcMoves, GcAction, handlers
<1>4. CASE GcFault
  BY <1>4 DEF GcFault, GcMoves, GcAction, handlers
<1> QED
  BY <1>1, <1>2, <1>3, <1>4 DEF ServerNext, HandlerMoves, PutStep, GetStep

(* The collector waits while a handler moves. *)
LEMMA HandlersLeaveGc == HandlerMoves => gc' = gc
  BY DEF HandlerMoves, PutStart, PutWrite, PutDiscardFails, PutCancelBody, PutUpsert,
         PutUpsertRefused, PutBump, PutTrigger, PutCancel, GetFind, GetOpen, GetTouch,
         AdminCreateProject, AdminUpdateProject, AdminDeleteProject, AdminDeleteEntry,
         AdminPin, CliInit, ClockTick, LateUnlink

(* Every step keeps the histories. *)
LEMMA StepHistory == ServerNext => History
  BY DEF ServerNext, PutStep, GetStep, PutStart, PutWrite, PutDiscardFails, PutCancelBody, PutUpsert,
         PutUpsertRefused, PutBump, PutTrigger, PutCancel, GetFind, GetOpen, GetTouch,
         AdminCreateProject, AdminUpdateProject, AdminDeleteProject, AdminDeleteEntry,
         AdminPin, AdminSweep, AdminScan, CliInit, TickerSweep, QueuedSweep, GcStep, GcFault,
         CrashRestart, ClockTick, LateUnlink

-----------------------------------------------------------------------------
(* The server uses the two stores through their methods *)

(* What a PUT does to the stores. *)
LEMMA PutMethods ==
    ASSUME ServerTyped, NEW u \in Upload,
           \/ PutWrite(u) \/ PutDiscardFails(u) \/ PutCancelBody(u)
           \/ PutUpsert(u) \/ PutUpsertRefused(u) \/ PutBump(u)
           \/ PutTrigger(u) \/ PutCancel(u)
           \/ \E p \in ProjectId, k \in Key : PutStart(u, p, k)
    PROVE  [DbNext]_dbVars /\ [StoreNext]_storeVars
<1>1. CASE PutUpsert(u)
  <2>1. put[u].project_id \in ProjectId /\ put[u].key \in Key /\ upload[u].hash \in Hash
    BY <1>1 DEF PutUpsert, ServerTyped, HandlersOk, PutOk, StoreInv, StoreTypeOK
  <2>2. DbNext
    BY <1>1, <2>1 DEF PutUpsert, Upsert, DbNext
  <2> QED
    BY <1>1, <2>2 DEF PutUpsert
<1>2. CASE PutWrite(u) \/ PutDiscardFails(u) \/ PutCancelBody(u)
  BY <1>2 DEF PutWrite, PutDiscardFails, PutCancelBody, StoreNext
<1>3. CASE \E p \in ProjectId, k \in Key : PutStart(u, p, k)
  BY <1>3 DEF PutStart, StoreNext
<1>4. CASE PutUpsertRefused(u) \/ PutBump(u) \/ PutTrigger(u) \/ PutCancel(u)
  BY <1>4 DEF PutUpsertRefused, PutBump, PutTrigger, PutCancel
<1> QED
  BY <1>1, <1>2, <1>3, <1>4

(* Whatever interleaves, the tables change only by a repository method and   *)
(* the files only by an operation of the blob store.                         *)
LEMMA ServerMethods ==
    ASSUME ServerTyped, ServerNext
    PROVE  [DbNext]_dbVars /\ [StoreNext]_storeVars
<1>1. CASE GcMoves
  BY <1>1, GcUsesMethods DEF ServerTyped, DbInv, GcMoves
<1>2. CASE CrashRestart
  BY <1>2 DEF CrashRestart, StoreNext
<1>3. CASE \E r \in Reader : GetTouch(r)
  <2>1. PICK r \in Reader : GetTouch(r)
    BY <1>3
  <2>2. reader[r].id \in EntryId
    BY <2>1 DEF GetTouch, ServerTyped, HandlersOk, ReaderOk
  <2> QED
    BY <2>1, <2>2 DEF GetTouch, DbNext
<1>4. CASE \/ \E r \in Reader, p \in ProjectId, k \in Key : GetFind(r, p, k)
           \/ \E r \in Reader : GetOpen(r)
  BY <1>4 DEF GetFind, GetOpen
<1>5. CASE AdminCreateProject \/ AdminUpdateProject \/ AdminDeleteProject
  BY <1>5 DEF AdminCreateProject, AdminUpdateProject, AdminDeleteProject, DbNext, ProjectStep
<1>6. CASE AdminDeleteEntry \/ AdminPin \/ ClockTick
  BY <1>6 DEF AdminDeleteEntry, AdminPin, ClockTick, DbNext
<1>7. CASE CliInit \/ LateUnlink
  BY <1>7 DEF CliInit, LateUnlink, StoreNext
<1> QED
  BY <1>1, <1>2, <1>3, <1>4, <1>5, <1>6, <1>7, ServerCases, PutMethods DEF HandlerMoves

-----------------------------------------------------------------------------
(* Types *)

(* AUTOINCREMENT sequences and the clock never go back. *)
LEMMA SequencesGrow ==
    ASSUME DbTypeOK, [DbNext]_dbVars
    PROVE  /\ nextProject \in Nat /\ nextProject' \in Nat /\ nextProject <= nextProject'
           /\ nextEntry \in Nat /\ nextEntry' \in Nat /\ nextEntry <= nextEntry'
           /\ now \in Nat /\ now' \in Nat /\ now <= now'
<1>1. /\ nextProject \in Nat /\ nextProject' \in Nat
      /\ nextEntry \in Nat /\ nextEntry' \in Nat
      /\ now \in Nat /\ now' \in Nat
  BY NextTypeOK, BoundsAssumption DEF DbTypeOK, Time
<1>2. /\ nextProject' \in {nextProject, nextProject + 1}
      /\ nextEntry' \in {nextEntry, nextEntry + 1}
      /\ now' \in {now, now + 1}
  BY DEF DbNext, ProjectStep, CreateProject, UpdateProject, DeleteProject, UpsertInsert, UpsertReplace,
         Delete, Touch, SetPinned, DeleteBlobRow, PurgeBlob, Tick, dbVars, tables
<1> QED
  BY <1>1, <1>2

(* The collector is no upload. *)
LEMMA GcLeavesUploads == GcAction => upload' = upload /\ tmp' = tmp
  BY DEF GcAction, SweepStart, ScanStart, SweepStep, TtlSelect, QuotaProjects, QuotaUsage,
         QuotaSelect, GlobalUsage, GlobalSelect, Evict, EvictDry, CleanupSelect,
         CleanupUnlink, CleanupRow, SweepDisturbed, EvictNotFound, CleanupRowRefused, ScanStep,
         ScanRows, ScanVisit, ScanUnlink, ScanPurge, UnlinkFailure, CleanupUnlinkFails,
         ScanUnlinkFails, GcAbort, GcCancelUnlink, DeleteBlob, DeleteDropped, Unlink, storeVars

(* Handlers that do not move keep their types. *)
LEMMA PutKept ==
    ASSUME HandlersOk, DbTypeOK, [DbNext]_dbVars, NEW u \in Upload,
           put'[u] = put[u], upload'[u].pc = upload[u].pc
    PROVE  PutOk(u)'
<1>1. nextProject \in Nat /\ nextProject' \in Nat /\ nextProject <= nextProject'
  BY SequencesGrow
<1>2. PutOk(u) /\ \A p \in ProjectId : p \in Nat
  BY BoundsAssumption DEF HandlersOk, ProjectId
<1> QED
  BY <1>1, <1>2 DEF PutOk

(* A GET at rest stays well formed whatever the other tasks do to the tables. *)
LEMMA ReaderKept ==
    ASSUME HandlersOk, DbTypeOK, [DbNext]_dbVars, NEW r \in Reader, reader'[r] = reader[r]
    PROVE  ReaderOk(r)'
<1>1. nextEntry \in Nat /\ nextEntry' \in Nat /\ nextEntry <= nextEntry'
  BY SequencesGrow
<1>2. ReaderOk(r) /\ \A i \in EntryId : i \in Nat
  BY BoundsAssumption DEF HandlersOk, EntryId
<1> QED
  BY <1>1, <1>2 DEF ReaderOk

(* A step of a PUT keeps the types of the handlers. *)
LEMMA PutTyped ==
    ASSUME ServerTyped, NEW u \in Upload,
           \/ PutWrite(u) \/ PutDiscardFails(u) \/ PutCancelBody(u)
           \/ PutUpsert(u) \/ PutUpsertRefused(u) \/ PutBump(u)
           \/ PutTrigger(u) \/ PutCancel(u)
           \/ \E p \in ProjectId, k \in Key : PutStart(u, p, k)
    PROVE  HandlersOk'
<1>1. HandlersOk /\ DbTypeOK /\ [DbNext]_dbVars /\ upload \in [Upload -> [pc : UploadPc, hash : Hash]]
  BY PutMethods DEF ServerTyped, DbInv, StoreInv, StoreTypeOK
<1>2. put \in [Upload -> PutRecord] /\ reader' = reader
  BY <1>1 DEF HandlersOk, handlers, PutWrite, PutDiscardFails, PutCancelBody, PutUpsert,
              PutUpsertRefused, PutBump, PutTrigger, PutCancel, PutStart
<1>3. \A r \in Reader : ReaderOk(r)'
  BY <1>1, <1>2, ReaderKept
<1>4. \A v \in Upload \ {u} : put'[v] = put[v] /\ upload'[v].pc = upload[v].pc
  BY <1>1, <1>2
  DEF handlers, Advance, Goto, storeVars, PutWrite, PutDiscardFails, PutCancelBody, PutUpsert,
      PutUpsertRefused, PutBump, PutTrigger, PutCancel, PutStart, WriteStart, WriteStep, WriteCheck,
      WriteDiscard, WriteRename, WriteRenameFails, WriteDiscardFails, WriteAbort
<1>5. \A v \in Upload \ {u} : PutOk(v)'
  BY <1>1, <1>4, PutKept
<1>6. puts' \in [ProjectId -> Nat] /\ queued' \in Nat /\ faults' \in 0..MaxFaults
  <2>1. puts \in [ProjectId -> Nat] /\ queued \in Nat /\ faults \in 0..MaxFaults /\ MaxFaults \in Nat
    BY <1>1, ServerAssumption DEF HandlersOk
  <2>2. puts' = puts \/ \E p \in ProjectId : puts' = [puts EXCEPT ![p] = @ + 1]
    <3>1. put[u].pc = "recorded" => put[u].project_id \in ProjectId
      BY <1>1 DEF HandlersOk, PutOk
    <3> QED
      BY <3>1
      DEF handlers, PutWrite, PutDiscardFails, PutCancelBody, PutUpsert, PutUpsertRefused, PutBump,
          PutTrigger, PutCancel, PutStart
  <2>3. queued' \in {queued, queued + 1} /\ faults' \in {faults, faults + 1}
        /\ (faults' # faults => faults < MaxFaults)
    BY DEF handlers, PutWrite, PutDiscardFails, PutCancelBody, PutUpsert, PutUpsertRefused, PutBump,
           PutTrigger, PutCancel, PutStart
  <2> QED
    BY <2>1, <2>2, <2>3
<1>7. put'[u] \in PutRecord /\ PutOk(u)' /\ put' \in [Upload -> PutRecord]
  <2>1. put[u] \in PutRecord /\ PutOk(u) /\ upload[u] \in [pc : UploadPc, hash : Hash]
    BY <1>1, <1>2 DEF HandlersOk
  <2>2. CASE \E p \in ProjectId, k \in Key : PutStart(u, p, k)
    <3>1. PICK p \in ProjectId, k \in Key : PutStart(u, p, k)
      BY <2>2
    <3>2. put' = [put EXCEPT ![u] = [pc |-> "body", project_id |-> p, key |-> k]]
          /\ upload' = [upload EXCEPT ![u].pc = "streaming"] /\ p < nextProject
          /\ nextProject' = nextProject
      BY <3>1 DEF PutStart, WriteStart, Goto, dbVars, tables
    <3> QED
      BY <1>1, <1>2, <3>2 DEF PutRecord, PutPc, PutOk
  <2>3. CASE PutWrite(u) \/ PutDiscardFails(u) \/ PutCancelBody(u)
    <3>1. put' = put /\ put[u].pc = "body" /\ nextProject' = nextProject
      BY <2>3 DEF PutWrite, PutDiscardFails, PutCancelBody, handlers, dbVars, tables
    <3>2. upload'[u].pc # "idle"
      BY <1>1, <2>3
      DEF PutWrite, PutDiscardFails, PutCancelBody, Goto, WriteStep, WriteCheck, WriteDiscard,
          WriteRename, WriteRenameFails, WriteDiscardFails, WriteAbort
    <3> QED
      BY <1>2, <2>1, <3>1, <3>2 DEF PutOk
  <2>4. CASE PutUpsert(u) \/ PutUpsertRefused(u) \/ PutBump(u) \/ PutTrigger(u) \/ PutCancel(u)
    <3>1. PICK pc \in {"recorded", "counted", "done", "failed"} :
             /\ put' = [put EXCEPT ![u].pc = pc]
             /\ upload' = upload /\ upload[u].pc = "stored" /\ put[u].pc # "idle"
      BY <2>1, <2>4
      DEF PutUpsert, PutUpsertRefused, PutBump, PutTrigger, PutCancel, Advance, storeVars, PutOk
    <3>2. put'[u] = [put[u] EXCEPT !.pc = pc] /\ put' \in [Upload -> PutRecord]
      BY <1>2, <3>1 DEF PutRecord, PutPc
    <3>3. put'[u].pc = pc /\ put'[u].project_id = put[u].project_id /\ put'[u].key = put[u].key
      BY <2>1, <3>2 DEF PutRecord
    <3>4. nextProject \in Nat /\ nextProject' \in Nat /\ nextProject <= nextProject'
          /\ \A p \in ProjectId : p \in Nat
      BY <1>1, SequencesGrow, BoundsAssumption DEF ProjectId
    <3> QED
      BY <2>1, <3>1, <3>2, <3>3, <3>4 DEF PutOk
  <2> QED
    BY <2>2, <2>3, <2>4
<1>8. reader' \in [Reader -> ReaderRecord]
  BY <1>1, <1>2 DEF HandlersOk
<1> QED
  BY <1>3, <1>5, <1>6, <1>7, <1>8 DEF HandlersOk

(* A step of a GET keeps the types of the handlers. *)
LEMMA GetTyped ==
    ASSUME ServerTyped, NEW r \in Reader, [DbNext]_dbVars,
           \/ GetOpen(r) \/ GetTouch(r) \/ \E p \in ProjectId, k \in Key : GetFind(r, p, k)
    PROVE  HandlersOk'
<1>1. HandlersOk /\ DbTypeOK /\ reader \in [Reader -> ReaderRecord]
  BY DEF ServerTyped, DbInv, HandlersOk
<1>2. put' = put /\ upload' = upload /\ puts' = puts /\ queued' = queued /\ faults' = faults
  BY DEF GetOpen, GetTouch, GetFind, storeVars
<1>3. \A u \in Upload : PutOk(u)'
  BY <1>1, <1>2, PutKept
<1>4. CASE reader' = [reader EXCEPT ![r] = ReaderIdle]
  <2>1. ReaderIdle \in ReaderRecord /\ ReaderIdle.pc = "idle"
    BY DEF ReaderIdle, ReaderRecord
  <2>2. reader' \in [Reader -> ReaderRecord] /\ reader'[r].pc = "idle"
        /\ \A s \in Reader \ {r} : reader'[s] = reader[s]
    BY <1>1, <1>4, <2>1
  <2>3. \A s \in Reader \ {r} : ReaderOk(s)'
    BY <1>1, <2>2, ReaderKept
  <2> QED
    BY <1>1, <1>2, <1>3, <2>2, <2>3 DEF HandlersOk, ReaderOk
<1>5. CASE GetOpen(r) /\ reader' = [reader EXCEPT ![r].pc = "touch"]
  <2>1. reader' \in [Reader -> ReaderRecord]
        /\ reader'[r].id = reader[r].id /\ reader'[r].hash = reader[r].hash
        /\ \A s \in Reader \ {r} : reader'[s] = reader[s]
    BY <1>1, <1>5 DEF ReaderRecord
  <2>2. \A s \in Reader \ {r} : ReaderOk(s)'
    BY <1>1, <2>1, ReaderKept
  <2>3. ReaderOk(r) /\ reader[r].pc = "found" /\ nextEntry' = nextEntry
    BY <1>1, <1>5 DEF HandlersOk, GetOpen, dbVars, tables
  <2>4. ReaderOk(r)'
    BY <2>1, <2>3 DEF ReaderOk
  <2> QED
    BY <1>1, <1>2, <1>3, <2>1, <2>2, <2>4 DEF HandlersOk
<1>6. ASSUME NEW p \in ProjectId, NEW k \in Key, GetFind(r, p, k) PROVE HandlersOk'
  <2>1. PICK i \in Find(p, k) :
          reader' = [reader EXCEPT ![r] = [pc |-> "found", id |-> i, hash |-> entries[i].blob_hash]]
    BY <1>6 DEF GetFind
  <2>2. i \in EntryId /\ i < nextEntry /\ entries[i].blob_hash \in Hash /\ nextEntry' = nextEntry
    BY <1>1, <1>6, <2>1 DEF Find, LiveEntries, DbTypeOK, EntryRow, GetFind, dbVars, tables
  <2>3. reader' \in [Reader -> ReaderRecord]
        /\ reader'[r].id = i /\ reader'[r].hash = entries[i].blob_hash
        /\ \A s \in Reader \ {r} : reader'[s] = reader[s]
    BY <1>1, <2>1, <2>2 DEF ReaderRecord
  <2>4. \A s \in Reader \ {r} : ReaderOk(s)'
    BY <1>1, <2>3, ReaderKept
  <2>5. ReaderOk(r)'
    BY <2>2, <2>3 DEF ReaderOk
  <2> QED
    BY <1>1, <1>2, <1>3, <2>3, <2>4, <2>5 DEF HandlersOk
<1> QED
  BY <1>4, <1>5, <1>6 DEF GetOpen, GetTouch

(* Types hold whatever interleaves. *)
LEMMA NextTyped ==
    ASSUME ServerTyped, ServerNext
    PROVE  ServerTyped'
<1>1. DbInv /\ DbTypeOK /\ StoreInv /\ StoreTypeOK /\ GcType /\ HandlersOk /\ HistoryOk
  BY DEF ServerTyped, DbInv, StoreInv
<1>2. [DbNext]_dbVars /\ [StoreNext]_storeVars
  BY ServerMethods
<1>3. DbInv' /\ DbTypeOK' /\ StoreInv'
  BY <1>1, <1>2, NextDbInv, NextStoreInv, NextTypeOK
<1>4. now \in Nat /\ now' \in Nat /\ now <= now'
  BY <1>1, <1>2, SequencesGrow
<1>5. GcType'
  <2>1. CASE gc' = gc
    <3>1. gc.now \in Nat /\ gc.now <= now
      BY <1>1, BoundsAssumption DEF GcType, GcOk, GcRecord, Time
    <3> QED
      BY <1>1, <1>4, <2>1, <3>1 DEF GcType
  <2>2. CASE gc' = GcIdle
    <3>1. gc'.now = 0
      BY <2>2 DEF GcIdle
    <3>2. GcOk(gc')
      BY <2>2, IdleOk
    <3> QED
      BY <1>4, <3>1, <3>2 DEF GcType
  <2>3. CASE GcAction
    BY <1>1, <2>3, GcActionType
  <2> QED
    BY <2>1, <2>2, <2>3, ServerCases, HandlersLeaveGc DEF GcMoves, CrashRestart
<1>6. HandlersOk'
  <2>1. CASE put' = put /\ reader' = reader /\ upload' = upload
             /\ puts' \in [ProjectId -> Nat] /\ queued' \in Nat /\ faults' \in 0..MaxFaults
    <3>1. \A u \in Upload : PutOk(u)'
      BY <1>1, <1>2, <2>1, PutKept
    <3>2. \A r \in Reader : ReaderOk(r)'
      BY <1>1, <1>2, <2>1, ReaderKept
    <3> QED
      BY <1>1, <2>1, <3>1, <3>2 DEF HandlersOk
  <2>2. CASE /\ GcMoves /\ faults' \in {faults, faults + 1} /\ queued' \in {queued, queued - 1}
             /\ queued' # queued => queued > 0
             /\ faults' # faults => faults < MaxFaults
    <3>1. faults' \in 0..MaxFaults /\ queued' \in Nat
      BY <1>1, <2>2, ServerAssumption DEF HandlersOk
    <3> QED
      BY <1>1, <2>1, <2>2, <3>1, GcLeavesUploads DEF GcMoves, HandlersOk
  <2>3. CASE \/ AdminCreateProject \/ AdminUpdateProject \/ AdminDeleteProject
             \/ AdminDeleteEntry \/ AdminPin \/ CliInit \/ ClockTick \/ LateUnlink
    <3>1. put' = put /\ reader' = reader /\ upload' = upload /\ queued' = queued /\ faults' = faults
      BY <2>3 DEF AdminCreateProject, AdminUpdateProject, AdminDeleteProject, AdminDeleteEntry,
                  AdminPin, CliInit, OpenStore, ClockTick, LateUnlink, DeleteLate, Unlink, handlers,
                  storeVars
    <3>2. puts' = puts \/ \E p \in ProjectId : puts' = [puts EXCEPT ![p] = 0]
      BY <2>3 DEF AdminCreateProject, AdminUpdateProject, AdminDeleteProject, AdminDeleteEntry,
                  AdminPin, CliInit, ClockTick, LateUnlink, handlers
    <3>3. puts' \in [ProjectId -> Nat]
      BY <1>1, <3>2 DEF HandlersOk
    <3> QED
      BY <1>1, <2>1, <3>1, <3>3 DEF HandlersOk
  <2>4. CASE CrashRestart
    <3>1. /\ reader' = [r \in Reader |-> ReaderIdle] /\ queued' = 0 /\ puts' = puts
          /\ faults' = faults + 1 /\ faults < MaxFaults /\ nextProject' = nextProject
      BY <2>4 DEF CrashRestart, dbVars, tables
    <3>2. ReaderIdle \in ReaderRecord /\ ReaderIdle.pc = "idle"
      BY DEF ReaderIdle, ReaderRecord
    <3>3. reader' \in [Reader -> ReaderRecord] /\ \A r \in Reader : ReaderOk(r)'
      BY <3>1, <3>2 DEF ReaderOk
    <3>4. ASSUME NEW u \in Upload PROVE put'[u] \in PutRecord /\ PutOk(u)'
      <4>1. put[u] \in PutRecord /\ PutOk(u) /\ upload[u] \in [pc : UploadPc, hash : Hash]
        BY <1>1 DEF HandlersOk, StoreTypeOK
      <4>2. put'[u] = IF put[u].pc \in {"body", "recorded", "counted"}
                      THEN [put[u] EXCEPT !.pc = "failed"] ELSE put[u]
        BY <2>4 DEF CrashRestart
      <4>3. upload'[u] = IF u \in InFlight THEN [upload[u] EXCEPT !.pc = "failed"] ELSE upload[u]
        BY <2>4 DEF CrashRestart, RestartStore
      <4>4. put'[u] \in PutRecord /\ put'[u].project_id = put[u].project_id /\ put'[u].key = put[u].key
            /\ put'[u].pc = IF put[u].pc \in {"body", "recorded", "counted"} THEN "failed" ELSE put[u].pc
        BY <4>1, <4>2 DEF PutRecord, PutPc
      <4>5. upload'[u].pc = IF upload[u].pc \in {"streaming", "reuse", "place"} THEN "failed" ELSE upload[u].pc
        BY <4>1, <4>3 DEF InFlight
      <4> QED
        BY <3>1, <4>1, <4>4, <4>5 DEF PutOk
    <3>5. put' \in [Upload -> PutRecord]
      BY <2>4, <3>4 DEF CrashRestart
    <3>6. faults' \in 0..MaxFaults
      BY <1>1, <3>1, ServerAssumption DEF HandlersOk
    <3> QED
      BY <1>1, <3>1, <3>3, <3>4, <3>5, <3>6 DEF HandlersOk
  <2> QED
    BY <1>2, <2>2, <2>3, <2>4, ServerCases, PutTyped, GetTyped DEF HandlerMoves
<1>7. HistoryOk'
  BY <1>1, <1>3, StepHistory
  DEF HistoryOk, History, Pinned, Unpinned, LiveEntries, StoreTypeOK
<1> QED
  BY <1>3, <1>5, <1>6, <1>7 DEF ServerTyped

-----------------------------------------------------------------------------
(* What a step may do to the files, the entries and the uploads *)

(* A file is placed by a PUT in its body, and unlinked by the collector from *)
(* its batch or by an unlink it has left behind; nothing else touches blobs/. *)
LEMMA FilesEffect ==
    ASSUME ServerTyped, ServerNext
    PROVE  \/ disk' = disk
           \/ \E u \in Upload : put[u].pc = "body" /\ disk' = disk \cup {upload[u].hash}
           \/ \E h \in ToUnlink : disk' = disk \ {h} /\ UNCHANGED <<dbVars, upload, put>>
<1>1. CASE GcMoves
  <2>1. \/ disk' = disk
        \/ \E h \in Hash : CleanupUnlink(h) \/ ScanUnlink(h)
    BY <1>1
    DEF GcMoves, GcAction, SweepStart, ScanStart, SweepStep, TtlSelect, QuotaProjects, QuotaUsage,
        QuotaSelect, GlobalUsage, GlobalSelect, Evict, EvictDry, CleanupSelect, CleanupRow,
        SweepDisturbed, EvictNotFound, CleanupRowRefused, ScanStep, ScanRows, ScanVisit, ScanPurge,
        UnlinkFailure, CleanupUnlinkFails, ScanUnlinkFails, GcAbort, GcCancelUnlink, DeleteDropped,
        storeVars
  <2>2. ASSUME NEW h \in Hash, CleanupUnlink(h) \/ ScanUnlink(h)
        PROVE  h \in ToUnlink /\ disk' = disk \ {h} /\ UNCHANGED <<dbVars, upload, put>>
    BY <1>1, <2>2 DEF GcMoves, CleanupUnlink, ScanUnlink, DeleteBlob, Unlink, ToUnlink, BatchPc
  <2> QED
    BY <2>1, <2>2
<1>2. ASSUME NEW u \in Upload, PutWrite(u)
      PROVE  disk' = disk \/ (put[u].pc = "body" /\ disk' = disk \cup {upload[u].hash})
  BY <1>2 DEF PutWrite, WriteStep, WriteCheck, WriteDiscard, WriteRename, WriteRenameFails
<1>3. CASE HandlerMoves /\ ~LateUnlink /\ ~\E u \in Upload : PutWrite(u)
  BY <1>3 DEF HandlerMoves, PutStart, PutDiscardFails, PutCancelBody, PutUpsert,
         PutUpsertRefused, PutBump, PutTrigger, PutCancel, GetFind, GetOpen, GetTouch,
         AdminCreateProject, AdminUpdateProject, AdminDeleteProject, AdminDeleteEntry,
         AdminPin, CliInit, ClockTick, WriteStart, WriteDiscardFails, WriteAbort, OpenStore, storeVars
<1>4. CASE CrashRestart
  BY <1>4 DEF CrashRestart, RestartStore
<1>5. CASE LateUnlink
  BY <1>5 DEF LateUnlink, DeleteLate, Unlink, ToUnlink, handlers
<1> QED
  BY <1>1, <1>2, <1>3, <1>4, <1>5, ServerCases

(* An unlink is left behind only by a pass that was about to make it. *)
LEMMA LateEffect ==
    ASSUME ServerNext
    PROVE  late' \subseteq late \/ (UNCHANGED dbVars /\ late' \subseteq ToUnlink)
<1>1. CASE GcMoves
  <2>1. late' = late \/ \E h \in Hash : GcCancelUnlink(h)
    BY <1>1
    DEF GcMoves, GcAction, SweepStart, ScanStart, SweepStep, TtlSelect, QuotaProjects, QuotaUsage,
        QuotaSelect, GlobalUsage, GlobalSelect, Evict, EvictDry, CleanupSelect, CleanupUnlink,
        CleanupRow, SweepDisturbed, EvictNotFound, CleanupRowRefused, ScanStep, ScanRows, ScanVisit,
        ScanUnlink, ScanPurge, UnlinkFailure, CleanupUnlinkFails, ScanUnlinkFails, GcAbort,
        DeleteBlob, storeVars
  <2>2. ASSUME NEW h \in Hash, GcCancelUnlink(h)
        PROVE  UNCHANGED dbVars /\ late' \subseteq ToUnlink
    BY <2>2 DEF GcCancelUnlink, DeleteDropped, ToUnlink, BatchPc
  <2> QED
    BY <2>1, <2>2
<1>2. CASE HandlerMoves
  BY <1>2
  DEF HandlerMoves, PutStart, PutWrite, WriteStep, WriteCheck, WriteDiscard, WriteRename,
      WriteRenameFails, PutDiscardFails, PutCancelBody, PutUpsert, PutUpsertRefused, PutBump,
      PutTrigger, PutCancel, GetFind, GetOpen, GetTouch, AdminCreateProject, AdminUpdateProject,
      AdminDeleteProject, AdminDeleteEntry, AdminPin, CliInit, ClockTick, LateUnlink, DeleteLate,
      WriteStart, WriteDiscardFails, WriteAbort, OpenStore, storeVars
<1>3. CASE CrashRestart
  BY <1>3 DEF CrashRestart, RestartStore
<1> QED
  BY <1>1, <1>2, <1>3, ServerCases

(* No entry comes to reference another blob. *)
HashesKept ==
    \A i \in LiveEntries' : i \in LiveEntries /\ entries'[i].blob_hash = entries[i].blob_hash

(* Only Entries::upsert makes an entry reference a blob. *)
LEMMA MethodsKeepHashes ==
    ASSUME DbTypeOK,
           \/ entries' = entries
           \/ \E p \in ProjectId : DeleteProject(p)
           \/ \E p \in ProjectId, i \in EntryId : Delete(p, i)
           \/ \E i \in EntryId : Touch(i)
           \/ \E p \in ProjectId, i \in EntryId, b \in BOOLEAN : SetPinned(p, i, b)
           \/ \E h \in Hash : PurgeBlob(h)
    PROVE  HashesKept
<1> USE DEF HashesKept, LiveEntries
<1>1. entries \in [EntryId -> EntryRow \cup {NULL}]
  BY DEF DbTypeOK
<1>2. CASE entries' = entries
  BY <1>2
<1>3. CASE \E p \in ProjectId : DeleteProject(p)
  BY <1>1, <1>3 DEF DeleteProject
<1>4. CASE \E p \in ProjectId, i \in EntryId : Delete(p, i)
  BY <1>1, <1>4 DEF Delete
<1>5. ASSUME NEW i \in EntryId, Touch(i) PROVE HashesKept
  <2>1. CASE i \notin LiveEntries
    BY <1>2, <1>5, <2>1 DEF Touch
  <2>2. CASE i \in LiveEntries
    <3>1. PICK c \in ClockRead :
             entries[i] \in EntryRow /\ entries' = [entries EXCEPT ![i].last_accessed = c]
      BY <1>1, <1>5, <2>2 DEF Touch
    <3>2. entries'[i].blob_hash = entries[i].blob_hash
      BY <1>1, <3>1 DEF EntryRow
    <3> QED
      BY <1>1, <2>2, <3>1, <3>2
  <2> QED
    BY <2>1, <2>2
<1>6. ASSUME NEW i \in EntryId, NEW b \in BOOLEAN, \E p \in ProjectId : SetPinned(p, i, b) PROVE HashesKept
  <2>1. entries[i] # NULL /\ entries[i] \in EntryRow /\ entries' = [entries EXCEPT ![i].pinned = b]
    BY <1>1, <1>6 DEF SetPinned, EntriesOf
  <2>2. entries'[i].blob_hash = entries[i].blob_hash
    BY <1>1, <2>1 DEF EntryRow
  <2> QED
    BY <1>1, <2>1, <2>2
<1>7. CASE \E h \in Hash : PurgeBlob(h)
  BY <1>1, <1>7 DEF PurgeBlob
<1> QED
  BY <1>2, <1>3, <1>4, <1>5, <1>6, <1>7

(* What the collector does to the entries. *)
LEMMA GcOnEntries ==
    ASSUME DbTypeOK, GcType, GcAction
    PROVE  \/ entries' = entries
           \/ \E c \in NextCandidates : /\ Evict /\ c \in gc.queue /\ Delete(c.project_id, c.id)
                                        /\ c.project_id \in ProjectId /\ c.id \in EntryId
           \/ \E h \in Hash : ScanPurge(h)
<1>1. entries' = entries \/ Evict \/ \E h \in Hash : ScanPurge(h)
  BY DEF GcAction, SweepStart, ScanStart, SweepStep, TtlSelect, QuotaProjects, QuotaUsage,
         QuotaSelect, GlobalUsage, GlobalSelect, EvictDry, CleanupSelect, CleanupUnlink,
         CleanupRow, DeleteBlobRow, SweepDisturbed, EvictNotFound, CleanupRowRefused, ScanStep,
         ScanRows, ScanVisit, ScanUnlink, UnlinkFailure, CleanupUnlinkFails, ScanUnlinkFails,
         GcAbort, GcCancelUnlink, dbVars, tables
<1>2. ASSUME Evict
      PROVE  \E c \in NextCandidates : /\ c \in gc.queue /\ Delete(c.project_id, c.id)
                                       /\ c.project_id \in ProjectId /\ c.id \in EntryId
  <2>1. PICK c \in NextCandidates : Delete(c.project_id, c.id)
    BY <1>2 DEF Evict
  <2>2. c \in gc.queue /\ c.project_id \in ProjectId /\ c.id \in EntryId
    BY CandidatesQueued DEF GcType, GcOk, GcRecord, Candidate
  <2> QED
    BY <2>1, <2>2
<1> QED
  BY <1>1, <1>2

(* An entry comes to reference a blob only by a PUT whose body is stored. *)
LEMMA EntriesEffect ==
    ASSUME ServerTyped, ServerNext
    PROVE  \/ HashesKept
           \/ \E u \in Upload :
                 /\ put[u].pc = "body" /\ upload[u].pc = "stored" /\ UNCHANGED <<storeVars, gc>>
                 /\ \A i \in LiveEntries' :
                       \/ i \in LiveEntries /\ entries'[i].blob_hash = entries[i].blob_hash
                       \/ entries'[i].blob_hash = upload[u].hash
<1>1. DbTypeOK /\ GcType /\ entries \in [EntryId -> EntryRow \cup {NULL}]
  BY DEF ServerTyped, DbInv, DbTypeOK
<1>2. CASE GcMoves
  BY <1>1, <1>2, GcOnEntries, MethodsKeepHashes DEF GcMoves, ScanPurge
<1>3. CASE CrashRestart
  BY <1>1, <1>3, MethodsKeepHashes DEF CrashRestart, dbVars, tables
<1>4. ASSUME NEW u \in Upload, PutUpsert(u)
      PROVE  /\ put[u].pc = "body" /\ upload[u].pc = "stored" /\ UNCHANGED <<storeVars, gc>>
             /\ \A i \in LiveEntries' :
                   \/ i \in LiveEntries /\ entries'[i].blob_hash = entries[i].blob_hash
                   \/ entries'[i].blob_hash = upload[u].hash
  <2>1. put[u].pc = "body" /\ upload[u].pc = "stored" /\ UNCHANGED <<storeVars, gc>>
    BY <1>4 DEF PutUpsert
  <2>2. PICK p, k : Upsert(p, k, upload[u].hash)
    BY <1>4 DEF PutUpsert
  <2>3. CASE UpsertInsert(p, k, upload[u].hash)
    <3>1. PICK c \in ClockRead :
             entries' = [entries EXCEPT ![nextEntry] =
                           [project_id |-> p, key |-> k, blob_hash |-> upload[u].hash,
                            last_accessed |-> c, pinned |-> FALSE]]
      BY <2>3 DEF UpsertInsert
    <3> QED
      BY <1>1, <2>1, <3>1 DEF LiveEntries
  <2>4. CASE UpsertReplace(p, k, upload[u].hash)
    <3>1. PICK i \in LiveEntries, c \in ClockRead :
             entries' = [entries EXCEPT ![i].blob_hash = upload[u].hash, ![i].last_accessed = c]
      BY <2>4 DEF UpsertReplace, Find
    <3>2. entries[i] \in EntryRow /\ i \in EntryId
      BY <1>1 DEF LiveEntries
    <3>3. entries'[i].blob_hash = upload[u].hash
      BY <1>1, <3>1, <3>2 DEF EntryRow
    <3> QED
      BY <1>1, <2>1, <3>1, <3>3 DEF LiveEntries
  <2> QED
    BY <2>2, <2>3, <2>4 DEF Upsert
<1>5. ASSUME NEW r \in Reader, GetTouch(r) PROVE HashesKept
  <2>1. reader[r].id \in EntryId
    BY <1>5 DEF GetTouch, ServerTyped, HandlersOk, ReaderOk
  <2> QED
    BY <1>1, <1>5, <2>1, MethodsKeepHashes DEF GetTouch
<1>6. CASE AdminDeleteProject \/ AdminDeleteEntry \/ AdminPin
  BY <1>1, <1>6, MethodsKeepHashes DEF AdminDeleteProject, AdminDeleteEntry, AdminPin
<1>7. CASE /\ HandlerMoves
           /\ ~\E u \in Upload : PutUpsert(u)
           /\ ~\E r \in Reader : GetTouch(r)
           /\ ~(AdminDeleteProject \/ AdminDeleteEntry \/ AdminPin)
  <2>1. entries' = entries
    BY <1>7 DEF HandlerMoves, PutStart, PutWrite, PutDiscardFails, PutCancelBody,
         PutUpsertRefused, PutBump, PutTrigger, PutCancel, GetFind, GetOpen,
         AdminCreateProject, AdminUpdateProject, CreateProject, UpdateProject,
         CliInit, ClockTick, Tick, LateUnlink, dbVars, tables
  <2> QED
    BY <1>1, <2>1, MethodsKeepHashes
<1> QED
  BY <1>2, <1>3, <1>4, <1>5, <1>6, <1>7, ServerCases

(* A PUT comes to rely on a file only when the file is there. *)
LEMMA UploadsEffect ==
    ASSUME ServerTyped, ServerNext, NEW u \in Upload
    PROVE  /\ upload'[u].hash = upload[u].hash
           /\ put'[u].pc = "body" /\ upload'[u].pc \in {"reuse", "stored"} =>
                 \/ put[u].pc = "body" /\ upload[u].pc \in {"reuse", "stored"}
                 \/ upload[u].hash \in disk'
<1>1. /\ put \in [Upload -> PutRecord] /\ PutOk(u)
      /\ upload \in [Upload -> [pc : UploadPc, hash : Hash]]
  BY DEF ServerTyped, HandlersOk, StoreInv, StoreTypeOK
<1>2. CASE put'[u] = put[u] /\ upload'[u] = upload[u]
  BY <1>2
<1>3. CASE GcMoves
  BY <1>2, <1>3, GcLeavesUploads DEF GcMoves
<1>4. CASE CrashRestart
  <2>1. upload'[u] = IF u \in InFlight THEN [upload[u] EXCEPT !.pc = "failed"] ELSE upload[u]
    BY <1>4 DEF CrashRestart, RestartStore
  <2>2. put'[u].pc # "body"
    <3>1. put'[u] = IF put[u].pc \in {"body", "recorded", "counted"}
                    THEN [put[u] EXCEPT !.pc = "failed"] ELSE put[u]
      BY <1>4 DEF CrashRestart
    <3>2. put[u] \in PutRecord
      BY <1>1
    <3> QED
      BY <3>1, <3>2 DEF PutRecord
  <2>3. upload[u] \in [pc : UploadPc, hash : Hash]
    BY <1>1
  <2> QED
    BY <2>1, <2>2, <2>3
<1>5. ASSUME NEW v \in Upload, \E p \in ProjectId, k \in Key : PutStart(v, p, k)
      PROVE  /\ upload'[u].hash = upload[u].hash
             /\ u = v => upload'[u].pc = "streaming"
             /\ u # v => put'[u] = put[u] /\ upload'[u] = upload[u]
  BY <1>1, <1>5 DEF PutStart, WriteStart, Goto
<1>6. ASSUME NEW v \in Upload, PutWrite(v)
      PROVE  /\ upload'[u].hash = upload[u].hash
             /\ upload'[u].pc \in {"reuse", "stored"} =>
                 \/ upload[u].pc \in {"reuse", "stored"} \/ upload[u].hash \in disk'
             /\ put' = put
  <2>1. put' = put /\ WriteStep(v)
    BY <1>6 DEF PutWrite, handlers
  <2>2. CASE WriteCheck(v)
    BY <1>1, <2>1, <2>2 DEF WriteCheck, Goto
  <2>3. CASE WriteDiscard(v)
    BY <1>1, <2>1, <2>3 DEF WriteDiscard, Goto
  <2>4. CASE WriteRename(v)
    BY <1>1, <2>1, <2>4 DEF WriteRename, Goto
  <2>5. CASE WriteRenameFails(v)
    BY <1>1, <2>1, <2>5 DEF WriteRenameFails, Goto
  <2> QED
    BY <2>1, <2>2, <2>3, <2>4, <2>5 DEF WriteStep
<1>7. ASSUME NEW v \in Upload, PutDiscardFails(v) \/ PutCancelBody(v)
      PROVE  /\ upload'[u].hash = upload[u].hash
             /\ upload'[u].pc \in {"reuse", "stored"} => upload[u].pc \in {"reuse", "stored"}
             /\ put' = put
  BY <1>1, <1>7
  DEF PutDiscardFails, PutCancelBody, WriteDiscardFails, WriteAbort, Goto, handlers
<1>8. ASSUME NEW v \in Upload,
             PutUpsert(v) \/ PutUpsertRefused(v) \/ PutBump(v) \/ PutTrigger(v) \/ PutCancel(v)
      PROVE  upload' = upload /\ (put'[u].pc = "body" => put[u].pc = "body")
  <2>1. PICK pc \in {"recorded", "counted", "done", "failed"} :
           put' = [put EXCEPT ![v].pc = pc] /\ upload' = upload
    BY <1>8 DEF PutUpsert, PutUpsertRefused, PutBump, PutTrigger, PutCancel, Advance, storeVars
  <2>2. put[u] \in PutRecord /\ put[v] \in PutRecord
    BY <1>1
  <2>3. CASE u = v
    <3>1. put'[u].pc = pc
      BY <1>1, <2>1, <2>2, <2>3 DEF PutRecord
    <3> QED
      BY <2>1, <3>1
  <2>4. CASE u # v
    BY <1>1, <2>1, <2>4
  <2> QED
    BY <2>3, <2>4
<1>9. CASE \/ \E r \in Reader, p \in ProjectId, k \in Key : GetFind(r, p, k)
           \/ \E r \in Reader : GetOpen(r) \/ GetTouch(r)
           \/ AdminCreateProject \/ AdminUpdateProject \/ AdminDeleteProject
           \/ AdminDeleteEntry \/ AdminPin \/ CliInit \/ ClockTick \/ LateUnlink
  <2>1. put' = put /\ upload' = upload
    BY <1>9 DEF GetFind, GetOpen, GetTouch, AdminCreateProject, AdminUpdateProject,
                AdminDeleteProject, AdminDeleteEntry, AdminPin, CliInit, OpenStore, ClockTick,
                LateUnlink, DeleteLate, Unlink, handlers, storeVars
  <2> QED
    BY <1>2, <2>1
<1>10. CASE HandlerMoves
  BY <1>5, <1>6, <1>7, <1>8, <1>9, <1>10 DEF HandlerMoves
<1> QED
  BY <1>3, <1>4, <1>10, ServerCases

-----------------------------------------------------------------------------
(* What the collector chooses *)

(* The phases before cleanup_blobs lead to each other or end. *)
LEMMA PhasesGo ==
    ASSUME NEW g \in GcRecord
    PROVE  /\ AfterTtl(g).pc \notin RacePc /\ NextProject(g).pc \notin RacePc
           /\ AfterQuota(g).pc \notin RacePc /\ AfterGlobal(g).pc \notin RacePc
<1>1. AfterTtl(g).pc \notin RacePc
  <2>1. g.kind \in Kind
    BY DEF GcRecord
  <2> QED
    BY <2>1 DEF AfterTtl, GcRecord, Kind, RacePc
<1>2. NextProject(g).pc \notin RacePc
  <2>1. PICK c : c = Current(g)
    OBVIOUS
  <2>2. NextProject(g).pc \in {"global", "quota"}
    BY <2>1 DEF NextProject, GcRecord
  <2> QED
    BY <2>2 DEF RacePc
<1>3. AfterQuota(g).pc \notin RacePc
  <2>1. AfterQuota(g) = NextProject(g) \/ AfterQuota(g) = [g EXCEPT !.pc = "quota_evict"]
    BY DEF AfterQuota
  <2>2. [g EXCEPT !.pc = "quota_evict"].pc \notin RacePc
    BY DEF GcRecord, RacePc
  <2> QED
    BY <1>2, <2>1, <2>2
<1>4. AfterGlobal(g).pc \notin RacePc
  BY DEF AfterGlobal, GcRecord, RacePc
<1> QED
  BY <1>1, <1>2, <1>3, <1>4

(* The collector comes to hold a batch, a walk or their differences only by  *)
(* these steps.                                                              *)
LEMMA RaceSteps ==
    ASSUME DbTypeOK, GcType, GcAction, gc'.pc \in RacePc
    PROVE  \/ CleanupSelect
           \/ \E dry \in BOOLEAN : ScanStart(dry)
           \/ ScanRows
           \/ \E h \in Hash : \/ CleanupUnlink(h) \/ CleanupUnlinkFails(h) \/ CleanupRow(h)
                              \/ ScanVisit(h) \/ ScanUnlink(h) \/ ScanUnlinkFails(h) \/ ScanPurge(h)
<1>1. gc \in GcRecord
  BY DEF GcType, GcOk
<1>2. ~\E r : Finish(r)
  BY DEF Finish, End, GcIdle, RacePc
<1>3. ~\E dry \in BOOLEAN : SweepStart(dry)
  BY DEF SweepStart, GcIdle, RacePc
<1>4. ASSUME NEW S \in SUBSET LiveEntries
      PROVE  [gc EXCEPT !.queue = {Row(i) : i \in S}] \in GcRecord
  BY SelectOk
<1>5. Unpinned \subseteq LiveEntries
  BY DEF Unpinned
<1>6. ~TtlSelect
  <2> DEFINE S == {j \in Unpinned : KindOf[entries[j].key] = gc.kind /\ Expired(j, gc.now)}
  <2>1. S \in SUBSET LiveEntries
    BY <1>5
  <2>2. TtlSelect => gc' = AfterTtl([gc EXCEPT !.queue = {Row(i) : i \in S}])
    BY DEF TtlSelect
  <2> QED
    BY <1>4, <2>1, <2>2, PhasesGo
<1>7. ~QuotaSelect
  <2> DEFINE S == Unpinned \cap EntriesOf(Current(gc).id)
  <2>1. S \in SUBSET LiveEntries
    BY <1>5
  <2>2. QuotaSelect => gc' = AfterQuota([gc EXCEPT !.queue = {Row(i) : i \in S}])
    BY DEF QuotaSelect
  <2> QED
    BY <1>4, <2>1, <2>2, PhasesGo
<1>8. ~GlobalSelect
  BY <1>4, <1>5, PhasesGo DEF GlobalSelect
<1>9. ~(QuotaProjects \/ GlobalUsage)
  BY <1>1 DEF QuotaProjects, GlobalUsage, GcRecord, RacePc
<1>10. ~QuotaUsage
  <2>1. [gc EXCEPT !.pc = "quota_select", !.usage = ProjectUsage(Current(gc).id)].pc \notin RacePc
    BY <1>1 DEF GcRecord, RacePc
  <2> QED
    BY <1>1, <2>1, PhasesGo DEF QuotaUsage
<1>11. ~(Evict \/ EvictDry)
  <2>1. ASSUME NEW c \in gc.queue, Evicting PROVE Evicted(c).pc \notin RacePc
    <3>1. c.size \in Int /\ gc.usage \in Int
      BY <1>1 DEF GcRecord, Candidate
    <3>2. PICK usage \in Int : usage = IF gc.pc = "ttl_evict" THEN gc.usage ELSE gc.usage - c.size
      BY <3>1
    <3>3. PICK g \in GcRecord : g = [gc EXCEPT !.queue = gc.queue \ {c}, !.usage = usage]
      BY <1>1 DEF GcRecord
    <3>4. Evicted(c) = AfterEvict(g)
      BY <3>2, <3>3 DEF Evicted
    <3>5. g.pc = gc.pc
      BY <1>1, <3>3 DEF GcRecord
    <3> QED
      BY <2>1, <3>4, <3>5, PhasesGo DEF AfterEvict, Evicting
  <2> QED
    BY <2>1, CandidatesQueued DEF Evict, EvictDry
<1> QED
  BY <1>2, <1>3, <1>6, <1>7, <1>8, <1>9, <1>10, <1>11
  DEF GcAction, SweepStep, SweepDisturbed, EvictNotFound, CleanupRowRefused, ScanStep,
      UnlinkFailure, GcAbort, GcCancelUnlink

(* A row that counts no reference has none, and neither has a hash without   *)
(* a row.                                                                    *)
LEMMA FreeHasNoRefs ==
    ASSUME DbInv, NEW h \in Hash, h \in ZeroRefcount \/ h \notin blobs
    PROVE  Refs(h) = {}
<1>1. CASE h \notin blobs
  BY <1>1 DEF DbInv, ForeignKeys, Refs
<1>2. CASE h \in ZeroRefcount
  <2>1. IsFiniteSet(Refs(h))
    BY RefsFinite DEF DbInv
  <2>2. refcount[h] = 0 /\ Drift(h) >= 0
    BY <1>2 DEF DbInv, NoUndercount, ZeroRefcount
  <2>3. Cardinality(Refs(h)) \in Nat
    BY <2>1, FS_CardinalityType
  <2>4. Cardinality(Refs(h)) = 0
    BY <2>2, <2>3 DEF Drift
  <2> QED
    BY <2>1, <2>4, FS_EmptySet
<1> QED
  BY <1>1, <1>2

WalkPc == {"walk", "scan_rows"}

DiffPc == {"scan_unlink", "scan_purge"}

(* What a step of the collector adds to its batch is not referenced; what it *)
(* turns to the row of has no file any more or could not be unlinked; what   *)
(* it passes in its walk has no file; what it will purge it has not seen.    *)
GcChoice ==
    /\ gc'.pc \in BatchPc =>
          \A h \in gc'.batch : \/ gc.pc \in BatchPc /\ h \in gc.batch
                               \/ Refs(h) = {} /\ UNCHANGED dbVars
    /\ gc'.pc = "row" => \A h \in gc'.current : h \notin disk' \/ h \in gc'.kept
    /\ gc'.pc \in WalkPc =>
          \A h \in Hash \ (gc'.unseen \cup gc'.batch) :
             \/ gc.pc \in WalkPc /\ h \notin gc.unseen \cup gc.batch
             \/ h \notin disk /\ disk' = disk
    /\ gc'.pc = "scan_rows" => gc'.unseen = {}
    /\ gc'.pc \in DiffPc =>
          \A h \in gc'.missing : \/ gc.pc \in DiffPc /\ h \in gc.missing
                                 \/ gc.pc = "scan_rows" /\ h \in Hash \ gc.batch

(* Every step of the collector chooses so. *)
LEMMA GcChooses == ASSUME DbInv, GcType, GcAction PROVE GcChoice
<1> USE DEF GcChoice
<1>1. gc \in GcRecord /\ DbTypeOK /\ blobs \subseteq Hash
  BY DEF GcType, GcOk, DbInv, DbTypeOK
<1>2. CASE gc'.pc \notin RacePc
  BY <1>2 DEF RacePc, BatchPc, WalkPc, DiffPc
<1>3. CASE CleanupSelect /\ gc'.pc \in RacePc
  <2>1. ~Finish("swept")
    BY <1>3 DEF Finish, End, GcIdle, RacePc
  <2>2. PICK b \in SUBSET ZeroRefcount : gc' = [gc EXCEPT !.pc = "unlink", !.batch = b]
    BY <1>3, <2>1 DEF CleanupSelect
  <2>3. gc'.pc = "unlink" /\ gc'.batch = b /\ UNCHANGED dbVars
    BY <1>1, <1>3, <2>2 DEF GcRecord, CleanupSelect
  <2>4. \A h \in b : Refs(h) = {}
    BY <1>1, FreeHasNoRefs DEF ZeroRefcount
  <2> QED
    BY <2>3, <2>4 DEF WalkPc, DiffPc
<1>4. ASSUME NEW dry \in BOOLEAN, ScanStart(dry) PROVE GcChoice
  <2>1. gc'.pc = "walk" /\ gc'.unseen = Hash
    BY <1>4 DEF ScanStart, GcIdle
  <2> QED
    BY <2>1 DEF BatchPc, DiffPc
<1>5. ASSUME NEW batch \in SUBSET Hash, NEW missing \in SUBSET Hash, NEW kept \in SUBSET Hash,
             ScanGoto(batch, missing, kept), gc'.pc \in RacePc
      PROVE  gc'.pc \in DiffPc /\ gc'.batch = batch /\ gc'.missing = missing
             /\ (gc'.pc = "scan_purge" => batch = {})
  <2>1. ~End("scanned", kept)
    BY <1>5 DEF End, GcIdle, RacePc
  <2> QED
    BY <1>5, <2>1, ScanGotoIs DEF DiffPc
<1>6. CASE ScanRows /\ gc'.pc \in RacePc
  <2>1. ~Finish("scanned")
    BY <1>6 DEF Finish, End, GcIdle, RacePc
  <2>2. ScanGoto(gc.batch \ blobs, blobs \ gc.batch, gc.kept) /\ gc.pc = "scan_rows" /\ UNCHANGED dbVars
    BY <1>6, <2>1 DEF ScanRows
  <2>3. /\ gc.batch \ blobs \in SUBSET Hash /\ blobs \ gc.batch \in SUBSET Hash
        /\ gc.kept \in SUBSET Hash
    BY <1>1 DEF GcRecord
  <2>4. gc'.pc \in DiffPc /\ gc'.batch = gc.batch \ blobs /\ gc'.missing = blobs \ gc.batch
    BY <1>5, <1>6, <2>2, <2>3
  <2>5. \A h \in gc'.batch : Refs(h) = {}
    BY <2>3, <2>4, FreeHasNoRefs
  <2>6. gc'.pc \notin WalkPc /\ gc'.pc # "row"
    BY <2>4 DEF DiffPc, WalkPc
  <2> QED
    BY <1>1, <2>2, <2>4, <2>5, <2>6 DEF WalkPc
<1>7. ASSUME NEW h \in Hash, CleanupUnlink(h) \/ CleanupUnlinkFails(h) PROVE GcChoice
  <2>1. /\ gc'.pc = "row" /\ gc'.batch = gc.batch /\ gc.pc = "unlink" /\ gc'.current = {h}
        /\ h \notin disk' \/ h \in gc'.kept
    BY <1>1, <1>7 DEF CleanupUnlink, CleanupUnlinkFails, DeleteBlob, Unlink, GcRecord
  <2> QED
    BY <2>1 DEF BatchPc, WalkPc, DiffPc
<1>8. ASSUME NEW h \in Hash, CleanupRow(h) PROVE GcChoice
  <2>1. gc'.pc \in {"cleanup", "unlink"} /\ gc'.batch = gc.batch \ {h} /\ gc.pc = "row"
    BY <1>1, <1>8 DEF CleanupRow, GcRecord
  <2> QED
    BY <2>1 DEF BatchPc, WalkPc, DiffPc
<1>9. ASSUME NEW h \in Hash, ScanVisit(h) PROVE GcChoice
  <2>1. PICK pc \in {"scan_rows", "walk"} :
          /\ pc = IF gc.unseen = {h} THEN "scan_rows" ELSE "walk"
          /\ gc' = [gc EXCEPT !.unseen = gc.unseen \ {h}, !.batch = gc.batch \cup ({h} \cap disk), !.pc = pc]
    BY <1>9 DEF ScanVisit
  <2>2. /\ gc'.pc = pc /\ gc'.unseen = gc.unseen \ {h} /\ gc'.batch = gc.batch \cup ({h} \cap disk)
        /\ gc.pc = "walk" /\ disk' = disk
    BY <1>1, <1>9, <2>1 DEF GcRecord, ScanVisit, storeVars
  <2>3. pc = "scan_rows" => gc'.unseen = {}
    BY <2>1, <2>2
  <2> QED
    BY <2>2, <2>3 DEF BatchPc, WalkPc, DiffPc
<1>10. ASSUME NEW h \in Hash, ScanUnlink(h) \/ ScanUnlinkFails(h), gc'.pc \in RacePc PROVE GcChoice
  <2>1. /\ gc.pc = "scan_unlink"
        /\ \/ ScanGoto(gc.batch \ {h}, gc.missing, gc.kept)
           \/ ScanGoto(gc.batch \ {h}, gc.missing, gc.kept \cup {h})
    BY <1>10 DEF ScanUnlink, ScanUnlinkFails
  <2>2. /\ gc.batch \ {h} \in SUBSET Hash /\ gc.missing \in SUBSET Hash
        /\ gc.kept \in SUBSET Hash /\ gc.kept \cup {h} \in SUBSET Hash
    BY <1>1 DEF GcRecord
  <2>3. gc'.pc \in DiffPc /\ gc'.batch = gc.batch \ {h} /\ gc'.missing = gc.missing
    BY <1>5, <1>10, <2>1, <2>2
  <2> QED
    BY <2>1, <2>3 DEF BatchPc, WalkPc, DiffPc
<1>11. ASSUME NEW h \in Hash, ScanPurge(h), gc'.pc \in RacePc PROVE GcChoice
  <2>1. ScanGoto({}, gc.missing \ {h}, gc.kept) /\ gc.pc = "scan_purge"
    BY <1>11 DEF ScanPurge
  <2>2. {} \in SUBSET Hash /\ gc.missing \ {h} \in SUBSET Hash /\ gc.kept \in SUBSET Hash
    BY <1>1 DEF GcRecord
  <2>3. gc'.pc \in DiffPc /\ gc'.batch = {} /\ gc'.missing = gc.missing \ {h}
    BY <1>5, <1>11, <2>1, <2>2
  <2> QED
    BY <2>1, <2>3 DEF BatchPc, WalkPc, DiffPc
<1> QED
  BY <1>1, <1>2, <1>3, <1>4, <1>6, <1>7, <1>8, <1>9, <1>10, <1>11, RaceSteps

-----------------------------------------------------------------------------
(* Races *)

(* While the collector holds its choice, every PUT in its body overlaps it,  *)
(* and none leaves the set.                                                  *)
LEMMA OverlapGrows ==
    ASSUME ServerTyped, ServerNext, RaceOpen'
    PROVE  /\ overlap \subseteq overlap'
           /\ \A u \in Upload : put[u].pc = "body" \/ put'[u].pc = "body" => u \in overlap'
           /\ \A h : Overlapped(h) => Overlapped(h)'
<1>1. overlap' = overlap \cup {u \in Upload : "body" \in {put[u].pc, put'[u].pc}}
  BY StepHistory DEF History, RaceOpen, RacePc
<1>2. \A u \in Upload : upload'[u].hash = upload[u].hash
  BY UploadsEffect
<1>3. overlap \subseteq Upload
  BY DEF ServerTyped, HistoryOk
<1> QED
  BY <1>1, <1>2, <1>3 DEF Overlapped

(* What the collector chooses, in any step of the server. *)
LEMMA ServerChooses ==
    ASSUME ServerTyped, ServerNext
    PROVE  gc' = gc \/ gc'.pc \notin RacePc \/ (GcChoice /\ GcAction)
<1>1. CASE GcMoves
  BY <1>1, GcChooses DEF ServerTyped, GcMoves
<1>2. CASE CrashRestart
  BY <1>2 DEF CrashRestart, GcIdle, RacePc
<1> QED
  BY <1>1, <1>2, ServerCases, HandlersLeaveGc

(* A file that goes was to be unlinked; if a PUT in its body carried it, or    *)
(* overlapped the choice, it counts as raced.                                *)
LEMMA LostIsRaced ==
    ASSUME ServerTyped, RaceInv, ServerNext, NEW h \in disk \ disk'
    PROVE  /\ h \in ToUnlink /\ UNCHANGED <<dbVars, upload, put>>
           /\ Overlapped(h) => h \in raced'
           /\ \A u \in Upload : put[u].pc = "body" /\ upload[u].hash = h => h \in raced'
<1>1. h \in ToUnlink /\ UNCHANGED <<dbVars, upload, put>>
  BY FilesEffect
<1>2. raced' = raced \cup {g \in disk \ disk' : \E u \in overlap : upload[u].hash = g}
  BY StepHistory DEF History
<1>3. \A u \in Upload : put[u].pc = "body" => u \in overlap
  BY <1>1 DEF RaceInv, BodiesOverlap, RaceOpen, RacePc, ToUnlink, BatchPc
<1> QED
  BY <1>1, <1>2, <1>3 DEF Overlapped

(* An entry keeps its file, or loses it to a race. *)
LEMMA NextDangling ==
    ASSUME ServerTyped, RaceInv, ServerNext
    PROVE  DanglingOnlyByRace'
<1>1. raced \subseteq raced'
  BY StepHistory DEF History
<1>2. \A i \in LiveEntries : entries[i].blob_hash \in disk \cup raced
  BY DEF RaceInv, DanglingOnlyByRace
<1>3. ASSUME NEW i \in LiveEntries', i \in LiveEntries, entries'[i].blob_hash = entries[i].blob_hash
      PROVE  entries'[i].blob_hash \in disk' \cup raced'
  <2>1. PICK h : h = entries[i].blob_hash
    OBVIOUS
  <2>2. CASE h \in disk \ disk'
    <3>1. h \in ToUnlink /\ (Overlapped(h) => h \in raced')
      BY <2>2, LostIsRaced
    <3>2. Refs(h) # {}
      BY <1>3, <2>1 DEF Refs
    <3>3. Overlapped(h)
      BY <3>1, <3>2 DEF RaceInv, BatchFree
    <3> QED
      BY <1>3, <2>1, <3>1, <3>3
  <2>3. CASE h \notin disk \ disk'
    BY <1>1, <1>2, <1>3, <2>1, <2>3
  <2> QED
    BY <2>2, <2>3
<1>4. CASE HashesKept
  BY <1>3, <1>4 DEF HashesKept, DanglingOnlyByRace
<1>5. ASSUME NEW u \in Upload, put[u].pc = "body", upload[u].pc = "stored", UNCHANGED <<storeVars, gc>>,
             \A i \in LiveEntries' :
                 \/ i \in LiveEntries /\ entries'[i].blob_hash = entries[i].blob_hash
                 \/ entries'[i].blob_hash = upload[u].hash
      PROVE  DanglingOnlyByRace'
  <2>1. upload[u].hash \in disk \cup raced /\ disk' = disk
    BY <1>5 DEF RaceInv, BodiesBacked, storeVars
  <2> QED
    BY <1>1, <1>3, <1>5, <2>1 DEF DanglingOnlyByRace
<1> QED
  BY <1>4, <1>5, EntriesEffect

(* A PUT that found or stored its file keeps it until it is recorded, or the loss is a race. *)
LEMMA NextBodies ==
    ASSUME ServerTyped, RaceInv, ServerNext
    PROVE  BodiesOverlap' /\ BodiesBacked'
<1>1. BodiesOverlap'
  BY OverlapGrows DEF BodiesOverlap
<1>2. ASSUME NEW u \in Upload, put'[u].pc = "body", upload'[u].pc \in {"reuse", "stored"}
      PROVE  upload'[u].hash \in disk' \cup raced'
  <2>1. PICK h : h = upload[u].hash /\ h = upload'[u].hash
    BY UploadsEffect
  <2>2. h \in disk' \/ (put[u].pc = "body" /\ upload[u].pc \in {"reuse", "stored"})
    BY <1>2, <2>1, UploadsEffect
  <2>3. CASE put[u].pc = "body" /\ upload[u].pc \in {"reuse", "stored"}
    <3>1. h \in disk \cup raced
      BY <2>1, <2>3 DEF RaceInv, BodiesBacked
    <3>2. raced \subseteq raced'
      BY StepHistory DEF History
    <3>3. h \in disk \ disk' => h \in raced'
      BY <2>1, <2>3, LostIsRaced
    <3> QED
      BY <2>1, <3>1, <3>2, <3>3
  <2> QED
    BY <2>1, <2>2, <2>3
<1> QED
  BY <1>1, <1>2 DEF BodiesBacked

(* What the collector is about to unlink stays free, or overlapped. *)
LEMMA NextBatchFree ==
    ASSUME ServerTyped, RaceInv, ServerNext
    PROVE  BatchFree'
<1> SUFFICES ASSUME NEW h \in ToUnlink'
             PROVE  Refs(h)' = {} \/ Overlapped(h)'
  BY DEF BatchFree
<1>1. RaceOpen'
  BY DEF ToUnlink, BatchPc, RaceOpen, RacePc
<1>2. \/ h \in ToUnlink
      \/ Refs(h) = {} /\ UNCHANGED dbVars
  <2>1. CASE h \in late'
    BY <2>1, LateEffect DEF ToUnlink
  <2>2. CASE gc'.pc \in BatchPc /\ h \in gc'.batch
    <3>1. gc'.pc \in RacePc
      BY <2>2 DEF BatchPc, RacePc
    <3> QED
      BY <2>2, <3>1, ServerChooses DEF GcChoice, ToUnlink
  <2> QED
    BY <2>1, <2>2 DEF ToUnlink
<1>3. CASE Refs(h) = {} /\ UNCHANGED dbVars
  BY <1>3 DEF Refs, LiveEntries, dbVars, tables
<1>4. CASE h \in ToUnlink
  <2>1. CASE Overlapped(h)
    BY <1>1, <2>1, OverlapGrows
  <2>2. CASE Refs(h) = {}
    <3>1. CASE HashesKept
      BY <2>2, <3>1 DEF HashesKept, Refs
    <3>2. ASSUME NEW u \in Upload, put[u].pc = "body",
                 \A i \in LiveEntries' :
                     \/ i \in LiveEntries /\ entries'[i].blob_hash = entries[i].blob_hash
                     \/ entries'[i].blob_hash = upload[u].hash
          PROVE  Refs(h)' = {} \/ Overlapped(h)'
      <4>1. CASE upload[u].hash = h
        <5>1. u \in overlap' /\ upload'[u].hash = h
          BY <1>1, <3>2, <4>1, OverlapGrows, UploadsEffect
        <5> QED
          BY <5>1 DEF Overlapped
      <4>2. CASE upload[u].hash # h
        BY <2>2, <3>2, <4>2 DEF Refs
      <4> QED
        BY <4>1, <4>2
    <3> QED
      BY <3>1, <3>2, EntriesEffect
  <2> QED
    BY <1>4, <2>1, <2>2 DEF RaceInv, BatchFree
<1> QED
  BY <1>2, <1>3, <1>4

(* A file that appears while the collector holds its choice was placed by an *)
(* overlapping PUT.                                                          *)
LEMMA PlacedIsOverlap ==
    ASSUME ServerTyped, ServerNext, gc'.pc \in RacePc, NEW h, h \notin disk \/ Overlapped(h)
    PROVE  h \notin disk' \/ Overlapped(h)'
<1>1. RaceOpen'
  BY DEF RaceOpen
<1>2. CASE Overlapped(h)
  BY <1>1, <1>2, OverlapGrows
<1>3. CASE h \notin disk /\ h \in disk'
  <2>1. PICK u \in Upload : put[u].pc = "body" /\ disk' = disk \cup {upload[u].hash}
    BY <1>3, FilesEffect
  <2>2. u \in overlap' /\ upload'[u].hash = h
    BY <1>1, <1>3, <2>1, OverlapGrows, UploadsEffect
  <2> QED
    BY <2>2 DEF Overlapped
<1> QED
  BY <1>2, <1>3

(* The row the collector turns to stays bare, or a PUT overlaps. *)
LEMMA NextRowBare ==
    ASSUME ServerTyped, RaceInv, ServerNext
    PROVE  RowBare'
<1> SUFFICES ASSUME gc'.pc = "row", NEW h \in gc'.current
             PROVE  h \notin disk' \/ h \in gc'.kept \/ Overlapped(h)'
  BY DEF RowBare
<1>1. gc'.pc \in RacePc
  BY DEF RacePc
<1>2. CASE gc' = gc
  <2>1. h \notin disk \/ h \in gc.kept \/ Overlapped(h)
    BY <1>2 DEF RaceInv, RowBare
  <2> QED
    BY <1>1, <1>2, <2>1, PlacedIsOverlap
<1>3. CASE GcChoice
  BY <1>3 DEF GcChoice
<1> QED
  BY <1>1, <1>2, <1>3, ServerChooses

(* A file that appears behind the walk was placed by an overlapping PUT. *)
LEMMA NextWalkSeen ==
    ASSUME ServerTyped, RaceInv, ServerNext
    PROVE  WalkSeen'
<1>1. ASSUME gc'.pc \in RacePc, NEW h, h \notin disk \/ Overlapped(h)
      PROVE  h \notin disk' \/ Overlapped(h)'
  BY <1>1, PlacedIsOverlap
<1>2. WalkSeen
  BY DEF RaceInv
<1>3. ASSUME gc'.pc \in WalkPc, NEW h \in Hash \ (gc'.unseen \cup gc'.batch)
      PROVE  h \notin disk' \/ Overlapped(h)'
  <2>1. gc'.pc \in RacePc
    BY <1>3 DEF WalkPc, RacePc
  <2>2. \/ gc.pc \in WalkPc /\ h \notin gc.unseen \cup gc.batch
        \/ h \notin disk /\ disk' = disk
    BY <1>3, <2>1, ServerChooses DEF GcChoice
  <2> QED
    BY <1>1, <1>2, <2>1, <2>2 DEF WalkSeen, WalkPc
<1>4. gc'.pc = "scan_rows" => gc'.unseen = {}
  BY <1>2, ServerChooses DEF WalkSeen, GcChoice, RacePc
<1>5. ASSUME gc'.pc \in DiffPc, NEW h \in gc'.missing
      PROVE  h \notin disk' \/ Overlapped(h)'
  <2>1. gc'.pc \in RacePc
    BY <1>5 DEF DiffPc, RacePc
  <2>2. \/ gc.pc \in DiffPc /\ h \in gc.missing
        \/ gc.pc = "scan_rows" /\ h \in Hash \ gc.batch
    BY <1>5, <2>1, ServerChooses DEF GcChoice
  <2>3. h \notin disk \/ Overlapped(h)
    BY <1>2, <2>2 DEF WalkSeen, DiffPc
  <2> QED
    BY <1>1, <2>1, <2>3
<1> QED
  BY <1>3, <1>4, <1>5 DEF WalkSeen, WalkPc, DiffPc

(* Every step keeps the account of the races. *)
LEMMA NextRaceInv ==
    ASSUME ServerTyped, RaceInv, ServerNext PROVE RaceInv'
  BY NextDangling, NextBodies, NextBatchFree, NextRowBare, NextWalkSeen DEF RaceInv

-----------------------------------------------------------------------------
(* Pins *)

(* The phases only ever drop candidates. *)
LEMMA PhasesDrop ==
    ASSUME NEW g \in GcRecord
    PROVE  /\ AfterTtl(g).queue \subseteq g.queue /\ NextProject(g).queue \subseteq g.queue
           /\ AfterQuota(g).queue \subseteq g.queue /\ AfterGlobal(g).queue \subseteq g.queue
<1>1. AfterTtl(g).queue \subseteq g.queue
  <2>1. g.kind \in Kind
    BY DEF GcRecord
  <2> QED
    BY <2>1 DEF AfterTtl, GcRecord, Kind
<1>2. NextProject(g).queue \subseteq g.queue
  BY DEF NextProject, GcRecord
<1>3. AfterQuota(g).queue \subseteq g.queue
  <2>1. AfterQuota(g) = NextProject(g) \/ AfterQuota(g) = [g EXCEPT !.pc = "quota_evict"]
    BY DEF AfterQuota
  <2>2. [g EXCEPT !.pc = "quota_evict"].queue \subseteq g.queue
    BY DEF GcRecord
  <2> QED
    BY <1>2, <2>1, <2>2
<1>4. AfterGlobal(g).queue \subseteq g.queue
  BY DEF AfterGlobal, GcRecord
<1> QED
  BY <1>1, <1>2, <1>3, <1>4

(* A candidate is unpinned when it becomes one. *)
LEMMA CandidatesUnpinned ==
    ASSUME DbTypeOK, GcType, GcAction, NEW c \in gc'.queue
    PROVE  c \in gc.queue \/ (c.id \in Unpinned /\ UNCHANGED dbVars)
<1>1. gc \in GcRecord
  BY DEF GcType, GcOk
<1>2. /\ ~\E r : Finish(r)
      /\ ~\E r, kept : End(r, kept)
  BY DEF Finish, End, GcIdle
<1>3. ASSUME NEW S \in SUBSET Unpinned, NEW g, g = [gc EXCEPT !.queue = {Row(i) : i \in S}],
             c \in g.queue
      PROVE  c.id \in Unpinned
  <2>1. g.queue = {Row(i) : i \in S}
    BY <1>1, <1>3 DEF GcRecord
  <2> QED
    BY <1>3, <2>1 DEF Row
<1>4. ASSUME NEW S \in SUBSET Unpinned
      PROVE  [gc EXCEPT !.queue = {Row(i) : i \in S}] \in GcRecord
  BY SelectOk DEF Unpinned
<1>5. CASE TtlSelect
  <2> DEFINE S == {j \in Unpinned : KindOf[entries[j].key] = gc.kind /\ Expired(j, gc.now)}
  <2>1. S \in SUBSET Unpinned
    OBVIOUS
  <2>2. PICK g \in GcRecord : g = [gc EXCEPT !.queue = {Row(i) : i \in S}]
    BY <1>4, <2>1
  <2>3. gc' = AfterTtl(g) /\ UNCHANGED dbVars
    BY <1>5, <2>2 DEF TtlSelect
  <2> QED
    BY <1>3, <2>1, <2>2, <2>3, PhasesDrop
<1>6. CASE QuotaSelect
  <2> DEFINE S == Unpinned \cap EntriesOf(Current(gc).id)
  <2>1. S \in SUBSET Unpinned
    OBVIOUS
  <2>2. PICK g \in GcRecord : g = [gc EXCEPT !.queue = {Row(i) : i \in S}]
    BY <1>4, <2>1
  <2>3. gc' = AfterQuota(g) /\ UNCHANGED dbVars
    BY <1>6, <2>2 DEF QuotaSelect
  <2> QED
    BY <1>3, <2>1, <2>2, <2>3, PhasesDrop
<1>7. CASE GlobalSelect
  <2>1. PICK g \in GcRecord : g = [gc EXCEPT !.queue = {Row(i) : i \in Unpinned}]
    BY <1>4
  <2>2. gc' = AfterGlobal(g) /\ UNCHANGED dbVars
    BY <1>7, <2>1 DEF GlobalSelect
  <2> QED
    BY <1>3, <2>1, <2>2, PhasesDrop
<1>8. CASE QuotaUsage
  <2>1. [gc EXCEPT !.pc = "quota_select", !.usage = ProjectUsage(Current(gc).id)].queue = gc.queue
    BY <1>1 DEF GcRecord
  <2>2. gc'.queue \subseteq gc.queue
    BY <1>1, <1>8, <2>1, PhasesDrop DEF QuotaUsage
  <2> QED
    BY <2>2
<1>9. CASE Evict \/ EvictDry
  <2>1. PICK d \in gc.queue : gc' = Evicted(d)
    BY <1>9, CandidatesQueued DEF Evict, EvictDry
  <2>2. d.size \in Int /\ gc.usage \in Int
    BY <1>1 DEF GcRecord, Candidate
  <2>3. PICK usage \in Int : usage = IF gc.pc = "ttl_evict" THEN gc.usage ELSE gc.usage - d.size
    BY <2>2
  <2>4. PICK g \in GcRecord : g = [gc EXCEPT !.queue = gc.queue \ {d}, !.usage = usage]
    BY <1>1 DEF GcRecord
  <2>5. gc' = AfterEvict(g) /\ g.pc = gc.pc /\ g.queue = gc.queue \ {d}
    BY <1>1, <2>1, <2>3, <2>4 DEF Evicted, GcRecord
  <2>6. gc'.queue \subseteq g.queue
    BY <1>9, <2>5, PhasesDrop DEF AfterEvict, Evict, EvictDry, Evicting
  <2> QED
    BY <2>5, <2>6
<1>10. CASE QuotaProjects \/ GlobalUsage \/ CleanupSelect
  <2>1. gc'.queue = gc.queue
    BY <1>1, <1>2, <1>10 DEF QuotaProjects, GlobalUsage, CleanupSelect, GcRecord
  <2> QED
    BY <2>1
<1>11. ASSUME NEW h \in Hash,
              \/ CleanupUnlink(h) \/ CleanupUnlinkFails(h) \/ CleanupRow(h)
              \/ ScanVisit(h) \/ ScanUnlink(h) \/ ScanUnlinkFails(h) \/ ScanPurge(h) \/ ScanRows
       PROVE  gc'.queue = gc.queue
  BY <1>1, <1>2, <1>11
  DEF CleanupUnlink, CleanupUnlinkFails, CleanupRow, ScanVisit, ScanUnlink, ScanUnlinkFails, ScanPurge,
      ScanRows, ScanGoto, GcRecord
<1>12. CASE ScanRows
  BY <1>1, <1>2, <1>12 DEF ScanRows, ScanGoto, GcRecord
<1>13. ~\E dry \in BOOLEAN : SweepStart(dry) \/ ScanStart(dry)
  BY DEF SweepStart, ScanStart, GcIdle
<1> QED
  BY <1>2, <1>5, <1>6, <1>7, <1>8, <1>9, <1>10, <1>11, <1>12, <1>13
  DEF GcAction, SweepStep, SweepDisturbed, EvictNotFound, CleanupRowRefused, ScanStep,
      UnlinkFailure, GcAbort, GcCancelUnlink

(* A sweep begins without a change of the tables, and without candidates. *)
LEMMA SweepBegins ==
    ASSUME ServerNext, gc.pc = "idle", gc'.pc = "ttl"
    PROVE  UNCHANGED dbVars /\ gc'.queue = {}
<1>1. GcAction
  BY ServerCases, HandlersLeaveGc DEF CrashRestart, GcIdle, GcMoves
<1>2. \E dry \in BOOLEAN : SweepStart(dry) \/ ScanStart(dry)
  BY <1>1
  DEF GcAction, SweepStep, TtlSelect, QuotaProjects, QuotaUsage, QuotaSelect, GlobalUsage,
      GlobalSelect, Evict, EvictDry, Evicting, CleanupSelect, CleanupUnlink, CleanupRow,
      SweepDisturbed, EvictNotFound, CleanupRowRefused, ScanStep, ScanRows, ScanVisit, ScanUnlink,
      ScanPurge, UnlinkFailure, CleanupUnlinkFails, ScanUnlinkFails, GcAbort, GcCancelUnlink
<1> QED
  BY <1>2 DEF SweepStart, ScanStart, GcIdle

(* A candidate is never an entry that was pinned ever since the sweep began. *)
LEMMA NextPinInv ==
    ASSUME ServerTyped, PinInv, ServerNext PROVE PinInv'
<1>1. held' = IF gc'.pc = "ttl" /\ gc.pc = "idle" THEN Pinned
              ELSE IF gc'.pc = "idle" THEN {} ELSE held \cap Pinned'
  BY StepHistory DEF History
<1>2. CASE gc'.pc = "ttl" /\ gc.pc = "idle"
  <2>1. UNCHANGED dbVars /\ gc'.queue = {}
    BY <1>2, SweepBegins
  <2>2. Pinned' = Pinned
    BY <2>1, SameTables DEF Pinned
  <2> QED
    BY <1>1, <1>2, <2>1, <2>2 DEF PinInv
<1>3. CASE gc'.pc = "idle" /\ ~(gc'.pc = "ttl" /\ gc.pc = "idle")
  BY <1>1, <1>3 DEF PinInv
<1>4. CASE gc'.pc # "idle" /\ ~(gc'.pc = "ttl" /\ gc.pc = "idle")
  <2>1. held' = held \cap Pinned'
    BY <1>1, <1>4
  <2>2. ASSUME NEW c \in gc'.queue PROVE c.id \notin held'
    <3>1. CASE c \in gc.queue
      BY <2>1, <3>1 DEF PinInv
    <3>2. CASE c.id \in Unpinned /\ UNCHANGED dbVars
      BY <2>1, <3>2, SameTables DEF Pinned
    <3>3. CASE GcAction
      BY <2>2, <3>1, <3>2, <3>3, CandidatesUnpinned DEF ServerTyped, DbInv
    <3> QED
      BY <1>4, <2>2, <3>1, <3>3, ServerCases, HandlersLeaveGc DEF GcMoves, CrashRestart, GcIdle
  <2> QED
    BY <2>1, <2>2 DEF PinInv
<1> QED
  BY <1>2, <1>3, <1>4

-----------------------------------------------------------------------------
(* Counters *)

(* The counted PUTs do not grow, and the counter of a project does not sink  *)
(* while the project exists.                                                 *)
CountsKept ==
    /\ \A p \in ProjectId : Counted(p)' \subseteq Counted(p)
    /\ \A p \in LiveProjects' : puts'[p] = puts[p]

(* A project that exists after a step existed before it or has just been created. *)
LEMMA ProjectsBegin ==
    ASSUME ServerTyped, ServerNext, NEW p \in LiveProjects'
    PROVE  p \in LiveProjects \/ p = nextProject
<1>1. [DbNext]_dbVars /\ projects \in [ProjectId -> ProjectRow \cup {NULL}]
  BY ServerMethods DEF ServerTyped, DbInv, DbTypeOK
<1>2. CASE projects' = projects
  BY <1>2 DEF LiveProjects
<1>3. CASE ProjectStep
  BY <1>1, <1>3 DEF ProjectStep, CreateProject, UpdateProject, LiveProjects
<1>4. CASE \E q \in ProjectId : DeleteProject(q)
  BY <1>1, <1>4 DEF DeleteProject, LiveProjects
<1> QED
  BY <1>1, <1>2, <1>3, <1>4
  DEF DbNext, UpsertInsert, UpsertReplace, Delete, Touch, SetPinned, DeleteBlobRow, PurgeBlob, Tick,
      dbVars, tables

(* Only stats().bump counts a PUT. *)
LEMMA StepCounts ==
    ASSUME ServerTyped, ServerNext, ~\E u \in Upload : PutBump(u)
    PROVE  CountsKept
<1>1. put \in [Upload -> PutRecord] /\ puts \in [ProjectId -> Nat]
      /\ projects \in [ProjectId -> ProjectRow \cup {NULL}]
  BY DEF ServerTyped, HandlersOk, DbInv, DbTypeOK
<1>2. CASE put' = put /\ puts' = puts
  BY <1>2 DEF CountsKept, Counted
<1>3. CASE AdminDeleteProject
  <2>1. PICK p \in ProjectId : DeleteProject(p) /\ puts' = [puts EXCEPT ![p] = 0] /\ put' = put
    BY <1>3 DEF AdminDeleteProject
  <2>2. p \notin LiveProjects' /\ LiveProjects' \subseteq ProjectId
    BY <1>1, <2>1 DEF DeleteProject, LiveProjects
  <2> QED
    BY <1>1, <2>1, <2>2 DEF CountsKept, Counted
<1>4. ASSUME NEW u \in Upload, NEW pc \in PutPc, put' = [put EXCEPT ![u].pc = pc], puts' = puts,
             pc \in {"counted", "done"} => put[u].pc \in {"counted", "done"}
      PROVE  CountsKept
  <2>1. put[u] \in PutRecord
    BY <1>1
  <2>2. put'[u].pc = pc /\ put'[u].project_id = put[u].project_id
    BY <1>1, <1>4, <2>1 DEF PutRecord
  <2>3. \A v \in Upload \ {u} : put'[v] = put[v]
    BY <1>1, <1>4
  <2> QED
    BY <1>4, <2>2, <2>3 DEF CountsKept, Counted
<1>5. ASSUME NEW u \in Upload, PutUpsert(u) \/ PutUpsertRefused(u) \/ PutTrigger(u) \/ PutCancel(u)
      PROVE  CountsKept
  <2>1. PICK pc \in PutPc : /\ put' = [put EXCEPT ![u].pc = pc] /\ puts' = puts
                            /\ pc \in {"counted", "done"} => put[u].pc \in {"counted", "done"}
    BY <1>5 DEF PutUpsert, PutUpsertRefused, PutTrigger, PutCancel, Advance, PutPc
  <2> QED
    BY <1>4, <2>1
<1>6. ASSUME NEW u \in Upload, NEW p \in ProjectId, NEW k \in Key, PutStart(u, p, k)
      PROVE  CountsKept
  <2>1. put' = [put EXCEPT ![u] = [pc |-> "body", project_id |-> p, key |-> k]] /\ puts' = puts
    BY <1>6 DEF PutStart
  <2> QED
    BY <1>1, <2>1 DEF CountsKept, Counted
<1>7. CASE CrashRestart
  <2>1. puts' = puts
    BY <1>7 DEF CrashRestart
  <2>2. ASSUME NEW u \in Upload, put'[u].pc \in {"counted", "done"} PROVE put'[u] = put[u]
    <3>1. put[u] \in PutRecord
      BY <1>1
    <3>2. put'[u] = IF put[u].pc \in {"body", "recorded", "counted"}
                    THEN [put[u] EXCEPT !.pc = "failed"] ELSE put[u]
      BY <1>7 DEF CrashRestart
    <3> QED
      BY <2>2, <3>1, <3>2 DEF PutRecord
  <2> QED
    BY <2>1, <2>2 DEF CountsKept, Counted
<1>8. CASE GcMoves
  BY <1>2, <1>8 DEF GcMoves
<1>9. CASE \/ \E r \in Reader, p \in ProjectId, k \in Key : GetFind(r, p, k)
           \/ \E r \in Reader : GetOpen(r) \/ GetTouch(r)
           \/ \E u \in Upload : PutWrite(u) \/ PutDiscardFails(u) \/ PutCancelBody(u)
           \/ AdminCreateProject \/ AdminUpdateProject
           \/ AdminDeleteEntry \/ AdminPin \/ CliInit \/ ClockTick \/ LateUnlink
  <2>1. put' = put /\ puts' = puts
    BY <1>9 DEF GetFind, GetOpen, GetTouch, PutWrite, PutDiscardFails, PutCancelBody,
                AdminCreateProject, AdminUpdateProject, AdminDeleteEntry, AdminPin, CliInit,
                ClockTick, LateUnlink, handlers
  <2> QED
    BY <1>2, <2>1
<1> QED
  BY <1>3, <1>5, <1>6, <1>7, <1>8, <1>9, ServerCases DEF HandlerMoves

(* Every step keeps the put counter at or above the uploads it stands for. *)
LEMMA NextCountInv ==
    ASSUME ServerTyped, CountInv, ServerNext PROVE CountInv'
<1>1. /\ puts \in [ProjectId -> Nat] /\ put \in [Upload -> PutRecord]
      /\ LiveProjects \subseteq ProjectId /\ LiveProjects' \subseteq ProjectId
      /\ \A u \in Upload : PutOk(u)
  BY DEF ServerTyped, HandlersOk, LiveProjects
<1>2. \A p \in ProjectId : IsFiniteSet(Counted(p)) /\ Cardinality(Counted(p)) \in Nat
  BY FS_CardinalityType DEF CountInv
<1>3. CASE CountsKept
  <2>1. ASSUME NEW p \in ProjectId
        PROVE  IsFiniteSet(Counted(p)') /\ Cardinality(Counted(p)') <= Cardinality(Counted(p))
               /\ Cardinality(Counted(p)') \in Nat
    <3>1. Counted(p)' \subseteq Counted(p) /\ IsFiniteSet(Counted(p))
      BY <1>2, <1>3 DEF CountsKept
    <3> QED
      BY <3>1, FS_Subset, FS_CardinalityType
  <2>2. ASSUME NEW p \in LiveProjects' PROVE puts'[p] >= Cardinality(Counted(p)')
    <3>1. CASE p \in LiveProjects
      <4>1. puts[p] >= Cardinality(Counted(p)) /\ puts[p] \in Nat /\ puts'[p] = puts[p] /\ p \in ProjectId
        BY <1>1, <1>3, <2>2, <3>1 DEF CountInv, CountsKept
      <4> QED
        BY <1>2, <2>1, <4>1
    <3>2. CASE p = nextProject
      <4>1. Counted(p) = {}
        <5>1. nextProject \in Nat /\ \A q \in ProjectId : q \in Nat
          BY BoundsAssumption DEF ServerTyped, DbInv, DbTypeOK, ProjectId
        <5> QED
          BY <1>1, <3>2, <5>1 DEF Counted, PutOk
      <4>2. Counted(p)' = {} /\ puts'[p] = puts[p] /\ puts[p] \in Nat
        BY <1>1, <1>3, <2>2, <4>1 DEF CountsKept
      <4> QED
        BY <4>2, FS_EmptySet
    <3> QED
      BY <2>2, <3>1, <3>2, ProjectsBegin
  <2> QED
    BY <1>1, <2>1, <2>2 DEF CountInv
<1>4. ASSUME NEW u \in Upload, PutBump(u), ~CountsKept PROVE CountInv'
  <2>1. PICK q \in ProjectId : q = put[u].project_id
    BY <1>1, <1>4 DEF PutBump, PutOk
  <2>2. LiveProjects' = LiveProjects
    BY <1>4 DEF PutBump, dbVars, tables, LiveProjects
  <2>3. CASE q \notin LiveProjects
    <3>1. put' = [put EXCEPT ![u].pc = "failed"] /\ puts' = puts
      BY <1>4, <2>1, <2>3 DEF PutBump, Advance
    <3>2. put'[u].pc = "failed" /\ \A v \in Upload \ {u} : put'[v] = put[v]
      <4>1. put[u] \in PutRecord
        BY <1>1
      <4> QED
        BY <1>1, <3>1, <4>1 DEF PutRecord
    <3>3. CountsKept
      BY <3>1, <3>2 DEF CountsKept, Counted
    <3> QED
      BY <1>3, <3>3
  <2>4. CASE q \in LiveProjects
    <3>1. put' = [put EXCEPT ![u].pc = "counted"] /\ puts' = [puts EXCEPT ![q] = @ + 1]
      BY <1>4, <2>1, <2>4 DEF PutBump, Advance
    <3>2. /\ put'[u].pc = "counted" /\ put'[u].project_id = q
          /\ \A v \in Upload \ {u} : put'[v] = put[v]
      <4>1. put[u] \in PutRecord
        BY <1>1
      <4> QED
        BY <1>1, <2>1, <3>1, <4>1 DEF PutRecord
    <3>3. put[u].pc = "recorded"
      BY <1>4 DEF PutBump
    <3>4. Counted(q)' = Counted(q) \cup {u} /\ u \notin Counted(q)
      BY <3>2, <3>3 DEF Counted
    <3>5. \A p \in ProjectId \ {q} : Counted(p)' = Counted(p) /\ puts'[p] = puts[p]
      BY <1>1, <2>1, <3>1, <3>2, <3>3 DEF Counted
    <3>6. puts'[q] = puts[q] + 1 /\ puts[q] \in Nat
      BY <1>1, <3>1
    <3>7. IsFiniteSet(Counted(q)') /\ Cardinality(Counted(q)') = Cardinality(Counted(q)) + 1
      BY <1>2, <3>4, FS_AddElement
    <3>8. puts[q] >= Cardinality(Counted(q)) /\ Cardinality(Counted(q)) \in Nat
      BY <1>2, <2>4 DEF CountInv
    <3>9. puts'[q] >= Cardinality(Counted(q)')
      BY <3>6, <3>7, <3>8
    <3> QED
      BY <1>1, <2>2, <3>5, <3>7, <3>9 DEF CountInv
  <2> QED
    BY <2>3, <2>4
<1> QED
  BY <1>3, <1>4, StepCounts

-----------------------------------------------------------------------------
(* The invariant *)

(* The invariant holds when the server first starts. *)
LEMMA InitServerInv == ServerInit => ServerInv
<1> SUFFICES ASSUME ServerInit PROVE ServerInv
  OBVIOUS
<1>1. DbInv /\ StoreInv
  BY InitDbInv, InitStoreInv DEF ServerInit
<1>2. gc = GcIdle /\ gc.pc = "idle" /\ gc.queue = {} /\ gc.now = 0
  BY DEF ServerInit, GcIdle
<1>3. GcType
  <2>1. GcOk(gc)
    BY <1>2, IdleOk
  <2>2. gc.now <= now
    BY <1>2 DEF ServerInit, DbInit
  <2> QED
    BY <2>1, <2>2 DEF GcType
<1>4. \A u \in Upload : put[u] = [pc |-> "idle", project_id |-> NULL, key |-> NULL] /\ upload[u].pc = "idle"
  BY DEF ServerInit, StoreInit
<1>5. \A r \in Reader : reader[r] = ReaderIdle
  BY DEF ServerInit
<1>6. HandlersOk
  <2>1. put \in [Upload -> PutRecord] /\ \A u \in Upload : PutOk(u)
    <3>1. [pc |-> "idle", project_id |-> NULL, key |-> NULL] \in PutRecord
      BY DEF PutRecord, PutPc
    <3> QED
      BY <1>4, <3>1 DEF PutOk, ServerInit
  <2>2. reader \in [Reader -> ReaderRecord] /\ \A r \in Reader : ReaderOk(r)
    <3>1. ReaderIdle \in ReaderRecord /\ ReaderIdle.pc = "idle"
      BY DEF ReaderIdle, ReaderRecord
    <3> QED
      BY <1>5, <3>1 DEF ReaderOk, ServerInit
  <2>3. puts \in [ProjectId -> Nat] /\ queued \in Nat /\ faults \in 0..MaxFaults
    BY ServerAssumption DEF ServerInit
  <2> QED
    BY <2>1, <2>2, <2>3 DEF HandlersOk
<1>7. HistoryOk
  BY DEF HistoryOk, ServerInit
<1>8. LiveEntries = {} /\ LiveProjects = {}
  BY DEF ServerInit, DbInit, LiveEntries, LiveProjects
<1>9. RaceInv
  <2>1. late = {}
    BY DEF ServerInit, StoreInit
  <2> QED
    BY <1>2, <1>4, <1>8, <2>1
    DEF RaceInv, BodiesOverlap, RaceOpen, BodiesBacked, BatchFree, ToUnlink, BatchPc, RowBare,
        WalkSeen, DanglingOnlyByRace, RacePc
<1>10. PinInv
  BY <1>2 DEF PinInv, ServerInit
<1>11. CountInv
  <2>1. \A p : Counted(p) = {}
    BY <1>4 DEF Counted
  <2> QED
    BY <1>8, <2>1, FS_EmptySet DEF CountInv
<1> QED
  BY <1>1, <1>3, <1>6, <1>7, <1>9, <1>10, <1>11 DEF ServerInv, ServerTyped

(* Nothing happens. *)
LEMMA StutterServerInv == ServerInv /\ UNCHANGED serverVars => ServerInv'
<1> SUFFICES ASSUME ServerInv, UNCHANGED serverVars PROVE ServerInv'
  OBVIOUS
<1>1. UNCHANGED <<dbVars, storeVars, gc, put, reader, puts, queued, faults, held, overlap, raced>>
  BY DEF serverVars, gcVars
<1>2. now' = now /\ entries' = entries /\ projects' = projects /\ nextProject' = nextProject
      /\ nextEntry' = nextEntry /\ disk' = disk /\ upload' = upload /\ late' = late
  BY <1>1 DEF dbVars, tables, storeVars
<1>3. DbInv' /\ StoreInv' /\ GcType'
  BY <1>1, <1>2, NextDbInv, NextStoreInv DEF ServerInv, ServerTyped, GcType
<1>4. HandlersOk' /\ HistoryOk'
  BY <1>1, <1>2 DEF ServerInv, ServerTyped, HandlersOk, PutOk, ReaderOk, HistoryOk
<1>5. LiveEntries' = LiveEntries /\ LiveProjects' = LiveProjects /\ Pinned' = Pinned
      /\ \A h : Refs(h)' = Refs(h)
  BY <1>2 DEF LiveEntries, LiveProjects, Pinned, Unpinned, Refs
<1>6. RaceInv'
  BY <1>1, <1>2, <1>5
  DEF ServerInv, RaceInv, BodiesOverlap, RaceOpen, BodiesBacked, BatchFree, ToUnlink, RowBare,
      WalkSeen, Overlapped, DanglingOnlyByRace
<1>7. PinInv' /\ CountInv'
  BY <1>1, <1>5 DEF ServerInv, PinInv, CountInv, Counted
<1> QED
  BY <1>3, <1>4, <1>6, <1>7 DEF ServerInv, ServerTyped

(* Every step keeps the invariant. *)
LEMMA NextServerInv == ServerInv /\ [ServerNext]_serverVars => ServerInv'
  BY StutterServerInv, NextTyped, NextRaceInv, NextPinInv, NextCountInv DEF ServerInv

(* In every state of the server, for any number of requests: an entry's file *)
(* is there or was lost to a race, what the collector holds is free or       *)
(* overlapped by a PUT of the same content, no candidate has been pinned     *)
(* ever since the sweep began, and every acknowledged PUT is counted.        *)
THEOREM ServerInvariant == ServerSpec => []ServerInv
  BY InitServerInv, NextServerInv, PTL DEF ServerSpec

(* Types of the whole server (do_put, get_one, GcSvc).                       *)
THEOREM ServerTypeCorrect == ServerSpec => []ServerTypeOK
<1>1. ServerInv => ServerTypeOK
  <2> SUFFICES ASSUME ServerInv PROVE ServerTypeOK
    OBVIOUS
  <2>1. DbTypeOK /\ StoreTypeOK /\ GcTypeOK /\ HandlersOk /\ HistoryOk
    BY GcTypeIsTyped DEF ServerInv, ServerTyped, DbInv, StoreInv
  <2>2. \A u \in Upload : put[u].pc \in PutPc /\ PutOk(u)
    BY <2>1 DEF HandlersOk, PutRecord
  <2>3. \A r \in Reader : reader[r].pc \in {"idle", "found", "touch"} /\ ReaderOk(r)
    BY <2>1 DEF HandlersOk, ReaderRecord
  <2> QED
    BY <2>1, <2>2, <2>3 DEF ServerTypeOK, HandlersOk, HistoryOk, PutOk, ReaderOk
<1> QED
  BY <1>1, ServerInvariant, PTL

(* The server implements the metadata store: whatever interleaves, the       *)
(* tables only ever change by a method of the repository types, so all that  *)
(* is proved of them holds of the running server.                            *)
THEOREM ServerImplementsDb == ServerSpec => DbSpec
<1>1. ServerInit => DbInit
  BY DEF ServerInit
<1>2. ServerInv /\ [ServerNext]_serverVars => [DbNext]_dbVars
  <2>1. ServerInv /\ ServerNext => [DbNext]_dbVars
    BY ServerMethods DEF ServerInv
  <2>2. UNCHANGED serverVars => UNCHANGED dbVars
    BY DEF serverVars, gcVars
  <2> QED
    BY <2>1, <2>2
<1> QED
  BY <1>1, <1>2, ServerInvariant, PTL DEF ServerSpec, DbSpec

(* write_streamed keeps its promise among sweeps, scans and restarts.        *)
THEOREM ServerPlacesUploads == ServerSpec => []StoredIsPlaced
<1>1. ServerInv => StoredIsPlaced
  BY DEF ServerInv, ServerTyped, StoreInv, Placed, StoredIsPlaced
<1> QED
  BY <1>1, ServerInvariant, PTL

(* Cancelled uploads, failed queries and unlinks, restarts, purges of tmp/,  *)
(* concurrent uploads, deletions, cascades, sweeps and scans never leave an  *)
(* entry that cannot be served: only the collector unlinking a content that  *)
(* a PUT is uploading again at that time does.                               *)
THEOREM LossOnlyByRace == ServerSpec => []DanglingOnlyByRace
<1>1. ServerInv => DanglingOnlyByRace
  BY DEF ServerInv, RaceInv
<1> QED
  BY <1>1, ServerInvariant, PTL

(* stats_counters never lags behind the acknowledged uploads of a project    *)
(* that exists (do_put).                                                     *)
THEOREM AcksAreCounted == ServerSpec => []AckedIsCounted
<1>1. ASSUME ServerInv, NEW p \in LiveProjects
      PROVE  puts[p] >= Cardinality({u \in Upload : put[u].pc = "done" /\ put[u].project_id = p})
  <2> DEFINE D == {u \in Upload : put[u].pc = "done" /\ put[u].project_id = p}
  <2>1. p \in ProjectId /\ puts[p] \in Nat
    BY <1>1 DEF LiveProjects, ServerInv, ServerTyped, HandlersOk
  <2>2. IsFiniteSet(Counted(p)) /\ puts[p] >= Cardinality(Counted(p))
    BY <1>1, <2>1 DEF ServerInv, CountInv
  <2>3. D \in SUBSET Counted(p)
    BY DEF Counted
  <2> HIDE DEF D
  <2>4. IsFiniteSet(D) /\ Cardinality(D) <= Cardinality(Counted(p))
    BY <2>2, <2>3, FS_Subset
  <2>5. Cardinality(D) \in Nat /\ Cardinality(Counted(p)) \in Nat
    BY <2>2, <2>4, FS_CardinalityType
  <2>6. puts[p] >= Cardinality(D)
    BY <2>1, <2>2, <2>4, <2>5
  <2> QED
    BY <2>6 DEF D
<1>2. ServerInv => AckedIsCounted
  BY <1>1 DEF AckedIsCounted
<1> QED
  BY <1>2, ServerInvariant, PTL

-----------------------------------------------------------------------------
(* What a step may never do *)

(* Only the collector drops a blob row. *)
LEMMA RowsEffect ==
    ASSUME ServerNext
    PROVE  blobs \subseteq blobs' \/ \E h \in Hash : CleanupRow(h) \/ ScanPurge(h)
<1>1. CASE GcMoves
  BY <1>1
  DEF GcMoves, GcAction, SweepStart, ScanStart, SweepStep, TtlSelect, QuotaProjects, QuotaUsage,
      QuotaSelect, GlobalUsage, GlobalSelect, Evict, Delete, EvictDry, CleanupSelect, CleanupUnlink,
      SweepDisturbed, EvictNotFound, CleanupRowRefused, ScanStep, ScanRows, ScanVisit, ScanUnlink,
      UnlinkFailure, CleanupUnlinkFails, ScanUnlinkFails, GcAbort, GcCancelUnlink, dbVars, tables
<1>2. CASE HandlerMoves
  BY <1>2
  DEF HandlerMoves, PutStart, PutWrite, PutDiscardFails, PutCancelBody, PutUpsert, Upsert,
      UpsertInsert, UpsertReplace, PutUpsertRefused, PutBump, PutTrigger, PutCancel, GetFind, GetOpen,
      GetTouch, Touch, AdminCreateProject, CreateProject, AdminUpdateProject, UpdateProject,
      AdminDeleteProject, DeleteProject, AdminDeleteEntry, Delete, AdminPin, SetPinned, CliInit,
      ClockTick, Tick, LateUnlink, dbVars, tables
<1>3. CASE CrashRestart
  BY <1>3 DEF CrashRestart, dbVars, tables
<1> QED
  BY <1>1, <1>2, <1>3, ServerCases

(* No order of uploads, sweeps, faults and deletions makes an orphan scan    *)
(* drop a row whose file is there, unless a PUT of that content overlapped   *)
(* the scan (orphan_scan).                                                   *)
THEOREM PurgesOnlyByRace == ServerSpec => ScanPurgesOnlyByRace
<1>1. ASSUME ServerInv, [ServerNext]_serverVars, gc.pc = "scan_purge", NEW h \in blobs \ blobs'
      PROVE  h \notin disk \/ \E u \in overlap : upload[u].hash = h
  <2>1. ServerNext
    BY <1>1 DEF serverVars, gcVars, dbVars, tables
  <2>2. ~\E g \in Hash : CleanupRow(g)
    BY <1>1 DEF CleanupRow
  <2>3. PICK g \in Hash : ScanPurge(g)
    BY <1>1, <2>1, <2>2, RowsEffect
  <2>4. h = g /\ h \in gc.missing
    BY <1>1, <2>3 DEF ScanPurge, PurgeBlob
  <2> QED
    BY <1>1, <2>4 DEF ServerInv, RaceInv, WalkSeen, Overlapped
<1>2. ServerInv /\ [ServerNext]_serverVars
        => [gc.pc = "scan_purge" =>
              \A h \in blobs \ blobs' : h \notin disk \/ \E u \in overlap : upload[u].hash = h]_serverVars
  BY <1>1
<1> QED
  BY <1>2, ServerInvariant, PTL DEF ServerSpec, ScanPurgesOnlyByRace

(* No order of uploads, late unlinks, faults and deletions makes a sweep     *)
(* drop a row whose file is there, unless the unlink failed or a PUT of that *)
(* content overlapped the batch (cleanup_blobs).                             *)
THEOREM LeaksOnlyByRace == ServerSpec => LeakOnlyByRace
<1> DEFINE Explained(h) == \/ h \notin disk \/ h \in gc.kept
                           \/ \E u \in overlap : upload[u].hash = h
<1>1. ASSUME ServerInv, [ServerNext]_serverVars, gc.pc = "row", NEW h \in blobs \ blobs'
      PROVE  Explained(h)
  <2>1. ServerNext
    BY <1>1 DEF serverVars, gcVars, dbVars, tables
  <2>2. ~\E g \in Hash : ScanPurge(g)
    BY <1>1 DEF ScanPurge
  <2>3. PICK g \in Hash : CleanupRow(g)
    BY <1>1, <2>1, <2>2, RowsEffect
  <2>4. h = g /\ h \in gc.current
    BY <1>1, <2>3 DEF CleanupRow, DeleteBlobRow
  <2> QED
    BY <1>1, <2>4 DEF ServerInv, RaceInv, RowBare, Overlapped
<1>2. ServerInv /\ [ServerNext]_serverVars
        => [gc.pc = "row" => \A h \in blobs \ blobs' : Explained(h)]_serverVars
  BY <1>1
<1> QED
  BY <1>2, ServerInvariant, PTL DEF ServerSpec, LeakOnlyByRace

(* No sweep evicts an entry that was pinned before it began and stays        *)
(* pinned, whatever else happens meanwhile (GcSvc::run).                     *)
THEOREM PinsAreSafe == ServerSpec => PinsHeldSurvive
<1>1. ASSUME ServerInv, [ServerNext]_serverVars, Evicting, gc' # gc,
             NEW i \in LiveEntries \ LiveEntries'
      PROVE  i \notin held
  <2>1. ServerNext
    BY <1>1 DEF serverVars, gcVars
  <2>2. entries' # entries
    BY <1>1 DEF LiveEntries
  <2>3. GcAction /\ DbTypeOK /\ GcType
    BY <1>1, <2>1, <2>2, ServerCases, HandlersLeaveGc
    DEF CrashRestart, dbVars, tables, GcMoves, ServerInv, ServerTyped, DbInv
  <2>4. ~\E h \in Hash : ScanPurge(h)
    BY <1>1 DEF Evicting, ScanPurge
  <2>5. PICK c \in gc.queue : Delete(c.project_id, c.id) /\ c.project_id \in ProjectId /\ c.id \in EntryId
    BY <2>2, <2>3, <2>4, GcOnEntries
  <2>6. i = c.id
    BY <1>1, <2>3, <2>5, DeletedOne
  <2> QED
    BY <1>1, <2>6 DEF ServerInv, PinInv
<1>2. ServerInv /\ [ServerNext]_serverVars
        => [Evicting /\ gc' # gc => held \cap (LiveEntries \ LiveEntries') = {}]_serverVars
  BY <1>1
<1> QED
  BY <1>2, ServerInvariant, PTL DEF ServerSpec, PinsHeldSurvive
=============================================================================
