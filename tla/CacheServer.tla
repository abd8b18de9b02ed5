----------------------------- MODULE CacheServer -----------------------------
(***************************************************************************)
(* The running server: PUT and GET requests of the Yocto routes             *)
(* (crates/marmotte-server/src/routes/yocto.rs), the admin routes, the GC   *)
(* ticker and the soft trigger, all sharing one metadata store and one      *)
(* blob directory, with cancelled requests, failed queries and unlinks,     *)
(* and process restarts.                                                    *)
(*                                                                         *)
(* Requests are already authenticated.  A credential the verify cache      *)
(* still holds is admitted after its project has been deleted, so a        *)
(* request's project is any that once existed, and may go at any step.     *)
(***************************************************************************)
EXTENDS Gc

CONSTANTS
    Reader,         \* concurrent GET requests
    Threshold,      \* global_quota_bytes * trigger_threshold_pct / 100
    AdminOps,       \* which admin requests a run makes
    MaxFaults       \* bound: restarts, failed queries and failed unlinks

ASSUME ServerAssumption ==
    /\ Threshold \in Nat
    /\ MaxFaults \in Nat
    /\ AdminOps \subseteq {"update", "drop", "delete", "pin", "sweep", "dry", "scan", "init"}

VARIABLES
    put,            \* [Upload -> [pc, project_id, key]], the PUT handlers
    reader,         \* [Reader -> [pc, id, hash]], the GET handlers
    puts,           \* the "put" rows of stats_counters, per project
    queued,         \* sweeps spawned by the soft trigger, waiting for the mutex
    faults,         \* faults so far
    held,           \* history: entries pinned ever since the sweep began
    overlap,        \* history: PUTs in their body at some time since the
                    \* collector chose what it is unlinking, or what a
                    \* cancelled pass has left in the blocking pool
    raced           \* history: hashes unlinked while such a PUT carried them

serverVars == <<gcVars, put, reader, puts, queued, faults, held, overlap, raced>>

handlers == <<put, reader, puts, queued>>

PutPc == {"idle", "body", "recorded", "counted", "done", "failed"}

ReaderIdle == [pc |-> "idle", id |-> NULL, hash |-> NULL]

Advance(u, pc) == put' = [put EXCEPT ![u].pc = pc]

Pinned == LiveEntries \ Unpinned

(* The history variables, which every action updates. *)
History ==
    /\ held' = IF gc'.pc = "ttl" /\ gc.pc = "idle" THEN Pinned
               ELSE IF gc'.pc = "idle" THEN {} ELSE held \cap Pinned'
    /\ overlap' = IF \/ gc'.pc \in {"unlink", "row", "walk", "scan_rows", "scan_unlink", "scan_purge"}
                     \/ late' # {}
                  THEN overlap \cup {u \in Upload : "body" \in {put[u].pc, put'[u].pc}}
                  ELSE {}
    /\ raced' = raced \cup {h \in disk \ disk' : \E u \in overlap : upload[u].hash = h}

-----------------------------------------------------------------------------
(* PUT: do_put *)

PutStart(u, p, k) ==
    /\ put[u].pc = "idle"
    /\ p < nextProject
    /\ WriteStart(u)
    /\ put' = [put EXCEPT ![u] = [pc |-> "body", project_id |-> p, key |-> k]]
    /\ UNCHANGED <<dbVars, gc, reader, puts, queued, faults>>
    /\ History

(* write_streamed; when it fails the request answers an error. *)
PutWrite(u) ==
    /\ put[u].pc = "body"
    /\ WriteStep(u)
    /\ UNCHANGED <<dbVars, gc, handlers, faults>>
    /\ History

(* The unlink of a tmp file fails, which write_streamed ignores. *)
PutDiscardFails(u) ==
    /\ faults < MaxFaults
    /\ faults' = faults + 1
    /\ put[u].pc = "body"
    /\ WriteDiscardFails(u)
    /\ UNCHANGED <<dbVars, gc, handlers>>
    /\ History

(* Mutant of PutUpsert: the entry is recorded before the body is stored. *)
PutUpsertEarly(u) ==
    /\ put[u].pc = "body"
    /\ Upsert(put[u].project_id, put[u].key, upload[u].hash)
    /\ Advance(u, "recorded")
    /\ UNCHANGED <<storeVars, gc, reader, puts, queued, faults>>
    /\ History

(* entries().upsert *)
PutUpsert(u) ==
    /\ put[u].pc = "body" /\ upload[u].pc = "stored"
    /\ Upsert(put[u].project_id, put[u].key, upload[u].hash)
    /\ Advance(u, "recorded")
    /\ UNCHANGED <<storeVars, gc, reader, puts, queued, faults>>
    /\ History

(* ... whose foreign key fails when the project is gone. *)
PutUpsertRefused(u) ==
    /\ put[u].pc = "body" /\ upload[u].pc = "stored"
    /\ put[u].project_id \notin LiveProjects
    /\ Advance(u, "failed")
    /\ UNCHANGED <<dbVars, storeVars, gc, reader, puts, queued, faults>>
    /\ History

(* Mutant of PutBump: an existing counter row is not updated. *)
PutBumpNoUpdate(u) ==
    /\ put[u].pc = "recorded"
    /\ LET p == put[u].project_id IN
       IF p \in LiveProjects
       THEN puts' = [puts EXCEPT ![p] = 1] /\ Advance(u, "counted")
       ELSE Advance(u, "failed") /\ UNCHANGED puts
    /\ UNCHANGED <<dbVars, storeVars, gc, reader, queued, faults>>
    /\ History

(* stats().bump: it has the same foreign key, and its error is the answer   *)
(* although the upload is stored and recorded.                              *)
PutBump(u) ==
    /\ put[u].pc = "recorded"
    /\ LET p == put[u].project_id IN
       IF p \in LiveProjects
       THEN puts' = [puts EXCEPT ![p] = @ + 1] /\ Advance(u, "counted")
       ELSE Advance(u, "failed") /\ UNCHANGED puts
    /\ UNCHANGED <<dbVars, storeVars, gc, reader, queued, faults>>
    /\ History

(* total_size, the soft trigger and 201 Created. *)
PutTrigger(u) ==
    /\ put[u].pc = "counted"
    /\ queued' = IF TotalSize > Threshold THEN queued + 1 ELSE queued
    /\ Advance(u, "done")
    /\ UNCHANGED <<dbVars, storeVars, gc, reader, puts, faults>>
    /\ History

(* The client goes away, TimeoutLayer fires, the body breaks or a query     *)
(* fails: the handler ends at whatever await it had reached.                *)
PutCancelBody(u) ==
    /\ put[u].pc = "body"
    /\ WriteAbort(u)
    /\ UNCHANGED <<dbVars, gc, handlers, faults>>
    /\ History

PutCancel(u) ==
    /\ \/ put[u].pc = "body" /\ upload[u].pc = "stored"
       \/ put[u].pc \in {"recorded", "counted"}
    /\ Advance(u, "failed")
    /\ UNCHANGED <<dbVars, storeVars, gc, reader, puts, queued, faults>>
    /\ History

-----------------------------------------------------------------------------
(* GET: get_one.  A HEAD request is GetFind alone and changes nothing.      *)

GetFind(r, p, k) ==
    /\ reader[r].pc = "idle"
    /\ \E i \in Find(p, k) :
          reader' = [reader EXCEPT ![r] =
                        [pc |-> "found", id |-> i, hash |-> entries[i].blob_hash]]
    /\ UNCHANGED <<dbVars, storeVars, gc, put, puts, queued, faults>>
    /\ History

(* read_blob: a missing file is a 404 miss; otherwise the response streams  *)
(* and the touch is spawned.                                                *)
GetOpen(r) ==
    /\ reader[r].pc = "found"
    /\ reader' = IF reader[r].hash \in disk
                 THEN [reader EXCEPT ![r].pc = "touch"]
                 ELSE [reader EXCEPT ![r] = ReaderIdle]
    /\ UNCHANGED <<dbVars, storeVars, gc, put, puts, queued, faults>>
    /\ History

(* The spawned touch runs, however late; by then the id may have no row. *)
GetTouch(r) ==
    /\ reader[r].pc = "touch"
    /\ Touch(reader[r].id)
    /\ reader' = [reader EXCEPT ![r] = ReaderIdle]
    /\ UNCHANGED <<storeVars, gc, put, puts, queued, faults>>
    /\ History

-----------------------------------------------------------------------------
(* Admin routes.  Each answers after its audit row, which no other          *)
(* operation reads.                                                         *)

AdminCreateProject ==
    /\ \E n \in Name, q \in QuotaVal \cup {NULL}, t \in TtlVal \cup {NULL} :
          CreateProject(n, q, t)
    /\ UNCHANGED <<storeVars, gc, handlers, faults>>
    /\ History

AdminUpdateProject ==
    /\ "update" \in AdminOps
    /\ \E p \in ProjectId, n \in Name, q \in QuotaVal \cup {NULL}, t \in TtlVal \cup {NULL} :
          UpdateProject(p, n, q, t)
    /\ UNCHANGED <<storeVars, gc, handlers, faults>>
    /\ History

(* The cascade takes the project's stats_counters rows as well. *)
AdminDeleteProject ==
    /\ "drop" \in AdminOps
    /\ \E p \in ProjectId :
          /\ DeleteProject(p)
          /\ puts' = [puts EXCEPT ![p] = 0]
    /\ UNCHANGED <<storeVars, gc, put, reader, queued, faults>>
    /\ History

AdminDeleteEntry ==
    /\ "delete" \in AdminOps
    /\ \E p \in ProjectId, i \in EntryId : Delete(p, i)
    /\ UNCHANGED <<storeVars, gc, handlers, faults>>
    /\ History

AdminPin ==
    /\ "pin" \in AdminOps
    /\ \E p \in ProjectId, i \in EntryId, b \in BOOLEAN : SetPinned(p, i, b)
    /\ UNCHANGED <<storeVars, gc, handlers, faults>>
    /\ History

AdminSweep ==
    /\ \/ "sweep" \in AdminOps /\ SweepStart(FALSE)
       \/ "dry" \in AdminOps /\ SweepStart(TRUE)
    /\ UNCHANGED <<handlers, faults>>
    /\ History

AdminScan ==
    /\ "scan" \in AdminOps
    /\ \/ ScanStart(FALSE)
       \/ "dry" \in AdminOps /\ ScanStart(TRUE)
    /\ UNCHANGED <<handlers, faults>>
    /\ History

(* marmotte init on the directory of a live server. *)
CliInit ==
    /\ "init" \in AdminOps
    /\ OpenStore
    /\ UNCHANGED <<dbVars, gc, handlers, faults>>
    /\ History

-----------------------------------------------------------------------------
(* The collector's tasks *)

(* Mutant of TickerSweep: the periodic sweep is a dry run. *)
TickerSweepDry ==
    /\ SweepStart(TRUE)
    /\ UNCHANGED <<handlers, faults>>
    /\ History

(* spawn_gc_ticker: the first tick at once, then every interval. *)
TickerSweep ==
    /\ SweepStart(FALSE)
    /\ UNCHANGED <<handlers, faults>>
    /\ History

(* A sweep spawned by the soft trigger gets the mutex. *)
QueuedSweep ==
    /\ queued > 0
    /\ queued' = queued - 1
    /\ SweepStart(FALSE)
    /\ UNCHANGED <<put, reader, puts, faults>>
    /\ History

GcStep ==
    /\ SweepStep \/ SweepDisturbed \/ ScanStep
    /\ UNCHANGED <<handlers, faults>>
    /\ History

-----------------------------------------------------------------------------
(* Faults and time *)

GcFault ==
    /\ faults < MaxFaults
    /\ faults' = faults + 1
    /\ GcAbort \/ UnlinkFailure \/ \E h \in Hash : GcCancelUnlink(h)
    /\ UNCHANGED handlers
    /\ History

(* An unlink that a cancelled pass has left in the blocking pool runs. *)
LateUnlink ==
    /\ \E h \in Hash : DeleteLate(h)
    /\ UNCHANGED <<dbVars, gc, handlers, faults>>
    /\ History

(* The process dies and is started again: tables and files stay, every task *)
(* is lost.                                                                 *)
CrashRestart ==
    /\ faults < MaxFaults
    /\ faults' = faults + 1
    /\ RestartStore
    /\ gc' = GcIdle
    /\ put' = [u \in Upload |-> IF put[u].pc \in {"body", "recorded", "counted"}
                                THEN [put[u] EXCEPT !.pc = "failed"] ELSE put[u]]
    /\ reader' = [r \in Reader |-> ReaderIdle]
    /\ queued' = 0
    /\ UNCHANGED <<dbVars, puts>>
    /\ History

ClockTick ==
    /\ Tick
    /\ UNCHANGED <<storeVars, gc, handlers, faults>>
    /\ History

-----------------------------------------------------------------------------
ServerInit ==
    /\ DbInit /\ StoreInit
    /\ gc = GcIdle
    /\ put = [u \in Upload |-> [pc |-> "idle", project_id |-> NULL, key |-> NULL]]
    /\ reader = [r \in Reader |-> ReaderIdle]
    /\ puts = [p \in ProjectId |-> 0]
    /\ queued = 0
    /\ faults = 0
    /\ held = {}
    /\ overlap = {}
    /\ raced = {}

PutStep(u) ==
    \/ PutWrite(u)
    \/ PutUpsert(u)
    \/ PutUpsertRefused(u)
    \/ PutBump(u)
    \/ PutTrigger(u)

GetStep(r) == GetOpen(r) \/ GetTouch(r)

ServerNext ==
    \/ \E u \in Upload, p \in ProjectId, k \in Key : PutStart(u, p, k)
    \/ \E u \in Upload : PutStep(u)
    \/ \E u \in Upload : PutDiscardFails(u)
    \/ \E u \in Upload : PutCancelBody(u)
    \/ \E u \in Upload : PutCancel(u)
    \/ \E r \in Reader, p \in ProjectId, k \in Key : GetFind(r, p, k)
    \/ \E r \in Reader : GetStep(r)
    \/ AdminCreateProject \/ AdminUpdateProject \/ AdminDeleteProject
    \/ AdminDeleteEntry \/ AdminPin
    \/ AdminSweep \/ AdminScan \/ CliInit
    \/ TickerSweep \/ QueuedSweep \/ GcStep
    \/ GcFault \/ LateUnlink \/ CrashRestart
    \/ ClockTick

ServerSpec == ServerInit /\ [][ServerNext]_serverVars

(* tokio polls every runnable task, so a handler or a sweep that can move    *)
(* does; its mutex is first come, first served, so a waiting sweep gets it   *)
(* even if other sweeps and scans keep taking it.                            *)
Fairness ==
    /\ \A u \in Upload : WF_serverVars(PutStep(u))
    /\ \A r \in Reader : WF_serverVars(GetStep(r))
    /\ WF_serverVars(GcStep)
    /\ SF_serverVars(TickerSweep)
    /\ SF_serverVars(QueuedSweep)

FairServerSpec == ServerSpec /\ Fairness

-----------------------------------------------------------------------------
(* Properties *)

(* Handlers, counters and histories have their types; a PUT past its body    *)
(* has its upload stored, and a GET that found an entry holds an id that has *)
(* been drawn (do_put, get_one).                                             *)
ServerTypeOK ==
    /\ DbTypeOK /\ StoreTypeOK /\ GcTypeOK
    /\ \A u \in Upload :
          /\ put[u].pc \in PutPc
          /\ put[u].pc = "idle" <=> upload[u].pc = "idle"
          /\ put[u].pc \in {"recorded", "counted", "done"} => upload[u].pc = "stored"
    /\ \A r \in Reader :
          /\ reader[r].pc \in {"idle", "found", "touch"}
          /\ reader[r].pc # "idle" => reader[r].id < nextEntry
    /\ \A p \in ProjectId : puts[p] \in Nat
    /\ queued \in Nat
    /\ faults \in 0..MaxFaults
    /\ held \subseteq EntryId /\ overlap \subseteq Upload /\ raced \subseteq Hash

(* An entry's file is on disk unless the collector unlinked it, perhaps as   *)
(* late as after its pass was cancelled, and a PUT of the same content       *)
(* overlapped the time since the batch or the walk that chose it.            *)
(* Cancelled uploads, failed queries and unlinks, restarts, purges of tmp/,  *)
(* concurrent uploads, deletions and project cascades never leave an entry   *)
(* that cannot be served, and neither does the collector on its own          *)
(* (do_put, cleanup_blobs, orphan_scan).                                     *)
DanglingOnlyByRace ==
    \A i \in LiveEntries : entries[i].blob_hash \in disk \cup raced

(* An orphan scan drops a row, with its entries, only if the file is gone or *)
(* a PUT of the same content overlapped the scan: no order of sweeps, files, *)
(* faults and deletions makes it take what is backed otherwise               *)
(* (orphan_scan).                                                            *)
ScanPurgesOnlyByRace ==
    [][gc.pc = "scan_purge" =>
          \A h \in blobs \ blobs' : h \notin disk \/ \E u \in overlap : upload[u].hash = h]_serverVars

(* A sweep drops a row whose file is still there only if it has logged that  *)
(* the unlink failed, or if a PUT of the same content overlapped the batch   *)
(* and has placed the file again: no other order of uploads, late unlinks,   *)
(* faults and deletions leaves a file that no sweep will ever find           *)
(* (cleanup_blobs).                                                          *)
LeakOnlyByRace ==
    [][gc.pc = "row" =>
          \A h \in blobs \ blobs' : \/ h \notin disk \/ h \in gc.kept
                                    \/ \E u \in overlap : upload[u].hash = h]_serverVars

(* An entry that was pinned before a sweep began, and stays so, is not       *)
(* evicted by it, whatever else happens meanwhile.                           *)
PinsHeldSurvive ==
    [][Evicting /\ gc' # gc => held \cap (LiveEntries \ LiveEntries') = {}]_serverVars

(* A PUT that was answered 201 is counted: stats_counters never lags behind  *)
(* the acknowledged uploads of a project that still exists.                  *)
AckedIsCounted ==
    \A p \in LiveProjects :
        puts[p] >= Cardinality({u \in Upload : put[u].pc = "done" /\ put[u].project_id = p})

(* Every row whose refcount fell to zero is freed or referenced again, for   *)
(* all the sweeps that abort on the way (spawn_gc_ticker, cleanup_blobs).    *)
GarbageIsCollected ==
    \A h \in Hash : h \in ZeroRefcount ~> h \notin ZeroRefcount

(* Every sweep and every scan ends, and every sweep the soft trigger spawned *)
(* gets its turn (GcSvc::run, do_put).                                       *)
SweepsGetTheirTurn ==
    /\ gc.pc # "idle" ~> gc.pc = "idle"
    /\ queued > 0 ~> queued = 0

-----------------------------------------------------------------------------
(* What comments of the repository say of the collector. *)

(* gc.rs:326: "Deletes blob files and rows whose refcount has reached zero." *)
CleanupUnlinksOnlyFree ==
    [][gc.pc = "unlink" => \A h \in disk \ disk' : refcount[h] = 0]_serverVars
=============================================================================
