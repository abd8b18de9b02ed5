--------------------------------- MODULE Gc ---------------------------------
(***************************************************************************)
(* The garbage collector (crates/marmotte-core/src/gc.rs): GcSvc::run and   *)
(* GcSvc::orphan_scan over the metadata store and the blob directory.       *)
(*                                                                         *)
(* A step is one await: one query, one transaction or one file operation,  *)
(* with the local control up to the next await.  Between two steps any     *)
(* other task may run, so what a phase has read may be stale when it acts. *)
(* The mutex `running' admits one sweep or scan at a time: there is one gc *)
(* record, and it is taken while gc.pc # "idle".                           *)
(***************************************************************************)
EXTENDS MetadataDb, BlobStore

CONSTANTS
    KindOf,         \* [Key -> Kind]
    DefaultTtl,     \* [Kind -> Nat], default_ttl_*_days in clock units
    GlobalQuota,    \* gc.global_quota_bytes
    Batch           \* BATCH of cleanup_blobs

Kind == {"sstate", "downloads"}

ASSUME GcAssumption ==
    /\ KindOf \in [Key -> Kind]
    /\ DefaultTtl \in [Kind -> Nat]
    /\ GlobalQuota \in Nat
    /\ Batch \in Nat \ {0}

VARIABLE gc

gcVars == <<dbVars, storeVars, gc>>

GcPc == {"idle",
         "ttl", "ttl_evict", "projects", "quota", "quota_select", "quota_evict",
         "global", "global_select", "global_evict", "cleanup", "unlink", "row",
         "walk", "scan_rows", "scan_unlink", "scan_purge"}

(* A row of a candidate list, as the SELECT returned it. *)
Candidate == [id : EntryId, project_id : ProjectId, last_accessed : Time, size : Nat]

GcIdle ==
    [pc |-> "idle", result |-> "none", dry |-> FALSE, now |-> 0, kind |-> "sstate",
     todo |-> {}, queue |-> {}, usage |-> 0,
     batch |-> {}, current |-> {}, unseen |-> {}, missing |-> {}, kept |-> {}]

(* The sweep or scan ends, releases the mutex and reports r.  Its log stays: *)
(* kept is the files it has warned that it could not unlink.                *)
End(r, kept) == gc' = [GcIdle EXCEPT !.result = r, !.dry = gc.dry, !.kept = kept]

Finish(r) == End(r, gc.kept)

-----------------------------------------------------------------------------
(* Queries *)

Row(i) == [id |-> i, project_id |-> entries[i].project_id,
           last_accessed |-> entries[i].last_accessed,
           size |-> Size[entries[i].blob_hash]]

(* SUM(f) over the rows S, as the number of their bytes: a disjoint union   *)
(* with f[x] elements for each x.                                           *)
SumOf(f, S) == Cardinality(UNION {{x} \X (1..f[x]) : x \in S})

(* Entries::project_usage. *)
ProjectUsage(p) ==
    SumOf([i \in LiveEntries |-> Size[entries[i].blob_hash]], EntriesOf(p))

(* Blobs::total_size: every row counts, referenced or not. *)
TotalSize == SumOf(Size, blobs)

(* Has entry i outlived its effective TTL at time t? *)
Expired(i, t) ==
    LET ttl == projects[entries[i].project_id].ttl_seconds
    IN  /\ entries[i].last_accessed < t - (IF ttl = NULL THEN 0 ELSE ttl)
        /\ \/ ttl # NULL
           \/ entries[i].last_accessed < t - DefaultTtl[KindOf[entries[i].key]]

Unpinned == {i \in LiveEntries : ~entries[i].pinned}

(* (last_accessed, id) order of the LRU phases. *)
Older(a, b) ==
    \/ a.last_accessed < b.last_accessed
    \/ a.last_accessed = b.last_accessed /\ a.id < b.id

(* Mutant of NextCandidates: no ORDER BY. *)
NextCandidatesAny == gc.queue

(* The candidates the loop may take next: the LRU phases ORDER BY, the TTL  *)
(* phase's SELECT has no order.                                             *)
NextCandidates ==
    IF gc.pc = "ttl_evict" THEN gc.queue
    ELSE {c \in gc.queue : \A d \in gc.queue \ {c} : Older(c, d)}

-----------------------------------------------------------------------------
(* Local control between awaits: where a phase goes once g.queue is known.  *)

AfterTtl(g) ==
    CASE g.queue # {}                           -> [g EXCEPT !.pc = "ttl_evict"]
      [] g.queue = {} /\ g.kind = "sstate"      -> [g EXCEPT !.pc = "ttl", !.kind = "downloads"]
      [] g.queue = {} /\ g.kind = "downloads"   -> [g EXCEPT !.pc = "projects"]

(* The project the quota loop is at: projects().list() is ordered by id. *)
Current(g) == CHOOSE q \in g.todo : \A r \in g.todo : q.id <= r.id

(* Mutant of NextProject: break instead of continue. *)
NextProjectBreak(g) ==
    [g EXCEPT !.todo = {}, !.queue = {}, !.usage = 0, !.pc = "global"]

NextProject(g) ==
    [g EXCEPT !.todo = @ \ {Current(g)}, !.queue = {}, !.usage = 0,
              !.pc = IF g.todo = {Current(g)} THEN "global" ELSE "quota"]

AfterQuota(g) ==
    IF g.usage <= Current(g).quota \/ g.queue = {}
    THEN NextProject(g)
    ELSE [g EXCEPT !.pc = "quota_evict"]

AfterGlobal(g) ==
    IF g.usage <= GlobalQuota \/ g.queue = {}
    THEN [g EXCEPT !.pc = "cleanup", !.queue = {}, !.usage = 0]
    ELSE [g EXCEPT !.pc = "global_evict"]

AfterEvict(g) ==
    CASE g.pc = "ttl_evict"    -> AfterTtl(g)
      [] g.pc = "quota_evict"  -> AfterQuota(g)
      [] g.pc = "global_evict" -> AfterGlobal(g)

-----------------------------------------------------------------------------
(* GcSvc::run *)

(* The lock is taken and ttl_phase reads the clock. *)
SweepStart(dry) ==
    /\ gc.pc = "idle"
    /\ gc' = [GcIdle EXCEPT !.pc = "ttl", !.dry = dry, !.now = now]
    /\ UNCHANGED <<dbVars, storeVars>>

(* ttl_phase: the candidates of one kind. *)
TtlSelect ==
    /\ gc.pc = "ttl"
    /\ gc' = AfterTtl([gc EXCEPT !.queue =
                 {Row(i) : i \in {j \in Unpinned : /\ KindOf[entries[j].key] = gc.kind
                                                   /\ Expired(j, gc.now)}}])
    /\ UNCHANGED <<dbVars, storeVars>>

(* quota_phase: the projects with a quota; the others are skipped. *)
QuotaProjects ==
    /\ gc.pc = "projects"
    /\ LET limited == {p \in LiveProjects : projects[p].quota_bytes # NULL}
       IN  gc' = [gc EXCEPT
                     !.pc = IF limited = {} THEN "global" ELSE "quota",
                     !.todo = {[id |-> p, quota |-> projects[p].quota_bytes] : p \in limited}]
    /\ UNCHANGED <<dbVars, storeVars>>

(* quota_phase: project_usage of the next project. *)
QuotaUsage ==
    /\ gc.pc = "quota"
    /\ LET usage == ProjectUsage(Current(gc).id)
       IN  gc' = IF usage <= Current(gc).quota THEN NextProject(gc)
                 ELSE [gc EXCEPT !.pc = "quota_select", !.usage = usage]
    /\ UNCHANGED <<dbVars, storeVars>>

(* quota_phase: its unpinned entries. *)
QuotaSelect ==
    /\ gc.pc = "quota_select"
    /\ gc' = AfterQuota([gc EXCEPT !.queue =
                 {Row(i) : i \in Unpinned \cap EntriesOf(Current(gc).id)}])
    /\ UNCHANGED <<dbVars, storeVars>>

(* global_phase: total_size. *)
GlobalUsage ==
    /\ gc.pc = "global"
    /\ gc' = IF TotalSize <= GlobalQuota THEN [gc EXCEPT !.pc = "cleanup"]
             ELSE [gc EXCEPT !.pc = "global_select", !.usage = TotalSize]
    /\ UNCHANGED <<dbVars, storeVars>>

(* Mutant of GlobalSelect: no "pinned = 0". *)
GlobalSelectAll ==
    /\ gc.pc = "global_select"
    /\ gc' = AfterGlobal([gc EXCEPT !.queue = {Row(i) : i \in LiveEntries}])
    /\ UNCHANGED <<dbVars, storeVars>>

(* global_phase: every unpinned entry. *)
GlobalSelect ==
    /\ gc.pc = "global_select"
    /\ gc' = AfterGlobal([gc EXCEPT !.queue = {Row(i) : i \in Unpinned}])
    /\ UNCHANGED <<dbVars, storeVars>>

Evicting == gc.pc \in {"ttl_evict", "quota_evict", "global_evict"}

(* gc once candidate c has been handled; its size counts as freed. *)
Evicted(c) ==
    AfterEvict([gc EXCEPT !.queue = @ \ {c},
                          !.usage = IF gc.pc = "ttl_evict" THEN @ ELSE @ - c.size])

(* One round of an eviction loop: Entries::delete of the candidate. *)
Evict ==
    /\ Evicting /\ ~gc.dry
    /\ \E c \in NextCandidates :
          /\ Delete(c.project_id, c.id)
          /\ gc' = Evicted(c)
    /\ UNCHANGED storeVars

(* A dry run only counts. *)
EvictDry ==
    /\ Evicting /\ gc.dry
    /\ \E c \in NextCandidates : gc' = Evicted(c)
    /\ UNCHANGED <<dbVars, storeVars>>

(* Mutant of EvictNotFound: the loop tries the same candidate again. *)
EvictNotFoundRetries ==
    /\ Evicting /\ ~gc.dry
    /\ \E c \in NextCandidates : c.id \notin EntriesOf(c.project_id)
    /\ UNCHANGED gcVars

(* The candidate is gone: Entries::delete answers NotFound, and `?' ends    *)
(* the whole sweep.                                                         *)
EvictNotFound ==
    /\ Evicting /\ ~gc.dry
    /\ \E c \in NextCandidates : c.id \notin EntriesOf(c.project_id)
    /\ Finish("failed")
    /\ UNCHANGED <<dbVars, storeVars>>

(* Mutant of CleanupSelect: a dry run does not break. *)
CleanupSelectNoBreak ==
    /\ gc.pc = "cleanup"
    /\ IF ZeroRefcount = {}
       THEN Finish("swept")
       ELSE IF gc.dry THEN UNCHANGED gc
       ELSE \E b \in SUBSET ZeroRefcount :
               /\ b = ZeroRefcount \/ Cardinality(b) = Batch
               /\ Cardinality(b) <= Batch
               /\ gc' = [gc EXCEPT !.pc = "unlink", !.batch = b]
    /\ UNCHANGED <<dbVars, storeVars>>

(* Mutant of CleanupSelect: the last reference counts as none. *)
CleanupSelectOffByOne ==
    /\ gc.pc = "cleanup"
    /\ LET free == {h \in blobs : refcount[h] <= 1} IN
       IF free = {} \/ gc.dry
       THEN Finish("swept")
       ELSE \E b \in SUBSET free :
               /\ b = free \/ Cardinality(b) = Batch
               /\ Cardinality(b) <= Batch
               /\ gc' = [gc EXCEPT !.pc = "unlink", !.batch = b]
    /\ UNCHANGED <<dbVars, storeVars>>

(* cleanup_blobs: the next batch of zero-refcount rows, in no order.  An     *)
(* empty one ends the sweep, and so does a dry run after its first; the     *)
(* total_size that run then reads only goes into the report.                *)
CleanupSelect ==
    /\ gc.pc = "cleanup"
    /\ IF ZeroRefcount = {} \/ gc.dry
       THEN Finish("swept")
       ELSE \E b \in SUBSET ZeroRefcount :
               /\ b = ZeroRefcount \/ Cardinality(b) = Batch
               /\ Cardinality(b) <= Batch
               /\ gc' = [gc EXCEPT !.pc = "unlink", !.batch = b]
    /\ UNCHANGED <<dbVars, storeVars>>

(* Mutant of CleanupUnlink: the file is left to the next sweep. *)
CleanupUnlinkSkipped(h) ==
    /\ gc.pc = "unlink" /\ h \in gc.batch
    /\ gc' = [gc EXCEPT !.pc = "row", !.current = {h}]
    /\ UNCHANGED <<dbVars, storeVars>>

(* cleanup_blobs: delete_blob of a hash of the batch. *)
CleanupUnlink(h) ==
    /\ gc.pc = "unlink" /\ h \in gc.batch
    /\ DeleteBlob(h)
    /\ gc' = [gc EXCEPT !.pc = "row", !.current = {h}]
    /\ UNCHANGED dbVars

(* ... or its failure, which is only logged: the row goes all the same. *)
CleanupUnlinkFails(h) ==
    /\ gc.pc = "unlink" /\ h \in gc.batch
    /\ gc' = [gc EXCEPT !.pc = "row", !.current = {h}, !.kept = @ \cup {h}]
    /\ UNCHANGED <<dbVars, storeVars>>

(* Mutant of CleanupRow: the DELETE ignores the foreign key. *)
CleanupRowUnchecked(h) ==
    /\ gc.pc = "row" /\ h \in gc.current
    /\ blobs' = blobs \ {h}
    /\ refcount' = [refcount EXCEPT ![h] = 0]
    /\ gc' = [gc EXCEPT !.pc = IF gc.batch = {h} THEN "cleanup" ELSE "unlink",
                        !.batch = @ \ {h}, !.current = {}]
    /\ UNCHANGED <<now, projects, nextProject, entries, nextEntry, storeVars>>

(* cleanup_blobs: blobs().delete of that hash. *)
CleanupRow(h) ==
    /\ gc.pc = "row" /\ h \in gc.current
    /\ DeleteBlobRow(h)
    /\ gc' = [gc EXCEPT !.pc = IF gc.batch = {h} THEN "cleanup" ELSE "unlink",
                        !.batch = @ \ {h}, !.current = {}]
    /\ UNCHANGED storeVars

(* The row is referenced again: the foreign key refuses it and `?' ends the *)
(* sweep.                                                                   *)
CleanupRowRefused ==
    /\ gc.pc = "row" /\ \E h \in gc.current : Refs(h) # {}
    /\ Finish("failed")
    /\ UNCHANGED <<dbVars, storeVars>>

-----------------------------------------------------------------------------
(* GcSvc::orphan_scan *)

ScanStart(dry) ==
    /\ gc.pc = "idle"
    /\ gc' = [GcIdle EXCEPT !.pc = "walk", !.dry = dry, !.unseen = Hash]
    /\ UNCHANGED <<dbVars, storeVars>>

(* Mutant of ScanVisit: the walk stops above the level of the files. *)
ScanVisitShallow(h) ==
    /\ gc.pc = "walk" /\ h \in gc.unseen
    /\ gc' = [gc EXCEPT !.unseen = @ \ {h},
                        !.pc = IF gc.unseen = {h} THEN "scan_rows" ELSE "walk"]
    /\ UNCHANGED <<dbVars, storeVars>>

(* walk_blobs visits the shard of h; batch collects on_disk. *)
ScanVisit(h) ==
    /\ gc.pc = "walk" /\ h \in gc.unseen
    /\ gc' = [gc EXCEPT !.unseen = @ \ {h}, !.batch = @ \cup ({h} \cap disk),
                        !.pc = IF gc.unseen = {h} THEN "scan_rows" ELSE "walk"]
    /\ UNCHANGED <<dbVars, storeVars>>

(* Where the scan is with batch on_disk \ db still to unlink and missing    *)
(* db \ on_disk still to purge.                                             *)
ScanPc(batch, missing) ==
    IF batch # {} THEN "scan_unlink" ELSE IF missing # {} THEN "scan_purge" ELSE "idle"

ScanGoto(batch, missing, kept) ==
    IF ScanPc(batch, missing) = "idle" THEN End("scanned", kept)
    ELSE gc' = [gc EXCEPT !.pc = ScanPc(batch, missing), !.batch = batch, !.missing = missing,
                          !.kept = kept]

(* Mutant of ScanRows: rows without a file are only logged. *)
ScanRowsNoPurge ==
    /\ gc.pc = "scan_rows"
    /\ IF gc.dry THEN Finish("scanned") ELSE ScanGoto(gc.batch \ blobs, {}, gc.kept)
    /\ UNCHANGED <<dbVars, storeVars>>

(* SELECT hash FROM blobs; a dry run counts the differences and ends. *)
ScanRows ==
    /\ gc.pc = "scan_rows"
    /\ IF gc.dry THEN Finish("scanned")
       ELSE ScanGoto(gc.batch \ blobs, blobs \ gc.batch, gc.kept)
    /\ UNCHANGED <<dbVars, storeVars>>

(* A file with no row is unlinked ... *)
ScanUnlink(h) ==
    /\ gc.pc = "scan_unlink" /\ h \in gc.batch
    /\ DeleteBlob(h)
    /\ ScanGoto(gc.batch \ {h}, gc.missing, gc.kept)
    /\ UNCHANGED dbVars

(* ... or stays, with a warning. *)
ScanUnlinkFails(h) ==
    /\ gc.pc = "scan_unlink" /\ h \in gc.batch
    /\ ScanGoto(gc.batch \ {h}, gc.missing, gc.kept \cup {h})
    /\ UNCHANGED <<dbVars, storeVars>>

(* A row with no file is purged with its entries, pinned ones too. *)
ScanPurge(h) ==
    /\ gc.pc = "scan_purge" /\ h \in gc.missing
    /\ PurgeBlob(h)
    /\ ScanGoto({}, gc.missing \ {h}, gc.kept)
    /\ UNCHANGED storeVars

-----------------------------------------------------------------------------
(* A query fails, the walk fails, or the request that runs the collector is *)
(* cancelled: the mutex is released, what is done stays done.               *)
GcAbort ==
    /\ gc.pc # "idle"
    /\ Finish("failed")
    /\ UNCHANGED <<dbVars, storeVars>>

(* The same while its delete_blob is under way: the mutex is released and   *)
(* the unlink still to come.                                                *)
GcCancelUnlink(h) ==
    /\ gc.pc \in {"unlink", "scan_unlink"} /\ h \in gc.batch
    /\ DeleteDropped(h)
    /\ Finish("failed")
    /\ UNCHANGED dbVars

SweepStep ==
    \/ TtlSelect \/ QuotaProjects \/ QuotaUsage \/ QuotaSelect
    \/ GlobalUsage \/ GlobalSelect
    \/ Evict \/ EvictDry
    \/ CleanupSelect
    \/ \E h \in Hash : CleanupUnlink(h) \/ CleanupRow(h)

(* What only happens to a sweep that others disturb. *)
SweepDisturbed == EvictNotFound \/ CleanupRowRefused

ScanStep ==
    \/ ScanRows
    \/ \E h \in Hash : ScanVisit(h) \/ ScanUnlink(h) \/ ScanPurge(h)

UnlinkFailure == \E h \in Hash : CleanupUnlinkFails(h) \/ ScanUnlinkFails(h)

-----------------------------------------------------------------------------
(* The collector with nobody else running, over whatever tables and files   *)
(* it finds.  Its queries and unlinks may fail, and it may be cancelled; an *)
(* unlink that outlives a pass (GcCancelUnlink) is somebody else running.   *)

SweepAlone ==
    \/ \E dry \in BOOLEAN : SweepStart(dry)
    \/ SweepStep
    \/ \E h \in Hash : CleanupUnlinkFails(h)
    \/ GcAbort

ScanAlone ==
    \/ \E dry \in BOOLEAN : ScanStart(dry)
    \/ ScanStep
    \/ \E h \in Hash : ScanUnlinkFails(h)
    \/ GcAbort

AloneInit ==
    /\ DbTypeOK /\ ForeignKeys /\ UniqueKeys /\ NoUndercount
    /\ StoreTypeOK
    /\ gc = GcIdle

AloneNext == SweepAlone \/ ScanAlone

AloneSpec == AloneInit /\ [][AloneNext]_gcVars

-----------------------------------------------------------------------------
(* Properties *)

(* The collector's record has its type; it holds candidates only inside an   *)
(* eviction loop and a batch only while cleaning or scanning (gc.rs).        *)
GcTypeOK ==
    /\ gc.pc \in GcPc
    /\ gc.result \in {"none", "swept", "scanned", "failed"}
    /\ gc.dry \in BOOLEAN
    /\ gc.now \in Time /\ gc.now <= now
    /\ gc.kind \in Kind
    /\ gc.queue \subseteq Candidate
    /\ gc.usage \in Int
    /\ gc.batch \cup gc.current \cup gc.unseen \cup gc.missing \cup gc.kept \subseteq Hash
    /\ gc.todo \subseteq [id : ProjectId, quota : QuotaVal]
    /\ Evicting <=> gc.queue # {}
    /\ gc.pc \in {"unlink", "row"} => gc.batch # {} /\ ~gc.dry
    /\ gc.pc \in {"quota", "quota_select", "quota_evict"} => gc.todo # {}

(* A sweep that ran undisturbed and reported success. *)
Swept == gc.pc = "idle" /\ gc.result = "swept" /\ ~gc.dry

(* No unpinned entry is older than its effective TTL: the project's override  *)
(* where there is one, the default of its kind otherwise.                     *)
WithinTtl == \A i \in Unpinned : ~Expired(i, now)

(* Every project is within its quota, or has nothing but pinned entries.      *)
WithinQuota ==
    \A p \in LiveProjects :
        \/ projects[p].quota_bytes = NULL
        \/ ProjectUsage(p) <= projects[p].quota_bytes
        \/ Unpinned \cap EntriesOf(p) = {}

(* A successful sweep has enforced every TTL (ttl_phase) and every project's  *)
(* quota (quota_phase), and has left no row that cleanup_blobs could have     *)
(* freed, batch limit or not.                                                 *)
SweepReachesLimits == Swept => WithinTtl /\ WithinQuota /\ ZeroRefcount = {}

(* quota_phase evicts the least recently used unpinned entry of the project,  *)
(* and only while the project is still over its quota.                        *)
QuotaEvictsLruWhileOver ==
    [][gc.pc = "quota_evict" =>
          \A i \in LiveEntries \ LiveEntries' :
              LET p == entries[i].project_id IN
              /\ ProjectUsage(p) > projects[p].quota_bytes
              /\ \A j \in (Unpinned \cap EntriesOf(p)) \ {i} : Older(Row(i), Row(j))]_gcVars

(* A pass takes no more than it must: with nobody else running no phase of a  *)
(* sweep evicts a pinned entry, a scan leaves an entry whose file was there   *)
(* its row and its file, and a dry run changes no table and no file.          *)
PassSparesTheRest ==
    [][/\ gc.pc # "scan_purge" => LiveEntries \ LiveEntries' \subseteq Unpinned
       /\ gc.pc \in {"scan_unlink", "scan_purge"} =>
             /\ \A i \in LiveEntries \ LiveEntries' : entries[i].blob_hash \notin disk
             /\ blobs \cap disk \subseteq disk'
       /\ gc.dry => UNCHANGED <<tables, disk>>]_gcVars

(* A pass drops a row only after its file: the file is gone by then, or this  *)
(* pass has tried to unlink it and has logged the failure (gc.rs:328-331).    *)
(* So an undisturbed pass that fails or is cancelled anywhere leaves no file  *)
(* without a row other than those its own warnings name.                      *)
FileGoesBeforeRow == [][\A h \in blobs \ blobs' : h \in disk => h \in gc.kept]_gcVars

(* A sweep or scan ends: the batches and loops of gc.rs run dry, and the      *)
(* mutex is released.                                                         *)
GcEnds == gc.pc # "idle" ~> gc.pc = "idle"

(* An undisturbed orphan scan that reports success leaves a file for every    *)
(* row, whatever it found, so every entry left can be served, and no file     *)
(* without a row other than those whose unlink it logged as failed.           *)
ScanReconciles ==
    gc.pc = "idle" /\ gc.result = "scanned" /\ ~gc.dry =>
        /\ blobs \subseteq disk /\ disk \ blobs \subseteq gc.kept
        /\ \A i \in LiveEntries : entries[i].blob_hash \in disk

(* gc.rs:16-18: "if total blob storage still exceeds global_quota_bytes,      *)
(* evict more entries world-wide, LRU first, until the global quota is        *)
(* satisfied."                                                                *)
SweepEnforcesGlobalQuota == Swept => TotalSize <= GlobalQuota \/ Unpinned = {}
=============================================================================
