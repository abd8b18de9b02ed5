----------------------------- MODULE MetadataDb -----------------------------
(***************************************************************************)
(* The SQLite metadata store of marmotte-core: the projects, entries and   *)
(* blobs tables, and the repository methods that change them               *)
(* (crates/marmotte-core/src/db/).  Every action is one committed          *)
(* transaction or one autocommitted statement; a transaction that fails    *)
(* rolls back and changes nothing, so a failure is a stuttering step here. *)
(*                                                                         *)
(* A blob's size is a function of its hash (the store is content           *)
(* addressed), so the size_bytes columns of blobs and entries are Size[h]. *)
(* A key is an entry's (kind, path) pair.                                  *)
(***************************************************************************)
EXTENDS Content, Integers, FiniteSets

CONSTANTS
    Name,           \* project names
    Key,            \* (kind, path) pairs of cache entries
    QuotaVal,       \* values of projects.quota_bytes other than NULL
    TtlVal,         \* values of projects.ttl_seconds other than NULL
    MaxProjectId,   \* bound: project rows ever created
    MaxEntryId,     \* bound: entry rows ever created
    MaxTime,        \* bound on the wall clock
    NULL            \* SQL NULL, and "no such row"

ProjectId == 1..MaxProjectId

EntryId == 1..MaxEntryId

Time == 0..MaxTime

(* A row of the projects table. *)
ProjectRow == [name : Name, quota_bytes : QuotaVal \cup {NULL},
               ttl_seconds : TtlVal \cup {NULL}]

(* A row of the entries table. *)
EntryRow == [project_id : ProjectId, key : Key, blob_hash : Hash,
             last_accessed : Time, pinned : BOOLEAN]

ASSUME BoundsAssumption ==
    /\ MaxProjectId \in Nat
    /\ MaxEntryId \in Nat
    /\ MaxTime \in Nat

ASSUME ColumnAssumption == QuotaVal \subseteq Int /\ TtlVal \subseteq Int

ASSUME NullAssumption ==
    NULL \notin ProjectRow /\ NULL \notin EntryRow /\ NULL \notin QuotaVal \cup TtlVal

VARIABLES
    now,            \* the wall clock (now_unix)
    projects,       \* [ProjectId -> row or NULL]
    nextProject,    \* AUTOINCREMENT sequence of projects
    entries,        \* [EntryId -> row or NULL]
    nextEntry,      \* AUTOINCREMENT sequence of entries
    blobs,          \* the hashes that have a row in the blobs table
    refcount        \* blobs.refcount; 0 where there is no row

tables == <<projects, nextProject, entries, nextEntry, blobs, refcount>>

dbVars == <<now, tables>>

-----------------------------------------------------------------------------
(* Queries. *)

LiveProjects == {p \in ProjectId : projects[p] # NULL}

LiveEntries == {i \in EntryId : entries[i] # NULL}

(* The entry of (project_id, kind, path): at most one row, by UNIQUE. *)
Find(p, k) ==
    {i \in LiveEntries : entries[i].project_id = p /\ entries[i].key = k}

(* The entries whose blob_hash is h. *)
Refs(h) == {i \in LiveEntries : entries[i].blob_hash = h}

(* The entries of project p. *)
EntriesOf(p) == {i \in LiveEntries : entries[i].project_id = p}

(* Blobs::zero_refcount. *)
ZeroRefcount == {h \in blobs : refcount[h] = 0}

(* The refcounts rc after Blobs::upsert_incr and after Blobs::decr of h. *)
Incr(rc, h) == [rc EXCEPT ![h] = @ + 1]

Decr(rc, h) == [rc EXCEPT ![h] = @ - 1]

(* What now_unix() may have returned to a call whose statement commits now: *)
(* the methods read the clock first and await the statement afterwards,     *)
(* behind the pool and the write lock, while the clock goes on.             *)
ClockRead == 0..now

(* How far the stored refcount is above the number of referencing rows. *)
Drift(h) == refcount[h] - Cardinality(Refs(h))

-----------------------------------------------------------------------------
(* projects *)

(* Projects::create; a taken name is a UNIQUE violation (Conflict). *)
CreateProject(n, q, t) ==
    /\ nextProject \in ProjectId
    /\ \A p \in LiveProjects : projects[p].name # n
    /\ projects' = [projects EXCEPT ![nextProject] =
                        [name |-> n, quota_bytes |-> q, ttl_seconds |-> t]]
    /\ nextProject' = nextProject + 1
    /\ UNCHANGED <<now, entries, nextEntry, blobs, refcount>>

(* Projects::update with its PATCH semantics: each column is set, cleared  *)
(* (NULL) or left as it was, which choosing every new row covers.          *)
UpdateProject(p, n, q, t) ==
    /\ p \in LiveProjects
    /\ \A r \in LiveProjects \ {p} : projects[r].name # n
    /\ projects' = [projects EXCEPT ![p] =
                        [name |-> n, quota_bytes |-> q, ttl_seconds |-> t]]
    /\ UNCHANGED <<now, nextProject, entries, nextEntry, blobs, refcount>>

(* Projects::delete: ON DELETE CASCADE removes the project's entries; the  *)
(* blobs table is not touched.                                             *)
DeleteProject(p) ==
    /\ p \in LiveProjects
    /\ projects' = [projects EXCEPT ![p] = NULL]
    /\ entries' = [i \in EntryId |-> IF i \in EntriesOf(p) THEN NULL ELSE entries[i]]
    /\ UNCHANGED <<now, nextProject, nextEntry, blobs, refcount>>

-----------------------------------------------------------------------------
(* entries *)

(* Mutant of UpsertInsert: the AUTOINCREMENT sequence is not advanced. *)
UpsertInsertStuckSequence(p, k, h) ==
    /\ p \in LiveProjects
    /\ Find(p, k) = {}
    /\ nextEntry \in EntryId
    /\ \E t \in ClockRead :
          entries' = [entries EXCEPT ![nextEntry] =
                         [project_id |-> p, key |-> k, blob_hash |-> h,
                          last_accessed |-> t, pinned |-> FALSE]]
    /\ blobs' = blobs \cup {h}
    /\ refcount' = Incr(refcount, h)
    /\ UNCHANGED <<now, projects, nextProject, nextEntry>>

(* Mutant of UpsertInsert: a rowid without AUTOINCREMENT, any free id. *)
UpsertInsertReusesId(p, k, h) ==
    /\ p \in LiveProjects
    /\ Find(p, k) = {}
    /\ \E i \in EntryId \ LiveEntries :
          /\ entries' = [entries EXCEPT ![i] =
                             [project_id |-> p, key |-> k, blob_hash |-> h,
                              last_accessed |-> now, pinned |-> FALSE]]
          /\ nextEntry' = IF i < nextEntry THEN nextEntry ELSE i + 1
    /\ blobs' = blobs \cup {h}
    /\ refcount' = Incr(refcount, h)
    /\ UNCHANGED <<now, projects, nextProject>>

(* The INSERT branch of Entries::upsert: Blobs::upsert_incr, then the row. *)
UpsertInsert(p, k, h) ==
    /\ p \in LiveProjects
    /\ Find(p, k) = {}
    /\ nextEntry \in EntryId
    /\ \E t \in ClockRead :
          entries' = [entries EXCEPT ![nextEntry] =
                         [project_id |-> p, key |-> k, blob_hash |-> h,
                          last_accessed |-> t, pinned |-> FALSE]]
    /\ nextEntry' = nextEntry + 1
    /\ blobs' = blobs \cup {h}
    /\ refcount' = Incr(refcount, h)
    /\ UNCHANGED <<now, projects, nextProject>>

(* Mutants of Rebind: one half of the pair is forgotten. *)
RebindNoIncr(old, new) ==
    IF old = new THEN refcount ELSE Decr(refcount, old)

RebindNoDecr(old, new) ==
    IF old = new THEN refcount ELSE Incr(refcount, new)

(* The refcounts after an entry moves from blob old to blob new: Blobs::decr *)
(* and Blobs::upsert_incr, neither when the blob stays the same.             *)
Rebind(old, new) ==
    IF old = new THEN refcount ELSE Incr(Decr(refcount, old), new)

(* The ON CONFLICT branch of Entries::upsert: id, created_at and pinned     *)
(* survive.                                                                 *)
UpsertReplace(p, k, h) ==
    /\ p \in LiveProjects
    /\ \E i \in Find(p, k) :
          /\ entries[i].blob_hash \in blobs
          /\ \E t \in ClockRead :
                entries' = [entries EXCEPT ![i].blob_hash = h, ![i].last_accessed = t]
          /\ blobs' = blobs \cup {h}
          /\ refcount' = Rebind(entries[i].blob_hash, h)
    /\ UNCHANGED <<now, projects, nextProject, nextEntry>>

(* Entries::upsert; a project that is gone is a foreign key violation. *)
Upsert(p, k, h) == UpsertInsert(p, k, h) \/ UpsertReplace(p, k, h)

(* Entries::delete; NotFound when (project_id, id) has no row.  It does not *)
(* look at pinned.                                                          *)
Delete(p, i) ==
    /\ i \in EntriesOf(p)
    /\ entries[i].blob_hash \in blobs
    /\ entries' = [entries EXCEPT ![i] = NULL]
    /\ refcount' = Decr(refcount, entries[i].blob_hash)
    /\ UNCHANGED <<now, projects, nextProject, nextEntry, blobs>>

(* Entries::touch: an UPDATE by id, which matches no row when it is gone.   *)
(* A touch that waited longer than another sets an earlier time.            *)
Touch(i) ==
    /\ \E t \in ClockRead :
          entries' = IF i \in LiveEntries
                     THEN [entries EXCEPT ![i].last_accessed = t]
                     ELSE entries
    /\ UNCHANGED <<now, projects, nextProject, nextEntry, blobs, refcount>>

(* Entries::set_pinned; NotFound when (project_id, id) has no row. *)
SetPinned(p, i, b) ==
    /\ i \in EntriesOf(p)
    /\ entries' = [entries EXCEPT ![i].pinned = b]
    /\ UNCHANGED <<now, projects, nextProject, nextEntry, blobs, refcount>>

-----------------------------------------------------------------------------
(* blobs *)

(* Mutant of DeleteBlobRow: PRAGMA foreign_keys off. *)
DeleteBlobRowNoForeignKey(h) ==
    /\ blobs' = blobs \ {h}
    /\ refcount' = [refcount EXCEPT ![h] = 0]
    /\ UNCHANGED <<now, projects, nextProject, entries, nextEntry>>

(* Blobs::delete: no look at the refcount; the foreign key of entries       *)
(* refuses it while a row still references h.                               *)
DeleteBlobRow(h) ==
    /\ Refs(h) = {}
    /\ blobs' = blobs \ {h}
    /\ refcount' = [refcount EXCEPT ![h] = 0]
    /\ UNCHANGED <<now, projects, nextProject, entries, nextEntry>>

(* The transaction of GcSvc::orphan_scan for a row whose file is missing:   *)
(* the entries of h, then the row.                                          *)
PurgeBlob(h) ==
    /\ entries' = [i \in EntryId |-> IF i \in Refs(h) THEN NULL ELSE entries[i]]
    /\ blobs' = blobs \ {h}
    /\ refcount' = [refcount EXCEPT ![h] = 0]
    /\ UNCHANGED <<now, projects, nextProject, nextEntry>>

(* The wall clock advances. *)
Tick ==
    /\ now < MaxTime
    /\ now' = now + 1
    /\ UNCHANGED tables

-----------------------------------------------------------------------------
(* A freshly migrated database. *)
DbInit ==
    /\ now = 0
    /\ projects = [p \in ProjectId |-> NULL]
    /\ nextProject = 1
    /\ entries = [i \in EntryId |-> NULL]
    /\ nextEntry = 1
    /\ blobs = {}
    /\ refcount = [h \in Hash |-> 0]

ProjectStep ==
    \E n \in Name, q \in QuotaVal \cup {NULL}, t \in TtlVal \cup {NULL} :
        \/ CreateProject(n, q, t)
        \/ \E p \in ProjectId : UpdateProject(p, n, q, t)

DbNext ==
    \/ ProjectStep
    \/ \E p \in ProjectId : DeleteProject(p)
    \/ \E p \in ProjectId, k \in Key, h \in Hash : UpsertInsert(p, k, h)
    \/ \E p \in ProjectId, k \in Key, h \in Hash : UpsertReplace(p, k, h)
    \/ \E p \in ProjectId, i \in EntryId : Delete(p, i)
    \/ \E i \in EntryId : Touch(i)
    \/ \E p \in ProjectId, i \in EntryId, b \in BOOLEAN : SetPinned(p, i, b)
    \/ \E h \in Hash : DeleteBlobRow(h)
    \/ \E h \in Hash : PurgeBlob(h)
    \/ Tick

DbSpec == DbInit /\ [][DbNext]_dbVars

-----------------------------------------------------------------------------
(* Properties *)

(* Every column keeps its type, and no live id is ahead of the AUTOINCREMENT *)
(* sequence it was drawn from (db/entries.rs, db/projects.rs).               *)
DbTypeOK ==
    /\ now \in Time
    /\ projects \in [ProjectId -> ProjectRow \cup {NULL}]
    /\ nextProject \in 1..(MaxProjectId + 1)
    /\ entries \in [EntryId -> EntryRow \cup {NULL}]
    /\ nextEntry \in 1..(MaxEntryId + 1)
    /\ blobs \in SUBSET Hash
    /\ refcount \in [Hash -> Int]
    /\ \A i \in LiveEntries : i < nextEntry
    /\ \A p \in LiveProjects : p < nextProject

(* No method leaves an entry whose project or blob row is gone, whatever the *)
(* order of cascades, orphan purges and blob deletions.                      *)
ForeignKeys ==
    \A i \in LiveEntries :
        /\ entries[i].project_id \in LiveProjects
        /\ entries[i].blob_hash \in blobs

(* A key of a project has one entry: GET is unambiguous and a re-upload      *)
(* replaces (Entries::upsert).                                               *)
UniqueKeys ==
    \A i, j \in LiveEntries :
        entries[i].project_id = entries[j].project_id /\ entries[i].key = entries[j].key
            => i = j

(* The stored refcount is never below the number of entries that reference   *)
(* the blob, and a hash without a row counts zero: a blob in use can never   *)
(* look free to cleanup_blobs, after any sequence of uploads, replacements,  *)
(* deletions, cascades and purges.                                           *)
NoUndercount ==
    /\ \A h \in Hash : Drift(h) >= 0
    /\ \A h \in Hash \ blobs : refcount[h] = 0

(* Uploads, replacements, deletions, pins and purges keep the refcount of    *)
(* every row that survives exactly as far from the number of its references  *)
(* as it was: only a project deletion may move it ("the refcount in the      *)
(* blobs table is always consistent with the entries table", entries.rs).    *)
OnlyCascadeDrifts ==
    [][LiveProjects \subseteq LiveProjects' =>
          \A h \in Hash : h \in blobs' => Drift(h)' = Drift(h)]_dbVars

(* An id a candidate list, a spawned touch or an admin request still holds   *)
(* never comes to name another row: AUTOINCREMENT does not reuse ids.        *)
NoIdReuse ==
    [][\A i \in EntryId :
          entries'[i] # NULL =>
             IF entries[i] = NULL THEN i >= nextEntry
             ELSE /\ entries'[i].project_id = entries[i].project_id
                  /\ entries'[i].key = entries[i].key]_dbVars

(* models.rs:218 says of Blob.refcount: "Number of Entry rows that reference *)
(* this blob."                                                               *)
RefcountExact == \A h \in blobs : Drift(h) = 0
=============================================================================
