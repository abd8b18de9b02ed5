------------------------------ MODULE SqliteTx ------------------------------
(***************************************************************************)
(* How the handlers meet SQLite.  Entries::upsert and Entries::delete are  *)
(* transactions that begin with a SELECT and write what follows from it    *)
(* (crates/marmotte-core/src/db/entries.rs); stats().bump and              *)
(* stats().audit are single statements after them.  MetadataDb takes each  *)
(* transaction as one step; here it is a read, a write and a commit, on a  *)
(* pool of connections in WAL mode (db/mod.rs).                            *)
(*                                                                         *)
(* SQLite, as this configuration uses it: pool().begin() is BEGIN          *)
(* DEFERRED, so the SELECT fixes a snapshot and takes no write lock; the   *)
(* first write takes it, and fails at once, without busy_timeout, when     *)
(* another connection has it or has committed since the snapshot.  A       *)
(* single statement outside a transaction waits for the lock instead.      *)
(*                                                                         *)
(* The requests are PUTs of project 1, which nobody deletes, and admin     *)
(* DELETEs of entries.  Everybody else who writes, the sweep, the touches  *)
(* after a GET and other clients, is OUTSIDE: it takes the same lock and   *)
(* makes the same snapshots stale.                                         *)
(***************************************************************************)
EXTENDS MetadataDb

CONSTANTS
    Put,            \* PUT requests
    Admin,          \* DELETE /projects/1/entries/{eid} requests
    OUTSIDE,          \* whoever else writes: sweeps, touches, other clients
    Pool,           \* max_connections (8)
    MaxFaults       \* bound: timeouts, failed statements and lost answers

Request == Put \cup Admin

(* Project 1 exists; a request is one of the two, and is neither NULL nor    *)
(* OUTSIDE; nor is a hash NULL.                                              *)
ASSUME TxAssumption ==
    /\ Pool \in Nat \ {0} /\ MaxFaults \in Nat
    /\ MaxProjectId >= 1
    /\ Put \cap Admin = {} /\ NULL \notin Request \cup Hash
    /\ OUTSIDE \notin Request \cup {NULL}

VARIABLES
    req,            \* [Request -> the handler's progress and its transaction]
    writer,         \* whose transaction has the write lock: a request, OUTSIDE or NULL
    audited,        \* the requests that have their row in audit_log
    others,         \* how often OUTSIDE has taken the lock
    faults          \* faults so far

txVars == <<dbVars, req, writer, audited, others, faults>>

TxPc == {"idle", "begin", "read", "wrote", "after", "ok", "error", "timeout"}

ReqIdle == [pc |-> "idle", key |-> NULL, hash |-> NULL, id |-> NULL,
            prev |-> NULL, stale |-> FALSE]

(* The handler r at pc, its locals dropped (id is kept for the properties). *)
At(r, pc) == [ReqIdle EXCEPT !.pc = pc, !.id = r.id]

Goto(t, pc) == req' = [req EXCEPT ![t] = At(@, pc)]

(* Whose transaction holds a connection of the pool. *)
Connected == {t \in Request : req[t].pc \in {"read", "wrote"}} \cup ({writer} \cap {OUTSIDE})

Free == Cardinality(Connected) < Pool

(* A write becomes visible: an open transaction's snapshot is stale. *)
Aged(r) == IF r.pc = "read" THEN [r EXCEPT !.stale = TRUE] ELSE r

(* t moves to pc and its write is visible. *)
Published(t, pc) ==
    req' = [r \in Request |-> IF r = t THEN At(req[r], pc) ELSE Aged(req[r])]

-----------------------------------------------------------------------------
(* do_put up to entries().upsert: the blob of hash h is in the store. *)
PutArrives(t, k, h) ==
    /\ t \in Put /\ req[t].pc = "idle"
    /\ req' = [req EXCEPT ![t] = [ReqIdle EXCEPT !.pc = "begin", !.key = k, !.hash = h]]
    /\ UNCHANGED <<dbVars, writer, audited, others, faults>>

(* delete_one of the admin routes. *)
DeleteArrives(t, i) ==
    /\ t \in Admin /\ req[t].pc = "idle"
    /\ req' = [req EXCEPT ![t] = [ReqIdle EXCEPT !.pc = "begin", !.id = i]]
    /\ UNCHANGED <<dbVars, writer, audited, others, faults>>

(* pool().begin() and the SELECT of upsert: the hash the key has now. *)
UpsertRead(t) ==
    /\ t \in Put /\ req[t].pc = "begin" /\ Free
    /\ LET row == {entries[i].blob_hash : i \in Find(1, req[t].key)} IN
       req' = [req EXCEPT ![t].pc = "read", ![t].stale = FALSE,
                          ![t].prev = IF row = {} THEN NULL ELSE CHOOSE h \in row : TRUE]
    /\ UNCHANGED <<dbVars, writer, audited, others, faults>>

(* pool().begin() and the SELECT of delete; NotFound ends the request. *)
DeleteRead(t) ==
    /\ t \in Admin /\ req[t].pc = "begin" /\ Free
    /\ IF req[t].id \in EntriesOf(1)
       THEN req' = [req EXCEPT ![t].pc = "read", ![t].stale = FALSE,
                               ![t].prev = entries[req[t].id].blob_hash]
       ELSE Goto(t, "error")
    /\ UNCHANGED <<dbVars, writer, audited, others, faults>>

(* Mutant of TxWrite: the lock is enough, however old the snapshot. *)
TxWriteStale(t) ==
    /\ req[t].pc = "read"
    /\ writer = NULL
    /\ writer' = t
    /\ req' = [req EXCEPT ![t].pc = "wrote"]
    /\ UNCHANGED <<dbVars, audited, others, faults>>

(* The first write of the transaction takes the lock; the others follow.    *)
(* Nobody sees them before the commit.                                      *)
TxWrite(t) ==
    /\ req[t].pc = "read"
    /\ writer = NULL /\ ~req[t].stale
    /\ writer' = t
    /\ req' = [req EXCEPT ![t].pc = "wrote"]
    /\ UNCHANGED <<dbVars, audited, others, faults>>

(* SQLITE_BUSY or SQLITE_BUSY_SNAPSHOT: the transaction rolls back and the  *)
(* request answers 500.                                                     *)
TxBusy(t) ==
    /\ req[t].pc = "read"
    /\ writer # NULL \/ req[t].stale
    /\ Goto(t, "error")
    /\ UNCHANGED <<dbVars, writer, audited, others, faults>>

(* decr and upsert_incr as upsert calls them for the hash it has read. *)
UpsertRefcounts(prev, h) ==
    CASE prev = NULL             -> Incr(refcount, h)
      [] prev # NULL /\ prev = h -> refcount
      [] prev # NULL /\ prev # h -> Incr(Decr(refcount, prev), h)

(* INSERT ... ON CONFLICT DO UPDATE, with the refcounts, becomes visible. *)
UpsertCommit(t) ==
    /\ t \in Put /\ req[t].pc = "wrote"
    /\ LET k == req[t].key
           h == req[t].hash
       IN  /\ refcount' = UpsertRefcounts(req[t].prev, h)
           /\ blobs' = blobs \cup {h}
           /\ \/ /\ Find(1, k) = {} /\ nextEntry \in EntryId
                 /\ \E c \in ClockRead :
                       entries' = [entries EXCEPT ![nextEntry] =
                                      [project_id |-> 1, key |-> k, blob_hash |-> h,
                                       last_accessed |-> c, pinned |-> FALSE]]
                 /\ nextEntry' = nextEntry + 1
              \/ /\ \E i \in Find(1, k), c \in ClockRead :
                       entries' = [entries EXCEPT ![i].blob_hash = h, ![i].last_accessed = c]
                 /\ UNCHANGED nextEntry
    /\ writer' = NULL
    /\ Published(t, "after")
    /\ UNCHANGED <<now, projects, nextProject, audited, others, faults>>

(* DELETE FROM entries and decr become visible. *)
DeleteCommit(t) ==
    /\ t \in Admin /\ req[t].pc = "wrote"
    /\ entries' = [entries EXCEPT ![req[t].id] = NULL]
    /\ refcount' = Decr(refcount, req[t].prev)
    /\ writer' = NULL
    /\ Published(t, "after")
    /\ UNCHANGED <<now, projects, nextProject, nextEntry, blobs, audited, others, faults>>

(* Mutant of PutBump: without WAL and busy_timeout, open transactions turn   *)
(* the statement away.                                                       *)
PutBumpNoWait(t) ==
    /\ t \in Put /\ req[t].pc = "after" /\ Free /\ writer = NULL
    /\ IF Connected = {} THEN Published(t, "ok") ELSE Goto(t, "error")
    /\ UNCHANGED <<dbVars, writer, audited, others, faults>>

(* stats().bump and 201 Created.  (The statement is a write like any other; *)
(* its counter is in CacheServer.)                                          *)
PutBump(t) ==
    /\ t \in Put /\ req[t].pc = "after" /\ Free /\ writer = NULL
    /\ Published(t, "ok")
    /\ UNCHANGED <<dbVars, writer, audited, others, faults>>

(* Mutant of DeleteAudit: 204 without the row. *)
DeleteAuditSkipped(t) ==
    /\ t \in Admin /\ req[t].pc = "after" /\ Free /\ writer = NULL
    /\ Published(t, "ok")
    /\ UNCHANGED <<dbVars, writer, audited, others, faults>>

(* stats().audit and 204 No Content. *)
DeleteAudit(t) ==
    /\ t \in Admin /\ req[t].pc = "after" /\ Free /\ writer = NULL
    /\ audited' = audited \cup {t}
    /\ Published(t, "ok")
    /\ UNCHANGED <<dbVars, writer, others, faults>>

-----------------------------------------------------------------------------
(* Mutant of Unlock: the lock of a dropped transaction stays taken. *)
UnlockForgotten(t) == writer' = writer

(* Dropping a transaction rolls it back. *)
Unlock(t) == writer' = IF writer = t THEN NULL ELSE writer

(* A statement fails (busy_timeout, acquire_timeout, I/O): 500. *)
TxFails(t) ==
    /\ faults < MaxFaults
    /\ faults' = faults + 1
    /\ req[t].pc \in {"begin", "read", "wrote", "after"}
    /\ Goto(t, "error")
    /\ Unlock(t)
    /\ UNCHANGED <<dbVars, audited, others>>

(* TimeoutLayer answers 408 and drops the handler, or the client is gone. *)
TxDropped(t) ==
    /\ faults < MaxFaults
    /\ faults' = faults + 1
    /\ req[t].pc \in {"begin", "read", "wrote", "after"}
    /\ Goto(t, "timeout")
    /\ Unlock(t)
    /\ UNCHANGED <<dbVars, audited, others>>

(* Anybody else's transaction or statement takes the lock. *)
OtherLocks ==
    /\ writer = NULL /\ Free
    /\ others' = others + 1
    /\ writer' = OUTSIDE
    /\ UNCHANGED <<dbVars, req, audited, faults>>

(* What OUTSIDE writes: the touch spawned by a GET; the sweep's deletion of  *)
(* an entry or a blob's row;  the purge of orphan_scan; another client's PUT; *)
(* or what this module leaves out (statistics, pins, keys, other projects).  *)
OtherWrites ==
    \/ \E i \in EntryId : Touch(i)
    \/ \E i \in EntryId : Delete(1, i)
    \/ \E h \in Hash : DeleteBlobRow(h)
    \/ \E h \in Hash : PurgeBlob(h)
    \/ \E k \in Key, h \in Hash : Upsert(1, k, h)
    \/ UNCHANGED dbVars

(* Its writes become visible. *)
OtherCommits ==
    /\ writer = OUTSIDE /\ writer' = NULL
    /\ OtherWrites
    /\ req' = [r \in Request |-> Aged(req[r])]
    /\ UNCHANGED <<audited, others, faults>>

(* Or it fails or is dropped. *)
OtherRollsBack ==
    /\ writer = OUTSIDE /\ writer' = NULL
    /\ UNCHANGED <<dbVars, req, audited, others, faults>>

OtherEnds == OtherCommits \/ OtherRollsBack

TxStep(t) ==
    \/ UpsertRead(t) \/ DeleteRead(t)
    \/ TxWrite(t) \/ TxBusy(t)
    \/ UpsertCommit(t) \/ DeleteCommit(t)
    \/ PutBump(t) \/ DeleteAudit(t)

(* Project 1 and its entries, of which the first may exist. *)
TxInit ==
    /\ now = 0
    /\ projects \in [ProjectId -> ProjectRow]
    /\ nextProject = MaxProjectId + 1
    /\ entries \in [EntryId -> EntryRow \cup {NULL}]
    /\ LiveEntries \subseteq {1}
    /\ \A i \in LiveEntries : entries[i].project_id = 1 /\ ~entries[i].pinned
    /\ nextEntry = 1 + Cardinality(LiveEntries)
    /\ blobs = {entries[i].blob_hash : i \in LiveEntries}
    /\ refcount = [h \in Hash |-> Cardinality(Refs(h))]
    /\ req = [t \in Request |-> ReqIdle]
    /\ writer = NULL
    /\ audited = {}
    /\ others = 0
    /\ faults = 0

-----------------------------------------------------------------------------
(* Properties *)

(* Every change of the tables is one whole step of MetadataDb: although      *)
(* upsert and delete read first and write later what they concluded, no      *)
(* other transaction comes between the two (entries.rs:117-119).             *)
TxAtomic == [][DbNext]_dbVars

(* The audit log tells the truth: a row means that the entry is gone, 204    *)
(* means that there is a row.  (The converse fails: the deletion has         *)
(* committed when audit fails or the handler is dropped.)                    *)
AuditTellsTruth ==
    \A t \in Admin :
        /\ t \in audited => entries[req[t].id] = NULL
        /\ req[t].pc = "ok" => t \in audited
=============================================================================
