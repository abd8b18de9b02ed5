-------------------------------- MODULE MCGc --------------------------------
(* TLC instances of the collector alone.  The initial states are databases   *)
(* that uploads, touches, pins, deletions and project updates can produce:   *)
(* up to three entries of two projects sharing two blobs, two of them pinned *)
(* or not, with and without zero-refcount rows.                              *)
EXTENDS Gc

CONSTANTS k1, k2, k3, h1, h2, n1, n2

MCKindOf == [k \in Key |-> IF k = k1 THEN "sstate" ELSE "downloads"]

MCSize == [h \in Hash |-> IF h = h1 THEN 1 ELSE 2]

MCDefaultTtl == [k \in Kind |-> IF k = "sstate" THEN 1 ELSE 9]

KeyOf == <<k1, k2, k3>>

(* Both projects limited, one limited and one with a TTL, neither. *)
Settings ==
    {[p \in ProjectId |-> [name |-> IF p = 1 THEN n1 ELSE n2, quota_bytes |-> s[p][1],
                           ttl_seconds |-> s[p][2]]] :
        s \in {<< <<2, NULL>>, <<1, NULL>> >>, << <<2, NULL>>, <<NULL, 1>> >>,
               << <<NULL, NULL>>, <<NULL, NULL>> >>}}

(* The tables once entries has been chosen; the rows of extra have refcount  *)
(* zero.                                                                     *)
Tables(extra) ==
    /\ now = MaxTime
    /\ projects \in Settings
    /\ nextProject = MaxProjectId + 1
    /\ nextEntry = MaxEntryId + 1
    /\ blobs = {entries[i].blob_hash : i \in LiveEntries} \cup extra
    /\ refcount = [h \in Hash |-> Cardinality(Refs(h))]

RowsOf(i) ==
    {NULL} \cup [project_id : ProjectId, key : {KeyOf[i]}, blob_hash : Hash,
                 last_accessed : {0, 1}, pinned : BOOLEAN]

NoUploads ==
    /\ tmp = {} /\ upload = [u \in Upload |-> [pc |-> "idle", hash |-> h1]]
    /\ late = {} /\ unlinked = {}

SweepInit ==
    /\ \E a \in RowsOf(1), b \in RowsOf(2), c \in {r \in RowsOf(3) : r = NULL \/ ~r.pinned} :
          entries = <<a, b, c>>
    /\ \E extra \in SUBSET Hash : Tables(extra)
    /\ disk = blobs
    /\ NoUploads
    /\ gc = GcIdle

SweepSpec == SweepInit /\ [][SweepAlone]_gcVars

(* Any files against any rows: what crashes, cancelled uploads and races     *)
(* leave behind.                                                             *)
ScanInit ==
    /\ \E a \in RowsOf(1), b \in RowsOf(2) : entries = <<a, b, NULL>>
    /\ \E extra \in SUBSET Hash : Tables(extra)
    /\ disk \in SUBSET Hash
    /\ NoUploads
    /\ gc = GcIdle

(* Sweeps and scans after one another; tokio polls the task that runs the    *)
(* pass.                                                                     *)
CollectorSpec ==
    /\ SweepInit \/ ScanInit
    /\ [][AloneNext]_gcVars
    /\ WF_gcVars(SweepStep \/ ScanStep)
=============================================================================
