---------------------------- MODULE MCPagination ----------------------------
(* TLC instance of Pagination: traversals that begin on every database of up *)
(* to three entries whose paths are not in the order of their ids, two of    *)
(* them with the same path and different kinds.                              *)
EXTENDS Pagination

CONSTANTS k1, k2, k3, h1, h2, n1

MCSize == [h \in Hash |-> IF h = h1 THEN 1 ELSE 2]

MCPathRank == [k \in Key |-> IF k = k2 THEN 1 ELSE 2]

ListBy(sort, desc, pinned, keys, limit) ==
    [project_id |-> 1, keys |-> keys, pinned |-> pinned, sort |-> sort,
     desc |-> desc, limit |-> limit]

MCAsked ==
    {ListBy("last_accessed", d, NULL, Key, 1) : d \in BOOLEAN} \cup
    {ListBy("size", d, NULL, Key, 1) : d \in BOOLEAN} \cup
    {ListBy("path", FALSE, NULL, Key, 1), ListBy("path", TRUE, FALSE, Key, 1),
     ListBy("created_at", TRUE, NULL, Key, 2), ListBy("created_at", FALSE, NULL, {k1, k3}, 1)}

RowsOf(i) ==
    {NULL} \cup [project_id : {1}, key : {<<k1, k2, k3>>[i]}, blob_hash : Hash,
                 last_accessed : 0..1, pinned : BOOLEAN]

(* The third id is in use or is the next one to be drawn. *)
ListedInit ==
    /\ now = MaxTime
    /\ projects = [p \in ProjectId |-> [name |-> n1, quota_bytes |-> NULL, ttl_seconds |-> NULL]]
    /\ nextProject = MaxProjectId + 1
    /\ \E a \in RowsOf(1), b \in RowsOf(2), c \in RowsOf(3) : entries = <<a, b, c>>
    /\ nextEntry = IF entries[3] = NULL THEN 3 ELSE 4
    /\ blobs = {entries[i].blob_hash : i \in LiveEntries}
    /\ refcount = [h \in Hash |-> Cardinality(Refs(h))]
    /\ pager = NoPager

ListedNext ==
    \/ pager.pc = "reading" /\ DbStep
    \/ PageStep

ListedSpec == ListedInit /\ [][ListedNext]_pagerVars
=============================================================================
