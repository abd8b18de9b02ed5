-------------------------- MODULE MetadataDbProofs --------------------------
(* Proofs that the properties of MetadataDb hold for every set of names,     *)
(* keys and hashes and every bound.                                          *)
EXTENDS MetadataDb, FiniteSetTheorems, TLAPS

-----------------------------------------------------------------------------
(* The tables are initially well typed (a freshly migrated database). *)
LEMMA InitTypeOK == DbInit => DbTypeOK
  BY BoundsAssumption, NullAssumption
  DEF DbInit, DbTypeOK, ProjectId, EntryId, Time, LiveEntries, LiveProjects

(* A clock reading of a method is a time. *)
LEMMA ClockReadIsTime == DbTypeOK => ClockRead \subseteq Time
  BY BoundsAssumption DEF DbTypeOK, ClockRead, Time

(* No repository method breaks the types or draws an id twice. *)
LEMMA NextTypeOK == DbTypeOK /\ [DbNext]_dbVars => DbTypeOK'
<1> SUFFICES ASSUME DbTypeOK, [DbNext]_dbVars PROVE DbTypeOK'
  OBVIOUS
<1> USE BoundsAssumption DEF DbTypeOK, ProjectId, EntryId, Time, LiveEntries, LiveProjects
<1>1. ASSUME NEW n \in Name, NEW q \in QuotaVal \cup {NULL}, NEW t \in TtlVal \cup {NULL},
             CreateProject(n, q, t)
      PROVE  DbTypeOK'
  <2>1. [name |-> n, quota_bytes |-> q, ttl_seconds |-> t] \in ProjectRow
    BY DEF ProjectRow
  <2>2. QED
    BY <1>1, <2>1 DEF CreateProject
<1>2. ASSUME NEW p \in ProjectId,
             NEW n \in Name, NEW q \in QuotaVal \cup {NULL}, NEW t \in TtlVal \cup {NULL},
             UpdateProject(p, n, q, t)
      PROVE  DbTypeOK'
  <2>1. [name |-> n, quota_bytes |-> q, ttl_seconds |-> t] \in ProjectRow
    BY DEF ProjectRow
  <2>2. QED
    BY <1>2, <2>1 DEF UpdateProject
<1>3. ASSUME NEW p \in ProjectId, DeleteProject(p) PROVE DbTypeOK'
  BY <1>3 DEF DeleteProject
<1>4. ASSUME NEW p \in ProjectId, NEW k \in Key, NEW h \in Hash, UpsertInsert(p, k, h)
      PROVE  DbTypeOK'
  <2>1. \A c \in ClockRead : [project_id |-> p, key |-> k, blob_hash |-> h,
                              last_accessed |-> c, pinned |-> FALSE] \in EntryRow
    BY ClockReadIsTime DEF EntryRow
  <2>2. PICK c \in ClockRead :
            entries' = [entries EXCEPT ![nextEntry] =
                           [project_id |-> p, key |-> k, blob_hash |-> h,
                            last_accessed |-> c, pinned |-> FALSE]]
    BY <1>4 DEF UpsertInsert
  <2>3. QED
    BY <1>4, <2>1, <2>2 DEF UpsertInsert, Incr
<1>5. ASSUME NEW p \in ProjectId, NEW k \in Key, NEW h \in Hash, UpsertReplace(p, k, h)
      PROVE  DbTypeOK'
  <2>1. PICK i \in Find(p, k), c \in ClockRead :
            /\ entries[i].blob_hash \in blobs
            /\ entries' = [entries EXCEPT ![i].blob_hash = h, ![i].last_accessed = c]
            /\ blobs' = blobs \cup {h}
            /\ refcount' = Rebind(entries[i].blob_hash, h)
    BY <1>5 DEF UpsertReplace
  <2>2. i \in EntryId /\ entries[i] \in EntryRow
    BY <2>1 DEF Find
  <2>3. entries' \in [EntryId -> EntryRow \cup {NULL}]
    BY <2>1, <2>2, ClockReadIsTime DEF EntryRow
  <2>4. refcount' \in [Hash -> Int]
    <3>1. \A rc \in [Hash -> Int], g \in Hash :
             Incr(rc, g) \in [Hash -> Int] /\ Decr(rc, g) \in [Hash -> Int]
      BY DEF Incr, Decr
    <3>2. entries[i].blob_hash \in Hash
      BY <2>2 DEF EntryRow
    <3> QED
      BY <2>1, <3>1, <3>2 DEF Rebind
  <2>5. \A j \in LiveEntries' : j \in LiveEntries
    BY <2>1, <2>2 DEF Find
  <2>6. QED
    BY <1>5, <2>1, <2>3, <2>4, <2>5 DEF UpsertReplace
<1>6. ASSUME NEW p \in ProjectId, NEW i \in EntryId, Delete(p, i) PROVE DbTypeOK'
  BY <1>6 DEF Delete, Decr, EntriesOf
<1>7. ASSUME NEW i \in EntryId, Touch(i) PROVE DbTypeOK'
  <2>1. CASE i \notin LiveEntries
    BY <1>7, <2>1 DEF Touch
  <2>2. CASE i \in LiveEntries
    <3>1. PICK c \in ClockRead : entries' = [entries EXCEPT ![i].last_accessed = c]
      BY <1>7, <2>2 DEF Touch
    <3>2. entries[i] \in EntryRow /\ c \in Time
      BY <2>2, ClockReadIsTime
    <3>3. entries' \in [EntryId -> EntryRow \cup {NULL}]
      BY <3>1, <3>2 DEF EntryRow
    <3>4. \A j \in LiveEntries' : j \in LiveEntries
      BY <2>2, <3>1
    <3>5. QED
      BY <1>7, <3>3, <3>4 DEF Touch
  <2>3. QED
    BY <2>1, <2>2
<1>8. ASSUME NEW p \in ProjectId, NEW i \in EntryId, NEW b \in BOOLEAN, SetPinned(p, i, b)
      PROVE  DbTypeOK'
  BY <1>8 DEF SetPinned, EntriesOf, EntryRow
<1>9. ASSUME NEW h \in Hash, DeleteBlobRow(h) PROVE DbTypeOK'
  BY <1>9 DEF DeleteBlobRow
<1>10. ASSUME NEW h \in Hash, PurgeBlob(h) PROVE DbTypeOK'
  BY <1>10 DEF PurgeBlob
<1>11. CASE Tick
  BY <1>11 DEF Tick, tables
<1>12. CASE UNCHANGED dbVars
  BY <1>12 DEF dbVars, tables
<1>13. QED
  BY <1>1, <1>2, <1>3, <1>4, <1>5, <1>6, <1>7, <1>8, <1>9, <1>10, <1>11, <1>12
  DEF DbNext, ProjectStep

(* The tables are always well typed: DbTypeOK of every reachable database. *)
THEOREM TypeCorrect == DbSpec => []DbTypeOK
  BY InitTypeOK, NextTypeOK, PTL DEF DbSpec

-----------------------------------------------------------------------------
(* The sets of referencing rows are finite, so their sizes are numbers. *)
LEMMA RefsFinite ==
  ASSUME NEW h
  PROVE  /\ IsFiniteSet(Refs(h)) /\ Cardinality(Refs(h)) \in Nat
         /\ IsFiniteSet(Refs(h)') /\ Cardinality(Refs(h)') \in Nat
<1>1. IsFiniteSet(EntryId)
  BY FS_Interval, BoundsAssumption DEF EntryId
<1>2. Refs(h) \in SUBSET EntryId /\ Refs(h)' \in SUBSET EntryId
  BY DEF Refs, LiveEntries
<1>3. IsFiniteSet(Refs(h)) /\ IsFiniteSet(Refs(h)')
  BY <1>1, <1>2, FS_Subset
<1>4. QED
  BY <1>3, FS_CardinalityType

(* Entries::upsert of a new key counts exactly one more reference. *)
LEMMA InsertDrift ==
  ASSUME DbTypeOK, NEW p \in ProjectId, NEW k \in Key, NEW h \in Hash,
         UpsertInsert(p, k, h), NEW g \in Hash
  PROVE  Drift(g)' = Drift(g)
<1> USE DEF DbTypeOK, LiveEntries
<1>1. nextEntry \notin Refs(g) /\ nextEntry \in EntryId /\ nextEntry \in Nat
  BY BoundsAssumption DEF Refs, UpsertInsert, Incr, EntryId
<1>2. \A c \in ClockRead : [project_id |-> p, key |-> k, blob_hash |-> h,
                           last_accessed |-> c, pinned |-> FALSE] # NULL
  <2>1. \A c \in ClockRead : [project_id |-> p, key |-> k, blob_hash |-> h,
                              last_accessed |-> c, pinned |-> FALSE] \in EntryRow
    BY ClockReadIsTime DEF EntryRow
  <2>2. QED
    BY <2>1, NullAssumption
<1>3. CASE g = h
  <2>1. Refs(g)' = Refs(g) \cup {nextEntry}
    BY <1>1, <1>2, <1>3 DEF Refs, UpsertInsert, Incr
  <2>2. Cardinality(Refs(g)') = Cardinality(Refs(g)) + 1
    BY <1>1, <2>1, RefsFinite, FS_AddElement
  <2>3. refcount'[g] = refcount[g] + 1
    BY <1>3 DEF UpsertInsert, Incr
  <2>4. QED
    BY <2>2, <2>3, RefsFinite DEF Drift
<1>4. CASE g # h
  <2>1. Refs(g)' = Refs(g)
    BY <1>1, <1>4 DEF Refs, UpsertInsert, Incr
  <2>2. refcount'[g] = refcount[g]
    BY <1>4 DEF UpsertInsert, Incr
  <2>3. QED
    BY <2>1, <2>2 DEF Drift
<1>5. QED
  BY <1>3, <1>4

(* Entries::upsert of an existing key moves one reference from the old blob *)
(* to the new one, and the refcounts with it.                               *)
LEMMA ReplaceDrift ==
  ASSUME DbTypeOK, NEW p \in ProjectId, NEW k \in Key, NEW h \in Hash,
         UpsertReplace(p, k, h), NEW g \in Hash
  PROVE  Drift(g)' = Drift(g)
<1> USE DEF DbTypeOK, LiveEntries
<1>1. PICK i \in Find(p, k), c \in ClockRead :
          /\ entries[i].blob_hash \in blobs
          /\ entries' = [entries EXCEPT ![i].blob_hash = h, ![i].last_accessed = c]
          /\ refcount' = Rebind(entries[i].blob_hash, h)
  BY DEF UpsertReplace
<1> DEFINE old == entries[i].blob_hash
<1>2. i \in EntryId /\ entries[i] # NULL /\ entries[i] \in EntryRow /\ old \in Hash
  BY <1>1 DEF Find, EntryRow
<1>3. /\ entries'[i] # NULL /\ entries'[i].blob_hash = h
      /\ \A j \in EntryId \ {i} : entries'[j] = entries[j]
  <2>1. entries'[i] \in EntryRow /\ entries'[i].blob_hash = h
    BY <1>1, <1>2, ClockReadIsTime DEF EntryRow
  <2>2. QED
    BY <1>1, <1>2, <2>1, NullAssumption
<1>4. i \in Refs(g) <=> old = g
  BY <1>2 DEF Refs
<1>5. i \in Refs(g)' <=> h = g
  BY <1>2, <1>3 DEF Refs
<1>6. Refs(g)' \ {i} = Refs(g) \ {i}
  BY <1>3 DEF Refs
<1>7. CASE old = h
  <2>1. Refs(g)' = Refs(g)
    BY <1>4, <1>5, <1>6, <1>7
  <2>2. refcount' = refcount
    BY <1>1, <1>7 DEF Rebind, Incr, Decr
  <2>3. QED
    BY <2>1, <2>2 DEF Drift
<1>8. CASE old # h /\ g = h
  <2>1. Refs(g)' = Refs(g) \cup {i} /\ i \notin Refs(g)
    BY <1>4, <1>5, <1>6, <1>8
  <2>2. Cardinality(Refs(g)') = Cardinality(Refs(g)) + 1
    BY <2>1, RefsFinite, FS_AddElement
  <2>3. refcount'[g] = refcount[g] + 1
    BY <1>1, <1>2, <1>8 DEF Rebind, Incr, Decr
  <2>4. QED
    BY <2>2, <2>3, RefsFinite DEF Drift
<1>9. CASE old # h /\ g = old
  <2>1. Refs(g)' = Refs(g) \ {i} /\ i \in Refs(g)
    BY <1>4, <1>5, <1>6, <1>9
  <2>2. Cardinality(Refs(g)') = Cardinality(Refs(g)) - 1
    BY <2>1, RefsFinite, FS_RemoveElement
  <2>3. refcount'[g] = refcount[g] - 1
    BY <1>1, <1>2, <1>9 DEF Rebind, Incr, Decr
  <2>4. QED
    BY <2>2, <2>3, RefsFinite DEF Drift
<1>10. CASE old # h /\ g # h /\ g # old
  <2>1. Refs(g)' = Refs(g)
    BY <1>4, <1>5, <1>6, <1>10
  <2>2. refcount'[g] = refcount[g]
    BY <1>1, <1>2, <1>10 DEF Rebind, Incr, Decr
  <2>3. QED
    BY <2>1, <2>2 DEF Drift
<1>11. QED
  BY <1>7, <1>8, <1>9, <1>10

(* Entries::delete counts exactly one reference less. *)
LEMMA DeleteDrift ==
  ASSUME DbTypeOK, NEW p \in ProjectId, NEW i \in EntryId, Delete(p, i), NEW g \in Hash
  PROVE  Drift(g)' = Drift(g)
<1> USE DEF DbTypeOK, LiveEntries
<1>1. /\ entries[i] # NULL /\ entries[i] \in EntryRow /\ entries[i].blob_hash \in Hash
      /\ entries' = [entries EXCEPT ![i] = NULL]
      /\ refcount' = [refcount EXCEPT ![entries[i].blob_hash] = @ - 1]
  BY DEF Delete, Decr, EntriesOf, EntryRow
<1>2. CASE g = entries[i].blob_hash
  <2>1. Refs(g)' = Refs(g) \ {i} /\ i \in Refs(g)
    BY <1>1, <1>2 DEF Refs
  <2>2. Cardinality(Refs(g)') = Cardinality(Refs(g)) - 1
    BY <2>1, RefsFinite, FS_RemoveElement
  <2>3. refcount'[g] = refcount[g] - 1
    BY <1>1, <1>2
  <2>4. QED
    BY <2>2, <2>3, RefsFinite DEF Drift
<1>3. CASE g # entries[i].blob_hash
  <2>1. Refs(g)' = Refs(g)
    BY <1>1, <1>3 DEF Refs
  <2>2. refcount'[g] = refcount[g]
    BY <1>1, <1>3
  <2>3. QED
    BY <2>1, <2>2 DEF Drift
<1>4. QED
  BY <1>2, <1>3

(* Entries::touch and Entries::set_pinned leave every reference alone. *)
LEMMA ColumnUpdateDrift ==
  ASSUME DbTypeOK, NEW i \in EntryId,
         Touch(i) \/ (\E p \in ProjectId, b \in BOOLEAN : SetPinned(p, i, b)),
         NEW g \in Hash
  PROVE  Drift(g)' = Drift(g)
<1> USE DEF DbTypeOK, LiveEntries
<1>1. refcount' = refcount
  BY DEF Touch, SetPinned
<1>2. /\ \A j \in EntryId \ {i} : entries'[j] = entries[j]
      /\ entries[i] = NULL => entries'[i] = NULL
      /\ entries[i] # NULL => /\ entries'[i] # NULL
                              /\ entries'[i].blob_hash = entries[i].blob_hash
  <2>1. CASE Touch(i)
    <3>1. CASE entries[i] = NULL
      BY <2>1, <3>1 DEF Touch
    <3>2. CASE entries[i] # NULL
      <4>1. entries[i] \in EntryRow
        BY <3>2
      <4>2. PICK c \in ClockRead : entries' = [entries EXCEPT ![i].last_accessed = c]
        BY <2>1, <3>2 DEF Touch
      <4>3. entries'[i] \in EntryRow /\ entries'[i].blob_hash = entries[i].blob_hash
        BY <4>1, <4>2, ClockReadIsTime DEF EntryRow
      <4>4. QED
        BY <3>2, <4>2, <4>3, NullAssumption
    <3>3. QED
      BY <3>1, <3>2
  <2>2. CASE \E p \in ProjectId, b \in BOOLEAN : SetPinned(p, i, b)
    <3>1. PICK b \in BOOLEAN : entries' = [entries EXCEPT ![i].pinned = b]
      BY <2>2 DEF SetPinned
    <3>2. entries[i] \in EntryRow /\ entries[i] # NULL
      BY <2>2 DEF SetPinned, EntriesOf
    <3>3. entries'[i] \in EntryRow /\ entries'[i].blob_hash = entries[i].blob_hash
      BY <3>1, <3>2 DEF EntryRow
    <3>4. QED
      BY <3>1, <3>2, <3>3, NullAssumption
  <2>3. QED
    BY <2>1, <2>2
<1>3. Refs(g)' = Refs(g)
  BY <1>2 DEF Refs
<1>4. QED
  BY <1>1, <1>3 DEF Drift

(* A step that deletes no project leaves every surviving refcount exactly as *)
(* far from the number of references as it found it.                         *)
LEMMA StepDrift ==
  ASSUME DbTypeOK, [DbNext]_dbVars, LiveProjects \subseteq LiveProjects',
         NEW g \in Hash, g \in blobs'
  PROVE  Drift(g)' = Drift(g)
<1>1. ASSUME entries' = entries, refcount' = refcount PROVE Drift(g)' = Drift(g)
  BY <1>1 DEF Drift, Refs, LiveEntries
<1>2. CASE ProjectStep
  BY <1>1, <1>2 DEF ProjectStep, CreateProject, UpdateProject
<1>3. ASSUME NEW p \in ProjectId, DeleteProject(p) PROVE FALSE
  BY <1>3 DEF DeleteProject, LiveProjects, DbTypeOK
<1>4. ASSUME NEW p \in ProjectId, NEW k \in Key, NEW h \in Hash, UpsertInsert(p, k, h)
      PROVE  Drift(g)' = Drift(g)
  BY <1>4, InsertDrift
<1>5. ASSUME NEW p \in ProjectId, NEW k \in Key, NEW h \in Hash, UpsertReplace(p, k, h)
      PROVE  Drift(g)' = Drift(g)
  BY <1>5, ReplaceDrift
<1>6. ASSUME NEW p \in ProjectId, NEW i \in EntryId, Delete(p, i)
      PROVE  Drift(g)' = Drift(g)
  BY <1>6, DeleteDrift
<1>7. ASSUME NEW i \in EntryId,
             Touch(i) \/ (\E p \in ProjectId, b \in BOOLEAN : SetPinned(p, i, b))
      PROVE  Drift(g)' = Drift(g)
  BY <1>7, ColumnUpdateDrift
<1>8. ASSUME NEW h \in Hash, DeleteBlobRow(h) PROVE Drift(g)' = Drift(g)
  <2>1. g # h /\ refcount'[g] = refcount[g] /\ entries' = entries
    BY <1>8 DEF DeleteBlobRow, DbTypeOK
  <2>2. QED
    BY <2>1 DEF Drift, Refs, LiveEntries
<1>9. ASSUME NEW h \in Hash, PurgeBlob(h) PROVE Drift(g)' = Drift(g)
  <2>1. g # h /\ refcount'[g] = refcount[g]
    BY <1>9 DEF PurgeBlob, DbTypeOK
  <2>2. Refs(g)' = Refs(g)
    BY <1>9, <2>1 DEF PurgeBlob, Refs, LiveEntries
  <2>3. QED
    BY <2>1, <2>2 DEF Drift
<1>10. CASE Tick \/ UNCHANGED dbVars
  BY <1>1, <1>10 DEF Tick, dbVars, tables
<1>11. QED
  BY <1>2, <1>3, <1>4, <1>5, <1>6, <1>7, <1>8, <1>9, <1>10 DEF DbNext

(* Only a project deletion lets a surviving blob's refcount drift from the   *)
(* number of its entries: Entries::upsert and Entries::delete never do.      *)
THEOREM CascadeIsTheOnlyDrift == DbSpec => OnlyCascadeDrifts
<1>1. DbTypeOK /\ [DbNext]_dbVars =>
        (LiveProjects \subseteq LiveProjects' =>
            \A h \in Hash : h \in blobs' => Drift(h)' = Drift(h))
  BY StepDrift
<1>2. QED
  BY <1>1, TypeCorrect, PTL DEF DbSpec, OnlyCascadeDrifts

-----------------------------------------------------------------------------
(* What a step may do to the rows of entries: a live row keeps its project   *)
(* and key, and only the id at the sequence may become live.                 *)
LEMMA RowIdentity ==
  ASSUME DbTypeOK, [DbNext]_dbVars, NEW j \in EntryId, entries'[j] # NULL
  PROVE  \/ /\ entries[j] # NULL
            /\ entries'[j].project_id = entries[j].project_id
            /\ entries'[j].key = entries[j].key
         \/ /\ j = nextEntry /\ entries[j] = NULL
            /\ \E p \in ProjectId, k \in Key, h \in Hash : UpsertInsert(p, k, h)
<1> DEFINE Kept == /\ entries[j] # NULL
                   /\ entries'[j].project_id = entries[j].project_id
                   /\ entries'[j].key = entries[j].key
<1>1. ASSUME entries' = entries PROVE Kept
  BY <1>1
<1>2. CASE ProjectStep
  BY <1>1, <1>2 DEF ProjectStep, CreateProject, UpdateProject
<1>3. ASSUME NEW p \in ProjectId, DeleteProject(p) PROVE Kept
  BY <1>3 DEF DeleteProject
<1>4. ASSUME NEW p \in ProjectId, NEW k \in Key, NEW h \in Hash, UpsertInsert(p, k, h),
             j = nextEntry
      PROVE  entries[j] = NULL
  BY <1>4 DEF DbTypeOK, LiveEntries, EntryId
<1>5. ASSUME NEW p \in ProjectId, NEW k \in Key, NEW h \in Hash, UpsertInsert(p, k, h),
             j # nextEntry
      PROVE  Kept
  BY <1>5 DEF UpsertInsert, Incr, DbTypeOK
<1>6. ASSUME NEW p \in ProjectId, NEW k \in Key, NEW h \in Hash, UpsertReplace(p, k, h)
      PROVE  Kept
  <2>1. PICK i \in Find(p, k), c \in ClockRead :
            entries' = [entries EXCEPT ![i].blob_hash = h, ![i].last_accessed = c]
    BY <1>6 DEF UpsertReplace
  <2>2. i \in EntryId /\ entries[i] # NULL /\ entries[i] \in EntryRow
    BY <2>1 DEF Find, LiveEntries, DbTypeOK
  <2>3. CASE j = i
    BY <2>1, <2>2, <2>3 DEF EntryRow, DbTypeOK
  <2>4. CASE j # i
    BY <2>1, <2>2, <2>4 DEF DbTypeOK
  <2>5. QED
    BY <2>3, <2>4
<1>7. ASSUME NEW p \in ProjectId, NEW i \in EntryId, Delete(p, i) PROVE Kept
  BY <1>7 DEF Delete, Decr, DbTypeOK
<1>8. ASSUME NEW i \in EntryId, Touch(i) PROVE Kept
  <2>1. CASE i \notin LiveEntries
    BY <1>1, <1>8, <2>1 DEF Touch
  <2>2. CASE i \in LiveEntries
    <3>1. PICK c \in ClockRead : entries' = [entries EXCEPT ![i].last_accessed = c]
      BY <1>8, <2>2 DEF Touch
    <3>2. entries[i] # NULL /\ entries[i] \in EntryRow
      BY <2>2 DEF LiveEntries, DbTypeOK
    <3>3. CASE j = i
      BY <3>1, <3>2, <3>3 DEF EntryRow, DbTypeOK
    <3>4. CASE j # i
      BY <3>1, <3>4 DEF DbTypeOK
    <3>5. QED
      BY <3>3, <3>4
  <2>3. QED
    BY <2>1, <2>2
<1>9. ASSUME NEW p \in ProjectId, NEW i \in EntryId, NEW b \in BOOLEAN, SetPinned(p, i, b)
      PROVE  Kept
  <2>1. entries' = [entries EXCEPT ![i].pinned = b] /\ entries[i] # NULL /\ entries[i] \in EntryRow
    BY <1>9 DEF SetPinned, EntriesOf, LiveEntries, DbTypeOK
  <2>2. CASE j = i
    BY <2>1, <2>2 DEF EntryRow, DbTypeOK
  <2>3. CASE j # i
    BY <2>1, <2>3 DEF DbTypeOK
  <2>4. QED
    BY <2>2, <2>3
<1>10. ASSUME NEW h \in Hash, DeleteBlobRow(h) PROVE Kept
  BY <1>1, <1>10 DEF DeleteBlobRow
<1>11. ASSUME NEW h \in Hash, PurgeBlob(h) PROVE Kept
  BY <1>11 DEF PurgeBlob
<1>12. CASE Tick \/ UNCHANGED dbVars
  BY <1>1, <1>12 DEF Tick, dbVars, tables
<1>13. QED
  BY <1>2, <1>3, <1>4, <1>5, <1>6, <1>7, <1>8, <1>9, <1>10, <1>11, <1>12 DEF DbNext

(* Ids grow, and a row that is gone stays gone. *)
LEMMA GoneForGood ==
    ASSUME DbTypeOK, [DbNext]_dbVars
    PROVE  /\ nextEntry <= nextEntry' /\ nextEntry \in Nat /\ nextEntry' \in Nat
           /\ \A i \in EntryId : entries[i] = NULL /\ i < nextEntry => entries'[i] = NULL
<1>1. DbTypeOK'
  BY NextTypeOK
<1>2. nextEntry \in Nat /\ nextEntry' \in Nat
  BY <1>1, BoundsAssumption DEF DbTypeOK
<1>3. nextEntry' = nextEntry \/ nextEntry' = nextEntry + 1
  BY DEF DbNext, ProjectStep, CreateProject, UpdateProject, DeleteProject, UpsertInsert,
         UpsertReplace, Delete, Touch, SetPinned, DeleteBlobRow, PurgeBlob, Tick, dbVars, tables
<1>4. ASSUME NEW i \in EntryId, entries[i] = NULL, i < nextEntry PROVE entries'[i] = NULL
  <2>1. ASSUME entries'[i] # NULL PROVE i = nextEntry
    BY <1>4, <2>1, RowIdentity
  <2>2. i \in Nat
    BY BoundsAssumption DEF EntryId
  <2> QED
    BY <1>2, <1>4, <2>1, <2>2
<1> QED
  BY <1>2, <1>3, <1>4

(* No id ever comes to name another entry, so a stale id held by a sweep's   *)
(* candidate list or a spawned touch can only miss.                          *)
THEOREM IdsNameOneEntry == DbSpec => NoIdReuse
<1>1. DbTypeOK /\ [DbNext]_dbVars =>
        \A i \in EntryId :
          entries'[i] # NULL =>
             IF entries[i] = NULL THEN i >= nextEntry
             ELSE /\ entries'[i].project_id = entries[i].project_id
                  /\ entries'[i].key = entries[i].key
  <2> SUFFICES ASSUME DbTypeOK, [DbNext]_dbVars, NEW i \in EntryId, entries'[i] # NULL
               PROVE  IF entries[i] = NULL THEN i >= nextEntry
                      ELSE /\ entries'[i].project_id = entries[i].project_id
                           /\ entries'[i].key = entries[i].key
    OBVIOUS
  <2>1. nextEntry \in Int
    BY DEF DbTypeOK
  <2>2. QED
    BY <2>1, RowIdentity
<1>2. QED
  BY <1>1, TypeCorrect, PTL DEF DbSpec, NoIdReuse

-----------------------------------------------------------------------------
(* Entries::upsert looks the key up in the same transaction, so a key never  *)
(* gets a second row.                                                        *)
LEMMA StepUnique ==
  DbTypeOK /\ UniqueKeys /\ [DbNext]_dbVars => UniqueKeys'
<1> SUFFICES ASSUME DbTypeOK, UniqueKeys, [DbNext]_dbVars,
                    NEW i \in EntryId, NEW j \in EntryId,
                    entries'[i] # NULL, entries'[j] # NULL,
                    entries'[i].project_id = entries'[j].project_id,
                    entries'[i].key = entries'[j].key
             PROVE  i = j
  BY DEF UniqueKeys, LiveEntries
<1>1. CASE entries[i] # NULL /\ entries[j] # NULL
  <2>1. /\ entries'[i].project_id = entries[i].project_id /\ entries'[i].key = entries[i].key
        /\ entries'[j].project_id = entries[j].project_id /\ entries'[j].key = entries[j].key
    BY <1>1, RowIdentity
  <2>2. QED
    BY <1>1, <2>1 DEF UniqueKeys, LiveEntries
<1>2. ASSUME NEW a \in EntryId, NEW b \in EntryId, entries'[a] # NULL, entries'[b] # NULL,
             entries[a] = NULL, entries[b] # NULL,
             entries'[a].project_id = entries'[b].project_id, entries'[a].key = entries'[b].key
      PROVE  FALSE
  <2>1. a = nextEntry /\ \E p \in ProjectId, k \in Key, h \in Hash : UpsertInsert(p, k, h)
    BY <1>2, RowIdentity
  <2>2. PICK p \in ProjectId, k \in Key, h \in Hash : UpsertInsert(p, k, h)
    BY <2>1
  <2>3. entries'[a].project_id = p /\ entries'[a].key = k
    BY <2>1, <2>2 DEF UpsertInsert, Incr, DbTypeOK
  <2>4. entries'[b].project_id = entries[b].project_id /\ entries'[b].key = entries[b].key
    BY <1>2, RowIdentity
  <2>5. b \in Find(p, k)
    BY <1>2, <2>3, <2>4 DEF Find, LiveEntries
  <2>6. QED
    BY <2>2, <2>5 DEF UpsertInsert, Incr
<1>3. CASE entries[i] = NULL /\ entries[j] = NULL
  BY <1>3, RowIdentity
<1>4. QED
  BY <1>1, <1>2, <1>3

(* A row's blob after a step: the one it had, or the one just uploaded,      *)
(* whose row the same transaction created.                                   *)
LEMMA StepForeignKeys ==
  DbTypeOK /\ ForeignKeys /\ [DbNext]_dbVars => ForeignKeys'
<1> SUFFICES ASSUME DbTypeOK, ForeignKeys, [DbNext]_dbVars,
                    NEW j \in EntryId, entries'[j] # NULL
             PROVE  /\ entries'[j].project_id \in LiveProjects'
                    /\ entries'[j].blob_hash \in blobs'
  BY DEF ForeignKeys, LiveEntries
<1> USE DEF ForeignKeys, LiveEntries, LiveProjects
<1> DEFINE Good == /\ entries'[j].project_id \in LiveProjects'
                   /\ entries'[j].blob_hash \in blobs'
<1>1. ASSUME entries' = entries, LiveProjects \subseteq LiveProjects', blobs' = blobs
      PROVE  Good
  BY <1>1
<1>2. ASSUME NEW n \in Name, NEW q \in QuotaVal \cup {NULL}, NEW t \in TtlVal \cup {NULL},
             CreateProject(n, q, t) \/ (\E p \in ProjectId : UpdateProject(p, n, q, t))
      PROVE  Good
  <2>1. [name |-> n, quota_bytes |-> q, ttl_seconds |-> t] # NULL
    <3>1. [name |-> n, quota_bytes |-> q, ttl_seconds |-> t] \in ProjectRow
      BY DEF ProjectRow
    <3>2. QED
      BY <3>1, NullAssumption
  <2>2. LiveProjects \subseteq LiveProjects'
    BY <1>2, <2>1 DEF CreateProject, UpdateProject, DbTypeOK
  <2>3. QED
    BY <1>1, <1>2, <2>2 DEF CreateProject, UpdateProject
<1>3. ASSUME NEW p \in ProjectId, DeleteProject(p) PROVE Good
  BY <1>3 DEF DeleteProject, EntriesOf, DbTypeOK
<1>4. ASSUME NEW p \in ProjectId, NEW k \in Key, NEW h \in Hash, UpsertInsert(p, k, h)
      PROVE  Good
  BY <1>4 DEF UpsertInsert, Incr, DbTypeOK
<1>5. ASSUME NEW p \in ProjectId, NEW k \in Key, NEW h \in Hash, UpsertReplace(p, k, h)
      PROVE  Good
  <2>1. PICK i \in Find(p, k), c \in ClockRead :
            /\ entries' = [entries EXCEPT ![i].blob_hash = h, ![i].last_accessed = c]
            /\ blobs' = blobs \cup {h}
    BY <1>5 DEF UpsertReplace
  <2>2. i \in EntryId /\ entries[i] # NULL /\ entries[i] \in EntryRow
    BY <2>1 DEF Find, DbTypeOK
  <2>3. projects' = projects
    BY <1>5 DEF UpsertReplace
  <2>4. CASE j = i
    <3>1. entries'[i].blob_hash = h /\ entries'[i].project_id = entries[i].project_id
      BY <2>1, <2>2 DEF EntryRow, DbTypeOK
    <3>2. QED
      BY <2>1, <2>2, <2>3, <2>4, <3>1
  <2>5. CASE j # i
    <3>1. entries'[j] = entries[j]
      BY <2>1, <2>2, <2>5 DEF DbTypeOK
    <3>2. QED
      BY <2>1, <2>3, <3>1
  <2>6. QED
    BY <2>4, <2>5
<1>6. ASSUME NEW p \in ProjectId, NEW i \in EntryId, Delete(p, i) PROVE Good
  BY <1>6 DEF Delete, Decr, DbTypeOK
<1>7. ASSUME NEW i \in EntryId, Touch(i) PROVE Good
  <2>1. CASE i \notin LiveEntries
    BY <1>1, <1>7, <2>1 DEF Touch
  <2>2. CASE i \in LiveEntries
    <3>1. PICK c \in ClockRead :
          /\ entries' = [entries EXCEPT ![i].last_accessed = c]
          /\ entries[i] # NULL /\ entries[i] \in EntryRow
          /\ projects' = projects /\ blobs' = blobs
      BY <1>7, <2>2 DEF Touch, DbTypeOK
    <3>2. entries[j] # NULL /\ entries'[j].project_id = entries[j].project_id
      BY <3>1 DEF EntryRow, DbTypeOK
    <3>3. entries'[j].blob_hash = entries[j].blob_hash
      BY <3>1 DEF EntryRow, DbTypeOK
    <3>4. QED
      BY <3>1, <3>2, <3>3
  <2>3. QED
    BY <2>1, <2>2
<1>8. ASSUME NEW p \in ProjectId, NEW i \in EntryId, NEW b \in BOOLEAN, SetPinned(p, i, b)
      PROVE  Good
  <2>1. /\ entries' = [entries EXCEPT ![i].pinned = b]
        /\ entries[i] # NULL /\ entries[i] \in EntryRow
        /\ projects' = projects /\ blobs' = blobs
    BY <1>8 DEF SetPinned, EntriesOf, DbTypeOK
  <2>2. entries[j] # NULL /\ entries'[j].project_id = entries[j].project_id
    BY <2>1 DEF EntryRow, DbTypeOK
  <2>3. entries'[j].blob_hash = entries[j].blob_hash
    BY <2>1 DEF EntryRow, DbTypeOK
  <2>4. QED
    BY <2>1, <2>2, <2>3
<1>9. ASSUME NEW h \in Hash, DeleteBlobRow(h) PROVE Good
  BY <1>9 DEF DeleteBlobRow, Refs
<1>10. ASSUME NEW h \in Hash, PurgeBlob(h) PROVE Good
  BY <1>10 DEF PurgeBlob, Refs
<1>11. CASE Tick \/ UNCHANGED dbVars
  BY <1>1, <1>11 DEF Tick, dbVars, tables
<1>12. QED
  BY <1>2, <1>3, <1>4, <1>5, <1>6, <1>7, <1>8, <1>9, <1>10, <1>11 DEF DbNext, ProjectStep

(* A hash without a row has refcount zero after every step, and a row is     *)
(* only dropped together with its count.                                     *)
LEMMA StepNoRowNoCount ==
  ASSUME DbTypeOK, \A h \in Hash \ blobs : refcount[h] = 0, [DbNext]_dbVars,
         NEW g \in Hash \ blobs'
  PROVE  refcount'[g] = 0
<1>1. ASSUME refcount' = refcount, blobs' = blobs PROVE refcount'[g] = 0
  BY <1>1
<1>2. CASE ProjectStep \/ (\E p \in ProjectId : DeleteProject(p))
  BY <1>1, <1>2 DEF ProjectStep, CreateProject, UpdateProject, DeleteProject
<1>3. ASSUME NEW p \in ProjectId, NEW k \in Key, NEW h \in Hash, UpsertInsert(p, k, h)
      PROVE  refcount'[g] = 0
  BY <1>3 DEF UpsertInsert, Incr, DbTypeOK
<1>4. ASSUME NEW p \in ProjectId, NEW k \in Key, NEW h \in Hash, UpsertReplace(p, k, h)
      PROVE  refcount'[g] = 0
  <2>1. PICK i \in Find(p, k), c \in ClockRead : /\ entries[i].blob_hash \in blobs
                                /\ blobs' = blobs \cup {h}
                                /\ refcount' = Rebind(entries[i].blob_hash, h)
    BY <1>4 DEF UpsertReplace
  <2>2. QED
    BY <2>1 DEF Rebind, Incr, Decr, DbTypeOK
<1>5. ASSUME NEW p \in ProjectId, NEW i \in EntryId, Delete(p, i) PROVE refcount'[g] = 0
  BY <1>5 DEF Delete, Decr, DbTypeOK
<1>6. ASSUME NEW i \in EntryId,
             Touch(i) \/ (\E p \in ProjectId, b \in BOOLEAN : SetPinned(p, i, b))
      PROVE  refcount'[g] = 0
  BY <1>1, <1>6 DEF Touch, SetPinned
<1>7. ASSUME NEW h \in Hash, DeleteBlobRow(h) \/ PurgeBlob(h) PROVE refcount'[g] = 0
  BY <1>7 DEF DeleteBlobRow, PurgeBlob, DbTypeOK
<1>8. CASE Tick \/ UNCHANGED dbVars
  BY <1>1, <1>8 DEF Tick, dbVars, tables
<1>9. QED
  BY <1>2, <1>3, <1>4, <1>5, <1>6, <1>7, <1>8 DEF DbNext

(* The drift never becomes negative: unchanged while no project goes, and    *)
(* raised by a cascade, which removes references and keeps the count.        *)
LEMMA StepNoUndercount ==
  DbTypeOK /\ ForeignKeys /\ NoUndercount /\ [DbNext]_dbVars => NoUndercount'
<1> SUFFICES ASSUME DbTypeOK, ForeignKeys, NoUndercount, [DbNext]_dbVars PROVE NoUndercount'
  OBVIOUS
<1>1. \A h \in Hash \ blobs' : refcount'[h] = 0
  BY StepNoRowNoCount DEF NoUndercount
<1>2. ASSUME NEW g \in Hash PROVE Drift(g)' >= 0
  <2>1. CASE g \notin blobs'
    <3>1. Refs(g)' = {}
      BY <2>1, StepForeignKeys DEF Refs, ForeignKeys
    <3>2. Cardinality(Refs(g)') = 0
      BY <3>1, FS_EmptySet
    <3>3. QED
      BY <1>1, <2>1, <3>2 DEF Drift
  <2>2. CASE g \in blobs' /\ LiveProjects \subseteq LiveProjects'
    BY <2>2, StepDrift DEF NoUndercount
  <2>3. CASE ~(LiveProjects \subseteq LiveProjects')
    <3>1. PICK p \in ProjectId : DeleteProject(p)
      <4>1. CASE ProjectStep
        <5>1. \A n \in Name, q \in QuotaVal \cup {NULL}, t \in TtlVal \cup {NULL} :
                [name |-> n, quota_bytes |-> q, ttl_seconds |-> t] # NULL
          <6>1. \A n \in Name, q \in QuotaVal \cup {NULL}, t \in TtlVal \cup {NULL} :
                  [name |-> n, quota_bytes |-> q, ttl_seconds |-> t] \in ProjectRow
            BY DEF ProjectRow
          <6>2. QED
            BY <6>1, NullAssumption
        <5>2. LiveProjects \subseteq LiveProjects'
          BY <4>1, <5>1 DEF ProjectStep, CreateProject, UpdateProject, LiveProjects, DbTypeOK
        <5>3. QED
          BY <2>3, <5>2
      <4>2. CASE UNCHANGED projects
        BY <2>3, <4>2 DEF LiveProjects
      <4>3. QED
        BY <4>1, <4>2 DEF DbNext, UpsertInsert, Incr, Decr, UpsertReplace, Delete, Touch, SetPinned,
                          DeleteBlobRow, PurgeBlob, Tick, tables, dbVars
    <3>2. Refs(g)' \in SUBSET Refs(g) /\ refcount' = refcount
      BY <3>1 DEF DeleteProject, Refs, LiveEntries
    <3>3. Cardinality(Refs(g)') <= Cardinality(Refs(g))
      BY <3>2, RefsFinite, FS_Subset
    <3>4. refcount[g] \in Int
      BY DEF DbTypeOK
    <3>5. QED
      BY <3>2, <3>3, <3>4, RefsFinite DEF NoUndercount, Drift
  <2>4. QED
    BY <2>1, <2>2, <2>3
<1>3. QED
  BY <1>1, <1>2 DEF NoUndercount

(* The inductive invariant of the metadata store. *)
DbInv == DbTypeOK /\ ForeignKeys /\ UniqueKeys /\ NoUndercount

(* A freshly migrated database satisfies the invariant. *)
LEMMA InitDbInv == DbInit => DbInv
<1> SUFFICES ASSUME DbInit PROVE DbInv
  OBVIOUS
<1>1. LiveEntries = {}
  BY DEF DbInit, LiveEntries
<1>2. \A h \in Hash : Drift(h) >= 0
  <2>1. \A h \in Hash : Refs(h) = {}
    BY <1>1 DEF Refs
  <2>2. Cardinality({}) = 0
    BY FS_EmptySet
  <2>3. \A h \in Hash : refcount[h] = 0
    BY DEF DbInit
  <2>4. ASSUME NEW h \in Hash PROVE Drift(h) >= 0
    <3>1. Drift(h) = 0 - 0
      BY <2>1, <2>2, <2>3 DEF Drift
    <3>2. QED
      BY <3>1
  <2>5. QED
    BY <2>4
<1>3. QED
  BY <1>1, <1>2, InitTypeOK DEF DbInit, DbInv, ForeignKeys, UniqueKeys, NoUndercount

(* No repository method breaks the invariant. *)
LEMMA NextDbInv == DbInv /\ [DbNext]_dbVars => DbInv'
  BY NextTypeOK, StepForeignKeys, StepUnique, StepNoUndercount DEF DbInv

(* The metadata store keeps its foreign keys, its unique keys and a refcount *)
(* that never falls below the number of references.                          *)
THEOREM DbInvariant == DbSpec => []DbInv
  BY InitDbInv, NextDbInv, PTL DEF DbSpec

(* A referenced blob never looks free to Blobs::zero_refcount. *)
THEOREM NeverUndercounted == DbSpec => []NoUndercount
<1>1. DbInv => NoUndercount
  BY DEF DbInv
<1>2. QED
  BY <1>1, DbInvariant, PTL

(* No order of uploads, cascades, purges and blob deletions leaves an entry  *)
(* without its project or its blob row.                                      *)
THEOREM ReferencesHold == DbSpec => []ForeignKeys
<1>1. DbInv => ForeignKeys
  BY DEF DbInv
<1>2. QED
  BY <1>1, DbInvariant, PTL
=============================================================================
