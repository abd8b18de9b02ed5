------------------------------ MODULE GcProofs ------------------------------
(***************************************************************************)
(* Proofs about the collector: its sums, the type of its record, which     *)
(* every interleaving keeps, and what a pass does that nobody disturbs,    *)
(* for every database, every limit and every batch size.                   *)
(***************************************************************************)
EXTENDS Gc, MetadataDbProofs, BlobStoreProofs

(* A non-empty set of natural numbers has a least element. *)
LEMMA LeastNat ==
    ASSUME NEW S \in SUBSET Nat, S # {}
    PROVE  \E m \in S : \A n \in S : m <= n
<1>1. PICK m \in S : \A n \in S : ~(<<n, m>> \in OpToRel(<, Nat))
  BY NatLessThanWellFounded, WFMin
<1>2. \A n \in S : ~(n < m)
  BY <1>1 DEF OpToRel
<1> QED
  BY <1>2

-----------------------------------------------------------------------------
(* Sums *)

(* The bytes behind a sum. *)
Bytes(f, S) == UNION {{x} \X (1..f[x]) : x \in S}

(* A sum of finitely many natural numbers is a natural number. *)
LEMMA BytesFinite ==
    ASSUME NEW S, IsFiniteSet(S), NEW f, \A x \in S : f[x] \in Nat
    PROVE  IsFiniteSet(Bytes(f, S)) /\ SumOf(f, S) \in Nat
           /\ SumOf(f, S) = Cardinality(Bytes(f, S))
<1> DEFINE T == {{x} \X (1..f[x]) : x \in S}
           g == [x \in S |-> {x} \X (1..f[x])]
<1>1. g \in Surjection(S, T)
  BY DEF Surjection
<1>2. IsFiniteSet(T)
  BY <1>1, FS_Surjection
<1>3. ASSUME NEW x \in S PROVE IsFiniteSet({x} \X (1..f[x]))
  <2>1. IsFiniteSet({x})
    BY FS_Singleton
  <2>2. IsFiniteSet(1..f[x])
    BY <1>3, FS_Interval
  <2> QED
    BY <2>1, <2>2, FS_Product
<1>4. \A t \in T : IsFiniteSet(t)
  BY <1>3
<1>5. IsFiniteSet(UNION T)
  BY <1>2, <1>4, FS_UNION
<1> QED
  BY <1>5, FS_CardinalityType DEF Bytes, SumOf

(* Without one of its rows a sum is that much smaller. *)
LEMMA SumWithout ==
    ASSUME NEW S, IsFiniteSet(S), NEW f, \A x \in S : f[x] \in Nat, NEW y \in S
    PROVE  SumOf(f, S \ {y}) = SumOf(f, S) - f[y]
<1> DEFINE Y == {y} \X (1..f[y])
<1>1. IsFiniteSet(S \ {y})
  BY FS_RemoveElement
<1>2. Bytes(f, S) = Bytes(f, S \ {y}) \cup Y
  BY DEF Bytes
<1>3. Bytes(f, S \ {y}) \cap Y = {}
  BY DEF Bytes
<1>4. IsFiniteSet(Y) /\ Cardinality(Y) = f[y]
  <2>1. PICK n \in Nat : n = f[y]
    OBVIOUS
  <2>2. Cardinality(1..n) = IF 1 > n THEN 0 ELSE n - 1 + 1
    BY FS_Interval
  <2>3. IsFiniteSet(1..n) /\ Cardinality(1..n) = n
    BY <2>2, FS_Interval
  <2>4. IsFiniteSet({y}) /\ Cardinality({y}) = 1
    BY FS_Singleton
  <2>5. IsFiniteSet({y} \X (1..n)) /\ Cardinality({y} \X (1..n)) = Cardinality({y}) * Cardinality(1..n)
    BY <2>3, <2>4, FS_Product
  <2>6. Cardinality({y} \X (1..n)) = n
    BY <2>3, <2>4, <2>5
  <2> QED
    BY <2>1, <2>5, <2>6
<1>5. /\ IsFiniteSet(Bytes(f, S \ {y}))
      /\ SumOf(f, S \ {y}) = Cardinality(Bytes(f, S \ {y})) /\ SumOf(f, S \ {y}) \in Nat
  BY <1>1, BytesFinite
<1>6. SumOf(f, S) = Cardinality(Bytes(f, S)) /\ SumOf(f, S) \in Nat
  BY BytesFinite
<1>7. Cardinality(Bytes(f, S)) = Cardinality(Bytes(f, S \ {y})) + Cardinality(Y) - Cardinality({})
  <2> DEFINE A == Bytes(f, S \ {y})
  <2>1. IsFiniteSet(A) /\ IsFiniteSet(Y) /\ A \cap Y = {} /\ Bytes(f, S) = A \cup Y
    BY <1>2, <1>3, <1>4, <1>5
  <2> HIDE DEF A, Y
  <2>2. Cardinality(A \cup Y) = Cardinality(A) + Cardinality(Y) - Cardinality(A \cap Y)
    BY <2>1, FS_Union
  <2>3. Cardinality(Bytes(f, S)) = Cardinality(A) + Cardinality(Y) - Cardinality({})
    BY <2>1, <2>2
  <2> QED
    BY <2>3 DEF A
<1> QED
  BY <1>4, <1>5, <1>6, <1>7, FS_EmptySet

(* Fewer rows do not sum up to more. *)
LEMMA SumOfFewer ==
    ASSUME NEW S, IsFiniteSet(S), NEW f, \A x \in S : f[x] \in Nat, NEW T \in SUBSET S
    PROVE  SumOf(f, T) <= SumOf(f, S)
<1>1. IsFiniteSet(T) /\ \A x \in T : f[x] \in Nat
  BY FS_Subset
<1>2. Bytes(f, T) \subseteq Bytes(f, S)
  BY DEF Bytes
<1> QED
  BY <1>1, <1>2, BytesFinite, FS_Subset

(* Only the values of the rows summed over matter. *)
LEMMA SumOfSame ==
    ASSUME NEW S, NEW f, NEW g, \A x \in S : f[x] = g[x]
    PROVE  SumOf(f, S) = SumOf(g, S)
<1>1. {{x} \X (1..f[x]) : x \in S} = {{x} \X (1..g[x]) : x \in S}
  OBVIOUS
<1> QED
  BY <1>1 DEF SumOf

-----------------------------------------------------------------------------
(* The type of the record *)

EvictPc == {"ttl_evict", "quota_evict", "global_evict"}

QuotaPc == {"quota", "quota_select", "quota_evict"}

Limit == [id : ProjectId, quota : QuotaVal]

GcRecord ==
    [pc : GcPc, result : {"none", "swept", "scanned", "failed"}, dry : BOOLEAN,
     now : Time, kind : Kind, todo : SUBSET Limit, queue : SUBSET Candidate, usage : Int,
     batch : SUBSET Hash, current : SUBSET Hash, unseen : SUBSET Hash, missing : SUBSET Hash,
     kept : SUBSET Hash]

(* What g has where it is. *)
GcOk(g) ==
    /\ g \in GcRecord
    /\ g.pc \in EvictPc <=> g.queue # {}
    /\ g.pc \in {"unlink", "row"} => g.batch # {} /\ ~g.dry
    /\ g.pc \in {"scan_unlink", "scan_purge"} => ~g.dry
    /\ g.pc \in QuotaPc => g.todo # {}

GcType == GcOk(gc) /\ gc.now <= now

(* The strengthened type of a pass implies the one the runs check. *)
LEMMA GcTypeIsTyped == GcType => GcTypeOK
  BY DEF GcType, GcOk, GcTypeOK, GcRecord, Evicting, EvictPc, QuotaPc, Limit

(* The quota loop is at one of the projects left, the one with the least id. *)
LEMMA CurrentIsFirst ==
    ASSUME NEW g, g.todo \in SUBSET Limit, g.todo # {}
    PROVE  Current(g) \in g.todo /\ \A q \in g.todo : Current(g).id <= q.id
<1> DEFINE Ids == {q.id : q \in g.todo}
<1>1. Ids \in SUBSET Nat /\ Ids # {}
  BY BoundsAssumption DEF Limit, ProjectId
<1>2. PICK m \in Ids : \A n \in Ids : m <= n
  BY <1>1, LeastNat
<1>3. PICK q \in g.todo : q.id = m
  BY <1>2
<1>4. \A r \in g.todo : q.id <= r.id
  BY <1>2, <1>3
<1> QED
  BY <1>4 DEF Current

(* The idle pass of GcSvc::new is well formed. *)
LEMMA IdleOk == GcIdle \in GcRecord /\ GcOk(GcIdle)
<1>1. GcIdle \in GcRecord
  <2>1. 0 \in Time
    BY BoundsAssumption DEF Time
  <2> QED
    BY <2>1 DEF GcIdle, GcRecord, GcPc, Kind
<1>2. GcIdle.pc = "idle" /\ GcIdle.queue = {}
  BY DEF GcIdle
<1> QED
  BY <1>1, <1>2 DEF GcOk, EvictPc, QuotaPc

(* Where ttl_phase goes when a batch has been read or used up. *)
LEMMA AfterTtlOk ==
    ASSUME NEW g \in GcRecord PROVE GcOk(AfterTtl(g)) /\ AfterTtl(g).now = g.now
<1> USE DEF GcOk, GcRecord, GcPc, EvictPc, QuotaPc
<1>1. CASE g.queue # {}
  BY <1>1 DEF AfterTtl
<1>2. CASE g.queue = {} /\ g.kind = "sstate"
  BY <1>2 DEF AfterTtl, Kind
<1>3. CASE g.queue = {} /\ g.kind = "downloads"
  BY <1>3 DEF AfterTtl
<1> QED
  BY <1>1, <1>2, <1>3 DEF Kind

(* Where the quota loop goes after a project: the next one, or the global phase. *)
LEMMA NextProjectOk ==
    ASSUME NEW g \in GcRecord, g.todo # {}
    PROVE  GcOk(NextProject(g)) /\ NextProject(g).now = g.now
<1>1. PICK c \in Limit : c = Current(g) /\ c \in g.todo
  BY CurrentIsFirst DEF GcRecord
<1>2. PICK pc \in {"global", "quota"} :
        /\ pc = IF g.todo = {c} THEN "global" ELSE "quota"
        /\ NextProject(g) = [g EXCEPT !.todo = g.todo \ {c}, !.queue = {}, !.usage = 0, !.pc = pc]
  BY <1>1 DEF NextProject
<1>3. pc = "quota" => g.todo \ {c} # {}
  BY <1>1, <1>2
<1>4. PICK n \in GcRecord :
        n = [g EXCEPT !.todo = g.todo \ {c}, !.queue = {}, !.usage = 0, !.pc = pc]
  <2>1. pc \in GcPc /\ {} \in SUBSET Candidate /\ 0 \in Int
    BY DEF GcPc
  <2>2. g.todo \ {c} \in SUBSET Limit
    BY DEF GcRecord
  <2> QED
    BY <2>1, <2>2 DEF GcRecord
<1>5. n.pc = pc /\ n.queue = {} /\ n.todo = g.todo \ {c} /\ n.now = g.now
  BY <1>4 DEF GcRecord
<1> QED
  BY <1>2, <1>3, <1>4, <1>5 DEF GcOk, EvictPc, QuotaPc

(* Where quota_phase goes once its usage or its candidates are known. *)
LEMMA AfterQuotaOk ==
    ASSUME NEW g \in GcRecord, g.todo # {}
    PROVE  GcOk(AfterQuota(g)) /\ AfterQuota(g).now = g.now
<1>1. CASE g.usage <= Current(g).quota \/ g.queue = {}
  BY <1>1, NextProjectOk DEF AfterQuota
<1>2. CASE ~(g.usage <= Current(g).quota \/ g.queue = {})
  BY <1>2 DEF AfterQuota, GcOk, GcRecord, GcPc, EvictPc, QuotaPc
<1> QED
  BY <1>1, <1>2

(* Where global_phase goes once its usage or its candidates are known. *)
LEMMA AfterGlobalOk ==
    ASSUME NEW g \in GcRecord PROVE GcOk(AfterGlobal(g)) /\ AfterGlobal(g).now = g.now
<1>1. CASE g.usage <= GlobalQuota \/ g.queue = {}
  <2>1. "cleanup" \in GcPc /\ {} \in SUBSET Candidate /\ 0 \in Int
    BY DEF GcPc
  <2>2. PICK n \in GcRecord : n = [g EXCEPT !.pc = "cleanup", !.queue = {}, !.usage = 0]
    BY <2>1 DEF GcRecord
  <2>3. n.pc = "cleanup" /\ n.queue = {} /\ n.now = g.now
    BY <2>2 DEF GcRecord
  <2> QED
    BY <1>1, <2>2, <2>3 DEF AfterGlobal, GcOk, EvictPc, QuotaPc
<1>2. CASE ~(g.usage <= GlobalQuota \/ g.queue = {})
  BY <1>2 DEF AfterGlobal, GcOk, GcRecord, GcPc, EvictPc, QuotaPc
<1> QED
  BY <1>1, <1>2

(* The rows of entries are candidates. *)
LEMMA RowIsCandidate ==
    ASSUME DbTypeOK, NEW i \in LiveEntries PROVE Row(i) \in Candidate
<1>1. entries[i] \in EntryRow /\ i \in EntryId
  BY DEF LiveEntries, DbTypeOK
<1> QED
  BY <1>1, SizeAssumption DEF Row, Candidate, EntryRow

(* Every step of the collector, whoever starts or disturbs it. *)
GcAction ==
    \/ \E dry \in BOOLEAN : SweepStart(dry) \/ ScanStart(dry)
    \/ SweepStep \/ SweepDisturbed \/ ScanStep \/ UnlinkFailure \/ GcAbort
    \/ \E h \in Hash : GcCancelUnlink(h)

(* Returning from run or orphan_scan leaves a well formed idle pass. *)
LEMMA FinishOk ==
    ASSUME GcType, NEW r \in {"none", "swept", "scanned", "failed"}, DbTypeOK,
           Finish(r) \/ \E kept \in SUBSET Hash : End(r, kept)
    PROVE  GcOk(gc') /\ gc'.now <= now
<1>1. gc.dry \in BOOLEAN /\ gc.kept \in SUBSET Hash
  BY DEF GcType, GcOk, GcRecord
<1>2. 0 <= now
  BY BoundsAssumption DEF DbTypeOK, Time
<1>3. PICK kept \in SUBSET Hash : End(r, kept)
  BY <1>1 DEF Finish
<1>4. PICK d \in BOOLEAN : d = gc.dry /\ gc' = [GcIdle EXCEPT !.result = r, !.dry = d, !.kept = kept]
  BY <1>1, <1>3 DEF End
<1>5. gc' \in GcRecord
  BY <1>4, IdleOk DEF GcRecord
<1>6. gc'.pc = "idle" /\ gc'.queue = {} /\ gc'.now = 0
  BY <1>4 DEF GcIdle
<1> QED
  BY <1>2, <1>5, <1>6 DEF GcOk, EvictPc, QuotaPc

(* A batch of live entries read into the queue is well formed. *)
LEMMA SelectOk ==
    ASSUME DbTypeOK, GcType, NEW S \in SUBSET LiveEntries
    PROVE  [gc EXCEPT !.queue = {Row(i) : i \in S}] \in GcRecord
<1>1. {Row(i) : i \in S} \in SUBSET Candidate
  BY RowIsCandidate
<1> QED
  BY <1>1 DEF GcType, GcOk, GcRecord

(* The candidate queries of the three phases keep the pass well formed. *)
LEMMA SelectsOk ==
    ASSUME DbTypeOK, GcType, TtlSelect \/ QuotaSelect \/ GlobalSelect
    PROVE  GcOk(gc') /\ gc'.now <= now
<1>1. Unpinned \subseteq LiveEntries
  BY DEF Unpinned
<1>2. ASSUME NEW S \in SUBSET LiveEntries
      PROVE  /\ [gc EXCEPT !.queue = {Row(i) : i \in S}] \in GcRecord
             /\ [gc EXCEPT !.queue = {Row(i) : i \in S}].now = gc.now
             /\ [gc EXCEPT !.queue = {Row(i) : i \in S}].todo = gc.todo
  BY SelectOk DEF GcType, GcOk, GcRecord
<1>3. CASE TtlSelect
  <2> DEFINE S == {j \in Unpinned : KindOf[entries[j].key] = gc.kind /\ Expired(j, gc.now)}
  <2>1. S \in SUBSET LiveEntries
    BY <1>1
  <2>2. gc' = AfterTtl([gc EXCEPT !.queue = {Row(i) : i \in S}])
    BY <1>3 DEF TtlSelect
  <2> QED
    BY <1>2, <2>1, <2>2, AfterTtlOk DEF GcType
<1>4. CASE QuotaSelect
  <2> DEFINE S == Unpinned \cap EntriesOf(Current(gc).id)
  <2>1. S \in SUBSET LiveEntries
    BY <1>1
  <2>2. gc' = AfterQuota([gc EXCEPT !.queue = {Row(i) : i \in S}])
    BY <1>4 DEF QuotaSelect
  <2>3. gc.todo # {}
    BY <1>4 DEF QuotaSelect, GcType, GcOk, QuotaPc
  <2> QED
    BY <1>2, <2>1, <2>2, <2>3, AfterQuotaOk DEF GcType
<1>5. CASE GlobalSelect
  BY <1>1, <1>2, <1>5, AfterGlobalOk DEF GlobalSelect, GcType
<1> QED
  BY <1>3, <1>4, <1>5

(* What project_usage and total_size answer. *)
LEMMA UsageType ==
    ASSUME DbTypeOK
    PROVE  TotalSize \in Nat /\ \A p : ProjectUsage(p) \in Nat /\ IsFiniteSet(EntriesOf(p))
<1>1. IsFiniteSet(blobs)
  BY SizeAssumption, FS_Subset DEF DbTypeOK
<1>2. \A h \in blobs : Size[h] \in Nat
  BY SizeAssumption DEF DbTypeOK
<1>3. TotalSize \in Nat
  BY <1>1, <1>2, BytesFinite DEF TotalSize
<1>4. ASSUME NEW p PROVE ProjectUsage(p) \in Nat /\ IsFiniteSet(EntriesOf(p))
  <2> DEFINE f == [i \in LiveEntries |-> Size[entries[i].blob_hash]]
  <2>1. IsFiniteSet(EntryId)
    BY BoundsAssumption, FS_Interval DEF EntryId
  <2>2. IsFiniteSet(EntriesOf(p))
    BY <2>1, FS_Subset DEF EntriesOf, LiveEntries
  <2>3. \A i \in EntriesOf(p) : f[i] \in Nat
    BY SizeAssumption DEF EntriesOf, LiveEntries, DbTypeOK, EntryRow
  <2> HIDE DEF f
  <2>4. SumOf(f, EntriesOf(p)) \in Nat
    BY <2>2, <2>3, BytesFinite
  <2> QED
    BY <2>2, <2>4 DEF ProjectUsage, f
<1> QED
  BY <1>3, <1>4

(* A query of quota_phase or global_phase. *)
LEMMA UsageOk ==
    ASSUME DbTypeOK, GcType, QuotaProjects \/ QuotaUsage \/ GlobalUsage
    PROVE  GcOk(gc') /\ gc'.now <= now
<1>1. CASE QuotaProjects
  <2> DEFINE limited == {p \in LiveProjects : projects[p].quota_bytes # NULL}
             todo == {[id |-> p, quota |-> projects[p].quota_bytes] : p \in limited}
  <2>1. todo \in SUBSET Limit
    BY DEF DbTypeOK, LiveProjects, ProjectRow, Limit
  <2>2. PICK pc \in {"global", "quota"} :
           pc = (IF limited = {} THEN "global" ELSE "quota") /\ gc' = [gc EXCEPT !.pc = pc, !.todo = todo]
    BY <1>1 DEF QuotaProjects
  <2>3. pc = "quota" => todo # {}
    BY <2>2
  <2>4. pc \in GcPc
    BY DEF GcPc
  <2> HIDE DEF todo
  <2>5. gc' \in GcRecord
    BY <2>1, <2>2, <2>4 DEF GcType, GcOk, GcRecord
  <2>6. gc'.pc = pc /\ gc'.todo = todo /\ gc'.queue = gc.queue /\ gc'.now = gc.now
    BY <2>2 DEF GcType, GcOk, GcRecord
  <2>7. gc.queue = {}
    BY <1>1 DEF QuotaProjects, GcType, GcOk, EvictPc
  <2> QED
    BY <2>3, <2>5, <2>6, <2>7 DEF GcType, GcOk, EvictPc, QuotaPc
<1>2. CASE QuotaUsage
  <2>1. gc.todo # {} /\ gc \in GcRecord /\ gc.queue = {}
    BY <1>2 DEF QuotaUsage, GcType, GcOk, QuotaPc, EvictPc
  <2>2. CASE gc' = NextProject(gc)
    BY <2>1, <2>2, NextProjectOk DEF GcType
  <2>3. CASE gc' = [gc EXCEPT !.pc = "quota_select", !.usage = ProjectUsage(Current(gc).id)]
    <3>1. PICK n \in Int : n = ProjectUsage(Current(gc).id)
      BY UsageType
    <3>2. gc' \in GcRecord
      BY <2>1, <2>3, <3>1 DEF GcRecord, GcPc
    <3>3. gc'.pc = "quota_select" /\ gc'.todo = gc.todo /\ gc'.queue = {} /\ gc'.now = gc.now
      BY <2>1, <2>3 DEF GcRecord
    <3> QED
      BY <2>1, <3>2, <3>3 DEF GcType, GcOk, EvictPc, QuotaPc
  <2> QED
    BY <1>2, <2>2, <2>3 DEF QuotaUsage
<1>3. CASE GlobalUsage
  <2>1. gc \in GcRecord /\ gc.queue = {}
    BY <1>3 DEF GlobalUsage, GcType, GcOk, EvictPc
  <2>2. PICK pc \in {"cleanup", "global_select"}, n \in Int : gc' = [gc EXCEPT !.pc = pc, !.usage = n]
    <3>1. gc = [gc EXCEPT !.usage = gc.usage] /\ gc.usage \in Int
      BY <2>1 DEF GcRecord
    <3>2. [gc EXCEPT !.pc = "cleanup"] = [gc EXCEPT !.pc = "cleanup", !.usage = gc.usage]
      BY <2>1 DEF GcRecord
    <3>3. PICK n \in Int : n = TotalSize
      BY UsageType
    <3>4. \/ gc' = [gc EXCEPT !.pc = "cleanup"]
          \/ gc' = [gc EXCEPT !.pc = "global_select", !.usage = n]
      BY <1>3, <3>3 DEF GlobalUsage
    <3> QED
      BY <3>1, <3>2, <3>4
  <2>3. gc' \in GcRecord
    BY <2>1, <2>2 DEF GcRecord, GcPc
  <2>4. gc'.pc = pc /\ gc'.queue = {} /\ gc'.now = gc.now
    BY <2>1, <2>2 DEF GcRecord
  <2> QED
    BY <2>3, <2>4 DEF GcType, GcOk, EvictPc, QuotaPc
<1> QED
  BY <1>1, <1>2, <1>3

(* One eviction of a phase's loop keeps the pass well formed and its clock. *)
LEMMA EvictedOk ==
    ASSUME DbTypeOK, GcType, Evicting, NEW c \in gc.queue
    PROVE  GcOk(Evicted(c)) /\ Evicted(c).now = gc.now
<1>1. gc \in GcRecord /\ c.size \in Int /\ gc.usage \in Int
  BY DEF GcType, GcOk, GcRecord, Candidate
<1>2. PICK usage \in Int : usage = IF gc.pc = "ttl_evict" THEN gc.usage ELSE gc.usage - c.size
  BY <1>1
<1>3. PICK g \in GcRecord : g = [gc EXCEPT !.queue = gc.queue \ {c}, !.usage = usage]
  BY <1>1 DEF GcRecord
<1>4. Evicted(c) = AfterEvict(g)
  BY <1>2, <1>3 DEF Evicted
<1>5. g.pc = gc.pc /\ g.todo = gc.todo /\ g.now = gc.now
  BY <1>1, <1>3 DEF GcRecord
<1>6. CASE gc.pc = "ttl_evict"
  BY <1>4, <1>5, <1>6, AfterTtlOk DEF AfterEvict
<1>7. CASE gc.pc = "quota_evict"
  <2>1. gc.todo # {}
    BY <1>7 DEF GcType, GcOk, QuotaPc
  <2> QED
    BY <1>4, <1>5, <1>7, <2>1, AfterQuotaOk DEF AfterEvict
<1>8. CASE gc.pc = "global_evict"
  BY <1>4, <1>5, <1>8, AfterGlobalOk DEF AfterEvict
<1> QED
  BY <1>6, <1>7, <1>8 DEF Evicting

(* The entry a phase evicts next is one of those it has queued. *)
LEMMA CandidatesQueued == NextCandidates \subseteq gc.queue
  BY DEF NextCandidates

(* cleanup_blobs *)
LEMMA CleanupOk ==
    ASSUME DbTypeOK, GcType,
           \/ CleanupSelect
           \/ \E h \in Hash : CleanupUnlink(h) \/ CleanupUnlinkFails(h) \/ CleanupRow(h)
    PROVE  GcOk(gc') /\ gc'.now <= now
<1>1. gc \in GcRecord
  BY DEF GcType, GcOk
<1>2. ASSUME gc.pc = "cleanup", ~gc.dry, NEW b \in SUBSET Hash, b # {},
             gc' = [gc EXCEPT !.pc = "unlink", !.batch = b]
      PROVE  GcOk(gc') /\ gc'.now <= now
  <2>1. gc' \in GcRecord
    BY <1>1, <1>2 DEF GcRecord, GcPc
  <2>2. gc'.pc = "unlink" /\ gc'.batch = b /\ gc'.dry = gc.dry /\ gc'.queue = gc.queue /\ gc'.now = gc.now
    BY <1>1, <1>2 DEF GcRecord
  <2> QED
    BY <1>2, <2>1, <2>2 DEF GcType, GcOk, EvictPc, QuotaPc
<1>3. CASE CleanupSelect
  <2>1. CASE Finish("swept")
    BY <2>1, FinishOk
  <2>2. CASE ~Finish("swept")
    <3>1. PICK b \in SUBSET ZeroRefcount :
             /\ b = ZeroRefcount \/ Cardinality(b) = Batch
             /\ gc' = [gc EXCEPT !.pc = "unlink", !.batch = b]
      BY <1>3, <2>2 DEF CleanupSelect
    <3>2. ZeroRefcount # {} /\ ~gc.dry /\ gc.pc = "cleanup"
      BY <1>3, <2>2 DEF CleanupSelect
    <3>3. b # {}
      BY <3>1, <3>2, GcAssumption, FS_EmptySet
    <3>4. b \in SUBSET Hash
      BY DEF ZeroRefcount, DbTypeOK
    <3> QED
      BY <1>2, <3>1, <3>2, <3>3, <3>4
  <2> QED
    BY <2>1, <2>2
<1>4. ASSUME NEW h \in Hash, CleanupUnlink(h) \/ CleanupUnlinkFails(h) PROVE GcOk(gc') /\ gc'.now <= now
  <2>1. /\ gc.pc = "unlink"
        /\ \/ gc' = [gc EXCEPT !.pc = "row", !.current = {h}]
           \/ gc' = [gc EXCEPT !.pc = "row", !.current = {h}, !.kept = gc.kept \cup {h}]
    BY <1>4 DEF CleanupUnlink, CleanupUnlinkFails
  <2>2. gc' \in GcRecord
    <3>1. "row" \in GcPc /\ {h} \in SUBSET Hash /\ gc.kept \cup {h} \in SUBSET Hash
      BY <1>1 DEF GcRecord, GcPc
    <3> QED
      BY <1>1, <2>1, <3>1 DEF GcRecord
  <2>3. /\ gc'.pc = "row" /\ gc'.batch = gc.batch /\ gc'.dry = gc.dry /\ gc'.queue = gc.queue
        /\ gc'.now = gc.now
    BY <1>1, <2>1 DEF GcRecord
  <2> QED
    BY <2>1, <2>2, <2>3 DEF GcType, GcOk, EvictPc, QuotaPc
<1>5. ASSUME NEW h \in Hash, CleanupRow(h) PROVE GcOk(gc') /\ gc'.now <= now
  <2>1. PICK pc \in {"cleanup", "unlink"} :
          /\ pc = IF gc.batch = {h} THEN "cleanup" ELSE "unlink"
          /\ gc' = [gc EXCEPT !.pc = pc, !.batch = gc.batch \ {h}, !.current = {}]
    BY <1>5 DEF CleanupRow
  <2>2. gc.pc = "row"
    BY <1>5 DEF CleanupRow
  <2>3. gc' \in GcRecord
    <3>1. pc \in GcPc /\ gc.batch \ {h} \in SUBSET Hash /\ {} \in SUBSET Hash
      BY <1>1 DEF GcPc, GcRecord
    <3> QED
      BY <1>1, <2>1, <3>1 DEF GcRecord
  <2>4. /\ gc'.pc = pc /\ gc'.batch = gc.batch \ {h} /\ gc'.dry = gc.dry /\ gc'.queue = gc.queue
        /\ gc'.now = gc.now
    BY <1>1, <2>1 DEF GcRecord
  <2>5. gc.batch # {} /\ ~gc.dry /\ gc.queue = {}
    BY <2>2 DEF GcType, GcOk, EvictPc
  <2>6. pc = "unlink" => gc.batch \ {h} # {}
    BY <2>1, <2>5
  <2> QED
    BY <2>3, <2>4, <2>5, <2>6 DEF GcType, GcOk, EvictPc, QuotaPc
<1> QED
  BY <1>3, <1>4, <1>5

(* Where the scan goes on, or that it ends. *)
LEMMA ScanGotoIs ==
    ASSUME GcType, NEW batch \in SUBSET Hash, NEW missing \in SUBSET Hash, NEW kept \in SUBSET Hash,
           ScanGoto(batch, missing, kept)
    PROVE  \/ batch = {} /\ missing = {} /\ End("scanned", kept)
           \/ /\ batch # {} \/ missing # {}
              /\ gc' \in GcRecord
              /\ gc'.pc = IF batch # {} THEN "scan_unlink" ELSE "scan_purge"
              /\ gc'.batch = batch /\ gc'.missing = missing /\ gc'.kept = kept
              /\ gc'.dry = gc.dry /\ gc'.queue = gc.queue /\ gc'.now = gc.now
<1>1. gc \in GcRecord
  BY DEF GcType, GcOk
<1>2. CASE batch = {} /\ missing = {}
  BY <1>2 DEF ScanGoto, ScanPc
<1>3. CASE batch # {} \/ missing # {}
  <2>1. PICK pc \in {"scan_unlink", "scan_purge"} :
          /\ pc = IF batch # {} THEN "scan_unlink" ELSE "scan_purge"
          /\ gc' = [gc EXCEPT !.pc = pc, !.batch = batch, !.missing = missing, !.kept = kept]
    BY <1>3 DEF ScanGoto, ScanPc
  <2>2. pc \in GcPc
    BY DEF GcPc
  <2> QED
    BY <1>1, <1>3, <2>1, <2>2 DEF GcRecord
<1> QED
  BY <1>2, <1>3

(* orphan_scan *)
LEMMA ScanOk ==
    ASSUME DbTypeOK, GcType,
           \/ ScanRows
           \/ \E h \in Hash : ScanVisit(h) \/ ScanUnlink(h) \/ ScanUnlinkFails(h) \/ ScanPurge(h)
    PROVE  GcOk(gc') /\ gc'.now <= now
<1>1. gc \in GcRecord
  BY DEF GcType, GcOk
<1>2. ASSUME NEW batch \in SUBSET Hash, NEW missing \in SUBSET Hash, NEW kept \in SUBSET Hash,
             ScanGoto(batch, missing, kept), ~gc.dry, gc.queue = {}
      PROVE  GcOk(gc') /\ gc'.now <= now
  <2>1. CASE End("scanned", kept)
    BY <2>1, FinishOk
  <2>2. CASE ~End("scanned", kept)
    <3>1. /\ gc' \in GcRecord /\ gc'.pc \in {"scan_unlink", "scan_purge"}
          /\ gc'.dry = gc.dry /\ gc'.queue = gc.queue /\ gc'.now = gc.now
      BY <1>2, <2>2, ScanGotoIs
    <3> QED
      BY <1>2, <3>1 DEF GcType, GcOk, EvictPc, QuotaPc
  <2> QED
    BY <2>1, <2>2
<1>3. CASE ScanRows
  <2>1. CASE gc.dry
    BY <1>3, <2>1, FinishOk DEF ScanRows
  <2>2. CASE ~gc.dry
    <3>1. /\ gc.batch \ blobs \in SUBSET Hash /\ blobs \ gc.batch \in SUBSET Hash
          /\ gc.kept \in SUBSET Hash
      BY <1>1 DEF GcRecord, DbTypeOK
    <3>2. gc.queue = {}
      BY <1>3 DEF ScanRows, GcType, GcOk, EvictPc
    <3> QED
      BY <1>2, <1>3, <2>2, <3>1, <3>2 DEF ScanRows
  <2> QED
    BY <2>1, <2>2
<1>4. ASSUME NEW h \in Hash, ScanVisit(h) PROVE GcOk(gc') /\ gc'.now <= now
  <2>1. PICK pc \in {"scan_rows", "walk"} :
          gc' = [gc EXCEPT !.unseen = gc.unseen \ {h}, !.batch = gc.batch \cup ({h} \cap disk), !.pc = pc]
    BY <1>4 DEF ScanVisit
  <2>2. pc \in GcPc /\ gc.unseen \ {h} \in SUBSET Hash /\ gc.batch \cup ({h} \cap disk) \in SUBSET Hash
    BY <1>1 DEF GcPc, GcRecord
  <2>3. gc' \in GcRecord
    BY <1>1, <2>1, <2>2 DEF GcRecord
  <2>4. gc'.pc = pc /\ gc'.queue = gc.queue /\ gc'.now = gc.now
    BY <1>1, <2>1 DEF GcRecord
  <2>5. gc.queue = {}
    BY <1>4 DEF ScanVisit, GcType, GcOk, EvictPc
  <2> QED
    BY <2>3, <2>4, <2>5 DEF GcType, GcOk, EvictPc, QuotaPc
<1>5. ASSUME NEW h \in Hash, ScanUnlink(h) \/ ScanUnlinkFails(h) \/ ScanPurge(h)
      PROVE  GcOk(gc') /\ gc'.now <= now
  <2>1. gc.pc \in {"scan_unlink", "scan_purge"}
    BY <1>5 DEF ScanUnlink, ScanUnlinkFails, ScanPurge
  <2>2. ~gc.dry /\ gc.queue = {}
    BY <2>1 DEF GcType, GcOk, EvictPc
  <2>3. /\ gc.batch \ {h} \in SUBSET Hash /\ gc.missing \in SUBSET Hash
        /\ gc.missing \ {h} \in SUBSET Hash /\ {} \in SUBSET Hash
        /\ gc.kept \in SUBSET Hash /\ gc.kept \cup {h} \in SUBSET Hash
    BY <1>1 DEF GcRecord
  <2>4. \/ ScanGoto(gc.batch \ {h}, gc.missing, gc.kept)
        \/ ScanGoto(gc.batch \ {h}, gc.missing, gc.kept \cup {h})
        \/ ScanGoto({}, gc.missing \ {h}, gc.kept)
    BY <1>5 DEF ScanUnlink, ScanUnlinkFails, ScanPurge
  <2> QED
    BY <1>2, <2>2, <2>3, <2>4
<1> QED
  BY <1>3, <1>4, <1>5

(* Every step of the collector keeps the type of its record. *)
LEMMA GcActionType ==
    ASSUME DbTypeOK, GcType, GcAction
    PROVE  GcType'
<1>1. now' = now
  BY DEF GcAction, SweepStart, ScanStart, SweepStep, TtlSelect, QuotaProjects, QuotaUsage,
         QuotaSelect, GlobalUsage, GlobalSelect, Evict, Delete, EvictDry, CleanupSelect,
         CleanupUnlink, CleanupRow, DeleteBlobRow, SweepDisturbed, EvictNotFound,
         CleanupRowRefused, ScanStep, ScanRows, ScanVisit, ScanUnlink, ScanPurge, PurgeBlob,
         UnlinkFailure, CleanupUnlinkFails, ScanUnlinkFails, GcAbort, GcCancelUnlink, dbVars
<1>2. GcOk(gc') /\ gc'.now <= now
  <2>1. ASSUME NEW dry \in BOOLEAN, SweepStart(dry) \/ ScanStart(dry)
        PROVE  GcOk(gc') /\ gc'.now <= now
    <3>1. now \in Time /\ 0 \in Time /\ 0 <= now /\ now <= now
      BY BoundsAssumption DEF DbTypeOK, Time
    <3>2. \/ gc' = [GcIdle EXCEPT !.pc = "ttl", !.dry = dry, !.now = now]
          \/ gc' = [GcIdle EXCEPT !.pc = "walk", !.dry = dry, !.unseen = Hash]
      BY <2>1 DEF SweepStart, ScanStart
    <3>3. gc' \in GcRecord
      <4>1. "ttl" \in GcPc /\ "walk" \in GcPc /\ Hash \in SUBSET Hash /\ GcIdle \in GcRecord
        BY IdleOk DEF GcPc
      <4>2. CASE gc' = [GcIdle EXCEPT !.pc = "ttl", !.dry = dry, !.now = now]
        BY <3>1, <4>1, <4>2 DEF GcRecord
      <4>3. CASE gc' = [GcIdle EXCEPT !.pc = "walk", !.dry = dry, !.unseen = Hash]
        BY <4>1, <4>3 DEF GcRecord
      <4> QED
        BY <3>2, <4>2, <4>3
    <3>4. gc'.pc \in {"ttl", "walk"} /\ gc'.queue = {} /\ gc'.now \in {0, now}
      BY <3>2 DEF GcIdle
    <3> QED
      BY <3>1, <3>3, <3>4 DEF GcOk, EvictPc, QuotaPc
  <2>2. CASE SweepStep
    <3>1. CASE Evict \/ EvictDry
      <4>1. PICK c \in NextCandidates : gc' = Evicted(c)
        BY <3>1 DEF Evict, EvictDry
      <4>2. Evicting
        BY <3>1 DEF Evict, EvictDry
      <4> QED
        BY <4>1, <4>2, CandidatesQueued, EvictedOk DEF GcType
    <3> QED
      BY <2>2, <3>1, SelectsOk, UsageOk, CleanupOk DEF SweepStep
  <2>3. CASE SweepDisturbed \/ GcAbort
    BY <2>3, FinishOk DEF SweepDisturbed, EvictNotFound, CleanupRowRefused, GcAbort
  <2>4. CASE ScanStep
    BY <2>4, ScanOk DEF ScanStep
  <2>5. CASE UnlinkFailure
    BY <2>5, ScanOk, CleanupOk DEF UnlinkFailure
  <2>6. ASSUME NEW h \in Hash, GcCancelUnlink(h)
        PROVE  GcOk(gc') /\ gc'.now <= now
    BY <2>6, FinishOk DEF GcCancelUnlink
  <2> QED
    BY <2>1, <2>2, <2>3, <2>4, <2>5, <2>6 DEF GcAction
<1> QED
  BY <1>1, <1>2 DEF GcType

(* What the collector does to the tables is what the repository methods do,  *)
(* and what it does to the files is delete_blob.                             *)
LEMMA GcUsesMethods ==
    ASSUME DbTypeOK, GcType, GcAction
    PROVE  [DbNext]_dbVars /\ [StoreNext]_storeVars
<1>1. CASE UNCHANGED <<dbVars, storeVars>>
  BY <1>1
<1>2. CASE Evict
  <2>1. PICK c \in gc.queue : Delete(c.project_id, c.id)
    BY <1>2, CandidatesQueued DEF Evict
  <2>2. c.project_id \in ProjectId /\ c.id \in EntryId
    BY DEF GcType, GcOk, GcRecord, Candidate
  <2> QED
    BY <1>2, <2>1, <2>2 DEF Evict, DbNext
<1>3. ASSUME NEW h \in Hash, CleanupUnlink(h) \/ ScanUnlink(h) \/ GcCancelUnlink(h)
      PROVE  [DbNext]_dbVars /\ [StoreNext]_storeVars
  BY <1>3 DEF CleanupUnlink, ScanUnlink, GcCancelUnlink, StoreNext
<1>4. ASSUME NEW h \in Hash, CleanupRow(h) \/ ScanPurge(h)
      PROVE  [DbNext]_dbVars /\ [StoreNext]_storeVars
  BY <1>4 DEF CleanupRow, ScanPurge, DbNext
<1>5. \/ UNCHANGED <<dbVars, storeVars>> \/ Evict
      \/ \E h \in Hash : \/ CleanupUnlink(h) \/ ScanUnlink(h) \/ GcCancelUnlink(h)
                         \/ CleanupRow(h) \/ ScanPurge(h)
  BY DEF GcAction, SweepStart, ScanStart, SweepStep, TtlSelect, QuotaProjects, QuotaUsage,
         QuotaSelect, GlobalUsage, GlobalSelect, EvictDry, CleanupSelect, SweepDisturbed,
         EvictNotFound, CleanupRowRefused, ScanStep, ScanRows, ScanVisit,
         UnlinkFailure, CleanupUnlinkFails, ScanUnlinkFails, GcAbort
<1> QED
  BY <1>1, <1>2, <1>3, <1>4, <1>5

-----------------------------------------------------------------------------
(* A pass that nobody disturbs *)

TtlPc == {"ttl", "ttl_evict"}

LaterPc == {"global", "global_select", "global_evict", "cleanup", "unlink", "row"}

SweepPc == TtlPc \cup {"projects"} \cup QuotaPc \cup LaterPc

(* The candidate lists are not stale. *)
Queued(g) == \A c \in g.queue : c.id \in Unpinned /\ c = Row(c.id)

(* No unpinned entry of kind k has outlived its TTL. *)
TtlDone(k) == \A i \in Unpinned : KindOf[entries[i].key] = k => ~Expired(i, now)

(* How far ttl_phase has come. *)
TtlKnows(g) ==
    /\ g.pc \in TtlPc /\ g.kind = "downloads" => TtlDone("sstate")
    /\ g.pc = "ttl_evict" =>
          \A i \in Unpinned : KindOf[entries[i].key] = g.kind /\ Expired(i, now) => Row(i) \in g.queue
    /\ g.pc \in SweepPc \ TtlPc => WithinTtl

(* The projects with a quota. *)
Limited ==
    {[id |-> p, quota |-> projects[p].quota_bytes] :
        p \in {r \in LiveProjects : projects[r].quota_bytes # NULL}}

WithinLimit(p) ==
    \/ projects[p].quota_bytes = NULL
    \/ ProjectUsage(p) <= projects[p].quota_bytes
    \/ Unpinned \cap EntriesOf(p) = {}

(* How far quota_phase has come: the projects that are not left to do are    *)
(* within their limits, and the usage it keeps is the project's.             *)
QuotaKnows(g) ==
    /\ g.pc \in QuotaPc =>
          /\ g.todo \subseteq Limited
          /\ \A p \in LiveProjects : (\A q \in g.todo : q.id # p) => WithinLimit(p)
    /\ g.pc \in {"quota_select", "quota_evict"} => g.usage = ProjectUsage(Current(g).id)
    /\ g.pc = "quota_evict" =>
          /\ g.usage > Current(g).quota
          /\ \A i \in Unpinned \cap EntriesOf(Current(g).id) : Row(i) \in g.queue
          /\ \A c \in g.queue : c.project_id = Current(g).id
    /\ g.pc \in LaterPc => WithinQuota

SweepKnows(g) ==
    /\ g.pc \in SweepPc => g.now = now
    /\ Queued(g)
    /\ ~g.dry => TtlKnows(g) /\ QuotaKnows(g)

(* cleanup_blobs is at a row whose file is gone or could not be unlinked; a  *)
(* scan that has seen all but g.unseen knows the files, then what is left to *)
(* unlink, apart from what it has failed to, and to purge.                   *)
FilesKnown(g) ==
    /\ g.pc = "row" => g.current \cap disk \subseteq g.kept
    /\ g.pc = "walk" => g.batch = disk \ g.unseen
    /\ g.pc = "scan_rows" => g.batch = disk
    /\ g.pc \in {"scan_unlink", "scan_purge"} =>
          /\ g.batch \subseteq disk \ blobs /\ (disk \ blobs) \ g.batch \subseteq g.kept
          /\ g.missing = blobs \ disk
    /\ g.pc = "scan_purge" => g.batch = {}

(* What the last pass left. *)
Reported(g) ==
    g.pc = "idle" /\ ~g.dry =>
        /\ g.result = "swept" => WithinTtl /\ WithinQuota /\ ZeroRefcount = {}
        /\ g.result = "scanned" => blobs \subseteq disk /\ disk \ blobs \subseteq g.kept

(* The inductive invariant of the collector alone. *)
AloneInv ==
    /\ DbInv /\ disk \subseteq Hash
    /\ GcType
    /\ SweepKnows(gc) /\ FilesKnown(gc) /\ Reported(gc)

-----------------------------------------------------------------------------
(* An eviction takes one entry and makes nothing older, larger or pinned.    *)
LEMMA DeletedOne ==
    ASSUME DbTypeOK, NEW p \in ProjectId, NEW i \in EntryId, Delete(p, i)
    PROVE  /\ LiveEntries' = LiveEntries \ {i} /\ i \in LiveEntries
           /\ Unpinned' = Unpinned \ {i}
           /\ \A q : EntriesOf(q)' = EntriesOf(q) \ {i}
           /\ \A j \in LiveEntries \ {i} : entries'[j] = entries[j]
           /\ projects' = projects /\ now' = now /\ blobs' = blobs
<1>1. /\ i \in LiveEntries /\ entries' = [entries EXCEPT ![i] = NULL]
      /\ projects' = projects /\ now' = now /\ blobs' = blobs
  BY DEF Delete, EntriesOf
<1>2. entries \in [EntryId -> EntryRow \cup {NULL}]
  BY DEF DbTypeOK
<1>3. LiveEntries' = LiveEntries \ {i}
  BY <1>1, <1>2 DEF LiveEntries
<1>4. \A j \in LiveEntries \ {i} : entries'[j] = entries[j]
  BY <1>1, <1>2 DEF LiveEntries
<1> QED
  BY <1>1, <1>3, <1>4 DEF Unpinned, EntriesOf

(* Deleting an entry leaves the row and the expiry of every other as they were. *)
LEMMA DeletedRows ==
    ASSUME DbTypeOK, NEW p \in ProjectId, NEW i \in EntryId, Delete(p, i),
           NEW j \in LiveEntries, j # i
    PROVE  /\ Row(j)' = Row(j)
           /\ KindOf[entries'[j].key] = KindOf[entries[j].key]
           /\ \A t : Expired(j, t)' = Expired(j, t)
<1>1. entries'[j] = entries[j] /\ projects' = projects
  BY DeletedOne
<1> QED
  BY <1>1 DEF Row, Expired

(* Deleting an entry lowers its project's usage by its size and raises no project's usage. *)
LEMMA DeletedUsage ==
    ASSUME DbTypeOK, NEW p \in ProjectId, NEW i \in EntryId, Delete(p, i), NEW q
    PROVE  /\ ProjectUsage(q)' <= ProjectUsage(q) /\ ProjectUsage(q)' \in Nat
           /\ i \in EntriesOf(q) => ProjectUsage(q)' = ProjectUsage(q) - Row(i).size
<1> DEFINE f == [j \in LiveEntries |-> Size[entries[j].blob_hash]]
           S == EntriesOf(q)
<1>1. IsFiniteSet(S) /\ ProjectUsage(q) = SumOf(f, S) /\ ProjectUsage(q) \in Nat
  BY UsageType DEF ProjectUsage
<1>2. \A j \in S : f[j] \in Nat
  BY SizeAssumption DEF EntriesOf, LiveEntries, DbTypeOK, EntryRow
<1>3. S' = S \ {i}
  BY DeletedOne
<1>4. \A j \in S \ {i} : f'[j] = f[j]
  BY DeletedOne DEF EntriesOf
<1>5. PICK ff : ff = f'
  OBVIOUS
<1>6. ProjectUsage(q)' = SumOf(ff, S \ {i})
  BY <1>3, <1>5 DEF ProjectUsage
<1>7. \A j \in S \ {i} : ff[j] = f[j]
  BY <1>4, <1>5
<1>8. i \in S => f[i] = Row(i).size
  BY DEF EntriesOf, Row
<1> HIDE DEF f, S
<1>9. SumOf(ff, S \ {i}) = SumOf(f, S \ {i})
  BY <1>7, SumOfSame
<1>10. SumOf(f, S \ {i}) <= SumOf(f, S) /\ SumOf(f, S \ {i}) \in Nat
  <2>1. IsFiniteSet(S \ {i}) /\ S \ {i} \in SUBSET S
    BY <1>1, FS_RemoveElement
  <2> QED
    BY <1>1, <1>2, <2>1, SumOfFewer, BytesFinite
<1>11. i \in S => SumOf(f, S \ {i}) = SumOf(f, S) - f[i]
  BY <1>1, <1>2, SumWithout
<1>12. i \in S => ProjectUsage(q)' = ProjectUsage(q) - Row(i).size
  BY <1>1, <1>6, <1>8, <1>9, <1>11
<1> QED
  BY <1>1, <1>6, <1>9, <1>10, <1>12 DEF S

(* What a sweep has enforced stays enforced. *)
LEMMA DeletedKeeps ==
    ASSUME DbTypeOK, NEW p \in ProjectId, NEW i \in EntryId, Delete(p, i)
    PROVE  /\ \A k : TtlDone(k) => TtlDone(k)'
           /\ WithinTtl => WithinTtl'
           /\ \A q \in LiveProjects : WithinLimit(q) => WithinLimit(q)'
           /\ WithinQuota => WithinQuota'
           /\ Limited' = Limited /\ LiveProjects' = LiveProjects
<1>1. Unpinned \subseteq LiveEntries
  BY DEF Unpinned
<1>2. Unpinned' = Unpinned \ {i} /\ now' = now /\ projects' = projects
  BY DeletedOne
<1>3. \A j \in Unpinned \ {i} : /\ KindOf[entries'[j].key] = KindOf[entries[j].key]
                               /\ \A t : Expired(j, t)' = Expired(j, t)
  BY <1>1, DeletedRows
<1>4. ASSUME NEW k, TtlDone(k) PROVE TtlDone(k)'
  BY <1>2, <1>3, <1>4 DEF TtlDone
<1>5. WithinTtl => WithinTtl'
  BY <1>2, <1>3 DEF WithinTtl
<1>6. ASSUME NEW q \in LiveProjects, WithinLimit(q) PROVE WithinLimit(q)'
  <2>1. ProjectUsage(q)' <= ProjectUsage(q) /\ ProjectUsage(q)' \in Nat /\ ProjectUsage(q) \in Nat
    BY DeletedUsage, UsageType
  <2>2. EntriesOf(q)' \subseteq EntriesOf(q)
    BY DeletedOne
  <2>3. projects[q].quota_bytes \in Int \/ projects[q].quota_bytes = NULL
    BY ColumnAssumption DEF LiveProjects, DbTypeOK, ProjectRow
  <2> QED
    BY <1>2, <1>6, <2>1, <2>2, <2>3 DEF WithinLimit
<1>7. LiveProjects' = LiveProjects
  BY <1>2 DEF LiveProjects
<1>8. WithinQuota => WithinQuota'
  BY <1>6, <1>7 DEF WithinQuota, WithinLimit
<1>9. Limited' = Limited
  BY <1>2, <1>7 DEF Limited
<1> QED
  BY <1>4, <1>5, <1>6, <1>7, <1>8, <1>9

-----------------------------------------------------------------------------
(* What a phase needs to know when its queue is known or has shrunk. *)

PreTtl(g) ==
    /\ g.now = now /\ Queued(g)
    /\ ~g.dry =>
          /\ g.kind = "downloads" => TtlDone("sstate")
          /\ \A i \in Unpinned : KindOf[entries[i].key] = g.kind /\ Expired(i, now) => Row(i) \in g.queue

PreNext(g) ==
    /\ g.todo # {} /\ g.now = now
    /\ ~g.dry =>
          /\ WithinTtl
          /\ g.todo \subseteq Limited
          /\ \A p \in LiveProjects : (\A q \in g.todo : q.id # p) => WithinLimit(p)

PreQuota(g) ==
    /\ PreNext(g) /\ Queued(g)
    /\ ~g.dry =>
          /\ g.usage = ProjectUsage(Current(g).id)
          /\ \A i \in Unpinned \cap EntriesOf(Current(g).id) : Row(i) \in g.queue
          /\ \A c \in g.queue : c.project_id = Current(g).id

PreGlobal(g) ==
    /\ g.now = now /\ Queued(g)
    /\ ~g.dry => WithinTtl /\ WithinQuota

(* Every unpinned entry is of a kind ttl_phase sweeps. *)
LEMMA KeysHaveKinds ==
    ASSUME DbTypeOK', NEW i \in Unpinned' PROVE KindOf[entries'[i].key] \in Kind
<1>1. entries'[i] \in EntryRow
  BY DEF Unpinned, LiveEntries, DbTypeOK
<1> QED
  BY <1>1, GcAssumption DEF EntryRow

(* With what ttl_phase has established, it moves on only when its kind is done. *)
LEMMA AfterTtlFits ==
    ASSUME DbTypeOK', NEW g \in GcRecord, PreTtl(g)'
    PROVE  SweepKnows(AfterTtl(g))' /\ AfterTtl(g).pc \in {"ttl", "ttl_evict", "projects"}
<1>1. CASE g.queue # {}
  <2>1. PICK n : n = AfterTtl(g)
    OBVIOUS
  <2>2. /\ n.pc = "ttl_evict" /\ n.queue = g.queue /\ n.now = g.now /\ n.kind = g.kind
        /\ n.dry = g.dry
    BY <1>1, <2>1 DEF AfterTtl, GcRecord
  <2>3. SweepKnows(n)'
    BY <2>2 DEF SweepKnows, PreTtl, Queued, TtlKnows, QuotaKnows, TtlPc, SweepPc, QuotaPc, LaterPc
  <2> QED
    BY <2>1, <2>2, <2>3
<1>2. CASE g.queue = {} /\ g.kind = "sstate"
  <2>1. PICK n : n = AfterTtl(g)
    OBVIOUS
  <2>2. n.pc = "ttl" /\ n.queue = {} /\ n.now = g.now /\ n.kind = "downloads" /\ n.dry = g.dry
    BY <1>2, <2>1 DEF AfterTtl, GcRecord
  <2>3. ~g.dry => TtlDone("sstate")'
    BY <1>2 DEF PreTtl, TtlDone
  <2>4. SweepKnows(n)'
    BY <2>2, <2>3 DEF SweepKnows, PreTtl, Queued, TtlKnows, QuotaKnows, TtlPc, SweepPc, QuotaPc, LaterPc
  <2> QED
    BY <2>1, <2>2, <2>4
<1>3. CASE g.queue = {} /\ g.kind = "downloads"
  <2>1. PICK n : n = AfterTtl(g)
    OBVIOUS
  <2>2. n.pc = "projects" /\ n.queue = {} /\ n.now = g.now /\ n.dry = g.dry
    BY <1>3, <2>1 DEF AfterTtl, GcRecord
  <2>3. ~g.dry => TtlDone("sstate")' /\ TtlDone("downloads")'
    BY <1>3 DEF PreTtl, TtlDone
  <2>4. ~g.dry => WithinTtl'
    BY <2>3, KeysHaveKinds DEF WithinTtl, TtlDone, Kind
  <2>5. SweepKnows(n)'
    BY <2>2, <2>4 DEF SweepKnows, PreTtl, Queued, TtlKnows, QuotaKnows, TtlPc, SweepPc, QuotaPc, LaterPc
  <2> QED
    BY <2>1, <2>2, <2>5
<1> QED
  BY <1>1, <1>2, <1>3 DEF GcRecord, Kind

(* The quota loop goes on when the project it is at is within its limit. *)
LEMMA NextProjectFits ==
    ASSUME DbTypeOK', NEW g \in GcRecord, PreNext(g)', ~g.dry => WithinLimit(Current(g).id)'
    PROVE  SweepKnows(NextProject(g))' /\ NextProject(g).pc \in {"quota", "global"}
<1>1. PICK c \in g.todo : c = Current(g)
  BY CurrentIsFirst DEF PreNext, GcRecord
<1>2. PICK n : n = NextProject(g)
  OBVIOUS
<1>3. /\ n.todo = g.todo \ {c} /\ n.queue = {} /\ n.now = g.now /\ n.dry = g.dry
      /\ n.pc = IF g.todo = {c} THEN "global" ELSE "quota"
  BY <1>1, <1>2 DEF NextProject, GcRecord
<1>4. ASSUME ~g.dry, NEW p \in LiveProjects', \A q \in n.todo : q.id # p PROVE WithinLimit(p)'
  <2>1. CASE p = c.id
    BY <1>1, <1>4, <2>1
  <2>2. CASE p # c.id
    <3>1. \A q \in g.todo : q.id # p
      BY <1>3, <1>4, <2>2
    <3> QED
      BY <1>4, <3>1 DEF PreNext
  <2> QED
    BY <2>1, <2>2
<1>5. n.pc = "global" /\ ~g.dry => WithinQuota'
  <2>1. n.pc = "global" => n.todo = {}
    BY <1>3
  <2> QED
    BY <1>4, <2>1 DEF WithinQuota, WithinLimit
<1>6. ~g.dry => n.todo \subseteq Limited' /\ WithinTtl'
  BY <1>3 DEF PreNext
<1>7. n.now = now' /\ n.pc \in {"quota", "global"} /\ Queued(n)'
  BY <1>3 DEF PreNext, Queued
<1>8. ~n.dry => TtlKnows(n)' /\ QuotaKnows(n)'
  BY <1>3, <1>4, <1>5, <1>6, <1>7 DEF TtlKnows, QuotaKnows, TtlPc, SweepPc, QuotaPc, LaterPc
<1> QED
  BY <1>2, <1>7, <1>8 DEF SweepKnows

(* With what quota_phase has established, it leaves a project only when that fits its quota. *)
LEMMA AfterQuotaFits ==
    ASSUME DbTypeOK', NEW g \in GcRecord, PreQuota(g)'
    PROVE  SweepKnows(AfterQuota(g))' /\ AfterQuota(g).pc \in {"quota", "global", "quota_evict"}
<1>1. PICK c \in g.todo : c = Current(g)
  BY CurrentIsFirst DEF PreQuota, PreNext, GcRecord
<1>2. c.quota \in Int /\ g.usage \in Int
  BY ColumnAssumption DEF GcRecord, Limit
<1>3. CASE g.usage <= c.quota \/ g.queue = {}
  <2>1. ASSUME ~g.dry PROVE WithinLimit(c.id)'
    <3>1. c \in Limited'
      BY <2>1 DEF PreQuota, PreNext
    <3>2. c.quota = projects'[c.id].quota_bytes
      BY <3>1 DEF Limited
    <3> QED
      BY <1>1, <1>3, <2>1, <3>2 DEF PreQuota, WithinLimit
  <2>2. AfterQuota(g) = NextProject(g)
    BY <1>1, <1>3 DEF AfterQuota
  <2> QED
    BY <1>1, <2>1, <2>2, NextProjectFits DEF PreQuota
<1>4. CASE ~(g.usage <= c.quota \/ g.queue = {})
  <2>1. PICK n : n = AfterQuota(g)
    OBVIOUS
  <2>2. n = [g EXCEPT !.pc = "quota_evict"]
    BY <1>1, <1>4, <2>1 DEF AfterQuota
  <2>3. /\ n.pc = "quota_evict" /\ n.queue = g.queue /\ n.now = g.now /\ n.dry = g.dry
        /\ n.todo = g.todo /\ n.usage = g.usage
    BY <2>2 DEF GcRecord
  <2>4. Current(n) = c
    BY <1>1, <2>3 DEF Current
  <2>5. ~n.dry => TtlKnows(n)' /\ QuotaKnows(n)'
    BY <1>1, <1>2, <1>4, <2>3, <2>4
    DEF PreQuota, PreNext, TtlKnows, QuotaKnows, TtlPc, SweepPc, QuotaPc, LaterPc
  <2>6. n.now = now' /\ Queued(n)'
    BY <2>3 DEF PreQuota, PreNext, Queued
  <2> QED
    BY <2>1, <2>3, <2>5, <2>6 DEF SweepKnows
<1> QED
  BY <1>3, <1>4

(* With what global_phase has established, it moves on only when the store fits the global quota. *)
LEMMA AfterGlobalFits ==
    ASSUME NEW g \in GcRecord, PreGlobal(g)'
    PROVE  SweepKnows(AfterGlobal(g))' /\ AfterGlobal(g).pc \in {"cleanup", "global_evict"}
<1>1. PICK n : n = AfterGlobal(g)
  OBVIOUS
<1>2. /\ n.pc \in {"cleanup", "global_evict"} /\ n.queue \subseteq g.queue /\ n.now = g.now
      /\ n.dry = g.dry
  BY <1>1 DEF AfterGlobal, GcRecord
<1>3. n.now = now' /\ Queued(n)'
  BY <1>2 DEF PreGlobal, Queued
<1>4. ~n.dry => TtlKnows(n)' /\ QuotaKnows(n)'
  BY <1>2 DEF PreGlobal, TtlKnows, QuotaKnows, TtlPc, SweepPc, QuotaPc, LaterPc
<1> QED
  BY <1>1, <1>2, <1>3, <1>4 DEF SweepKnows

-----------------------------------------------------------------------------
(* A step that leaves the tables alone leaves what they say alone. *)
LEMMA SameTables ==
    ASSUME UNCHANGED dbVars
    PROVE  /\ Unpinned' = Unpinned /\ LiveEntries' = LiveEntries /\ LiveProjects' = LiveProjects
           /\ now' = now /\ projects' = projects /\ blobs' = blobs /\ entries' = entries
           /\ \A i : Row(i)' = Row(i) /\ \A t : Expired(i, t)' = Expired(i, t)
           /\ \A p : EntriesOf(p)' = EntriesOf(p) /\ ProjectUsage(p)' = ProjectUsage(p)
           /\ \A p : WithinLimit(p)' <=> WithinLimit(p)
           /\ \A k : TtlDone(k)' <=> TtlDone(k)
           /\ Limited' = Limited /\ ZeroRefcount' = ZeroRefcount
           /\ WithinTtl' <=> WithinTtl
           /\ WithinQuota' <=> WithinQuota
<1>1. now' = now /\ projects' = projects /\ blobs' = blobs /\ entries' = entries /\ refcount' = refcount
  BY DEF dbVars, tables
<1>2. LiveEntries' = LiveEntries /\ LiveProjects' = LiveProjects /\ ZeroRefcount' = ZeroRefcount
  BY <1>1 DEF LiveEntries, LiveProjects, ZeroRefcount
<1>3. Unpinned' = Unpinned
  BY <1>1, <1>2 DEF Unpinned
<1>4. ASSUME NEW i PROVE Row(i)' = Row(i) /\ \A t : Expired(i, t)' = Expired(i, t)
  BY <1>1 DEF Row, Expired
<1>5. ASSUME NEW p PROVE EntriesOf(p)' = EntriesOf(p)
  BY <1>1, <1>2 DEF EntriesOf
<1>6. ASSUME NEW p PROVE ProjectUsage(p)' = ProjectUsage(p)
  <2>1. [i \in LiveEntries |-> Size[entries[i].blob_hash]]'
           = [i \in LiveEntries |-> Size[entries[i].blob_hash]]
    BY <1>1, <1>2
  <2> QED
    BY <1>5, <2>1 DEF ProjectUsage
<1>7. ASSUME NEW p PROVE WithinLimit(p)' <=> WithinLimit(p)
  BY <1>1, <1>3, <1>5, <1>6 DEF WithinLimit
<1>8. ASSUME NEW k PROVE TtlDone(k)' <=> TtlDone(k)
  BY <1>1, <1>3, <1>4 DEF TtlDone
<1>9. Limited' = Limited
  BY <1>1, <1>2 DEF Limited
<1>10. WithinTtl' <=> WithinTtl
  BY <1>1, <1>3, <1>4 DEF WithinTtl
<1>11. WithinQuota' <=> WithinQuota
  BY <1>1, <1>2, <1>3, <1>5, <1>6 DEF WithinQuota
<1> QED
  BY <1>1, <1>2, <1>3, <1>4, <1>5, <1>6, <1>7, <1>8, <1>9, <1>10, <1>11

(* What a sweep knows is about the tables: while they stay it stays. *)
LEMMA SameKnowledge ==
    ASSUME UNCHANGED dbVars, NEW g
    PROVE  /\ SweepKnows(g)' <=> SweepKnows(g)
           /\ PreTtl(g)' <=> PreTtl(g)
           /\ PreNext(g)' <=> PreNext(g)
           /\ PreQuota(g)' <=> PreQuota(g)
           /\ PreGlobal(g)' <=> PreGlobal(g)
<1>1. Queued(g)' <=> Queued(g)
  BY SameTables DEF Queued
<1>2. PreTtl(g)' <=> PreTtl(g)
  BY <1>1, SameTables DEF PreTtl
<1>3. PreNext(g)' <=> PreNext(g)
  BY SameTables DEF PreNext
<1>4. PreQuota(g)' <=> PreQuota(g)
  BY <1>1, <1>3, SameTables DEF PreQuota
<1>5. PreGlobal(g)' <=> PreGlobal(g)
  BY <1>1, SameTables DEF PreGlobal
<1>6. TtlKnows(g)' <=> TtlKnows(g)
  BY SameTables DEF TtlKnows
<1>7. QuotaKnows(g)' <=> QuotaKnows(g)
  BY SameTables DEF QuotaKnows
<1>8. SweepKnows(g)' <=> SweepKnows(g)
  BY <1>1, <1>6, <1>7, SameTables DEF SweepKnows
<1> QED
  BY <1>2, <1>3, <1>4, <1>5, <1>8

(* A sweep says nothing of the files except at a row. *)
LEMMA SweepPcElsewhere ==
    ASSUME gc'.pc \in SweepPc \ {"row"} PROVE FilesKnown(gc)' /\ Reported(gc)'
  BY DEF SweepPc, TtlPc, QuotaPc, LaterPc, FilesKnown, Reported

(* Outside sweeps there is nothing to know of them. *)
LEMMA NoSweep ==
    ASSUME gc'.pc \notin SweepPc, gc'.queue = {} PROVE SweepKnows(gc)'
  BY DEF SweepKnows, Queued, TtlKnows, QuotaKnows, SweepPc, TtlPc, QuotaPc, LaterPc

Knowledge == SweepKnows(gc) /\ FilesKnown(gc) /\ Reported(gc)

(* A pass that starts claims nothing yet. *)
LEMMA StartKnows ==
    ASSUME AloneInv, NEW dry \in BOOLEAN, SweepStart(dry) \/ ScanStart(dry)
    PROVE  Knowledge'
<1>1. CASE SweepStart(dry)
  <2>1. gc'.pc = "ttl" /\ gc'.kind = "sstate" /\ gc'.queue = {} /\ gc'.now = now
    BY <1>1 DEF SweepStart, GcIdle
  <2>2. now' = now
    BY <1>1 DEF SweepStart, dbVars
  <2>3. FilesKnown(gc)' /\ Reported(gc)'
    BY <2>1, SweepPcElsewhere DEF SweepPc, TtlPc
  <2>4. SweepKnows(gc)'
    BY <2>1, <2>2 DEF SweepKnows, Queued, TtlKnows, QuotaKnows, SweepPc, TtlPc, QuotaPc, LaterPc
  <2> QED
    BY <2>3, <2>4 DEF Knowledge
<1>2. CASE ScanStart(dry)
  <2>1. gc'.pc = "walk" /\ gc'.queue = {} /\ gc'.batch = {} /\ gc'.unseen = Hash
    BY <1>2 DEF ScanStart, GcIdle
  <2>2. disk' = disk /\ disk \subseteq Hash
    BY <1>2 DEF ScanStart, storeVars, AloneInv
  <2>3. SweepKnows(gc)'
    BY <2>1, NoSweep DEF SweepPc, TtlPc, QuotaPc, LaterPc
  <2> QED
    BY <2>1, <2>2, <2>3 DEF Knowledge, FilesKnown, Reported
<1> QED
  BY <1>1, <1>2

(* A pass that fails claims nothing. *)
LEMMA AbortKnows == ASSUME AloneInv, GcAbort PROVE Knowledge'
<1>1. gc'.pc = "idle" /\ gc'.queue = {} /\ gc'.result = "failed"
  BY DEF GcAbort, Finish, End, GcIdle
<1>2. SweepKnows(gc)'
  BY <1>1, NoSweep DEF SweepPc, TtlPc, QuotaPc, LaterPc
<1> QED
  BY <1>1, <1>2 DEF Knowledge, FilesKnown, Reported

(* ttl_phase reads its candidates. *)
LEMMA TtlSelectKnows == ASSUME AloneInv, TtlSelect PROVE Knowledge'
<1> DEFINE S == {j \in Unpinned : KindOf[entries[j].key] = gc.kind /\ Expired(j, gc.now)}
<1>1. UNCHANGED dbVars /\ gc.pc = "ttl" /\ DbTypeOK /\ DbTypeOK'
  <2>1. UNCHANGED dbVars /\ gc.pc = "ttl" /\ DbTypeOK
    BY DEF TtlSelect, AloneInv, DbInv
  <2> QED
    BY <2>1, NextTypeOK
<1>2. S \in SUBSET LiveEntries
  BY DEF Unpinned
<1>3. PICK g \in GcRecord : g = [gc EXCEPT !.queue = {Row(i) : i \in S}]
  BY <1>1, <1>2, SelectOk DEF AloneInv
<1>4. gc' = AfterTtl(g)
  BY <1>3 DEF TtlSelect
<1>5. g.queue = {Row(i) : i \in S} /\ g.now = gc.now /\ g.kind = gc.kind /\ g.dry = gc.dry
  BY <1>3 DEF AloneInv, GcType, GcOk, GcRecord
<1>6. gc.now = now /\ (~gc.dry /\ gc.kind = "downloads" => TtlDone("sstate"))
  BY <1>1 DEF AloneInv, SweepKnows, TtlKnows, SweepPc, TtlPc
<1>7. Queued(g)
  BY <1>5 DEF Queued, Row
<1>8. PreTtl(g)
  BY <1>5, <1>6, <1>7 DEF PreTtl
<1>9. PreTtl(g)'
  BY <1>1, <1>8, SameKnowledge
<1>10. SweepKnows(gc)' /\ gc'.pc \in {"ttl", "ttl_evict", "projects"}
  BY <1>1, <1>4, <1>9, AfterTtlFits
<1> QED
  BY <1>10, SweepPcElsewhere DEF Knowledge, SweepPc, TtlPc

(* quota_phase lists the projects with a quota: the others have no limit. *)
LEMMA QuotaProjectsKnows == ASSUME AloneInv, QuotaProjects PROVE Knowledge'
<1>1. UNCHANGED dbVars /\ gc.pc = "projects" /\ gc \in GcRecord /\ gc.queue = {}
  BY DEF QuotaProjects, AloneInv, GcType, GcOk, EvictPc
<1>2. PICK pc \in {"global", "quota"} :
        /\ pc = IF Limited = {} THEN "global" ELSE "quota"
        /\ gc' = [gc EXCEPT !.pc = pc, !.todo = Limited]
  <2> DEFINE limited == {p \in LiveProjects : projects[p].quota_bytes # NULL}
  <2>1. Limited = {[id |-> p, quota |-> projects[p].quota_bytes] : p \in limited}
    BY DEF Limited
  <2>2. limited = {} <=> Limited = {}
    BY <2>1
  <2>3. gc' = [gc EXCEPT !.pc = IF limited = {} THEN "global" ELSE "quota", !.todo = Limited]
    BY <2>1 DEF QuotaProjects
  <2> QED
    BY <2>2, <2>3
<1>3. /\ gc'.pc = pc /\ gc'.todo = Limited /\ gc'.queue = {} /\ gc'.now = gc.now /\ gc'.dry = gc.dry
  BY <1>1, <1>2 DEF GcRecord
<1>4. \A p \in LiveProjects : (\A q \in Limited : q.id # p) => WithinLimit(p)
  <2>1. ASSUME NEW p \in LiveProjects, projects[p].quota_bytes # NULL
        PROVE  \E q \in Limited : q.id = p
    <3>1. [id |-> p, quota |-> projects[p].quota_bytes] \in Limited
      BY <2>1 DEF Limited
    <3> QED
      BY <3>1
  <2> QED
    BY <2>1 DEF WithinLimit
<1>5. pc = "global" => WithinQuota
  BY <1>2, <1>4 DEF WithinQuota, WithinLimit
<1>6. gc.now = now /\ (~gc.dry => WithinTtl)
  BY <1>1 DEF AloneInv, SweepKnows, TtlKnows, SweepPc, TtlPc
<1>7. ~gc.dry => TtlKnows(gc)' /\ QuotaKnows(gc)'
  <2>1. LiveProjects' = LiveProjects /\ Limited' = Limited /\ (WithinTtl' <=> WithinTtl)
        /\ (WithinQuota' <=> WithinQuota) /\ \A p : WithinLimit(p)' <=> WithinLimit(p)
    BY <1>1, SameTables
  <2> QED
    BY <1>3, <1>4, <1>5, <1>6, <2>1 DEF TtlKnows, QuotaKnows, SweepPc, TtlPc, QuotaPc, LaterPc
<1>8. SweepKnows(gc)'
  BY <1>1, <1>3, <1>6, <1>7, SameTables DEF SweepKnows, Queued
<1> QED
  BY <1>3, <1>8, SweepPcElsewhere DEF Knowledge, SweepPc, QuotaPc, LaterPc

(* What quota_phase knows between its queries. *)
LEMMA QuotaPhase ==
    ASSUME AloneInv, gc.pc \in QuotaPc
    PROVE  gc \in GcRecord /\ PreNext(gc) /\ DbTypeOK
<1>1. gc \in GcRecord /\ gc.todo # {} /\ DbTypeOK
  BY DEF AloneInv, DbInv, GcType, GcOk
<1> QED
  BY <1>1 DEF AloneInv, SweepKnows, TtlKnows, QuotaKnows, PreNext, SweepPc, TtlPc, QuotaPc

(* project_usage of the next project *)
LEMMA QuotaUsageKnows == ASSUME AloneInv, QuotaUsage PROVE Knowledge'
<1>1. UNCHANGED dbVars /\ gc.pc = "quota"
  BY DEF QuotaUsage
<1>2. gc \in GcRecord /\ PreNext(gc) /\ DbTypeOK' /\ gc.queue = {}
  <2>1. gc \in GcRecord /\ PreNext(gc) /\ DbTypeOK
    BY <1>1, QuotaPhase DEF QuotaPc
  <2>2. gc.queue = {}
    BY <1>1 DEF AloneInv, GcType, GcOk, EvictPc
  <2>3. DbTypeOK'
    BY <1>1, <2>1, NextTypeOK
  <2> QED
    BY <2>1, <2>2, <2>3
<1>3. PICK c \in gc.todo : c = Current(gc)
  BY <1>2, CurrentIsFirst DEF PreNext, GcRecord
<1>4. PICK g \in GcRecord : g = gc
  BY <1>2
<1>5. CASE ProjectUsage(c.id) <= c.quota
  <2>1. gc' = NextProject(g)
    BY <1>3, <1>4, <1>5 DEF QuotaUsage
  <2>2. ~g.dry => WithinLimit(c.id)
    <3>1. ~g.dry => c \in Limited
      BY <1>2, <1>4 DEF PreNext
    <3>2. c \in Limited => c.quota = projects[c.id].quota_bytes
      BY DEF Limited
    <3> QED
      BY <1>5, <3>1, <3>2 DEF WithinLimit
  <2>3. ~g.dry => WithinLimit(Current(g).id)'
    BY <1>1, <1>3, <1>4, <2>2, SameTables
  <2>4. PreNext(g)'
    <3>1. PreNext(g)
      BY <1>2, <1>4
    <3> QED
      BY <1>1, <3>1, SameKnowledge
  <2>5. SweepKnows(gc)' /\ gc'.pc \in {"quota", "global"}
    BY <1>2, <2>1, <2>3, <2>4, NextProjectFits
  <2> QED
    BY <2>5, SweepPcElsewhere DEF Knowledge, SweepPc, QuotaPc, LaterPc
<1>6. CASE ~(ProjectUsage(c.id) <= c.quota)
  <2>1. gc' = [gc EXCEPT !.pc = "quota_select", !.usage = ProjectUsage(c.id)]
    BY <1>3, <1>6 DEF QuotaUsage
  <2>2. /\ gc'.pc = "quota_select" /\ gc'.usage = ProjectUsage(c.id) /\ gc'.queue = {}
        /\ gc'.now = gc.now /\ gc'.dry = gc.dry /\ gc'.todo = gc.todo
    BY <1>2, <2>1 DEF GcRecord
  <2>3. Current(gc)' = c
    BY <1>3, <2>2 DEF Current
  <2>4. gc'.now = now' /\ Queued(gc)'
    BY <1>1, <1>2, <2>2, SameTables DEF PreNext, Queued
  <2>5. ProjectUsage(c.id)' = ProjectUsage(c.id)
    BY <1>1, SameTables
  <2>6. LiveProjects' = LiveProjects /\ Limited' = Limited /\ (WithinTtl' <=> WithinTtl)
        /\ \A p : WithinLimit(p)' <=> WithinLimit(p)
    BY <1>1, SameTables
  <2>7. ~gc'.dry => TtlKnows(gc)' /\ QuotaKnows(gc)'
    BY <1>2, <2>2, <2>3, <2>5, <2>6 DEF PreNext, TtlKnows, QuotaKnows, SweepPc, TtlPc, QuotaPc, LaterPc
  <2>8. SweepKnows(gc)'
    BY <2>4, <2>7 DEF SweepKnows
  <2> QED
    BY <2>2, <2>8, SweepPcElsewhere DEF Knowledge, SweepPc, QuotaPc
<1> QED
  BY <1>5, <1>6

(* quota_phase reads the project's unpinned entries. *)
LEMMA QuotaSelectKnows == ASSUME AloneInv, QuotaSelect PROVE Knowledge'
<1>1. UNCHANGED dbVars /\ gc.pc = "quota_select"
  BY DEF QuotaSelect
<1>2. gc \in GcRecord /\ PreNext(gc) /\ DbTypeOK /\ DbTypeOK'
  BY <1>1, QuotaPhase, NextTypeOK DEF QuotaPc
<1>3. PICK c \in gc.todo : c = Current(gc)
  BY <1>2, CurrentIsFirst DEF PreNext, GcRecord
<1> DEFINE S == Unpinned \cap EntriesOf(c.id)
<1>4. S \in SUBSET LiveEntries
  BY DEF Unpinned
<1>5. PICK g \in GcRecord : g = [gc EXCEPT !.queue = {Row(i) : i \in S}]
  BY <1>2, <1>4, SelectOk DEF AloneInv
<1>6. gc' = AfterQuota(g)
  BY <1>3, <1>5 DEF QuotaSelect
<1>7. /\ g.queue = {Row(i) : i \in S} /\ g.now = gc.now /\ g.dry = gc.dry /\ g.todo = gc.todo
      /\ g.usage = gc.usage
  BY <1>2, <1>5 DEF GcRecord
<1>8. Current(g) = c
  BY <1>3, <1>7 DEF Current
<1>9. ~gc.dry => gc.usage = ProjectUsage(c.id)
  BY <1>1, <1>3 DEF AloneInv, SweepKnows, QuotaKnows
<1>10. Queued(g) /\ \A r \in g.queue : r.project_id = c.id
  BY <1>7 DEF Queued, Row, EntriesOf
<1>11. PreNext(g)
  BY <1>2, <1>7 DEF PreNext
<1>12. PreQuota(g)
  BY <1>7, <1>8, <1>9, <1>10, <1>11 DEF PreQuota
<1>13. PreQuota(g)'
  BY <1>1, <1>12, SameKnowledge
<1>14. SweepKnows(gc)' /\ gc'.pc \in {"quota", "global", "quota_evict"}
  BY <1>2, <1>6, <1>13, AfterQuotaFits
<1> QED
  BY <1>14, SweepPcElsewhere DEF Knowledge, SweepPc, QuotaPc, LaterPc

(* global_phase reads the total and every unpinned entry. *)
LEMMA GlobalKnows == ASSUME AloneInv, GlobalUsage \/ GlobalSelect PROVE Knowledge'
<1>1. UNCHANGED dbVars /\ gc.pc \in {"global", "global_select"} /\ gc \in GcRecord /\ gc.queue = {}
  BY DEF GlobalUsage, GlobalSelect, AloneInv, GcType, GcOk, EvictPc
<1>2. gc.now = now /\ (~gc.dry => WithinTtl /\ WithinQuota)
  BY <1>1 DEF AloneInv, SweepKnows, TtlKnows, QuotaKnows, SweepPc, TtlPc, QuotaPc, LaterPc
<1>3. CASE GlobalUsage
  <2>1. /\ gc'.pc \in {"cleanup", "global_select"} /\ gc'.queue = {} /\ gc'.now = gc.now
        /\ gc'.dry = gc.dry
    BY <1>1, <1>3 DEF GlobalUsage, GcRecord
  <2>2. now' = now /\ (WithinTtl' <=> WithinTtl) /\ (WithinQuota' <=> WithinQuota)
    BY <1>1, SameTables
  <2>3. SweepKnows(gc)'
    BY <1>2, <2>1, <2>2
    DEF SweepKnows, Queued, TtlKnows, QuotaKnows, SweepPc, TtlPc, QuotaPc, LaterPc
  <2> QED
    BY <2>1, <2>3, SweepPcElsewhere DEF Knowledge, SweepPc, LaterPc
<1>4. CASE GlobalSelect
  <2>1. PICK g \in GcRecord : g = [gc EXCEPT !.queue = {Row(i) : i \in Unpinned}]
    BY SelectOk DEF AloneInv, DbInv, Unpinned
  <2>2. gc' = AfterGlobal(g)
    BY <1>4, <2>1 DEF GlobalSelect
  <2>3. g.queue = {Row(i) : i \in Unpinned} /\ g.now = gc.now /\ g.dry = gc.dry
    BY <1>1, <2>1 DEF GcRecord
  <2>4. Queued(g)
    BY <2>3 DEF Queued, Row
  <2>5. PreGlobal(g)
    BY <1>2, <2>3, <2>4 DEF PreGlobal
  <2>6. SweepKnows(gc)' /\ gc'.pc \in {"cleanup", "global_evict"}
    BY <1>1, <2>2, <2>5, SameKnowledge, AfterGlobalFits
  <2> QED
    BY <2>6, SweepPcElsewhere DEF Knowledge, SweepPc, LaterPc
<1> QED
  BY <1>3, <1>4

-----------------------------------------------------------------------------
(* An eviction loop goes on with the candidates that are left. *)
LEMMA EvictedFits ==
    ASSUME AloneInv, Evicting, NEW c \in gc.queue, gc' = Evicted(c), DbTypeOK',
           NEW g \in GcRecord,
           g = [gc EXCEPT !.queue = gc.queue \ {c},
                          !.usage = IF gc.pc = "ttl_evict" THEN gc.usage ELSE gc.usage - c.size],
           gc.pc = "ttl_evict" => PreTtl(g)',
           gc.pc = "quota_evict" => PreQuota(g)',
           gc.pc = "global_evict" => PreGlobal(g)'
    PROVE  Knowledge'
<1>1. g.pc = gc.pc
  BY DEF AloneInv, GcType, GcOk, GcRecord
<1>2. gc' = AfterEvict(g)
  BY DEF Evicted
<1>3. SweepKnows(gc)' /\ gc'.pc \in SweepPc \ {"row"}
  <2>1. CASE gc.pc = "ttl_evict"
    BY <1>1, <1>2, <2>1, AfterTtlFits DEF AfterEvict, SweepPc, TtlPc
  <2>2. CASE gc.pc = "quota_evict"
    BY <1>1, <1>2, <2>2, AfterQuotaFits DEF AfterEvict, SweepPc, QuotaPc, LaterPc
  <2>3. CASE gc.pc = "global_evict"
    BY <1>1, <1>2, <2>3, AfterGlobalFits DEF AfterEvict, SweepPc, LaterPc
  <2> QED
    BY <2>1, <2>2, <2>3 DEF Evicting
<1> QED
  BY <1>3, SweepPcElsewhere DEF Knowledge

(* What the loop holds once candidate c is handled. *)
LEMMA WithoutCandidate ==
    ASSUME AloneInv, NEW c \in gc.queue
    PROVE  \E g \in GcRecord :
              /\ g = [gc EXCEPT !.queue = gc.queue \ {c},
                                !.usage = IF gc.pc = "ttl_evict" THEN gc.usage ELSE gc.usage - c.size]
              /\ g.queue = gc.queue \ {c} /\ g.now = gc.now /\ g.dry = gc.dry /\ g.kind = gc.kind
              /\ g.todo = gc.todo /\ Current(g) = Current(gc)
              /\ g.usage = IF gc.pc = "ttl_evict" THEN gc.usage ELSE gc.usage - c.size
<1>1. gc \in GcRecord /\ c.size \in Int /\ gc.usage \in Int
  BY DEF AloneInv, GcType, GcOk, GcRecord, Candidate
<1>2. PICK usage \in Int : usage = IF gc.pc = "ttl_evict" THEN gc.usage ELSE gc.usage - c.size
  BY <1>1
<1>3. PICK g \in GcRecord : g = [gc EXCEPT !.queue = gc.queue \ {c}, !.usage = usage]
  BY <1>1 DEF GcRecord
<1>4. /\ g.queue = gc.queue \ {c} /\ g.now = gc.now /\ g.dry = gc.dry /\ g.kind = gc.kind
      /\ g.todo = gc.todo /\ g.usage = usage
  BY <1>1, <1>3 DEF GcRecord
<1>5. Current(g) = Current(gc)
  BY <1>4 DEF Current
<1> QED
  BY <1>2, <1>3, <1>4, <1>5

(* An eviction of a dry run leaves the tables alone. *)
LEMMA EvictDryKnows == ASSUME AloneInv, EvictDry PROVE Knowledge'
<1>1. PICK c \in gc.queue : gc' = Evicted(c)
  BY CandidatesQueued DEF EvictDry
<1>2. UNCHANGED dbVars /\ Evicting /\ gc.dry /\ DbTypeOK
  BY DEF EvictDry, AloneInv, DbInv
<1>3. DbTypeOK'
  BY <1>2, NextTypeOK
<1>4. PICK g \in GcRecord :
         /\ g = [gc EXCEPT !.queue = gc.queue \ {c},
                           !.usage = IF gc.pc = "ttl_evict" THEN gc.usage ELSE gc.usage - c.size]
         /\ g.queue = gc.queue \ {c} /\ g.now = gc.now /\ g.dry = gc.dry /\ g.todo = gc.todo
  BY WithoutCandidate
<1>5. gc.now = now /\ Queued(g)
  BY <1>2, <1>4 DEF AloneInv, SweepKnows, Queued, Evicting, SweepPc, TtlPc, QuotaPc, LaterPc
<1>6. gc.pc = "quota_evict" => gc.todo # {}
  BY DEF AloneInv, GcType, GcOk, QuotaPc
<1>7. PreTtl(g) /\ PreGlobal(g) /\ (gc.pc = "quota_evict" => PreQuota(g))
  BY <1>2, <1>4, <1>5, <1>6 DEF PreTtl, PreGlobal, PreQuota, PreNext
<1>8. PreTtl(g)' /\ PreGlobal(g)' /\ (gc.pc = "quota_evict" => PreQuota(g)')
  BY <1>2, <1>7, SameKnowledge
<1> QED
  BY <1>1, <1>2, <1>3, <1>4, <1>8, EvictedFits

(* An eviction takes the candidate and leaves the others as they were read. *)
LEMMA EvictedQueue ==
    ASSUME AloneInv, NEW c \in gc.queue, Delete(c.project_id, c.id), NEW g,
           g.queue = gc.queue \ {c}
    PROVE  /\ c.project_id \in ProjectId /\ c.id \in EntryId /\ c = Row(c.id)
           /\ Queued(g)'
           /\ \A j \in Unpinned' :
                 /\ j \in Unpinned /\ j # c.id /\ j \in LiveEntries
                 /\ Row(j) \in gc.queue => Row(j)' \in g.queue
<1>1. DbTypeOK /\ gc.queue \subseteq Candidate
  BY DEF AloneInv, DbInv, GcType, GcOk, GcRecord
<1>2. c.project_id \in ProjectId /\ c.id \in EntryId
  BY <1>1 DEF Candidate
<1>3. \A d \in gc.queue : d.id \in Unpinned /\ d = Row(d.id)
  BY DEF AloneInv, SweepKnows, Queued
<1>4. Unpinned' = Unpinned \ {c.id} /\ Unpinned \subseteq LiveEntries
  BY <1>1, <1>2, DeletedOne DEF Unpinned
<1>5. \A j \in Unpinned' : Row(j)' = Row(j)
  BY <1>1, <1>2, <1>4, DeletedRows
<1>6. \A d \in gc.queue \ {c} : d.id # c.id
  BY <1>3
<1>7. Queued(g)'
  BY <1>3, <1>4, <1>5, <1>6 DEF Queued
<1>8. \A j : Row(j).id = j
  BY DEF Row
<1> QED
  BY <1>2, <1>3, <1>4, <1>5, <1>7, <1>8

(* One eviction of any phase keeps what the sweep has established. *)
LEMMA EvictKnows == ASSUME AloneInv, Evict PROVE Knowledge'
<1>1. PICK c \in gc.queue : Delete(c.project_id, c.id) /\ gc' = Evicted(c)
  BY CandidatesQueued DEF Evict
<1>2. Evicting /\ ~gc.dry /\ DbTypeOK
  BY DEF Evict, AloneInv, DbInv
<1>3. PICK g \in GcRecord :
         /\ g = [gc EXCEPT !.queue = gc.queue \ {c},
                           !.usage = IF gc.pc = "ttl_evict" THEN gc.usage ELSE gc.usage - c.size]
         /\ g.queue = gc.queue \ {c} /\ g.now = gc.now /\ g.dry = gc.dry /\ g.kind = gc.kind
         /\ g.todo = gc.todo /\ Current(g) = Current(gc)
         /\ g.usage = IF gc.pc = "ttl_evict" THEN gc.usage ELSE gc.usage - c.size
  BY WithoutCandidate
<1>4. c.project_id \in ProjectId /\ c.id \in EntryId /\ c = Row(c.id) /\ Queued(g)'
  BY <1>1, <1>3, EvictedQueue
<1>5. \A j \in Unpinned' : /\ j \in Unpinned /\ j # c.id /\ j \in LiveEntries
                           /\ Row(j) \in gc.queue => Row(j)' \in g.queue
  BY <1>1, <1>3, EvictedQueue
<1>6. DbTypeOK'
  BY <1>1, <1>2, <1>4, NextTypeOK DEF DbNext
<1>7. gc.now = now /\ now' = now
  BY <1>1, <1>2, <1>4, DeletedOne
  DEF AloneInv, SweepKnows, Evicting, SweepPc, TtlPc, QuotaPc, LaterPc
<1>8. TtlKnows(gc) /\ QuotaKnows(gc)
  BY <1>2 DEF AloneInv, SweepKnows
<1>9. gc.pc = "ttl_evict" => PreTtl(g)'
  <2>1. \A j \in LiveEntries \ {c.id} :
           KindOf[entries'[j].key] = KindOf[entries[j].key] /\ Expired(j, now)' = Expired(j, now)
    <3>1. \A j \in LiveEntries \ {c.id} :
             KindOf[entries'[j].key] = KindOf[entries[j].key]
             /\ \A t : Expired(j, t)' = Expired(j, t)
      BY <1>1, <1>2, <1>4, DeletedRows
    <3> QED
      BY <1>7, <3>1
  <2>2. TtlDone("sstate") => TtlDone("sstate")'
    BY <1>1, <1>2, <1>4, DeletedKeeps
  <2> QED
    BY <1>3, <1>4, <1>5, <1>7, <1>8, <2>1, <2>2 DEF PreTtl, TtlKnows, TtlPc
<1>10. gc.pc = "global_evict" => PreGlobal(g)'
  <2>1. (WithinTtl => WithinTtl') /\ (WithinQuota => WithinQuota')
    BY <1>1, <1>2, <1>4, DeletedKeeps
  <2> QED
    BY <1>3, <1>4, <1>7, <1>8, <2>1
    DEF PreGlobal, TtlKnows, QuotaKnows, SweepPc, TtlPc, QuotaPc, LaterPc
<1>11. ASSUME gc.pc = "quota_evict" PROVE PreQuota(g)'
  <2>1. PICK q : q = Current(gc).id
    OBVIOUS
  <2>2. /\ gc.todo # {} /\ gc.todo \subseteq Limited /\ WithinTtl
        /\ \A p \in LiveProjects : (\A r \in gc.todo : r.id # p) => WithinLimit(p)
        /\ gc.usage = ProjectUsage(q)
        /\ \A i \in Unpinned \cap EntriesOf(q) : Row(i) \in gc.queue
        /\ \A d \in gc.queue : d.project_id = q
    BY <1>8, <1>11, <2>1
    DEF AloneInv, GcType, GcOk, TtlKnows, QuotaKnows, SweepPc, TtlPc, QuotaPc
  <2>3. /\ WithinTtl' /\ Limited' = Limited /\ LiveProjects' = LiveProjects
        /\ \A p \in LiveProjects : WithinLimit(p) => WithinLimit(p)'
    BY <1>1, <1>2, <1>4, <2>2, DeletedKeeps
  <2>4. PreNext(g)'
    BY <1>3, <1>7, <2>2, <2>3 DEF PreNext
  <2>5. c.project_id = q /\ c.id \in EntriesOf(q)
    BY <1>1, <2>2 DEF Delete
  <2>6. ProjectUsage(q)' = ProjectUsage(q) - c.size
    BY <1>1, <1>2, <1>4, <2>5, DeletedUsage
  <2>7. EntriesOf(q)' \subseteq EntriesOf(q)
    BY <1>1, <1>2, <1>4, DeletedOne
  <2>8. g.usage = ProjectUsage(q)' /\ \A i \in Unpinned' \cap EntriesOf(q)' : Row(i)' \in g.queue
    BY <1>3, <1>5, <1>11, <2>2, <2>6, <2>7
  <2> QED
    BY <1>3, <1>4, <2>1, <2>2, <2>4, <2>8 DEF PreQuota
<1> QED
  BY <1>1, <1>2, <1>3, <1>6, <1>9, <1>10, <1>11, EvictedFits

-----------------------------------------------------------------------------
(* A blob row is deleted: what the entries say stays. *)
LEMMA SameEntries ==
    ASSUME UNCHANGED <<now, projects, entries>>
    PROVE  /\ WithinTtl' <=> WithinTtl
           /\ WithinQuota' <=> WithinQuota
<1>1. now' = now /\ projects' = projects /\ entries' = entries
  OBVIOUS
<1>2. LiveEntries' = LiveEntries /\ LiveProjects' = LiveProjects
  BY <1>1 DEF LiveEntries, LiveProjects
<1>3. Unpinned' = Unpinned
  BY <1>1, <1>2 DEF Unpinned
<1>4. ASSUME NEW i, NEW t PROVE Expired(i, t)' = Expired(i, t)
  BY <1>1 DEF Expired
<1>5. ASSUME NEW p PROVE EntriesOf(p)' = EntriesOf(p)
  BY <1>1, <1>2 DEF EntriesOf
<1>6. ASSUME NEW p PROVE ProjectUsage(p)' = ProjectUsage(p)
  <2>1. [i \in LiveEntries |-> Size[entries[i].blob_hash]]'
           = [i \in LiveEntries |-> Size[entries[i].blob_hash]]
    BY <1>1, <1>2
  <2> QED
    BY <1>5, <2>1 DEF ProjectUsage
<1>7. WithinTtl' <=> WithinTtl
  BY <1>1, <1>3, <1>4 DEF WithinTtl
<1>8. WithinQuota' <=> WithinQuota
  BY <1>1, <1>2, <1>3, <1>5, <1>6 DEF WithinQuota
<1> QED
  BY <1>7, <1>8

(* cleanup_blobs frees rows and files that no limit is about. *)
LEMMA CleanupKnows ==
    ASSUME AloneInv,
           \/ CleanupSelect
           \/ \E h \in Hash : CleanupUnlink(h) \/ CleanupUnlinkFails(h) \/ CleanupRow(h)
    PROVE  Knowledge'
<1>1. gc \in GcRecord /\ gc.pc \in {"cleanup", "unlink", "row"} /\ gc.queue = {}
  BY DEF AloneInv, GcType, GcOk, EvictPc, CleanupSelect, CleanupUnlink, CleanupUnlinkFails,
         CleanupRow
<1>2. gc.now = now /\ (~gc.dry => WithinTtl /\ WithinQuota)
  BY <1>1 DEF AloneInv, SweepKnows, TtlKnows, QuotaKnows, SweepPc, TtlPc, QuotaPc, LaterPc
<1>3. UNCHANGED <<now, projects, entries>>
  BY DEF CleanupSelect, CleanupUnlink, CleanupUnlinkFails, CleanupRow, DeleteBlobRow, dbVars, tables
<1>4. now' = now /\ (WithinTtl' <=> WithinTtl) /\ (WithinQuota' <=> WithinQuota)
  BY <1>3, SameEntries
<1>5. ASSUME gc'.pc \in {"cleanup", "unlink", "row"}, gc'.queue = {}, gc'.now = gc.now, gc'.dry = gc.dry
      PROVE  SweepKnows(gc)'
  BY <1>2, <1>4, <1>5 DEF SweepKnows, Queued, TtlKnows, QuotaKnows, SweepPc, TtlPc, QuotaPc, LaterPc
<1>6. CASE CleanupSelect
  <2>1. CASE ZeroRefcount = {} \/ gc.dry
    <3>1. gc'.pc = "idle" /\ gc'.queue = {} /\ gc'.result = "swept" /\ gc'.dry = gc.dry
      BY <1>6, <2>1 DEF CleanupSelect, Finish, End, GcIdle
    <3>2. SweepKnows(gc)' /\ FilesKnown(gc)'
      BY <3>1, NoSweep DEF SweepPc, TtlPc, QuotaPc, LaterPc, FilesKnown
    <3>3. ZeroRefcount' = ZeroRefcount
      BY <1>6 DEF CleanupSelect, dbVars, tables, ZeroRefcount
    <3> QED
      BY <1>2, <1>4, <2>1, <3>1, <3>2, <3>3 DEF Knowledge, Reported
  <2>2. CASE ~(ZeroRefcount = {} \/ gc.dry)
    <3>1. PICK b \in SUBSET ZeroRefcount : gc' = [gc EXCEPT !.pc = "unlink", !.batch = b]
      BY <1>6, <2>2 DEF CleanupSelect
    <3>2. gc'.pc = "unlink" /\ gc'.queue = {} /\ gc'.now = gc.now /\ gc'.dry = gc.dry
      BY <1>1, <3>1 DEF GcRecord
    <3> QED
      BY <1>5, <3>2, SweepPcElsewhere DEF Knowledge, SweepPc, LaterPc
  <2> QED
    BY <2>1, <2>2
<1>7. ASSUME NEW h \in Hash, CleanupUnlink(h) PROVE Knowledge'
  <2>1. gc' = [gc EXCEPT !.pc = "row", !.current = {h}] /\ disk' = disk \ {h}
    BY <1>7 DEF CleanupUnlink, DeleteBlob, Unlink
  <2>2. /\ gc'.pc = "row" /\ gc'.queue = {} /\ gc'.now = gc.now /\ gc'.dry = gc.dry
        /\ gc'.current = {h}
    BY <1>1, <2>1 DEF GcRecord
  <2> QED
    BY <1>5, <2>1, <2>2 DEF Knowledge, FilesKnown, Reported
<1>8. ASSUME NEW h \in Hash, CleanupUnlinkFails(h) PROVE Knowledge'
  <2>1. gc' = [gc EXCEPT !.pc = "row", !.current = {h}, !.kept = gc.kept \cup {h}]
    BY <1>8 DEF CleanupUnlinkFails
  <2>2. /\ gc'.pc = "row" /\ gc'.queue = {} /\ gc'.now = gc.now /\ gc'.dry = gc.dry
        /\ gc'.current = {h} /\ gc'.kept = gc.kept \cup {h}
    BY <1>1, <2>1 DEF GcRecord
  <2> QED
    BY <1>5, <2>2 DEF Knowledge, FilesKnown, Reported
<1>9. ASSUME NEW h \in Hash, CleanupRow(h) PROVE Knowledge'
  <2>1. PICK pc \in {"cleanup", "unlink"} :
           gc' = [gc EXCEPT !.pc = pc, !.batch = gc.batch \ {h}, !.current = {}]
    BY <1>9 DEF CleanupRow
  <2>2. gc'.pc = pc /\ gc'.queue = {} /\ gc'.now = gc.now /\ gc'.dry = gc.dry
    BY <1>1, <2>1 DEF GcRecord
  <2> QED
    BY <1>5, <2>2, SweepPcElsewhere DEF Knowledge, SweepPc, LaterPc
<1> QED
  BY <1>6, <1>7, <1>8, <1>9

(* orphan_scan knows the files, then the differences to the rows. *)
LEMMA ScanKnows ==
    ASSUME AloneInv, ScanStep \/ \E h \in Hash : ScanUnlinkFails(h)
    PROVE  Knowledge'
<1>1. /\ gc \in GcRecord /\ GcType /\ FilesKnown(gc) /\ disk \subseteq Hash /\ blobs \subseteq Hash
      /\ gc.pc \in {"walk", "scan_rows", "scan_unlink", "scan_purge"} /\ gc.queue = {}
  BY DEF AloneInv, DbInv, DbTypeOK, GcType, GcOk, EvictPc, ScanStep, ScanRows, ScanVisit, ScanUnlink,
         ScanUnlinkFails, ScanPurge
<1>2. ASSUME NEW batch \in SUBSET Hash, NEW missing \in SUBSET Hash, NEW kept \in SUBSET Hash,
             ScanGoto(batch, missing, kept), batch \subseteq disk' \ blobs',
             (disk' \ blobs') \ batch \subseteq kept, missing = blobs' \ disk'
      PROVE  Knowledge'
  <2>1. CASE batch = {} /\ missing = {} /\ End("scanned", kept)
    <3>1. gc'.pc = "idle" /\ gc'.queue = {} /\ gc'.result = "scanned" /\ gc'.kept = kept
      BY <2>1 DEF End, GcIdle
    <3>2. blobs' \subseteq disk' /\ disk' \ blobs' \subseteq kept
      BY <1>2, <2>1
    <3>3. SweepKnows(gc)'
      BY <3>1, NoSweep DEF SweepPc, TtlPc, QuotaPc, LaterPc
    <3> QED
      BY <3>1, <3>2, <3>3 DEF Knowledge, FilesKnown, Reported
  <2>2. CASE /\ gc'.pc = (IF batch # {} THEN "scan_unlink" ELSE "scan_purge")
             /\ gc'.batch = batch /\ gc'.missing = missing /\ gc'.kept = kept
             /\ gc'.queue = gc.queue
    <3>1. SweepKnows(gc)'
      BY <1>1, <2>2, NoSweep DEF SweepPc, TtlPc, QuotaPc, LaterPc
    <3> QED
      BY <1>2, <2>2, <3>1 DEF Knowledge, FilesKnown, Reported
  <2>3. \/ batch = {} /\ missing = {} /\ End("scanned", kept)
        \/ /\ batch # {} \/ missing # {}
           /\ gc' \in GcRecord
           /\ gc'.pc = IF batch # {} THEN "scan_unlink" ELSE "scan_purge"
           /\ gc'.batch = batch /\ gc'.missing = missing /\ gc'.kept = kept
           /\ gc'.dry = gc.dry /\ gc'.queue = gc.queue /\ gc'.now = gc.now
    BY <1>1, <1>2, ScanGotoIs, Zenon
  <2> QED
    BY <2>1, <2>2, <2>3
<1>3. CASE ScanRows
  <2>1. disk' = disk /\ blobs' = blobs /\ gc.batch = disk
    BY <1>1, <1>3 DEF ScanRows, dbVars, tables, storeVars, FilesKnown
  <2>2. CASE gc.dry
    <3>1. gc'.pc = "idle" /\ gc'.queue = {} /\ gc'.dry
      BY <1>3, <2>2 DEF ScanRows, Finish, End, GcIdle
    <3>2. SweepKnows(gc)'
      BY <3>1, NoSweep DEF SweepPc, TtlPc, QuotaPc, LaterPc
    <3> QED
      BY <3>1, <3>2 DEF Knowledge, FilesKnown, Reported
  <2>3. CASE ~gc.dry
    <3>1. ScanGoto(disk \ blobs, blobs \ disk, gc.kept)
      BY <1>3, <2>1, <2>3 DEF ScanRows
    <3>2. gc.kept \in SUBSET Hash
      BY <1>1 DEF GcRecord
    <3> QED
      BY <1>1, <1>2, <2>1, <3>1, <3>2
  <2> QED
    BY <2>2, <2>3
<1>4. ASSUME NEW h \in Hash, ScanVisit(h) PROVE Knowledge'
  <2>1. disk' = disk /\ gc.batch = disk \ gc.unseen /\ h \in gc.unseen
    BY <1>1, <1>4 DEF ScanVisit, storeVars, FilesKnown
  <2>2. PICK pc \in {"scan_rows", "walk"} :
          /\ pc = IF gc.unseen = {h} THEN "scan_rows" ELSE "walk"
          /\ gc' = [gc EXCEPT !.unseen = gc.unseen \ {h}, !.batch = gc.batch \cup ({h} \cap disk), !.pc = pc]
    BY <1>4 DEF ScanVisit
  <2>3. /\ gc'.pc = pc /\ gc'.queue = {} /\ gc'.unseen = gc.unseen \ {h}
        /\ gc'.batch = gc.batch \cup ({h} \cap disk)
    BY <1>1, <2>2 DEF GcRecord
  <2>4. gc'.batch = disk' \ gc'.unseen /\ (pc = "scan_rows" => gc'.batch = disk')
    BY <2>1, <2>2, <2>3
  <2>5. SweepKnows(gc)'
    BY <2>3, NoSweep DEF SweepPc, TtlPc, QuotaPc, LaterPc
  <2> QED
    BY <2>3, <2>4, <2>5 DEF Knowledge, FilesKnown, Reported
<1>5. ASSUME NEW h \in Hash, ScanUnlink(h) PROVE Knowledge'
  <2>1. /\ h \in gc.batch /\ gc.batch \subseteq disk \ blobs /\ gc.missing = blobs \ disk
        /\ (disk \ blobs) \ gc.batch \subseteq gc.kept
        /\ disk' = disk \ {h} /\ blobs' = blobs /\ ScanGoto(gc.batch \ {h}, gc.missing, gc.kept)
    BY <1>1, <1>5 DEF ScanUnlink, DeleteBlob, Unlink, dbVars, tables, FilesKnown
  <2>2. /\ gc.batch \ {h} \subseteq disk' \ blobs' /\ gc.missing = blobs' \ disk'
        /\ (disk' \ blobs') \ (gc.batch \ {h}) \subseteq gc.kept
    BY <2>1
  <2>3. gc.batch \ {h} \in SUBSET Hash /\ gc.missing \in SUBSET Hash /\ gc.kept \in SUBSET Hash
    BY <1>1 DEF GcRecord
  <2> QED
    BY <1>2, <2>1, <2>2, <2>3
<1>6. ASSUME NEW h \in Hash, ScanUnlinkFails(h) PROVE Knowledge'
  <2>1. /\ h \in gc.batch /\ gc.batch \subseteq disk \ blobs /\ gc.missing = blobs \ disk
        /\ (disk \ blobs) \ gc.batch \subseteq gc.kept
        /\ disk' = disk /\ blobs' = blobs
        /\ ScanGoto(gc.batch \ {h}, gc.missing, gc.kept \cup {h})
    BY <1>1, <1>6 DEF ScanUnlinkFails, dbVars, tables, storeVars, FilesKnown
  <2>2. /\ gc.batch \ {h} \subseteq disk' \ blobs' /\ gc.missing = blobs' \ disk'
        /\ (disk' \ blobs') \ (gc.batch \ {h}) \subseteq gc.kept \cup {h}
    BY <2>1
  <2>3. /\ gc.batch \ {h} \in SUBSET Hash /\ gc.missing \in SUBSET Hash
        /\ gc.kept \cup {h} \in SUBSET Hash
    BY <1>1 DEF GcRecord
  <2> QED
    BY <1>2, <2>1, <2>2, <2>3
<1>7. ASSUME NEW h \in Hash, ScanPurge(h) PROVE Knowledge'
  <2>1. /\ h \in gc.missing /\ disk \ blobs \subseteq gc.kept /\ gc.missing = blobs \ disk
        /\ disk' = disk /\ blobs' = blobs \ {h} /\ ScanGoto({}, gc.missing \ {h}, gc.kept)
    BY <1>1, <1>7 DEF ScanPurge, PurgeBlob, storeVars, FilesKnown
  <2>2. disk' \ blobs' \subseteq gc.kept /\ gc.missing \ {h} = blobs' \ disk'
    BY <2>1
  <2>3. /\ {} \in SUBSET Hash /\ gc.missing \ {h} \in SUBSET Hash /\ gc.kept \in SUBSET Hash
        /\ {} \subseteq disk' \ blobs' /\ (disk' \ blobs') \ {} \subseteq gc.kept
    BY <1>1, <2>2 DEF GcRecord
  <2> QED
    BY <1>2, <2>1, <2>2, <2>3
<1> QED
  BY <1>3, <1>4, <1>5, <1>6, <1>7 DEF ScanStep

-----------------------------------------------------------------------------
(* Every step of an undisturbed pass keeps what it knows. *)
LEMMA AloneNextInv == AloneInv /\ [AloneNext]_gcVars => AloneInv'
<1> SUFFICES ASSUME AloneInv, [AloneNext]_gcVars PROVE AloneInv'
  OBVIOUS
<1>1. CASE AloneNext
  <2>1. GcAction
    BY <1>1 DEF AloneNext, SweepAlone, ScanAlone, GcAction, UnlinkFailure
  <2>2. DbTypeOK /\ DbInv /\ GcType /\ disk \subseteq Hash
    BY DEF AloneInv, DbInv
  <2>3. [DbNext]_dbVars /\ GcType'
    BY <2>1, <2>2, GcUsesMethods, GcActionType
  <2>4. DbInv'
    BY <2>2, <2>3, NextDbInv
  <2>5. disk' \subseteq Hash
    <3>1. disk' \subseteq disk
      BY <1>1
      DEF AloneNext, SweepAlone, ScanAlone, SweepStart, ScanStart, SweepStep, TtlSelect,
          QuotaProjects, QuotaUsage, QuotaSelect, GlobalUsage, GlobalSelect, Evict, EvictDry,
          CleanupSelect, CleanupUnlink, CleanupRow, ScanStep, ScanRows, ScanVisit, ScanUnlink,
          ScanPurge, CleanupUnlinkFails, ScanUnlinkFails, GcAbort, DeleteBlob, Unlink, storeVars
    <3> QED
      BY <2>2, <3>1
  <2>6. Knowledge'
    <3>1. CASE \E dry \in BOOLEAN : SweepStart(dry) \/ ScanStart(dry)
      BY <3>1, StartKnows
    <3>2. CASE SweepStep
      BY <3>2, TtlSelectKnows, QuotaProjectsKnows, QuotaUsageKnows, QuotaSelectKnows, GlobalKnows,
         EvictKnows, EvictDryKnows, CleanupKnows DEF SweepStep
    <3> QED
      BY <1>1, <3>1, <3>2, CleanupKnows, ScanKnows, AbortKnows DEF AloneNext, SweepAlone, ScanAlone
  <2> QED
    BY <2>3, <2>4, <2>5, <2>6 DEF AloneInv, Knowledge
<1>2. CASE UNCHANGED gcVars
  <2>1. UNCHANGED dbVars /\ gc' = gc /\ disk' = disk
    BY <1>2 DEF gcVars, storeVars
  <2>2. DbInv'
    BY <2>1, NextDbInv DEF AloneInv
  <2>3. GcType'
    BY <2>1, SameTables DEF AloneInv, GcType
  <2>4. SweepKnows(gc)'
    <3>1. PICK g : g = gc
      OBVIOUS
    <3>2. SweepKnows(g)'
      BY <2>1, <3>1, SameKnowledge DEF AloneInv
    <3> QED
      BY <2>1, <3>1, <3>2
  <2>5. FilesKnown(gc)' /\ Reported(gc)'
    BY <2>1, SameTables DEF AloneInv, FilesKnown, Reported
  <2> QED
    BY <2>1, <2>2, <2>3, <2>4, <2>5 DEF AloneInv
<1> QED
  BY <1>1, <1>2

(* A collector that has not run yet knows nothing. *)
LEMMA AloneInitInv == AloneInit => AloneInv
<1> SUFFICES ASSUME AloneInit PROVE AloneInv
  OBVIOUS
<1>1. DbInv /\ disk \subseteq Hash /\ gc = GcIdle
  BY DEF AloneInit, DbInv, StoreTypeOK
<1>2. gc.pc = "idle" /\ gc.queue = {} /\ gc.result = "none" /\ gc.now = 0
  BY <1>1 DEF GcIdle
<1>3. GcType
  <2>1. 0 <= now
    BY <1>1, BoundsAssumption DEF DbInv, DbTypeOK, Time
  <2> QED
    BY <1>1, <1>2, <2>1, IdleOk DEF GcType
<1> QED
  BY <1>1, <1>2, <1>3
  DEF AloneInv, SweepKnows, Queued, TtlKnows, QuotaKnows, FilesKnown, Reported, SweepPc, TtlPc,
      QuotaPc, LaterPc

(* In every state of a pass that nobody disturbs, whatever tables and files  *)
(* it started from: the candidate lists are not stale, each phase of run     *)
(* knows the limits the phases before it enforced, and orphan_scan's sets    *)
(* are exactly the differences between blobs/ and the blobs table.           *)
THEOREM AloneInvariant == AloneSpec => []AloneInv
  BY AloneInitInv, AloneNextInv, PTL DEF AloneSpec

(* The collector's record has its type in every state of an undisturbed      *)
(* pass (GcSvc::run, GcSvc::orphan_scan).                                    *)
THEOREM GcTypeCorrect == AloneSpec => []GcTypeOK
<1>1. AloneInv => GcTypeOK
  BY GcTypeIsTyped DEF AloneInv
<1> QED
  BY <1>1, AloneInvariant, PTL

(* An undisturbed sweep that reports success has enforced every TTL and      *)
(* every project quota and has freed every row that counts no reference,     *)
(* for every database, every BATCH and every limit (GcSvc::run).             *)
THEOREM SweepsReachLimits == AloneSpec => []SweepReachesLimits
<1>1. AloneInv => SweepReachesLimits
  BY DEF AloneInv, Reported, SweepReachesLimits, Swept
<1> QED
  BY <1>1, AloneInvariant, PTL

(* An undisturbed orphan scan that reports success leaves a file for every   *)
(* row, so every entry can be served, and no file without a row but those    *)
(* whose unlink it logged as failed, whatever it found                       *)
(* (GcSvc::orphan_scan).                                                     *)
THEOREM ScansReconcile == AloneSpec => []ScanReconciles
<1>1. AloneInv => ScanReconciles
  BY DEF AloneInv, DbInv, ForeignKeys, Reported, ScanReconciles
<1> QED
  BY <1>1, AloneInvariant, PTL

-----------------------------------------------------------------------------
(* What a step of a pass may take. *)

(* Only four steps of a pass change the tables or the files. *)
LEMMA AloneWrites ==
    ASSUME [AloneNext]_gcVars
    PROVE  \/ UNCHANGED <<dbVars, storeVars>>
           \/ Evict
           \/ \E h \in Hash : CleanupUnlink(h) \/ CleanupRow(h) \/ ScanUnlink(h) \/ ScanPurge(h)
<1>1. CASE AloneNext
  BY <1>1
  DEF AloneNext, SweepAlone, ScanAlone, SweepStart, ScanStart, SweepStep, TtlSelect,
      QuotaProjects, QuotaUsage, QuotaSelect, GlobalUsage, GlobalSelect, EvictDry,
      CleanupSelect, ScanStep, ScanRows, ScanVisit, CleanupUnlinkFails, ScanUnlinkFails, GcAbort
<1>2. CASE UNCHANGED gcVars
  BY <1>2 DEF gcVars
<1> QED
  BY <1>1, <1>2

(* The entries that a step of a pass removes. *)
LEMMA AloneRemoves ==
    ASSUME AloneInv, [AloneNext]_gcVars, NEW i \in LiveEntries \ LiveEntries'
    PROVE  \/ \E c \in NextCandidates : Evict /\ i = c.id /\ c \in gc.queue /\ c = Row(i) /\ i \in Unpinned
           \/ \E h \in Hash : ScanPurge(h) /\ entries[i].blob_hash = h
<1>1. DbTypeOK /\ GcType
  BY DEF AloneInv, DbInv
<1>2. CASE entries' = entries
  BY <1>2 DEF LiveEntries
<1>3. CASE Evict
  <2>1. PICK c \in NextCandidates : Delete(c.project_id, c.id)
    BY <1>3 DEF Evict
  <2>2. c \in gc.queue /\ c.project_id \in ProjectId /\ c.id \in EntryId
    BY <1>1, CandidatesQueued DEF GcType, GcOk, GcRecord, Candidate
  <2>3. i = c.id
    BY <1>1, <2>1, <2>2, DeletedOne
  <2> QED
    BY <1>3, <2>1, <2>2, <2>3 DEF AloneInv, SweepKnows, Queued
<1>4. ASSUME NEW h \in Hash, ScanPurge(h) PROVE entries[i].blob_hash = h
  <2>1. entries' = [j \in EntryId |-> IF j \in Refs(h) THEN NULL ELSE entries[j]]
    BY <1>4 DEF ScanPurge, PurgeBlob
  <2> QED
    BY <2>1 DEF LiveEntries, Refs
<1>5. entries' = entries \/ Evict \/ \E h \in Hash : ScanPurge(h)
  BY AloneWrites DEF CleanupUnlink, CleanupRow, DeleteBlobRow, ScanUnlink, dbVars, tables
<1> QED
  BY <1>2, <1>3, <1>4, <1>5

(* quota_phase evicts the least recently used unpinned entry of a project,   *)
(* and only while that project is over its quota.                            *)
THEOREM QuotaPhaseIsLru == AloneSpec => QuotaEvictsLruWhileOver
<1> DEFINE A(i) ==
      LET p == entries[i].project_id IN
      /\ ProjectUsage(p) > projects[p].quota_bytes
      /\ \A j \in (Unpinned \cap EntriesOf(p)) \ {i} : Older(Row(i), Row(j))
<1>1. ASSUME AloneInv, [AloneNext]_gcVars, gc.pc = "quota_evict", NEW i \in LiveEntries \ LiveEntries'
      PROVE  A(i)
  <2>1. PICK c \in NextCandidates : Evict /\ i = c.id /\ c \in gc.queue /\ c = Row(i)
    BY <1>1, AloneRemoves DEF ScanPurge
  <2>2. gc.todo # {} /\ gc.todo \subseteq Limited /\ QuotaKnows(gc) /\ gc \in GcRecord
    BY <1>1, <2>1
    DEF Evict, AloneInv, GcType, GcOk, SweepKnows, QuotaKnows, QuotaPc
  <2>3. PICK q \in gc.todo : q = Current(gc)
    BY <2>2, CurrentIsFirst DEF GcRecord
  <2>4. q.quota = projects[q.id].quota_bytes
    BY <2>2 DEF Limited
  <2>5. /\ gc.usage = ProjectUsage(q.id) /\ gc.usage > q.quota /\ c.project_id = q.id
        /\ \A j \in Unpinned \cap EntriesOf(q.id) : Row(j) \in gc.queue
    BY <1>1, <2>1, <2>2, <2>3 DEF QuotaKnows
  <2>6. entries[i].project_id = q.id
    BY <2>1, <2>5 DEF Row
  <2>7. \A d \in gc.queue \ {c} : Older(c, d)
    BY <1>1, <2>1 DEF NextCandidates
  <2>8. \A j : Row(j).id = j
    BY DEF Row
  <2>9. ASSUME NEW j \in (Unpinned \cap EntriesOf(q.id)) \ {i} PROVE Older(Row(i), Row(j))
    BY <2>1, <2>5, <2>7, <2>8
  <2> QED
    BY <2>4, <2>5, <2>6, <2>9
<1>2. AloneInv /\ [AloneNext]_gcVars
        => [gc.pc = "quota_evict" => \A i \in LiveEntries \ LiveEntries' : A(i)]_gcVars
  BY <1>1
<1> QED
  BY <1>2, AloneInvariant, PTL DEF AloneSpec, QuotaEvictsLruWhileOver

(* No phase of an undisturbed sweep evicts a pinned entry, a scan spares     *)
(* every entry whose file is there with its row and file, and a dry run      *)
(* changes nothing (gc.rs).                                                  *)
THEOREM PassesSpareTheRest == AloneSpec => PassSparesTheRest
<1> DEFINE A ==
       /\ gc.pc # "scan_purge" => LiveEntries \ LiveEntries' \subseteq Unpinned
       /\ gc.pc \in {"scan_unlink", "scan_purge"} =>
             /\ \A i \in LiveEntries \ LiveEntries' : entries[i].blob_hash \notin disk
             /\ blobs \cap disk \subseteq disk'
       /\ gc.dry => UNCHANGED <<tables, disk>>
<1>1. ASSUME AloneInv, [AloneNext]_gcVars PROVE A
  <2>1. gc.pc # "scan_purge" => LiveEntries \ LiveEntries' \subseteq Unpinned
    BY <1>1, AloneRemoves DEF ScanPurge
  <2>2. ASSUME gc.pc \in {"scan_unlink", "scan_purge"}, NEW i \in LiveEntries \ LiveEntries'
        PROVE  entries[i].blob_hash \notin disk
    <3>1. PICK h \in Hash : ScanPurge(h) /\ entries[i].blob_hash = h
      BY <1>1, <2>2, AloneRemoves DEF Evict, Evicting
    <3> QED
      BY <1>1, <3>1 DEF ScanPurge, AloneInv, FilesKnown
  <2>3. gc.pc \in {"scan_unlink", "scan_purge"} => blobs \cap disk \subseteq disk'
    <3>1. CASE disk' = disk
      BY <3>1
    <3>2. ASSUME NEW h \in Hash, ScanUnlink(h) PROVE blobs \cap disk \subseteq disk'
      BY <1>1, <3>2 DEF ScanUnlink, DeleteBlob, Unlink, AloneInv, FilesKnown
    <3>3. gc.pc \in {"scan_unlink", "scan_purge"} => disk' = disk \/ \E h \in Hash : ScanUnlink(h)
      BY <1>1, AloneWrites DEF Evict, CleanupUnlink, CleanupRow, ScanPurge, storeVars
    <3> QED
      BY <3>1, <3>2, <3>3
  <2>4. gc.dry => UNCHANGED <<tables, disk>>
    <3>1. gc.pc \in {"unlink", "row", "scan_unlink", "scan_purge"} => ~gc.dry
      BY <1>1 DEF AloneInv, GcType, GcOk
    <3>2. gc.dry => UNCHANGED <<dbVars, storeVars>>
      BY <1>1, <3>1, AloneWrites DEF Evict, CleanupUnlink, CleanupRow, ScanUnlink, ScanPurge
    <3> QED
      BY <3>2 DEF dbVars, storeVars
  <2> QED
    BY <2>1, <2>2, <2>3, <2>4
<1>2. AloneInv /\ [AloneNext]_gcVars => [A]_gcVars
  BY <1>1
<1> QED
  BY <1>2, AloneInvariant, PTL DEF AloneSpec, PassSparesTheRest

(* A pass drops a blob row only when its file is gone or its unlink was      *)
(* tried and failed (cleanup_blobs unlinks first), so that one cut short     *)
(* anywhere leaves no file without a row but those it has warned of.         *)
THEOREM FilesGoFirst == AloneSpec => FileGoesBeforeRow
<1>1. ASSUME AloneInv, [AloneNext]_gcVars, NEW h \in blobs \ blobs', h \in disk PROVE h \in gc.kept
  <2>1. CASE blobs' = blobs
    BY <1>1, <2>1
  <2>2. ASSUME NEW g \in Hash, CleanupRow(g) PROVE h \in gc.kept
    BY <1>1, <2>2 DEF CleanupRow, DeleteBlobRow, AloneInv, FilesKnown
  <2>3. ASSUME NEW g \in Hash, ScanPurge(g) PROVE h \in gc.kept
    BY <1>1, <2>3 DEF ScanPurge, PurgeBlob, AloneInv, FilesKnown
  <2>4. blobs' = blobs \/ \E g \in Hash : CleanupRow(g) \/ ScanPurge(g)
    BY <1>1, AloneWrites DEF Evict, Delete, CleanupUnlink, ScanUnlink, dbVars, tables
  <2> QED
    BY <2>1, <2>2, <2>3, <2>4
<1>2. AloneInv /\ [AloneNext]_gcVars
        => [\A h \in blobs \ blobs' : h \in disk => h \in gc.kept]_gcVars
  BY <1>1
<1> QED
  BY <1>2, AloneInvariant, PTL DEF AloneSpec, FileGoesBeforeRow
=============================================================================
