# A TLA+ development of marmotte

Marmotte is a Yocto cache server: builds `PUT` sstate archives and downloads
under a project, other builds `GET` them back, a garbage collector keeps the
store within time and size limits, and an admin API manages projects, keys and
entries.  Metadata is in SQLite, content in a directory of files named by their
SHA-256.  This directory models the parts that keep state, checks them with TLC
on small instances and proves the central facts with TLAPS.

Paths below are relative to `crates/`.

## The system: inventory

| Component | State | Operations | Hard because |
|---|---|---|---|
| Metadata store, `marmotte-core/src/db` | tables `projects`, `entries`, `blobs` (with `refcount`) | create/update/delete project; upsert, delete, touch, pin entry; drop or purge blob row | three tables must agree after any sequence; cascades bypass the repository methods |
| Blob store, `marmotte-core/src/storage.rs` | `blobs/`, `tmp/` | `open`, `write_streamed`, `read_blob`, `delete_blob` | concurrent writers of one hash, unlinks and purges between two awaits |
| Garbage collector, `marmotte-core/src/gc.rs` | a mutex, a pass's candidate lists and local totals | `run` (TTL, project quota, global quota, cleanup), `orphan_scan` | every await lets requests change what the pass has read |
| Cache routes, `marmotte-server/src/routes/yocto.rs` | progress of each request, `stats_counters` | `GET`, `HEAD`, `PUT` | three stores updated in sequence; the timeout layer can drop a handler at any await |
| Admin routes, `routes/admin` | none of their own (plus `audit_log`) | projects, keys, tokens, entries, pins, GC | run beside everything else |
| Authentication, `auth.rs`, `middleware` | `api_keys`, `admin_tokens`, the verify caches | mint, revoke, authenticate, authorize | a positive cache over data that is revoked, renamed and deleted |
| Server process, `lib.rs`, CLI `serve` and `init` | the ticker, queued sweeps | tick, soft trigger, restart | shared mutex; `init` opens the store of a running server |
| Push client, `marmotte-cli/src/commands/push.rs` | attempts per file, permits | HEAD, PUT, retry | retries of what was done, requests that outlive the client, files that change |
| Pagination, `Entries::list` | a client's cursor | list | the sort key moves between pages |
| Configuration, `config.rs` and its uses | the loaded settings, the ticker's task | load, trigger, TTL and quota arithmetic | no range is checked, integers wrap |
| HTTP rendering, metrics, argument parsing | none that changes | | |

Interactions.  A `PUT` authenticates, writes the blob, upserts the entry
(which adjusts refcounts), bumps a counter and, above the threshold, spawns a
sweep that queues on the collector's mutex.  A `GET` finds the entry, opens the
file and spawns a touch.  The collector reads both stores, deletes entries one
transaction at a time, then unlinks files and drops rows.  Nothing but SQLite's
transactions, the rename of a file and the collector's mutex is atomic:
requests never take the mutex.

What makes each part correct:

* metadata: an entry has its project and its blob row; a blob in use never
  has refcount zero; an id is never reused;
* blob store: `Ok` means the file is in place;
* collector: a sweep leaves the store within its limits, never takes a pinned
  entry, always ends, and loses no file that an entry needs;
* server: whatever is interleaved, an acknowledged upload can be served, and
  garbage goes in the end;
* authentication: a request acts as the project its secret belongs to, is not
  refused while its credential is good, and a dead credential dies in bounded
  time;
* transactions: although `upsert` and `delete` read first and write later, the
  tables change as if each were one step, and a push does not fail by its own contention
  alone;
* push: what is called a success is on the server and stays, every command ends;
* pagination: a traversal never circles, and misses or repeats only what moved;
* settings: limits are exact within the integers' range, and beyond it a full
  store is still never overlooked.

`PROJECT.json` lists the hazards line by line, with the properties aimed at each.

## Modules

```
Content ── MetadataDb ── MetadataDbProofs            Auth ┬ MCAuth
      │      │   │  └── Pagination ┬ MCPagination         └ AuthProofs
      │      │   │                 └ PaginationProofs
      │      │   └───── SqliteTx ── PushClient ┬ MCPush       Settings ┬ MCSettings
      │      │             │                   └ PushProofs            └ SettingsProofs
      │      │             └ (PushClient implements) Publish
      │      └────────────┐
      └── BlobStore ──── Gc ┬ MCGc
               │            ├ GcProofs
               │            └ CacheServer ┬ MCCacheServer
               └ BlobStoreProofs          ├ CacheServerProofs
                                          └ (implements) MetadataDb
```

A module of proofs extends the module it is about and the proofs it builds on:
`GcProofs` those of the two stores, `CacheServerProofs` those of `Gc`, `PushProofs` and
`PaginationProofs` those of `MetadataDb`.

**Content**: hashes and their sizes.  Content is addressed by its hash, so a
size is a function of the hash.  There are finitely many hashes (a SHA-256 has 256
bits), which is what makes the sums of the collector numbers.

**MetadataDb** models `db/projects.rs`, `db/entries.rs`, `db/blobs.rs` and the
schema.  Variables are the tables and their AUTOINCREMENT sequences; an absent
row is `NULL`.  Each action is one committed transaction or autocommitted
statement: `CreateProject`, `UpdateProject`, `DeleteProject` (with the cascade
of the schema), `UpsertInsert` and `UpsertReplace` (the two branches of
`Entries::upsert`, each with `upsert_incr` and `decr` where the code calls
them), `Delete`, `Touch`, `SetPinned`, `DeleteBlobRow` (which the foreign key
may refuse) and `PurgeBlob` (the transaction of `orphan_scan`).  A failed
transaction changes nothing.  An entry's (kind, path) is one `Key`.  `upsert` and
`touch` read the clock before they wait for the database, so the time they store
may be any up to now (`ClockRead`): `last_accessed` may also move backwards.

**BlobStore** models `storage.rs`.  `disk` is `blobs/`, `tmp` the temporary
files, `upload` the progress of each `write_streamed` call, whose steps are
separated where the code awaits: receive the body, `dest.exists()`, then discard
the temporary file or rename it.  `WriteAbort` is any early `?` and the dropped
future; `WriteDiscardFails` is the ignored error of `remove_file`; `OpenStore` is `LocalFsStore::open`, which purges `tmp/`;
`RestartStore` is the same after a crash.  `remove_file` runs in tokio's blocking
pool, which does not notice that the caller is gone: `DeleteDropped` leaves the unlink
in `late`, `DeleteLate` is the unlink running after all.  `unlinked` is a history
variable.

**Gc** extends both.  `gc` is the state of the one pass that holds the mutex:
where it is, the candidates it has read and not yet evicted, the total it
counts down, the batch it is cleaning.  `TtlSelect`, `QuotaProjects`,
`QuotaUsage`, `QuotaSelect`, `GlobalUsage`, `GlobalSelect`, `Evict`,
`EvictNotFound`, `CleanupSelect`, `CleanupUnlink`, `CleanupRow`,
`CleanupRowRefused`, `ScanStart`, `ScanVisit`, `ScanRows`, `ScanUnlink`,
`ScanPurge` each stand for the code between two awaits; failed unlinks
(`CleanupUnlinkFails`, `ScanUnlinkFails`), aborted passes (`GcAbort`) and passes
cancelled during an unlink that still runs later (`GcCancelUnlink`) are actions too.
A failed unlink only logs a warning and the pass goes on; `kept` is what its log
names.  A dry run takes the same path without effects,
and cleans nothing (`EvictDry`).  `AloneSpec` is the collector with nobody beside
it, on any database and any directory, failed unlinks and aborts included; an unlink
that outlives its pass is somebody beside it, and is met in `CacheServer`.  `SumOf`, the
`SUM(...)` of the queries, is the number of bytes counted one by one: a definition without
recursion, about which the proofs can reason.

**CacheServer** composes all three with the handlers: `do_put`
(`PutStart` … `PutTrigger`, `PutCancelBody`, `PutCancel`), `get_one` (`GetFind`, `GetOpen`,
`GetTouch`), the admin routes, the ticker, the sweeps of the soft trigger,
`marmotte init` on the same directory, faults, the unlinks left behind by cancelled
passes (`LateUnlink`) and restarts.  Requests are
already authenticated.  Because the verify cache admits a deleted project's key
for a while, a `PUT` may carry a project that is gone.

**Auth** models `auth.rs`, the two credential tables, both middlewares and the
checks of the routes.  A request goes through `CacheGet`, `ProjectLookup`,
`KeyLookup` and `CacheInsert`, with the admin API (`RenameProject`,
`DeleteProject`, `MintKey`, `RevokeKey`, …) between any two.  `answer` is the
request the last step answered; the histories `minted` (whom a secret was given to) and
`outlived` (secrets whose project has been deleted) remember what the tables forget.  Secrets are random and named by the row they
were minted for, so hashing is left out.  moka is external: it returns no entry
older than its time to live (`Fresh`, `ClockTick`) and may drop any entry
(`CacheEvict`).

**Pagination** extends `MetadataDb` with one admin client that follows
`next_cursor`.  `List` is `Entries::list`: the rows that match, after the
cursor (`AfterCursor`), in the order (column, id), one more than the limit
(`Fetch`, which says what ORDER BY and LIMIT return, not how to sort), and the page
and cursor made of them (`Page`).  `DbStep` is any method of the store between two pages;
it also records which of the entries have matched throughout and whose sort
value has gone up or down.  The client waits for nothing else, so steps after
its last page are left to the next traversal.

**SqliteTx** takes `MetadataDb`'s transactions apart.  `pool().begin()` is a
deferred transaction: `UpsertRead` and `DeleteRead` take a connection and a
snapshot, `TxWrite` the write lock, `UpsertCommit` and `DeleteCommit` publish
what follows from the *snapshot*.  SQLite itself is external: a first write
behind another writer, or after another commit, fails at once (`TxBusy`) — the
busy timeout is not used when a reader becomes a writer.  After the commit
comes a single statement, `PutBump` or `DeleteAudit`, which does wait for the
lock.  `TxFails` and `TxDropped` end a handler at any await.  Everybody else who writes
(the sweep, touches, orphan scans, other clients, the parts left out) is `OUTSIDE`: it
takes the same lock and a connection (`OtherLocks`), and either commits, which makes the
snapshots stale just the same (`OtherCommits`: one method of `MetadataDb`, or a write
that does not concern these tables), or rolls back (`OtherRollsBack`).

**PushClient** extends `SqliteTx` with `push.rs`: `Spawn` (a permit, then
`sha256_file`), `HeadAnswered`, `PutSend` (which reads the file again),
`PutAnswered` with `Retry`, `GatewayError` and `TaskFails` (the client lets go
of a request that is still running), `Exit`.  Every attempt is a request of its
own in the server.  Meanwhile others may write a file, delete an entry by the admin API or
write to the database (`OutsideStep`); `disturbed` is the URLs whose entry they changed.

**Publish** is the promise, in terms of files, URLs and contents only: a file is
settled once; success means that the server has had, under the file's URL, a
content the file had during the push; the push stores nothing else.  What others store or
remove is counted apart (`foreign`).
`PushClient!KeepsPromise` is the refinement (`Promise == INSTANCE Publish WITH
…`: `remote` is read off the entries, `settled` off the tasks).

**Settings** models `Config::load` for the fields of `GcConfig` (environment over
file over default, a required field missing or a value of the wrong type
refuses) and the code that computes with them: `default_ttl_days * 86_400 as
i64`, `now - default_secs`, the `WHERE` clause of the TTL phase,
`global_quota_bytes as i64`, `global_quota_bytes * pct / 100`, and
`tokio::time::interval`.  `checked` is the build: debug panics on overflow,
release wraps, `as` wraps in both.  A panic kills the ticker's task or the
request it happens in.

Definitions whose comment begins "Mutant of" are not part of any
specification: each is a plausible bug, substituted for the definition it
follows to confirm that a property notices.

## Runs

Passing runs (states are distinct states):

| Run | Question | Bounds |
|---|---|---|
| `metadata_db` | do the tables agree after every sequence of methods? | 2 projects, 2 keys, 2 hashes, 3 entry ids: replacing by the same and by another hash, sharing across keys and projects, cascades |
| `collector` | what have undisturbed sweeps and scans achieved, do they end? | every database of up to 3 entries, 2 projects, 2 blobs of sizes 1 and 2, ages, pins and zero-refcount rows, and any files against any 2 entries; batches of 1 so that cleanup loops |
| `server_races` | what can lose or leak a file, does `Ok` mean placed, do the tables still behave? | 2 PUTs, 2 hashes, one key, every admin operation, ticker, one fault or restart |
| `server_policy` | pins against sweeps | 2 PUTs, 1 GET, 2 keys, quota changes, clock |
| `server_liveness` | does garbage go, do sweeps get their turn? | as above with a zero quota, so that sweeps always have work; no symmetry |
| `auth` | who is granted as what, who is refused, for how long? | 2 names, 2 projects, one credential, one request at a time, time to live 2 within 3 ticks |
| `pagination` | what may a traversal miss or repeat? | any 3 entries of one project under any sort, order and filter of a small set, pages of 1 or 2, up to 2 changes during the traversal |
| `push` | is the promise kept, are transactions atomic, does the command end? | 2 files, 2 contents, 2 attempts, pool of 2, one fault, and one file written, entry deleted or transaction of any kind by others |
| `settings` | where are TTL, quota and trigger exact, and how do they err elsewhere? | 12 bits for 64, days of 7 seconds, values on both sides of every limit, both builds, every layer |

Two actors of a kind, one shared object and one spare are enough for every
interleaving hazard listed: each is a conflict between one request and one pass,
or between two requests, over one hash, entry or credential.  `server_races`
also checks `DbSpec`: every step of the composition is a step of `MetadataDb` or
leaves its tables alone, so what is proved of `MetadataDb` holds there.  Its
bounds keep one project and one key; a second of either is in `metadata_db` and
`collector`.  In `auth`, a credential of another project is the same secret
offered under the other name, and requests
meet only in the cache, where a later request finds what an earlier one left.

`BlobStore` has no run of its own: its properties are checked in
the composition, where the PUTs, the collector, `marmotte init` and restarts
drive it, and its safety is proved for every instance.  `collector` lets sweeps and
scans follow one another, so a scan also meets what a sweep left.

`push` checks `TxAtomic`: every change that the broken-up transactions make to
the tables is one whole step of `MetadataDb`.  This is what lets the other
modules take a transaction as one step.

Deadlock is checked except in `push` and `settings`, where the system stops: the
command has exited, or the configuration was refused.  Elsewhere the clock and
fault bounds never stop a model, since requests, the ticker or restarts remain.

Runs that end in a counterexample each test one sentence of a comment against
what the code does:

| Run | The sentence | What happens |
|---|---|---|
| `refcount_exact` | refcount is the "Number of Entry rows that reference this blob" (`models.rs:218`) | deleting a project cascades over entries without decrementing; the blobs are never collected |
| `gc_global_quota` | evict "until the global quota is satisfied" (`gc.rs:16-18`) | an entry's size is subtracted although its blob is shared; the sweep stops over the quota |
| `cleanup_race` | deletes "blob files and rows whose refcount has reached zero" (`gc.rs:326`) | a PUT re-references the hash between the query and the unlink |

The passing properties say how far each goes: `OnlyCascadeDrifts` (only cascades
move refcounts), `DanglingOnlyByRace` and `ScanPurgesOnlyByRace` (only a PUT
overlapping the collector, or an unlink it left behind, can lose a file or a row that is
backed), `LeakOnlyByRace` (a sweep leaves a file without a row only where it logged a
failed unlink or met such a PUT),
`SomebodyWins` (within a push nobody fails all files by contention; outsiders may),
`PinsHeldSurvive` (an entry pinned before the sweep and throughout it survives),
`GarbageIsCollected` (for all the sweeps that fail).

Smaller differences between a comment and the code that the models reproduce and
that no run is spent on:

* `models.rs:243` says a pinned entry is never evicted; one that is pinned after
  the candidates were read is, since `Entries::delete` does not look
  (`PinsHeldSurvive` is what holds).
* `config.rs:93-94` says concurrent writers "back off rather than error"; a
  transaction that has read does not back off, it fails with 500 (`TxBusy`), and
  only `push` retries.
* `config.rs:133` says the percentage "Must be in the range `[1, 100]`"; nothing
  checks it (`Layer`, `Complete`).  `config.rs:246` lists a file that cannot be read
  as an error; figment takes a missing file as an empty layer.
* `gc.rs:196-202` calls overflow of the TTL theoretical; a default TTL of 2^63
  seconds or more, and a quota of 2^63 bytes or more, evict everything
  (`TtlExact` and `SweptOnlyIfOver` are exact below).
* `push.rs:29` calls `MAX_RETRIES` the number of retries; it is the number of
  attempts (`Retry`).  408 and transport errors are not retried (`PutAnswered`,
  `TaskFails`).  The comment on `HEAD` expects 304; the server answers 200 with the
  ETag, which the client compares itself (`HeadAnswered`).
* `entries.rs:79` says `has_more` means that at least one more page exists; that
  page may be empty by the time it is read.  `entries.rs:60` says "starts with"; LIKE
  ignores case and takes `%` and `_` in the prefix as wildcards (`Filter` has the
  set of keys selected).
* The audit row of an admin request is written after the change has committed: a
  change may have no row (`AuditTellsTruth` is the direction that holds).
* `storage.rs:9` calls `tmp/` "in-flight uploads"; failed and cancelled uploads
  stay there until the next `open` (`WriteAbort`).
* `models.rs:167` says `None` means entries never expire; `ttl_phase` uses the
  default of the kind (`Expired`), as the repository's README says.
* `gc.rs:16` evicts if storage "still exceeds" the quota; rows that the earlier
  phases brought to refcount zero still count (`TotalSize`).
* `gc.rs:103` lists SQL and I/O errors for `run`; a candidate that an admin removed
  first also ends the sweep, with NotFound (`EvictNotFound`).
* `gc.rs:12` evicts entries older than their TTL; one that was re-uploaded or
  touched after the candidates were read goes too (`Evict`).
* `gc.rs:120-124` defines orphans by what is on disk and in the table; the walk and
  the SELECT see two halves of an upload between them (`ScanVisit`, `ScanRows`).
* `config.rs:183` says the TTL of the cache limits revocation lag; a verification in
  flight adds its own duration (`RevocationLagBounded` is the bound that holds).
* `auth.rs:266` says database errors propagate; a failed `get_by_name` answers 401
  (`ProjectLookupFails`).

## Fairness

`FairServerSpec` assumes weak fairness of every handler step and of the running
pass: tokio polls every task that can move, and file and SQLite operations return.
It assumes strong fairness of `TickerSweep` and `QueuedSweep`: both need the
collector's mutex, which others may take again and again, but `tokio::sync::Mutex`
is first come, first served, and the interval of the ticker fires for ever.
Nothing is assumed of clients, admins, faults, restarts or the clock.
`CollectorSpec` of `MCGc` assumes weak fairness of the steps of the running pass,
for the same reason.  `PushSpec` assumes only that some task that can go on does
(`Progress`): the behaviours are finite, so no more is needed for the command to
end, and nothing is assumed of faults, of other processes or of the admin.
With `--concurrency 0` no task starts and the command waits for ever; the
assumption on the constant excludes it.

## Proofs

Every safety property that a passing run checks is also a theorem, for every number of
projects, entries, hashes, requests, files, pages and faults and every value of the
other constants; so are both refinements.  The inductive invariants
of `Auth`, `Gc`, `CacheServer`, `PushClient`, `Pagination` and `Settings` were also
checked with TLC, on the instances of the runs.

* `MetadataDbProofs`: `TypeCorrect`, `ReferencesHold`, `NeverUndercounted`,
  `CascadeIsTheOnlyDrift`, `IdsNameOneEntry`.  The
  inductive invariant (`DbInvariant`) is the conjunction `DbTypeOK`,
  `ForeignKeys`, `UniqueKeys` (a key names at most one entry, which the schema says and
  the counting needs), `NoUndercount`.  No part of the last three stands
  alone: dropping a row with refcount zero keeps `ForeignKeys` only because
  `NoUndercount` says nothing references it or the foreign key refuses;
  inserting a row with refcount one is right only because `ForeignKeys` says a
  hash without a row has no references, and `NoUndercount` that it counts zero.
  The counting lemmas say how the number of references of a hash changes when
  one entry is added, re-bound or removed; each action then moves `refcount` by
  as much, except the cascade, which only lowers the references.
* `BlobStoreProofs`: `StoreTypeCorrect` and `OkMeansPlaced`.  The invariant
  `Placed` strengthens `StoredIsPlaced` to uploads that have found the file in
  place and not yet answered.
* `SettingsProofs`: `SettingsTyped`, `TtlIsExact`, `NothingHidesOverQuota`,
  `NothingSweptEarly`, `TickerStaysAlive`, for every width of the integers, length of
  a day and value of a setting.  The inductive invariant (`SettingsInv`) adds to the
  types that the last PUT and the last sweep are what the present configuration and
  usage give (`AnswersCurrent`); the properties then follow from lemmas on the
  arithmetic: a percentage up to 100, wrapped or not, is at most the whole
  (`PercentLe`), `as i64` keeps what fits and never makes a number larger
  (`AsI64Small`, `AsI64Le`), and a TTL that fits gives a cutoff that fits
  (`DefaultTtlExact`).
* `AuthProofs`: `AuthInvariant`, `AuthTypeCorrect`, `GrantsBacked`,
  `GoodCredentialsPass`, `RevocationTakesEffect`.  The properties speak of the request
  that the last step answered; the invariant (`AuthInv`) says what has to be true
  before.  A request that has looked up its project knows that the credential was
  valid at some time since it began if the row is still active (`ReqKnows`), and an
  entry of the cache stands for a credential that was valid at some time since its
  verification began (`EntryOK`): the time to live plus the duration of that
  verification is what bounds revocation.  Rows only age (`RowsAge`): no step gives a
  credential another owner or role or takes a revocation back.  What a request knows or the
  cache holds is tied to what was minted (`minted`), not to the row, which may be gone; that
  an id is never drawn twice then keeps a re-created project out of reach (`outlived`).  Names are unique
  (`UniqueNames`), or a renamed project's key could open another.
* `GcProofs`: for the collector alone, `AloneInvariant`, `GcTypeCorrect`,
  `SweepsReachLimits`, `ScansReconcile`, `QuotaPhaseIsLru`, `PassesSpareTheRest`,
  `FilesGoFirst`.  The total that `quota_phase` counts down is a local of the code,
  so the invariant ties it to the table: it is what the project uses (`QuotaKnows`).
  A queue holds rows as they are (`Queued`) and every candidate there still is, and a
  phase that is over left its limit met (`TtlKnows`, `WithinQuota`).  For scans, what
  was seen, what is left to unlink and what is left to purge are the differences of
  the directory and the table (`FilesKnown`), except for the files whose unlink failed
  (`kept`).  Sums need lemmas of their own
  (`BytesFinite`, `SumWithout`, `SumOfFewer`, `SumOfSame`); a sum is the cardinality of
  a finite set, so they follow from those on cardinality.
* `CacheServerProofs`: `ServerInvariant`, `ServerTypeCorrect`, `ServerImplementsDb`,
  `ServerPlacesUploads`, `LossOnlyByRace`, `AcksAreCounted`, `PurgesOnlyByRace`,
  `LeaksOnlyByRace`, `PinsAreSafe`.  `ServerImplementsDb` is the refinement: every step
  of the composition is one method of `MetadataDb` or leaves its tables alone, which
  carries `DbInv` over.  The heart is `RaceInv`.  `DanglingOnlyByRace` alone is not
  inductive: one has to know that a PUT between its file and its row still has the file
  or raced (`BodiesBacked`), that every such PUT overlaps the batch or walk in hand or
  the unlink still in the blocking pool (`BodiesOverlap`), that what is about to be unlinked is unreferenced or carried by one
  of these (`BatchFree`, late unlinks included), that a row about to be dropped has no file,
  one whose unlink failed or one that such a PUT placed (`RowBare`, which gives
  `LeakOnlyByRace`), and that what a walk passed without seeing it has no file or
  one that such a PUT placed (`WalkSeen`).  `PinInv` says that no candidate was pinned
  ever since the sweep began, `CountInv` that the counter is at least the number of
  PUTs past `bump`.
* `PushProofs`: `PushInvariant`, `TransactionsAreAtomic`, `AuditIsTrue`,
  `SuccessIsLasting`, `ContentionHasAWinner`, `PushKeepsPromise`.  `TxInv` is why a
  transaction that reads first and writes later is atomic: whoever may still write has
  read what the tables still say (`ReqOk`), because every commit makes the other snapshots
  stale, those of outsiders too, and a stale one cannot become a writer.  `PushInv` adds what the client
  knows: each request carries a content its file had, to that file's URL
  (`RequestOk`), what the tables hold was seen (`EntriesSeen`), what landed
  undisturbed stays (`LandedStays`, which abandoned requests make necessary), and a
  PUT that was turned away without faults lost to one that has written, or to somebody
  outside the push who has (`Contended`).  `PushKeepsPromise` is the refinement of `Publish`.
* `PaginationProofs`: `PagerInvariant`, `TraversalIsOrdered`, `TraversalIsComplete`,
  `TraversalRepeatsOnlyMoved`.  The invariant says that the cursor is the last row given
  (`CursorIsLast`), that what matched throughout was given, is ahead of the cursor or
  moved against the direction of travel (`NothingSkipped`), and that what was given is
  not ahead of where it was, or moved with it (`NothingAhead`).  It is needed that an
  id is never reused: an entry inserted under a deleted one's id could be given again
  although nothing moved.

The assumptions are those of the constants, which TLC evaluates in every run: bounds are
naturals, hashes are finitely many and their sizes naturals, column values are integers,
`NULL` is not a row, a cursor, an identity, a request or a hash, the u64 range is even and holds the default
interval, uploads, deletions and the outside writer are different (`TxAssumption`), and there is
room for one project, the one the push is for.  (References are counted
over the entry ids, of which the bound leaves finitely many.)

One proof attempt corrected a property.  `SomebodyWins` used to say of every push that
has ended without faults that some file of it did not fail; a push of an empty
directory has no file at all and exits with 0.  It now speaks of a push that exits
with 1, which is what contention could cause.  Nor is it true of a server on which
others write: a sweep, touches or another client may take the lock during every attempt
and fail every file (dropping `OutsiderWrote` from the property gives TLC's trace).  What
holds is that the push alone cannot do this to itself.

Only model-checked: `GcEnds`, `GarbageIsCollected`, `SweepsGetTheirTurn` and `PushEnds`,
since liveness under fairness is out of the prover's reach, and that `Fetch` always has
a result (a finite set can be sorted: induction over data; the `pagination` run would
deadlock without one).

## Not modelled

* The wall clock only moves forward and advances between any two steps; a clock
  set back is left out.  (A time that was read early is not: `ClockRead`.)
* The audit rows of admin operations other than the deletion of an entry (they
  are written in the same way), get routes, day buckets of statistics,
  `audit_since`, the counters of the collector's reports.
* SQLite's lock upgrades in `CacheServer`: a query that fails is `PutCancel`,
  `GcAbort` or `ReqFails`, at the same places, without saying when; `SqliteTx` says
  when, for PUTs and deletions.
* Settings that are only passed on: addresses, paths, timeouts, cache sizes,
  logging.  Elsewhere than in `Settings` limits are natural numbers.
* Hashing, argon2, HTTP parsing and rendering, metrics, tracing, argument parsing.
* Walking the directory and forming URLs in `push`: a file name with `?` or `#` is
  joined unescaped, so two files may share a URL (`UrlOf` need not be injective).

## Plan

Done, in this order: metadata store, blob store, collector, server,
authentication, with the first theorems; pagination; transactions and the push
client with its abstract specification; settings; then the proofs of every safety
property and refinement.  Left:

1. Theorems about a sweep with requests beside it that say how far from its limits it
   may stop (`SweepsReachLimits` is about the collector alone).
2. The day buckets of `stats_counters` and `sum`, `audit_since` with its limit.
3. The dry-run report against the sweep it announces.
