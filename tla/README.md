# A TLA+ model of openkeyv

openkeyv is an asynchronous key-value library in Rust with Python bindings: one
protocol (`AsyncKeyValue` and its optional companions), some twenty backends that
implement it, and wrappers that compose stores. This directory holds TLA+ modules
translated from the source, the TLC configurations that check them on small
instances, and TLAPS proofs of what the most important ones promise. Paths below
are relative to `rust/crates/openkeyv/src/`.

`PROJECT.json` maps every definition to the lines it models and lists the runs,
their mutants, the hazards, the findings and the theorems.

## Inventory

| component | state | operations | how it interacts | what is hard | what makes it correct |
|---|---|---|---|---|---|
| protocol (`protocol.rs`, `change.rs`) | none | get, ttl, put, delete, the batches, compare-and-swap, subscribe, cull, keys, collections, destroy | every backend and wrapper implements it | what it leaves open: errors against `None`, what the feed reports | the feed is ordered, resumable, without silent gaps; a revision is consumed once |
| memory backend, store (`store/memory/store.rs`) | two levels of `DashMap`, `setup_complete`, `mutation_lock` | the whole protocol | futures of many tasks share it; mutations call the feed | steps between awaits; collections destroyed under a waiting call; eviction; TTL | the feed agrees with the maps; the limit holds; conditional writes exclude each other; no deadlock |
| memory backend, feed (`store/memory/client.rs`) | revision counter, retained entries, broadcast channel; per stream a replay queue, a receiver, a filter | `record_change`, `subscribe`, `recv` | written by every mutation, read by subscribers and migration | retention and ring overflow, the seam between replay and live | see `ChangeFeed` |
| redis, valkey (`store/redis`, `store/valkey`) | server keys, revision counter, stream, collection registry | the protocol, by Lua scripts and scans; keyspace migration | server shared by many processes | scans in rounds, the registry, a stream that is trimmed | registry covers the keys; the stream is the promised feed |
| postgres (`store/postgres`) | entry and change tables | the protocol, in transactions; a feed by polling and NOTIFY | server shared by many processes | revisions allocated before commit; trimming under a reader; conditional writes | at most one writer wins; changes of a key in order |
| sqlite, duckdb | tables; DuckDB one connection | protocol without feed | several processes, or tasks of one | conditional deletion of expired rows, schema upgrades | an expired row never hides a new one |
| document and object stores (mongodb, dynamodb, opensearch, firestore, s3, vault) | remote documents, indexes, buckets; MongoDB a list of checked collections | the protocol, request by request | remote, many processes | the deletion of what was expired when it was read; pages; chunks; half-done setup and destroy | what a call reports is so; nothing live is lost |
| local stores (filetree, disk, rocksdb, keyring, memcached, simple, null) | files, trees, records | protocol | one process or several | writes in two steps, directories and trees dropped under a call | as above |
| passthrough cache (`wrapper/passthrough_cache.rs`) | two stores | the protocol | invalidates the cache, then writes the primary | a refill racing with an invalidation; TTLs of the two stores | old values only after a race, and only for `cache_ttl` |
| timeout (`wrapper/timeout.rs`) | none | drops the inner future | any store | a mutation cut in two | the inner store's invariants survive |
| other wrappers | prefixes, routes, marks | rename, transform, refuse | any store | names and values that look encoded | users see what they wrote |
| migration (`migration.rs`) | a report | snapshot copy, replay of changes | source, target, feed | writers during the copy, restarts, TTLs running out | the target ends with what the source has |
| codecs (`cas.rs`, `entry/`, `value/`, `utils/compound.rs`) | none | encode, decode | used by backends | boundaries of lengths | decoding inverts encoding |
| factory, Python bindings and package | none | dispatch | | | |

## Modules

The memory backend:

* `Changes` - the data of a feed: `StoreChange`, `ChangeStart`, `ChangeFilter`
  and `Matches` (`change.rs`). A cursor that is not a number is the start kind
  `Malformed`; `occurred_at` is left out.
* `ChangeFeed` - what `AsyncChangeFeed` promises, as an abstract state machine:
  a history, and per subscriber a position that advances over it one change at a
  time, delivers what its filter matches, and skips only by saying so.
* `MemoryFeed` - `store/memory/client.rs`. `record_change` and `subscribe` run
  under the `changes` mutex, so each is one action; `recv` is a loop, each branch
  of whose body is an action. The broadcast channel of tokio is external: a
  receiver is the number of the next change it reads, and it lags when that
  change is no longer among the last `RingCapacity` ones.
* `MemoryStore` - `store/memory/store.rs` over `MemoryFeed`. A task runs one call
  at a time; the stages of a call are where it waits for `setup_complete`, seeds,
  creates its collection and draws its revision tokens, waits for
  `mutation_lock`, records the changes it made one by one, and returns. Between
  two stages every other task may run. Tokens are numbers handed out in order (a
  random 16-byte token never repeats); a value is identified with its token; time
  is a counter, which advances at any moment. Reference guards into the outer map
  that are kept while recording (`Guarded`) shut out whoever must insert.
* `MemoryStoreProofs` - the theorems about the feed, and about the store as a whole.
  `ServerStoreProofs`, `DatabaseStoresProofs`, `DocumentStoresProofs`,
  `LocalStoresProofs`, `ServerFeedProofs`, `WrappersProofs` and `MigrationProofs` are
  those about modules named below.

The other backends:

* `ServerStore` - what they have in common. A *slot* is a collection and a key, a
  *document* what the server keeps there, named by the write that stored it. A
  task makes one call; each request of the operation is a step (`pc`), and what a
  request returned (`seen`, `found`) may be stale at the next. `Fail` ends a call
  at any point: an error of the server's, a timeout, a dropped future.
  `Tick` moves the clock. The history variables `window`, `before` and `since`
  record what each slot held while a call ran, what it held and what time it was
  when it began; the properties compare answers with them. `alien` are collections
  with a physical name that does not decode, `sound` says that an entry does.
* `MongoDB`, `DynamoDB`, `OpenSearch`, `Firestore`, `Vault`, `S3`, composed in
  `DocumentStores`; `SqlTable` under `EmbeddedSql` (SQLite and DuckDB) and `Postgres`,
  and `Redis` (with Valkey's operations), composed in `DatabaseStores`; `LocalLoop` under `FileTree`,
  `Disk`, `RocksDB`, `Keyring` and `Memcached`, and `InProcess` (the simple and
  the null store), composed in `LocalStores`. In each there is an action per
  operation, a disjunct per request of it. `made` is what the server has set up:
  tables, indexes, buckets, directories, trees, or Redis' registry of collections.
  A conditional write of Postgres that finds its condition false reads the row for its
  report in a second statement of the same transaction (`PgConflict`): until then the
  table stays locked against `DROP` and `LOCK TABLE`, the row only if an INSERT met it
  (`PgTableFree`, `PgRowsKept`).
* `ServerFeed` - the feeds that live in a server: Postgres' transactions, which
  lock the row, take a revision, insert the change, prune and commit; Redis'
  scripts, which number and append in one step and trim. `recv` is cut at its
  queries. Redis' part is shown to implement `ChangeFeed`.

The rest:

* `PassthroughCache` - the cache in front of a store, under a timeout, a step per
  request.
* `Wrappers` - compound keys, subspaces and prefixes, on sequences of symbols; every
  wrapper that makes one call of what is below, where what its user wrote (`shown`) is
  compared with what reading back gives; and a store behind any of these or behind
  `PassthroughCache`.
* `Migration` - `copy_snapshot_with_feed`, then `apply_change` for what the
  subscription yields, beside writers; and `migrate_into_keyspace` in place, request
  by request: the new key, the registry, the old key. The source does what
  `ChangeFeed` promises. A tick is a millisecond: `ReadOf` takes off up to two, as
  `ttl` and `with_ttl` do, which each cut a TTL to whole milliseconds.
* `MCMemoryFeed`, `MCMemoryStore`, `MCDocumentStores`,
  `MCDatabaseStores`, `MCLocalStores`, `MCServerFeed`, `MCWrappers`,
  `MCMigration` - the instances for TLC.

`AnswersTrue` and `EffectsDone` (in the three `...Stores` modules), `UserSees` and
`TargetAgrees` are conjunctions, one conjunct per hazard, and are tried with a mutant
for each. Modules with variables of their own state a type invariant; the runs check `FeedTypeOK` and
`TypeOK` of `MemoryStore`, which the proofs rest on.

Definitions whose comment starts with *Mutant* are the plausible bugs against
which the properties are tried; the specifications do not use them.

## Runs

| run | configuration | distinct states | what it shows |
|---|---|---|---|
| `feed` | retention 2, ring 2, 4 changes in 2 collections, every start | 213 000 | streams of the memory feed have no silent gap, no duplicate, no change out of order; replay and receiver meet; cursors are refused only when a change is gone; every change is eventually passed; it implements `ChangeFeed` |
| `memory_calls` | one key, limit 1, a seed; 3 calls of the single-key, conditional and destroying operations and a fourth that expects what a rival expects, failures and dropped futures | 725 000 | of the conditional writes that expect one revision at most one applies, a consumed revision is in no slot again; no stored entry is missing from the feed unless a future was dropped; every call returns |
| `memory_mirror` | 2 keys, limit 1, 2 calls of the reads, the batches of up to 2, and cull, expiry, a subscriber | 2.4 million | the feed mirrors the maps, eviction and cull included; the limit holds |
| `documents` | 6 backends, every pair of some 20 calls, 5 contents | 1.8 million | answers are current, writes land, deletions count once, destroyed is destroyed, listings and cull are complete, clean-up is conditional (MongoDB, DynamoDB) |
| `databases` | 6 backends, every pair of some 27 calls, 5 contents, upgrades of the schema | 1.3 million | the same, and one winner of conditional writes, an expired row deleted only while it is expired, Redis' registry complete, a conflict shown as it was while the call ran |
| `local` | 7 backends, every pair of some 20 calls, 5 contents | 1.4 million | the same, and torn files only by a race |
| `server_feeds` | 2 writers, retention 2, 3 revisions, every start | 495 000 | changes of one key in order, cursors refused only when they must be, consumers get on, Redis implements `ChangeFeed` |
| `wrappers` | every wrapper, names with the prefix in them, 2 writes; the cache with 2 tasks and 2 puts | 552 000 | users see what they wrote, of every wrapper but the cache, of which the other two properties speak; old values from the cache only after a race and within `cache_ttl` |
| `migration` | 3 places, 2 writes, batches of 2, one restart, TTLs of 1 and 3 ms; 4 jobs | 1.2 million | the target ends with what the source has and nothing else, with at most 2 ms less to live; in place a live entry leaves its old key only when it, or what a client of the new layout had written there before, is under the new one, and the registry catches up |
| `reads_keep_live`, `postgres_skips`, `phantom_put` | small | | where the code departs from what its documentation says, see below |

### Bounds

*Memory feed*: the interesting cases need more changes than the retention and the ring
hold, twice over: with both at 2, four changes reach every seam (the oldest entry
dropped, a cursor on each side of the boundary, a receiver lagging by one and by two, a
lag in the middle of a replay). *Memory store*: two tasks suffice for every race between
two calls, since a call interacts with others only through the maps and the two locks.
`memory_calls` has three calls (`MaxCalls`), so that what a first one left is met by two
others. A race of two callers for one revision takes four, two that learn it and two
that expect it; so it has one more (`MaxRivals`) for a call that expects the revision
another caller's last call expects. The reads and batches are in `memory_mirror`. A
caller that has dropped a future makes no other call. `MaxCalls`, `MaxRivals`,
`MaxBatch`, `MaxTime`, `MaxRevision` are in guards.

*The other stores*: two tasks with one call each, so every pair of operations in
every interleaving of their requests; three slots, two in one collection, so that a
loop has a second round and a collection a neighbour; contents that stay, that
expire while the calls run, that do not decode, and a collection with a malformed
name; pages and chunks of one (`PageSize`), so that each loop over pages is taken;
batches with a repeated, a missing and an overlong key; a TTL that lapses within the
run and one that is refused. One step of the clock (`MaxTime`) separates before
from after expiry. A third call adds nothing to what two see of each other: the
properties are about one call and what changes under it, or about two.

*Server feeds*: two open transactions are what commits out of order; a retention of
two is exceeded by the third revision. *Wrappers*: names of at most two symbols,
some of which are digits, the colon or the prefix, are what a colliding encoding
would confuse. *Migration*: two writes change an entry twice during the copy;
batches of two and three places make two batches; `PageLimit` is not reached. A TTL of 3
outlives what the conversions take off, one of 1 does not; entries without a TTL that
are copied with `preserve_ttl` occur in the theorems only.

The clients may stop calling, so deadlock is not checked; that no call of the memory
store is stuck is the property `CallsReturn`. Tasks are interchangeable and no
property tells them apart, so runs without liveness use symmetry.

### Fairness

`FeedFairSpec` assumes that a consumer holding a stream goes on calling `recv`;
`FairSpec` of `ServerFeed` the same, and nothing of the writers. `FairSpec` of
`MemoryStore` assumes
that the runtime polls a task that can continue; tokio's locks are fair, so a waiting
task is not overtaken for ever, and with a bounded number of calls weak fairness of
the steps is enough. `Begin`, `Tick`, `Cancel` and the drops are never forced.
`FairSpec` of `Migration` assumes that the migrating program goes on, that a mutation
of the source is at last reported, and that time passes (an entry whose TTL is
running out aborts the copy until it is gone); failures and restarts are bounded.

## Findings

* OpenSearch, Firestore, Vault and S3 delete an entry found expired by its name: a
  read beside a put loses the new entry (`reads_keep_live`). FileTree, Disk, RocksDB,
  Keyring and Memcached do the same in some of their operations. MongoDB, DynamoDB
  and the SQL stores name what they saw (`ConditionalCleanup`, `ExpiryKeepsLive`).
* In the Postgres feed a change may become visible after one with a later revision; a
  consumer that has seen the later one never gets it (`postgres_skips`).
* `put` and `put_many` of the memory store whose collection is destroyed while they
  wait for `mutation_lock` store nothing, record a `Put` and return success
  (`phantom_put`).

Met while modelling, and without a run of their own:

* memory: `get` fails with `InvalidOperation` when its collection is destroyed under
  it; `cull` and eviction report expired entries as `Delete`; `destroy` keeps the
  history; `compare_and_swap` ignores the limit. `ReadsDoNotFail`,
  `ExpiryNotReported` and `HistoryDiesWithStore` in `MemoryStore` state the contrary:
  put one of them in place of `NoPhantomPut` in `MCMemoryPhantomPut.cfg`, with `get`,
  `cull` or `destroy` and a TTL among the operations, to see it refuted.
  `MirrorExact` and `CapacityRespected` are checked without the operations that break
  them.
* DynamoDB's `delete_many`, Firestore, Vault, S3 and RocksDB look before they
  delete: two calls may both report one entry as deleted.
* Redis: `collections` trusts the registry, so entries from before it vanish from the
  enumeration once the first put creates it; the conditional scripts record no change;
  `get_many` of no keys is an error.
* Postgres: a revision of a rolled-back transaction at the edge of the retention is
  taken for an expired cursor.
* MongoDB: a `destroy_collection` that is dropped between its two steps leaves the
  client believing that the indexes are there. DynamoDB, SQLite: of two setups at a
  time the second fails.
* S3, FileTree, Disk, RocksDB and the simple store list expired keys. RocksDB lists
  one key with a limit of 0. The SQL stores fail a listing if a row expires while it
  runs.
* Migration: an entry in its last millisecond has a TTL of 0 and aborts the copy; a
  copy may end up to two milliseconds before the original; a deletion between two
  attempts leaves the key in the target. In place, the value under an old key is
  deleted without being moved when the new key exists already.
* Routing: a `put_many` refused for the route of a later key has stored the earlier ones.
* Passthrough cache: `keys` and `collections` also list what only the cache still holds.

## Proofs

`MemoryStoreProofs` proves of the feed, for every retention, ring capacity, number of
changes and set of subscribers, collections, keys, starts and filters (under the named
assumptions of `Changes` and `MemoryFeed`: revisions are `1 .. MaxRevision`, the
two sizes are positive):

* `FeedTypeCorrect`, `FeedRetainsSuffix`, `FeedHasNoSilentGap`,
  `FeedRefusesOnlyIfGone`, `FeedDeliversInOrder`;
* `FeedImplementsPromise`: `FeedSpec => ImplementsChangeFeed`, the refinement.

`NoSilentGap` is not inductive: that passing the head of the replay closes no gap
holds only because the replay is a stretch of the history that ends where the
receiver starts (`ReplayMeetsReceiver`), which at `subscribe` follows from the
retained entries being a suffix of the history (`RetainedSuffix`) numbered by the
revisions (`HistoryNumbered`). `FeedInv` is the conjunction of the four with the
type invariant; there is one lemma per action, and `StreamStepKeepsInv` reduces the
actions of one stream to that stream. The refinement maps a stream to the position
it has passed, `RecvReplay` and `RecvLive` to `Advance`, `RecvLagged` to `Lose`.

And it proves of `Spec`, the store as a whole, for every set of tasks, choice of operations,
limit, seed, TTLs and bounds, with failures and dropped futures (assumed: finite
sets of collections and keys, at least one collection, keys that are numbers):

* `StoreTypeCorrect`: `TypeOK` always holds. One lemma per operation, over lemmas
  about the operators they share (`WithColumnIs`, `InsertedTyped`, `RemovalsTyped`,
  `SeededTyped`).
* `StoreImplementsFeed`: `Spec => FeedSpec`. A step of the store leaves the feed
  alone or is a `RecordChange`, a `Subscribe`, a `Recv` or a drop; so the theorems
  about the feed carry over, as `StoreHasNoSilentGap` shows for the main one.
* `StoreWinsExclusive` and `StoreSpentTokensGone`: of the conditional writes that
  expect the same revision at most one applies, and a consumed revision matches
  nothing again. Neither is inductive: a token is drawn before `mutation_lock` is
  taken, so between the two steps it belongs to a call and to no slot. `TokenInv`
  adds this: every token is new, or drawn by one call (`Drawn`), or in one slot,
  or consumed. `MovesTokens` says what one step may do to the tokens,
  `MovesTokensKeepsInv` that this keeps `TokenInv`, and the remaining lemmas that
  every action does no more than this.
* `StoreAnnouncesUnlessDropped`: an entry that a caller stored has been announced or
  is about to be. A call changes the maps first and then records its changes one by
  one, so the invariant speaks of what a reader of the feed will believe once the
  holder of `mutation_lock` has recorded the rest (`Believed`); every step covers
  what it leaves in the maps (`StepCovers`).
* `StoreMirrorsExactly`, under `PlainUse` (no conditional writes, destroys, seeds or
  dropped futures, each of which breaks the mirror, see the findings): `Tracked`, that
  this reader believes in exactly what is there, at every step.
* `StoreRespectsCapacity`, under `LimitedUse` (no `compare_and_swap`, seeds inserted
  whole): eviction keeps the newest, and counting shows that no more than the limit
  are left (`EnforcedIsLimited`).

`ServerStoreProofs` holds what the next three modules rest on, for any store: what the
operators of `ServerStore` return (`LimitedFacts`), what one step may do
(`Lawful`), and that the history variables then keep what they have taken in
(`WindowGrows`, `FadedStays`), so that an answer that was right stays so. What is
assumed of the constants is in `ServerStore`, `DatabaseStores` and `FileTree`, by name:
the writer of the old contents makes no call (`TasksAssumption`, `StoresAssumption`), slots are
finitely many pairs of one of finitely many collections and a key (`SlotsAssumption`),
an operation on one key has one (`CallsAssumption`), pages and chunks hold something and
the clock is a number (`BoundsAssumption`), and no collection is the base directory
(`BaseAssumption`); TLC evaluates them on the instances.

`DatabaseStoresProofs` proves of SQLite, DuckDB, Postgres, Redis and Valkey, for every
set of calls, contents of the store, page size and number of tasks: `AnswersAreTrue`,
`EffectsAreDone`, `CleanupsKeepLive`, `SwapsExclude` and `RegistryIsComplete`, each the
property of the same run. One fact is
about documents: each is stored once, because its writer is spent by then (`DocsSpent`),
so that what has left a slot does not come back (`Dropped`). The other is about calls: an
answer is given by a step of the call itself, and the window of the call takes in what
was there before and after that step. What a call has gathered until then is an
invariant of its own, one per loop: of reads in rounds, culls, listings, drops of
tables, FLUSHDB, batches, swaps. What a conflict shows, also that there is
nothing, was so while the call ran, although Postgres reads it after the condition
(`ConflictRightStep`). They rest on the inductive core (`CoreAlways`) and are
proved one operation at a time.

`DocumentStoresProofs` proves of MongoDB, DynamoDB, OpenSearch, Firestore, Vault and S3,
as generally, every property of the run `documents`: `AnswersAreTrue`, `EffectsAreDone`,
`KnownAreIndexed`, `CleanupIsConditional` and `MalformedStops`. The argument is the same,
but a call of these backends is a sequence of requests, so more has to be said of what it
holds between two of them. `Core` says of each stage which operation is at it, what its
loop variables range over, and that a document is stored once; `Sound` adds to it, per
kind of operation:

* `Reading` - what of a read's answer is settled: of DynamoDB's batch the documents
  fetched, of Vault's and S3's the keys done, elsewhere everything once all that is left
  is to delete what had expired; on S3, that what is to be deleted had.
* `Meeting` - what MongoDB and DynamoDB are about to delete as expired has expired, as it
  was seen. This is why `CleanupIsConditional` holds: they delete by what was seen, and
  a document stored in its place is another one.
* `Listing`, `Naming` - the entries and the names met so far, and of what has not been
  met, that it was not there at some moment of the call.
* `Landing`, `InOrder` - the items of a batch that are no longer waiting were stored. S3
  works through a batch in order, so what it leaves under a repeated key is its last item.
* `Clearing` - whatever a `destroy`, a `destroy_collection` or a `cull` has found and is
  still there is something that it has yet to come to (`Left`, `Awaits`).
* `Validating` - OpenSearch's destroy has no index with a malformed id behind it.
* `CountedGone` - what a deletion has counted is spent and out of its slot.
* `KnownIsIndexed` itself is inductive together with the `Core`.

Every step is one of a task or of the server: `Still` steps, those of others, keep what a
call knows, and each stage's invariant has a lemma for those and one for its own steps.

`LocalStoresProofs` proves of the file tree, sled, RocksDB, the simple and the null store,
the keyring and Memcached, as generally, every property of the run `local`:
`TornOnlyThen`, `AnswersAreTrue` and `EffectsAreDone`. These backends
work key by key, and a call's place in its batch is what the invariant turns on.

`Core` has two parts. One is about documents: what is in a slot cannot be written again
(`Spent`), because the position of the batch that wrote it has been passed. A torn file
is the exception: the call that tore it still has that position before it. The other is
about calls: at the stages that take the next key there is one (`LoopsTyped`), and what a
call stored is under its own keys, in their positions (`OwnDocs`). Every step of a backend
is `Legal`, proved once per backend and used by all that follows. `Sound` adds:

* `EntriesHoused`, inductive together with the `Core`: nothing is stored where there is no
  directory, tree or map, and these go only with what is in them.
* `TearingOk` - whoever is between truncating and writing finds its own torn file, or
  none, or has had company; and a torn file is one of a call at that place, of one that
  failed there, or of two that met. `TornOnlyByRace` is what this says of the stages that
  can be seen.
* `CountedGone` - what a deletion has counted is spent and out of its slot, so nobody
  counts it again. Two torn files of one put look alike, so they are left out.
* `Reading`, `Listing`, `Naming`, `Landing` and `Clearing`, per call (`Serves`): the keys
  passed are answered, the entries and collections met were there and those not met were
  not at some moment, the items passed have been stored, and what a `destroy`, a
  `destroy_collection` or a `cull` has to remove is still ahead of it.

`TearingOk` has to hold whatever becomes of a write to a file that was removed and made
again between its two steps. The code decides nothing there, so `FtWrite` allows each
outcome: it is lost with the old file, fills the new one, or leaves a mixture.

`ServerFeedProofs` proves `KeyOrder` for every set of writers and keys and every
retention (assumed: at least one collection and key, revisions `1 .. MaxRevision`).
Redis' script does everything at once. Postgres takes a revision when a change is
inserted and shows it at the commit, so `OrderInv` says what holds in between: rows of
open transactions are different (`RowsHeld`), a transaction's change is of its row
(`OwnOfRow`) and later than that row's history (`OwnIsLater`), and no revision exceeds
the sequence (`Taken`).

It also proves `RedisExpiresOnlyIfGone` and `RedisImplementsPromise`, the refinement of
`ChangeFeed` by Redis' stream. The changes of the history are numbered one by one
(`Numbered`) and what the server shows is a tail of them (`RowsAreTail`), so a reply to
XREAD is a stretch of the history without holes (`ReplyIsStretch`), and when it starts
later than the stream stopped, what lies between has been trimmed (`GapIsGone`). That
the reply is *sorted* needs no induction: `Ordered` chooses a sequence in which all
rows occur, in as many places as there are rows, so that no row occurs twice
(`OrderedIsStretch`).

`WrappersProofs` proves of `Wrappers`' `Spec`, for every prefix, set of names,
batches and TTLs (assumed, in `WrappersAssumption`: names are sequences of symbols
shorter than ten, places are well-formed, and no batch has a name twice):

* `WrappersShowWhatWasWritten`: `UserSees`, for every wrapper. Each tells names apart by
  their places and values by their forms (`Sound`, `WrappersSound`), which for the
  renaming wrappers rests on lemmas about sequences: a prefix can be cancelled and
  stripped (`PrefixStripped`), and a compound taken apart in one way only
  (`CompoundApart`, `CompoundTells`). Of any sound wrapper it is then invariant that what
  was written is below, and that what is below was written, or is others' (`Holds`). Two
  hypotheses are what the code leaves to the caller. `MinTtl <= MaxTtl`:
  `TtlClampWrapper::with_range` does not compare them, and the maximum has the last word.
  `RoutesApart`: the stores below a routing wrapper may be written by others, but under
  the user's names only in the store that the wrapper chooses; otherwise it lists keys
  that it does not find.
* `CacheStaleOnlyByRace` and `CacheFreshEnough`: `StaleOnlyByRace` and `FreshEnough`, for
  every set of tasks and keys, every `cache_ttl`, timeout, TTL and number of puts
  (assumed: numbers, and calls with one key at least).

For the last two, `FreshInv` follows an entry: what a task is about to put into the cache was
current after its call began (`FilledWasCurrent`), the call is no older than the
timeout (`CallsYoung`), so what is in the cache was current a timeout before it was put
there (`CachedIsFresh`). `RaceInv` says that a key being written is out of the cache
unless a race was noted (`WrittenIsOut`), that every race is (`RacesNoted`), and that
what is in the cache, or about to be, is what the primary has otherwise.

`MigrationProofs` proves, for every job, set of slots and names, TTLs and number of
writes and restarts (assumed: the bounds are numbers, `Never` is later than the end of
any entry, and no two collections get one name, which replacing a prefix ensures):

* `MigrationMovesSafely`. `Moving` says that one key is moved at a time, that what was
  read is what its old key still holds, that it is stored only where nothing alive was,
  and where what is under a new key came from (`Origins`): from the old key of the same
  entry, or from a client of the new layout; `Kept` is the property for one step.
* `MigrationRegisters`. `Registry`, part of the same invariant: what is under a new key
  of an unregistered collection has its old key.
* `MigrationCarriesTtl`. `Named` says that what was read of an entry is never taken for
  that of another; `Timed` bounds the time left in what was read and not yet written
  (`LeftOf`): added to the time at which it will be written it is earlier than the
  entry's end by no more than what the conversions cut off (`MostLost`), and at most as
  late as the end and the time of writing together.
* `MigrationAgrees`, under `Whole`: listings fit on their page. The code leaves it to the
  caller; without it entries are left out. `Arriving` says where an entry
  of the source is if it is not in the target: still listed, in the batch, or followed
  by a Put that has not been applied; `Leaving`, where what the target has comes from.
  What a batch holds may be old, but then a later change follows (`ReadIsFresh`), and a
  Delete in the feed of an entry that is back in the source is followed by its Put
  (`FeedIsTrue`).

Only model-checked: liveness (`EventuallyPassed`, `CallsReturn`, `EventuallyArrives`),
since the prover does not handle fairness. Every invariant and every action property of
the passing runs is a theorem.

## Not modelled

Values and the bytes they are encoded in, error texts, logging, and the counters of
the statistics wrapper. Real time: clocks are counters, and a TTL is a number of
ticks: a whole one in milliseconds, but for the migration, which cuts it, and so in
Memcached's 32-bit seconds. Threads of the runtime: a task
waiting for a shard is a waiting task in the model, in the code it blocks its thread
(see the hazard at `store/memory/store.rs:325`). Overflow of the 64-bit revision
counter. The iteration of `DashMap` in `cull` is one step: other tasks can only add
entries that are not expired meanwhile; the same holds of a shard of the inner map.
The page limit of `keys` and `collections` in the memory store.

Of the servers: eventually consistent listings (DynamoDB's scans are consistent in
the model, as its reads are by request), S3 listings of several pages, sled's and RocksDB's
recovery after a crash, deadlocks inside Postgres (they end as failed calls),
FLUSHDB under a subscriber and conditional writes beside the Redis feed. The names of
OpenSearch's indexes and of other physical objects are as good as the logical ones,
except that they may be too long or fail to decode. The `keys` and `collections` of
the passthrough cache, which merge what the two stores list.

In place (`migrate_into_keyspace`) the writers of the old layout are assumed to have
stopped. `utils/sanitize.rs`, `value/`, `factory.rs`, `store_config.rs`, the Python
bindings and the Python package are pure data conversion, configuration or a
repetition of the above.

## Plan

1. FLUSHDB and the conditional scripts in the Redis feed.
2. A runtime with few threads under the guards of the memory store.
