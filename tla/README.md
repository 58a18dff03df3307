# TLA+ for stratified-hash-tree

A stratified hash tree (crate `slate`) is an append-only list of values with a hash tree over
it. Entry *i* stores value *i* and the inner nodes ("inodes") that the *i*-th append adds to the
tree; each inode names its left child by index, height and storage position, and its right child
by index and height. This directory holds TLA+ modules for the tree's arithmetic, for the writer
with its cache, for queries that run next to the writer, for the storages below them with failing
calls and crashes, for the comparison of two trees, and for what reads the stored bytes; TLC
configurations that check them on small instances; and TLAPS proofs of the safety
properties that hold, for trees, caches and histories of every size.

All source references are to `src/src/` (`lib.rs` means `src/src/lib.rs`).

## 1. Inventory

| Part | State | Operations | Interacts with | Status |
|---|---|---|---|---|
| Tree formulas, `formula.rs` | none (pure); `Model` is computed from *n* | `pbst_roots`, `ephemeral_nodes`, `inodes`, `root_of`, `subnodes_of`, `range`, `contains`, `is_valid`, `entry_access_distance`, `..._limits`, `stratum_sample_size`, `Model::inode` | called by all the others | modelled: `Formula`, `Generations` |
| Records and hashes, `lib.rs` 40-330 | immutable records | `Entry::root`, `inode`, `meta`, `Hash::combine`, `Node::parent`, `ValuesWithBranches::root` | created by append, decoded by storage | modelled: `Entry`, `Branches` |
| Cache, `cache.rs` | level, model, entries near the latest, perfect-subtree roots | `load`, `migrate`, lookups | owned by the Slate, shared (`Arc`) with snapshots | modelled: `Cache` |
| Slate, `lib.rs` 460-640 | storage, position, cache | `append`, `truncate`, `with_cache_level`, `snapshot`, `snapshot_at` | storage, cache | modelled: `Slate`, `SlateLog`; over failing storages in `BlockStorage`, `KeyValueStorage` |
| Snapshot and Query, `lib.rs` 840-1075 | cache of the snapshot, a cursor of its own | `get`, `get_sample`, `scan`, `read_entry`, `walk_down` | reads the storage the Slate writes | partly: `Query` |
| StratumSample, `lib.rs` 690-840 | a leaf and witnesses | `root_hash`, `compare` | two parties exchange them | modelled: `StratumSample`, `Compare` |
| BlockStorage, `storage.rs` | device, expected position | `put`, `truncate`, `first`, `last`, `read`, `scan`, `boot` | block device | modelled: `BlockStorage`; as whole entries: `Entry` |
| Block devices, `storage/file.rs`, `storage/memory.rs` | bytes, length, cursor | read, write, seek, truncate, clone | BlockStorage | partly: `BlockStorage` |
| MemKVS, `storage/memory.rs` | map from position to entry, behind a lock | as BlockStorage | Slate | modelled: `KeyValueStorage` |
| RocksDBStorage, `storage/rocksdb.rs` | key-value pairs and a metadata key, behind a lock | two-step `put`, `truncate`, `last`, `scan` | RocksDB | modelled: `KeyValueStorage` |
| Serialization, `serialize.rs`, `checksum.rs` | none | `write_entry_to`, `read_entry_from`, checksums | BlockStorage, RocksDBStorage | modelled: `Serialize` |
| Inspection, `inspect.rs` | none | prints and checks a file | BlockStorage | partly: `Serialize` |
| Errors, command line, benchmarks | none | wording, arguments, measurements | | not modelled |

What makes each part correct, and what is hard about it:

* **Formulas.** Closed O(1) formulas answer questions whose truth is defined by what append has
  written. They are right when both descriptions of the tree agree for *every* index, including
  the last ones of the index type, where shifts, `i - 1` and `leading_zeros` are at their limits.
* **Cache.** There are two ways to get one: load it from the storage or carry the last one along
  with each append. They must agree after any history, at any level; otherwise an append panics
  (`cache.rs:107-114`, `187-195`) or hashes a stale node, many appends after the cause.
* **Slate.** After any mix of append, truncate and reopen: the position is the end of the storage, the
  stored hash of every entry is the hash of the values up to it, every stored address resolves,
  and the values behave as a list that grows at its end and is cut.
* **Queries.** A query owns a cursor and a snapshot's cache and holds no borrow of the Slate.
  It reads entries one by one, while the writer appends or truncates (and appends again, other
  values at the same indices and maybe the same positions). On a snapshot that no truncation has
  cut, it must return what the log held when the snapshot was taken; it must end; and it must not panic.
  When a truncation has cut the snapshot, the code promises nothing: the doc of `truncate`
  (`lib.rs:571-573`) leaves the locking to the caller.
* **Samples.** A sample must lead to the root hash of its snapshot. The nodes that `compare` names must
  contain every leaf in which two trees differ, and a search that follows them must come down to one.
* **Storages.** A Slate needs little of a storage: a put goes where the storage ends, a truncation
  cuts at an entry, and opening finds all that was acknowledged. Behind this are torn writes, calls that
  fail half-way, a device cursor that truncation leaves behind, a position kept twice (storage and
  device), RocksDB's two-step updates, and a lock that is held while foreign code runs.
* **Bytes.** Right children and heights are not written as they are but rebuilt by the reader; the last entry is
  found from the end. Reader, writer and the report of `inspect.rs` have to agree.

`PROJECT.json` lists the hazards one by one with the line where each bites and the properties that
cover it, or why none does yet.

## 2. Modules

```
Formula ── Generations ── MCGenerations               the arithmetic against the tree that append builds
   └── Entry ── Cache ── Slate ─┬─ Serialize ─┐       the writer, the bytes of its entries,
          │               │     ├─ Branches ──┴─ MCSlate          and values with branches
          │               │     ├─ SlateLog               what it promises     (instantiated)
          │               │     └─ StorageContract        what it asks for     (instantiated)
          ├ StratumSample ┴─ Query ── MCQuery         queries next to the writer
          │       └─ Compare ── MCCompare             two parties compare their trees
          └ StorageContract ┬─ BlockStorage ── MCBlockStorage         (instantiated)
                            └─ KeyValueStorage ── MCKeyValueStorage   (instantiated)

FormulaProofs ─┬─ GenerationProofs                    theorems on Formula and on Generations,
               ├─ TreeProofs ────┐                                on Slate and Serialize,
               └─ SampleProofs ──┼─ QueryProofs                   on StratumSample, Query and Branches,
                                 └─ CompareProofs                 on Compare (from SampleProofs alone);
BlockProofs, KeyValueProofs                                       on the two storages
```

The stack is cut at `StorageContract`: `Slate` is shown to use its storage as the contract allows
(`KeepsContract`), and each storage, with its faults, to be such a storage (`ImplementsContract`). The
modules above may therefore treat a storage as a map of whole entries.

**`Formula`** has an operator for each function of `formula.rs`, under its name. The width of `Index`
(`u64` in the code) is the constant `INDEX_SIZE`. The right-hand sides are the code's arithmetic,
with bits as divisions and remainders; loops are recursive functions.

**`Generations`** grows the tree by `inodes(n + 1)` per step, which is `Slate::append` without
hashes, and reads the tree off what was written. It then compares every formula with it.

**`Entry`** has the records, and the `Storage` trait as `BlockStorage` implements it when I/O succeeds: a
map from byte positions to whole entries and an end. A read at a position that is not the start of
an entry, or finds another index, is an `Err`, as in `read_entry_with_index_check`.

**`Cache`** is `cache.rs`: `load` (the reads of `load_with_level`, then the roots) and `migrate` (what
`migrate_cache` keeps, then the roots), each with the condition under which the code does not panic.

**`Slate`** is the writer. Its variables are the fields `storage`, `position` and `cache` of `Slate`;
`revision` is `Slate::n`.

| Action | Code |
|---|---|
| `AppendEntry(v)` | `append`, `lib.rs:518-569`: build the entry over the cached roots, put, advance the position, migrate the cache |
| `Truncate(i)` | `truncate`, `lib.rs:571-583`: find entry *i*, cut the storage at it, reload the cache |
| `Reopen(level)` | dropping the Slate and `with_cache_level` on the same storage |

All three take `&mut self`, so no other user of this Slate runs between their parts. Queries read the
storage through cursors of their own. An append writes behind everything that an address known to
anyone leads to, and a truncation is one call to the device; what a query can observe of them is the storage
before or after it. (A large entry is flushed in several writes, `storage.rs:176`. A query meets a
half-written entry only if it follows an address that a truncation has made void; it fails there, as it does
at a position where no entry starts.) Payloads over `MAX_PAYLOAD_SIZE` are refused before anything changes
(`lib.rs:522-524`) and are not in `Value`.

**`SlateLog`** is the abstract specification: a list that `Add` extends and `Cut` cuts. `Slate`
instantiates it with `log <- Log`, the payloads of the stored entries in the order of their indices.

**`Query`** adds the queries. Every variable of `Slate` stays, and `query[r]` is the state of query *r*: its
snapshot's cache, the call running, and the calls of the recursive `_walk_down` still to make as a
stack `todo`. Each `Step(r)` visits one node (walk), one entry (seek), reads the end of the storage or passes one entry on (scan), with
at most one read of the storage, and the writer may step between any two.

| Action | Code |
|---|---|
| `OpenQuery`, `OpenQueryAt` | `snapshot()`, `snapshot_at(rev)` and `query()` |
| `Start(r, op, i0, i1)` | the entry of `get`, `get_sample`, `scan`: bounds, early returns, the first call |
| `Step(r)` | `_walk_down` with the callback of `get` or `get_sample`; `read_entry`; `Reader::scan`: its end, then its entries |
| `Close(r)` | dropping the query |

The field `intact` is a history variable: it becomes FALSE when a truncation cuts below the
snapshot's revision. The code has no such field; the properties use it to say what was promised.

**`StratumSample`** is `root_hash` of a sample, which is what a client verifies.

**`StorageContract`** is the abstract specification of a storage: `Put` adds an entry where the storage
ends, under the position its address names; `Cut` removes an entry and all behind it.

**`BlockStorage`** is `storage.rs` over the devices, with a Slate or another client of the trait as its user. The
device is a list of cells; identifier and version take one each, an entry two or more, of which
the last is its delimiter with offset and checksum. `cursor` is the device's, `expected` is
`BlockStorage::position`, and `next` and `tip` are what the user holds: `Slate::position` and the latest entry of
its cache. They are four records of the same place, kept by different code, which is where things go wrong. `sound` is a history
variable: no call has failed since the storage was last read. A call of the device may fail at any point of `boot`, its first seek
included, which leaves the cursor where it was (`boot_stops`).

| Action | Code |
|---|---|
| `Open`, `OpenEmpty`, `FinishBoot` | `last` and `boot`, `storage.rs:164-168`, `205-265`; a new device gets its magic written |
| `StartPut(v)`, `Write`, `FinishPut`, `FailPut` | `put`, `storage.rs:170-180`: seek if `expected` differs, cell by cell; any of the writes may fail |
| `Truncate(i)`, `Reload`, `FailReload` | `Slate::truncate`, `lib.rs:571-583`: cut at the entry, read the storage again, which may fail |
| `TraitTruncate(i)`, `TraitTruncateBehind(p)`, `First` | the calls of another client of the trait |
| `Stop` | the process ends or dies, in the middle of any call; the device stays as it is |

`view(bytes)` is the storage of `Entry` that the cells stand for: the entries read one after the other up to
the first cell that belongs to none.

**`KeyValueStorage`** is `MemKVS` and `RocksDBStorage`, a map from positions to payloads, with the lock, one writer and
any number of scans. `meta` is RocksDB's record of the next position;
`cached` has the keys of all entries that the Slate's cache may hold, where a truncation finds its entry even if the key is gone.

| Action | Code |
|---|---|
| `Open` | `last`, `memory.rs:42-46`, `rocksdb.rs:74-89` |
| `StartPut(v)`, `StartTruncate(i)`, `Acquire` | calling, and getting the write lock |
| `WriteEntry`, `DeleteEntry`, `WriteMeta`, `FinishPut` | `put` and `truncate` key by key, `memory.rs:48-66`, `rocksdb.rs:91-134` |
| `FinishTruncate`, `FailTruncate` | the Slate reads the storage again, `lib.rs:577` |
| `FailWrite`, `Stop` | a write to RocksDB fails; the process ends or dies |
| `StartScan`, `Deliver`, `ReadInCallback`, `EndScan` | `scan` under the read lock, with its callback, `memory.rs:84-100`, `rocksdb.rs:161-181` |

**`Compare`** is `StratumSample::compare` and the search its doc shows (`lib.rs:758-805`): `Start` fixes a revision and any
index, `Ask` sends the client's sample, `Compare` is the server's answer, `Continue` goes on with its
first node, and `Restart` begins again. `ClientAppend` and `ServerAppend` come between any two of these.

**`Serialize`** has an entry as the sequence of fields that `serialize.rs` and `checksum.rs` write, with the width of
each; what the readers make of it; and the marks of `inspect.rs`, computed as the report does. **`Branches`** is
`ValuesWithBranches::root` and `Node::parent`, over the values below any node of the tree. Both are pure and
are applied to the entries of every state of `Slate`.

Definitions whose comment says *Variant* are faulty versions of the definition after them (a
dropped guard, an off-by-one, a missing reload). No specification uses them. They record for each
property a bug that it detects: with the variant in place of the definition, the run finds that
property violated.

### Abstractions

* **Hashes are terms.** `combine(l, j, r)` is the tuple of its arguments: two hashes are equal
  exactly when they were computed from equal inputs. This assumes no collisions and nothing else.
* **Entries are stored whole.** An entry takes `EntrySize` bytes, any positive number that is a
  function of payload and index. This is the case in `write_entry_to`, where the fields have a fixed
  size, the index gives the number of inodes, and the payload follows. Positions are sums of sizes from
  `FirstPosition`, so a truncated and re-appended log can put another entry at an old position, or
  an old position in the middle of a new entry; both happen in the runs (payload sizes differ).
* **In `Slate` and `Query` no I/O call fails.** An `Err` occurs only for an address that does not lead to its entry.
  Calls that fail, and processes that die, are in `BlockStorage` and `KeyValueStorage`.
* **A crash is the end of a process.** Writes it has made are there when the next one starts; losing power, when
  a system may lose or reorder them, is not modelled: the code never syncs, so nothing could be said of it.
* **A cell is written at once.** A write that stops within a field leaves that field unreadable, as a missing cell
  does. A delimiter is whole or absent; what bytes of a torn tail say of an offset is any distance. A checksum
  never matches other bytes than those it was computed from.
* **Memory devices do not fail.** They are lost with the process, so they do not crash either.
* **RocksDB and `RwLock` are external.** RocksDB makes one write after the other. A reader waits behind a writer
  that holds the lock or waits for it; the standard library leaves this to the system, and the usual
  implementation prefers writers. The keys of different positions differ, hashed or not (`bijective_scramble` is not checked).
* **In `BlockStorage` and `KeyValueStorage` entries have no inodes.** Their contents belong to `Slate`.
* **Samples in `Compare` are those of intact snapshots.** `SampleProvesRoot` of `Query` is what makes them so. They arrive as sent.
* **A scan reads entry by entry.** The code reads through a buffer (`storage.rs:92`) and may so pass on an
  entry that has been truncated since; the properties say nothing about scans of cut snapshots.
* **Caches and stored entries are values.** The code shares them by `Arc` and never changes them in place.

## 3. Runs

| Run | Instance | Checks | States |
|---|---|---|---|
| `generations` | `INDEX_SIZE = 7`, *n* ≤ 127 | every formula against the tree | 128 |
| `slate` | 2 payloads of different size, levels 0, 1, 2, *n* ≤ 8 | the writer, its cache, the bytes, refinement | 1,533 |
| `walks` | one query, 2 payloads, levels 0, 1, *n* ≤ 4 | `get` and `get_sample` next to the writer | 220,490 |
| `deep` | one query, 1 payload, levels 0, 2, *n* ≤ 7, all operations | scans, trees of height 3, liveness | 153,680 |
| `blocks` | a Slate on each device, another client on memory; 2 payloads, *n* ≤ 3, crashes, one failing call | block storage under faults | 51,095 |
| `kvs` | both storages, 2 scans with and without reading callbacks, *n* ≤ 3, crashes and failing writes, one in all | key-value storages under faults, liveness | 715,069 |
| `compare` | two parties, 2 values, *n* ≤ 5 | the search for differences, liveness | 194,841 |
| `model_inode`, `put_retry`, `truncate_failure`, `truncate_again`, `rocks_crash` | | **violated**, see section 5 | |

**Properties of `generations`.** `SpineIsAChain`: the inodes of an entry belong to it and climb from its
leaf, each over the last, up to the root; `append` asserts this only in debug builds and takes the root from the last one, and the
deserializer rebuilds right children by it.
`LeftsAreOldRoots`: every left child that an entry names is a perfect-subtree root of the previous
generation, or `append` would panic. `RootsTileLeaves`, `FormulasDescribeTree` (children, ranges, validity)
and `DistancesAreHops` (access distances and their limits, sizes of samples): each O(1) formula equals
its definition on the tree written. `PbstsArePermanent`: a node stays in the tree of the next
generation exactly if it is the root of a perfect subtree.

**Properties of `slate`.** `WriterInv` is the inductive invariant of section 6. `NeverPanics`: after any
history, the next append of any value and the load for any stored entry at any level, as opening and
`snapshot_at` make it, meet no panic.
`CacheIsReloaded`: the cache carried along by migrate equals the one a reload would give.
`RootsAuthenticateLog`: the root hash stored with each entry is the hash of the values up to it,
computed top-down by splitting at the largest power of two, a definition independent of `formula.rs`.
`AddressesResolve`: each stored address leads to the node it names, with the hash that the parent
was computed from. `EntriesAreAdjacent`: no gap and no overlap between entries. `ReadersAgree`: each
entry is read as it was written, right children and heights included (`RoundTrip`); its bytes are as many as the
writer advances by and lead back to it from the end (`LastIsFound`); the report accepts links,
leaves and checksums. `ValuesProveRoot`: the values below any node, perfect or not, with the branches beside the way
to it give the root, and no debug assertion of `Node::parent` fails on the way.
`ImplementsLog`, `KeepsContract`: refinement of `SlateLog` and of `StorageContract`.

**Properties of `walks` and `deep`.** For a query whose snapshot is intact:
`GetReturnsValue`, `SampleProvesRoot` (the sample leads to the root hash of the snapshot, with exactly
`stratum_sample_size` witnesses), `ScanDeliversRange` (the range, each entry once and in order,
although `scan` checks no index), `LeafIsLogged` (what a walk has found even before it ends),
`SnapshotIsPastState` (the snapshot's root hash is still the hash of the log up to its
revision), `IntactNeverFails` (no `Err`). For every query, cut or not: `WalksNeverPanic`, `FoundOrFailed` (a call
for an index of the snapshot never answers that there is none) and `CallsReturn` (each call ends).

**Properties of `blocks`.** `FaultsSpareOldEntries`: while no call has failed, all that was acknowledged is
stored at its position, whatever process dies where; after a failing call, at least what was acknowledged before
it is, however the writer goes on. `OpenRecovers`: opening after a crash finds all that was
acknowledged, and at most the one entry whose put was running. `ReadingHeals`: once the storage has been
read, by opening it or after a truncation, and until a call fails, a truncation cuts just at its entry and never makes the device
longer, the next entry is put at the end of the device, and it is found there when put returns, whatever has failed or died
before. (Between a failing call and the next reading this is false: section 5.) `ImplementsContract`: the device seen entry by entry only ever gains an entry
at its end or loses some there, even when calls fail; the bytes they leave behind are never read as part of it.

**Properties of `kvs`.** `AckedAreStored`: what put has returned for is found at its position. `OpenRecovers`: opening counts all
that was acknowledged; that it counts no more is not said, as RocksDB's record may after a failed truncation. `ImplementsContract` as above. All
three with failing writes at every point and crashes in put (a crash in truncate: section 5). `ScanSeesOneState`: what a scan has
passed on is stored all at the same time. `EveryoneReturns`: each put, truncation and scan that
has begun ends, unless a callback reads from the storage while a writer waits for the lock.

**Properties of `compare`.** `CompareIsExact`: the nodes of an answer contain each leaf that differs, once,
and each contains one. `SearchFindsLatest`: the leaf found is the latest that differs, however many do.
`SearchEnds`: every search ends; it would not if an answer led nowhere lower, if the samples of the two
parties had different nodes (`compare` panics then), or if a root hash could not be computed.

**Why the bounds are enough.** In `generations`, `MaxN = 2^INDEX_SIZE - 1`: all generations of a 7-bit
index, the boundary case of `u64::MAX` included; the formulas are uniform in the width. In `slate`, eight
entries give perfect trees of heights 0 to 3 and all shapes between them (*n* = 7 has three roots), and
levels 0, 1, 2 give caches that hold only the latest entry, some, and (below *n* = 8) all entries. The sizes of
entries are those of the code there (a payload of no byte or two). With *n* ≤ 4 a
query walks trees of height 2 with two payloads, so that an index or a position reused after a
truncation is told apart; `deep` has height 3 and levels at which a walk crosses both cached and uncached
entries. One query is enough: queries share nothing but the storage, which they do not
change, so each property concerns one query and the writer. In `blocks`, entries of two and three cells make
torn entries of every length and let new entries end in the middle of old ones; with three entries there is one
to spare, one to lose and one to write. `MaxFaults = 1` bounds the failing calls, not the crashes; the theorems of
section 6 have no such bound. In `kvs`, three keys are enough
for a truncation of two keys to be caught between them by a fault; two scans share the lock. In `compare`, *n* = 5 is the first
tree with a node that is not perfect above another, and every set of leaves may differ.

`INDEX_SIZE = 4` in all runs but `generations` and `model_inode` admits 15 indices; `MaxN` is the bound on entries, as a guard of
`AppendEntry`, `Grow`, `StartPut`, `ClientAppend` and `ServerAppend`. `FirstPosition` is the first position of an entry: 4 bytes or two cells of
header, and 1 in key-value storages.

**Deadlock** is checked where the system cannot stop. `generations` and `model_inode` stop when `n` reaches `MaxN`. In `blocks`,
`put_retry`, `truncate_failure` and `truncate_again` a device with a torn tail or a torn header is refused by every later opening. In `kvs` a RocksDB
whose last entry a failed truncation has deleted cannot be opened, and a reading callback may wait forever (`EveryoneReturns` says when).

## 4. Fairness

* `FairSpec` of `Query` is weak fairness of `Step(r)`: a thread that has called a method of a query runs it to its end.
  It waits for nothing but the lock of a memory device, which is held for one read or write at a time
  (`storage/memory.rs:159-185`). Nothing is assumed of the writer, of opening, starting or closing queries. Under it,
  `CallsReturn` says that each call ends even when the writer truncates and re-appends below the walk
  without end, since each hop goes to a lower height or a lower index whatever is read.
* `FairSpec` of `KeyValueStorage` is weak fairness of the writer's steps within a call and of each scan's steps: a
  thread that has called the storage runs on when the lock lets it. Nobody has to call it, and nobody has to die.
* `FairSpec` of `Compare` is weak fairness of `SearchStep`: both parties go on with a search they have begun.

## 5. Findings

* `model_inode`. `Model::inode(i, j)` is documented to return the inode `b_{i,j}` and `None` "when there is no such
  inode" (`formula.rs:106`), but a perfect inode is found only if `i < n` (`formula.rs:110`) and the search
  that follows looks at ephemeral nodes only. The perfect inodes of the latest entry (at *n* = 2: `b_{2,1}`,
  the root) are thus not found. No caller in the crate
  depends on it: `append` uses `inodes()`, which takes them from the spine.
* `put_retry`. When a write of `BlockStorage::put` fails half-way, the device's cursor has moved and the storage's own
  position has not. The next put at the same position sees no reason to seek (`storage.rs:171`) and stores its entry
  behind the torn one. It is acknowledged and cannot be read at its position. `FaultsSpareOldEntries` says that nothing older is harmed.
* `truncate_failure`. `Slate::truncate` cuts the storage and then reads it again (`lib.rs:576-577`). If the reading fails,
  the Slate goes on with its old position and cache, and the next append goes behind the end.
* `truncate_again`. `FileDevice::truncate` compares the position with its cursor instead of the length of the file
  (`file.rs:58`). `set_len` leaves the cursor behind the end of the file that it has cut; if the next call, the first seek of `boot`
  (`storage.rs:212`), fails, it stays there, and the Slate keeps an entry behind the end in its cache. Another truncation at that
  entry passes the test and enlarges the file with zeros, after which it cannot be opened. One failing call is enough. The
  debug assertion of `file.rs:57`, which release builds do not have, names the missing condition. A reading that succeeds puts an end to it: `ReadingHeals` (`blocks`).
* `rocks_crash`. `RocksDBStorage::truncate` deletes entries upwards and sets the record of the next position last
  (`rocksdb.rs:117-129`). A process that dies in between leaves a record that counts entries that are gone: the
  storage cannot be opened, or opens with a hole.

Reading the code for the models has shown more of this kind, for which there is no run:

* `MemKVS::first` looks up the *last* entry (`memory.rs:38`).
* `inspect.rs` combines hashes with the height of the left child instead of the node's (`inspect.rs:88`, `lib.rs:549`) and leaves the
  twelve bytes of the delimiter out when it checks offsets (`inspect.rs:117`, `storage.rs:245-247`), so that it marks both as wrong in an intact file.
* A `FileDevice` compares a truncation with its cursor and leaves it behind the new end (`file.rs:58-59`): a client of the
  trait that puts right after a truncation leaves a hole, even when no call fails, which is why the theorems on block storages
  leave such clients to a `MemoryDevice`. A Slate reads the end in between.
* A process that dies between the two writes of the magic number (`storage.rs:215-216`) leaves a file that cannot be opened.
* After a crash in `RocksDBStorage::put` a scan of the storage itself passes on the entry behind its end; queries ask for none there.
* `compute_hash` unwraps a witness (`lib.rs:738`, `741`), so that a sample that has lost one panics where an error is documented.

## 6. Proofs

The theorems are checked by TLAPS for every width of `Index`, every set of values, every positive `EntrySize`, every
`FirstPosition`, every set of cache levels, queries and scans, every set of faults and any number of failing calls. The assumptions
are those the modules name: `IndexSizeAssumption`, `GenerationAssumption`, `StorageAssumption`, `SlateAssumption`, `QueryAssumption`,
`KeyValueAssumption`, `BlockAssumption`, `CompareAssumption`, `SerializeAssumption`, `SizeAssumption`. They give the constants their types; four things go further. `MaxN`, the bound on
entries, is an `Index` where the shape of the tree matters, since the code counts its revisions in one (a storage that held more would have
overflowed `lib.rs:528`, section 8). And in `BlockStorage` an entry has at least two cells, its payload and its delimiter, and
the first one stands behind the magic. `EntriesAreReadBack`, and no other theorem, uses that the width of `Index` is a power
of two, whose mask the heights are written with, and that `EntrySize` is the size of an entry by its number of inodes and its payload (`SizeAssumption`), which
the theorem shows to be the sum of the fields written. One kind of theorem has a hypothesis of its own: those on block storages take clients that
are not a Slate to use a `MemoryDevice` (`TraitDevice \subseteq {"memory"}`), as the run `blocks` does; on a file such a client
leaves holes even when nothing fails (section 5).

| Module | Theorem | Statement |
|---|---|---|
| `FormulaProofs` | `RootsTile` | `pbst_roots(n)` tiles 1..*n* in decreasing height, one root for each one among the digits of *n* |
| | `InodesClimb` | each of `inodes(n)` stands over the one before; its left child is a root of generation *n* - 1 |
| | `FormulasFitInodes` | `left_of`, `right_of`, `range_start` and `root_of` agree with `inodes(n)` |
| `GenerationProofs` | `RootsTileEveryGeneration` | `Spec => []RootsTileLeaves` |
| | `SpinesAreChains` | `Spec => []SpineIsAChain` |
| | `LeftsAreRoots` | `Spec => LeftsAreOldRoots` |
| | `FormulasAreTrue`, `PerfectSubtreesStay` | `Spec => []FormulasDescribeTree`, `PbstsArePermanent` |
| | `DistancesAreTrue` | `Spec => []DistancesAreHops` |
| `SampleProofs` | `SamplesProve` | a sample of the nodes that branch off has the root hash of its tree, and `stratum_sample_size` witnesses |
| `TreeProofs` | `TypeCorrect`, `WriterInvariant`, `Adjacency` | `SlateSpec => []TypeOK`, `[]WriterInv`, `[]EntriesAreAdjacent` |
| | `Refinement`, `ContractKept` | `SlateSpec => ImplementsLog`, `KeepsContract` |
| | `TreeInvariant` | `SlateSpec => []TreeInv` |
| | `MigratingIsReloading` | `SlateSpec => []CacheIsReloaded` |
| | `AddressesLeadHome` | `SlateSpec => []AddressesResolve` |
| | `WriterNeverPanics` | `SlateSpec => []NeverPanics` |
| | `RootsAuthenticate` | `SlateSpec => []RootsAuthenticateLog` |
| | `EntriesAreReadBack` | `SlateSpec => []ReadersAgree` |
| `QueryProofs` | `QueriesKeepTheirEntries`, `WalksFindTheirValue` | `Spec => []QueryInv`, `[]LeafIsLogged` |
| | `WalkInvariant` | `Spec => [](WriterInv /\ TreeInv /\ QueryInv /\ WalkInv)` |
| | `WalksKeepTheWay`, `WalksFindOrFail` | `Spec => []WalksNeverPanic`, `[]FoundOrFailed` |
| | `IntactWalksSucceed`, `GetIsRight` | `Spec => []IntactNeverFails`, `[]GetReturnsValue` |
| | `ScansDeliver`, `SnapshotsArePast` | `Spec => []ScanDeliversRange`, `[]SnapshotIsPastState` |
| | `SampleInvariant`, `SamplesProveRoot` | `Spec => []SampleInv`, `[]SampleProvesRoot` |
| | `ValuesLeadToRoot` | `SlateSpec => []ValuesProveRoot` |
| `CompareProofs` | `CompareInvariant` | `Spec => []CompareInv` |
| | `AnswersAreExact`, `SearchIsCorrect` | `Spec => []CompareIsExact`, `[]SearchFindsLatest` |
| | `CompareNeverFails`, `SearchDescends` | `Spec => []AlwaysComparable`, `AnswersLeadDown` |
| `KeyValueProofs` | `ScansSeeOneState`, `AcknowledgedStay` | `Spec => []ScanSeesOneState`, `[]AckedAreStored` |
| | `OpeningRecovers`, `KeyValueIsStorage` | `Spec => OpenRecovers`, `ImplementsContract` |
| `BlockProofs` | `BlockInvariant`, `FaultsAreSpared` | `Spec => []BlockInv`, `[]FaultsSpareOldEntries` |
| | `OpeningRecovers` | `Spec => OpenRecovers` |
| | `AppendsInvariant`, `BlockIsStorage` | `Spec => []Appends`, `ImplementsContract` |
| | `ReadingHealsStorage` | `Spec => ReadingHeals` |

**Numbers and formulas.** `FormulaProofs` begins with what the others share: a set of naturals has a least element, and a set of
naturals that holds 0 and each successor of its members holds all (`Induct`). These stand in for induction, as the induction
theorems of the library cannot be instantiated by the provers. From them come the powers of two and the
meaning of `pbst_roots`: its recursion takes the highest digit of what remains (`FloorLog`, `HighestDigit`), and the roots are just the
nodes that `is_root` describes by arithmetic alone, a one among the digits of *n* and the number that the digits from
there upwards form. The rest argues with `is_root`: a root that ends before *n* is one of the generation before (`OldRoot`), the
left children of the new entry are such roots (`SpineRoot`, `EphemeralShape`), the subtrees to both sides of an inode
meet (`InodesTile`), and their sizes (`InodeSizes`) determine what the closed formulas compute.

**Trees of generations.** `Generations` reads the tree of an entry off what was written, by a recursion over pairs that the provers cannot unfold.
`NodesUnder` is its solution in closed form: below *b*<sub>m,j</sub> lie the perfect subtrees that end before *m* and begin in its range, and the nodes of
entry *m* up to height *j*. `UnderLeaf` and `UnderInode` show that it solves the recursion's equations, and `SubtreeIs` that the recursion therefore
yields it. What remains is arithmetic: how many nodes and leaves lie below a node (`UnderCounts`, `LeavesUnder`), and that the nodes of all trees are
those with a full power of two of leaves below, and those of the last entry (`TreeIs`).

`DistancesAreTrue` rests on another reading of `entry_access_distance`: with *r* the root of a perfect subtree that holds *k*, the distance is the number of
ones in *r.i* - *k*, plus one if *r* does not end the generation (`DistanceIs`; `OnesMirrored` turns the code's count of ones from the left end of the subtree
into one from its right end). A turn to the left adds one to it (`LeftDistance`): below a perfect inode it takes away the highest one (`OneOnTop`), elsewhere
it leads to a root that does not end the generation. So the distances and the branch counts of `stratum_sample_size` solve the recursion that counts
hops (`InodeRoutes`, `RoutesAre`). The two lists of limits are decreasing marks from *n* to 1, hence each index falls between just two of them (`OneInterval`,
`LowerMarksFall`, `UpperMarksFall`), and a number below 2<sup>e</sup> has at most *e* ones, all *e* only if it is the last (`OnesBelow`), which bounds
the distances between two marks (`LowerLimit`, `UpperLimit`). The fold
of the code takes, for each distance, the claim of the last root that has one; `MarkIs` says which root that is.

**The writer.** Neither adjacency nor the refinement is inductive. A truncation finds its entry through the
cache, and appends at `position`: one needs to know that the cache only holds entries that the storage
holds too, that `position` is its end, and that each index up to the revision is stored just once, in
order and without gaps. That is `WriterInv` (with `StorageOK` and `CacheOK`). Its proof has a lemma for each
operation of the storage (`PutKeepsStorageOK`, `TruncateKeepsStorageOK`: a prefix of a good storage
is good), one for each way to get a cache (`MetadataOK`, `MigrateKeepsToCache`), and one for each action. `Refinement`
maps `AppendEntry` to `Add` (`AppendAdds`), `Truncate` to `Cut` (`TruncateCuts`), and `Reopen` to a stutter.
`ContractKept` maps them to `Put` (`AppendPuts`: the new entry's address is the end of the storage) and to `Cut` of
the contract (`TruncateCutsStorage`: the position truncated at is that of a stored entry).

**The tree.** What append writes is right only if the roots in the cache are, and the cache after an append is right only
if the entry was. `TreeInv` joins both: each stored entry has the inodes that `inodes` gives, with left addresses that resolve and
hashes computed over those of the children (`EntryOK`), and the cache is the one a reload would give. `LoadedRoots`
shows what `load` reads, hop by hop through the stored entries (`HopsAreStored`); `MigrateIsLoad` that `migrate` comes to the same roots and
keeps the same entries at every level; `AppendTree` that an entry built from such a cache is a good one. `NeverPanics` and
`AddressesResolve` follow. For `RootsAuthenticateLog` the stored hashes are compared with the Merkle tree that halves the list at powers of two:
`AllHashes` shows, from lower inodes to higher and from older entries to newer ones, that the hash of each inode is that of the part of the list below it.

**Bytes of entries.** A reader is given the fields and the position, and makes up the rest: the addresses of the nodes, the heights from their low bits,
each right child from the inode before. `Written` says that an entry has nothing else in it, and is an invariant of the writer (`WrittenInvariant`);
`EntryParts` that what is made up is right, from `InodesClimb`. `WrittenFields` finds each field in the sequence written (`FlattenedBlocks`: five behind five),
`ReadsBack` reads them. The number of bytes is the last of its partial sums (`BytesOf`), for which `EntryBytes` is a closed form.

**Queries.** `QueryInv` says of an intact query that the entries
of its cache and those at hand in its stack are still stored (`StillStored`), that its revision is not above
the writer's, and that the leaf found is logged. A truncation that keeps the query intact keeps every
entry up to its revision, and an index is stored once (`IndicesAreUnique`); so an entry of index *i* read from
the storage at any moment, by an address however old, is *the* entry *i*. This is why the check of the
index at each read is enough and the position needs no check.

`WalkInv` adds what holds of every query, cut or not. An entry that was truncated still has the shape that its index prescribes (`ShapeOK`),
so whatever a walk meets under a valid address has the nodes the walk expects: it never panics. Each call still to make covers some leaves
(`Covers`), the goal is among those of one of them until its leaf is found, and visiting a node hands its leaves on to its
children (`BelowCovers`): a walk finds its leaf or fails. On an intact query no address dangles, so it does not fail. For scans the invariant has the
prefix delivered so far, the entry that comes next, and that all of the range lies before the end once that is read, which is all that `scan`
checks.

**Samples.** The root hash of a sample is a recursion from the root down, which answers at each node from the witness if there is one. Its
existence as a function on addresses is proved by induction on heights (`HashRecursion` and its likes: children are lower, `ChildrenAreLower`),
and what it computes by `NodeInduction`, which steps from both children of an inode to the inode. The nodes
that branch off below a node are, if the goal is in its left part, its right child and those that branch off below the left one, and the
other way round (`Branches`). `SamplesProve` follows for any tree of hashes. `SampleInv` relates it to `get_sample` next to a writer: what a call has collected
and what branches off below the calls still to make are together all that branches off below the root,
and each node collected has the hash stored with it; as stored entries are unique by index, that is the hash of the snapshot's tree.

**Values with branches.** Folding two by two knows nothing of the tree. It agrees with it because the left child of an inode is perfect: a list
of 2<sup>*h*</sup> values in front stays even for *h* turns, so these fold the two parts side by side (`FoldJoint`), then their two nodes are joined
(`JoinFolds`), and further turns change nothing. `NodeFolds` says so of every node, by `NodeInduction`; `LeafCount` that the loop makes enough turns.
The branches lead from a node to the root one inode at a time (`LeadsFurther`, `NodesBelow`), each on the side on which its index is.

**Comparisons.** What `compare` names are the lowest parts of a sample, `Parts`: they tile the leaves (`PartsTile`). Two parts have the same hash only if the
same leaves lie below (`SameHash`; hashes are taken to be free of collisions), so the parts named are those that hold a difference. The two parties
may append between a request and its answer; `SampleStays` shows that no sample of an older revision changes. `CompareInv` says this of what is under way.
For the descent this is not enough: `WayInv` adds that the node a search stands at is an ancestor of the leaf it asks for, and the root or
an ancestor of the latest difference. So the answer always names a node below it (`SearchDescends`), and no sample that `get_sample`
makes of a client's list has `root_hash` or `compare` fail (`CompareNeverFails`); one that has lost a witness does (section 5). These are what `SearchEnds` needs beside fairness.

**Key-value storages.** `ScanSeesOneState` is not inductive: nothing in it keeps a writer out. `LockInv` adds
that nobody scans while a writer is at the entries or the record. `AckedInv` says which keys a call in progress may have
changed: an acknowledged entry lies before the next position and before the one on record, and a truncation has given up
what it deletes before it deletes it. For the contract this is not enough. After a put that failed or a truncation that was cut off, RocksDB's record may count
keys that are gone, or leave out keys that are there; `RecordInv` says that such a record is behind a missing key, so that the view of the storage, which ends
at the first gap, gains or loses entries at its end only (`ViewIsPrefix`, `PrefixGrows`, `PrefixShrinks`).

**Block storages.** `BlockInv` has two cases. While no call has failed (`Clean`) the device holds the magic, the acknowledged entries one behind
the other, and behind them the beginning of at most one more (`Torn`), wherever processes have died; the cursor, the two positions and the tip are
where they should be. `boot` accepts such a device if it ends with an entry (`BootAtEnd`, `BootBehind`) and refuses one that ends in the middle of one
(`TornIsRefused`): a cell of an entry that is not its last is not the end of any. Hence `OpenRecovers`. After a failing call (`Faulty`) nearly all
of that is lost; what remains is that the entries to be spared are whole and lie before the position and before any entry that a truncation may
find, and that a file whose cursor is not behind them will seek before it writes. `WriteKeeps` and `TruncateKeeps` show that no more
is needed for each next write and cut to spare them; `FaultyAfterBoot` that reopening gives such a tip again, as entries stored whole cannot overlap (`WholeApart`).

`BlockIsStorage` needs an invariant that holds after failures too, when nothing is known of the cells behind the spared entries. `Appends` has
it: each cell comes from some put, the magic stays and no entry begins within it, and on a device that is not opened for appending the next
write goes to its end or behind it. A write therefore leaves the view, which is the entries that a reader finds from the front up to the first stray
cell, or adds the entry put at its end; a truncation cuts it; the other steps leave it. These are the actions of the contract. For
`ReadingHealsStorage` one has to know in addition that reading settles where the storage stands: the cursor at the end of the device, both positions with
it, and while a put is at work just its first cells behind (`Settled`). Without failures this follows from `BlockInv` (`CleanSettled`); after
one, reading establishes it and each step that does not fail keeps it (`SettledStep`).

**Only model-checked.**
* `CallsReturn`, `EveryoneReturns`, `SearchEnds`: liveness under fairness. The safety half of `SearchEnds` is `SearchDescends`.
  Every safety invariant and every action property of a passing run is stated by a theorem.

## 7. Plan

The modules, runs and proofs that were planned are in place. What the code does and no module shows is listed in section 8; what no prover at hand
can show, liveness, stays with the runs.

## 8. Not modelled

Printed reports, hex dumps, error wording, argument parsing, benchmarks: no state. Callbacks that users pass to
`walk_down`: the callbacks of the crate are modelled. `u64` overflow of the revision
(`lib.rs:528`): no storage gets there; the arithmetic at the last index is covered by `generations`. Devices opened
read-only, which refuse to write. The 32 bits of `offset + 4` (`storage.rs:247`), which a torn tail may exceed:
the offset of a torn tail is any distance. Loss of power (section 2). The value that
`append` returns, which is the stored root again (`lib.rs:557-568`). The order of bytes within a field. `MemKVS::first` and
`RocksDBStorage::first`, which read one entry and change nothing.
