# A TLA+ verification of rudurru

rudurru is a single-node server with etcd's API: a key table in memory, a
write-ahead log (WAL) on disk, leases, watches. This directory models its storage
engine, its leases, its watch service, its byte formats and its offline log tools
in TLA+, checks the models with TLC on small instances and proves the central
invariants of the store, the log file, historical reads, watches and leases, and the
pure functions, with TLAPS. Paths below are relative to the repository root.

## 1. The system

| Part | State | Operations |
|------|-------|------------|
| Key table (`src/storage/state.rs`, `apply.rs`) | `BTreeMap<key, KeyState>`; tombstones stay in the map; `key_count` | `apply`, `apply_delete`, `delete_keys_for_lease`, `apply_record` |
| Store (`src/storage/store.rs`) | `StoreState` behind one `RwLock`: table, leases, watchers, `next_rev`, `next_lease_id`, `compact_rev`, log | `put`, `delete_range`, `txn`, `compact`, `lease_*`, `range`, `open`, `compact_wal` |
| Log file (`src/storage/wal.rs`) | file handle behind a mutex, `dirty` flag | `append_kv`, `append_kv_batch`, `scan_kv`, `open` |
| Background tasks (`src/storage/background.rs`) | none of their own | fsync every 50ms if dirty; lease expiry; log compaction |
| Watch service (`src/server/watch.rs`, `src/storage/watcher.rs`) | registry in `StoreState`; per watch an unbounded queue; one global task batching creates | create, cancel, progress, forwarders, replay in two phases |
| Lease service (`src/server/lease.rs`) | per keep-alive stream a task and a channel of 64 answers | grant, revoke, time to live, keep-alive |
| Pure functions (`src/storage/mod.rs`, `wal.rs`, `state.rs`, `store.rs`) | none | key ranges, compares, pages, codecs, file scan |
| KV, maintenance, cluster, auth services | none | call the store, or answer constants |
| Log tools (`src/bin/wal*.rs`) | none | scan, rebuild, migrate and recover log files offline |
| Other programs of `src/bin` | none | benchmarks and clients |

How they interact. Every mutation takes the store's write lock, allocates a
revision, appends to the log, applies to the table and pushes events to the
queues of the registered watchers, in that order. Durability is asynchronous:
an append only sets `dirty`. Everything else runs *without* the write lock for
part of its work, and that is where the difficulty is:

* a transaction and a batch of deletes append several records and can stop
  between two of them (an error, the death of the process);
* `Store::open` rebuilds the table by applying the records again, recomputing
  stamps that are also stored in the records;
* `compact_wal` takes a snapshot under one lock, writes it under none, and swaps
  the file under another, while writers append and the fsync task syncs;
* `range` at an old revision looks at the table under one lock, scans the log
  under none and consults the table again under others;
* a watch is replayed from the log without a lock up to a checkpoint, then under
  the lock from the checkpoint, then registered, while writers, cancels and a
  compaction run; responses of one stream come from several tasks;
* the expiry task plans its sleep under one lock, waits under none and sweeps under
  another, while grants, renewals and revocations move the deadlines.

What makes each part correct:

* store: revisions are never reused and are in log order; memory is what a
  restart would rebuild; derived data (`key_count`, `kv_bytes`, the lease table)
  agrees with the table; a transaction has one revision and is atomic;
* log: a restart finds what could be read; a power failure loses only the newest
  unsynced writes; every write becomes durable;
* historical reads: the answer is the state at the asked revision;
* watches: every event from the start revision on, once, in order; ids are
  unique; every create is answered; a progress response is truthful;
* leases: a client has a lease for as long as it was told; a lease that has run out
  goes; a stream's task goes with its client;
* pure functions: they compute what the request, the blob or the file means, on
  the edges (0xFF, empty, longest varint, torn tail, damaged record) too.

`PROJECT.json` lists the hazards line by line and the properties that cover them.

## 2. Modules

```
KeyTable            entries, records, apply / apply_delete / apply_record
  |-- KeyLog        replay of a log, compaction snapshot, client's view
  |     |-- WalCompaction      file, durability, fsync task, compact_wal, deaths
  |     |-- HistoricalRange    range, range_historical, scan_wal_range
  |     |-- WatchHub           watch streams, global loop, registry, forwarders
  |     '-- WalTools           legacy log, wal_migrate, waldoctor, walverify(_new), walrecover
  |-- RangeAnswer   compares; filters, order and limit of a range
  '-- KvStore       every operation of StoreState, failures, restart
        '-- KvStoreProofs      proofs: types, clock, replay, key count, stamps, leases, blobs, transactions
RangeBounds         key ranges on byte strings, intervals of the duplicate check
WalCodec            blobs, records, scan of a file (extended by WalTools)
Algorithms          RangeBounds + RangeAnswer + WalTools on bounded inputs
  '-- AlgorithmsProofs         proofs: ranges, compares, pages, codecs, files, legacy logs
LeaseSpec           what a lease promises
LeaseExpiry         expiry task, lease service, keep-alive stream; implements LeaseSpec
  '-- LeaseExpiryProofs        proofs: types, promises to clients, refinement
NatProofs           proofs: least numbers, induction, recursion
  '-- KeyLogProofs             proofs: replay, snapshots, views (for KvStoreProofs too)
        |-- WalCompactionProofs   proofs: flag, compaction, power failure
        |-- HistoricalRangeProofs proofs: answers at an old revision
        |-- AlgorithmsProofs      (tables left by a history)
        '-- WatchHubProofs        proofs: ids, exactness of watches
MC*                 sets for the constants of the .cfg files
```

Operators named `...` after a `Mutant:` comment are faulty variants of the
definition that follows them. They are used by no specification; each shows a
property failing when the code it stands for is wrong.

**KeyTable.** The map is a total function over `Keys` (naturals: the rank of a key
in byte order) with `Vacant` for "no entry". `KeyState` has the fields of the
struct. The encoded blob `kv_bytes` is kept as the two of its fields that exist
twice and are computed twice (`create_revision`, `version`): `apply_record` keeps
the blob of the record but recomputes the entry's own fields, so whether the two
agree is a question and not a matter of construction. Its bytes are in WalCodec.

**KvStore.** Variables are the fields of `StoreState`, the log, the locals of the
handler that holds the write lock (`batch`, `txn`) and of `Store::open` (`phase`,
`pos`, `max_rev`). A handler that appends one record is one action (`Put`,
`Compact`, `LeaseGrant`, ...). A range delete (`DeleteRange`), the delete of a
lease's keys (`LeaseRevoke`, `LeaseExpire`) and a transaction (`TxnBegin`,
`TxnPut`, `TxnDelete`, `TxnRange`, `TxnNest`, `TxnUnnest`, `TxnCommit`) are one
action per append, because an append may fail (`PutWalFails`, `BatchFails`,
`TxnPutWalFails`), an operation may be refused (`TxnRejected`), or the process may
die (`Crash`) there. `wal` is the records that a scan of the file returns. An append
that fails, or is cut short by a death, may leave part of a record behind them
(`AppendFails`, `torn`): nothing removes it, and what is appended behind it reaches
the file and memory but no scan. The store starts, and restarts, with `ReplayRecord` and
`OpenDone`. Which branch of a transaction runs is left open, as are the
operations in it: each is chosen when its turn comes, with the guard that its
keys are disjoint from the earlier writes of *its own* branch, which is what
`check_txn_branch` checks. The expiry task deletes the leases that are due one
after the other under one lock; here each is a step of its own and any lease may
be due (LeaseExpiry has the time). Entering and leaving a nested transaction does
not count towards `MaxTxnOps`.

**WalCompaction.** A file is the sequence of its records; `Torn` is a record of
which only a part was written. The fsync task is two steps (`FsyncTake` swaps the
flag, `FsyncDone` syncs), `compact_wal` three (`CompactSnapshot`, `CompactWrite`,
`CompactSwap`) with an exit by error before the rename (`CompactFails`) and after
it (`CompactReopenFails`: the handle stays on the replaced file). `Kill` keeps
what was written, `PowerFailure` keeps any prefix that contains what was synced,
perhaps with a torn record after it, of the current file or of the one before an
uncommitted rename. *Assumption about the file system:* a rename is atomic, and is
committed by the next completed `sync_all` (journalling file systems do this).
Writers are reduced to a put and a delete of one key.

**HistoricalRange.** One reader (readers do not disturb each other) runs `range`
phase by phase, with puts, range deletes, `compact` and the two ends of
`compact_wal` in between. An answer maps keys to the revision of the version
returned. `views` is the history of what could be read at each revision.

**WatchHub.** A create is known by its number. `registry` is `state.watchers`,
`queue` the unbounded channel of each watch, `got` what its forwarder has sent.
The global loop is `Checkpoint`, `Screen`, `Phase1`, `Phase2`; the stream task
`CreateRequest`, `TakeReply`, `CancelRequest`, `ProgressRequest`; the forwarder
`Forward`, `Tick`/`TickSend`, `ForwarderEnds`. When the log was replaced between
checkpoint and Phase 2 the byte offset of the checkpoint means nothing in the new
file, so any suffix of it may be scanned. The start revisions and ids a client
sends, and the gap of 10 000, are scaled down. Screening takes three short locks
and is one step: nothing that happens between them changes its outcome other than
by moving the whole of it before or after.

**LeaseSpec, LeaseExpiry.** LeaseSpec is the abstract lease table: grants, renewals,
revocations, time, and the promise that a lease that has run out goes. LeaseExpiry
is the code: `StoreState.leases`, the expiry task in its steps (`ExpiryPlan` under
the read lock, `ExpirySelect` when the timer starts, `ExpiryTimer` or
`ExpiryNotified`, `ExpirySweep` under the write lock), `expiry_notify` as the one
permit that tokio's `Notify` keeps, and one keep-alive stream: requests on their
way (`inbox`), the task, the answer it is sending, the bounded channel (`outbox`),
and a client that may leave at any time. Instants are kept as the time left until
them, so the model needs no bound on time and liveness can be checked; `Tick` may
fall between any two steps. `trust` is a history variable: for how long the client
may count on a lease from the answers it got, aged from when they were made. The
refinement mapping of `LeaseContract` sends `leases` to the abstract `held`, `ttl`
and `left`; every other variable is internal.

**RangeBounds, RangeAnswer, WalCodec, WalTools.** Pure functions as operators with
the names of the source. A byte string is a sequence over `0..MaxByte` (`MaxByte`
is 0xFF). In WalCodec and WalTools a file is a sequence of *cells*: a byte, or one
fixed-width integer; a varint byte is a group of bits plus the "more" mark. The
groups have 2 bits in place of 7 and the widths are 2 and 3 groups in place of 5
and 10, which keeps every boundary (a value that needs one group more, the longest
varint) within reach. `Crc32c` is a hash that tells the inputs of the instance
apart; `KeyValueDecode` is the library's protobuf decoder for this field order.
`TopFactor` is the 64 of `sort_kvs`.

**Algorithms.** Picks one input, looks at it, drops it, picks the next; the
properties compare the code with a reference definition at that input. Inputs are
states the program can be in: non-empty keys (`check_key`), tables left by a
history of writes, files written by the code and then cut, legacy logs with flags
as the old writer set them, one damaged cell of what the checksum covers.

## 3. Runs

| Run | Instance | What it shows |
|-----|----------|---------------|
| `kv_store` | 2 keys, 3 revisions, 5 records, 1 transaction (also with a nested one) of up to 2 operations, 1 lease id, 1 revision to compact, 1 crash, 1 failed append, either perhaps leaving part of a record | `TypeOK`, `KeyCountExact`, `RevisionsOrdered`, `StampsOrdered`, `LeasesCover`, `BlobsAgree`, `MemoryIsReplay`, `TxnOwnsRevision` hold |
| `kv_txn_atomic` | 2 revisions, 1 crash | **violated**: part of a failed transaction can be read |
| `wal_compaction` | 2 keys, 3 revisions, 2 compactions, 1 fault of any kind (a death, a failed sync, a failed file operation), torn records, fair | `TypeOK`, `LogCoversMemory`, `PowerLossBounded`, `UnsyncedPending`, `EventuallyDurable` hold |
| `wal_transparent` | 3 revisions, 1 compaction | **violated**: replaying a compacted log gives other stamps and another clock |
| `wal_torn` | 3 revisions, 1 death | **violated**: after a death in the middle of an append and a restart, records are appended behind the incomplete one, synced and lost |
| `historical` | 2 keys, 4 revisions, 1 compaction | `OldVersionsTrue`, `SingleLifetimeExact` hold |
| `historical_exact` | 3 revisions | **violated**: a read between two lifetimes returns the later one |
| `watch_replay` | 2 keys, 3 revisions, 1 stream, 1 create, 1 other request, 1 compaction | `WatchExact` holds |
| `watch_batch` | 1 key, 2 streams, 2 creates, ids chosen by client or server, 1 other request, fair | `UniqueIds`, `CreateAnswered` hold |
| `watch_progress` | 1 key, 1 stream, 1 create | **violated**: a progress response overtakes queued events |
| `lease_expiry` | 2 leases, one of them kept alive; TTLs below the minimum, granted and refused; a channel of one answer; restarts; unbounded time, fair | `TypeOK`, `ClientLeaseHolds`, `StreamTaskEnds` hold and `LeaseContract`: LeaseExpiry implements LeaseSpec, liveness included |
| `algorithms` | keys of up to 2 bytes over 3 byte values, tables of 3 writes, all blobs of `MCKvFields`, files of 2 records cut at every cell, legacy logs of 4 records, 2 records cut at every cell and with every single damaged cell | `MatchExact`, `ScanExact`, `OverlapExact`, `CompareExact`, `PageExact`, `CodecExact`, `PatchExact`, `ScanWhole`, `TornHidesLater`, `MigrationFaithful`, `RecoveryKeepsData`, `CutLogRead`, `DamagedLogRead` hold |

Why the bounds are enough. Two keys are what the smallest batch that can stop half
way, the smallest range, and the smallest "other key" need. Three or four
revisions give a key two lifetimes (put, delete, put) and one more write before or
after. `kv_store` has room for a transaction that puts both keys, a range delete of both
that stops half way, and a write after it. It has one transaction (`MaxTxns`)
among puts, deletes and leases before and after it; the theorems about KvStore
have no such bound. One crash separates "before" and "after"; a second one starts from a state
that the first one already reaches, since a restart keeps only the log. Two
operations are the smallest transaction that can stop half way, or whose nested
transaction writes a key of its parent. In `lease_expiry` the second lease gives
the task a deadline other than the one that moves. In `algorithms` two bytes over
three values contain every relation of a key to a range end (prefix, increment,
zero suffix, 0xFF last or first), and the keys tried against a bound are one byte
longer than it. One of the values of a legacy record is the marker cell (`Magic`), so
that a scan which resumes inside a damaged record meets a marker that is none. The limits appear as guards and each is a named constant (`Max...`).

Deadlock is checked in the `kv_*`, `historical*`, `lease_expiry` and `algorithms` runs. In the `wal_*` and
`watch_*` runs an idle server whose bounds are used up has nothing to do, which is
not an error: those configurations say `CHECK_DEADLOCK FALSE`.

Fairness. `EventuallyDurable` assumes weak fairness of the fsync task (a loop that
sleeps 50ms; its two steps are never blocked for ever) and of the restart.
`CreateAnswered` assumes weak fairness of the global loop (of its four steps together:
at most one of them is possible at a time), one spawned task that waits for a timer of 50ms and for a lock that every handler
releases. `StreamTaskEnds` and `LeaseContract` assume that time passes and weak
fairness of the steps of the expiry task and of the stream task, which tokio polls
when their timer, their notification, their request or room in their channel is
there. Clients, writers and compactions get no fairness; in particular no client
is assumed to read its answers.

What is excluded from the passing properties, and why:

* `LogCoversMemory`, `PowerLossBounded`: files with a torn record (run `wal_torn`)
  and a handle that is on another file than the path (`CompactReopenFails`). In
  the second case everything written until the next compaction or restart is
  gone: `compact_wal` returns with `?` between the rename and the swap of the
  handle.
* `UnsyncedPending`: a failed `sync_all` (the flag is already cleared) and a restart
  (`WalFile::open` starts with a clear flag): unsynced records then wait for the next
  write. `EventuallyDurable` holds after both, from the next raised flag on.
* `MemoryIsReplay`: between a batch of deletes that failed part way and the next
  restart (the tombstones are in the log and not in memory), and from the first
  append behind an incomplete record on until the next restart (it is in memory and
  not in what a scan returns). A failed append alone, a restart from a file that
  ends in part of a record, and everything up to the next append are covered.
  `BlobsAgree`: after a batch that failed part way, since a later put continues a
  lifetime that a replay has ended.
* `RevisionsOrdered` speaks of the records that a scan returns: a revision whose
  records are behind an incomplete one is given out again after a restart.
* `LeasesCover`: leases whose revocation failed after the lease was removed.
* `SingleLifetimeExact`: keys with several lifetimes (run `historical_exact`), and
  reads whose log was compacted past the target before the scan.
* `WatchExact`: watches whose replay met a compaction of the log, and, for the
  exactness at the lower end, watches with a start in the future: Phase 2 does not
  compare with `start_revision`, so such a watch can get earlier events.
* `ClientLeaseHolds`: leases that were revoked, and leases that a restart does not
  bring back with the time the client was promised: those without keys (the lease
  table is not persisted) and those with a TTL above the default of `Store::open`.
* `ScanExact`: ranges whose end is before their start, which are outside of the
  domain of `BTreeMap::range`.
* `MatchExact`: the range end key + `\0`, of which code and `proto/rpc.proto` disagree
  (below).
* `PageExact`: `keys_only` with an order by another field than the key: the blobs
  are emptied before the sort looks at them.
* `CodecExact`: the read of the revision through its offset for keys so long that the
  offset wraps (`OffsetLimit`).
* `DamagedLogRead`: damage to the magic number, the revision, the lengths or the
  checksum itself, of which a legacy checksum covers none, and, for `walrecover`,
  damage to the flags: a lease flag that flips moves the place where it goes on. For
  `waldoctor` and `walverify` a cell of the damaged record that looks like the marker
  (the bytes 0x55 0x52 anywhere in it): they go on one byte behind the start of the
  record, may take what follows such a cell for a header with lengths beyond the end
  of the file, and stop there. The property then allows, beside all other records,
  those before the damage, and nothing else.
* `RecoveryKeepsData`: legacy logs whose updates carry `IS_CREATE` too.
  `prd/wal-migration.md` lists as a fix that the flag is "now only set on creates", so a
  log from before may have them; `create_revision` of the rebuilt state is then the
  last update.

### Disagreements between code and documents

The five violated properties are quotations; `PROJECT.json` has the places.

1. `txn`: "Readers therefore see the txn either entirely or not at all". A
   transaction whose second put has `ignore_value` on a key that does not exist
   returns an error, and its first put stays (section 3.9 of
   `prd/txn-single-revision.md` knows of this half); so does the first put of a
   transaction during which the process dies.
2. `prd/wal-gc.md`: a restart from the compacted log is "identical to replaying
   the full original WAL". It keeps the keys and values, but `version` restarts
   at 1, `create_revision` becomes the last `mod_revision`, and the clock goes
   back if the newest revision was a delete.
3. `prd/data-model.md`: "Crash during write: the partially-written record fails CRC
   check and is skipped. The previous valid record is the last committed state." It
   is not skipped: the scan ends there. Nothing removes it at open, and all that is
   appended after the restart, synced or not, is gone at the next one. A failed
   append in a running server has the same effect (`WriteFails`, `AppendFails`).
4. `range_historical`: "the key should exist at target". After put (1), delete
   (2), put (3), a read at revision 2 returns the version of revision 3.
5. `proto/rpc.proto`: events after a progress response have a higher revision. The
   stream task answers at once while events wait in the forwarders.

Two more have no run of their own: the references of `MatchExact` and `CompareExact`
show them.

* `proto/rpc.proto`: "range_end is the upper bound on the requested range [key,
  range_end)". `resolve_range` takes key + `\0`, the end of the interval that has
  only the key in it, for a prefix, and matches every key that starts with it.
  `AsksFor` is the interval; `MatchExact` without its exclusion of this end fails.
* `prd/data-model.md`, 5.1.4: "Compare on a key that doesn't exist with `EQUAL`:
  `false`". A missing key has version, revisions and lease 0 and the empty value, and
  is equal to these, as clients that create a key with "version = 0" rely on.
  `CompareExact` states what the code does (`Absent`) and not this sentence.

Also seen while modelling: a nested transaction may write
a key that its parent writes (the duplicate check is per branch); a cancel, and a
forwarder that finds its client gone, removes every registration with that id, of
any stream; a client that leaves while its create is pending leaves a
registration behind; a watch still sends queued events after the answer to its
cancel; `next_lease_id` is restored only from keys that are alive; `eval_compare`
ignores `range_end`, with which `prd/data-model.md` says a compare checks any key of
the range; nothing checks that a range starts before it ends; `mod_rev_offset` is cut to 16 bits, so the
record of a key of more than about 65 kB has a wrong offset (`OffsetLimit`);
`range_historical` applies the revision filters to the current stamps of a key; a
keep-alive after a restart renews with the default TTL of an hour and not with the
one that was granted; a header with a length below the minimum makes the scan, and
with it `open`, fail instead of end; `walrecover.rs` says that its output "can be
loaded by Rudurru", but it is in the legacy format and needs `wal_migrate` first
(which is how `RecoveryKeepsData` reads it); `wal_migrate` appends to an existing
output file and flags every put as a creation, so that `walverify_new` reports
`create_revision` = `mod_revision` for a migrated log.

## 4. Proofs

Every theorem below holds for every finite set of keys and every value of the other
constants within the named assumptions beside their declarations: `KeysAssumption`,
`ValuesAssumption` (KeyTable); `BoundsAssumption`, `LimitsAssumption` (KvStore);
`TornAssumption`, `BoundsAssumption` (WalCompaction); `RequestsAssumption`,
`BoundsAssumption` (WatchHub); `BoundsAssumption` (HistoricalRange); `TtlAssumption`
(LeaseExpiry); `MaxByteAssumption` (RangeBounds), `TopFactorAssumption`, `OrderedValues`
(RangeAnswer), `CodecAssumption` (WalCodec), `MagicAssumption` (WalTools) and
`BoundsAssumption`, `FieldsAssumption`, `LegacyAssumption` (Algorithms). They say that bounds are
numbers, that ranges are sets of keys, that the minimal TTL is positive and the
one after a restart between it and the largest, that there are at least three byte
values, that values are ordered, that a u64 has at least as many groups as a u32,
that the fields to encode are of the code's types, and of a legacy log that its numbers
are u64 and its keys so short that the u32 offsets of the current format
do not wrap. No bound is fixed.

**Induction over data.** Replaying a log, ordering the keys of a snapshot and
collecting the events of a log are recursive functions over the positions of a
sequence. `NatProofs` gives what the proofs about them need without a theorem that
takes a predicate: a claim is given as the *set* of the numbers (`InductionOnSet`) or
sequences (`InductionOnSeq`) for which it holds, both from `NatLeast`, and `Recursion`
says that a recursively defined function exists and obeys its equation. `KeyLogProofs`
has the consequences: replaying one record more is applying it (`ReplayAppend`), two
tables that show a reader the same still do after one more record
(`RecordSameView`), and a snapshot replays to what could be read (`SnapshotView`).

**The store** (`KvStoreProofs`; the invariants are in KvStore).

* `TypeCorrect`: `Spec => []TypeOK`, by induction with one step per action.
* `RevisionsAreOrdered`: `Spec => []RevisionsOrdered`. Not inductive: one must
  know that the handler that holds the lock holds the *newest* revision, that
  there is no such handler during a replay, and that the replay has seen exactly
  the revisions behind it. That is `ClockInv` (`LocksIdle`, `ClockHeld`).
* `RestartRestoresTable`: `Spec => []MemoryIsReplay`. The history variable
  `images` records what replaying each prefix of the log yields. `ReplayInv` says
  that during a replay memory is the image of its position, and that in a running
  store the last image is memory *with the tombstones that a batch has logged so
  far applied*. The heart is two lemmas: replaying the record of a put does what
  the put did (`PutReplays`), and replaying one more tombstone of a batch applies
  one more of its deletes (`TombstoneReplays`), which needs that the keys of a
  batch are alive and distinct (`BatchAlive`). An append behind an incomplete record
  adds no image and sets `diverged`; a restart clears it, since memory is then rebuilt
  from what a scan returns.
* `KeyCountIsExact`: `Spec => []KeyCountExact`. Inductive relative to `TypeOK`,
  `ClockInv` and `ReplayInv`: each way of applying a write moves the set of live
  keys by what the counter is moved by. `BatchAlive` is what makes the saturating
  subtraction of a batch exact.
* `StampsAreOrdered`: `Spec => []StampsOrdered`, with `StampsInv` (the clock of a
  replay is the revision it has come to, so that a replayed entry is behind it).
* `LeasesAreCovered`: `Spec => []LeasesCover`, with `LeaseInv`: while a batch deletes
  the keys of a lease that is already gone, every key of that lease is in the batch.
* `BlobsAlwaysAgree`: `Spec => []BlobsAgree`, with `BlobInv`: not only memory but
  every image a restart passes through has blobs that agree with its entries.
* `TxnRevisionIsOwned`: `Spec => TxnOwnsRevision`, the action property, from
  `ClockInv`: while a transaction holds a revision only its own steps, the steps
  of its batches and a crash are possible.

**The log file** (`WalCompactionProofs`; the invariants are in WalCompaction).

* `TypeCorrect`, with `StampInv`: no record is stamped above the last revision.
* `NoLostFlag`: `Spec => []UnsyncedPending`, with `PendingInv`.
* `CompactionLosesNothing`: `Spec => []LogCoversMemory`. `MemoryInv` adds that the
  snapshot of a compaction under way, *completed by the records appended since its
  mark*, is a log of the memory too; the swap then installs such a log. It holds
  because the same records keep two tables that look the same looking the same,
  although their stamps differ.
* `PowerLossIsBounded`: `Spec => []PowerLossBounded`. `DurableInv` says of every file
  that may come back (the current one, and the replaced one while the rename is not
  committed) that each of its ends from the durable one on replays to a state that
  could be read and is not older than the last completed sync, also while the server is down.

**Watches** (`WatchHubProofs`).

* `TypeCorrect`: `Spec => []TypeOK`, with what the loop has in its hands typed.
* `IdsAreUnique`: `Spec => []UniqueIds`, with `IdsInv`: past the screening the batch
  and the registry have no id in common and none occurs twice in the batch. Screening
  and registering take different locks; the proof is that nobody else registers.
* `WatchesAreExact`: `Spec => []WatchExact`. `LogInv` relates three things to the history
  of events: the log (behind a head that a compaction left, its records are the events,
  one for one), the log that a compaction is about to install, and the checkpoint
  (its offset is where the records of its revision end, as long as the log is not
  replaced), with the versions a scan has in hand at each of them. `QueuesOk` says that a
  pending create has in its queue exactly its replay up to the checkpoint. Phase 1 makes
  that true, Phase 2 completes it from the checkpoint and registers under the lock
  (`ReplayExact`), and from then on every write extends both sides (`CommittedWatch`).

**Reads at an old revision** (`HistoricalRangeProofs`).

* `OldVersionsAreTrue`: `Spec => []OldVersionsTrue`, and `SingleLifetimesAreExact`:
  `Spec => []SingleLifetimeExact`. `HistoryInv` says what each source of the answer tells of
  *every* past revision: an entry is right about the revisions its lifetime covers, and
  a key with one lifetime could be read at no others (`EntryOk`); a put that is the last record of a
  key up to a revision is the version of that revision, also in a log whose head was
  replaced, and from the revision of the last snapshot on there is one for every key
  (`WalOk`); the snapshot of a compaction under way is the view at its revision, and its
  mark separates older from newer records (`GcOk`). The swap of the file keeps `WalOk`
  because a version that is still current at the snapshot was current at every revision
  since its own (`ViewsOk`). `ReaderInv` carries what Phase 1 saw over to Phase 3: of the keys
  with one lifetime, those that could be read are exactly the direct and the stale ones.
  No record of the past changes afterwards, so writes between the phases do no harm.

**Leases** (`LeaseExpiryProofs`).

* `TypeCorrect`: `Spec => []TypeOK`.
* `ClientLeasesHold`: `Spec => []ClientLeaseHolds`. `PromiseInv` extends it to the
  answers that the client has not read: each would still be true when it arrives.
* `LeaseTableRefines`: `Spec => LeaseSafety`, the safety part of the refinement
  `LeaseContract`: initial states map to initial states, each step to a step of
  LeaseSpec or a stutter (`TableStep`).

**The pure functions** (`AlgorithmsProofs`). `InputPicked` says where an input comes
from; each theorem then shows its property for all such inputs, of any length, width
and number. The recursive definitions of the model are recursive functions, so that
`Recursion` gives their equations.

* `MatchesAsRequested`, `ScansWhatMatches`, `OverlapIsExact`: `Spec => []MatchExact`,
  `[]ScanExact`, `[]OverlapExact`. The order of byte strings is characterised by the first
  place where two of them differ (`BeforeCells`); from it follow that it is total and
  transitive, that the strings with a prefix are an interval, and that `prefix_end` is its end,
  0xFF bytes dropped. Two intervals overlap exactly if one starts in the other; that such an
  overlap contains a key that is short enough is what makes the equivalence hold in both
  directions. `AsksFor`, what a request means, is the definition of the API; that a
  prefix is kept for the end "key plus one" is right by `PrefixEncodedIsEnd`.
* `ComparesAreExact`: `Spec => []CompareExact`. By induction on the history the table
  has for every key the writes of its current lifetime (`TableKeeps`, from `LifeStep`
  and `MinMaxGrow` below), and a compare looks at nothing else.
* `PagesAreExact`: `Spec => []PageExact`, from
  what a history can leave in a table. The order of `sort_kvs` is a strict total order on
  the entries of distinct keys, a finite set has a sorted sequence, and
  the first `limit` of the selected top entries are the first `limit` of all.
* `CodecIsExact`, `PatchIsExact`: `Spec => []CodecExact`, `[]PatchExact`. A number that fits n
  groups is the sum of its groups (by induction on the group); the varint encoder's length
  is the place the decoder stops at. The blob is laid out once, field by field with
  its position, and a cursor invariant (position, fields read so far, not stuck) is carried
  through each reader; on a truncated blob the first field that is missing sticks the cursor.
* `ScanIsWhole`: `Spec => []ScanWhole`. A file is its records one behind the other
  (`JoinedPieces`, for any serialisation), and cut anywhere it is its whole records and
  less than one more (`JoinedCutIs`). The scan is a recursion to later positions; going
  backwards from the end, what it reads from the start of a record on is that record and
  the rest. That less than a record ends the scan without an error is the
  length check, so the checksum is needed only for records that are whole.
* `CutLogsAreRead`: `Spec => []CutLogRead`, by the same lemmas for the legacy
  serialisation. `LegacyReader` is what the four loops have in common: a whole record is
  read and the loop goes on behind it, less than one ends it. Where they differ (how to
  go on after a record that does not check) is not reached in a cut log.
* `MigrationIsFaithful`, `RecoveryKeeps`: `Spec => []MigrationFaithful`,
  `[]RecoveryKeepsData`, chains of up to four programs over a whole history. `LifeTo` is
  the set of writes of a key that count after the first i records: since its last delete.
  A record ends it, adds to it or is of another key (`LifeStep`), so that the smallest, the
  largest and the number of its writes change by that record (`MinMaxGrow`). By induction
  on the records the maps of `migrate` (`MigrateIs`), of `reconstruct_state` (`RebuildIs`)
  and of the replay (`ReplayShows`) have exactly the keys with a lifetime, with these
  three. `OpenMigrated` joins the links: the legacy log is read back whole, each migrated
  record keeps its fields through `serialize`, the scan and the decoder, and is replayed
  into the table. walrecover writes one record for each live key, in key order, whose
  lifetime is that record (`RecoveredLives`); the rest is the same argument once more.

Only model-checked: liveness under fairness (`EventuallyDurable`, `CreateAnswered`,
`StreamTaskEnds`, and in `LeaseContract` that a lease which has run out goes), which is
outside of the prover's reach; and `TornHidesLater` and `DamagedLogRead`, which are true as
long as the checksum tells two particular inputs apart, and of no checksum for all
inputs.

## 5. Not modelled

Event filters and watches without `prev_kv`; negative lease ids; the bounded channel
of a watch stream to its client (4096 slots), whose back-pressure only delays a
forwarder; the paging of `range_historical` (it shares `sort_kvs` and the limit with
`range_current`); the timer and the size threshold of the compaction task, which in
the models starts a compaction at any time; `lease_leases` (a read); log messages,
reports, key categories and dumps of the tools. Whole components: the KV service
(`src/server/kv.rs`: each handler calls the store method of the same name and logs),
maintenance, cluster and auth (constants, `Unimplemented`, or reads), `src/main.rs`,
`src/server/mod.rs`, `src/client.rs` (wiring), and the benchmarks and clients of
`src/bin`, which keep no state of the system.

## 6. Plan

1. Done: KeyTable, KvStore and its first proofs, WalCompaction, HistoricalRange,
   WatchHub; LeaseSpec and LeaseExpiry; RangeBounds, RangeAnswer, WalCodec, WalTools
   and Algorithms.
2. Done: the proofs of section 4: every safety and action property of a passing run but
   `TornHidesLater` and `DamagedLogRead`.
3. Next: those two, from an assumption that names the inputs the checksum
   has to tell apart.
