------------------------------ MODULE KvStore ------------------------------
(***************************************************************************)
(* The store of rudurru: StoreState behind one write lock, its operations  *)
(* (storage/store.rs, storage/apply.rs, storage/background.rs) and its     *)
(* reconstruction from the write-ahead log when the process starts.        *)
(*                                                                         *)
(* Every handler runs under the write lock.  A handler that appends one    *)
(* record is one step.  A handler that appends several records (a range    *)
(* delete, the delete of a lease's keys, a transaction) takes one step per *)
(* append, with `batch` and `txn` standing for its local variables while   *)
(* it holds the lock: the process can die, or an append can fail, between  *)
(* any two of them.                                                        *)
(*                                                                         *)
(* Not here: what a power failure does to the file and the compaction of   *)
(* the file (module WalCompaction), when a lease expires, watchers (module *)
(* WatchHub) and reads of old revisions (module HistoricalRange).  A crash *)
(* here is the death of the process: what was written to the file stays,   *)
(* also the part of a record that an append was able to write before it    *)
(* failed or the process died: everything appended behind it is out of     *)
(* reach of a scan.                                                        *)
(***************************************************************************)
EXTENDS KeyTable

CONSTANTS
    Bounds,        \* the sets of keys a range bound can denote
    MaxRev,        \* bound: revisions one process may allocate
    MaxLog,        \* bound: records in the log
    MaxLeaseId,    \* bound: lease ids
    MaxCompactRev, \* bound: revisions a client asks to compact
    MaxTxns,       \* bound: transactions
    MaxTxnOps,     \* bound: puts, deletes and ranges of one transaction
    MaxCrashes,    \* bound: process deaths
    MaxWalErrors   \* bound: appends that return an error

ASSUME BoundsAssumption == Bounds \subseteq SUBSET Keys
ASSUME LimitsAssumption ==
    /\ MaxRev \in Nat /\ MaxLog \in Nat /\ MaxLeaseId \in Nat
    /\ MaxCompactRev \in Nat /\ MaxTxns \in Nat /\ MaxTxnOps \in Nat
    /\ MaxCrashes \in Nat /\ MaxWalErrors \in Nat

VARIABLES
    \* StoreState
    keys, leases, next_rev, next_lease_id, key_count, compact_rev,
    \* the log file: the records that a scan of it returns, and whether an
    \* incomplete record lies behind them
    wal, torn,
    \* locals of the operation that holds the write lock
    batch, txn,
    \* locals of Store::open: phase, records replayed so far, max_rev
    phase, pos, max_rev,
    \* bounds
    txns, crashes, wal_errors,
    \* history: images[i+1] is what replaying the first i records yields;
    \* diverged: a scan returns records of a failed batch that memory lacks,
    \* or does not return what memory was given behind an incomplete record;
    \* partial: the former has happened at some time; orphans: leases removed whose
    \* keys could not be deleted; broken: revisions of transactions that
    \* returned an error, or died with work left, after logging a write
    images, diverged, partial, orphans, broken

mem == <<keys, leases, next_rev, next_lease_id, key_count, compact_rev>>
lock == <<batch, txn>>
opening == <<phase, pos, max_rev>>
limits == <<txns, crashes, wal_errors>>
history == <<diverged, partial, orphans, broken>>
vars == <<mem, wal, images, torn, lock, opening, limits, history>>

LeaseIds == 1 .. MaxLeaseId

-----------------------------------------------------------------------------
(* Locals of a batch of deletes and of a transaction.                       *)
Batches ==
    [on: BOOLEAN, rev: Nat, doomed: SUBSET Keys, todo: SUBSET Keys, lease: Nat]
NoBatch == [on |-> FALSE, rev |-> 0, doomed |-> {}, todo |-> {}, lease |-> 0]

(* rev = 0 is None; outer and inner are the keys covered by the writes of   *)
(* the branch of the transaction and of the nested one being applied; left  *)
(* counts the operations still to apply.                                    *)
Txns ==
    [on: BOOLEAN, rev: Nat, nested: BOOLEAN, outer: SUBSET Keys,
     inner: SUBSET Keys, left: Nat]
NoTxn == [on |-> FALSE, rev |-> 0, nested |-> FALSE, outer |-> {},
          inner |-> {}, left |-> 0]

PutRequests ==
    [key: Keys, value: Values, lease: {0} \cup LeaseIds,
     ignore_value: BOOLEAN, ignore_lease: BOOLEAN]

current_revision == next_rev - 1
LockFree == phase = "up" /\ ~batch.on /\ ~txn.on
LastImage == images[Len(wal) + 1]

-----------------------------------------------------------------------------
Init ==
    /\ keys = EmptyTable /\ leases = {} /\ next_rev = 1 /\ next_lease_id = 1
    /\ key_count = 0 /\ compact_rev = 0
    /\ wal = <<>> /\ images = <<EmptyTable>> /\ torn = FALSE
    /\ batch = NoBatch /\ txn = NoTxn
    /\ phase = "replay" /\ pos = 0 /\ max_rev = 0
    /\ txns = 0 /\ crashes = 0 /\ wal_errors = 0
    /\ diverged = FALSE /\ partial = FALSE
    /\ orphans = {} /\ broken = {}

-----------------------------------------------------------------------------
(* Puts.                                                                    *)

StoredValue(req) == IF req.ignore_value THEN keys[req.key].value ELSE req.value
StoredLease(req) == IF req.ignore_lease THEN keys[req.key].lease ELSE req.lease

(* Mutant: the lease is not looked up.                                      *)
ValidatePutAnyLease(req) ==
    /\ req.ignore_value => req.value = EmptyValue
    /\ req.ignore_lease => req.lease = 0
    /\ req.ignore_value \/ req.ignore_lease => Alive(keys, req.key)

ValidatePut(req) ==
    /\ req.ignore_value => req.value = EmptyValue
    /\ req.ignore_lease => req.lease = 0
    /\ req.ignore_value \/ req.ignore_lease => Alive(keys, req.key)
    /\ StoredLease(req) = 0 \/ StoredLease(req) \in leases

(* The single place where the log grows.  Behind an incomplete record the   *)
(* bytes go to the file as well, but no scan will come to them.             *)
AppendKv(rec) ==
    /\ Len(wal) < MaxLog
    /\ IF torn
       THEN UNCHANGED <<wal, images>>
       ELSE /\ wal' = Append(wal, rec)
            /\ images' = Append(images, ApplyRecord(LastImage, rec))
    /\ diverged' = (diverged \/ torn)
    /\ UNCHANGED torn

(* put_at: append, then apply.                                              *)
PutAt(req, rev) ==
    /\ AppendKv(PutRecord(keys, req.key, StoredValue(req), StoredLease(req), rev))
    /\ keys' = ApplyPut(keys, req.key, StoredValue(req), StoredLease(req), rev)
    /\ key_count' = IF Alive(keys, req.key) THEN key_count ELSE key_count + 1

AllocRevision == next_rev <= MaxRev /\ next_rev' = next_rev + 1

Put(req) ==
    /\ LockFree
    /\ ValidatePut(req)
    /\ AllocRevision
    /\ PutAt(req, next_rev)
    /\ UNCHANGED <<leases, next_lease_id, compact_rev, lock, opening, limits,
                   partial, orphans, broken>>

(* write_all fails with none or some of the bytes of the record written.    *)
AppendFails ==
    /\ wal_errors < MaxWalErrors /\ wal_errors' = wal_errors + 1
    /\ torn' \in {torn, TRUE}

(* The append fails: the revision is spent, nothing is applied.             *)
PutWalFails(req) ==
    /\ LockFree
    /\ ValidatePut(req)
    /\ AllocRevision
    /\ AppendFails
    /\ UNCHANGED <<keys, leases, next_lease_id, key_count, compact_rev, wal,
                   images, lock, opening, txns, crashes, history>>

-----------------------------------------------------------------------------
(* Batches of deletes: append_kv_batch writes one record after the other,   *)
(* and only when all are written are the deletes applied.                   *)

StartBatch(ks, rev, lease) ==
    /\ Len(wal) + Cardinality(ks) <= MaxLog
    /\ batch' = [on |-> TRUE, rev |-> rev, doomed |-> ks, todo |-> ks, lease |-> lease]

DeleteRange(bound) ==
    /\ LockFree
    /\ AllocRevision
    /\ StartBatch(AliveKeys(keys) \cap bound, next_rev, 0)
    /\ UNCHANGED <<keys, leases, next_lease_id, key_count, compact_rev, wal,
                   images, torn, txn, opening, limits, history>>

LogTombstone ==
    /\ batch.on
    /\ \E k \in batch.todo :
         /\ \A j \in batch.todo : k <= j
         /\ AppendKv(DeleteRecord(keys, k, batch.rev))
         /\ batch' = [batch EXCEPT !.todo = @ \ {k}]
    /\ UNCHANGED <<mem, txn, opening, limits, partial, orphans, broken>>

SaturatingSub(a, b) == IF a >= b THEN a - b ELSE 0

(* Mutant: the tombstones are stamped with the next revision.               *)
FinishBatchNextRev ==
    /\ batch.on /\ batch.todo = {}
    /\ keys' = ApplyDeletes(keys, batch.doomed, batch.rev + 1)
    /\ key_count' = SaturatingSub(key_count, Cardinality(batch.doomed))
    /\ batch' = NoBatch
    /\ UNCHANGED <<leases, next_rev, next_lease_id, compact_rev, wal, images, torn,
                   txn, opening, limits, history>>

FinishBatch ==
    /\ batch.on /\ batch.todo = {}
    /\ keys' = ApplyDeletes(keys, batch.doomed, batch.rev)
    /\ key_count' = SaturatingSub(key_count, Cardinality(batch.doomed))
    /\ batch' = NoBatch
    /\ UNCHANGED <<leases, next_rev, next_lease_id, compact_rev, wal, images, torn,
                   txn, opening, limits, history>>

(* What the history keeps of a transaction that ends without finishing.     *)
Logged(rev) == \E i \in 1 .. Len(wal) : wal[i].mod_revision = rev
Applied(rev) ==
    \E k \in Keys : keys[k].mod_revision = rev \/ keys[k].delete_revision = rev
TxnTrace ==
    IF txn.rev # 0 /\ (Logged(txn.rev) \/ Applied(txn.rev)) THEN {txn.rev} ELSE {}

(* An append of the batch fails: `?` leaves the handler, and the            *)
(* transaction around it, with the records written so far in the log, and   *)
(* perhaps a part of the one that failed.                                   *)
BatchFails ==
    /\ batch.on /\ batch.todo # {}
    /\ AppendFails
    /\ batch' = NoBatch /\ txn' = NoTxn
    /\ broken' = broken \cup TxnTrace
    /\ orphans' = IF batch.lease = 0 THEN orphans ELSE orphans \cup {batch.lease}
    /\ diverged' = (diverged \/ batch.todo # batch.doomed)
    /\ partial' = (partial \/ (batch.todo # batch.doomed /\ ~torn))
    /\ UNCHANGED <<mem, wal, images, opening, txns, crashes>>

-----------------------------------------------------------------------------
(* Transactions.  The number of operations (those of nested transactions    *)
(* included) is fixed at the start and each is chosen when it is applied;   *)
(* check_txn_branch, which runs before anything is applied, shows as the    *)
(* guard that a write is disjoint from the earlier writes of its own        *)
(* branch.  Which branch the compares select is left open.                  *)

TxnBegin(n) ==
    /\ LockFree
    /\ txns < MaxTxns /\ txns' = txns + 1
    /\ txn' = [NoTxn EXCEPT !.on = TRUE, !.left = n]
    /\ UNCHANGED <<mem, wal, images, torn, batch, opening, crashes, wal_errors,
                   history>>

InTxn == txn.on /\ ~batch.on
TxnStep == InTxn /\ txn.left > 0

BranchWrites == IF txn.nested THEN txn.inner ELSE txn.outer
CheckTxnBranch(ks) == ks \cap BranchWrites = {}

(* Mutant: every write of a transaction takes a revision.                   *)
AllocTxnRevisionEach == AllocRevision

(* get_or_insert_with(alloc_revision)                                       *)
TxnRev == IF txn.rev = 0 THEN next_rev ELSE txn.rev
AllocTxnRevision ==
    IF txn.rev = 0 THEN AllocRevision ELSE next_rev' = next_rev

TxnWrote(ks) ==
    txn' = [txn EXCEPT !.rev = TxnRev, !.left = @ - 1,
                       !.outer = IF txn.nested THEN @ ELSE @ \cup ks,
                       !.inner = IF txn.nested THEN @ \cup ks ELSE @]

TxnPut(req) ==
    /\ TxnStep
    /\ CheckTxnBranch({req.key})
    /\ ValidatePut(req)
    /\ AllocTxnRevision
    /\ PutAt(req, TxnRev)
    /\ TxnWrote({req.key})
    /\ UNCHANGED <<leases, next_lease_id, compact_rev, batch, opening, limits,
                   partial, orphans, broken>>

TxnDelete(bound) ==
    /\ TxnStep
    /\ CheckTxnBranch(bound)
    /\ AllocTxnRevision
    /\ StartBatch(AliveKeys(keys) \cap bound, TxnRev, 0)
    /\ TxnWrote(bound)
    /\ UNCHANGED <<keys, leases, next_lease_id, key_count, compact_rev, wal,
                   images, torn, opening, limits, history>>

(* A range operation: its answer is computed, or deferred until the lock is *)
(* released; it is a read either way.  An error of a deferred range comes   *)
(* after the commit and changes nothing.                                    *)
TxnRange ==
    /\ TxnStep
    /\ txn' = [txn EXCEPT !.left = @ - 1]
    /\ UNCHANGED <<mem, wal, images, torn, batch, opening, limits, history>>

(* A nested transaction: its branch is checked against itself only.         *)
TxnNest ==
    /\ TxnStep /\ ~txn.nested
    /\ txn' = [txn EXCEPT !.nested = TRUE, !.inner = {}]
    /\ UNCHANGED <<mem, wal, images, torn, batch, opening, limits, history>>

TxnUnnest ==
    /\ InTxn /\ txn.nested
    /\ txn' = [txn EXCEPT !.nested = FALSE, !.inner = {}]
    /\ UNCHANGED <<mem, wal, images, torn, batch, opening, limits, history>>

TxnCommit ==
    /\ InTxn /\ ~txn.nested /\ txn.left = 0
    /\ txn' = NoTxn
    /\ UNCHANGED <<mem, wal, images, torn, batch, opening, limits, history>>

(* An operation is refused when its turn comes (a put that validate_put     *)
(* refuses, a transaction nested too deep): `?` returns the error with the  *)
(* earlier writes applied.                                                  *)
TxnRejected ==
    /\ TxnStep
    /\ txn.nested \/ \E req \in PutRequests : ~ValidatePut(req)
    /\ txn' = NoTxn
    /\ broken' = broken \cup TxnTrace
    /\ UNCHANGED <<mem, wal, images, torn, batch, opening, limits, diverged, partial,
                   orphans>>

TxnPutWalFails(req) ==
    /\ TxnStep
    /\ CheckTxnBranch({req.key})
    /\ ValidatePut(req)
    /\ AllocTxnRevision
    /\ AppendFails
    /\ txn' = NoTxn
    /\ broken' = broken \cup TxnTrace
    /\ UNCHANGED <<keys, leases, next_lease_id, key_count, compact_rev, wal,
                   images, batch, opening, txns, crashes, diverged, partial,
                   orphans>>

-----------------------------------------------------------------------------
(* compact: only moves compact_rev.                                         *)
Compact(rev) ==
    /\ LockFree
    /\ rev <= current_revision
    /\ rev > compact_rev /\ rev <= MaxCompactRev
    /\ compact_rev' = rev
    /\ UNCHANGED <<keys, leases, next_rev, next_lease_id, key_count, wal, images, torn,
                   lock, opening, limits, history>>

-----------------------------------------------------------------------------
(* Leases.  A TTL only decides when LeaseExpire may happen, which is left   *)
(* open here.                                                               *)

LeaseGrant(id) ==
    /\ LockFree
    /\ id \notin leases
    /\ leases' = leases \cup {id}
    /\ UNCHANGED <<keys, next_rev, next_lease_id, key_count, compact_rev, wal,
                   images, torn, lock, opening, limits, history>>

(* id = 0: the store picks the id.  A clash is an error, but the id is      *)
(* spent.                                                                   *)
LeaseGrantAuto ==
    /\ LockFree
    /\ next_lease_id <= MaxLeaseId
    /\ next_lease_id' = next_lease_id + 1
    /\ leases' = leases \cup {next_lease_id}
    /\ UNCHANGED <<keys, next_rev, key_count, compact_rev, wal, images, torn, lock,
                   opening, limits, history>>

KeysOfLease(id) == {k \in AliveKeys(keys) : keys[k].lease = id}

(* leases.remove, then delete_keys_for_lease, which takes a revision only   *)
(* if there is a key to delete.                                             *)
DropLease(id) ==
    /\ LockFree
    /\ id \in leases
    /\ leases' = leases \ {id}
    /\ IF KeysOfLease(id) = {}
       THEN UNCHANGED <<next_rev, batch>>
       ELSE AllocRevision /\ StartBatch(KeysOfLease(id), next_rev, id)
    /\ UNCHANGED <<keys, next_lease_id, key_count, compact_rev, wal, images, torn,
                   txn, opening, limits, history>>

LeaseRevoke(id) == DropLease(id)
LeaseExpire(id) == DropLease(id)

(* Only moves expires_at, or answers that there is no such lease.           *)
LeaseKeepAlive == LockFree /\ UNCHANGED vars

-----------------------------------------------------------------------------
(* The process dies, perhaps in the middle of an append, and is started     *)
(* again: StoreState::new, then a pass over the records of the log, then    *)
(* the clock and the leases.  The file is opened for appending as it is;    *)
(* what a scan does not return is forgotten.                                *)

Crash ==
    /\ phase = "up"
    /\ crashes < MaxCrashes /\ crashes' = crashes + 1
    /\ keys' = EmptyTable /\ leases' = {} /\ next_rev' = 1 /\ next_lease_id' = 1
    /\ key_count' = 0 /\ compact_rev' = 0
    /\ batch' = NoBatch /\ txn' = NoTxn
    /\ phase' = "replay" /\ pos' = 0 /\ max_rev' = 0
    /\ diverged' = FALSE /\ orphans' = {}
    /\ torn' \in {torn, TRUE}
    /\ broken' = {rev \in broken \cup (IF txn.left > 0 \/ batch.todo # {}
                                        THEN TxnTrace ELSE {}) : Logged(rev)}
    /\ UNCHANGED <<wal, images, txns, wal_errors, partial>>

(* Mutant: tombstones do not move max_rev.                                  *)
ReplayRecordPutsOnly ==
    /\ phase = "replay" /\ pos < Len(wal)
    /\ LET rec == wal[pos + 1] IN
         /\ keys' = ApplyRecord(keys, rec)
         /\ key_count' = CountAfter(keys, key_count, rec)
         /\ max_rev' = IF rec.deleted THEN max_rev ELSE rec.mod_revision
    /\ pos' = pos + 1
    /\ UNCHANGED <<leases, next_rev, next_lease_id, compact_rev, wal, images, torn,
                   lock, phase, limits, history>>

ReplayRecord ==
    /\ phase = "replay" /\ pos < Len(wal)
    /\ LET rec == wal[pos + 1] IN
         /\ IF rec.mod_revision <= compact_rev
            THEN UNCHANGED <<keys, key_count, max_rev>>
            ELSE /\ keys' = ApplyRecord(keys, rec)
                 /\ key_count' = CountAfter(keys, key_count, rec)
                 /\ max_rev' = IF rec.mod_revision > max_rev
                               THEN rec.mod_revision ELSE max_rev
    /\ pos' = pos + 1
    /\ UNCHANGED <<leases, next_rev, next_lease_id, compact_rev, wal, images, torn,
                   lock, phase, limits, history>>

LeasesOf(m) == {m[k].lease : k \in AliveKeys(m)} \ {0}
IsMaxLease(id) == \A x \in LeasesOf(keys) : x <= id

(* Mutant: the clock resumes at the last revision, not after it.            *)
OpenDoneSameRev ==
    /\ phase = "replay" /\ pos = Len(wal)
    /\ phase' = "up"
    /\ next_rev' = max_rev
    /\ leases' = LeasesOf(keys)
    /\ \E id \in {0} \cup LeasesOf(keys) : IsMaxLease(id) /\ next_lease_id' = id + 1
    /\ UNCHANGED <<keys, key_count, compact_rev, wal, images, torn, lock, pos,
                   max_rev, limits, history>>

OpenDone ==
    /\ phase = "replay" /\ pos = Len(wal)
    /\ phase' = "up"
    /\ next_rev' = max_rev + 1
    /\ leases' = LeasesOf(keys)
    /\ \E id \in {0} \cup LeasesOf(keys) : IsMaxLease(id) /\ next_lease_id' = id + 1
    /\ UNCHANGED <<keys, key_count, compact_rev, wal, images, torn, lock, pos,
                   max_rev, limits, history>>

-----------------------------------------------------------------------------
Next ==
    \/ \E req \in PutRequests : Put(req) \/ PutWalFails(req)
    \/ \E bound \in Bounds : DeleteRange(bound)
    \/ LogTombstone
    \/ FinishBatch
    \/ BatchFails
    \/ \E n \in 0 .. MaxTxnOps : TxnBegin(n)
    \/ \E req \in PutRequests : TxnPut(req) \/ TxnPutWalFails(req)
    \/ \E bound \in Bounds : TxnDelete(bound)
    \/ TxnRange
    \/ TxnNest
    \/ TxnUnnest
    \/ TxnCommit
    \/ TxnRejected
    \/ \E rev \in 1 .. current_revision : Compact(rev)
    \/ \E id \in LeaseIds : LeaseGrant(id) \/ LeaseRevoke(id) \/ LeaseExpire(id)
    \/ LeaseGrantAuto
    \/ LeaseKeepAlive
    \/ Crash
    \/ ReplayRecord
    \/ OpenDone

Spec == Init /\ [][Next]_vars
-----------------------------------------------------------------------------
(* Properties.                                                              *)

(* Every variable has its type.                                             *)
TypeOK ==
    /\ keys \in Tables /\ leases \in SUBSET Nat /\ next_rev \in Nat \ {0}
    /\ next_lease_id \in Nat /\ key_count \in Nat /\ compact_rev \in Nat
    /\ wal \in Seq(Record) /\ images \in Seq(Tables)
    /\ Len(images) = Len(wal) + 1 /\ torn \in BOOLEAN
    /\ batch \in Batches /\ txn \in Txns
    /\ phase \in {"replay", "up"} /\ pos \in 0 .. Len(wal) /\ max_rev \in Nat
    /\ txns \in Nat /\ crashes \in Nat /\ wal_errors \in Nat
    /\ diverged \in BOOLEAN /\ partial \in BOOLEAN
    /\ orphans \in SUBSET Nat /\ broken \in SUBSET Nat

(* The O(1) counter key_count, which apply and apply_delete maintain in     *)
(* pieces (state.rs: "Number of keys currently alive"), counts exactly the  *)
(* live keys in every state, also half-way through a replay, a transaction  *)
(* or a batch whose append failed.                                          *)
KeyCountExact == key_count = Cardinality(AliveKeys(keys))

(* alloc_revision: "the revision order matches the order records reach the  *)
(* WAL".  Of the records that a scan returns, revisions never decrease, and *)
(* the clock of a running store is past all of them, so that no request     *)
(* ever gets a revision that an earlier one, before or after a restart,     *)
(* left there.  (A revision whose records are behind an incomplete one is   *)
(* given out again after a restart.)                                        *)
RevisionsOrdered ==
    /\ \A i, j \in 1 .. Len(wal) :
          i <= j => wal[i].mod_revision <= wal[j].mod_revision
    /\ phase = "up" => \A i \in 1 .. Len(wal) : wal[i].mod_revision < next_rev

(* Of every entry, create_revision <= mod_revision, a tombstone is not      *)
(* older than the write it hides, and all are below the clock: what         *)
(* range_historical relies on to decide from the entry alone.               *)
EntryStamps(m, clock) ==
    \A k \in Keys : Present(m, k) =>
        /\ 1 <= m[k].create_revision
        /\ m[k].create_revision <= m[k].mod_revision
        /\ m[k].mod_revision < clock
        /\ m[k].delete_revision # 0 =>
              m[k].mod_revision <= m[k].delete_revision /\ m[k].delete_revision < clock
StampsOrdered == phase = "up" => EntryStamps(keys, next_rev)

(* A live key that carries a lease carries one the store knows, so that its *)
(* expiry will delete the key, unless deleting the keys of that very lease  *)
(* failed after the lease was removed (lease_revoke, start_expiry_task).    *)
LeasesCover ==
    LockFree => \A k \in AliveKeys(keys) :
        keys[k].lease \in {0} \cup leases \cup orphans

(* Whenever the lock is free, the table in memory is exactly what replaying *)
(* the log yields: values, stamps, tombstones, rebirth marks and blobs.     *)
(* Two things break this, until the next restart: a batch of deletes that   *)
(* failed part way, and an append behind the part of a record that a failed *)
(* append or an earlier death left in the file.  A failed append by itself  *)
(* does not, and neither does a restart from a file that ends in such a     *)
(* part.                                                                    *)
MemoryIsReplay == LockFree /\ ~diverged => keys = LastImage

(* The create_revision and version that compares look at (recomputed by     *)
(* apply on replay) are those of the blob that clients are sent (stored in  *)
(* the record), unless a batch once failed part way.                        *)
BlobsAgree ==
    ~partial => \A k \in Keys :
        /\ keys[k].kv_bytes.create_revision = keys[k].create_revision
        /\ keys[k].kv_bytes.version = keys[k].version

(* Nobody but the transaction that allocated it writes at a revision: while *)
(* a transaction holds a revision it is the newest, and a transaction takes *)
(* at most one.                                                             *)
TxnOwnsRevision ==
    [][txn.on /\ txn.rev # 0 /\ txn'.on => next_rev' = next_rev /\ txn'.rev = txn.rev]_vars

(* store.rs, txn: "Readers therefore see the txn either entirely or not at  *)
(* all".  Of a transaction that was answered with an error, or was cut      *)
(* short by the death of the process, no write can be read.                 *)
TxnAtomic ==
    LockFree => \A k \in AliveKeys(keys) : keys[k].mod_revision \notin broken

-----------------------------------------------------------------------------
(* Strengthenings that make the properties inductive, for KvStoreProofs.    *)

(* The locals of an operation are idle when it does not hold the lock, and  *)
(* nobody holds it during replay.                                           *)
LocksIdle ==
    /\ ~batch.on => batch = NoBatch
    /\ ~txn.on => txn = NoTxn
    /\ phase = "replay" => ~batch.on /\ ~txn.on

(* The operation that holds the lock holds the newest revision; a replay    *)
(* has seen exactly the revisions of the records behind it.                 *)
ClockHeld ==
    /\ \A i \in 1 .. Len(wal) : 1 <= wal[i].mod_revision
    /\ batch.on => batch.rev + 1 = next_rev /\ 1 <= batch.rev
    /\ txn.rev # 0 => txn.rev + 1 = next_rev
    /\ phase = "replay" =>
          /\ compact_rev = 0
          /\ pos = 0 => max_rev = 0
          /\ pos # 0 => max_rev = wal[pos].mod_revision

(* For RevisionsOrdered.                                                    *)
ClockInv == LocksIdle /\ ClockHeld /\ RevisionsOrdered

(* A batch deletes live keys, and what it has still to log is among them.   *)
BatchAlive ==
    batch.doomed \subseteq AliveKeys(keys) /\ batch.todo \subseteq batch.doomed

(* For MemoryIsReplay: the images are the replay of the log, a replay is at *)
(* the image of its position, and the memory of a running store becomes the *)
(* last image once the tombstones logged so far are applied.                *)
ReplayInv ==
    /\ BatchAlive
    /\ images[1] = EmptyTable
    /\ \A i \in 1 .. Len(wal) : images[i + 1] = ApplyRecord(images[i], wal[i])
    /\ phase = "replay" => keys = images[pos + 1]
    /\ phase = "up" /\ ~diverged =>
          LastImage = ApplyDeletes(keys, batch.doomed \ batch.todo, batch.rev)

(* For StampsOrdered: the clock of a replay is the revision it has come to. *)
StampsInv ==
    EntryStamps(keys, IF phase = "up" THEN next_rev ELSE max_rev + 1)

(* For LeasesCover: while a batch deletes the keys of a lease that is gone, *)
(* it has all of them.                                                      *)
LeaseInv ==
    phase = "up" => \A k \in AliveKeys(keys) :
        \/ keys[k].lease \in {0} \cup leases \cup orphans
        \/ k \in batch.doomed /\ keys[k].lease = batch.lease

(* For BlobsAgree: it holds of every table that a restart passes through.   *)
BlobsOf(m) ==
    \A k \in Keys :
        /\ m[k].kv_bytes.create_revision = m[k].create_revision
        /\ m[k].kv_bytes.version = m[k].version
BlobInv ==
    /\ diverged => partial \/ torn
    /\ ~partial => BlobsOf(keys) /\ \A i \in 1 .. Len(wal) + 1 : BlobsOf(images[i])
=============================================================================
