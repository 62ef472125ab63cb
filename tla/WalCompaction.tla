--------------------------- MODULE WalCompaction ---------------------------
(***************************************************************************)
(* The log file of the store, what of it is durable, and its online        *)
(* compaction: storage/wal.rs (WalFile), start_fsync_task and              *)
(* start_compaction_task of storage/background.rs, and Store::compact_wal. *)
(*                                                                         *)
(* Writers, the fsync task and the compaction task interleave; the process *)
(* can be killed (the page cache survives) or the machine can lose power   *)
(* (what was not synced survives only in part).  Requests are reduced to a *)
(* put and a delete of one key; module KvStore has the rest of them.       *)
(*                                                                         *)
(* A file is the sequence of the records written to it.  Torn stands for a *)
(* record of which only some bytes are there: a scan stops at it, whatever *)
(* follows, because the bytes after it do not line up.                     *)
(***************************************************************************)
EXTENDS KeyLog

CONSTANTS
    Torn,             \* an incomplete record
    NoFile,           \* no such file
    CanTear,          \* may a death or a failed append leave a Torn record?
    MaxRev,           \* bound: revisions
    MaxCompactions,   \* bound: runs of compact_wal
    MaxFaults         \* bound: kills, power failures, failures of sync_all
                      \* in the fsync task and of other file operations

ASSUME TornAssumption == Torn \notin Record /\ CanTear \in BOOLEAN
ASSUME BoundsAssumption == MaxRev \in Nat /\ MaxCompactions \in Nat /\ MaxFaults \in Nat

VARIABLES
    keys, next_rev,   \* StoreState
    phase,            \* "up" or "down"
    file, synced,     \* what the handle writes to; how much of it is durable
    dirty,            \* WalFile.dirty
    syncing,          \* the fsync task has taken the flag, not yet synced
    \* compact_wal: its phase, the snapshot and snapshot_wal_size
    step, snapshot, mark,
    old,              \* the file that the path named before the last rename
                      \* and its durable length, as long as a power failure
                      \* can bring it back
    detached,         \* the file at the path when the handle is on another one
    deaths, compactions, fsync_errors, file_errors,
    \* history: views is what could be read after each commit and restart;
    \* promise is the newest of them that a completed sync_all covers
    views, promise

mem == <<keys, next_rev>>
compaction == <<step, snapshot, mark>>
limits == <<deaths, compactions, fsync_errors, file_errors>>
vars == <<mem, phase, file, synced, dirty, syncing, compaction, old, detached,
          limits, views, promise>>

-----------------------------------------------------------------------------
(* scan_kv_file: the records up to the first one that is incomplete.        *)
Scan(f) ==
    IF \E i \in DOMAIN f : f[i] = Torn
    THEN SubSeq(f, 1, (CHOOSE i \in DOMAIN f :
                         f[i] = Torn /\ \A j \in 1 .. i - 1 : f[j] # Torn) - 1)
    ELSE f

(* Store::open reads the table and the clock from a file.                   *)
Recovered(f) == Replay(Scan(f))
RecoveredRev(f) == LastRev(Scan(f))

PathFile == IF detached = NoFile THEN file ELSE detached

-----------------------------------------------------------------------------
Init ==
    /\ keys = EmptyTable /\ next_rev = 1 /\ phase = "up"
    /\ file = <<>> /\ synced = 0 /\ dirty = FALSE /\ syncing = FALSE
    /\ step = "idle" /\ snapshot = <<>> /\ mark = 0
    /\ old = NoFile /\ detached = NoFile
    /\ deaths = 0 /\ compactions = 0 /\ fsync_errors = 0 /\ file_errors = 0
    /\ views = <<View(EmptyTable)>> /\ promise = 1

-----------------------------------------------------------------------------
(* Writers, under the write lock.                                           *)

(* Mutant: the flag is not set.                                             *)
AppendKvNoFlag(rec) == file' = Append(file, rec) /\ UNCHANGED dirty

AppendKv(rec) == file' = Append(file, rec) /\ dirty' = TRUE

Commit(rec, table) ==
    /\ next_rev' = next_rev + 1
    /\ AppendKv(rec)
    /\ keys' = table
    /\ views' = Append(views, View(table))
    /\ UNCHANGED <<phase, synced, syncing, compaction, old, detached, limits, promise>>

Put(k) ==
    /\ phase = "up" /\ next_rev <= MaxRev
    /\ Commit(PutRecord(keys, k, EmptyValue, 0, next_rev),
              ApplyPut(keys, k, EmptyValue, 0, next_rev))

Delete(k) ==
    /\ phase = "up" /\ next_rev <= MaxRev
    /\ Alive(keys, k)
    /\ Commit(DeleteRecord(keys, k, next_rev), ApplyDelete(keys, k, next_rev))

Fault == deaths + fsync_errors + file_errors < MaxFaults

FileError == Fault /\ file_errors' = file_errors + 1

(* write_all fails with some of the bytes written: the request fails, the   *)
(* revision is spent, the flag is not set, the bytes stay.                  *)
WriteFails ==
    /\ phase = "up" /\ next_rev <= MaxRev /\ CanTear
    /\ FileError
    /\ next_rev' = next_rev + 1
    /\ file' = Append(file, Torn)
    /\ UNCHANGED <<keys, phase, synced, dirty, syncing, compaction, old,
                   detached, deaths, compactions, fsync_errors, views, promise>>

-----------------------------------------------------------------------------
(* start_fsync_task: dirty.swap(false), then sync_all on the handle.        *)

(* Mutant: no sync is started while a compaction is under way.              *)
FsyncTakeWaits ==
    /\ phase = "up" /\ ~syncing /\ dirty /\ step = "idle"
    /\ dirty' = FALSE /\ syncing' = TRUE
    /\ UNCHANGED <<mem, phase, file, synced, compaction, old, detached, limits,
                   views, promise>>

FsyncTake ==
    /\ phase = "up" /\ ~syncing /\ dirty
    /\ dirty' = FALSE /\ syncing' = TRUE
    /\ UNCHANGED <<mem, phase, file, synced, compaction, old, detached, limits,
                   views, promise>>

(* A completed fsync also commits the rename before it.                     *)
FsyncDone ==
    /\ phase = "up" /\ syncing
    /\ syncing' = FALSE
    /\ synced' = Len(file)
    /\ promise' = IF detached = NoFile THEN Len(views) ELSE promise
    /\ old' = NoFile
    /\ UNCHANGED <<mem, phase, file, dirty, compaction, detached, limits, views>>

(* sync_all fails: the error is logged and the flag stays cleared.          *)
FsyncFails ==
    /\ phase = "up" /\ syncing
    /\ Fault /\ fsync_errors' = fsync_errors + 1
    /\ syncing' = FALSE
    /\ UNCHANGED <<mem, phase, file, synced, dirty, compaction, old, detached,
                   deaths, compactions, file_errors, views, promise>>

-----------------------------------------------------------------------------
(* compact_wal.                                                             *)

(* Mutant: a finished run leaves its mark behind.                           *)
CompactEndsKeepsMark == step' = "idle" /\ snapshot' = <<>> /\ UNCHANGED mark

(* The locals of a run that ends.                                           *)
CompactEnds == step' = "idle" /\ snapshot' = <<>> /\ mark' = 0

(* Phase A, under the read lock.                                            *)
CompactSnapshot ==
    /\ phase = "up" /\ step = "idle"
    /\ compactions < MaxCompactions /\ compactions' = compactions + 1
    /\ step' = "snapshot" /\ snapshot' = SnapshotRecords(keys) /\ mark' = Len(file)
    /\ UNCHANGED <<mem, phase, file, synced, dirty, syncing, old, detached,
                   deaths, fsync_errors, file_errors, views, promise>>

(* Mutant: the size of the log is taken when the snapshot is written.       *)
CompactWriteLateMark ==
    /\ phase = "up" /\ step = "snapshot"
    /\ step' = "written" /\ mark' = Len(file) /\ old' = NoFile
    /\ UNCHANGED <<mem, phase, file, synced, dirty, syncing, snapshot, detached,
                   limits, views, promise>>

(* Phase B, no lock: the snapshot is written to wal.compact and synced.     *)
CompactWrite ==
    /\ phase = "up" /\ step = "snapshot"
    /\ step' = "written" /\ old' = NoFile
    /\ UNCHANGED <<mem, phase, file, synced, dirty, syncing, snapshot, mark,
                   detached, limits, views, promise>>

(* What wal.compact holds once the tail is appended.                        *)
Compacted == snapshot \o SubSeq(file, mark + 1, Len(file))

(* Mutant: only the snapshot is synced.                                     *)
CompactSyncedHead == Len(snapshot)

(* How much of it is durable: the snapshot is synced in Phase B, the tail   *)
(* before the rename.                                                       *)
CompactSynced == Len(Compacted)

(* Phase C, under the write lock: append the tail and sync, rename, reopen  *)
(* and swap the handle, set the flag.                                       *)
CompactSwap ==
    /\ phase = "up" /\ step = "written"
    /\ file' = Compacted /\ synced' = CompactSynced /\ dirty' = TRUE
    /\ old' = IF detached = NoFile THEN [file |-> file, synced |-> synced]
              ELSE [file |-> detached, synced |-> Len(detached)]
    /\ detached' = NoFile
    /\ CompactEnds
    /\ UNCHANGED <<mem, phase, syncing, limits, views, promise>>

(* `?` before the rename: wal.compact is left behind and ignored.           *)
CompactFails ==
    /\ phase = "up" /\ step # "idle"
    /\ FileError
    /\ CompactEnds
    /\ UNCHANGED <<mem, phase, file, synced, dirty, syncing, old, detached,
                   deaths, compactions, fsync_errors, views, promise>>

(* `?` between the rename and the swap of the handle: the path names the    *)
(* compacted file, the handle still writes to the replaced one.             *)
CompactReopenFails ==
    /\ phase = "up" /\ step = "written"
    /\ FileError
    /\ detached' = Compacted
    /\ CompactEnds
    /\ UNCHANGED <<mem, phase, file, synced, dirty, syncing, old, deaths,
                   compactions, fsync_errors, views, promise>>

-----------------------------------------------------------------------------
(* Deaths and the restart.                                                  *)

Die(f, n) ==
    /\ phase = "up" /\ Fault
    /\ deaths' = deaths + 1
    /\ phase' = "down" /\ file' = f /\ synced' = n
    /\ keys' = EmptyTable /\ dirty' = FALSE /\ syncing' = FALSE
    /\ CompactEnds
    /\ detached' = NoFile
    /\ UNCHANGED <<next_rev, compactions, fsync_errors, file_errors, views, promise>>

Tears == IF CanTear THEN {<<>>, <<Torn>>} ELSE {<<>>}

(* The process dies, perhaps in the middle of an append.                    *)
Kill ==
    IF detached = NoFile
    THEN /\ \E tear \in Tears : Die(file \o tear, synced)
         /\ UNCHANGED old
    ELSE /\ Die(detached, Len(detached))
         /\ old' = [file |-> file, synced |-> synced]

(* What a power failure may leave of a file of which n records are durable. *)
Remains(f, n) ==
    {SubSeq(f, 1, i) : i \in n .. Len(f)}
      \cup (IF CanTear THEN {Append(SubSeq(f, 1, i), Torn) : i \in n .. Len(f) - 1} ELSE {})

(* The path names the file it named last, or the one before the rename.     *)
Outcomes ==
    Remains(file, synced)
      \cup (IF detached = NoFile THEN {} ELSE {detached})
      \cup (IF old = NoFile THEN {} ELSE Remains(old.file, old.synced))

PowerFailure ==
    /\ \E f \in Outcomes : Die(f, Len(f))
    /\ old' = NoFile

(* Store::open.  The file is opened for appending as it is.                 *)
Open ==
    /\ phase = "down"
    /\ phase' = "up"
    /\ keys' = Recovered(file)
    /\ next_rev' = RecoveredRev(file) + 1
    /\ views' = Append(views, View(Recovered(file)))
    /\ promise' = IF synced = Len(file) /\ old = NoFile THEN Len(views') ELSE promise
    /\ UNCHANGED <<file, synced, dirty, syncing, compaction, old, detached, limits>>

-----------------------------------------------------------------------------
Next ==
    \/ \E k \in Keys : Put(k) \/ Delete(k)
    \/ WriteFails
    \/ FsyncTake \/ FsyncDone \/ FsyncFails
    \/ CompactSnapshot \/ CompactWrite \/ CompactSwap
    \/ CompactFails \/ CompactReopenFails
    \/ Kill \/ PowerFailure
    \/ Open

Spec == Init /\ [][Next]_vars

(* The fsync task wakes up every 50ms and a sync_all returns; a dead server *)
(* is started again.                                                        *)
FairSpec ==
    Spec /\ WF_vars(FsyncTake) /\ WF_vars(FsyncDone) /\ WF_vars(Open)

-----------------------------------------------------------------------------
(* Properties.                                                              *)

Files == Seq(Record \cup {Torn})
Views == UNION {[ks -> 0 .. MaxRev] : ks \in SUBSET Keys}

(* Every variable has its type; what is durable of a file is within it.     *)
TypeOK ==
    /\ keys \in Tables /\ next_rev \in 1 .. MaxRev + 1 /\ phase \in {"up", "down"}
    /\ file \in Files /\ synced \in 0 .. Len(file)
    /\ dirty \in BOOLEAN /\ syncing \in BOOLEAN
    /\ step \in {"idle", "snapshot", "written"} /\ mark \in 0 .. Len(file)
    /\ snapshot \in Seq(Record)
    /\ old # NoFile => old \in [file: Files, synced: Nat] /\ old.synced <= Len(old.file)
    /\ detached # NoFile => detached \in Files
    /\ deaths \in Nat /\ compactions \in Nat /\ fsync_errors \in Nat /\ file_errors \in Nat
    /\ views \in Seq(Views) /\ promise \in 1 .. Len(views)

(* No record is incomplete and the handle writes to the file at the path.   *)
Whole(f) == \A i \in DOMAIN f : f[i] # Torn
Healthy == detached = NoFile /\ Whole(file) /\ (old # NoFile => Whole(old.file))

(* wal-gc.md, "This ensures zero data loss": at every moment, also between  *)
(* the phases of compact_wal with writers in between, a restart from the    *)
(* file at the path finds exactly the keys that can be read now, each by    *)
(* its last write.                                                          *)
LogCoversMemory ==
    phase = "up" /\ Healthy => View(Recovered(PathFile)) = View(keys)

(* perf-test-fsync.md, "Up to 50ms of writes may be lost on power failure": *)
(* whatever a power failure leaves, the restart finds a state that could    *)
(* once be read, not older than the last completed sync_all: nothing is     *)
(* lost from the middle and the rename of a compaction loses nothing.       *)
PowerLossBounded ==
    phase = "up" /\ Healthy =>
        \A f \in Outcomes : \E i \in promise .. Len(views) : View(Recovered(f)) = views[i]

(* A record that is not durable has the flag set or a sync_all on the way,  *)
(* in the first run of the process and as long as no file operation fails:  *)
(* the swap of the flag before the sync, and the swap of the handle, lose   *)
(* no wakeup of the fsync task.                                             *)
UnsyncedPending ==
    phase = "up" /\ deaths = 0 /\ fsync_errors = 0 /\ file_errors = 0
        /\ synced < Len(file) => dirty \/ syncing

(* For the proofs.  TypeOK needs that no revision in memory or in a file    *)
(* exceeds the bound, LogCoversMemory that the file of a compaction under   *)
(* way, completed by the tail, is a log of the memory too.                  *)
Stamped(f) == \A i \in DOMAIN f : f[i] # Torn => f[i].mod_revision <= MaxRev
StampInv ==
    /\ \A k \in Keys : keys[k].mod_revision <= MaxRev
    /\ Stamped(file) /\ Stamped(snapshot)
    /\ old # NoFile => Stamped(old.file)
    /\ detached # NoFile => Stamped(detached)

MemoryInv ==
    /\ phase = "up" => View(keys) = views[Len(views)]
    /\ phase = "up" /\ Whole(file) => View(Replay(file)) = View(keys)
    /\ step # "idle" /\ Whole(Compacted) => View(Replay(Compacted)) = View(keys)
    /\ phase = "down" => step = "idle" /\ detached = NoFile

(* PowerLossBounded speaks of the healthy moments of a running server; what *)
(* is kept is that every durable end of every file was once to be read and  *)
(* is not too old, in all files and also while the server is down.          *)
Seen(f) == Whole(f) => \E i \in promise .. Len(views) : View(Replay(f)) = views[i]
Covered(f, n) == \A k \in n .. Len(f) : Seen(SubSeq(f, 1, k))
DurableInv ==
    /\ Covered(file, synced)
    /\ old # NoFile => Covered(old.file, old.synced)
    /\ detached # NoFile => Seen(detached)

(* UnsyncedPending needs that a server that is down has died.               *)
PendingInv == UnsyncedPending /\ (phase = "down" => deaths > 0)

(* The same promise as a liveness property: a write that has raised the     *)
(* flag becomes durable, with all that is before it in the file, unless the *)
(* process dies or its sync_all fails; also in a process that was restarted *)
(* on an unsynced file, and after an earlier sync_all has failed.           *)
EventuallyDurable ==
    \A n \in 0 .. MaxFaults :
        (phase = "up" /\ dirty /\ fsync_errors = n)
            ~> (synced = Len(file) \/ phase = "down" \/ fsync_errors > n)

(* wal-gc.md: the end result of a restart from the compacted file is        *)
(* "identical to replaying the full original WAL": also the create_revision *)
(* and the version of the keys, which compares look at, and the revision    *)
(* clock.                                                                   *)
CompactionTransparent ==
    phase = "up" /\ Healthy =>
        /\ \A k \in AliveKeys(keys) :
              /\ Recovered(PathFile)[k].create_revision = keys[k].create_revision
              /\ Recovered(PathFile)[k].version = keys[k].version
        /\ RecoveredRev(PathFile) = next_rev - 1

(* data-model.md, on a crash during a write: "the partially-written record  *)
(* fails CRC check and is skipped".  After such a death, in a server whose  *)
(* file operations all succeed, what a completed sync_all covers can be     *)
(* recovered.                                                               *)
SyncedRecoverable ==
    phase = "up" /\ detached = NoFile /\ file_errors = 0 /\ synced = Len(file) =>
        View(Recovered(file)) = View(keys)
=============================================================================
