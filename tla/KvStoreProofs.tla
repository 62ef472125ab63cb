--------------------------- MODULE KvStoreProofs ---------------------------
(***************************************************************************)
(* Proofs about KvStore, for every choice of its constants.                *)
(*                                                                         *)
(*   TypeOK            is inductive by itself;                             *)
(*   ClockInv, ...     strengthen the properties into inductive invariants *)
(*                     that are proved one on top of the other.            *)
(***************************************************************************)
EXTENDS KvStore, KeyLogProofs

-----------------------------------------------------------------------------
(* Appending a record keeps the log and its images typed.                   *)
LEMMA AppendKvType ==
    ASSUME TypeOK, NEW rec \in Record, AppendKv(rec)
    PROVE  /\ wal' \in Seq(Record) /\ images' \in Seq(Tables)
           /\ Len(images') = Len(wal') + 1 /\ Len(wal) <= Len(wal')
           /\ torn' \in BOOLEAN /\ diverged' \in BOOLEAN
<1>1. LastImage \in Tables
  BY DEF TypeOK, LastImage
<1>2. ApplyRecord(LastImage, rec) \in Tables
  BY <1>1, ApplyRecordType
<1>3. torn' \in BOOLEAN /\ diverged' \in BOOLEAN
  BY DEF TypeOK, AppendKv
<1>4. /\ wal \in Seq(Record) /\ images \in Seq(Tables)
      /\ Len(images) = Len(wal) + 1 /\ Len(wal) \in Nat
  BY DEF TypeOK
<1>5. CASE torn
  <2>1. UNCHANGED <<wal, images>>
    BY <1>5 DEF AppendKv
  <2> QED
    BY <1>3, <1>4, <2>1
<1>6. CASE ~torn
  <2>1. /\ wal' = Append(wal, rec)
        /\ images' = Append(images, ApplyRecord(LastImage, rec))
    BY <1>6 DEF AppendKv
  <2>2. wal' \in Seq(Record) /\ Len(wal') = Len(wal) + 1
    BY <1>4, <2>1
  <2>3. images' \in Seq(Tables) /\ Len(images') = Len(images) + 1
    BY <1>2, <1>4, <2>1
  <2> QED
    BY <1>3, <1>4, <2>2, <2>3
<1> QED
  BY <1>5, <1>6

(* What a valid put stores has its type.                                    *)
LEMMA StoredType ==
    ASSUME TypeOK, NEW req \in PutRequests
    PROVE  /\ req.key \in Keys /\ StoredValue(req) \in Values
           /\ StoredLease(req) \in Nat
<1>1. req.key \in Keys /\ req.value \in Values /\ req.lease \in Nat
  BY LimitsAssumption DEF PutRequests, LeaseIds
<1>2. keys[req.key] \in KeyState
  BY <1>1 DEF TypeOK, Tables
<1> QED
  BY <1>1, <1>2 DEF StoredValue, StoredLease, KeyState

(* put_at keeps everything it writes typed.                                 *)
LEMMA PutAtType ==
    ASSUME TypeOK, NEW req \in PutRequests, NEW rev \in Nat, PutAt(req, rev)
    PROVE  /\ wal' \in Seq(Record) /\ images' \in Seq(Tables)
           /\ Len(images') = Len(wal') + 1 /\ Len(wal) <= Len(wal')
           /\ torn' \in BOOLEAN /\ diverged' \in BOOLEAN
           /\ keys' \in Tables /\ key_count' \in Nat
<1>1. /\ req.key \in Keys /\ StoredValue(req) \in Values
      /\ StoredLease(req) \in Nat /\ keys \in Tables
  BY StoredType DEF TypeOK
<1>2. PutRecord(keys, req.key, StoredValue(req), StoredLease(req), rev) \in Record
  BY <1>1, RecordType
<1>3. ApplyPut(keys, req.key, StoredValue(req), StoredLease(req), rev) \in Tables
  BY <1>1, ApplyPutType
<1>4. /\ wal' \in Seq(Record) /\ images' \in Seq(Tables)
      /\ Len(images') = Len(wal') + 1 /\ Len(wal) <= Len(wal')
      /\ torn' \in BOOLEAN /\ diverged' \in BOOLEAN
  BY <1>2, AppendKvType DEF PutAt
<1> QED
  BY <1>3, <1>4 DEF PutAt, TypeOK

-----------------------------------------------------------------------------
(* Type correctness.                                                        *)

USE DEF LockFree, InTxn, TxnStep

(* The idle values of the locals have their types.                          *)
LEMMA IdleType == NoBatch \in Batches /\ NoTxn \in Txns
BY DEF NoBatch, Batches, NoTxn, Txns

(* A store that is about to replay an empty log is typed.                   *)
LEMMA TypeInit == Init => TypeOK
<1> SUFFICES ASSUME Init PROVE TypeOK
  OBVIOUS
<1>1. EmptyTable \in Tables
  BY ValuesAssumption DEF EmptyTable, Tables, Vacant, KeyState, KvBytes
<1>2. images \in Seq(Tables) /\ Len(images) = 1
  BY <1>1 DEF Init
<1>3. wal \in Seq(Record) /\ Len(wal) = 0
  BY DEF Init
<1>4. batch \in Batches /\ txn \in Txns
  BY IdleType DEF Init
<1>5. diverged \in BOOLEAN /\ partial \in BOOLEAN /\ torn \in BOOLEAN
  BY DEF Init
<1>6. keys \in Tables /\ pos \in 0 .. Len(wal) /\ next_rev \in Nat \ {0}
  BY <1>1, <1>3 DEF Init
<1>7. /\ leases \in SUBSET Nat /\ orphans \in SUBSET Nat /\ broken \in SUBSET Nat
  BY DEF Init
<1>8. /\ next_lease_id \in Nat /\ key_count \in Nat /\ compact_rev \in Nat
      /\ max_rev \in Nat /\ txns \in Nat /\ crashes \in Nat /\ wal_errors \in Nat
      /\ phase \in {"replay", "up"}
  BY DEF Init
<1> QED
  BY <1>2, <1>3, <1>4, <1>5, <1>6, <1>7, <1>8 DEF TypeOK

(* Every operation, failure, crash and replay step keeps the types.         *)
LEMMA TypeStep == TypeOK /\ [Next]_vars => TypeOK'
<1> SUFFICES ASSUME TypeOK, [Next]_vars PROVE TypeOK'
  OBVIOUS
<1>1. ASSUME NEW req \in PutRequests, Put(req) PROVE TypeOK'
  <2>1. next_rev \in Nat /\ PutAt(req, next_rev)
    BY <1>1 DEF Put, TypeOK
  <2> QED
    BY <1>1, <2>1, PutAtType
    DEF Put, TypeOK, AllocRevision, lock, opening, limits
<1>2. ASSUME NEW req \in PutRequests, PutWalFails(req) PROVE TypeOK'
  <2>1. torn' \in BOOLEAN
    BY <1>2 DEF PutWalFails, AppendFails, TypeOK
  <2> QED
    BY <1>2, <2>1
    DEF PutWalFails, TypeOK, AllocRevision, AppendFails, lock, opening, history
<1>3. ASSUME NEW bound \in Bounds, DeleteRange(bound) PROVE TypeOK'
  <2>1. batch' \in Batches
    BY <1>3 DEF DeleteRange, StartBatch, Batches, AliveKeys, TypeOK
  <2> QED
    BY <1>3, <2>1 DEF DeleteRange, TypeOK, AllocRevision, opening, limits, history
<1>4. ASSUME LogTombstone PROVE TypeOK'
  <2>1. PICK k \in batch.todo : /\ AppendKv(DeleteRecord(keys, k, batch.rev))
                               /\ batch' = [batch EXCEPT !.todo = @ \ {k}]
    BY <1>4 DEF LogTombstone
  <2>2. k \in Keys /\ batch.rev \in Nat /\ batch' \in Batches
    BY <2>1 DEF TypeOK, Batches
  <2>3. DeleteRecord(keys, k, batch.rev) \in Record
    BY <2>2, RecordType, ValuesAssumption DEF TypeOK
  <2>4. /\ wal' \in Seq(Record) /\ images' \in Seq(Tables)
        /\ Len(images') = Len(wal') + 1 /\ Len(wal) <= Len(wal')
        /\ torn' \in BOOLEAN /\ diverged' \in BOOLEAN
    BY <2>1, <2>3, AppendKvType
  <2> QED
    BY <1>4, <2>2, <2>4, SMTT(40) DEF LogTombstone, TypeOK, mem, opening, limits
<1>5. ASSUME FinishBatch PROVE TypeOK'
  <2>1. batch.rev \in Nat /\ batch.doomed \in SUBSET Keys /\ keys \in Tables
    BY DEF TypeOK, Batches
  <2>2. keys' \in Tables
    BY <1>5, <2>1, ApplyDeletesType DEF FinishBatch
  <2>3. Cardinality(batch.doomed) \in Nat
    BY <2>1, KeysAssumption, FS_Subset, FS_CardinalityType
  <2>4. key_count' \in Nat /\ batch' \in Batches
    BY <1>5, <2>3 DEF FinishBatch, SaturatingSub, TypeOK, NoBatch, Batches
  <2> QED
    BY <1>5, <2>2, <2>4 DEF FinishBatch, TypeOK, opening, limits, history
<1>6. TxnTrace \in SUBSET Nat
  BY DEF TxnTrace, TypeOK, Txns
<1>7. ASSUME BatchFails PROVE TypeOK'
  <2>1. batch' \in Batches /\ txn' \in Txns
    BY <1>7, IdleType DEF BatchFails
  <2>2. diverged' \in BOOLEAN /\ partial' \in BOOLEAN /\ torn' \in BOOLEAN
    BY <1>7 DEF BatchFails, AppendFails, TypeOK
  <2>3. broken' \in SUBSET Nat /\ wal_errors' \in Nat
    BY <1>6, <1>7 DEF BatchFails, AppendFails, TypeOK
  <2>4. batch.lease \in Nat /\ orphans \in SUBSET Nat
    BY DEF TypeOK, Batches
  <2>5. orphans' \in SUBSET Nat
    BY <1>7, <2>4 DEF BatchFails
  <2> QED
    BY <1>7, <2>1, <2>2, <2>3, <2>5 DEF BatchFails, TypeOK, mem, opening
<1>8. ASSUME NEW n \in 0 .. MaxTxnOps, TxnBegin(n) PROVE TypeOK'
  <2>1. txn' \in Txns
    <3>1. n \in Nat /\ txn' = [NoTxn EXCEPT !.on = TRUE, !.left = n]
      BY <1>8, LimitsAssumption DEF TxnBegin
    <3> QED
      BY <3>1 DEF NoTxn, Txns
  <2> QED
    BY <1>8, <2>1 DEF TxnBegin, TypeOK, mem, opening, limits, history
<1>9. TxnRev \in Nat
  BY DEF TxnRev, TypeOK, Txns
<1>10. ASSUME NEW ks \in SUBSET Keys, TxnStep, TxnWrote(ks) PROVE txn' \in Txns
  <2>1. txn \in Txns /\ txn.left - 1 \in Nat
    BY <1>10 DEF TypeOK, Txns
  <2>2. txn.outer \cup ks \in SUBSET Keys /\ txn.inner \cup ks \in SUBSET Keys
    BY <2>1 DEF Txns
  <2>3. CASE txn.nested
    BY <1>9, <1>10, <2>1, <2>2, <2>3 DEF TxnWrote, Txns
  <2>4. CASE ~txn.nested
    BY <1>9, <1>10, <2>1, <2>2, <2>4 DEF TxnWrote, Txns
  <2> QED
    BY <2>3, <2>4
<1>11. ASSUME AllocTxnRevision PROVE next_rev' \in Nat \ {0}
  BY <1>11 DEF AllocTxnRevision, AllocRevision, TypeOK
<1>12. ASSUME NEW req \in PutRequests, TxnPut(req) PROVE TypeOK'
  <2>1. txn' \in Txns /\ next_rev' \in Nat \ {0}
    BY <1>10, <1>11, <1>12, StoredType DEF TxnPut
  <2> QED
    BY <1>9, <1>12, <2>1, PutAtType
    DEF TxnPut, TypeOK, opening, limits
<1>13. ASSUME NEW req \in PutRequests, TxnPutWalFails(req) PROVE TypeOK'
  <2>1. torn' \in BOOLEAN
    BY <1>13 DEF TxnPutWalFails, AppendFails, TypeOK
  <2>2. wal_errors' \in Nat /\ broken' \in SUBSET Nat
    BY <1>6, <1>13 DEF TxnPutWalFails, AppendFails, TypeOK
  <2> QED
    BY <1>11, <1>13, <2>1, <2>2, IdleType DEF TxnPutWalFails, TypeOK, opening
<1>14. ASSUME NEW bound \in Bounds, TxnDelete(bound) PROVE TypeOK'
  <2>1. txn' \in Txns /\ next_rev' \in Nat \ {0}
    BY <1>10, <1>11, <1>14, BoundsAssumption DEF TxnDelete
  <2>2. batch' \in Batches
    BY <1>9, <1>14 DEF TxnDelete, StartBatch, Batches, AliveKeys
  <2> QED
    BY <1>14, <2>1, <2>2 DEF TxnDelete, TypeOK, opening, limits, history
<1>15. ASSUME TxnRange \/ TxnNest \/ TxnUnnest PROVE TypeOK'
  <2>1. txn \in Txns
    BY DEF TypeOK
  <2>2. CASE TxnRange \/ TxnNest
    <3>1. txn.left - 1 \in Nat
      BY <2>1, <2>2 DEF TxnRange, TxnNest, Txns
    <3>2. txn' \in Txns
      BY <2>1, <2>2, <3>1 DEF TxnRange, TxnNest, Txns
    <3> QED
      BY <2>2, <3>2 DEF TxnRange, TxnNest, TypeOK, mem, opening, limits, history
  <2>3. CASE TxnUnnest
    <3>1. txn' \in Txns
      BY <2>1, <2>3 DEF TxnUnnest, Txns
    <3> QED
      BY <2>3, <3>1 DEF TxnUnnest, TypeOK, mem, opening, limits, history
  <2> QED
    BY <1>15, <2>2, <2>3
<1>16. ASSUME TxnCommit \/ TxnRejected PROVE TypeOK'
  BY <1>6, <1>16, IdleType
  DEF TxnCommit, TxnRejected, TypeOK, mem, opening, limits, history
<1>17. ASSUME NEW rev \in 1 .. current_revision, Compact(rev) PROVE TypeOK'
  BY <1>17 DEF Compact, TypeOK, current_revision, lock, opening, limits, history
<1>18. ASSUME NEW id \in LeaseIds, LeaseGrant(id) PROVE TypeOK'
  BY <1>18 DEF LeaseGrant, LeaseIds, TypeOK, lock, opening, limits, history
<1>19. ASSUME LeaseGrantAuto PROVE TypeOK'
  BY <1>19 DEF LeaseGrantAuto, TypeOK, lock, opening, limits, history
<1>20. ASSUME NEW id \in LeaseIds, DropLease(id) PROVE TypeOK'
  <2>1. id \in Nat /\ KeysOfLease(id) \in SUBSET Keys
    BY DEF LeaseIds, KeysOfLease, AliveKeys
  <2>2. ASSUME KeysOfLease(id) = {} PROVE batch' \in Batches /\ next_rev' \in Nat \ {0}
    BY <1>20, <2>2 DEF DropLease, TypeOK
  <2>3. ASSUME KeysOfLease(id) # {} PROVE batch' \in Batches /\ next_rev' \in Nat \ {0}
    <3>1. AllocRevision /\ StartBatch(KeysOfLease(id), next_rev, id)
      BY <1>20, <2>3 DEF DropLease
    <3>2. next_rev \in Nat /\ next_rev' \in Nat \ {0}
      BY <3>1 DEF AllocRevision, TypeOK
    <3> QED
      BY <2>1, <3>1, <3>2 DEF StartBatch, Batches
  <2>4. batch' \in Batches /\ next_rev' \in Nat \ {0}
    BY <2>2, <2>3
  <2> QED
    BY <1>20, <2>4 DEF DropLease, TypeOK, opening, limits, history
<1>21. ASSUME Crash PROVE TypeOK'
  <2>1. keys' \in Tables
    BY <1>21, ValuesAssumption DEF Crash, EmptyTable, Tables, Vacant, KeyState, KvBytes
  <2> QED
    <3>1. batch' \in Batches /\ txn' \in Txns
      BY <1>21, IdleType DEF Crash
    <3>2. diverged' \in BOOLEAN /\ partial' \in BOOLEAN /\ torn' \in BOOLEAN
      BY <1>21 DEF Crash, TypeOK
    <3>3. /\ leases' \in SUBSET Nat /\ orphans' \in SUBSET Nat
          /\ broken' \in SUBSET Nat
      BY <1>6, <1>21 DEF Crash, TypeOK
    <3>4. /\ next_rev' \in Nat \ {0} /\ next_lease_id' \in Nat /\ key_count' \in Nat
          /\ compact_rev' \in Nat /\ max_rev' \in Nat /\ txns' \in Nat /\ crashes' \in Nat
          /\ wal_errors' \in Nat /\ phase' \in {"replay", "up"}
      BY <1>21 DEF Crash, TypeOK
    <3>5. /\ wal' \in Seq(Record) /\ images' \in Seq(Tables)
          /\ Len(images') = Len(wal') + 1 /\ pos' \in 0 .. Len(wal')
      BY <1>21 DEF Crash, TypeOK
    <3> QED
      BY <2>1, <3>1, <3>2, <3>3, <3>4, <3>5 DEF TypeOK
<1>22. ASSUME ReplayRecord PROVE TypeOK'
  <2> DEFINE rec == wal[pos + 1]
  <2>1. rec \in Record /\ pos + 1 \in 0 .. Len(wal)
    BY <1>22 DEF ReplayRecord, TypeOK
  <2>2. ApplyRecord(keys, rec) \in Tables /\ rec.mod_revision \in Nat
    BY <2>1, ApplyRecordType DEF TypeOK, Record
  <2>3. CountAfter(keys, key_count, rec) \in Nat
    BY SMTT(40) DEF CountAfter, TypeOK
  <2>4. keys' \in Tables /\ key_count' \in Nat /\ max_rev' \in Nat /\ pos' = pos + 1
    BY <1>22, <2>2, <2>3 DEF ReplayRecord, TypeOK
  <2> QED
    BY <1>22, <2>1, <2>4 DEF ReplayRecord, TypeOK, lock, limits, history
<1>23. ASSUME OpenDone PROVE TypeOK'
  <2>1. LeasesOf(keys) \in SUBSET Nat
    BY DEF LeasesOf, AliveKeys, TypeOK, Tables, KeyState
  <2> QED
    BY <1>23, <2>1 DEF OpenDone, TypeOK, lock, limits, history
<1>24. ASSUME UNCHANGED vars PROVE TypeOK'
  BY <1>24 DEF vars, TypeOK, mem, lock, opening, limits, history
<1> QED
  BY <1>1, <1>2, <1>3, <1>4, <1>5, <1>7, <1>8, <1>12, <1>13, <1>14, <1>15, <1>16,
     <1>17, <1>18, <1>19, <1>20, <1>21, <1>22, <1>23, <1>24
  DEF Next, LeaseRevoke, LeaseExpire, LeaseKeepAlive

(* TypeOK is an invariant of the store.                                     *)
THEOREM TypeCorrect == Spec => []TypeOK
BY TypeInit, TypeStep, PTL DEF Spec

-----------------------------------------------------------------------------
(* The revision clock and the log.                                          *)

(* Every record of the log is one, and is stamped with a natural.           *)
LEMMA LogType ==
    ASSUME TypeOK
    PROVE  \A i \in 1 .. Len(wal) : wal[i] \in Record /\ wal[i].mod_revision \in Nat
<1>1. \A i \in 1 .. Len(wal) : wal[i] \in Record
  BY DEF TypeOK
<1>2. \A rec \in Record : rec.mod_revision \in Nat
  BY DEF Record
<1> QED
  BY <1>1, <1>2

(* A clock that only moves forward, over a log that does not change, keeps  *)
(* the order.                                                               *)
LEMMA TickKeepsOrder ==
    ASSUME TypeOK, ClockInv, UNCHANGED <<wal, phase>>, next_rev' \in Nat,
           next_rev <= next_rev'
    PROVE  /\ RevisionsOrdered'
           /\ \A i \in 1 .. Len(wal') : 1 <= wal'[i].mod_revision
<1>1. next_rev \in Nat /\ \A i \in 1 .. Len(wal) : wal[i].mod_revision \in Nat
  BY LogType DEF TypeOK, Record
<1> QED
  BY <1>1 DEF ClockInv, RevisionsOrdered, ClockHeld

(* A record whose revision is at least every one in the log, and below the  *)
(* clock, can be appended.                                                  *)
LEMMA AppendKeepsOrder ==
    ASSUME TypeOK, ClockInv, NEW rec \in Record, AppendKv(rec),
           phase = "up", phase' = phase, next_rev' \in Nat, next_rev <= next_rev',
           rec.mod_revision + 1 = next_rev', 1 <= rec.mod_revision
    PROVE  /\ RevisionsOrdered'
           /\ \A i \in 1 .. Len(wal') : 1 <= wal'[i].mod_revision
<1>0. CASE torn
  <2>1. UNCHANGED <<wal, phase>>
    BY <1>0 DEF AppendKv
  <2> QED
    BY <2>1, TickKeepsOrder
<1> SUFFICES ASSUME ~torn
             PROVE  /\ RevisionsOrdered'
                    /\ \A i \in 1 .. Len(wal') : 1 <= wal'[i].mod_revision
  BY <1>0
<1>1. /\ Len(wal) \in Nat /\ Len(wal') = Len(wal) + 1
      /\ \A i \in 1 .. Len(wal) : wal'[i] = wal[i]
      /\ wal'[Len(wal) + 1] = rec
  BY SMTT(40) DEF TypeOK, AppendKv
<1>2. rec.mod_revision \in Nat /\ \A i \in 1 .. Len(wal) : wal[i].mod_revision \in Nat
  BY LogType DEF TypeOK, Record
<1>3. next_rev \in Nat /\ \A i \in 1 .. Len(wal) : wal[i].mod_revision < next_rev
  BY DEF ClockInv, RevisionsOrdered, TypeOK
<1>4. \A i \in 1 .. Len(wal) : wal[i].mod_revision <= rec.mod_revision
  BY <1>2, <1>3
<1>5. \A i \in 1 .. Len(wal') : i \in 1 .. Len(wal) \/ i = Len(wal) + 1
  BY <1>1
<1>6. \A i, j \in 1 .. Len(wal') :
        i <= j => wal'[i].mod_revision <= wal'[j].mod_revision
  BY <1>1, <1>2, <1>4, <1>5, SMTT(40) DEF ClockInv, RevisionsOrdered
<1>7. \A i \in 1 .. Len(wal') : wal'[i].mod_revision < next_rev'
  BY <1>1, <1>2, <1>3, <1>5
<1>8. \A i \in 1 .. Len(wal') : 1 <= wal'[i].mod_revision
  BY <1>1, <1>5 DEF ClockInv, ClockHeld
<1> QED
  BY <1>6, <1>7, <1>8 DEF RevisionsOrdered

(* The revision a transaction writes at is the newest one.                  *)
LEMMA TxnRevNewest ==
    ASSUME TypeOK, ClockInv, AllocTxnRevision
    PROVE  /\ TxnRev \in Nat /\ 1 <= TxnRev /\ TxnRev + 1 = next_rev'
           /\ next_rev' \in Nat /\ next_rev <= next_rev'
BY DEF TypeOK, Txns, ClockInv, ClockHeld, TxnRev, AllocTxnRevision, AllocRevision

(* The empty log is in order.                                               *)
LEMMA ClockInit == Init => ClockInv
BY DEF Init, ClockInv, LocksIdle, ClockHeld, RevisionsOrdered, NoBatch, NoTxn

(* No step takes a revision that is in the log, or forgets that it holds    *)
(* the newest one; a replay ends with the clock past the log.               *)
LEMMA ClockStep == TypeOK /\ ClockInv /\ [Next]_vars => ClockInv'
<1> SUFFICES ASSUME TypeOK, ClockInv, [Next]_vars PROVE ClockInv'
  OBVIOUS
<1>0. next_rev \in Nat /\ 1 <= next_rev
  BY DEF TypeOK
<1>1. ASSUME NEW req \in PutRequests, Put(req) PROVE ClockInv'
  <2> DEFINE rec == PutRecord(keys, req.key, StoredValue(req), StoredLease(req), next_rev)
  <2>1. AppendKv(rec) /\ next_rev' = next_rev + 1
    BY <1>1 DEF Put, PutAt, AllocRevision
  <2>2. rec \in Record /\ rec.mod_revision = next_rev
    BY <1>0, StoredType, RecordType DEF TypeOK, PutRecord
  <2>3. phase = "up" /\ phase' = phase /\ ~batch.on /\ ~txn.on /\ UNCHANGED lock
    BY <1>1 DEF Put, opening
  <2>4. RevisionsOrdered' /\ \A i \in 1 .. Len(wal') : 1 <= wal'[i].mod_revision
    BY <1>0, <2>1, <2>2, <2>3, AppendKeepsOrder
  <2> QED
    BY <2>3, <2>4 DEF ClockInv, LocksIdle, ClockHeld, NoBatch, NoTxn, lock
<1>2. ASSUME NEW req \in PutRequests, PutWalFails(req) PROVE ClockInv'
  <2>1. /\ phase = "up" /\ ~batch.on /\ ~txn.on /\ UNCHANGED <<wal, phase, lock>>
        /\ next_rev' = next_rev + 1
    BY <1>2 DEF PutWalFails, AllocRevision, opening
  <2> QED
    BY <1>0, <2>1, TickKeepsOrder DEF ClockInv, LocksIdle, ClockHeld, NoTxn, lock
<1>3. ASSUME NEW ks, NEW id, StartBatch(ks, next_rev, id), AllocRevision,
             LockFree, UNCHANGED <<wal, txn, opening>>
      PROVE  ClockInv'
  <2>1. next_rev' = next_rev + 1 /\ UNCHANGED phase /\ batch'.on /\ batch'.rev = next_rev
    BY <1>3 DEF AllocRevision, StartBatch, opening
  <2> QED
    BY <1>0, <1>3, <2>1, TickKeepsOrder DEF ClockInv, LocksIdle, ClockHeld, NoTxn
<1>4. ASSUME NEW bound \in Bounds, DeleteRange(bound) PROVE ClockInv'
  BY <1>3, <1>4 DEF DeleteRange
<1>5. ASSUME LogTombstone PROVE ClockInv'
  <2>1. PICK k \in batch.todo : /\ AppendKv(DeleteRecord(keys, k, batch.rev))
                               /\ batch' = [batch EXCEPT !.todo = @ \ {k}]
    BY <1>5 DEF LogTombstone
  <2> DEFINE rec == DeleteRecord(keys, k, batch.rev)
  <2>2. batch.on /\ UNCHANGED <<next_rev, txn, phase>>
    BY <1>5 DEF LogTombstone, mem, opening
  <2>3. k \in Keys /\ batch.rev \in Nat /\ batch'.on /\ batch'.rev = batch.rev
    BY <2>1, <2>2 DEF TypeOK, Batches
  <2>4. rec \in Record /\ rec.mod_revision = batch.rev
    BY <2>3, RecordType, ValuesAssumption DEF TypeOK, DeleteRecord
  <2>5. phase = "up"
    BY <2>2 DEF ClockInv, LocksIdle, TypeOK
  <2>6. RevisionsOrdered' /\ \A i \in 1 .. Len(wal') : 1 <= wal'[i].mod_revision
    BY <1>0, <2>1, <2>2, <2>4, <2>5, AppendKeepsOrder DEF ClockInv, ClockHeld
  <2> QED
    BY <2>2, <2>3, <2>5, <2>6 DEF ClockInv, LocksIdle, ClockHeld
<1>6. ASSUME FinishBatch PROVE ClockInv'
  <2>1. UNCHANGED <<wal, next_rev, phase, txn>> /\ batch' = NoBatch /\ batch.on
    BY <1>6 DEF FinishBatch, opening
  <2>2. phase = "up"
    BY <2>1 DEF ClockInv, LocksIdle, TypeOK
  <2> QED
    BY <1>0, <2>1, <2>2, TickKeepsOrder DEF ClockInv, LocksIdle, ClockHeld, NoBatch
<1>7. ASSUME phase = "up", batch' = NoBatch, txn' = NoTxn, UNCHANGED <<wal, phase>>,
             next_rev' \in Nat, next_rev <= next_rev'
      PROVE  ClockInv'
  BY <1>7, TickKeepsOrder DEF ClockInv, LocksIdle, ClockHeld, NoBatch, NoTxn
<1>8. ASSUME txn.on \/ batch.on PROVE phase = "up"
  BY <1>8 DEF ClockInv, LocksIdle, TypeOK
<1>9. ASSUME ~batch.on PROVE batch = NoBatch
  BY <1>9 DEF ClockInv, LocksIdle
<1>10. ASSUME BatchFails PROVE ClockInv'
  BY <1>0, <1>7, <1>8, <1>10 DEF BatchFails, mem, opening
<1>11. ASSUME TxnCommit \/ TxnRejected PROVE ClockInv'
  <2>1. /\ txn.on /\ ~batch.on /\ txn' = NoTxn
        /\ UNCHANGED <<wal, phase, batch, next_rev>>
    BY <1>11 DEF TxnCommit, TxnRejected, mem, opening
  <2> QED
    BY <1>0, <1>7, <1>8, <1>9, <2>1
<1>12. ASSUME NEW req \in PutRequests, TxnPutWalFails(req) PROVE ClockInv'
  <2>1. /\ txn.on /\ ~batch.on /\ txn' = NoTxn /\ AllocTxnRevision
        /\ UNCHANGED <<wal, phase, batch>>
    BY <1>12 DEF TxnPutWalFails, opening
  <2> QED
    BY <1>7, <1>8, <1>9, <2>1, TxnRevNewest
<1>13. ASSUME NEW n \in 0 .. MaxTxnOps, TxnBegin(n) PROVE ClockInv'
  <2>1. /\ phase = "up" /\ UNCHANGED <<wal, phase, batch, next_rev>>
        /\ txn'.on /\ txn'.rev = 0
    BY <1>13 DEF TxnBegin, NoTxn, mem, opening
  <2> QED
    BY <1>0, <2>1, TickKeepsOrder DEF ClockInv, LocksIdle, ClockHeld
<1>14. ASSUME TxnRange \/ TxnNest \/ TxnUnnest PROVE ClockInv'
  <2>1. txn.on /\ UNCHANGED <<wal, phase, batch, next_rev>>
    BY <1>14 DEF TxnRange, TxnNest, TxnUnnest, mem, opening
  <2>2. txn'.on /\ txn'.rev = txn.rev
    BY <1>14, <2>1 DEF TxnRange, TxnNest, TxnUnnest, TypeOK, Txns
  <2> QED
    BY <1>0, <1>8, <2>1, <2>2, TickKeepsOrder DEF ClockInv, LocksIdle, ClockHeld
<1>15. ASSUME NEW ks, TxnStep, TxnWrote(ks) PROVE txn'.on /\ txn'.rev = TxnRev
  BY <1>15 DEF TxnWrote, TypeOK, Txns
<1>16. ASSUME NEW req \in PutRequests, TxnPut(req) PROVE ClockInv'
  <2> DEFINE rec == PutRecord(keys, req.key, StoredValue(req), StoredLease(req), TxnRev)
  <2>1. /\ txn.on /\ ~batch.on /\ UNCHANGED <<phase, batch>> /\ AppendKv(rec)
        /\ AllocTxnRevision /\ txn'.on /\ txn'.rev = TxnRev
    BY <1>15, <1>16 DEF TxnPut, PutAt, opening
  <2>2. /\ TxnRev \in Nat /\ 1 <= TxnRev /\ TxnRev + 1 = next_rev'
        /\ next_rev' \in Nat /\ next_rev <= next_rev'
    BY <2>1, TxnRevNewest
  <2>3. rec \in Record /\ rec.mod_revision = TxnRev
    BY <2>2, StoredType, RecordType DEF TypeOK, PutRecord
  <2>4. RevisionsOrdered' /\ \A i \in 1 .. Len(wal') : 1 <= wal'[i].mod_revision
    BY <1>8, <2>1, <2>2, <2>3, AppendKeepsOrder
  <2> QED
    BY <1>8, <2>1, <2>2, <2>4 DEF ClockInv, LocksIdle, ClockHeld
<1>17. ASSUME NEW bound \in Bounds, TxnDelete(bound) PROVE ClockInv'
  <2>1. /\ txn.on /\ UNCHANGED <<wal, phase>> /\ AllocTxnRevision
        /\ txn'.on /\ txn'.rev = TxnRev /\ batch'.on /\ batch'.rev = TxnRev
    BY <1>15, <1>17 DEF TxnDelete, StartBatch, opening
  <2>2. /\ TxnRev \in Nat /\ 1 <= TxnRev /\ TxnRev + 1 = next_rev'
        /\ next_rev' \in Nat /\ next_rev <= next_rev'
    BY <2>1, TxnRevNewest
  <2> QED
    BY <1>8, <2>1, <2>2, TickKeepsOrder DEF ClockInv, LocksIdle, ClockHeld
<1>18. ASSUME LockFree, UNCHANGED <<wal, phase, pos, max_rev, lock, next_rev>>
       PROVE  ClockInv'
  BY <1>0, <1>18, TickKeepsOrder DEF ClockInv, LocksIdle, ClockHeld, lock
<1>19. ASSUME NEW rev \in 1 .. current_revision, Compact(rev) PROVE ClockInv'
  BY <1>18, <1>19 DEF Compact, opening
<1>20. ASSUME NEW id \in LeaseIds, LeaseGrant(id) PROVE ClockInv'
  BY <1>18, <1>20 DEF LeaseGrant, opening
<1>21. ASSUME LeaseGrantAuto PROVE ClockInv'
  BY <1>18, <1>21 DEF LeaseGrantAuto, opening
<1>22. ASSUME NEW id \in LeaseIds, DropLease(id) PROVE ClockInv'
  <2>1. CASE KeysOfLease(id) = {}
    BY <1>18, <1>22, <2>1 DEF DropLease, opening, lock
  <2>2. CASE KeysOfLease(id) # {}
    BY <1>3, <1>22, <2>2 DEF DropLease
  <2> QED
    BY <2>1, <2>2
<1>23. ASSUME Crash PROVE ClockInv'
  BY <1>23 DEF Crash, ClockInv, LocksIdle, ClockHeld, RevisionsOrdered, NoBatch, NoTxn
<1>24. ASSUME ReplayRecord PROVE ClockInv'
  <2>1. /\ phase = "replay" /\ pos < Len(wal) /\ pos' = pos + 1
        /\ UNCHANGED <<wal, phase, batch, txn, compact_rev, next_rev>>
    BY <1>24 DEF ReplayRecord, lock
  <2>2. /\ wal[pos + 1].mod_revision \in Nat /\ 1 <= wal[pos + 1].mod_revision
        /\ compact_rev = 0 /\ pos \in Nat /\ max_rev \in Nat
    BY <2>1, LogType DEF TypeOK, ClockInv, ClockHeld
  <2>3. max_rev <= wal[pos + 1].mod_revision
    <3>1. CASE pos = 0
      BY <2>1, <2>2, <3>1 DEF ClockInv, ClockHeld
    <3>2. CASE pos # 0
      BY <2>1, <2>2, <3>2 DEF ClockInv, ClockHeld, RevisionsOrdered, TypeOK
    <3> QED
      BY <3>1, <3>2
  <2>4. max_rev' = wal[pos + 1].mod_revision
    BY <1>24, <2>2, <2>3 DEF ReplayRecord
  <2> QED
    BY <2>1, <2>2, <2>4 DEF ClockInv, LocksIdle, ClockHeld, RevisionsOrdered
<1>25. ASSUME OpenDone PROVE ClockInv'
  <2>1. /\ phase = "replay" /\ phase' = "up" /\ pos = Len(wal) /\ next_rev' = max_rev + 1
        /\ UNCHANGED <<wal, batch, txn>>
    BY <1>25 DEF OpenDone, lock
  <2>2. \A i \in 1 .. Len(wal) : wal[i].mod_revision <= max_rev
    BY <2>1 DEF ClockInv, ClockHeld, RevisionsOrdered, TypeOK
  <2>3. \A i \in 1 .. Len(wal) : wal[i].mod_revision < next_rev'
    BY <2>1, <2>2, LogType DEF TypeOK
  <2> QED
    BY <2>1, <2>3 DEF ClockInv, LocksIdle, ClockHeld, RevisionsOrdered, NoTxn
<1>26. ASSUME UNCHANGED vars PROVE ClockInv'
  BY <1>26 DEF vars, mem, lock, opening, ClockInv, LocksIdle, ClockHeld, RevisionsOrdered
<1> QED
  BY <1>1, <1>2, <1>4, <1>5, <1>6, <1>10, <1>11, <1>12, <1>13, <1>14, <1>16, <1>17,
     <1>19, <1>20, <1>21, <1>22, <1>23, <1>24, <1>25, <1>26
  DEF Next, LeaseRevoke, LeaseExpire, LeaseKeepAlive

(* Revisions never decrease along the log and the clock of a running store  *)
(* is past all of them, across restarts, failed appends and transactions.   *)
THEOREM RevisionsAreOrdered == Spec => []RevisionsOrdered
<1>1. ClockInv => RevisionsOrdered
  BY DEF ClockInv
<1> QED
  BY <1>1, TypeInit, TypeStep, ClockInit, ClockStep, PTL DEF Spec

-----------------------------------------------------------------------------
(* Replaying the log rebuilds the table.                                    *)

(* Replaying the record of a put does what the put did.                     *)
LEMMA PutReplays ==
    ASSUME NEW m \in Tables, NEW k \in Keys, NEW v, NEW l, NEW rev
    PROVE  ApplyRecord(m, PutRecord(m, k, v, l, rev)) = ApplyPut(m, k, v, l, rev)
BY DEF ApplyRecord, PutRecord, ApplyPut

(* Replaying one more tombstone of a batch applies one more of its deletes. *)
LEMMA TombstoneReplays ==
    ASSUME NEW m \in Tables, NEW S, NEW k \in AliveKeys(m), k \notin S,
           NEW rev \in Nat, NEW S1, S1 = S \cup {k}
    PROVE  ApplyRecord(ApplyDeletes(m, S, rev), DeleteRecord(m, k, rev))
             = ApplyDeletes(m, S1, rev)
<1> DEFINE a == ApplyDeletes(m, S, rev)
           b == ApplyDeletes(m, S1, rev)
           c == [a EXCEPT ![k].delete_revision = rev]
<1>1. k \in Keys /\ Alive(m, k)
  BY DEF AliveKeys
<1>2. a[k] = m[k] /\ a \in Tables
  BY <1>1, ApplyDeletesType DEF ApplyDeletes
<1>3. ApplyRecord(a, DeleteRecord(m, k, rev)) = c
  BY <1>1, <1>2 DEF ApplyRecord, DeleteRecord, ApplyDelete, Alive, Present
<1>4. ASSUME NEW j \in Keys PROVE c[j] = b[j]
  <2>1. CASE j = k
    BY <1>1, <1>2, <2>1 DEF ApplyDeletes, Tables
  <2>2. CASE j # k
    BY <1>2, <2>2 DEF ApplyDeletes, Tables
  <2> QED
    BY <2>1, <2>2
<1>5. c = [j \in Keys |-> c[j]] /\ b = [j \in Keys |-> b[j]]
  BY <1>2 DEF ApplyDeletes, Tables
<1> HIDE DEF a, b, c
<1>6. c = b
  BY <1>4, <1>5
<1> QED
  BY <1>3, <1>6 DEF a, b

(* A batch that has logged nothing leaves the table as it is.               *)
LEMMA NoDeletes ==
    ASSUME NEW m \in Tables, NEW rev
    PROVE  ApplyDeletes(m, {}, rev) = m
BY DEF ApplyDeletes, Tables

(* An append extends the images by one replay step, or leaves them behind   *)
(* an incomplete record, and then memory and log have parted.               *)
LEMMA AppendKeepsImages ==
    ASSUME TypeOK, ReplayInv, NEW rec, AppendKv(rec)
    PROVE  /\ images'[1] = EmptyTable
           /\ \A i \in 1 .. Len(wal') : images'[i + 1] = ApplyRecord(images'[i], wal'[i])
           /\ ~diverged' => ~diverged /\ LastImage' = ApplyRecord(LastImage, rec)
<1>0. CASE torn
  BY <1>0 DEF AppendKv, ReplayInv
<1> SUFFICES ASSUME ~torn
             PROVE  /\ images'[1] = EmptyTable
                    /\ \A i \in 1 .. Len(wal') :
                          images'[i + 1] = ApplyRecord(images'[i], wal'[i])
                    /\ LastImage' = ApplyRecord(LastImage, rec)
  BY <1>0 DEF AppendKv
<1>1. /\ Len(wal) \in Nat /\ Len(wal') = Len(wal) + 1 /\ Len(images) = Len(wal) + 1
      /\ \A i \in 1 .. Len(wal) : wal'[i] = wal[i]
      /\ wal'[Len(wal) + 1] = rec
      /\ \A i \in 1 .. Len(wal) + 1 : images'[i] = images[i]
      /\ images'[Len(wal) + 2] = ApplyRecord(LastImage, rec)
  BY SMTT(40) DEF TypeOK, AppendKv
<1>2. LastImage' = ApplyRecord(LastImage, rec) /\ images'[1] = EmptyTable
  BY <1>1 DEF LastImage, ReplayInv
<1>3. ASSUME NEW i \in 1 .. Len(wal')
      PROVE  images'[i + 1] = ApplyRecord(images'[i], wal'[i])
  <2>1. CASE i \in 1 .. Len(wal)
    BY <1>1, <2>1 DEF ReplayInv
  <2>2. CASE i = Len(wal) + 1
    <3>1. images'[i] = LastImage /\ wal'[i] = rec /\ i + 1 = Len(wal) + 2
      BY <1>1, <2>2 DEF LastImage
    <3> QED
      BY <1>1, <3>1
  <2> QED
    BY <1>1, <2>1, <2>2
<1> QED
  BY <1>2, <1>3

(* The empty log replays to the empty table.                                *)
LEMMA ReplayInit == Init => ReplayInv
<1> SUFFICES ASSUME Init PROVE ReplayInv
  OBVIOUS
<1>1. BatchAlive
  BY DEF Init, BatchAlive, NoBatch
<1>2. images[1] = EmptyTable /\ Len(wal) = 0 /\ phase = "replay" /\ pos = 0
  BY DEF Init
<1> QED
  BY <1>1, <1>2 DEF Init, ReplayInv

(* A put under the lock, by itself or as part of a transaction.             *)
LEMMA PutKeepsReplay ==
    ASSUME TypeOK, ReplayInv, NEW req \in PutRequests, NEW rev \in Nat,
           PutAt(req, rev), phase = "up", batch = NoBatch,
           UNCHANGED <<phase, batch>>
    PROVE  ReplayInv'
<1> DEFINE v == StoredValue(req)
           l == StoredLease(req)
           rec == PutRecord(keys, req.key, v, l, rev)
<1>1. AppendKv(rec) /\ keys' = ApplyPut(keys, req.key, v, l, rev)
  BY DEF PutAt
<1>2. req.key \in Keys /\ keys \in Tables /\ keys' \in Tables
  BY StoredType, PutAtType DEF TypeOK
<1>3. /\ images'[1] = EmptyTable
      /\ \A i \in 1 .. Len(wal') : images'[i + 1] = ApplyRecord(images'[i], wal'[i])
      /\ ~diverged' => ~diverged /\ LastImage' = ApplyRecord(LastImage, rec)
  BY <1>1, AppendKeepsImages
<1>4. ApplyRecord(keys, rec) = keys'
  BY <1>1, <1>2, PutReplays
<1>5. batch.doomed = {} /\ batch.doomed \ batch.todo = {} /\ batch.todo = {}
  BY DEF NoBatch
<1>6. ASSUME ~diverged' PROVE LastImage' = ApplyDeletes(keys', {}, batch.rev)
  <2>1. LastImage = keys
    BY <1>2, <1>3, <1>5, <1>6, NoDeletes DEF ReplayInv
  <2>2. LastImage' = keys'
    BY <1>3, <1>4, <1>6, <2>1
  <2> QED
    BY <1>2, <2>2, NoDeletes
<1>7. BatchAlive'
  BY <1>5 DEF BatchAlive
<1> QED
  BY <1>3, <1>5, <1>6, <1>7 DEF ReplayInv

(* Every step keeps memory and the replay of the log together, up to the    *)
(* tombstones that a batch has logged and not yet applied.                  *)
LEMMA ReplayStep == TypeOK /\ ClockInv /\ ReplayInv /\ [Next]_vars => ReplayInv'
<1> SUFFICES ASSUME TypeOK, ClockInv, ReplayInv, [Next]_vars PROVE ReplayInv'
  OBVIOUS
<1>1. ASSUME ~batch.on
      PROVE  /\ batch = NoBatch
             /\ batch.doomed = {} /\ batch.doomed \ batch.todo = {}
  BY <1>1 DEF ClockInv, LocksIdle, NoBatch
<1>2. ASSUME txn.on \/ batch.on PROVE phase = "up"
  BY <1>2 DEF ClockInv, LocksIdle, TypeOK
<1>3. ASSUME UNCHANGED <<keys, wal, images, batch, phase, pos, diverged>> PROVE ReplayInv'
  BY <1>3 DEF ReplayInv, BatchAlive, LastImage
<1>4. ASSUME NEW req \in PutRequests, Put(req) PROVE ReplayInv'
  <2>1. /\ next_rev \in Nat /\ PutAt(req, next_rev) /\ phase = "up" /\ ~batch.on
        /\ UNCHANGED <<phase, batch>>
    BY <1>4 DEF Put, TypeOK, lock, opening
  <2> QED
    BY <1>1, <2>1, PutKeepsReplay
<1>5. ASSUME NEW req \in PutRequests, TxnPut(req) PROVE ReplayInv'
  <2>1. /\ PutAt(req, TxnRev) /\ txn.on /\ ~batch.on /\ AllocTxnRevision
        /\ UNCHANGED <<phase, batch>>
    BY <1>5 DEF TxnPut, opening
  <2>2. TxnRev \in Nat
    BY <2>1, TxnRevNewest
  <2> QED
    BY <1>1, <1>2, <2>1, <2>2, PutKeepsReplay
<1>6. ASSUME NEW ks \in SUBSET AliveKeys(keys), NEW rev, NEW id, StartBatch(ks, rev, id),
             ~batch.on, UNCHANGED <<keys, wal, images, phase, pos, diverged>>
      PROVE  ReplayInv'
  <2>1. batch'.doomed = ks /\ batch'.todo = ks /\ ks \ ks = {}
    BY <1>6 DEF StartBatch
  <2>2. BatchAlive'
    BY <1>6, <2>1 DEF BatchAlive, AliveKeys, Alive, Present
  <2>3. ASSUME phase = "up", ~diverged
        PROVE  LastImage' = ApplyDeletes(keys', batch'.doomed \ batch'.todo, batch'.rev)
    <3>1. LastImage = keys
      BY <1>1, <1>6, <2>3, NoDeletes DEF ReplayInv, TypeOK
    <3>2. ApplyDeletes(keys, {}, batch'.rev) = keys
      BY NoDeletes DEF TypeOK
    <3> QED
      BY <1>6, <2>1, <3>1, <3>2 DEF LastImage
  <2> QED
    BY <1>6, <2>2, <2>3 DEF ReplayInv
<1>7. ASSUME NEW bound \in Bounds, DeleteRange(bound) PROVE ReplayInv'
  BY <1>6, <1>7 DEF DeleteRange, opening, history
<1>8. ASSUME NEW bound \in Bounds, TxnDelete(bound) PROVE ReplayInv'
  BY <1>6, <1>8 DEF TxnDelete, opening, history
<1>9. ASSUME NEW id \in LeaseIds, DropLease(id) PROVE ReplayInv'
  <2>1. CASE KeysOfLease(id) = {}
    BY <1>3, <1>9, <2>1 DEF DropLease, opening, history
  <2>2. CASE KeysOfLease(id) # {}
    <3>1. KeysOfLease(id) \in SUBSET AliveKeys(keys)
      BY DEF KeysOfLease
    <3> QED
      BY <1>6, <1>9, <2>2, <3>1 DEF DropLease, opening, history
  <2> QED
    BY <2>1, <2>2
<1>10. ASSUME LogTombstone PROVE ReplayInv'
  <2>1. PICK k \in batch.todo : /\ AppendKv(DeleteRecord(keys, k, batch.rev))
                               /\ batch' = [batch EXCEPT !.todo = @ \ {k}]
    BY <1>10 DEF LogTombstone
  <2>2. batch.on /\ UNCHANGED <<keys, phase>>
    BY <1>10 DEF LogTombstone, mem, opening
  <2>3. /\ batch'.doomed = batch.doomed /\ batch'.todo = batch.todo \ {k}
        /\ batch'.rev = batch.rev /\ batch.rev \in Nat
    BY <2>1 DEF TypeOK, Batches
  <2>4. /\ images'[1] = EmptyTable
        /\ \A i \in 1 .. Len(wal') : images'[i + 1] = ApplyRecord(images'[i], wal'[i])
        /\ ~diverged' =>
             ~diverged /\ LastImage' = ApplyRecord(LastImage, DeleteRecord(keys, k, batch.rev))
    BY <2>1, AppendKeepsImages
  <2>5. BatchAlive'
    BY <2>2, <2>3 DEF ReplayInv, BatchAlive, AliveKeys, Alive, Present
  <2>6. ASSUME ~diverged'
        PROVE  LastImage' = ApplyDeletes(keys, batch.doomed \ (batch.todo \ {k}), batch.rev)
    <3>1. LastImage = ApplyDeletes(keys, batch.doomed \ batch.todo, batch.rev)
      BY <1>2, <2>2, <2>4, <2>6 DEF ReplayInv
    <3>2. /\ keys \in Tables /\ batch.doomed \in SUBSET AliveKeys(keys)
          /\ batch.todo \in SUBSET batch.doomed
      BY DEF ReplayInv, BatchAlive, TypeOK
    <3>3. /\ k \in AliveKeys(keys) /\ k \notin batch.doomed \ batch.todo
          /\ batch.doomed \ (batch.todo \ {k}) = (batch.doomed \ batch.todo) \cup {k}
      BY <3>2
    <3>4. ApplyRecord(LastImage, DeleteRecord(keys, k, batch.rev))
            = ApplyDeletes(keys, batch.doomed \ (batch.todo \ {k}), batch.rev)
      BY <2>3, <3>1, <3>2, <3>3, TombstoneReplays, SMTT(30)
    <3> QED
      BY <2>4, <2>6, <3>4
  <2> QED
    BY <1>2, <2>2, <2>3, <2>4, <2>5, <2>6 DEF ReplayInv
<1>11. ASSUME FinishBatch PROVE ReplayInv'
  <2>1. /\ batch.on /\ batch.todo = {} /\ batch' = NoBatch
        /\ keys' = ApplyDeletes(keys, batch.doomed, batch.rev)
        /\ UNCHANGED <<wal, images, phase, pos, diverged>>
    BY <1>11 DEF FinishBatch, opening, history
  <2>2. batch'.doomed = {} /\ batch'.todo = {} /\ batch'.doomed \ batch'.todo = {}
    BY <2>1 DEF NoBatch
  <2>3. keys' \in Tables
    BY <2>1, ApplyDeletesType DEF TypeOK, Batches
  <2>4. batch.doomed \ batch.todo = batch.doomed
    BY <2>1
  <2>5. ASSUME ~diverged PROVE LastImage' = ApplyDeletes(keys', {}, batch'.rev)
    <3>1. LastImage = keys'
      BY <1>2, <2>1, <2>4, <2>5 DEF ReplayInv
    <3> QED
      BY <2>1, <2>3, <3>1, NoDeletes DEF LastImage
  <2>6. BatchAlive'
    BY <2>2 DEF BatchAlive
  <2> QED
    BY <1>2, <2>1, <2>2, <2>5, <2>6 DEF ReplayInv
<1>12. ASSUME BatchFails PROVE ReplayInv'
  <2>1. /\ batch.on /\ batch' = NoBatch /\ UNCHANGED <<keys, wal, images, phase, pos>>
        /\ diverged' = (diverged \/ batch.todo # batch.doomed)
    BY <1>12 DEF BatchFails, mem, opening
  <2>2. batch'.doomed = {} /\ batch'.todo = {} /\ batch'.doomed \ batch'.todo = {}
    BY <2>1 DEF NoBatch
  <2>3. ASSUME ~diverged' PROVE LastImage' = ApplyDeletes(keys', {}, batch'.rev)
    <3>1. ~diverged /\ batch.doomed \ batch.todo = {}
      BY <2>1, <2>3
    <3>2. LastImage = keys /\ keys' = keys
      BY <1>2, <2>1, <3>1, NoDeletes DEF ReplayInv, TypeOK
    <3>3. LastImage' = keys
      BY <2>1, <3>2 DEF LastImage
    <3> QED
      BY <3>2, <3>3, NoDeletes DEF TypeOK
  <2>4. BatchAlive'
    BY <2>2 DEF BatchAlive
  <2> QED
    BY <1>2, <2>1, <2>2, <2>3, <2>4 DEF ReplayInv
<1>13. ASSUME Crash PROVE ReplayInv'
  <2>1. /\ phase' = "replay" /\ pos' = 0 /\ keys' = EmptyTable /\ batch' = NoBatch
        /\ UNCHANGED <<wal, images>>
    BY <1>13 DEF Crash
  <2>2. BatchAlive'
    BY <2>1 DEF BatchAlive, NoBatch
  <2> QED
    BY <2>1, <2>2 DEF ReplayInv
<1>14. ASSUME ReplayRecord PROVE ReplayInv'
  <2>1. /\ phase = "replay" /\ phase' = phase /\ pos' = pos + 1 /\ pos < Len(wal)
        /\ UNCHANGED <<wal, images, batch>>
    BY <1>14 DEF ReplayRecord, lock
  <2>2. pos + 1 \in 1 .. Len(wal) /\ pos + 1 + 1 = pos' + 1
    BY <2>1 DEF TypeOK
  <2>3. ~(wal[pos + 1].mod_revision <= compact_rev)
    <3>1. compact_rev = 0 /\ 1 <= wal[pos + 1].mod_revision
      BY <2>1, <2>2 DEF ClockInv, ClockHeld
    <3>2. wal[pos + 1].mod_revision \in Nat
      BY <2>2, LogType
    <3> QED
      BY <3>1, <3>2
  <2>4. keys' = ApplyRecord(keys, wal[pos + 1])
    BY <1>14, <2>3 DEF ReplayRecord
  <2>5. keys' = images'[pos' + 1]
    BY <2>1, <2>2, <2>4 DEF ReplayInv
  <2>6. ~batch.on
    BY <2>1 DEF ClockInv, LocksIdle
  <2>7. BatchAlive'
    BY <1>1, <2>1, <2>6 DEF BatchAlive, NoBatch
  <2> QED
    BY <2>1, <2>5, <2>7 DEF ReplayInv
<1>15. ASSUME OpenDone PROVE ReplayInv'
  <2>1. /\ phase = "replay" /\ pos = Len(wal)
        /\ UNCHANGED <<keys, wal, images, batch>>
    BY <1>15 DEF OpenDone, lock
  <2>2. ~batch.on /\ batch' = batch /\ phase' = "up"
    BY <1>15, <2>1 DEF OpenDone, ClockInv, LocksIdle
  <2>3. LastImage = keys
    BY <2>1 DEF ReplayInv, LastImage
  <2>4. LastImage' = ApplyDeletes(keys', batch'.doomed \ batch'.todo, batch'.rev)
    <3>1. LastImage' = keys /\ keys' = keys
      BY <2>1, <2>3 DEF LastImage
    <3>2. batch'.doomed \ batch'.todo = {}
      BY <1>1, <2>2
    <3> QED
      BY <3>1, <3>2, NoDeletes DEF TypeOK
  <2>5. BatchAlive'
    BY <1>1, <2>2 DEF BatchAlive, NoBatch
  <2> QED
    BY <2>1, <2>2, <2>4, <2>5 DEF ReplayInv
<1>16. ASSUME NEW req \in PutRequests, PutWalFails(req) \/ TxnPutWalFails(req)
       PROVE  ReplayInv'
  BY <1>3, <1>16 DEF PutWalFails, TxnPutWalFails, lock, opening, history
<1>17. ASSUME \/ \E n \in 0 .. MaxTxnOps : TxnBegin(n)
              \/ TxnRange \/ TxnNest \/ TxnUnnest \/ TxnCommit \/ TxnRejected
       PROVE  ReplayInv'
  BY <1>3, <1>17 DEF TxnBegin, TxnRange, TxnNest, TxnUnnest, TxnCommit, TxnRejected, mem,
                     opening, history
<1>18. ASSUME \/ \E rev \in 1 .. current_revision : Compact(rev)
              \/ \E id \in LeaseIds : LeaseGrant(id)
              \/ LeaseGrantAuto
       PROVE  ReplayInv'
  BY <1>3, <1>18 DEF Compact, LeaseGrant, LeaseGrantAuto, lock, opening, history
<1>19. ASSUME UNCHANGED vars PROVE ReplayInv'
  BY <1>3, <1>19 DEF vars, mem, lock, opening, history
<1> QED
  BY <1>4, <1>5, <1>7, <1>8, <1>9, <1>10, <1>11, <1>12, <1>13, <1>14, <1>15, <1>16,
     <1>17, <1>18, <1>19
  DEF Next, LeaseRevoke, LeaseExpire, LeaseKeepAlive

(* Whenever the lock is free and, since the last restart, no batch has      *)
(* failed part way and nothing was appended behind an incomplete record,    *)
(* the table in memory is what replaying the log yields: a restart at that  *)
(* moment changes no value, stamp, tombstone or blob.                       *)
THEOREM RestartRestoresTable == Spec => []MemoryIsReplay
<1>1. TypeOK /\ ClockInv /\ ReplayInv => MemoryIsReplay
  <2> SUFFICES ASSUME TypeOK, ClockInv, ReplayInv, LockFree, ~diverged
               PROVE  keys = LastImage
    BY DEF MemoryIsReplay
  <2>1. batch.doomed \ batch.todo = {}
    BY DEF ClockInv, LocksIdle, NoBatch
  <2>2. LastImage = ApplyDeletes(keys, {}, batch.rev)
    BY <2>1 DEF ReplayInv
  <2> QED
    BY <2>2, NoDeletes DEF TypeOK
<1> QED
  BY <1>1, TypeInit, TypeStep, ClockInit, ClockStep, ReplayInit, ReplayStep, PTL DEF Spec

-----------------------------------------------------------------------------
(***************************************************************************)
(* The data that the store keeps beside the key table or twice in it: the  *)
(* counter of live keys, the stamps, the leases and the encoded entries;   *)
(* and the revision of a transaction.                                      *)
(***************************************************************************)

(* The table changes in a put, at the end of a batch, in a crash and while  *)
(* a log is replayed; no other step touches it or the counter.              *)
LEMMA TableSteps ==
    ASSUME TypeOK, ClockInv, [Next]_vars
    PROVE  \/ UNCHANGED <<keys, key_count>>
           \/ \E req \in PutRequests : Put(req) \/ TxnPut(req)
           \/ FinishBatch
           \/ Crash
           \/ ReplayRecord
<1>1. ASSUME NEW req \in PutRequests, PutWalFails(req) \/ TxnPutWalFails(req)
      PROVE  UNCHANGED <<keys, key_count>>
  BY <1>1 DEF PutWalFails, TxnPutWalFails
<1>2. ASSUME NEW bound \in Bounds, DeleteRange(bound) \/ TxnDelete(bound)
      PROVE  UNCHANGED <<keys, key_count>>
  BY <1>2 DEF DeleteRange, TxnDelete
<1>3. ASSUME \/ \E n \in 0 .. MaxTxnOps : TxnBegin(n)
             \/ TxnRange \/ TxnNest \/ TxnUnnest \/ TxnCommit \/ TxnRejected
             \/ LogTombstone \/ BatchFails
      PROVE  UNCHANGED <<keys, key_count>>
  BY <1>3 DEF TxnBegin, TxnRange, TxnNest, TxnUnnest, TxnCommit, TxnRejected,
              LogTombstone, BatchFails, mem
<1>4. ASSUME \/ \E rev \in 1 .. current_revision : Compact(rev)
             \/ \E id \in LeaseIds : LeaseGrant(id) \/ DropLease(id)
             \/ LeaseGrantAuto \/ OpenDone
      PROVE  UNCHANGED <<keys, key_count>>
  BY <1>4 DEF Compact, LeaseGrant, DropLease, LeaseGrantAuto, OpenDone
<1>5. ASSUME UNCHANGED vars PROVE UNCHANGED <<keys, key_count>>
  BY <1>5 DEF vars, mem
<1> QED
  BY <1>1, <1>2, <1>3, <1>4, <1>5 DEF Next, LeaseRevoke, LeaseExpire, LeaseKeepAlive

-----------------------------------------------------------------------------
(* The counter of live keys.                                                *)

(* The live keys are finitely many.                                         *)
LEMMA AliveFinite ==
    ASSUME NEW m
    PROVE  IsFiniteSet(AliveKeys(m)) /\ Cardinality(AliveKeys(m)) \in Nat
BY KeysAssumption, FS_Subset, FS_CardinalityType DEF AliveKeys

(* A put makes its key alive and no other: the entry it writes is not       *)
(* deleted and has a version.                                               *)
LEMMA PutAlive ==
    ASSUME NEW m, NEW k \in Keys, NEW m1,
           m1[k].delete_revision = 0, m1[k].version # 0,
           \A j \in Keys \ {k} : m1[j] = m[j]
    PROVE  AliveKeys(m1) = AliveKeys(m) \cup {k}
<1>1. \A j \in Keys : Alive(m1, j) <=> (Alive(m, j) \/ j = k)
  BY DEF Alive, Present
<1> QED
  BY <1>1 DEF AliveKeys

(* The put of a request and the put of a replayed record.                   *)
LEMMA ApplyPutAlive ==
    ASSUME NEW m \in Tables, NEW k \in Keys, NEW v, NEW l, NEW rev
    PROVE  AliveKeys(ApplyPut(m, k, v, l, rev)) = AliveKeys(m) \cup {k}
<1> DEFINE m1 == ApplyPut(m, k, v, l, rev)
<1>1. m1[k].delete_revision = 0 /\ m1[k].version # 0
  BY DEF ApplyPut, PutEntry, NextVersion, Alive, Present, Tables, KeyState
<1>2. \A j \in Keys \ {k} : m1[j] = m[j]
  BY DEF ApplyPut, Tables
<1> HIDE DEF m1
<1>3. AliveKeys(m1) = AliveKeys(m) \cup {k}
  BY <1>1, <1>2, PutAlive
<1> QED
  BY <1>3 DEF m1

(* After the record of a put its key is alive, and all that were.           *)
LEMMA ApplyRecordAlive ==
    ASSUME NEW m \in Tables, NEW rec, rec.key \in Keys, ~rec.deleted
    PROVE  AliveKeys(ApplyRecord(m, rec)) = AliveKeys(m) \cup {rec.key}
<1> DEFINE m1 == ApplyRecord(m, rec)
           k == rec.key
<1>1. m1[k].delete_revision = 0 /\ m1[k].version # 0
  BY DEF ApplyRecord, PutEntry, NextVersion, Alive, Present, Tables, KeyState
<1>2. k \in Keys /\ \A j \in Keys \ {k} : m1[j] = m[j]
  BY DEF ApplyRecord, Tables
<1> HIDE DEF m1, k
<1>3. AliveKeys(m1) = AliveKeys(m) \cup {k}
  BY <1>1, <1>2, PutAlive
<1> QED
  BY <1>3 DEF m1, k

(* A batch of deletes takes its keys out of the live ones.                  *)
LEMMA DeletesAlive ==
    ASSUME NEW m \in Tables, NEW ks \in SUBSET Keys, NEW rev \in Nat, rev # 0
    PROVE  AliveKeys(ApplyDeletes(m, ks, rev)) = AliveKeys(m) \ ks
<1> DEFINE m1 == ApplyDeletes(m, ks, rev)
<1>1. ASSUME NEW j \in Keys PROVE Alive(m1, j) <=> Alive(m, j) /\ j \notin ks
  <2>1. CASE j \in ks /\ Alive(m, j)
    BY <2>1 DEF ApplyDeletes, Alive, Present, Tables, KeyState
  <2>2. CASE ~(j \in ks /\ Alive(m, j))
    BY <2>2 DEF ApplyDeletes, Alive, Present
  <2> QED
    BY <2>1, <2>2
<1> HIDE DEF m1
<1>2. AliveKeys(m1) = AliveKeys(m) \ ks
  BY <1>1 DEF AliveKeys
<1> QED
  BY <1>2 DEF m1

(* A replayed delete takes its key out of the live ones.                    *)
LEMMA DeleteAlive ==
    ASSUME NEW m \in Tables, NEW k \in Keys, NEW rev \in Nat, rev # 0
    PROVE  AliveKeys(ApplyDelete(m, k, rev)) = AliveKeys(m) \ {k}
<1> DEFINE m1 == ApplyDelete(m, k, rev)
<1>1. ASSUME NEW j \in Keys PROVE Alive(m1, j) <=> Alive(m, j) /\ j # k
  <2>1. CASE j = k /\ Alive(m, k)
    BY <2>1 DEF ApplyDelete, Alive, Present, Tables, KeyState
  <2>2. CASE j = k /\ ~Alive(m, k)
    BY <2>2 DEF ApplyDelete
  <2>3. CASE j # k
    BY <2>3 DEF ApplyDelete, Alive, Present, Tables
  <2> QED
    BY <2>1, <2>2, <2>3
<1> HIDE DEF m1
<1>2. AliveKeys(m1) = AliveKeys(m) \ {k}
  BY <1>1 DEF AliveKeys
<1> QED
  BY <1>2 DEF m1

(* Every step moves the counter as it moves the live keys.                  *)
LEMMA CountStep ==
    TypeOK /\ ClockInv /\ ReplayInv /\ KeyCountExact /\ [Next]_vars => KeyCountExact'
<1> SUFFICES ASSUME TypeOK, ClockInv, ReplayInv, KeyCountExact, [Next]_vars
             PROVE  KeyCountExact'
  OBVIOUS
<1> DEFINE live == AliveKeys(keys)
<1>0. keys \in Tables /\ IsFiniteSet(live) /\ Cardinality(live) \in Nat
      /\ key_count = Cardinality(live)
  BY AliveFinite DEF TypeOK, KeyCountExact
<1>1. CASE UNCHANGED <<keys, key_count>>
  BY <1>1 DEF KeyCountExact, AliveKeys, Alive, Present
<1>2. ASSUME NEW k \in Keys, AliveKeys(keys') = live \cup {k},
             key_count' = IF Alive(keys, k) THEN key_count ELSE key_count + 1
      PROVE  KeyCountExact'
  <2>1. CASE Alive(keys, k)
    <3>1. AliveKeys(keys') = live
      BY <1>2, <2>1 DEF AliveKeys
    <3> QED
      BY <1>0, <1>2, <2>1, <3>1 DEF KeyCountExact
  <2>2. CASE ~Alive(keys, k)
    <3>1. k \notin live
      BY <2>2 DEF AliveKeys
    <3>2. Cardinality(live \cup {k}) = Cardinality(live) + 1
      BY <1>0, <3>1, FS_AddElement
    <3> QED
      BY <1>0, <1>2, <2>2, <3>2 DEF KeyCountExact
  <2> QED
    BY <2>1, <2>2
<1>3. ASSUME NEW req \in PutRequests, Put(req) \/ TxnPut(req) PROVE KeyCountExact'
  <2>1. PICK rev : PutAt(req, rev)
    BY <1>3 DEF Put, TxnPut
  <2>2. req.key \in Keys
    BY DEF PutRequests
  <2>3. AliveKeys(keys') = live \cup {req.key}
    BY <1>0, <2>1, <2>2, ApplyPutAlive DEF PutAt
  <2> QED
    BY <1>2, <2>1, <2>2, <2>3 DEF PutAt
<1>4. ASSUME FinishBatch PROVE KeyCountExact'
  <2>1. batch.doomed \in SUBSET Keys /\ batch.rev \in Nat /\ batch.rev # 0
    BY <1>4 DEF FinishBatch, TypeOK, Batches, ClockInv, ClockHeld
  <2>2. AliveKeys(keys') = live \ batch.doomed
    BY <1>0, <1>4, <2>1, DeletesAlive DEF FinishBatch
  <2>3. batch.doomed \subseteq live
    BY DEF ReplayInv, BatchAlive
  <2>4. /\ IsFiniteSet(batch.doomed) /\ Cardinality(batch.doomed) \in Nat
        /\ Cardinality(batch.doomed) <= Cardinality(live)
    BY <1>0, <2>3, FS_Subset, FS_CardinalityType
  <2>5. Cardinality(live \ batch.doomed) = Cardinality(live) - Cardinality(batch.doomed)
    <3>1. Cardinality(live \ batch.doomed) = Cardinality(live) - Cardinality(live \cap batch.doomed)
      BY <1>0, <2>4, FS_Difference
    <3>2. live \cap batch.doomed = batch.doomed
      BY <2>3
    <3> QED
      BY <3>1, <3>2
  <2> QED
    BY <1>0, <1>4, <2>2, <2>4, <2>5 DEF FinishBatch, SaturatingSub, KeyCountExact
<1>5. ASSUME Crash PROVE KeyCountExact'
  <2>1. AliveKeys(EmptyTable) = {}
    BY DEF AliveKeys, Alive, Present, EmptyTable, Vacant
  <2> QED
    BY <1>5, <2>1, FS_EmptySet DEF Crash, KeyCountExact
<1>6. ASSUME ReplayRecord PROVE KeyCountExact'
  <2> DEFINE rec == wal[pos + 1]
  <2>1. phase = "replay" /\ pos + 1 \in 1 .. Len(wal)
    BY <1>6 DEF ReplayRecord, TypeOK
  <2>2. /\ rec \in Record /\ rec.key \in Keys /\ rec.mod_revision \in Nat
        /\ rec.mod_revision # 0 /\ rec.deleted \in BOOLEAN /\ compact_rev = 0
    <3>1. rec \in Record
      BY <2>1, LogType
    <3>2. 1 <= rec.mod_revision /\ compact_rev = 0
      BY <2>1 DEF ClockInv, ClockHeld
    <3> QED
      BY <3>1, <3>2 DEF Record
  <2>3. keys' = ApplyRecord(keys, rec) /\ key_count' = CountAfter(keys, key_count, rec)
    BY <1>6, <2>2 DEF ReplayRecord
  <2> HIDE DEF rec
  <2>4. CASE ~rec.deleted
    <3>1. AliveKeys(keys') = live \cup {rec.key}
      BY <1>0, <2>2, <2>3, <2>4, ApplyRecordAlive
    <3>2. key_count' = IF Alive(keys, rec.key) THEN key_count ELSE key_count + 1
      BY <2>3, <2>4 DEF CountAfter
    <3> QED
      BY <1>2, <2>2, <3>1, <3>2
  <2>5. CASE rec.deleted
    <3>1. AliveKeys(keys') = live \ {rec.key}
      BY <1>0, <2>2, <2>3, <2>5, DeleteAlive DEF ApplyRecord
    <3>2. CASE Alive(keys, rec.key)
      <4>1. rec.key \in live
        BY <2>2, <3>2 DEF AliveKeys
      <4>2. Cardinality(live \ {rec.key}) = Cardinality(live) - 1
        BY <1>0, <4>1, FS_RemoveElement
      <4>3. Cardinality(live) # 0
        BY <1>0, <4>1, FS_EmptySet
      <4> QED
        BY <1>0, <2>3, <2>5, <3>1, <3>2, <4>2, <4>3 DEF CountAfter, KeyCountExact
    <3>3. CASE ~Alive(keys, rec.key)
      <4>1. live \ {rec.key} = live
        BY <3>3 DEF AliveKeys
      <4> QED
        BY <1>0, <2>3, <2>5, <3>1, <3>3, <4>1 DEF CountAfter, KeyCountExact
    <3> QED
      BY <3>2, <3>3
  <2> QED
    BY <2>2, <2>4, <2>5
<1> QED
  BY <1>1, <1>3, <1>4, <1>5, <1>6, TableSteps

(* key_count, maintained by hand in apply, apply_delete and on replay, is   *)
(* the number of live keys in every state: the saturating subtraction of    *)
(* apply_delete never hides anything.                                       *)
THEOREM KeyCountIsExact == Spec => []KeyCountExact
<1>1. Init => KeyCountExact
  <2> SUFFICES ASSUME Init PROVE KeyCountExact
    OBVIOUS
  <2>1. AliveKeys(EmptyTable) = {}
    BY DEF AliveKeys, Alive, Present, EmptyTable, Vacant
  <2> QED
    BY <2>1, FS_EmptySet DEF Init, KeyCountExact
<1> QED
  BY <1>1, TypeInit, TypeStep, ClockInit, ClockStep, ReplayInit, ReplayStep, CountStep,
     PTL DEF Spec

-----------------------------------------------------------------------------
(* The revision of a transaction.                                           *)

(* While a transaction holds the lock no other operation runs, and its own  *)
(* steps take a revision only if it has none.                               *)
LEMMA OwnsStep ==
    ASSUME TypeOK, ClockInv, Next, txn.on, txn.rev # 0, txn'.on
    PROVE  next_rev' = next_rev /\ txn'.rev = txn.rev
<1>1. txn \in Txns /\ phase = "up" /\ ~LockFree /\ ~NoTxn.on
  BY DEF TypeOK, ClockInv, LocksIdle, LockFree, NoTxn
<1>2. ASSUME NEW req \in PutRequests, TxnPut(req)
      PROVE  next_rev' = next_rev /\ txn'.rev = txn.rev
  BY <1>1, <1>2 DEF TxnPut, AllocTxnRevision, TxnWrote, TxnRev, Txns
<1>3. ASSUME NEW bound \in Bounds, TxnDelete(bound)
      PROVE  next_rev' = next_rev /\ txn'.rev = txn.rev
  BY <1>1, <1>3 DEF TxnDelete, AllocTxnRevision, TxnWrote, TxnRev, Txns
<1>4. CASE TxnRange \/ TxnNest \/ TxnUnnest
  BY <1>1, <1>4 DEF TxnRange, TxnNest, TxnUnnest, Txns, mem
<1>5. CASE LogTombstone \/ FinishBatch
  BY <1>5 DEF LogTombstone, FinishBatch, mem
<1>6. ~BatchFails /\ ~Crash /\ ~TxnCommit /\ ~TxnRejected
  BY <1>1 DEF BatchFails, Crash, TxnCommit, TxnRejected
<1>7. ~ReplayRecord /\ ~OpenDone
  BY <1>1 DEF ReplayRecord, OpenDone
<1>8. ASSUME NEW req \in PutRequests PROVE ~Put(req) /\ ~PutWalFails(req) /\ ~TxnPutWalFails(req)
  BY <1>1 DEF Put, PutWalFails, TxnPutWalFails
<1>9. ASSUME NEW x PROVE ~DeleteRange(x) /\ ~TxnBegin(x) /\ ~Compact(x) /\ ~LeaseGrant(x)
                         /\ ~LeaseRevoke(x) /\ ~LeaseExpire(x)
  BY <1>1 DEF DeleteRange, TxnBegin, Compact, LeaseGrant, LeaseRevoke, LeaseExpire, DropLease
<1>10. ~LeaseGrantAuto /\ ~LeaseKeepAlive
  BY <1>1 DEF LeaseGrantAuto, LeaseKeepAlive
<1> QED
  BY <1>2, <1>3, <1>4, <1>5, <1>6, <1>7, <1>8, <1>9, <1>10 DEF Next

(* All writes of a transaction carry one revision, and nobody else gets a   *)
(* newer one before it ends: alloc_txn_revision under the lock of txn.      *)
THEOREM TxnRevisionIsOwned == Spec => TxnOwnsRevision
<1>1. TypeOK /\ ClockInv /\ [Next]_vars
        => [txn.on /\ txn.rev # 0 /\ txn'.on
              => next_rev' = next_rev /\ txn'.rev = txn.rev]_vars
  BY OwnsStep
<1> QED
  BY <1>1, TypeInit, TypeStep, ClockInit, ClockStep, PTL DEF Spec, TxnOwnsRevision

-----------------------------------------------------------------------------
(* The stamps of the entries.                                               *)

(* The clock of a running store never goes back; the phase and the progress *)
(* of a replay change only in a crash and while a log is replayed.          *)
LEMMA ClockSteps ==
    ASSUME TypeOK, ClockInv, [Next]_vars
    PROVE  \/ /\ UNCHANGED <<phase, max_rev>>
              /\ next_rev' \in Nat /\ next_rev <= next_rev'
           \/ Crash
           \/ ReplayRecord
           \/ OpenDone
<1> DEFINE Kept == /\ UNCHANGED <<phase, max_rev>>
                   /\ next_rev' \in Nat /\ next_rev <= next_rev'
<1>0. next_rev \in Nat
  BY DEF TypeOK
<1>1. ASSUME NEW req \in PutRequests, Put(req) \/ PutWalFails(req) PROVE Kept
  BY <1>0, <1>1 DEF Put, PutWalFails, AllocRevision, opening
<1>2. ASSUME NEW req \in PutRequests, TxnPut(req) \/ TxnPutWalFails(req) PROVE Kept
  BY <1>0, <1>2, TxnRevNewest DEF TxnPut, TxnPutWalFails, opening
<1>3. ASSUME NEW bound \in Bounds, DeleteRange(bound) \/ TxnDelete(bound) PROVE Kept
  BY <1>0, <1>3, TxnRevNewest DEF DeleteRange, TxnDelete, AllocRevision, opening
<1>4. ASSUME \/ \E n \in 0 .. MaxTxnOps : TxnBegin(n)
             \/ TxnRange \/ TxnNest \/ TxnUnnest \/ TxnCommit \/ TxnRejected
             \/ LogTombstone \/ BatchFails \/ FinishBatch
      PROVE  Kept
  <2>1. UNCHANGED <<phase, max_rev, next_rev>>
    BY <1>4 DEF TxnBegin, TxnRange, TxnNest, TxnUnnest, TxnCommit, TxnRejected,
                LogTombstone, BatchFails, FinishBatch, mem, opening
  <2> QED
    BY <1>0, <2>1
<1>5. ASSUME \/ \E rev \in 1 .. current_revision : Compact(rev)
             \/ \E id \in LeaseIds : LeaseGrant(id)
             \/ LeaseGrantAuto
      PROVE  Kept
  BY <1>0, <1>5 DEF Compact, LeaseGrant, LeaseGrantAuto, opening
<1>6. ASSUME NEW id \in LeaseIds, DropLease(id) PROVE Kept
  BY <1>0, <1>6 DEF DropLease, AllocRevision, opening
<1>7. ASSUME UNCHANGED vars PROVE Kept
  BY <1>0, <1>7 DEF vars, mem, opening
<1> QED
  BY <1>1, <1>2, <1>3, <1>4, <1>5, <1>6, <1>7
  DEF Next, LeaseRevoke, LeaseExpire, LeaseKeepAlive

(* A put at a revision that no stamp exceeds gives ordered stamps.          *)
LEMMA PutStamps ==
    ASSUME NEW m \in Tables, NEW m1, NEW k \in Keys, NEW rev \in Nat, 1 <= rev,
           NEW clock \in Nat, NEW clock1 \in Nat, EntryStamps(m, clock),
           clock <= rev + 1, clock <= clock1, rev < clock1,
           m1[k].mod_revision = rev, m1[k].create_revision = NextCreate(m, k, rev),
           m1[k].delete_revision = 0,
           \A j \in Keys \ {k} : m1[j] = m[j]
    PROVE  EntryStamps(m1, clock1)
<1>1. \A j \in Keys : /\ m[j].create_revision \in Nat /\ m[j].mod_revision \in Nat
                      /\ m[j].delete_revision \in Nat
  BY DEF Tables, KeyState
<1>2. CASE Alive(m, k)
  BY <1>1, <1>2 DEF EntryStamps, NextCreate, Alive, Present
<1>3. CASE ~Alive(m, k)
  BY <1>1, <1>3 DEF EntryStamps, NextCreate, Present
<1> QED
  BY <1>2, <1>3

(* What a tombstone leaves of the entry of a key, as far as its stamps go.  *)
Buried(m, m1, j, rev) ==
    /\ m1[j].delete_revision = rev
    /\ m1[j].version = m[j].version
    /\ m1[j].create_revision = m[j].create_revision
    /\ m1[j].mod_revision = m[j].mod_revision

(* The tombstone of any of the keys keeps the stamps in order.              *)
LEMMA DeleteStamps ==
    ASSUME NEW m \in Tables, NEW m1, NEW rev \in Nat,
           NEW clock \in Nat, NEW clock1 \in Nat, EntryStamps(m, clock),
           clock <= rev + 1, clock <= clock1, rev < clock1,
           \A j \in Keys : m1[j] = m[j] \/ Buried(m, m1, j, rev)
    PROVE  EntryStamps(m1, clock1)
<1> SUFFICES ASSUME NEW j \in Keys, Present(m1, j)
             PROVE  /\ 1 <= m1[j].create_revision
                    /\ m1[j].create_revision <= m1[j].mod_revision
                    /\ m1[j].mod_revision < clock1
                    /\ m1[j].delete_revision # 0 =>
                         /\ m1[j].mod_revision <= m1[j].delete_revision
                         /\ m1[j].delete_revision < clock1
  BY DEF EntryStamps
<1>1. /\ m[j] \in KeyState /\ m[j].create_revision \in Nat
      /\ m[j].mod_revision \in Nat /\ m[j].delete_revision \in Nat
  BY DEF Tables, KeyState
<1>2. CASE m1[j] = m[j]
  BY <1>1, <1>2 DEF EntryStamps, Present
<1>3. CASE Buried(m, m1, j, rev)
  BY <1>1, <1>3 DEF EntryStamps, Present, Buried
<1> QED
  BY <1>2, <1>3

(* Every step keeps the stamps in order.                                    *)
LEMMA StampsStep ==
    TypeOK /\ ClockInv /\ StampsInv /\ [Next]_vars => StampsInv'
<1> SUFFICES ASSUME TypeOK, ClockInv, StampsInv, [Next]_vars PROVE StampsInv'
  OBVIOUS
<1> DEFINE clock == IF phase = "up" THEN next_rev ELSE max_rev + 1
<1>0. /\ keys \in Tables /\ next_rev \in Nat /\ max_rev \in Nat /\ clock \in Nat
      /\ EntryStamps(keys, clock)
  BY DEF TypeOK, StampsInv
<1>1. CASE Crash
  <2>1. \A k \in Keys : ~Present(EmptyTable, k)
    BY DEF Present, EmptyTable, Vacant
  <2> QED
    BY <1>1, <2>1 DEF Crash, StampsInv, EntryStamps
<1>2. CASE ReplayRecord
  <2> DEFINE rec == wal[pos + 1]
  <2>1. phase = "replay" /\ phase' = phase /\ pos + 1 \in 1 .. Len(wal) /\ pos \in Nat
    BY <1>2 DEF ReplayRecord, TypeOK
  <2>2. rec \in Record /\ rec.mod_revision \in Nat /\ 1 <= rec.mod_revision /\ compact_rev = 0
    BY <2>1, LogType DEF ClockInv, ClockHeld
  <2>3. max_rev <= rec.mod_revision
    <3>1. CASE pos = 0
      BY <2>1, <2>2, <3>1 DEF ClockInv, ClockHeld
    <3>2. CASE pos # 0
      <4>1. pos \in 1 .. Len(wal) /\ pos <= pos + 1 /\ max_rev = wal[pos].mod_revision
        BY <2>1, <3>2 DEF ClockInv, ClockHeld
      <4> QED
        BY <2>1, <4>1 DEF ClockInv, RevisionsOrdered
    <3> QED
      BY <3>1, <3>2
  <2>4. keys' = ApplyRecord(keys, rec) /\ max_rev' = rec.mod_revision
    BY <1>0, <1>2, <2>2, <2>3 DEF ReplayRecord
  <2>5. clock = max_rev + 1
    BY <2>1
  <2> HIDE DEF rec, clock
  <2>6. rec.key \in Keys /\ rec.deleted \in BOOLEAN
    BY <2>2 DEF Record
  <2>7. ASSUME ~rec.deleted PROVE EntryStamps(keys', rec.mod_revision + 1)
    <3>1. /\ keys'[rec.key].mod_revision = rec.mod_revision
          /\ keys'[rec.key].create_revision = NextCreate(keys, rec.key, rec.mod_revision)
          /\ keys'[rec.key].delete_revision = 0
          /\ \A j \in Keys \ {rec.key} : keys'[j] = keys[j]
      BY <1>0, <2>4, <2>6, <2>7 DEF ApplyRecord, PutEntry, Tables
    <3> QED
      BY <1>0, <2>2, <2>3, <2>5, <2>6, <3>1, PutStamps
  <2>8. ASSUME rec.deleted PROVE EntryStamps(keys', rec.mod_revision + 1)
    <3>1. \A j \in Keys : keys'[j] = keys[j] \/ Buried(keys, keys', j, rec.mod_revision)
      BY <1>0, <2>4, <2>6, <2>8 DEF ApplyRecord, ApplyDelete, Tables, KeyState, Buried
    <3> QED
      BY <1>0, <2>2, <2>3, <2>5, <3>1, DeleteStamps
  <2> QED
    BY <2>1, <2>4, <2>6, <2>7, <2>8 DEF StampsInv
<1>3. CASE OpenDone
  BY <1>3 DEF OpenDone, StampsInv
<1>4. CASE UNCHANGED <<phase, max_rev>> /\ next_rev' \in Nat /\ next_rev <= next_rev'
  <2> DEFINE clock1 == IF phase = "up" THEN next_rev' ELSE max_rev + 1
  <2>1. clock1 \in Nat /\ clock <= clock1 /\ (StampsInv' <=> EntryStamps(keys', clock1))
    BY <1>0, <1>4 DEF StampsInv, EntryStamps, Present
  <2>2. CASE UNCHANGED <<keys, key_count>>
    <3>1. \A j \in Keys : keys[j].mod_revision \in Nat /\ keys[j].delete_revision \in Nat
      BY <1>0 DEF Tables, KeyState
    <3>2. ASSUME NEW c \in Nat, NEW c1 \in Nat, c <= c1, EntryStamps(keys, c)
          PROVE  EntryStamps(keys, c1)
      BY <3>1, <3>2 DEF EntryStamps
    <3> HIDE DEF clock, clock1
    <3>3. EntryStamps(keys, clock1)
      BY <1>0, <2>1, <3>2
    <3> QED
      BY <2>1, <2>2, <3>3
  <2>3. ASSUME NEW req \in PutRequests, Put(req) \/ TxnPut(req) PROVE StampsInv'
    <3>1. phase = "up"
      <4>1. txn.on \/ phase = "up"
        BY <2>3 DEF Put, TxnPut, LockFree, TxnStep, InTxn
      <4> QED
        BY <4>1 DEF ClockInv, LocksIdle, TypeOK
    <3>2. PICK rev \in Nat : PutAt(req, rev) /\ 1 <= rev /\ rev + 1 = next_rev'
      <4>1. CASE Put(req)
        BY <1>0, <4>1 DEF Put, AllocRevision, TypeOK
      <4>2. CASE TxnPut(req)
        BY <4>2, TxnRevNewest DEF TxnPut
      <4> QED
        BY <2>3, <4>1, <4>2
    <3>3. req.key \in Keys
      BY DEF PutRequests
    <3>4. /\ keys'[req.key].mod_revision = rev
          /\ keys'[req.key].create_revision = NextCreate(keys, req.key, rev)
          /\ keys'[req.key].delete_revision = 0
          /\ \A j \in Keys \ {req.key} : keys'[j] = keys[j]
      BY <1>0, <3>2, <3>3 DEF PutAt, ApplyPut, PutEntry, Tables
    <3>5. /\ clock = next_rev /\ clock1 = next_rev'
          /\ next_rev <= rev + 1 /\ rev < next_rev' /\ next_rev <= next_rev'
      BY <1>0, <1>4, <3>1, <3>2
    <3> HIDE DEF clock, clock1
    <3> QED
      BY <1>0, <1>4, <2>1, <3>2, <3>3, <3>4, <3>5, PutStamps
  <2>4. CASE FinishBatch
    <3>1. phase = "up" /\ batch.rev \in Nat /\ batch.rev + 1 = next_rev /\ next_rev' = next_rev
      BY <2>4 DEF FinishBatch, ClockInv, LocksIdle, ClockHeld, TypeOK, Batches
    <3>2. \A j \in Keys : keys'[j] = keys[j] \/ Buried(keys, keys', j, batch.rev)
      BY <1>0, <2>4 DEF FinishBatch, ApplyDeletes, Tables, KeyState, Buried
    <3>3. clock = next_rev /\ clock1 = next_rev
      BY <3>1
    <3>4. next_rev <= batch.rev + 1 /\ next_rev <= next_rev /\ batch.rev < next_rev
      BY <1>0, <3>1
    <3> HIDE DEF clock, clock1
    <3> QED
      BY <1>0, <2>1, <3>1, <3>2, <3>3, <3>4, DeleteStamps
  <2> QED
    BY <1>1, <1>2, <2>2, <2>3, <2>4, TableSteps
<1> QED
  BY <1>1, <1>2, <1>3, <1>4, ClockSteps

(* Of every entry of a running store the creation is not after the last     *)
(* write, a tombstone not before it, and all are below the clock: what      *)
(* range_historical decides from the entry alone rests on this, also after  *)
(* a restart that recomputed the stamps from the log.                       *)
THEOREM StampsAreOrdered == Spec => []StampsOrdered
<1>1. Init => StampsInv
  BY DEF Init, StampsInv, EntryStamps, Present, EmptyTable, Vacant
<1>2. StampsInv => StampsOrdered
  BY DEF StampsInv, StampsOrdered
<1> QED
  BY <1>1, <1>2, TypeInit, TypeStep, ClockInit, ClockStep, StampsStep, PTL DEF Spec

-----------------------------------------------------------------------------
(* The leases of the live keys.                                             *)

(* A put of a key with no lease, or with one the store knows, keeps every   *)
(* live key covered.                                                        *)
LEMMA PutCovered ==
    ASSUME TypeOK, LeaseInv, NEW req \in PutRequests, NEW rev, PutAt(req, rev),
           ValidatePut(req), phase = "up", ~batch.on, LocksIdle,
           UNCHANGED <<leases, orphans, batch, phase>>
    PROVE  LeaseInv'
<1>1. /\ req.key \in Keys /\ keys \in Tables
      /\ keys' = ApplyPut(keys, req.key, StoredValue(req), StoredLease(req), rev)
  BY DEF PutAt, PutRequests, TypeOK
<1>2. /\ keys'[req.key].lease = StoredLease(req)
      /\ \A j \in Keys \ {req.key} : keys'[j] = keys[j]
  BY <1>1 DEF ApplyPut, PutEntry, Tables
<1>3. AliveKeys(keys') = AliveKeys(keys) \cup {req.key}
  BY <1>1, ApplyPutAlive
<1>4. StoredLease(req) \in {0} \cup leases
  BY DEF ValidatePut
<1>5. AliveKeys(keys) \subseteq Keys
  BY DEF AliveKeys
<1> QED
  BY <1>2, <1>3, <1>4, <1>5 DEF LeaseInv

(* A batch that starts may only add to what is excused.                     *)
LEMMA StartCovered ==
    ASSUME LeaseInv, NEW ks, NEW rev, NEW id, StartBatch(ks, rev, id), ~batch.on,
           LocksIdle, UNCHANGED <<keys, phase, orphans>>, leases \ {id} \subseteq leases',
           \A k \in AliveKeys(keys) : keys[k].lease = id /\ id # 0 => k \in ks
    PROVE  LeaseInv'
<1>1. batch'.doomed = ks /\ batch'.lease = id /\ batch.doomed = {}
  BY DEF StartBatch, LocksIdle, NoBatch
<1>2. AliveKeys(keys') = AliveKeys(keys)
  BY DEF AliveKeys, Alive, Present
<1> QED
  BY <1>1, <1>2 DEF LeaseInv

(* Every step keeps the live keys covered.                                  *)
LEMMA LeaseStep ==
    TypeOK /\ ClockInv /\ LeaseInv /\ [Next]_vars => LeaseInv'
<1> SUFFICES ASSUME TypeOK, ClockInv, LeaseInv, [Next]_vars PROVE LeaseInv'
  OBVIOUS
<1> USE DEF LockFree, InTxn, TxnStep
<1>0. LocksIdle
  BY DEF ClockInv
<1>1. ASSUME UNCHANGED <<keys, phase, batch, orphans>>, leases \subseteq leases'
      PROVE  LeaseInv'
  <2>1. AliveKeys(keys') = AliveKeys(keys)
    BY <1>1 DEF AliveKeys, Alive, Present
  <2> QED
    BY <1>1, <2>1 DEF LeaseInv
<1>2. ASSUME NEW req \in PutRequests, Put(req) \/ TxnPut(req) PROVE LeaseInv'
  <2>1. /\ ValidatePut(req) /\ ~batch.on /\ (txn.on \/ phase = "up")
        /\ UNCHANGED <<leases, orphans, batch, phase>>
        /\ PutAt(req, next_rev) \/ PutAt(req, TxnRev)
    BY <1>2 DEF Put, TxnPut, lock, opening
  <2>2. phase = "up"
    BY <1>0, <2>1 DEF LocksIdle, TypeOK
  <2>3. ASSUME NEW rev, PutAt(req, rev) PROVE LeaseInv'
    BY <1>0, <2>1, <2>2, <2>3, PutCovered
  <2> QED
    BY <2>1, <2>3
<1>3. ASSUME NEW req \in PutRequests, PutWalFails(req) \/ TxnPutWalFails(req) PROVE LeaseInv'
  BY <1>1, <1>3 DEF PutWalFails, TxnPutWalFails, lock, opening, history
<1>4. ASSUME NEW bound \in Bounds, DeleteRange(bound) \/ TxnDelete(bound) PROVE LeaseInv'
  <2>1. /\ ~batch.on /\ UNCHANGED <<keys, phase, orphans, leases>>
        /\ \E ks, rev : StartBatch(ks, rev, 0)
    BY <1>4 DEF DeleteRange, TxnDelete, opening, history
  <2> QED
    BY <1>0, <2>1, StartCovered
<1>5. ASSUME \/ \E n \in 0 .. MaxTxnOps : TxnBegin(n)
             \/ TxnRange \/ TxnNest \/ TxnUnnest \/ TxnCommit \/ TxnRejected
      PROVE  LeaseInv'
  <2>1. UNCHANGED <<keys, phase, batch, orphans, leases>>
    BY <1>5 DEF TxnBegin, TxnRange, TxnNest, TxnUnnest, TxnCommit, TxnRejected, mem,
                opening, history
  <2> QED
    BY <1>1, <2>1
<1>6. CASE LogTombstone
  <2>1. UNCHANGED <<keys, phase, orphans, leases>>
    BY <1>6 DEF LogTombstone, mem, opening
  <2>2. batch'.doomed = batch.doomed /\ batch'.lease = batch.lease
    BY <1>6 DEF LogTombstone, TypeOK, Batches
  <2>3. AliveKeys(keys') = AliveKeys(keys)
    BY <2>1 DEF AliveKeys, Alive, Present
  <2> QED
    BY <2>1, <2>2, <2>3 DEF LeaseInv
<1>7. CASE FinishBatch
  <2>1. /\ keys \in Tables /\ batch.doomed \in SUBSET Keys
        /\ batch.rev \in Nat /\ batch.rev # 0
    BY <1>7 DEF FinishBatch, TypeOK, Batches, ClockInv, ClockHeld
  <2>2. AliveKeys(keys') = AliveKeys(keys) \ batch.doomed
    BY <1>7, <2>1, DeletesAlive DEF FinishBatch
  <2>3. ASSUME NEW k \in AliveKeys(keys')
        PROVE  keys'[k].lease = keys[k].lease /\ k \in AliveKeys(keys) /\ k \notin batch.doomed
    BY <1>7, <2>1, <2>2 DEF FinishBatch, ApplyDeletes, AliveKeys
  <2>4. UNCHANGED <<phase, orphans, leases>>
    BY <1>7 DEF FinishBatch, opening, history
  <2> QED
    BY <2>3, <2>4 DEF LeaseInv
<1>8. CASE BatchFails
  <2>1. /\ UNCHANGED <<keys, phase, leases>> /\ orphans \subseteq orphans'
        /\ batch.lease \in {0} \cup orphans'
    BY <1>8 DEF BatchFails, mem, opening
  <2>2. AliveKeys(keys') = AliveKeys(keys)
    BY <2>1 DEF AliveKeys, Alive, Present
  <2> QED
    BY <2>1, <2>2 DEF LeaseInv
<1>9. ASSUME \/ \E rev \in 1 .. current_revision : Compact(rev)
             \/ \E id \in LeaseIds : LeaseGrant(id)
             \/ LeaseGrantAuto
      PROVE  LeaseInv'
  BY <1>1, <1>9 DEF Compact, LeaseGrant, LeaseGrantAuto, lock, opening, history
<1>10. ASSUME NEW id \in LeaseIds, DropLease(id) PROVE LeaseInv'
  <2>1. /\ ~batch.on /\ UNCHANGED <<keys, phase, orphans>> /\ leases' = leases \ {id}
    BY <1>10 DEF DropLease, opening, history
  <2>2. CASE KeysOfLease(id) = {}
    <3>1. batch' = batch /\ \A k \in AliveKeys(keys) : keys[k].lease # id
      BY <1>10, <2>2 DEF DropLease, KeysOfLease
    <3>2. AliveKeys(keys') = AliveKeys(keys)
      BY <2>1 DEF AliveKeys, Alive, Present
    <3> QED
      BY <2>1, <3>1, <3>2 DEF LeaseInv
  <2>3. CASE KeysOfLease(id) # {}
    <3>1. StartBatch(KeysOfLease(id), next_rev, id)
      BY <1>10, <2>3 DEF DropLease
    <3>2. \A k \in AliveKeys(keys) : keys[k].lease = id /\ id # 0 => k \in KeysOfLease(id)
      BY DEF KeysOfLease
    <3> QED
      BY <1>0, <2>1, <3>1, <3>2, StartCovered
  <2> QED
    BY <2>2, <2>3
<1>11. CASE Crash \/ ReplayRecord
  BY <1>11 DEF Crash, ReplayRecord, LeaseInv
<1>12. CASE OpenDone
  <2>1. keys' = keys /\ leases' = LeasesOf(keys) /\ AliveKeys(keys') = AliveKeys(keys)
    BY <1>12 DEF OpenDone, AliveKeys, Alive, Present
  <2>2. \A k \in AliveKeys(keys) : keys[k].lease \in {0} \cup LeasesOf(keys)
    BY DEF LeasesOf
  <2> QED
    BY <2>1, <2>2 DEF LeaseInv
<1>13. CASE UNCHANGED vars
  BY <1>1, <1>13 DEF vars, mem, lock, opening, history
<1> QED
  BY <1>2, <1>3, <1>4, <1>5, <1>6, <1>7, <1>8, <1>9, <1>10, <1>11, <1>12, <1>13
  DEF Next, LeaseRevoke, LeaseExpire, LeaseKeepAlive

(* When the lock is free, a live key with a lease has one that the store    *)
(* knows and will expire, across restarts and whatever transactions,        *)
(* revocations and failed appends came before; the exception is the lease   *)
(* whose own keys could not be deleted when it was removed.                 *)
THEOREM LeasesAreCovered == Spec => []LeasesCover
<1>1. Init => LeaseInv
  BY DEF Init, LeaseInv
<1>2. ClockInv /\ LeaseInv => LeasesCover
  BY DEF ClockInv, LocksIdle, LeaseInv, LeasesCover, LockFree, NoBatch
<1> QED
  BY <1>1, <1>2, TypeInit, TypeStep, ClockInit, ClockStep, LeaseStep, PTL DEF Spec

-----------------------------------------------------------------------------
(* The blobs.                                                               *)

(* A put encodes the blob from the entry it makes; a tombstone touches      *)
(* neither the blob nor the fields that are also in it.                     *)
LEMMA PutBlobs ==
    ASSUME NEW m \in Tables, BlobsOf(m), NEW k \in Keys, NEW v, NEW l, NEW rev
    PROVE  BlobsOf(ApplyPut(m, k, v, l, rev))
BY DEF BlobsOf, ApplyPut, PutEntry, Tables

(* Deletes keep the stamps in the stored bytes right.                       *)
LEMMA DeletesBlobs ==
    ASSUME NEW m \in Tables, BlobsOf(m), NEW ks, NEW rev
    PROVE  BlobsOf(ApplyDeletes(m, ks, rev))
<1> DEFINE m1 == ApplyDeletes(m, ks, rev)
<1>1. ASSUME NEW k \in Keys
      PROVE  /\ m1[k].kv_bytes = m[k].kv_bytes /\ m1[k].version = m[k].version
             /\ m1[k].create_revision = m[k].create_revision
  BY DEF ApplyDeletes, Tables, KeyState
<1> QED
  BY <1>1 DEF BlobsOf

(* An append whose replay yields a table with true blobs keeps BlobInv.     *)
LEMMA AppendBlobs ==
    ASSUME TypeOK, BlobInv, NEW rec, AppendKv(rec), UNCHANGED partial,
           ~partial => BlobsOf(keys'),
           ~partial /\ ~diverged' => BlobsOf(LastImage')
    PROVE  BlobInv'
<1>0. CASE torn
  BY <1>0 DEF AppendKv, BlobInv
<1> SUFFICES ASSUME ~torn PROVE BlobInv'
  BY <1>0
<1>a. ~torn' /\ diverged' = diverged /\ (~partial => ~diverged)
  BY DEF AppendKv, BlobInv, TypeOK
<1>1. /\ Len(wal) \in Nat /\ Len(wal') = Len(wal) + 1
      /\ \A i \in 1 .. Len(wal) + 1 : images'[i] = images[i]
      /\ LastImage' = images'[Len(wal) + 2]
  BY SMTT(40) DEF TypeOK, AppendKv, LastImage
<1>2. ASSUME NEW i \in 1 .. Len(wal') + 1, ~partial PROVE BlobsOf(images'[i])
  <2>1. CASE i \in 1 .. Len(wal) + 1
    BY <1>1, <1>2, <2>1 DEF BlobInv
  <2>2. CASE i = Len(wal) + 2
    BY <1>1, <1>2, <1>a, <2>2
  <2> QED
    BY <1>1, <2>1, <2>2
<1> QED
  BY <1>2, <1>a DEF BlobInv

(* Every step keeps the blobs of memory and of the replay true.             *)
LEMMA BlobStep ==
    TypeOK /\ ClockInv /\ ReplayInv /\ BlobInv /\ [Next]_vars => BlobInv'
<1> SUFFICES ASSUME TypeOK, ClockInv, ReplayInv, BlobInv, [Next]_vars PROVE BlobInv'
  OBVIOUS
<1> USE DEF LockFree, InTxn, TxnStep
<1>0. /\ keys \in Tables /\ ReplayInv' /\ TypeOK'
      /\ batch.rev \in Nat
  BY ReplayStep, TypeStep DEF BlobInv, TypeOK, Batches
<1>1. ASSUME UNCHANGED <<keys, wal, images, diverged, partial>>, torn => torn'
      PROVE  BlobInv'
  BY <1>1 DEF BlobInv
<1>2. ASSUME NEW req \in PutRequests, Put(req) \/ TxnPut(req) PROVE BlobInv'
  <2>1. /\ ~batch.on /\ (txn.on \/ phase = "up")
        /\ UNCHANGED <<partial, batch, phase>>
        /\ PutAt(req, next_rev) \/ PutAt(req, TxnRev)
    BY <1>2 DEF Put, TxnPut, lock, opening
  <2>2. phase = "up" /\ batch'.doomed = {}
    <3>1. phase = "up"
      BY <2>1 DEF ClockInv, LocksIdle, TypeOK
    <3>2. batch' = NoBatch
      BY <2>1 DEF ClockInv, LocksIdle
    <3> QED
      BY <3>1, <3>2 DEF NoBatch
  <2>3. ASSUME ~partial PROVE BlobsOf(keys')
    <3>1. req.key \in Keys /\ BlobsOf(keys)
      BY <2>3 DEF PutRequests, BlobInv
    <3> QED
      BY <1>0, <2>1, <3>1, PutBlobs DEF PutAt
  <2>4. ASSUME ~diverged' PROVE LastImage' = keys'
    <3>1. LastImage' = ApplyDeletes(keys', {}, batch'.rev)
      <4>1. ~diverged' /\ phase' = "up" /\ batch'.doomed \ batch'.todo = {}
        BY <2>1, <2>2, <2>4
      <4> QED
        BY <1>0, <4>1 DEF ReplayInv
    <3> QED
      BY <1>0, <3>1, NoDeletes DEF TypeOK
  <2>5. \E rec : AppendKv(rec)
    BY <2>1 DEF PutAt
  <2> QED
    BY <2>1, <2>3, <2>4, <2>5, AppendBlobs
<1>3. ASSUME NEW req \in PutRequests, PutWalFails(req) \/ TxnPutWalFails(req) PROVE BlobInv'
  BY <1>1, <1>3 DEF PutWalFails, TxnPutWalFails, AppendFails, history
<1>4. ASSUME NEW bound \in Bounds, DeleteRange(bound) \/ TxnDelete(bound) PROVE BlobInv'
  BY <1>1, <1>4 DEF DeleteRange, TxnDelete, history
<1>5. ASSUME \/ \E n \in 0 .. MaxTxnOps : TxnBegin(n)
             \/ TxnRange \/ TxnNest \/ TxnUnnest \/ TxnCommit \/ TxnRejected
      PROVE  BlobInv'
  <2>1. UNCHANGED <<keys, wal, images, torn, diverged, partial>>
    BY <1>5 DEF TxnBegin, TxnRange, TxnNest, TxnUnnest, TxnCommit, TxnRejected, mem, history
  <2> QED
    BY <1>1, <2>1
<1>6. CASE LogTombstone
  <2>1. batch.on /\ UNCHANGED <<keys, phase, partial>> /\ \E rec : AppendKv(rec)
    BY <1>6 DEF LogTombstone, mem, opening
  <2>2. phase = "up"
    BY <2>1 DEF ClockInv, LocksIdle, TypeOK
  <2>3. keys' \in Tables /\ (~partial => BlobsOf(keys'))
    BY <1>0, <2>1 DEF BlobInv
  <2>4. ASSUME ~partial, ~diverged' PROVE BlobsOf(LastImage')
    <3>1. LastImage' = ApplyDeletes(keys', batch'.doomed \ batch'.todo, batch'.rev)
      BY <1>0, <2>1, <2>2, <2>4 DEF ReplayInv
    <3> QED
      BY <2>3, <2>4, <3>1, DeletesBlobs
  <2> QED
    BY <2>1, <2>3, <2>4, AppendBlobs
<1>7. CASE FinishBatch
  <2>1. UNCHANGED <<wal, images, torn, diverged, partial>>
    BY <1>7 DEF FinishBatch, history
  <2>2. ASSUME ~partial PROVE BlobsOf(keys')
    <3>1. BlobsOf(keys) /\ keys' = ApplyDeletes(keys, batch.doomed, batch.rev)
      BY <1>7, <2>2 DEF FinishBatch, BlobInv
    <3> QED
      BY <1>0, <3>1, DeletesBlobs
  <2> QED
    BY <2>1, <2>2 DEF BlobInv
<1>8. CASE BatchFails
  <2>1. UNCHANGED <<keys, wal, images>>
    BY <1>8 DEF BatchFails, mem
  <2>2. torn => torn'
    BY <1>8 DEF BatchFails, AppendFails
  <2>3. (partial => partial') /\ (diverged' => diverged \/ torn \/ partial')
    BY <1>8 DEF BatchFails
  <2> QED
    BY <1>0, <2>1, <2>2, <2>3 DEF BlobInv
<1>9. ASSUME \/ \E rev \in 1 .. current_revision : Compact(rev)
             \/ \E id \in LeaseIds : LeaseGrant(id) \/ DropLease(id)
             \/ LeaseGrantAuto \/ OpenDone
      PROVE  BlobInv'
  BY <1>1, <1>9 DEF Compact, LeaseGrant, DropLease, LeaseGrantAuto, OpenDone, history
<1>10. CASE Crash
  <2>1. ~diverged' /\ keys' = EmptyTable /\ UNCHANGED <<wal, images, partial>>
    BY <1>10 DEF Crash
  <2>2. BlobsOf(EmptyTable)
    BY DEF BlobsOf, EmptyTable, Vacant
  <2> QED
    BY <2>1, <2>2 DEF BlobInv
<1>11. CASE ReplayRecord
  <2>1. UNCHANGED <<wal, images, torn, diverged, partial, phase>> /\ phase = "replay"
    BY <1>11 DEF ReplayRecord, history
  <2>2. keys' = images'[pos' + 1]
    BY <1>0, <2>1 DEF ReplayInv
  <2>3. pos' + 1 \in 1 .. Len(wal') + 1
    <3>1. pos' = pos + 1 /\ pos < Len(wal) /\ pos \in Nat /\ Len(wal) \in Nat
      BY <1>11 DEF ReplayRecord, TypeOK
    <3> QED
      BY <2>1, <3>1
  <2> QED
    BY <2>1, <2>2, <2>3 DEF BlobInv
<1>12. CASE UNCHANGED vars
  BY <1>1, <1>12 DEF vars, mem, history
<1> QED
  BY <1>2, <1>3, <1>4, <1>5, <1>6, <1>7, <1>8, <1>9, <1>10, <1>11, <1>12
  DEF Next, LeaseRevoke, LeaseExpire, LeaseKeepAlive

(* The create_revision and the version that compares look at are those of   *)
(* the blob that clients are sent, although a replay takes the one from the *)
(* record and recomputes the other: unless a batch of deletes once failed   *)
(* part way.                                                                *)
THEOREM BlobsAlwaysAgree == Spec => []BlobsAgree
<1>1. Init => BlobInv
  <2> SUFFICES ASSUME Init PROVE BlobInv
    OBVIOUS
  <2>1. BlobsOf(EmptyTable)
    BY DEF BlobsOf, EmptyTable, Vacant
  <2>2. ~diverged /\ keys = EmptyTable /\ Len(wal) + 1 = 1 /\ images[1] = EmptyTable
    BY DEF Init
  <2> QED
    BY <2>1, <2>2 DEF BlobInv
<1>2. BlobInv => BlobsAgree
  BY DEF BlobInv, BlobsAgree, BlobsOf
<1> QED
  BY <1>1, <1>2, TypeInit, TypeStep, ClockInit, ClockStep, ReplayInit, ReplayStep,
     BlobStep, PTL DEF Spec

=============================================================================
