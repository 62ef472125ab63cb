-------------------------- MODULE HistoricalRange --------------------------
(***************************************************************************)
(* Reads at an old revision: Store::range, range_current and               *)
(* range_historical of storage/store.rs with scan_wal_range of             *)
(* storage/mod.rs.                                                         *)
(*                                                                         *)
(* A read takes several short read locks and scans the log without any, so *)
(* writers, compact and the online compaction of the log run between its   *)
(* phases.  One reader is enough: reads do not disturb each other.  An     *)
(* answer maps keys to the mod_revision of the version it returns.  Limit, *)
(* sort order, keys_only, count_only and the revision filters of a request *)
(* are left out.                                                           *)
(***************************************************************************)
EXTENDS KeyLog

CONSTANTS
    Bounds,           \* the sets of keys a range bound can denote
    MaxRev,           \* bound: revisions
    MaxCompactions    \* bound: runs of compact_wal

ASSUME BoundsAssumption ==
    Bounds \subseteq SUBSET Keys /\ MaxRev \in Nat /\ MaxCompactions \in Nat

VARIABLES
    keys, next_rev, compact_rev, wal,   \* StoreState and the log
    \* compact_wal between its snapshot and the swap of the file
    gc, compactions,
    reader,                             \* locals of range
    \* history: views[r] is what could be read at revision r; births counts
    \* the lifetimes of a key; floor is the revision of the last snapshot
    \* that replaced the head of the log
    views, births, floor

vars == <<keys, next_rev, compact_rev, wal, gc, compactions, reader, views,
          births, floor>>
store == <<keys, next_rev, compact_rev, wal, gc, compactions, views, births, floor>>

current_revision == next_rev - 1
NoGc == [on |-> FALSE, recs |-> <<>>, mark |-> 0, rev |-> 0]

(* once and intact are history: the keys with one lifetime when Phase 1     *)
(* looked, and whether the log still had everything after target when       *)
(* Phase 2 scanned it.                                                      *)
Nothing == [k \in {} |-> 0]
Idle == [step |-> "idle", bound |-> {}, target |-> 0, direct |-> Nothing,
         stale |-> {}, scanned |-> Nothing, once |-> {}, intact |-> TRUE]

Within(f, S) == [x \in DOMAIN f \cap S |-> f[x]]
With(f, k, v) == [x \in DOMAIN f \cup {k} |-> IF x = k THEN v ELSE f[x]]
Joined(f, g) == [x \in DOMAIN f \cup DOMAIN g |-> IF x \in DOMAIN f THEN f[x] ELSE g[x]]

-----------------------------------------------------------------------------
Init ==
    /\ keys = EmptyTable /\ next_rev = 1 /\ compact_rev = 0 /\ wal = <<>>
    /\ gc = NoGc /\ compactions = 0 /\ reader = Idle
    /\ views = <<>> /\ births = [k \in Keys |-> 0] /\ floor = 0

-----------------------------------------------------------------------------
(* Writers and the two compactions; modules KvStore and WalCompaction model *)
(* them in detail.                                                          *)

Committed(table, recs) ==
    /\ next_rev <= MaxRev
    /\ next_rev' = next_rev + 1
    /\ keys' = table /\ wal' = wal \o recs
    /\ views' = Append(views, View(table))
    /\ births' = [k \in Keys |->
                    IF Alive(table, k) /\ ~Alive(keys, k) THEN births[k] + 1 ELSE births[k]]
    /\ UNCHANGED <<compact_rev, gc, compactions, reader, floor>>

Put(k) ==
    Committed(ApplyPut(keys, k, EmptyValue, 0, next_rev),
              <<PutRecord(keys, k, EmptyValue, 0, next_rev)>>)

DeleteRange(bound) ==
    \E recs \in [1 .. Cardinality(AliveKeys(keys) \cap bound) ->
                   {DeleteRecord(keys, k, next_rev) : k \in AliveKeys(keys) \cap bound}] :
        /\ \A i, j \in DOMAIN recs : i < j => recs[i].key < recs[j].key
        /\ Committed(ApplyDeletes(keys, bound, next_rev), recs)

Compact(rev) ==
    /\ rev <= current_revision
    /\ rev > compact_rev
    /\ compact_rev' = rev
    /\ UNCHANGED <<keys, next_rev, wal, gc, compactions, reader, views, births, floor>>

CompactSnapshot ==
    /\ ~gc.on
    /\ compactions < MaxCompactions /\ compactions' = compactions + 1
    /\ gc' = [on |-> TRUE, recs |-> SnapshotRecords(keys), mark |-> Len(wal),
              rev |-> current_revision]
    /\ UNCHANGED <<keys, next_rev, compact_rev, wal, reader, views, births, floor>>

CompactSwap ==
    /\ gc.on
    /\ wal' = gc.recs \o SubSeq(wal, gc.mark + 1, Len(wal))
    /\ gc' = NoGc /\ floor' = gc.rev
    /\ UNCHANGED <<keys, next_rev, compact_rev, compactions, reader, views, births>>

-----------------------------------------------------------------------------
(* The read.                                                                *)

(* Revision 0: the answer is taken under one read lock.  views starts at    *)
(* revision 1, so the read of a store never written to (empty) is left out. *)
RangeCurrent(bound) ==
    /\ reader.step = "idle" /\ current_revision > 0
    /\ reader' = [Idle EXCEPT !.step = "done", !.bound = bound, !.once = Keys,
                              !.target = current_revision,
                              !.direct = Within(View(keys), bound)]
    /\ UNCHANGED store

(* A target above the current revision is refused.                          *)
RangeBegin(bound, target) ==
    /\ reader.step = "idle"
    /\ target <= current_revision
    /\ reader' = [Idle EXCEPT !.step = "compacted?", !.bound = bound, !.target = target]
    /\ UNCHANGED store

RangeCheckCompacted ==
    /\ reader.step = "compacted?"
    /\ reader' = IF reader.target < compact_rev THEN Idle
                 ELSE [reader EXCEPT !.step = "phase1"]
    /\ UNCHANGED store

(* Phase 1, under the read lock: what the entry of a key tells about the    *)
(* target revision.                                                         *)
Direct(m, k, target) ==
    /\ Present(m, k)
    /\ m[k].create_revision <= target
    /\ m[k].delete_revision = 0 \/ m[k].delete_revision > target
    /\ m[k].mod_revision <= target

(* Mutant: a tombstone newer than the target hides the key.                 *)
StaleAliveOnly(m, k, target) ==
    /\ Alive(m, k)
    /\ IF m[k].create_revision > target THEN m[k].rebirth
       ELSE m[k].mod_revision > target

Stale(m, k, target) ==
    /\ Present(m, k)
    /\ \/ /\ m[k].create_revision <= target
          /\ m[k].delete_revision = 0 \/ m[k].delete_revision > target
          /\ m[k].mod_revision > target
       \/ Alive(m, k) /\ m[k].create_revision > target /\ m[k].rebirth

RangePhase1 ==
    /\ reader.step = "phase1"
    /\ LET direct == {k \in reader.bound : Direct(keys, k, reader.target)}
           stale  == {k \in reader.bound : Stale(keys, k, reader.target)} IN
       reader' = [reader EXCEPT
                    !.step = IF stale = {} THEN "done" ELSE "phase2",
                    !.direct = [k \in direct |-> keys[k].mod_revision],
                    !.stale = stale,
                    !.once = {k \in Keys : births[k] <= 1}]
    /\ UNCHANGED store

(* scan_wal_range: the last record of every key of the bound up to the      *)
(* target, unless it is a delete.                                           *)
LastUpTo(k, target) ==
    {i \in DOMAIN wal :
        /\ wal[i].key = k /\ wal[i].mod_revision <= target
        /\ \A j \in i + 1 .. Len(wal) :
              ~(wal[j].key = k /\ wal[j].mod_revision <= target)}

(* Mutant: records at the target revision itself are left out.              *)
ScanWalRangeBelow(bound, target) ==
    [k \in {x \in bound : \E i \in LastUpTo(x, target - 1) : ~wal[i].deleted} |->
        wal[CHOOSE i \in LastUpTo(k, target - 1) : TRUE].mod_revision]

ScanWalRange(bound, target) ==
    [k \in {x \in bound : \E i \in LastUpTo(x, target) : ~wal[i].deleted} |->
        wal[CHOOSE i \in LastUpTo(k, target) : TRUE].mod_revision]

(* Phase 2, no lock.                                                        *)
RangePhase2 ==
    /\ reader.step = "phase2"
    /\ reader' = [reader EXCEPT !.step = "phase3",
                                !.scanned = ScanWalRange(reader.bound, reader.target),
                                !.intact = floor <= reader.target]
    /\ UNCHANGED store

(* Phase 3, the stale keys in key order: from the scan, or from the table   *)
(* as it is now, under a read lock of its own, when the scan lacks the key. *)
RangeMerge ==
    /\ reader.step = "phase3"
    /\ \E k \in reader.stale :
         /\ \A j \in reader.stale : k <= j
         /\ reader' = [reader EXCEPT
                !.stale = @ \ {k},
                !.direct = CASE k \in DOMAIN reader.scanned -> With(@, k, reader.scanned[k])
                             [] k \notin DOMAIN reader.scanned /\ Alive(keys, k)
                                                -> With(@, k, keys[k].mod_revision)
                             [] OTHER -> @]
    /\ UNCHANGED store

(* Phase 3, the end: whatever else the scan found.                          *)
RangeMergeRest ==
    /\ reader.step = "phase3" /\ reader.stale = {}
    /\ reader' = [reader EXCEPT !.step = "done", !.direct = Joined(@, reader.scanned)]
    /\ UNCHANGED store

RangeReturn ==
    /\ reader.step = "done"
    /\ reader' = Idle
    /\ UNCHANGED store

-----------------------------------------------------------------------------
Next ==
    \/ \E k \in Keys : Put(k)
    \/ \E bound \in Bounds : DeleteRange(bound)
    \/ \E rev \in 1 .. current_revision : Compact(rev)
    \/ CompactSnapshot \/ CompactSwap
    \/ \E bound \in Bounds : RangeCurrent(bound)
    \/ \E bound \in Bounds, target \in 1 .. MaxRev : RangeBegin(bound, target)
    \/ RangeCheckCompacted
    \/ RangePhase1 \/ RangePhase2 \/ RangeMerge \/ RangeMergeRest
    \/ RangeReturn

Spec == Init /\ [][Next]_vars

-----------------------------------------------------------------------------
(* Properties.                                                              *)

answer == reader.direct
truth == Within(views[reader.target], reader.bound)

(* Whatever the order of the phases and of writes, deletes and compactions  *)
(* between them, a version in the answer that is not newer than the target  *)
(* revision is the one that was current at it.                              *)
OldVersionsTrue ==
    reader.step = "done" =>
        \A k \in DOMAIN answer : answer[k] <= reader.target =>
            k \in DOMAIN truth /\ truth[k] = answer[k]

(* For the keys that never were deleted and created again the answer is     *)
(* exact, neither a key too much nor one too few, unless a compaction of    *)
(* the log had dropped versions newer than the target before the scan.      *)
SingleLifetimeExact ==
    reader.step = "done" /\ reader.intact =>
        Within(answer, reader.once) = Within(truth, reader.once)

(* historical-queries.md: "Phase 1 can conclusively determine the full      *)
(* result set for any target revision"; store.rs, Phase 3: "the key should  *)
(* exist at target".  The answer is what could be read at the target        *)
(* revision.                                                                *)
HistoricalExact == reader.step = "done" /\ reader.intact => answer = truth
=============================================================================
