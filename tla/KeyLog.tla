------------------------------- MODULE KeyLog -------------------------------
(***************************************************************************)
(* What a log says about the key table: the replay of a log, the snapshot  *)
(* that replaces one when it is compacted, and what a client can see.      *)
(***************************************************************************)
EXTENDS KeyTable

(* What a client can read of a table: which keys exist and by which write.  *)
View(m) == [k \in AliveKeys(m) |-> m[k].mod_revision]

(* Store::open: apply_record in log order; the table after each record.     *)
ReplaySteps(log) ==
    LET table[i \in 0 .. Len(log)] ==
            IF i = 0 THEN EmptyTable ELSE ApplyRecord(table[i - 1], log[i])
    IN  table
Replay(log) == ReplaySteps(log)[Len(log)]

(* The highest revision in the log.                                         *)
LastRev(log) ==
    LET revs == {0} \cup {log[i].mod_revision : i \in DOMAIN log}
    IN  CHOOSE rev \in revs : \A r \in revs : r <= rev

(* The keys of a set in byte order.                                         *)
InOrder(ks) ==
    CHOOSE s \in [1 .. Cardinality(ks) -> ks] : \A i, j \in DOMAIN s : i < j => s[i] < s[j]

(* Phase A of compact_wal: the records of the live keys, in key order.      *)
SnapshotRecords(m) ==
    LET live == InOrder(AliveKeys(m)) IN
    [i \in DOMAIN live |->
        LET ks == m[live[i]] IN
        [deleted |-> FALSE, key |-> live[i], value |-> ks.value,
         create_revision |-> ks.create_revision, mod_revision |-> ks.mod_revision,
         version |-> ks.version, lease |-> ks.lease]]
=============================================================================
