------------------------------ MODULE WalTools ------------------------------
(***************************************************************************)
(* The offline tools and the legacy log they read: WalRecord of            *)
(* storage/wal.rs, wal_migrate (to the current format), waldoctor,         *)
(* walverify and walverify_new (scan and rebuild the state), walrecover    *)
(* (write the rebuilt state as a legacy log).                              *)
(*                                                                         *)
(* Cells are those of WalCodec.  The CRC of a legacy record covers its     *)
(* flags and its payload.  Rebuilt states are functions on the keys found. *)
(***************************************************************************)
EXTENDS KeyLog, WalCodec

CONSTANT Magic        \* the marker cell; other cells of a record may look like it

ASSUME MagicAssumption == Magic \in Nat

(* The key of a rank and the bytes of a value, and back.                    *)
KeyBytes(k) == <<k>>
KeyRank(bytes) == bytes[1]
ValueBytes(v) == IF v = EmptyValue THEN <<>> ELSE <<v>>
ValueOf(bytes) == CHOOSE v \in Values : ValueBytes(v) = bytes

DELETED == 1
IS_CREATE == 2
HAS_LEASE == 4
HasFlag(flags, f) == (flags \div f) % 2 = 1

LegacyHeader == 6

LegacySerialize(rec) ==
    LET checked == <<rec.flags>> \o rec.key \o rec.value \o rec.lease_id IN
    <<Magic, rec.revision, Crc32c(checked), Len(rec.key), Len(rec.value)>> \o checked

(* What the header at pos announces: where the record ends, and its parts.  *)
LegacyFlags(buf, pos) == buf[pos + 6]
PayloadEnd(buf, pos) == pos + LegacyHeader + buf[pos + 4] + buf[pos + 5]
LegacyEnd(buf, pos) ==
    PayloadEnd(buf, pos) + IF HasFlag(LegacyFlags(buf, pos), HAS_LEASE) THEN 1 ELSE 0
(* Mutant: a record that ends with the data is refused.                     *)
LegacyWholeExclusive(buf, pos) == LegacyEnd(buf, pos) < Len(buf)

LegacyWhole(buf, pos) == LegacyEnd(buf, pos) <= Len(buf)
LegacyChecks(buf, pos) ==
    buf[pos + 3] = Crc32c(SubSeq(buf, pos + 6, LegacyEnd(buf, pos)))
LegacyAt(buf, pos) ==
    [revision |-> buf[pos + 2], flags |-> LegacyFlags(buf, pos),
     key |-> Cells(buf, pos + LegacyHeader, buf[pos + 4]),
     value |-> Cells(buf, pos + LegacyHeader + buf[pos + 4], buf[pos + 5]),
     lease_id |-> SubSeq(buf, PayloadEnd(buf, pos) + 1, LegacyEnd(buf, pos))]

(* WalRecord::deserialize in the loop of wal_migrate: up to the first       *)
(* record that is not whole or does not check.                              *)
ReadOld(buf) ==
    LET read[pos \in 0 .. Len(buf)] ==
            IF \/ pos + LegacyHeader > Len(buf)
               \/ buf[pos + 1] # Magic
               \/ ~LegacyWhole(buf, pos) \/ ~LegacyChecks(buf, pos)
            THEN <<>>
            ELSE <<LegacyAt(buf, pos)>> \o read[LegacyEnd(buf, pos)]
    IN  read
read_old_records(buf) == ReadOld(buf)[0]

(* Mutant: every tool skips a record that does not check by its lengths.    *)
ResyncAtEnd(tool, buf, pos) == LegacyEnd(buf, pos)

(* waldoctor and walverify go on one byte behind the start of a record that *)
(* does not check; walrecover goes on at the end its header announces.      *)
ResyncAt(tool, buf, pos) ==
    IF tool = "recover" THEN LegacyEnd(buf, pos) ELSE pos + 1

ScanLegacy(tool, buf) ==
    LET scan[pos \in 0 .. Len(buf)] ==
            IF pos + LegacyHeader > Len(buf) THEN <<>>
            ELSE IF buf[pos + 1] # Magic THEN scan[pos + 1]
            ELSE IF ~LegacyWhole(buf, pos) THEN <<>>
            ELSE IF ~LegacyChecks(buf, pos) THEN scan[ResyncAt(tool, buf, pos)]
            ELSE <<LegacyAt(buf, pos)>> \o scan[LegacyEnd(buf, pos)]
    IN  scan

(* scan_wal of the three tools: copies that differ in where they go on.     *)
waldoctor_scan(buf) == ScanLegacy("doctor", buf)[0]
walverify_scan(buf) == ScanLegacy("verify", buf)[0]
walrecover_scan(buf) == ScanLegacy("recover", buf)[0]

-----------------------------------------------------------------------------
(* migrate: one record of the current format for every legacy record, with  *)
(* the stamps the legacy format lacks.  A delete repeats what it deletes.    *)
(* st maps the live keys to what is known of them.                          *)
Unknown == [create_revision |-> 0, version |-> 0, value |-> <<>>, lease |-> 0]

LeaseOf(rec) == IF HasFlag(rec.flags, HAS_LEASE) THEN rec.lease_id[1] ELSE 0
LeaseFlag(lease) == IF lease # 0 THEN HAS_LEASE ELSE 0

(* Mutant: a deleted key stays in the map.                                  *)
RemovedNot(st, key) == st

Removed(st, key) == [k \in DOMAIN st \ {key} |-> st[k]]
Inserted(st, key, x) ==
    [k \in DOMAIN st \cup {key} |-> IF k = key THEN x ELSE st[k]]

MigrateOne(acc, rec) ==
    LET deleted == HasFlag(rec.flags, DELETED)
        prev == IF rec.key \in DOMAIN acc.st THEN acc.st[rec.key] ELSE Unknown
        known == IF deleted THEN prev
                 ELSE [create_revision |-> IF prev = Unknown THEN rec.revision
                                           ELSE prev.create_revision,
                       version |-> prev.version + 1, value |-> rec.value,
                       lease |-> LeaseOf(rec)]
        flag == IF deleted THEN DELETED ELSE IS_CREATE
    IN [st |-> IF deleted THEN Removed(acc.st, rec.key)
               ELSE Inserted(acc.st, rec.key, known),
        out |-> Append(acc.out,
           KvWalRecord(flag + LeaseFlag(known.lease),
             [key |-> rec.key, value |-> known.value,
              create_revision |-> known.create_revision,
              mod_revision |-> rec.revision,
              version |-> known.version, lease |-> known.lease]))]

(* The cells of the new log.                                                *)
FileOf(recs) == FlattenSeq([i \in DOMAIN recs |-> serialize(recs[i])])
MigrateSteps(records) ==
    LET acc[i \in 0 .. Len(records)] ==
            IF i = 0 THEN [st |-> <<>>, out |-> <<>>]
            ELSE MigrateOne(acc[i - 1], records[i])
    IN  acc
migrate(records) == FileOf(MigrateSteps(records)[Len(records)].out)

(* What apply_record takes from a record of the file.                       *)
AsRecord(rec, kv) ==
    [deleted |-> HasFlag(rec.flags, DELETED),
     key |-> KeyRank(read_key_from_kv(rec.kv_bytes, rec.key_offset)[1]),
     mod_revision |->
        read_mod_revision_from_kv(rec.kv_bytes, rec.mod_rev_offset)[1],
     create_revision |-> kv[2], version |-> kv[4], value |-> ValueOf(kv[5]),
     lease |-> kv[6]]

(* Store::open on a file.                                                   *)
ReplayAll(recs) ==
    Replay([i \in DOMAIN recs |->
                AsRecord(recs[i], KeyValueDecode(recs[i].kv_bytes)[1])])
OpenFile(file) == ReplayAll(scan_kv_file(file, 0).recs)

-----------------------------------------------------------------------------
(* The state rebuilt by waldoctor, walverify and walrecover from legacy     *)
(* records, and by walverify_new from current ones.                         *)
Rebuild(keys, rec) ==
    IF HasFlag(rec.flags, DELETED) THEN Removed(keys, rec.key)
    ELSE LET fresh == rec.key \notin DOMAIN keys
             entry == [value |-> rec.value, mod_revision |-> rec.revision,
                       create_revision |->
                          IF fresh \/ HasFlag(rec.flags, IS_CREATE) THEN rec.revision
                          ELSE keys[rec.key].create_revision,
                       version |-> IF fresh THEN 1 ELSE keys[rec.key].version + 1]
         IN Inserted(keys, rec.key, entry)
RebuildSteps(records) ==
    LET keys[i \in 0 .. Len(records)] ==
            IF i = 0 THEN <<>> ELSE Rebuild(keys[i - 1], records[i])
    IN  keys
reconstruct_state(records) == RebuildSteps(records)[Len(records)]
waldoctor(buf) == reconstruct_state(waldoctor_scan(buf))
walverify(buf) == reconstruct_state(walverify_scan(buf))

(* walverify_new reads key and revision through the offsets of the record.  *)
AsSeen(rec) ==
    [flags |-> rec.flags, value |-> <<>>,
     key |-> read_key_from_kv(rec.kv_bytes, rec.key_offset)[1],
     revision |-> read_mod_revision_from_kv(rec.kv_bytes, rec.mod_rev_offset)[1]]
VerifyAll(recs) == reconstruct_state([i \in DOMAIN recs |-> AsSeen(recs[i])])
VerifyNew(file) == VerifyAll(scan_kv_file(file, 0).recs)

(* Mutant: the record carries the revision that created the key.            *)
RecoveredRecordCreated(keys, k) ==
    [revision |-> keys[k].create_revision, flags |-> IS_CREATE, key |-> k,
     value |-> keys[k].value, lease_id |-> <<>>]

RecoveredRecord(keys, k) ==
    [revision |-> keys[k].mod_revision, flags |-> IS_CREATE, key |-> k,
     value |-> keys[k].value, lease_id |-> <<>>]

(* write_wal of walrecover: the latest version of every key, in key order.  *)
write_wal(keys) ==
    LET ordered == InOrder({KeyRank(k) : k \in DOMAIN keys}) IN
    FlattenSeq([i \in DOMAIN ordered |->
                    LegacySerialize(RecoveredRecord(keys, KeyBytes(ordered[i])))])

(* The file walrecover writes for the file it reads.                        *)
walrecover(buf) == write_wal(reconstruct_state(walrecover_scan(buf)))
=============================================================================
