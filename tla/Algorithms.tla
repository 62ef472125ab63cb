----------------------------- MODULE Algorithms -----------------------------
(***************************************************************************)
(* The pure functions of the store, checked against reference definitions  *)
(* on every input of a bounded set: a behaviour picks an input, looks at   *)
(* it and picks the next one.  The properties are invariants of the input  *)
(* at hand.                                                                *)
(***************************************************************************)
EXTENDS RangeBounds, RangeAnswer, WalTools

CONSTANTS
    MaxKeyLen,     \* bound: bytes of a key or of a range end
    MaxWrites,     \* bound: writes behind a table
    MaxLegacy,     \* bound: records of a legacy log
    LegacyKeys,    \* the keys of its records
    KvFields,      \* the KeyValues to encode
    ScanFields,    \* those of them that records of a file are made of
    NewRevs        \* the revisions to patch into a blob

ASSUME BoundsAssumption == {MaxKeyLen, MaxWrites, MaxLegacy} \subseteq Nat
ASSUME FieldsAssumption ==
    KvFields \subseteq KeyValues /\ ScanFields \subseteq KeyValues /\ NewRevs \subseteq Nat
(* The numbers of a legacy log are u64, and its keys are so short that the   *)
(* offsets of the current format do not wrap.                               *)
ASSUME LegacyAssumption ==
    /\ LegacyKeys \subseteq Keys
    /\ \A n \in 0..MaxLegacy : Fits(n, RevGroups)
    /\ LenGroups + RevGroups + 4 < OffsetLimit

VARIABLE input

vars == <<input>>

None == [kind |-> "none"]
Init == input = None

-----------------------------------------------------------------------------
Requested == (ByteStrings(MaxKeyLen) \ {<<>>}) \X ByteStrings(MaxKeyLen)

(* A range of a request; check_key has refused the empty key.               *)
PickRange ==
    /\ input = None
    /\ \E r \in Requested :
          input' = [kind |-> "range", bound |-> resolve_range(r[1], r[2]),
                    key |-> r[1], range_end |-> r[2]]

(* Two writes of one branch of a transaction; a put is a point.             *)
PickWrites ==
    /\ input = None
    /\ \E r, q \in Requested :
          input' = [kind |-> "writes", a |-> resolve_range(r[1], r[2]),
                    b |-> resolve_range(q[1], q[2])]

(* A short history of puts and deletes; the n-th write has revision n.      *)
Writes(ks, leases) ==
    {[deleted |-> FALSE, key |-> k, value |-> v, lease |-> l] :
        k \in ks, v \in Values, l \in leases}
    \cup {[deleted |-> TRUE, key |-> k, value |-> EmptyValue, lease |-> 0] : k \in ks}
Commit(m, w, rev) ==
    IF w.deleted THEN ApplyDelete(m, w.key, rev)
    ELSE ApplyPut(m, w.key, w.value, w.lease, rev)
TableSteps(h) ==
    LET table[i \in 0 .. Len(h)] ==
            IF i = 0 THEN EmptyTable ELSE Commit(table[i - 1], h[i], i)
    IN  table
TableAfter(h) == TableSteps(h)[Len(h)]

(* A table such a history leaves.                                           *)
PickTable ==
    /\ input = None
    /\ \E h \in SeqOf(Writes(Keys, {0}), MaxWrites) :
          input' = [kind |-> "table", table |-> TableAfter(h)]

PickKv ==
    /\ input = None
    /\ \E kv \in KvFields : input' = [kind |-> "kv", kv |-> kv]

(* A file of whole records, where a write was cut, and a later record.      *)
RecordsOf(kvs) == [i \in DOMAIN kvs |-> KvWalRecord(IS_CREATE, kvs[i])]
PickFile ==
    /\ input = None
    /\ \E kvs \in SeqOf(ScanFields, 2), later \in ScanFields :
       \E cut \in 0..Len(FileOf(RecordsOf(kvs))) :
          input' = [kind |-> "file", kvs |-> kvs, later |-> later, cut |-> cut]

(* A legacy log: a put of a key that is not there is flagged as creation.   *)
LegacyWrites == Writes(LegacyKeys, {0, 1})
LegacyRecords(h) ==
    [i \in DOMAIN h |->
        LET w == h[i]
            before == TableAfter(SubSeq(h, 1, i - 1)) IN
        [revision |-> i, key |-> KeyBytes(w.key), value |-> ValueBytes(w.value),
         lease_id |-> IF w.lease = 0 THEN <<>> ELSE <<w.lease>>,
         flags |-> LeaseFlag(w.lease)
                   + IF w.deleted THEN DELETED
                     ELSE IF Alive(before, w.key) THEN 0 ELSE IS_CREATE]]
LegacyLog(recs) == FlattenSeq([i \in DOMAIN recs |-> LegacySerialize(recs[i])])

PickLegacy ==
    /\ input = None
    /\ \E h \in SeqOf(LegacyWrites, MaxLegacy) :
          input' = [kind |-> "legacy", history |-> h, log |-> LegacyLog(LegacyRecords(h))]

(* A legacy log of which a tail is missing, or one checked cell changed.    *)
CheckedCells(recs, i) ==
    LET before == Len(LegacyLog(SubSeq(recs, 1, i - 1))) IN
    (before + LegacyHeader)..(before + Len(LegacySerialize(recs[i])))
PickDamage ==
    /\ input = None
    /\ \E h \in [1..2 -> LegacyWrites] :
       LET recs == LegacyRecords(h) IN
       \/ \E cut \in 0..Len(LegacyLog(recs)) :
             input' = [kind |-> "cut", recs |-> recs, cut |-> cut]
       \/ \E i \in DOMAIN recs : \E pos \in CheckedCells(recs, i), cell \in 0..6 :
             /\ LegacyLog(recs)[pos] # cell
             /\ input' = [kind |-> "changed", recs |-> recs, bad |-> i, pos |-> pos,
                          cell |-> cell]

(* Done with the input.                                                     *)
Drop == input # None /\ input' = None

Next ==
    \/ PickRange \/ PickWrites \/ PickTable \/ PickKv \/ PickFile
    \/ PickDamage \/ PickLegacy \/ Drop

Spec == Init /\ [][Next]_vars
-----------------------------------------------------------------------------
(* Key ranges.                                                              *)

(* The keys a request asks for, as rpc.proto defines key and range_end.     *)
AsksFor(key, end, k) ==
    CASE end = <<>>  -> k = key
      [] end = <<0>> -> AtOrBefore(key, k)
      [] OTHER       -> AtOrBefore(key, k) /\ Before(k, end)

BoundMatches(in) ==
    \A k \in ByteStrings(MaxKeyLen + 1) :
        matches_range(in.bound, k) <=> AsksFor(in.key, in.range_end, k)

(* A bound matches exactly the keys the request asks for: the key itself    *)
(* without a range end, all keys from it on for the end \0, and the         *)
(* half-open interval otherwise, also where the bound is kept as a prefix   *)
(* (resolve_range and matches_range).  The end key\0 is left out: by        *)
(* rpc.proto it asks for the one key, and resolve_range takes it for the    *)
(* prefix key.                                                              *)
MatchExact ==
    input.kind = "range" /\ input.range_end # Append(input.key, 0) => BoundMatches(input)

(* Scanning the map between the bounds, and stopping at the first key       *)
(* without the prefix, visits the keys the bound matches, no more and no    *)
(* fewer, whatever else is in the map (btree_bounds, delete_range_at,       *)
(* range_current).                                                          *)
ScanExact ==
    input.kind = "range" /\ ScanDefined(input.bound) =>
        LET table == ByteStrings(MaxKeyLen + 1) IN
        ScanKeys(table, input.bound) = {k \in table : matches_range(input.bound, k)}

(* Two writes of a transaction are refused as duplicates exactly if some    *)
(* key is matched by both (intervals_overlap on bound_interval).            *)
OverlapExact ==
    input.kind = "writes" =>
        (intervals_overlap(bound_interval(input.a), bound_interval(input.b))
            <=> \E k \in ByteStrings(MaxKeyLen) :
                    matches_range(input.a, k) /\ matches_range(input.b, k))

-----------------------------------------------------------------------------
(* Compares and pages.                                                      *)
Compares ==
    {cmp \in [key : LegacyKeys, target : 0..5, result : 0..4, union : 0..5,
              expected : {0, 1, 3}] :
        cmp.union \in {cmp.target, 0, 3}}

(* The writes of a key since it was last deleted.                           *)
Lifetime(h, k) ==
    {i \in DOMAIN h : /\ h[i].key = k /\ ~h[i].deleted
                      /\ \A j \in (i + 1)..Len(h) : h[j].key = k => ~h[j].deleted}

(* What a compare has to find: nothing of a key without a lifetime, and     *)
(* otherwise the number of its writes, its first and its last one and the   *)
(* value and lease of that.                                                 *)
Absent(target) == IF target = 3 THEN EmptyValue ELSE 0
Found(h, k, target) ==
    LET life == Lifetime(h, k) IN
    IF life = {} THEN Absent(target)
    ELSE CASE target = 1 -> Min(life)
           [] target = 2 -> Max(life)
           [] target = 3 -> h[Max(life)].value
           [] target = 4 -> h[Max(life)].lease
           [] OTHER      -> Cardinality(life)
(* Whether it holds.  An unknown target is Version, an unknown result Equal *)
(* and a value sent for another field than the target is not taken.         *)
CompareHolds(h, cmp) ==
    LET target == IF cmp.target > 4 THEN 0 ELSE cmp.target
        actual == Found(h, cmp.key, target)
        expected == IF cmp.union = target THEN cmp.expected ELSE Absent(target) IN
    CASE cmp.result = 1 -> actual > expected
      [] cmp.result = 2 -> actual < expected
      [] cmp.result = 3 -> actual # expected
      [] OTHER          -> actual = expected

(* After any history of puts and deletes a compare is answered from the     *)
(* writes of the key's current lifetime alone: nothing of an earlier one    *)
(* shows through the tombstone or after the key was created again           *)
(* (eval_compare on the table of put_at and delete_range_at).  A key that   *)
(* does not exist compares as version, revisions and lease 0 and the empty  *)
(* value, so that Equal can hold of it (prd/data-model.md 5.1.4: "false").  *)
CompareExact ==
    input.kind = "legacy" =>
        LET m == TableAfter(input.history) IN
        \A cmp \in Compares : eval_compare(m, cmp) <=> CompareHolds(input.history, cmp)

Requests ==
    {req \in [keys : {Keys} \cup {{k} : k \in Keys}, point : BOOLEAN, limit : 0..2,
              sort_order : 0..2, sort_target : 0..5, keys_only : BOOLEAN,
              count_only : BOOLEAN, min_mod : {0, 2}, max_mod : {0, 2},
              min_create : {0, 2}, max_create : {0, 2}] :
        /\ req.point <=> Cardinality(req.keys) = 1
        /\ req.max_create = 0
           \/ (req.min_mod = 0 /\ req.max_mod = 0 /\ req.min_create = 0)}

(* Whether a comes before b in the order a request asks for: the field of   *)
(* the entry, then the key.                                                 *)
RankField(m, k, target) ==
    CASE target = 1 -> m[k].version
      [] target = 2 -> m[k].create_revision
      [] target = 3 -> m[k].mod_revision
      [] target = 4 -> m[k].value
      [] OTHER      -> 0
Ranks(m, a, b, req) ==
    LET field(k) == RankField(m, k, req.sort_target)
        up(x, y) == field(x) < field(y) \/ (field(x) = field(y) /\ x < y)
    IN IF req.sort_order = Descend /\ req.sort_target \in 0..4 THEN up(b, a)
       ELSE IF req.sort_order = Ascend THEN up(a, b)
       ELSE a < b

(* What the answer to a request has to be.                                  *)
IsPage(m, req, ans) ==
    LET hits == {k \in req.keys : Alive(m, k) /\ PassesFilters(m[k], req)}
        cut == req.limit > 0 /\ req.limit < Cardinality(hits)
        page == [i \in DOMAIN ans.kvs |-> ans.kvs[i].key] IN
    /\ ans.count = Cardinality(hits)
    /\ req.count_only => ans.kvs = <<>> /\ ~ans.more
    /\ ~req.count_only /\ (req.keys_only => req.sort_target = SortByKey) =>
          /\ ans.more = cut
          /\ Len(page) = IF cut THEN req.limit ELSE Cardinality(hits)
          /\ ToSet(page) \subseteq hits
          /\ \A i, j \in DOMAIN page : i < j => Ranks(m, page[i], page[j], req)
          /\ \A i \in DOMAIN page : \A k \in hits \ ToSet(page) :
                Ranks(m, page[i], k, req)

(* A page holds the first `limit' of the keys that match, in the order      *)
(* asked for; count is the number of all of them and more tells whether     *)
(* some were left out (range_current, sort_kvs).  keys_only with an order   *)
(* by another field than the key is left out: the blobs are emptied first.  *)
PageExact ==
    input.kind = "table" => \A req \in Requests :
        IsPage(input.table, req, range_current(input.table, req))

-----------------------------------------------------------------------------
(* Blobs and files.                                                         *)

(* The three readers of a blob agree with what was encoded: parse_kv on     *)
(* every blob, also when its end is missing (then it reads all or nothing), *)
(* the protobuf decoder, and the two reads through the offsets of the       *)
(* record, that of the revision unless the key is so long that the offset   *)
(* wraps; and a record survives serialize and deserialize.                  *)
CodecExact ==
    input.kind = "kv" =>
        LET kv == input.kv
            e == encode_kv(kv)
            rec == KvWalRecord(IS_CREATE, kv)
            fields == <<kv.key, kv.create_revision, kv.mod_revision, kv.version,
                        kv.value>>
            lease_size == 1 + Len(encode_varint(kv.lease)) IN
        /\ \A n \in 0..Len(e.bytes) :
              parse_kv(SubSeq(e.bytes, 1, n)) =
                 IF n >= Len(e.bytes) - lease_size THEN <<fields>> ELSE <<>>
        /\ KeyValueDecode(e.bytes) = <<Append(fields, kv.lease)>>
        /\ read_key_from_kv(e.bytes, e.key_offset) = <<kv.key>>
        /\ Len(kv.key) + LenGroups + RevGroups + 3 < OffsetLimit =>
              read_mod_revision_from_kv(e.bytes, e.mod_rev_offset) = <<kv.mod_revision>>
        /\ deserialize(serialize(rec)) = <<rec>>

(* Patching the revision of a blob in place gives the blob that encoding    *)
(* the key with that revision would give (with_mod_revision).               *)
PatchExact ==
    input.kind = "kv" => \A rev \in NewRevs :
        with_mod_revision(encode_kv(input.kv).bytes, rev) =
            encode_kv([input.kv EXCEPT !.mod_revision = rev]).bytes

(* The whole records of a file that was cut.                                *)
CutFile(in) == SubSeq(FileOf(RecordsOf(in.kvs)), 1, in.cut)
WholeRecords(in) ==
    Max({i \in 0..Len(in.kvs) : Len(FileOf(RecordsOf(SubSeq(in.kvs, 1, i)))) <= in.cut})
CutBetween(in) ==
    Len(FileOf(RecordsOf(SubSeq(in.kvs, 1, WholeRecords(in))))) = in.cut

(* A file cut anywhere gives back exactly its whole records, by the scan    *)
(* and by the count of headers; and what is appended behind whole records   *)
(* is read (scan_kv_file, count_wal_records).                               *)
ScanWhole ==
    input.kind = "file" =>
        LET file == CutFile(input)
            n == WholeRecords(input)
            whole == RecordsOf(SubSeq(input.kvs, 1, n))
            later == KvWalRecord(IS_CREATE, input.later)
            scan == scan_kv_file(file, 0) IN
        /\ scan.ok /\ scan.recs = whole
        /\ count_wal_records(file) = n
        /\ CutBetween(input) =>
              scan_kv_file(file \o serialize(later), 0).recs = Append(whole, later)

(* A record appended behind an incomplete one is never read: the scan stops *)
(* where the file was cut (scan_kv_file).                                   *)
TornHidesLater ==
    input.kind = "file" /\ ~CutBetween(input) =>
        scan_kv_file(CutFile(input) \o serialize(KvWalRecord(IS_CREATE, input.later)),
                     0).recs
            = RecordsOf(SubSeq(input.kvs, 1, WholeRecords(input)))

-----------------------------------------------------------------------------
(* Legacy logs.                                                             *)

(* The table has what the history describes: which keys live, their value   *)
(* and lease, when they were created and last written and how often, in the *)
(* entry and in the blob.                                                   *)
Describes(h, m) ==
    \A k \in Keys : LET life == Lifetime(h, k) IN
        /\ Alive(m, k) <=> life # {}
        /\ life # {} =>
              /\ m[k].create_revision = Min(life)
              /\ m[k].mod_revision = Max(life)
              /\ m[k].version = Cardinality(life)
              /\ m[k].kv_bytes = [create_revision |-> Min(life),
                                  version |-> Cardinality(life)]
              /\ m[k].value = h[Max(life)].value
              /\ m[k].lease = h[Max(life)].lease

(* Opening a migrated log gives the state the legacy history describes      *)
(* (wal_migrate, then Store::open).                                         *)
MigrationFaithful ==
    input.kind = "legacy" =>
        Describes(input.history, OpenFile(migrate(read_old_records(input.log))))

(* A rebuilt state, the one the verifier of the new format finds (without   *)
(* create_revision) and a recovered table agree with the history.           *)
SameData(h, st, new, again) ==
    /\ DOMAIN new = DOMAIN st
    /\ \A k \in Keys : LET life == Lifetime(h, k) b == KeyBytes(k) IN
        /\ Alive(again, k) <=> life # {}
        /\ b \in DOMAIN st <=> life # {}
        /\ life # {} =>
              /\ st[b] = [value |-> ValueBytes(h[Max(life)].value),
                          mod_revision |-> Max(life), create_revision |-> Min(life),
                          version |-> Cardinality(life)]
              /\ new[b].mod_revision = Max(life)
              /\ new[b].version = Cardinality(life)
              /\ again[k].value = h[Max(life)].value
              /\ again[k].mod_revision = Max(life)

(* The tools rebuild the same state from a legacy log; the verifier of the  *)
(* new format agrees on the migrated log except for create_revision; and a  *)
(* log written by walrecover, migrated and opened, has the same keys with   *)
(* the same values and revisions (waldoctor, walverify, walverify_new,      *)
(* walrecover).                                                             *)
RecoveryKeepsData ==
    input.kind = "legacy" =>
        /\ waldoctor(input.log) = walverify(input.log)
        /\ SameData(input.history, waldoctor(input.log),
                    VerifyNew(migrate(read_old_records(input.log))),
                    OpenFile(migrate(read_old_records(walrecover(input.log)))))

(* Of a log without its tail every tool reads the whole records             *)
(* (wal_migrate, waldoctor, walverify, walrecover).                         *)
CutLogRead ==
    input.kind = "cut" =>
        LET recs == input.recs
            log == SubSeq(LegacyLog(recs), 1, input.cut)
            n == Max({i \in 0..Len(recs) :
                        Len(LegacyLog(SubSeq(recs, 1, i))) <= input.cut})
            whole == SubSeq(recs, 1, n) IN
        /\ read_old_records(log) = whole
        /\ waldoctor_scan(log) = whole
        /\ walverify_scan(log) = whole
        /\ walrecover_scan(log) = whole

(* Of a log with one changed cell the migration reads the records before it *)
(* and walrecover all others, unless the flags were hit.  The doctor and    *)
(* the verifier go on inside the damaged record and read all others too,    *)
(* unless a cell of that record looks like a marker: then they may take the *)
(* cells behind it for a header, find its lengths beyond the end, and stop  *)
(* with the records before the damage.                                      *)
DamagedLogRead ==
    input.kind = "changed" =>
        LET recs == input.recs
            log == [LegacyLog(recs) EXCEPT ![input.pos] = input.cell]
            before == SubSeq(recs, 1, input.bad - 1)
            others == RemoveAt(recs, input.bad)
            start == Len(LegacyLog(before))
            marked == \E i \in 2..Len(LegacySerialize(recs[input.bad])) :
                        log[start + i] = Magic IN
        /\ \A scan \in {waldoctor_scan(log), walverify_scan(log)} :
              scan \in IF marked THEN {others, before} ELSE {others}
        /\ read_old_records(log) = before
        /\ input.pos # start + LegacyHeader => walrecover_scan(log) = others
=============================================================================
