------------------------------ MODULE WalCodec ------------------------------
(***************************************************************************)
(* The bytes of the log: the encoded KeyValue blob, its readers and the    *)
(* in-place patch of its revision (storage/wal.rs, storage/state.rs,       *)
(* KvCursor and parse_kv of storage/store.rs), the record around it and    *)
(* the scan of a file.                                                     *)
(*                                                                         *)
(* A file is a sequence of cells.  A cell is a byte, except that a fixed-  *)
(* width little-endian integer (offset, length, checksum) is one cell.  A  *)
(* varint byte is its group of bits, plus GroupBase when more bytes follow.*)
(* None is <<>> and Some(x) is <<x>>.  Offsets count from 0 as in the code.*)
(***************************************************************************)
EXTENDS Integers, Sequences, SequencesExt

CONSTANTS
    GroupBase,     \* values of one varint group (2^7)
    LenGroups,     \* bytes of an overlong u32 (5)
    RevGroups,     \* bytes of an overlong u64, and the longest varint (10)
    OffsetLimit    \* offsets are kept modulo this (2^16)

ASSUME CodecAssumption ==
    /\ {GroupBase, LenGroups, RevGroups, OffsetLimit} \subseteq Nat
    /\ GroupBase > 1 /\ LenGroups > 0 /\ RevGroups >= LenGroups /\ OffsetLimit > 1

DropCells(s, n) == SubSeq(s, n + 1, Len(s))
Cells(s, from, n) == SubSeq(s, from + 1, from + n)

(* crc32c: a checksum that tells the files of the instance apart.           *)
Crc32cSteps(cells) ==
    LET sum[i \in 0 .. Len(cells)] ==
            IF i = 0 THEN 1 ELSE (sum[i - 1] * 131 + cells[i] + 7) % 1000003
    IN  sum
Crc32c(cells) == Crc32cSteps(cells)[Len(cells)]

-----------------------------------------------------------------------------
(* v >> (7 * i), and the bits below: the i-th group of v.                   *)
Shifted(v) ==
    LET shifted[i \in 0 .. RevGroups] ==
            IF i = 0 THEN v ELSE shifted[i - 1] \div GroupBase
    IN  shifted
Group(v, i) == Shifted(v)[i - 1] % GroupBase

(* A number of at most n groups.                                            *)
Fits(v, n) == v \in Nat /\ Shifted(v)[n] = 0

(* The number that cells encode, the last group first.                      *)
GroupsSum(cells) ==
    LET sum[j \in 0 .. Len(cells)] ==
            IF j = 0 THEN 0
            ELSE (cells[Len(cells) - j + 1] % GroupBase) + GroupBase * sum[j - 1]
    IN  sum
GroupsValue(cells) == GroupsSum(cells)[Len(cells)]

(* Fixed width: every byte but the last announces another one.              *)
encode_overlong(v, n) ==
    [i \in 1..n |-> Group(v, i) + IF i < n THEN GroupBase ELSE 0]

decode_overlong(buf, n) ==
    IF Len(buf) < n THEN <<>> ELSE <<GroupsValue(SubSeq(buf, 1, n))>>

(* Minimal width.                                                           *)
encode_varint(v) ==
    encode_overlong(v, CHOOSE n \in 1..RevGroups :
        /\ Shifted(v)[n - 1] < GroupBase
        /\ \A i \in 1..(n - 1) : Shifted(v)[i - 1] >= GroupBase)

(* The place of the first byte that announces no other one, 0 without one.  *)
VarintLen(buf) == SelectInSeq(buf, LAMBDA c : c < GroupBase)

(* Mutant: the longest varint is refused.                                   *)
decode_varint_short(buf) ==
    LET n == VarintLen(buf) IN
    IF n = 0 \/ n >= RevGroups THEN <<>>
    ELSE <<<<GroupsValue(SubSeq(buf, 1, n)), n>>>>

(* <<value, bytes>>.                                                        *)
decode_varint(buf) ==
    LET n == VarintLen(buf) IN
    IF n = 0 \/ n > RevGroups THEN <<>>
    ELSE <<<<GroupsValue(SubSeq(buf, 1, n)), n>>>>

-----------------------------------------------------------------------------
(* encode_kv: tags, lengths and the two offsets, which are cut to their     *)
(* width.                                                                   *)
Tags == [key |-> 10, create |-> 16, mod |-> 24, version |-> 32, value |-> 42,
         lease |-> 48]

encode_kv(kv) ==
    LET upto_key == <<Tags.key>> \o encode_overlong(Len(kv.key), LenGroups) \o kv.key
        upto_mod == upto_key \o <<Tags.create>> \o encode_varint(kv.create_revision)
                             \o <<Tags.mod>>
    IN [bytes |-> upto_mod \o encode_overlong(kv.mod_revision, RevGroups)
                  \o <<Tags.version>> \o encode_varint(kv.version)
                  \o <<Tags.value>> \o encode_overlong(Len(kv.value), LenGroups)
                  \o kv.value
                  \o <<Tags.lease>> \o encode_varint(kv.lease),
        key_offset |-> 1 % OffsetLimit,
        mod_rev_offset |-> Len(upto_mod) % OffsetLimit]

read_key_from_kv(buf, ofs) ==
    LET len == decode_varint(DropCells(buf, ofs)) IN
    IF ofs >= Len(buf) \/ len = <<>> THEN <<>>
    ELSE LET start == ofs + len[1][2] IN
         IF start + len[1][1] > Len(buf) THEN <<>>
         ELSE <<Cells(buf, start, len[1][1])>>

read_mod_revision_from_kv(buf, ofs) ==
    IF ofs + RevGroups > Len(buf) THEN <<>>
    ELSE decode_overlong(DropCells(buf, ofs), RevGroups)

-----------------------------------------------------------------------------
(* The KeyValues of the code's types: lengths of a u32, numbers of a u64.    *)
KeyValues ==
    {kv \in [key : Seq(Nat), value : Seq(Nat), create_revision : Nat,
             mod_revision : Nat, version : Nat, lease : Nat] :
        /\ Fits(Len(kv.key), LenGroups) /\ Fits(Len(kv.value), LenGroups)
        /\ Fits(kv.create_revision, RevGroups) /\ Fits(kv.mod_revision, RevGroups)
        /\ Fits(kv.version, RevGroups) /\ Fits(kv.lease, RevGroups)}

-----------------------------------------------------------------------------
(* KvCursor: a position in a blob and what was read; ok is lost for good    *)
(* when the blob is too short.                                              *)
Cursor(buf) == [buf |-> buf, i |-> 0, ok |-> TRUE, got |-> <<>>]
Stuck(c) == [c EXCEPT !.ok = FALSE]
Advance(c, n, x) == [c EXCEPT !.i = @ + n, !.got = Append(@, x)]

Skip(c, n) ==
    IF ~c.ok \/ c.i + n > Len(c.buf) THEN Stuck(c) ELSE [c EXCEPT !.i = @ + n]

VarintGot(c, d) ==
    IF ~c.ok \/ d = <<>> THEN Stuck(c) ELSE Advance(c, d[1][2], d[1][1])
Varint(c) == VarintGot(c, decode_varint(DropCells(c.buf, c.i)))

Overlong(c, n) ==
    LET d == decode_overlong(DropCells(c.buf, c.i), n) IN
    IF ~c.ok \/ d = <<>> THEN Stuck(c)
    ELSE Advance(c, n, d[1])

(* As many bytes as the length read last, which they replace.               *)
TakeBytes(c) ==
    IF ~c.ok \/ c.i + Last(c.got) > Len(c.buf) THEN Stuck(c)
    ELSE [c EXCEPT !.i = @ + Last(c.got),
                   !.got = Append(Front(@), Cells(c.buf, c.i, Last(@)))]

(* Every sortable field in one pass; tags are skipped, the lease not read.  *)
parse_kv(buf) ==
    LET key == TakeBytes(Overlong(Skip(Cursor(buf), 1), LenGroups))
        stamps == Varint(Skip(Overlong(Skip(Varint(Skip(key, 1)), 1), RevGroups), 1))
        value == TakeBytes(Overlong(Skip(stamps, 1), LenGroups))
    IN IF value.ok THEN <<value.got>> ELSE <<>>

(* The protobuf decoder of the library, for this field order.               *)
KeyValueDecode(buf) ==
    LET key == TakeBytes(Varint(Skip(Cursor(buf), 1)))
        stamps == Varint(Skip(Varint(Skip(Varint(Skip(key, 1)), 1)), 1))
        value == TakeBytes(Varint(Skip(stamps, 1)))
        lease == Varint(Skip(value, 1))
    IN IF lease.ok THEN <<lease.got>> ELSE <<>>

-----------------------------------------------------------------------------
(* Mutant: create_revision is taken for one byte.                           *)
mod_revision_field_offset_short(buf) ==
    1 + LenGroups + GroupsValue(Cells(buf, 1, LenGroups)) + 1 + 2

(* The lengths before the revision added up; the create_revision varint is  *)
(* stepped over to its last byte.                                           *)
mod_revision_field_offset(buf) ==
    LET i == 1 + LenGroups + GroupsValue(Cells(buf, 1, LenGroups)) + 1 IN
    i + (VarintLen(DropCells(buf, i)) - 1) + 2

with_mod_revision(buf, rev) ==
    LET ofs == mod_revision_field_offset(buf)
        field == encode_overlong(rev, RevGroups) IN
    [i \in DOMAIN buf |->
        IF i \in (ofs + 1)..(ofs + RevGroups) THEN field[i - ofs] ELSE buf[i]]

-----------------------------------------------------------------------------
(* KvWalRecord: flags, the offsets and the length, the blob, a checksum.    *)
KvHeader == 4
KvCrc == 1

KvHeaderCells(rec) == <<rec.flags, rec.key_offset, rec.mod_rev_offset, rec.rec_len>>

KvWalRecord(flags, kv) ==
    LET e == encode_kv(kv)
        rec == [flags |-> flags, kv_bytes |-> e.bytes, key_offset |-> e.key_offset,
                mod_rev_offset |-> e.mod_rev_offset,
                rec_len |-> KvHeader + Len(e.bytes) + KvCrc, crc |-> 0]
    IN [rec EXCEPT !.crc = Crc32c(KvHeaderCells(rec) \o rec.kv_bytes)]

serialize(rec) == KvHeaderCells(rec) \o rec.kv_bytes \o <<rec.crc>>

(* Mutant: a record that ends with the data is refused.                     *)
deserialize_exclusive(data) ==
    IF Len(data) < KvHeader + KvCrc \/ data[4] < KvHeader + KvCrc
       \/ data[4] >= Len(data) THEN <<>>
    ELSE <<[flags |-> data[1], key_offset |-> data[2], mod_rev_offset |-> data[3],
            rec_len |-> data[4], crc |-> data[data[4]],
            kv_bytes |-> Cells(data, KvHeader, data[4] - KvHeader - KvCrc)]>>

(* Mutant: the checksum is not compared.                                    *)
deserialize_unchecked(data) ==
    IF Len(data) < KvHeader + KvCrc \/ data[4] < KvHeader + KvCrc
       \/ data[4] > Len(data) THEN <<>>
    ELSE <<[flags |-> data[1], key_offset |-> data[2], mod_rev_offset |-> data[3],
            rec_len |-> data[4], crc |-> data[data[4]],
            kv_bytes |-> Cells(data, KvHeader, data[4] - KvHeader - KvCrc)]>>

deserialize(data) ==
    IF Len(data) < KvHeader + KvCrc \/ data[4] < KvHeader + KvCrc
       \/ data[4] > Len(data) THEN <<>>
    ELSE LET rec == [flags |-> data[1], key_offset |-> data[2],
                     mod_rev_offset |-> data[3], rec_len |-> data[4],
                     crc |-> data[data[4]],
                     kv_bytes |-> Cells(data, KvHeader, data[4] - KvHeader - KvCrc)]
         IN IF \/ Crc32c(SubSeq(data, 1, data[4] - KvCrc)) # rec.crc
               \/ rec.key_offset >= Len(rec.kv_bytes)
               \/ rec.mod_rev_offset + RevGroups > Len(rec.kv_bytes)
            THEN <<>> ELSE <<rec>>

(* scan_kv_file from cell cur: the records up to the end, to an incomplete  *)
(* one or to one that does not check; ok is FALSE when the scan itself is   *)
(* an error.                                                                *)
ScanKv(file) ==
    LET scan[cur \in 0 .. Len(file)] ==
            LET left == DropCells(file, cur)
                rec == IF left[4] > Len(left) THEN <<>>
                       ELSE deserialize(SubSeq(left, 1, left[4])) IN
            IF Len(left) < KvHeader THEN [recs |-> <<>>, cur |-> cur, ok |-> TRUE]
            ELSE IF left[4] < KvHeader + KvCrc
            THEN [recs |-> <<>>, cur |-> cur, ok |-> FALSE]
            ELSE IF rec = <<>> THEN [recs |-> <<>>, cur |-> cur, ok |-> TRUE]
            ELSE [scan[cur + left[4]] EXCEPT !.recs = rec \o @]
    IN  scan
scan_kv_file(file, offset) == ScanKv(file)[offset]

(* The number of records by their headers alone.                            *)
CountFrom(data) ==
    LET count[ofs \in 0 .. Len(data)] ==
            IF \/ ofs + KvHeader + KvCrc > Len(data)
               \/ data[ofs + 4] < KvHeader + KvCrc
               \/ data[ofs + 4] > Len(data) - ofs
            THEN 0
            ELSE 1 + count[ofs + data[ofs + 4]]
    IN  count
count_wal_records(data) == CountFrom(data)[0]
=============================================================================
