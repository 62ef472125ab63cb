------------------------------ MODULE KeyTable ------------------------------
(***************************************************************************)
(* The in-memory key table of the store and the write-ahead-log records    *)
(* that rebuild it: storage/state.rs (KeyState) and storage/apply.rs.      *)
(*                                                                         *)
(* The BTreeMap of the code is a total function over Keys; a key that has  *)
(* no entry maps to Vacant.  Keys are naturals that stand for the rank of  *)
(* a key in byte order, so that "in key order" has a meaning.  The encoded *)
(* blob kv_bytes is represented by the two of its fields that the code     *)
(* also stores separately and recomputes on replay; key, value, lease and  *)
(* mod_revision of an entry are always taken from the same bytes.          *)
(***************************************************************************)
EXTENDS Naturals, Sequences, FiniteSets

CONSTANTS
    Keys,          \* the keys of the instance, by rank in byte order
    Values,        \* the values a client may store
    EmptyValue     \* the zero-length value

ASSUME KeysAssumption == Keys \subseteq Nat /\ IsFiniteSet(Keys)
ASSUME ValuesAssumption == EmptyValue \in Values

-----------------------------------------------------------------------------
(* The fields of the encoded KeyValue that KeyState also keeps on its own. *)
KvBytes == [create_revision: Nat, version: Nat]

KeyState ==
    [value: Values, mod_revision: Nat, create_revision: Nat, version: Nat,
     lease: Nat, delete_revision: Nat, rebirth: BOOLEAN, kv_bytes: KvBytes]

(* No entry: every stored version is at least 1.                           *)
Vacant ==
    [value |-> EmptyValue, mod_revision |-> 0, create_revision |-> 0,
     version |-> 0, lease |-> 0, delete_revision |-> 0, rebirth |-> FALSE,
     kv_bytes |-> [create_revision |-> 0, version |-> 0]]

Tables == [Keys -> KeyState]
EmptyTable == [k \in Keys |-> Vacant]

Present(m, k) == m[k].version # 0
Alive(m, k) == Present(m, k) /\ m[k].delete_revision = 0
AliveKeys(m) == {k \in Keys : Alive(m, k)}

-----------------------------------------------------------------------------
(* What a put of a key gives its create_revision and its version: it        *)
(* continues the current lifetime, or starts one at rev.                    *)
NextCreate(m, k, rev) == IF Alive(m, k) THEN m[k].create_revision ELSE rev
NextVersion(m, k) == IF Alive(m, k) THEN m[k].version + 1 ELSE 1

(* The entry a put installs; kv is the blob it is served with.              *)
PutEntry(m, k, v, l, rev, kv) ==
    [value |-> v, mod_revision |-> rev,
     create_revision |-> NextCreate(m, k, rev), version |-> NextVersion(m, k),
     lease |-> l, delete_revision |-> 0,
     rebirth |-> m[k].delete_revision # 0, kv_bytes |-> kv]

(* apply with kv_bytes = None: the blob is encoded from the new entry.      *)
ApplyPut(m, k, v, l, rev) ==
    [m EXCEPT ![k] = PutEntry(m, k, v, l, rev,
                 [create_revision |-> NextCreate(m, k, rev),
                  version |-> NextVersion(m, k)])]

(* apply_delete: a tombstone keeps the entry; an absent or dead key is left *)
(* alone.                                                                   *)
ApplyDelete(m, k, rev) ==
    IF Alive(m, k) THEN [m EXCEPT ![k].delete_revision = rev] ELSE m

(* apply_delete of every key of a set at one revision.                      *)
ApplyDeletes(m, ks, rev) ==
    [k \in Keys |-> IF k \in ks /\ Alive(m, k)
                    THEN [m[k] EXCEPT !.delete_revision = rev] ELSE m[k]]

-----------------------------------------------------------------------------
(* Log records.                                                             *)
Record ==
    [deleted: BOOLEAN, key: Keys, value: Values, create_revision: Nat,
     mod_revision: Nat, version: Nat, lease: Nat]

(* Mutant: a recreated key goes on counting versions in its record.         *)
PutRecordVersionGrows(m, k, v, l, rev) ==
    [deleted |-> FALSE, key |-> k, value |-> v,
     create_revision |-> NextCreate(m, k, rev), mod_revision |-> rev,
     version |-> m[k].version + 1, lease |-> l]

PutRecord(m, k, v, l, rev) ==
    [deleted |-> FALSE, key |-> k, value |-> v,
     create_revision |-> NextCreate(m, k, rev), mod_revision |-> rev,
     version |-> NextVersion(m, k), lease |-> l]

DeleteRecord(m, k, rev) ==
    [deleted |-> TRUE, key |-> k, value |-> m[k].value,
     create_revision |-> m[k].create_revision, mod_revision |-> rev,
     version |-> m[k].version, lease |-> m[k].lease]

(* Mutant: replay of a delete removes the entry instead of marking it.      *)
ApplyRecordForgets(m, rec) ==
    IF rec.deleted
    THEN [m EXCEPT ![rec.key] = Vacant]
    ELSE ApplyPut(m, rec.key, rec.value, rec.lease, rec.mod_revision)

(* apply_record: replay keeps the record's blob but recomputes the entry's  *)
(* own create_revision and version.                                         *)
ApplyRecord(m, rec) ==
    IF rec.deleted
    THEN ApplyDelete(m, rec.key, rec.mod_revision)
    ELSE [m EXCEPT ![rec.key] =
            PutEntry(m, rec.key, rec.value, rec.lease, rec.mod_revision,
                     [create_revision |-> rec.create_revision,
                      version |-> rec.version])]

(* Mutant: replay of a delete does not count.                               *)
CountAfterPutsOnly(m, n, rec) ==
    IF ~rec.deleted /\ ~Alive(m, rec.key) THEN n + 1 ELSE n

(* How a replayed record changes the count of live keys.                    *)
CountAfter(m, n, rec) ==
    CASE ~rec.deleted /\ ~Alive(m, rec.key) -> n + 1
      [] rec.deleted /\ Alive(m, rec.key)   -> IF n = 0 THEN 0 ELSE n - 1
      [] OTHER                              -> n
=============================================================================
