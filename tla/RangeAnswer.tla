----------------------------- MODULE RangeAnswer -----------------------------
(***************************************************************************)
(* What the store answers from its key table under one lock: a compare of  *)
(* a transaction (eval_compare, storage/mod.rs) and a range read with its  *)
(* filters, order and limit (range_current and sort_kvs, storage/store.rs).*)
(* A request's key range is a set of keys here; RangeBounds relates ranges *)
(* to sets.  Values are naturals, ordered like byte strings.               *)
(***************************************************************************)
EXTENDS KeyLog, SequencesExt

CONSTANT TopFactor    \* a page this many times smaller than the result is
                      \* selected before it is sorted (64 in the code)

ASSUME TopFactorAssumption == TopFactor \in Nat \ {0}
ASSUME OrderedValues == Values \subseteq Nat

-----------------------------------------------------------------------------
(* Compares.  Wire values of CompareResult and CompareTarget; an unknown    *)
(* one falls back to Equal and to Version.                                  *)
Equal == 0
Greater == 1
Less == 2
NotEqual == 3
result_from_i32(v) == IF v \in 0..3 THEN v ELSE Equal
target_from_i32(v) == IF v \in 0..4 THEN v ELSE 0

(* cmp_i64 and cmp_bytes.                                                   *)
CmpOrd(result, actual, expected) ==
    \/ result = Equal /\ actual = expected
    \/ result = Greater /\ actual > expected
    \/ result = Less /\ actual < expected
    \/ result = NotEqual /\ actual # expected

(* Mutant: the fields of a tombstone are compared as they are.              *)
CompareFieldAny(m, k, target) ==
    <<m[k].version, m[k].create_revision, m[k].mod_revision, m[k].value,
      m[k].lease>>[target + 1]

(* The compared field; a deleted key counts as one that does not exist.     *)
CompareField(m, k, target) ==
    IF ~Alive(m, k) THEN IF target = 3 THEN EmptyValue ELSE 0
    ELSE <<m[k].version, m[k].create_revision, m[k].mod_revision, m[k].value,
           m[k].lease>>[target + 1]

(* cmp.union names the field the expected value was sent for; any other     *)
(* one leaves the default.                                                  *)
eval_compare(m, cmp) ==
    LET target == target_from_i32(cmp.target)
        default == IF target = 3 THEN EmptyValue ELSE 0 IN
    CmpOrd(result_from_i32(cmp.result), CompareField(m, cmp.key, target),
           IF cmp.union = target THEN cmp.expected ELSE default)

-----------------------------------------------------------------------------
(* Sorting.  Wire values of SortOrder and SortTarget.                       *)
Ascend == 1
Descend == 2
SortByKey == 0
SortFields == {1, 2, 3, 4}    \* VERSION, CREATE, MOD, VALUE

SortValue(kv, target) ==
    <<kv.version, kv.create_revision, kv.mod_revision, kv.value>>[target]

(* The comparator: the target, then the key; reversed as a whole.           *)
SortsBefore(a, b, order, target) ==
    LET ascends(x, y) ==
        \/ SortValue(x, target) < SortValue(y, target)
        \/ SortValue(x, target) = SortValue(y, target) /\ x.key < y.key
    IN IF order = Descend THEN ascends(b, a) ELSE ascends(a, b)

(* select_nth_unstable_by(limit - 1) and truncate(limit): the first limit   *)
(* entries, as a set.                                                       *)
SelectTop(entries, order, target, limit) ==
    {e \in entries :
        Cardinality({f \in entries : SortsBefore(f, e, order, target)}) < limit}

(* sort_unstable_by.  Keys are distinct, so that there is one result.       *)
SortedBy(entries, order, target) ==
    CHOOSE s \in [1 .. Cardinality(entries) -> entries] :
        \A i, j \in DOMAIN s : i < j => SortsBefore(s[i], s[j], order, target)

(* kvs is in key order.                                                     *)
sort_kvs(kvs, order, target, limit) ==
    IF order \notin {Ascend, Descend} \/ target \notin {SortByKey} \cup SortFields
    THEN kvs
    ELSE IF target = SortByKey
    THEN IF order = Descend THEN Reverse(kvs) ELSE kvs
    ELSE LET all == ToSet(kvs)
             entries == IF limit > 0 /\ limit * TopFactor <= Len(kvs)
                        THEN SelectTop(all, order, target, limit) ELSE all
         IN SortedBy(entries, order, target)

-----------------------------------------------------------------------------
(* The four revision filters; 0 turns one off.                              *)
PassesFilters(ks, req) ==
    /\ req.min_mod > 0 => ks.mod_revision >= req.min_mod
    /\ req.max_mod > 0 => ks.mod_revision <= req.max_mod
    /\ req.min_create > 0 => ks.create_revision >= req.min_create
    /\ req.max_create > 0 => ks.create_revision <= req.max_create

(* The blob of a key; for keys_only it is encoded anew with nothing else.   *)
Blob(m, k, req) ==
    IF req.keys_only
    THEN [key |-> k, create_revision |-> 0, mod_revision |-> 0, version |-> 0,
          value |-> EmptyValue]
    ELSE [key |-> k, create_revision |-> m[k].kv_bytes.create_revision,
          mod_revision |-> m[k].mod_revision,
          version |-> m[k].kv_bytes.version, value |-> m[k].value]

(* Mutant: more is derived from what the sort has left.                     *)
HasMoreAfterSort(count, kvs, limit) == limit > 0 /\ Len(kvs) > limit

HasMore(count, kvs, limit) == limit > 0 /\ count > limit

(* The point path (a lookup, never sorted or cut) and the general path.     *)
range_current(m, req) ==
    LET hits == {k \in req.keys : Alive(m, k) /\ PassesFilters(m[k], req)}
        ordered == InOrder(hits)
        kvs == [i \in DOMAIN ordered |-> Blob(m, ordered[i], req)]
        count == Len(kvs)
        sorted == sort_kvs(kvs, req.sort_order, req.sort_target, req.limit)
        more == HasMore(count, sorted, req.limit)
    IN IF req.count_only THEN [kvs |-> <<>>, more |-> FALSE, count |-> count]
       ELSE IF req.point THEN [kvs |-> kvs, more |-> FALSE, count |-> count]
       ELSE [kvs |-> IF more THEN SubSeq(sorted, 1, req.limit) ELSE sorted,
             more |-> more, count |-> count]
=============================================================================
