----------------------------- MODULE RangeBounds -----------------------------
(***************************************************************************)
(* Key ranges as operators on byte strings: how a (key, range_end) pair of *)
(* a request becomes a RangeBound, which keys a bound matches, which part  *)
(* of the BTreeMap is scanned for it, and when two writes of a transaction *)
(* overlap (storage/mod.rs and the interval helpers of storage/store.rs).  *)
(*                                                                         *)
(* A byte string is a sequence over 0 .. MaxByte; MaxByte stands for 0xFF. *)
(* An open end (None) is the empty sequence in a one-element wrapper:      *)
(* Unbounded, otherwise <<end>>.                                           *)
(***************************************************************************)
EXTENDS Integers, Sequences, SequencesExt

CONSTANT MaxByte

ASSUME MaxByteAssumption == MaxByte \in Nat /\ MaxByte >= 2

ByteStrings(n) == SeqOf(0..MaxByte, n)

(* The order of Vec<u8>: lexicographic, a prefix before its extensions.     *)
Before(a, b) ==
    \/ IsStrictPrefix(a, b)
    \/ \E i \in DOMAIN a \cap DOMAIN b :
          a[i] < b[i] /\ \A j \in 1..(i - 1) : a[j] = b[j]
AtOrBefore(a, b) == a = b \/ Before(a, b)

-----------------------------------------------------------------------------
AllKeys == [kind |-> "All"]
Point(k) == [kind |-> "Point", start |-> k]
From(k) == [kind |-> "From", start |-> k]
Prefix(p) == [kind |-> "Prefix", start |-> p]
KeyRange(s, e) == [kind |-> "Range", start |-> s, end |-> e]

(* Mutant: the wrapped increment of 0xFF is taken for a prefix.             *)
PrefixEncodedWraps(key, range_end) ==
    /\ Len(range_end) = Len(key)
    /\ Front(range_end) = Front(key)
    /\ Last(range_end) = (Last(key) + 1) % (MaxByte + 1)

(* range_end is the key with its last byte incremented.  0xFF has no        *)
(* increment: the wrapped byte would be taken for the \0 encoding.          *)
PrefixEncoded(key, range_end) ==
    /\ Len(range_end) = Len(key)
    /\ Front(range_end) = Front(key)
    /\ Last(range_end) = (Last(key) + 1) % (MaxByte + 1)
    /\ Last(key) # MaxByte

(* The alternate encoding of a prefix: the key followed by a zero byte.     *)
ZeroSuffixed(key, range_end) == range_end = Append(key, 0)

resolve_range(key, range_end) ==
    IF range_end = <<>> THEN Point(key)
    ELSE IF range_end = <<0>> THEN IF key = <<>> THEN AllKeys ELSE From(key)
    ELSE IF PrefixEncoded(key, range_end) \/ ZeroSuffixed(key, range_end)
    THEN Prefix(key)
    ELSE KeyRange(key, range_end)

matches_range(b, key) ==
    CASE b.kind = "All"    -> TRUE
      [] b.kind = "Point"  -> key = b.start
      [] b.kind = "From"   -> AtOrBefore(b.start, key)
      [] b.kind = "Prefix" -> IsPrefix(b.start, key)
      [] b.kind = "Range"  -> AtOrBefore(b.start, key) /\ Before(key, b.end)

-----------------------------------------------------------------------------
(* The bounds given to BTreeMap::range.                                     *)
Unbounded == <<>>

(* Mutant: the end of a point is the key with its last byte incremented.    *)
PointEndIncremented(k) ==
    <<Append(Front(k), Last(k) + 1)>>

(* The smallest key after k.                                                *)
PointEnd(k) == <<Append(k, 0)>>

btree_bounds(b) ==
    CASE b.kind = "All"               -> <<Unbounded, Unbounded>>
      [] b.kind = "Point"             -> <<<<b.start>>, PointEnd(b.start)>>
      [] b.kind \in {"From", "Prefix"} -> <<<<b.start>>, Unbounded>>
      [] b.kind = "Range"             -> <<<<b.start>>, <<b.end>>>>

(* BTreeMap::range needs start <= end.                                      *)
ScanDefined(b) == b.kind = "Range" => AtOrBefore(b.start, b.end)

InBounds(bounds, k) ==
    /\ bounds[1] = Unbounded \/ AtOrBefore(bounds[1][1], k)
    /\ bounds[2] = Unbounded \/ Before(k, bounds[2][1])

(* The keys a scan visits: those of the table within the bounds, in order,  *)
(* up to the first one without the prefix.                                  *)
ScanKeys(table, b) ==
    LET window == {k \in table : InBounds(btree_bounds(b), k)} IN
    {k \in window : b.kind = "Prefix" =>
        \A j \in window : AtOrBefore(j, k) => IsPrefix(b.start, j)}

-----------------------------------------------------------------------------
(* Intervals of the duplicate-key check of transactions: <<start, end>>.    *)
point_interval(key) == <<key, PointEnd(key)>>

(* Mutant: the last byte is incremented whatever it is.                     *)
prefix_end_wraps(prefix) ==
    <<Append(Front(prefix), (Last(prefix) + 1) % (MaxByte + 1))>>

(* The smallest key after all keys with the prefix: trailing 0xFF bytes are *)
(* dropped, the byte before them is incremented.                            *)
prefix_end(prefix) ==
    LET i == SelectLastInSeq(prefix, LAMBDA x : x # MaxByte) IN
    IF i = 0 THEN Unbounded
    ELSE <<Append(SubSeq(prefix, 1, i - 1), prefix[i] + 1)>>

bound_interval(b) ==
    CASE b.kind = "All"    -> <<<<>>, Unbounded>>
      [] b.kind = "Point"  -> point_interval(b.start)
      [] b.kind = "Prefix" -> <<b.start, prefix_end(b.start)>>
      [] b.kind = "From"   -> <<b.start, Unbounded>>
      [] b.kind = "Range"  -> <<b.start, <<b.end>>>>

StartsBeforeEnd(start, end) == end = Unbounded \/ Before(start, end[1])

intervals_overlap(a, b) ==
    /\ StartsBeforeEnd(a[1], a[2])
    /\ StartsBeforeEnd(b[1], b[2])
    /\ StartsBeforeEnd(a[1], b[2])
    /\ StartsBeforeEnd(b[1], a[2])
=============================================================================
