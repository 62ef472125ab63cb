------------------------ MODULE WalCompactionProofs ------------------------
(***************************************************************************)
(* Proofs about WalCompaction, for every set of keys, bound and number of  *)
(* faults:                                                                 *)
(*                                                                         *)
(*   TypeOK            with StampInv;                                      *)
(*   UnsyncedPending   with PendingInv;                                    *)
(*   LogCoversMemory   with MemoryInv;                                     *)
(*   PowerLossBounded  with DurableInv.                                    *)
(*                                                                         *)
(* That a raised flag is followed by a sync (EventuallyDurable) rests on   *)
(* fairness and is left to TLC.                                            *)
(***************************************************************************)
EXTENDS WalCompaction, KeyLogProofs, SequenceTheorems

-----------------------------------------------------------------------------
(* Files.                                                                   *)

(* A file that is whole is a log.                                           *)
LEMMA WholeFile ==
    ASSUME NEW f \in Files, Whole(f)
    PROVE  f \in Seq(Record) /\ Scan(f) = f
<1>1. \A i \in 1 .. Len(f) : f[i] \in Record
  BY DEF Files, Whole
<1>2. f \in Seq(Record)
  BY <1>1, LenProperties, IsASeq DEF Files
<1> QED
  BY <1>2 DEF Scan, Whole

(* The parts of a file.                                                     *)
LEMMA AppendParts ==
    ASSUME NEW f \in Files, NEW c \in Record \cup {Torn}
    PROVE  /\ Append(f, c) \in Files /\ Len(Append(f, c)) = Len(f) + 1 /\ Len(f) \in Nat
           /\ Append(f, c)[Len(f) + 1] = c
           /\ \A i \in 1 .. Len(f) : Append(f, c)[i] = f[i]
           /\ \A n \in 0 .. Len(f) : SubSeq(Append(f, c), 1, n) = SubSeq(f, 1, n)
           /\ Whole(Append(f, c)) <=> Whole(f) /\ c # Torn
<1>1. /\ Append(f, c) \in Files /\ Len(Append(f, c)) = Len(f) + 1 /\ Len(f) \in Nat
      /\ Append(f, c)[Len(f) + 1] = c
      /\ \A i \in 1 .. Len(f) : Append(f, c)[i] = f[i]
  BY DEF Files
<1>2. ASSUME NEW n \in 0 .. Len(f) PROVE SubSeq(Append(f, c), 1, n) = SubSeq(f, 1, n)
  BY <1>1 DEF Files
<1>3. Whole(Append(f, c)) <=> Whole(f) /\ c # Torn
  <2>1. DOMAIN f = 1 .. Len(f) /\ DOMAIN Append(f, c) = 1 .. Len(f) + 1
    BY <1>1 DEF Files
  <2> QED
    BY <1>1, <2>1 DEF Whole
<1> QED
  BY <1>1, <1>2, <1>3

(* The first cells of a file.                                               *)
LEMMA PrefixParts ==
    ASSUME NEW f \in Files, NEW n \in 0 .. Len(f)
    PROVE  /\ SubSeq(f, 1, n) \in Files /\ Len(SubSeq(f, 1, n)) = n
           /\ \A i \in 1 .. n : SubSeq(f, 1, n)[i] = f[i]
           /\ SubSeq(f, 1, Len(f)) = f
           /\ \A k \in 0 .. n : SubSeq(SubSeq(f, 1, n), 1, k) = SubSeq(f, 1, k)
           /\ Whole(f) => Whole(SubSeq(f, 1, n))
<1>1. /\ SubSeq(f, 1, n) \in Files /\ Len(SubSeq(f, 1, n)) = n
      /\ \A i \in 1 .. n : SubSeq(f, 1, n)[i] = f[i]
  BY DEF Files
<1>2. SubSeq(f, 1, Len(f)) = f
  BY DEF Files
<1>3. ASSUME NEW k \in 0 .. n PROVE SubSeq(SubSeq(f, 1, n), 1, k) = SubSeq(f, 1, k)
  BY <1>1 DEF Files
<1>4. Whole(f) => Whole(SubSeq(f, 1, n))
  <2>1. DOMAIN f = 1 .. Len(f) /\ DOMAIN SubSeq(f, 1, n) = 1 .. n
    BY <1>1 DEF Files
  <2> QED
    BY <1>1, <2>1 DEF Whole
<1> QED
  BY <1>1, <1>2, <1>3, <1>4

(* An incomplete record at the end of a file is not read.                   *)
LEMMA ScanTorn ==
    ASSUME NEW f \in Files, Whole(f)
    PROVE  Scan(Append(f, Torn)) = f
<1> DEFINE g == Append(f, Torn)
           n == Len(f) + 1
<1>1. /\ DOMAIN g = 1 .. n /\ g[n] = Torn /\ n \in Nat /\ n # 0
      /\ \A i \in 1 .. n - 1 : g[i] # Torn
      /\ SubSeq(g, 1, n - 1) = f
  <2>1. g \in Files /\ Len(g) = n /\ Len(f) \in Nat /\ g[n] = Torn
        /\ \A i \in 1 .. Len(f) : g[i] = f[i]
    BY AppendParts
  <2>2. DOMAIN f = 1 .. Len(f) /\ DOMAIN g = 1 .. n
    BY <2>1 DEF Files
  <2>3. SubSeq(g, 1, Len(f)) = f
    BY <2>1, AppendParts, PrefixParts
  <2> QED
    BY <2>1, <2>2, <2>3 DEF Whole
<1> HIDE DEF g, n
<1> DEFINE First(i) == g[i] = Torn /\ \A j \in 1 .. i - 1 : g[j] # Torn
<1>2. \A i \in DOMAIN g : First(i) <=> i = n
  BY <1>1
<1>3. (CHOOSE i \in DOMAIN g : First(i)) = n
  <2>1. n \in DOMAIN g
    BY <1>1
  <2> HIDE DEF First
  <2> QED
    BY <1>2, <2>1
<1>4. Scan(g) = SubSeq(g, 1, n - 1)
  BY <1>1, <1>3 DEF Scan
<1> QED
  BY <1>1, <1>4 DEF g

(* Whatever a file holds, the scan of it is a log.                          *)
LEMMA ScanType ==
    ASSUME NEW f \in Files
    PROVE  /\ Scan(f) \in Seq(Record)
           /\ Stamped(f) => \A i \in 1 .. Len(Scan(f)) : Scan(f)[i].mod_revision <= MaxRev
<1> DEFINE First(i) == f[i] = Torn /\ \A j \in 1 .. i - 1 : f[j] # Torn
<1>0. DOMAIN f = 1 .. Len(f) /\ Len(f) \in Nat /\ \A i \in 1 .. Len(f) : f[i] \in Record \cup {Torn}
  BY DEF Files
<1>1. CASE \E i \in DOMAIN f : f[i] = Torn
  <2> DEFINE T == {i \in Nat : i \in DOMAIN f /\ f[i] = Torn}
  <2>1. T \in SUBSET Nat /\ T # {}
    BY <1>0, <1>1
  <2>2. PICK n \in T : \A i \in T : n <= i
    BY <2>1, NatLeast
  <2>3. n \in DOMAIN f /\ First(n)
    BY <1>0, <2>2
  <2> DEFINE x == CHOOSE i \in DOMAIN f : First(i)
  <2>4. x \in DOMAIN f /\ First(x)
    <3> HIDE DEF First
    <3> QED
      BY <2>3
  <2>5. Scan(f) = SubSeq(f, 1, x - 1)
    BY <1>1 DEF Scan
  <2> HIDE DEF x, T
  <2>6. /\ Len(Scan(f)) = x - 1 /\ x - 1 \in 0 .. Len(f) /\ Scan(f) \in Files
        /\ \A i \in 1 .. x - 1 : Scan(f)[i] = f[i]
    BY <1>0, <2>4, <2>5, PrefixParts
  <2>7. Whole(Scan(f))
    <3>1. DOMAIN Scan(f) = 1 .. x - 1
      BY <2>6 DEF Files
    <3> QED
      BY <2>4, <2>6, <3>1 DEF Whole
  <2>8. Scan(f) \in Seq(Record)
    BY <2>6, <2>7, WholeFile
  <2> QED
    BY <1>0, <2>4, <2>6, <2>8 DEF Stamped
<1>2. CASE ~ \E i \in DOMAIN f : f[i] = Torn
  <2>1. Whole(f) /\ Scan(f) = f
    BY <1>2 DEF Whole, Scan
  <2>2. f \in Seq(Record)
    BY <2>1, WholeFile
  <2> QED
    BY <1>0, <1>2, <2>1, <2>2 DEF Stamped
<1> QED
  BY <1>1, <1>2

(* The table and the clock that are read from a file.                       *)
LEMMA RecoveredType ==
    ASSUME NEW f \in Files, Stamped(f)
    PROVE  /\ Recovered(f) \in Tables /\ \A k \in Keys : Recovered(f)[k].mod_revision <= MaxRev
           /\ RecoveredRev(f) \in 0 .. MaxRev
<1>1. /\ Scan(f) \in Seq(Record)
      /\ \A i \in 1 .. Len(Scan(f)) : Scan(f)[i].mod_revision <= MaxRev
  BY ScanType
<1> QED
  BY <1>1, ReplayType, LastRevBound, BoundsAssumption DEF Recovered, RecoveredRev

(* What can be read of a table.                                             *)
LEMMA ViewType ==
    ASSUME NEW m \in Tables, \A k \in Keys : m[k].mod_revision <= MaxRev
    PROVE  View(m) \in Views
<1>1. AliveKeys(m) \in SUBSET Keys
  BY DEF AliveKeys
<1>2. \A k \in Keys : m[k].mod_revision \in 0 .. MaxRev
  BY BoundsAssumption DEF Tables, KeyState
<1>3. View(m) \in [AliveKeys(m) -> 0 .. MaxRev]
  BY <1>1, <1>2 DEF View
<1> QED
  BY <1>1, <1>3 DEF Views

(* The file of a compaction under way, with the tail that is there.         *)
LEMMA CompactedParts ==
    ASSUME TypeOK
    PROVE  /\ Compacted \in Files
           /\ Stamped(file) /\ Stamped(snapshot) => Stamped(Compacted)
<1> DEFINE n == Len(snapshot)
           tail == SubSeq(file, mark + 1, Len(file))
<1>1. /\ file \in Files /\ Len(file) \in Nat /\ mark \in 0 .. Len(file)
      /\ snapshot \in Seq(Record) /\ n \in Nat /\ snapshot \in Files
  BY DEF TypeOK, Files
<1>2. /\ tail \in Files /\ Len(tail) = Len(file) - mark
      /\ \A i \in 1 .. Len(tail) : mark + i \in 1 .. Len(file) /\ tail[i] = file[mark + i]
  BY <1>1 DEF Files
<1> HIDE DEF n, tail
<1>3. /\ snapshot \o tail \in Files /\ Len(snapshot \o tail) = n + Len(tail)
      /\ \A i \in 1 .. n : (snapshot \o tail)[i] = snapshot[i]
      /\ \A i \in n + 1 .. n + Len(tail) : i - n \in 1 .. Len(tail) /\ (snapshot \o tail)[i] = tail[i - n]
  <2>1. /\ snapshot \o tail \in Files /\ Len(snapshot \o tail) = n + Len(tail)
        /\ Len(tail) \in Nat
        /\ \A i \in 1 .. n + Len(tail) : (snapshot \o tail)[i] =
              IF i <= n THEN snapshot[i] ELSE tail[i - n]
    <3> DEFINE S == Record \cup {Torn}
    <3>1. snapshot \in Seq(S) /\ tail \in Seq(S) /\ Files = Seq(S)
      BY <1>1, <1>2 DEF Files
    <3> HIDE DEF S
    <3>2. Len(tail) \in Nat
      BY <3>1
    <3> QED
      BY <3>1, <3>2, ConcatProperties DEF n
  <2> QED
    BY <1>1, <2>1
<1>4. ASSUME Stamped(file), Stamped(snapshot) PROVE Stamped(snapshot \o tail)
  <2>1. /\ DOMAIN (snapshot \o tail) = 1 .. n + Len(tail) /\ DOMAIN snapshot = 1 .. n
        /\ DOMAIN file = 1 .. Len(file) /\ Len(tail) \in Nat
    BY <1>1, <1>2, <1>3 DEF Files, n
  <2>2. SUFFICES ASSUME NEW i \in 1 .. n + Len(tail), (snapshot \o tail)[i] # Torn
                 PROVE  (snapshot \o tail)[i].mod_revision <= MaxRev
    BY <2>1 DEF Stamped
  <2>3. CASE i \in 1 .. n
    BY <1>3, <1>4, <2>1, <2>2, <2>3 DEF Stamped
  <2>4. CASE i \notin 1 .. n
    <3>1. i \in n + 1 .. n + Len(tail)
      BY <1>1, <2>1, <2>4
    <3>2. i - n \in 1 .. Len(tail) /\ (snapshot \o tail)[i] = tail[i - n]
      BY <1>3, <3>1
    <3>3. mark + (i - n) \in 1 .. Len(file) /\ tail[i - n] = file[mark + (i - n)]
      BY <1>2, <3>2
    <3> QED
      BY <1>4, <2>1, <2>2, <3>2, <3>3 DEF Stamped
  <2> QED
    BY <2>3, <2>4
<1> QED
  BY <1>3, <1>4 DEF Compacted, tail

(* A record that is appended meanwhile is appended to its tail.             *)
LEMMA CompactedGrows ==
    ASSUME TypeOK, NEW c \in Record \cup {Torn}, file' = Append(file, c),
           snapshot' = snapshot, mark' = mark
    PROVE  Compacted' = Append(Compacted, c)
<1>1. /\ file \in Files /\ Len(file) \in Nat /\ mark \in 0 .. Len(file)
      /\ snapshot \in Seq(Record) /\ snapshot \in Files
  BY DEF TypeOK, Files
<1> DEFINE tail == SubSeq(file, mark + 1, Len(file))
<1>2. tail \in Files
  BY <1>1 DEF Files
<1>3. SubSeq(file', mark + 1, Len(file')) = Append(tail, c)
  <2> DEFINE n == Len(file) - mark
             long == SubSeq(file', mark + 1, Len(file'))
  <2>1. file' \in Files /\ Len(file') = Len(file) + 1 /\ file'[Len(file) + 1] = c
        /\ \A i \in 1 .. Len(file) : file'[i] = file[i]
    BY <1>1, AppendParts
  <2>2. long \in Files /\ Len(long) = n + 1 /\ n \in Nat
        /\ \A i \in 1 .. n + 1 : long[i] = file'[mark + i]
    <3> DEFINE l == Len(file')
    <3>1. l \in Nat /\ mark \in 0 .. l /\ n \in Nat /\ l - mark = n + 1
      BY <1>1, <2>1
    <3>2. \A f \in Files : \A i, j \in Nat : i <= j /\ j <= Len(f) =>
             /\ SubSeq(f, i + 1, j) \in Files /\ Len(SubSeq(f, i + 1, j)) = j - i
             /\ \A k \in 1 .. j - i : SubSeq(f, i + 1, j)[k] = f[i + k]
      BY DEF Files
    <3>3. mark \in Nat /\ mark <= l /\ l <= Len(file') /\ file' \in Files
      BY <2>1, <3>1
    <3>4. long = SubSeq(file', mark + 1, l)
      OBVIOUS
    <3> HIDE DEF l, n, long
    <3>5. /\ long \in Files /\ Len(long) = l - mark
          /\ \A k \in 1 .. l - mark : long[k] = file'[mark + k]
      BY <3>1, <3>2, <3>3, <3>4
    <3> QED
      BY <3>1, <3>5
  <2>3. Len(tail) = n /\ \A i \in 1 .. n : tail[i] = file[mark + i]
    BY <1>1 DEF Files
  <2>4. Append(tail, c) \in Files /\ Len(Append(tail, c)) = n + 1
        /\ Append(tail, c)[n + 1] = c /\ \A i \in 1 .. n : Append(tail, c)[i] = tail[i]
    <3> HIDE DEF tail
    <3> QED
      BY <1>2, <2>3, AppendParts
  <2>5. ASSUME NEW i \in 1 .. n + 1 PROVE long[i] = Append(tail, c)[i]
    <3>1. CASE i = n + 1
      BY <1>1, <2>1, <2>2, <2>4, <3>1
    <3>2. CASE i # n + 1
      <4>1. i \in 1 .. n /\ mark + i \in 1 .. Len(file)
        BY <1>1, <2>2, <3>2
      <4> HIDE DEF tail, long
      <4> QED
        BY <2>1, <2>2, <2>3, <2>4, <4>1
    <3> QED
      BY <3>1, <3>2
  <2> HIDE DEF tail, long, n
  <2>6. long = Append(tail, c)
    BY <2>2, <2>4, <2>5, SeqEqual DEF Files
  <2> QED
    BY <2>6 DEF long
<1> HIDE DEF tail
<1>4. snapshot \o Append(tail, c) = Append(snapshot \o tail, c)
  BY <1>1, <1>2 DEF Files
<1> QED
  BY <1>3, <1>4 DEF Compacted, tail

-----------------------------------------------------------------------------
(* The steps.                                                               *)

(* A put and a delete append a record and apply it.                         *)
LEMMA WriteRecord ==
    ASSUME TypeOK, StampInv, NEW k \in Keys, Put(k) \/ Delete(k)
    PROVE  \E rec \in Record : /\ phase = "up" /\ rec.mod_revision <= MaxRev
                               /\ next_rev <= MaxRev
                               /\ Commit(rec, ApplyRecord(keys, rec))
<1>0. keys \in Tables /\ next_rev \in Nat /\ EmptyValue \in Values
  BY ValuesAssumption, BoundsAssumption DEF TypeOK
<1>1. CASE Put(k)
  <2> DEFINE rec == PutRecord(keys, k, EmptyValue, 0, next_rev)
  <2>1. rec \in Record
    BY <1>0, RecordType
  <2>2. rec.mod_revision = next_rev
    BY DEF PutRecord
  <2>3. ApplyRecord(keys, rec) = ApplyPut(keys, k, EmptyValue, 0, next_rev)
    BY DEF PutRecord, ApplyRecord, ApplyPut
  <2>4. Commit(rec, ApplyRecord(keys, rec)) /\ phase = "up" /\ next_rev <= MaxRev
    BY <1>1, <2>3 DEF Put
  <2> HIDE DEF rec
  <2> QED
    BY <2>1, <2>2, <2>4
<1>2. CASE Delete(k)
  <2> DEFINE rec == DeleteRecord(keys, k, next_rev)
  <2>1. rec \in Record
    BY <1>0, RecordType
  <2>2. rec.mod_revision = next_rev
    BY DEF DeleteRecord
  <2>3. ApplyRecord(keys, rec) = ApplyDelete(keys, k, next_rev)
    BY DEF DeleteRecord, ApplyRecord
  <2>4. Commit(rec, ApplyRecord(keys, rec)) /\ phase = "up" /\ next_rev <= MaxRev
    BY <1>2, <2>3 DEF Delete
  <2> HIDE DEF rec
  <2> QED
    BY <2>1, <2>2, <2>4
<1> QED
  BY <1>1, <1>2

(* Applying a record keeps the revisions of the table within the bound.     *)
LEMMA RecordStamps ==
    ASSUME NEW m \in Tables, \A k \in Keys : m[k].mod_revision <= MaxRev,
           NEW rec \in Record, rec.mod_revision <= MaxRev
    PROVE  \A k \in Keys : ApplyRecord(m, rec)[k].mod_revision <= MaxRev
<1>1. SUFFICES ASSUME NEW k \in Keys PROVE ApplyRecord(m, rec)[k].mod_revision <= MaxRev
  OBVIOUS
<1>2. CASE k = rec.key /\ ~rec.deleted
  BY <1>2, RecordView
<1>3. CASE ~(k = rec.key /\ ~rec.deleted)
  BY <1>3, RecordView
<1> QED
  BY <1>2, <1>3

(* Appending a record within the bound keeps a file stamped.                *)
LEMMA StampedAppend ==
    ASSUME NEW f \in Files, Stamped(f), NEW c \in Record \cup {Torn},
           c # Torn => c.mod_revision <= MaxRev
    PROVE  Stamped(Append(f, c))
<1>1. /\ DOMAIN f = 1 .. Len(f) /\ DOMAIN Append(f, c) = 1 .. Len(f) + 1 /\ Len(f) \in Nat
      /\ Append(f, c)[Len(f) + 1] = c
      /\ \A i \in 1 .. Len(f) : Append(f, c)[i] = f[i]
  BY DEF Files
<1> QED
  BY <1>1 DEF Stamped

(* What a power failure leaves of a file.                                   *)
LEMMA RemainsParts ==
    ASSUME NEW f \in Files, NEW n \in 0 .. Len(f), NEW g \in Remains(f, n)
    PROVE  /\ \E i \in n .. Len(f) :
                g = SubSeq(f, 1, i) \/ g = Append(SubSeq(f, 1, i), Torn)
           /\ g \in Files /\ (Stamped(f) => Stamped(g))
<1>0. Len(f) \in Nat
  BY DEF Files
<1>1. PICK i \in n .. Len(f) : g = SubSeq(f, 1, i) \/ g = Append(SubSeq(f, 1, i), Torn)
  <2>1. CASE g \in {SubSeq(f, 1, i) : i \in n .. Len(f)}
    BY <2>1
  <2>2. CASE g \in {Append(SubSeq(f, 1, i), Torn) : i \in n .. Len(f) - 1}
    BY <1>0, <2>2
  <2> QED
    BY <2>1, <2>2 DEF Remains
<1> DEFINE h == SubSeq(f, 1, i)
<1>2. h \in Files /\ Len(h) = i /\ i \in 0 .. Len(f) /\ \A j \in 1 .. i : h[j] = f[j]
  BY <1>0, PrefixParts
<1>3. Stamped(f) => Stamped(h)
  <2>1. DOMAIN f = 1 .. Len(f) /\ DOMAIN h = 1 .. i
    BY <1>2 DEF Files
  <2> HIDE DEF h
  <2> QED
    BY <1>2, <2>1 DEF Stamped
<1> HIDE DEF h
<1>4. Append(h, Torn) \in Files
  BY <1>2, AppendParts
<1>5. Stamped(f) => Stamped(Append(h, Torn))
  BY <1>2, <1>3, StampedAppend
<1> QED
  BY <1>1, <1>2, <1>3, <1>4, <1>5 DEF h

(* What a power failure leaves is a stamped file.                           *)
LEMMA OutcomesType ==
    ASSUME TypeOK, StampInv, NEW g \in Outcomes
    PROVE  g \in Files /\ Stamped(g)
<1>1. CASE g \in Remains(file, synced)
  BY <1>1, RemainsParts DEF TypeOK, StampInv
<1>2. CASE detached # NoFile /\ g = detached
  BY <1>2 DEF TypeOK, StampInv
<1>3. CASE old # NoFile /\ g \in Remains(old.file, old.synced)
  <2>1. old.file \in Files /\ old.synced \in 0 .. Len(old.file) /\ Stamped(old.file)
    BY <1>3 DEF TypeOK, StampInv
  <2> QED
    BY <1>3, <2>1, RemainsParts
<1> QED
  BY <1>1, <1>2, <1>3 DEF Outcomes

(* What dying with the file f leaves.                                       *)
LEMMA DieType ==
    ASSUME TypeOK, StampInv, NEW f \in Files, Stamped(f), NEW n \in 0 .. Len(f), Die(f, n),
           old' # NoFile => /\ old' \in [file: Files, synced: Nat]
                            /\ old'.synced <= Len(old'.file) /\ Stamped(old'.file)
    PROVE  TypeOK' /\ StampInv'
<1>1. /\ phase' = "down" /\ file' = f /\ synced' = n /\ keys' = EmptyTable /\ mark' = 0
      /\ snapshot' = <<>> /\ step' = "idle" /\ detached' = NoFile
  BY DEF Die, CompactEnds
<1>2. dirty' \in BOOLEAN /\ syncing' \in BOOLEAN
  BY DEF Die
<1>3. /\ next_rev' = next_rev /\ compactions' = compactions /\ fsync_errors' = fsync_errors
      /\ file_errors' = file_errors /\ views' = views /\ promise' = promise
      /\ deaths' \in Nat
  BY DEF Die, TypeOK
<1>4. mark' \in 0 .. Len(file') /\ snapshot' \in Seq(Record) /\ Stamped(snapshot')
  BY <1>1 DEF Files, Stamped
<1>5. \A k \in Keys : keys'[k].mod_revision <= MaxRev
  BY <1>1, BoundsAssumption DEF EmptyTable, Vacant
<1>6. TypeOK'
  BY <1>1, <1>2, <1>3, <1>4, EmptyTableType DEF TypeOK
<1>7. StampInv'
  BY <1>1, <1>4, <1>5 DEF StampInv
<1> QED
  BY <1>6, <1>7

(* Every step keeps types and stamps.                                       *)
LEMMA TypeStep ==
    ASSUME TypeOK, StampInv, [Next]_vars
    PROVE  TypeOK' /\ StampInv'
<1> USE DEF mem, compaction, limits
<1>1. ASSUME NEW k \in Keys, Put(k) \/ Delete(k) PROVE TypeOK' /\ StampInv'
  <2>1. PICK rec \in Record : /\ rec.mod_revision <= MaxRev /\ next_rev <= MaxRev
                              /\ Commit(rec, ApplyRecord(keys, rec))
    BY <1>1, WriteRecord
  <2>2. /\ keys' = ApplyRecord(keys, rec) /\ file' = Append(file, rec)
        /\ next_rev' = next_rev + 1 /\ views' = Append(views, View(keys'))
        /\ UNCHANGED <<phase, synced, syncing, step, snapshot, mark, old, detached,
                       deaths, compactions, fsync_errors, file_errors, promise>>
    BY <2>1 DEF Commit, AppendKv
  <2>3. dirty' \in BOOLEAN
    BY <2>1 DEF Commit, AppendKv
  <2>4. keys' \in Tables /\ \A i \in Keys : keys'[i].mod_revision <= MaxRev
    BY <2>1, <2>2, ApplyRecordType, RecordStamps DEF TypeOK, StampInv
  <2>5. views' \in Seq(Views) /\ promise' \in 1 .. Len(views')
    <3>1. View(keys') \in Views
      BY <2>4, ViewType
    <3> HIDE DEF Views
    <3> QED
      BY <2>2, <3>1 DEF TypeOK
  <2>6. file' \in Files /\ Len(file') = Len(file) + 1 /\ Len(file) \in Nat /\ Stamped(file')
    <3>1. rec # Torn
      BY TornAssumption
    <3> QED
      BY <2>1, <2>2, AppendParts, StampedAppend DEF TypeOK, StampInv
  <2>7. synced' \in 0 .. Len(file') /\ mark' \in 0 .. Len(file') /\ next_rev' \in 1 .. MaxRev + 1
    BY <2>1, <2>2, <2>6, BoundsAssumption, SMTT(30) DEF TypeOK
  <2>8. TypeOK'
    BY <2>2, <2>3, <2>4, <2>5, <2>6, <2>7 DEF TypeOK
  <2>9. StampInv'
    BY <2>2, <2>4, <2>6 DEF StampInv
  <2> QED
    BY <2>8, <2>9
<1>2. CASE WriteFails
  <2>1. /\ file' = Append(file, Torn) /\ next_rev' = next_rev + 1 /\ next_rev <= MaxRev
        /\ file_errors' = file_errors + 1
        /\ UNCHANGED <<keys, phase, synced, dirty, syncing, step, snapshot, mark, old,
                       detached, deaths, compactions, fsync_errors, views, promise>>
    BY <1>2 DEF WriteFails, FileError
  <2>2. file' \in Files /\ Len(file') = Len(file) + 1 /\ Len(file) \in Nat /\ Stamped(file')
    BY <2>1, AppendParts, StampedAppend DEF TypeOK, StampInv
  <2>3. synced' \in 0 .. Len(file') /\ mark' \in 0 .. Len(file')
    BY <2>1, <2>2 DEF TypeOK
  <2>3a. next_rev' \in 1 .. MaxRev + 1 /\ file_errors' \in Nat
    <3>1. next_rev \in 1 .. MaxRev + 1 /\ file_errors \in Nat
      BY DEF TypeOK
    <3> QED
      BY <2>1, <3>1, BoundsAssumption
  <2>4. TypeOK'
    BY <2>1, <2>2, <2>3, <2>3a DEF TypeOK
  <2>5. StampInv'
    BY <2>1, <2>2 DEF StampInv
  <2> QED
    BY <2>4, <2>5
<1>3. CASE FsyncTake \/ FsyncDone \/ FsyncFails
  <2>1. /\ UNCHANGED <<keys, next_rev, phase, file, step, snapshot, mark, detached,
                       deaths, compactions, file_errors, views>>
        /\ old' = old \/ old' = NoFile
    BY <1>3 DEF FsyncTake, FsyncDone, FsyncFails
  <2>2. dirty' \in BOOLEAN /\ syncing' \in BOOLEAN
    <3>1. dirty \in BOOLEAN /\ syncing \in BOOLEAN
      BY DEF TypeOK
    <3> QED
      BY <1>3, <3>1 DEF FsyncTake, FsyncDone, FsyncFails
  <2>3. synced' \in 0 .. Len(file) /\ fsync_errors' \in Nat
    <3>1. synced' = synced \/ synced' = Len(file)
      BY <1>3 DEF FsyncTake, FsyncDone, FsyncFails
    <3>2. fsync_errors' = fsync_errors \/ fsync_errors' = fsync_errors + 1
      BY <1>3 DEF FsyncTake, FsyncDone, FsyncFails
    <3> QED
      BY <3>1, <3>2 DEF TypeOK, Files
  <2>4. promise' \in 1 .. Len(views)
    <3>1. promise' = promise \/ promise' = Len(views)
      BY <1>3 DEF FsyncTake, FsyncDone, FsyncFails
    <3> HIDE DEF Views
    <3> QED
      BY <3>1 DEF TypeOK
  <2>5. TypeOK'
    BY <2>1, <2>2, <2>3, <2>4 DEF TypeOK
  <2>6. StampInv'
    BY <2>1 DEF StampInv
  <2> QED
    BY <2>5, <2>6
<1>4. CASE CompactSnapshot
  <2>1. /\ step' = "snapshot" /\ snapshot' = SnapshotRecords(keys) /\ mark' = Len(file)
        /\ compactions' = compactions + 1
        /\ UNCHANGED <<keys, next_rev, phase, file, synced, dirty, syncing, old, detached,
                       deaths, fsync_errors, file_errors, views, promise>>
    BY <1>4 DEF CompactSnapshot
  <2>2. snapshot' \in Seq(Record) /\ Stamped(snapshot')
    <3> DEFINE live == InOrder(AliveKeys(keys))
               n == Cardinality(AliveKeys(keys))
               snap == SnapshotRecords(keys)
    <3>1. keys \in Tables /\ AliveKeys(keys) \in SUBSET Keys
      BY DEF TypeOK, AliveKeys
    <3>2. /\ snap \in Seq(Record) /\ Len(snap) = n
          /\ \A i \in 1 .. n : snap[i].mod_revision = keys[live[i]].mod_revision
      BY <3>1, SnapshotDef
    <3>3. \A i \in 1 .. n : live[i] \in Keys
      BY <3>1, InOrderDef
    <3>4. DOMAIN snap = 1 .. n
      BY <3>2
    <3> HIDE DEF live, n, snap
    <3>5. Stamped(snap)
      BY <3>2, <3>3, <3>4 DEF Stamped, StampInv
    <3> QED
      BY <2>1, <3>2, <3>5 DEF snap
  <2>3. mark' \in 0 .. Len(file') /\ compactions' \in Nat
    BY <2>1 DEF TypeOK, Files
  <2>4. TypeOK'
    BY <2>1, <2>2, <2>3 DEF TypeOK
  <2>5. StampInv'
    BY <2>1, <2>2 DEF StampInv
  <2> QED
    BY <2>4, <2>5
<1>5. CASE CompactWrite
  <2>1. TypeOK'
    BY <1>5 DEF CompactWrite, TypeOK
  <2>2. StampInv'
    BY <1>5 DEF CompactWrite, StampInv
  <2> QED
    BY <2>1, <2>2
<1>6. Compacted \in Files /\ Stamped(Compacted) /\ Len(Compacted) \in Nat
  BY CompactedParts DEF StampInv, Files
<1>7. ASSUME CompactEnds, Len(file') \in Nat
      PROVE  /\ step' = "idle" /\ mark' \in 0 .. Len(file')
             /\ snapshot' \in Seq(Record) /\ Stamped(snapshot')
  <2>1. mark' = 0 /\ snapshot' = <<>> /\ step' = "idle"
    BY <1>7 DEF CompactEnds
  <2>2. mark' \in 0 .. Len(file')
    BY <1>7, <2>1
  <2>3. snapshot' \in Seq(Record) /\ Stamped(snapshot')
    BY <2>1 DEF Stamped
  <2> QED
    BY <2>1, <2>2, <2>3
<1>8. CASE CompactSwap
  <2>1. /\ file' = Compacted /\ synced' = Len(file') /\ CompactEnds /\ detached' = NoFile
        /\ UNCHANGED <<keys, next_rev, phase, syncing, deaths, compactions, fsync_errors,
                       file_errors, views, promise>>
    BY <1>8 DEF CompactSwap, CompactSynced
  <2>2. dirty' \in BOOLEAN
    BY <1>8 DEF CompactSwap
  <2>3. old' \in [file: Files, synced: Nat] /\ old'.synced <= Len(old'.file)
        /\ Stamped(old'.file)
    <3>1. CASE detached = NoFile
      <4>1. old' = [file |-> file, synced |-> synced]
        BY <1>8, <3>1 DEF CompactSwap
      <4>2. file \in Files /\ synced \in Nat /\ synced <= Len(file) /\ Stamped(file)
        BY DEF TypeOK, StampInv
      <4> QED
        BY <4>1, <4>2
    <3>2. CASE detached # NoFile
      <4>1. old' = [file |-> detached, synced |-> Len(detached)]
        BY <1>8, <3>2 DEF CompactSwap
      <4>2. detached \in Files /\ Stamped(detached)
        BY <3>2 DEF TypeOK, StampInv
      <4>3. Len(detached) \in Nat
        BY <4>2 DEF Files
      <4> QED
        BY <4>1, <4>2, <4>3
    <3> QED
      BY <3>1, <3>2
  <2>4. synced' \in 0 .. Len(file') /\ file' \in Files /\ Stamped(file') /\ Len(file') \in Nat
    BY <1>6, <2>1
  <2>5. TypeOK'
    BY <1>7, <2>1, <2>2, <2>3, <2>4 DEF TypeOK
  <2>6. StampInv'
    BY <1>7, <2>1, <2>3, <2>4 DEF StampInv
  <2> QED
    BY <2>5, <2>6
<1>9. CASE CompactFails \/ CompactReopenFails
  <2>1. /\ CompactEnds /\ file' = file /\ file_errors' = file_errors + 1
        /\ detached' = detached \/ detached' = Compacted
        /\ UNCHANGED <<keys, next_rev, phase, synced, dirty, syncing, old, deaths,
                       compactions, fsync_errors, views, promise>>
    BY <1>9 DEF CompactFails, CompactReopenFails, FileError
  <2>2. Len(file') \in Nat /\ file_errors' \in Nat
    BY <2>1 DEF TypeOK, Files
  <2>3. detached' # NoFile => detached' \in Files /\ Stamped(detached')
    BY <1>6, <2>1 DEF TypeOK, StampInv
  <2>4. TypeOK'
    BY <1>7, <2>1, <2>2, <2>3 DEF TypeOK
  <2>5. StampInv'
    BY <1>7, <2>1, <2>2, <2>3 DEF StampInv
  <2> QED
    BY <2>4, <2>5
<1>10. CASE Kill
  <2>1. CASE detached = NoFile
    <3>1. PICK tear \in Tears : Die(file \o tear, synced) /\ old' = old
      BY <1>10, <2>1 DEF Kill
    <3>2. /\ file \o tear \in Files /\ Stamped(file \o tear)
          /\ synced \in 0 .. Len(file \o tear)
      <4>1. CASE tear = <<>>
        <5>1. file \o tear = file
          BY <4>1 DEF TypeOK, Files
        <5> QED
          BY <5>1 DEF TypeOK, StampInv
      <4>2. CASE tear = <<Torn>>
        <5>1. file \o tear = Append(file, Torn)
          BY <4>2 DEF TypeOK, Files
        <5>2. /\ Append(file, Torn) \in Files /\ Len(Append(file, Torn)) = Len(file) + 1
              /\ Stamped(Append(file, Torn)) /\ Len(file) \in Nat
          BY AppendParts, StampedAppend DEF TypeOK, StampInv
        <5> QED
          BY <5>1, <5>2 DEF TypeOK
      <4> QED
        BY <4>1, <4>2 DEF Tears
    <3>3. old' # NoFile => /\ old' \in [file: Files, synced: Nat]
                           /\ old'.synced <= Len(old'.file) /\ Stamped(old'.file)
      BY <3>1 DEF TypeOK, StampInv
    <3> QED
      BY <3>1, <3>2, <3>3, DieType
  <2>2. CASE detached # NoFile
    <3>1. Die(detached, Len(detached)) /\ old' = [file |-> file, synced |-> synced]
      BY <1>10, <2>2 DEF Kill
    <3>2. detached \in Files /\ Stamped(detached)
      BY <2>2 DEF TypeOK, StampInv
    <3>3. Len(detached) \in 0 .. Len(detached)
      BY <3>2 DEF Files
    <3>4. old' \in [file: Files, synced: Nat] /\ old'.synced <= Len(old'.file)
          /\ Stamped(old'.file)
      BY <3>1 DEF TypeOK, StampInv
    <3> QED
      BY <3>1, <3>2, <3>3, <3>4, DieType
  <2> QED
    BY <2>1, <2>2
<1>11. CASE PowerFailure
  <2>1. PICK f \in Outcomes : Die(f, Len(f)) /\ old' = NoFile
    BY <1>11 DEF PowerFailure
  <2>2. f \in Files /\ Stamped(f)
    BY OutcomesType
  <2>3. Len(f) \in 0 .. Len(f)
    BY <2>2 DEF Files
  <2> QED
    BY <2>1, <2>2, <2>3, DieType
<1>12. CASE Open
  <2>1. /\ phase' = "up" /\ keys' = Recovered(file) /\ next_rev' = RecoveredRev(file) + 1
        /\ views' = Append(views, View(keys'))
        /\ promise' = Len(views') \/ promise' = promise
        /\ UNCHANGED <<file, synced, dirty, syncing, step, snapshot, mark, old, detached,
                       deaths, compactions, fsync_errors, file_errors>>
    BY <1>12 DEF Open
  <2>2. /\ Recovered(file) \in Tables /\ RecoveredRev(file) \in 0 .. MaxRev
        /\ \A k \in Keys : Recovered(file)[k].mod_revision <= MaxRev
    BY RecoveredType DEF TypeOK, StampInv
  <2>3. View(keys') \in Views
    BY <2>1, <2>2, ViewType
  <2>4. views' \in Seq(Views) /\ promise' \in 1 .. Len(views')
    <3> HIDE DEF Views
    <3> QED
      BY <2>1, <2>3 DEF TypeOK
  <2>5. next_rev' \in 1 .. MaxRev + 1
    BY <2>1, <2>2, BoundsAssumption
  <2>6. TypeOK'
    BY <2>1, <2>2, <2>4, <2>5 DEF TypeOK
  <2>7. StampInv'
    BY <2>1, <2>2 DEF StampInv
  <2> QED
    BY <2>6, <2>7
<1>13. CASE UNCHANGED vars
  BY <1>13 DEF vars, TypeOK, StampInv
<1> QED
  BY <1>1, <1>2, <1>3, <1>4, <1>5, <1>8, <1>9, <1>10, <1>11, <1>12, <1>13 DEF Next

(* Types and stamps are right initially.                                    *)
LEMMA TypeInit == Init => TypeOK /\ StampInv
<1> SUFFICES ASSUME Init PROVE TypeOK /\ StampInv
  OBVIOUS
<1>1. dirty \in BOOLEAN /\ syncing \in BOOLEAN
  BY DEF Init
<1>2. \A k \in Keys : EmptyTable[k].mod_revision <= MaxRev
  BY BoundsAssumption DEF EmptyTable, Vacant
<1>3. View(EmptyTable) \in Views
  BY <1>2, EmptyTableType, ViewType
<1>4. views \in Seq(Views) /\ promise \in 1 .. Len(views)
  <2> HIDE DEF Views
  <2> QED
    BY <1>3 DEF Init
<1>5. TypeOK
  BY <1>1, <1>4, EmptyTableType, BoundsAssumption DEF Init, TypeOK, Files
<1>6. StampInv
  BY <1>2 DEF Init, StampInv, Stamped
<1> QED
  BY <1>5, <1>6

(* Every variable keeps its type in every interleaving of writers, syncs,   *)
(* compactions, deaths and restarts: no more of a file is durable than it   *)
(* holds, and no restart takes the clock past the revisions that were given *)
(* out.                                                                     *)
THEOREM TypeCorrect == Spec => []TypeOK
<1>1. TypeOK /\ StampInv /\ [Next]_vars => TypeOK' /\ StampInv'
  BY TypeStep
<1> QED
  BY <1>1, TypeInit, PTL DEF Spec

-----------------------------------------------------------------------------
(* The flag of the fsync task.                                              *)

(* Every step keeps the invariant of the pending records.                   *)
LEMMA PendingStep ==
    ASSUME TypeOK, PendingInv, [Next]_vars
    PROVE  PendingInv'
<1> USE DEF mem, compaction, limits
<1>0. /\ deaths \in Nat /\ fsync_errors \in Nat /\ file_errors \in Nat
      /\ dirty \in BOOLEAN /\ syncing \in BOOLEAN /\ Len(file) \in Nat
  BY DEF TypeOK, Files
<1>1. ASSUME phase' = "up" /\ phase = "up", dirty' \/ syncing' PROVE PendingInv'
  BY <1>1 DEF PendingInv, UnsyncedPending
<1>2. ASSUME phase' = "up", deaths' > 0 \/ fsync_errors' > 0 \/ file_errors' > 0
      PROVE PendingInv'
  BY <1>2 DEF PendingInv, UnsyncedPending
<1>3. ASSUME UNCHANGED <<phase, file, synced, dirty, syncing, deaths, fsync_errors, file_errors>>
      PROVE  PendingInv'
  BY <1>3 DEF PendingInv, UnsyncedPending
<1>4. ASSUME phase = "up", phase' = "down", deaths' = deaths + 1 PROVE PendingInv'
  BY <1>0, <1>4 DEF PendingInv, UnsyncedPending
<1>5. ASSUME NEW k \in Keys, Put(k) \/ Delete(k) PROVE PendingInv'
  BY <1>1, <1>5 DEF Put, Delete, Commit, AppendKv
<1>6. CASE WriteFails
  BY <1>0, <1>2, <1>6 DEF WriteFails, FileError
<1>7. CASE FsyncTake
  BY <1>1, <1>7 DEF FsyncTake
<1>8. CASE FsyncDone
  BY <1>0, <1>8 DEF FsyncDone, PendingInv, UnsyncedPending
<1>9. CASE FsyncFails
  BY <1>0, <1>2, <1>9 DEF FsyncFails
<1>10. CASE CompactSnapshot \/ CompactWrite
  BY <1>3, <1>10 DEF CompactSnapshot, CompactWrite
<1>11. CASE CompactSwap
  BY <1>1, <1>11 DEF CompactSwap
<1>12. CASE CompactFails \/ CompactReopenFails
  BY <1>0, <1>2, <1>12 DEF CompactFails, CompactReopenFails, FileError
<1>13. CASE Kill \/ PowerFailure
  BY <1>4, <1>13 DEF Kill, PowerFailure, Die
<1>14. CASE Open
  BY <1>2, <1>14 DEF Open, PendingInv
<1>15. CASE UNCHANGED vars
  BY <1>3, <1>15 DEF vars
<1> QED
  BY <1>5, <1>6, <1>7, <1>8, <1>9, <1>10, <1>11, <1>12, <1>13, <1>14, <1>15 DEF Next

(* A record that is not durable has the flag set or a sync on its way: the  *)
(* swap of the flag before the sync and the swap of the handle by a         *)
(* compaction lose no wakeup.                                               *)
THEOREM NoLostFlag == Spec => []UnsyncedPending
<1>1. ASSUME Init PROVE PendingInv
  <2>1. synced = 0 /\ Len(file) = 0 /\ phase = "up"
    BY <1>1 DEF Init
  <2> QED
    BY <2>1 DEF PendingInv, UnsyncedPending
<1>2. TypeOK /\ PendingInv /\ [Next]_vars => PendingInv'
  BY PendingStep
<1>3. PendingInv => UnsyncedPending
  BY DEF PendingInv
<1> QED
  BY <1>1, <1>2, <1>3, TypeCorrect, PTL DEF Spec

-----------------------------------------------------------------------------
(* The file is a log of the memory.                                         *)

(* A log that shows what the memory shows goes on doing so.                 *)
LEMMA LogFollows ==
    ASSUME NEW f \in Files, NEW m \in Tables, NEW rec \in Record,
           Whole(f) => View(Replay(f)) = View(m), Whole(Append(f, rec))
    PROVE  View(Replay(Append(f, rec))) = View(ApplyRecord(m, rec))
<1>1. Whole(f) /\ f \in Seq(Record)
  BY AppendParts, WholeFile
<1>2. Replay(Append(f, rec)) = ApplyRecord(Replay(f), rec)
  BY <1>1, ReplayAppend
<1>3. Replay(f) \in Tables
  BY <1>1, ReplayIsTable
<1> QED
  BY <1>1, <1>2, <1>3, RecordSameView

(* Every step keeps what the files say of the memory.                       *)
LEMMA MemoryStep ==
    ASSUME TypeOK, StampInv, MemoryInv, [Next]_vars
    PROVE  MemoryInv'
<1> USE DEF mem, compaction, limits
<1>0. /\ keys \in Tables /\ file \in Files /\ Compacted \in Files /\ views \in Seq(Views)
      /\ Len(views) \in Nat
  BY CompactedParts DEF TypeOK
<1>1. ASSUME UNCHANGED <<keys, phase, file, step, snapshot, mark, views>>,
             detached' = detached \/ detached' = NoFile
      PROVE  MemoryInv'
  BY <1>1 DEF MemoryInv, Whole, Compacted
<1>2. ASSUME phase' = "down", step' = "idle", detached' = NoFile PROVE MemoryInv'
  BY <1>2 DEF MemoryInv
<1>3. ASSUME NEW k \in Keys, Put(k) \/ Delete(k) PROVE MemoryInv'
  <2>1. PICK rec \in Record : phase = "up" /\ Commit(rec, ApplyRecord(keys, rec))
    BY <1>3, WriteRecord
  <2>2. /\ keys' = ApplyRecord(keys, rec) /\ file' = Append(file, rec)
        /\ views' = Append(views, View(keys')) /\ phase' = "up"
        /\ UNCHANGED <<step, snapshot, mark>>
    BY <2>1 DEF Commit, AppendKv
  <2>3. Compacted' = Append(Compacted, rec)
    BY <2>2, CompactedGrows
  <2>4. View(keys') = views'[Len(views')]
    BY <1>0, <2>2
  <2>5. Whole(file') => View(Replay(file')) = View(keys')
    BY <1>0, <2>1, <2>2, LogFollows DEF MemoryInv
  <2>6. step' # "idle" /\ Whole(Compacted') => View(Replay(Compacted')) = View(keys')
    BY <1>0, <2>2, <2>3, LogFollows DEF MemoryInv
  <2> QED
    BY <2>2, <2>4, <2>5, <2>6 DEF MemoryInv
<1>4. CASE WriteFails
  <2>1. /\ file' = Append(file, Torn) /\ phase' = "up" /\ phase = "up"
        /\ UNCHANGED <<keys, step, snapshot, mark, views>>
    BY <1>4 DEF WriteFails
  <2>2. Compacted' = Append(Compacted, Torn)
    BY <2>1, CompactedGrows
  <2>3. ~Whole(file') /\ ~Whole(Compacted')
    BY <1>0, <2>1, <2>2, AppendParts
  <2> QED
    BY <2>1, <2>3 DEF MemoryInv
<1>5. CASE FsyncTake \/ FsyncDone \/ FsyncFails \/ CompactWrite
  <2>1. CASE FsyncTake \/ FsyncDone \/ FsyncFails
    BY <1>1, <2>1 DEF FsyncTake, FsyncDone, FsyncFails
  <2>2. CASE CompactWrite
    <3>1. /\ UNCHANGED <<keys, phase, file, snapshot, mark, views, detached>>
          /\ step # "idle" /\ phase = "up"
      BY <2>2 DEF CompactWrite
    <3> QED
      BY <3>1 DEF MemoryInv, Whole, Compacted
  <2> QED
    BY <1>5, <2>1, <2>2
<1>6. CASE CompactSnapshot
  <2>1. /\ snapshot' = SnapshotRecords(keys) /\ mark' = Len(file)
        /\ UNCHANGED <<keys, phase, file, views>> /\ phase = "up"
    BY <1>6 DEF CompactSnapshot
  <2>2. SnapshotRecords(keys) \in Seq(Record)
    BY <1>0, SnapshotDef
  <2>3. SubSeq(file', mark' + 1, Len(file')) = <<>>
    BY <1>0, <2>1 DEF Files
  <2>4. Compacted' = SnapshotRecords(keys)
    BY <2>1, <2>2, <2>3 DEF Compacted
  <2>5. View(Replay(Compacted')) = View(keys')
    BY <1>0, <2>1, <2>4, SnapshotView
  <2> QED
    BY <2>1, <2>5 DEF MemoryInv, Whole
<1>7. CASE CompactSwap
  <2>1. /\ file' = Compacted /\ step' = "idle" /\ phase = "up" /\ step # "idle"
        /\ UNCHANGED <<keys, phase, views>>
    BY <1>7 DEF CompactSwap, CompactEnds
  <2> QED
    BY <2>1 DEF MemoryInv, Whole
<1>8. CASE CompactFails \/ CompactReopenFails
  <2>1. step' = "idle" /\ phase = "up" /\ UNCHANGED <<keys, phase, file, views>>
    BY <1>8 DEF CompactFails, CompactReopenFails, CompactEnds
  <2> QED
    BY <2>1 DEF MemoryInv, Whole
<1>9. CASE Kill \/ PowerFailure
  BY <1>2, <1>9 DEF Kill, PowerFailure, Die, CompactEnds
<1>10. CASE Open
  <2>1. /\ phase = "down" /\ phase' = "up" /\ keys' = Recovered(file)
        /\ views' = Append(views, View(keys')) /\ file' = file
        /\ step' = step /\ detached' = detached
    BY <1>10 DEF Open
  <2>2. View(keys') \in Views
    BY <2>1, RecoveredType, ViewType DEF TypeOK, StampInv
  <2>3. View(keys') = views'[Len(views')]
    <3> HIDE DEF Views
    <3> QED
      BY <1>0, <2>1, <2>2
  <2>4. Whole(file) => keys' = Replay(file)
    BY <1>0, <2>1, WholeFile DEF Recovered
  <2> QED
    BY <2>1, <2>3, <2>4 DEF MemoryInv, Whole
<1>11. CASE UNCHANGED vars
  BY <1>1, <1>11 DEF vars
<1> QED
  BY <1>3, <1>4, <1>5, <1>6, <1>7, <1>8, <1>9, <1>10, <1>11 DEF Next

(* The files say of the memory what they should, initially.                 *)
LEMMA MemoryInit == Init => MemoryInv
<1> SUFFICES ASSUME Init PROVE MemoryInv
  OBVIOUS
<1>1. /\ keys = EmptyTable /\ views = <<View(EmptyTable)>> /\ file = <<>> /\ phase = "up"
      /\ step = "idle"
  BY DEF Init
<1>2. views[Len(views)] = View(EmptyTable)
  BY <1>1
<1> QED
  BY <1>1, <1>2, ReplayEmpty DEF MemoryInv

(* At every moment, between the phases of a compaction too, a restart from  *)
(* the file at the path finds exactly the keys that can be read, each by    *)
(* its last write.                                                          *)
THEOREM CompactionLosesNothing == Spec => []LogCoversMemory
<1>1. TypeOK /\ StampInv /\ [Next]_vars => TypeOK' /\ StampInv'
  BY TypeStep
<1>2. TypeOK /\ StampInv /\ MemoryInv /\ [Next]_vars => MemoryInv'
  BY MemoryStep
<1>3. ASSUME TypeOK, MemoryInv PROVE LogCoversMemory
  <2>1. SUFFICES ASSUME phase = "up", Healthy PROVE View(Recovered(PathFile)) = View(keys)
    BY DEF LogCoversMemory
  <2>2. PathFile = file /\ Whole(file) /\ file \in Files
    BY <1>3, <2>1 DEF Healthy, PathFile, TypeOK
  <2>3. Recovered(file) = Replay(file)
    BY <2>2, WholeFile DEF Recovered
  <2> QED
    BY <1>3, <2>1, <2>2, <2>3 DEF MemoryInv
<1> QED
  BY <1>1, <1>2, <1>3, TypeInit, MemoryInit, PTL DEF Spec

-----------------------------------------------------------------------------
(* What a power failure may bring back.                                     *)

(* Seen and Covered after the step, of a file that the step does not touch. *)
SeenAfter(f) == Whole(f) => \E i \in promise' .. Len(views') : View(Replay(f)) = views'[i]
CoveredAfter(f, n) == \A k \in n .. Len(f) : SeenAfter(SubSeq(f, 1, k))

(* The parts of the durability invariant that a step has to show.           *)
LEMMA DurableAfter ==
    ASSUME CoveredAfter(file', synced'),
           old' # NoFile => CoveredAfter(old'.file, old'.synced),
           detached' # NoFile => SeenAfter(detached')
    PROVE  DurableInv'
BY DEF DurableInv, Covered, Seen, Whole, CoveredAfter, SeenAfter

(* What was seen stays seen as long as the promise does not move.           *)
LEMMA StillSeen ==
    ASSUME TypeOK, promise' = promise, views' = views \/ \E v : views' = Append(views, v)
    PROVE  /\ \A f : Seen(f) => SeenAfter(f)
           /\ \A f, n : Covered(f, n) => CoveredAfter(f, n)
<1>1. /\ Len(views) \in Nat /\ Len(views') \in Nat /\ Len(views) <= Len(views')
      /\ promise \in Nat /\ \A i \in 1 .. Len(views) : views'[i] = views[i]
  <2> HIDE DEF Views
  <2>1. views \in Seq(Views) /\ promise \in 1 .. Len(views)
    BY DEF TypeOK
  <2>2. CASE views' = views
    BY <2>1, <2>2
  <2>3. ASSUME NEW v, views' = Append(views, v)
        PROVE  Len(views') = Len(views) + 1 /\ \A i \in 1 .. Len(views) : views'[i] = views[i]
    <3> DEFINE S == Views \cup {v}
    <3>1. views \in Seq(S) /\ v \in S
      BY <2>1
    <3> HIDE DEF S
    <3> QED
      BY <2>3, <3>1
  <2> QED
    BY <2>1, <2>2, <2>3
<1>2. ASSUME NEW f, Seen(f) PROVE SeenAfter(f)
  <2>1. SUFFICES ASSUME Whole(f)
                 PROVE  \E i \in promise' .. Len(views') : View(Replay(f)) = views'[i]
    BY DEF SeenAfter
  <2>2. PICK i \in promise .. Len(views) : View(Replay(f)) = views[i]
    BY <1>2, <2>1 DEF Seen
  <2>3. i \in 1 .. Len(views) /\ i \in promise' .. Len(views')
    BY <1>1, <2>2 DEF TypeOK
  <2> QED
    BY <1>1, <2>2, <2>3
<1>3. ASSUME NEW f, NEW n, Covered(f, n) PROVE CoveredAfter(f, n)
  BY <1>2, <1>3 DEF Covered, CoveredAfter
<1> QED
  BY <1>2, <1>3

(* A log of the memory is seen.                                             *)
LEMMA SeenNow ==
    ASSUME TypeOK', phase' = "up", MemoryInv', NEW f,
           Whole(f) => View(Replay(f)) = View(keys')
    PROVE  SeenAfter(f)
<1>1. Len(views') \in promise' .. Len(views')
  <2> HIDE DEF Views
  <2> QED
    BY DEF TypeOK
<1>2. View(keys') = views'[Len(views')]
  BY DEF MemoryInv
<1> QED
  BY <1>1, <1>2 DEF SeenAfter

(* A file of which all is durable.                                          *)
LEMMA WholeCovered ==
    ASSUME NEW f \in Files, SeenAfter(f)
    PROVE  CoveredAfter(f, Len(f))
<1>1. SubSeq(f, 1, Len(f)) = f /\ Len(f) \in Nat
  BY DEF Files
<1>2. ASSUME NEW k \in Len(f) .. Len(f) PROVE k = Len(f)
  <2>1. \A n \in Nat : \A i \in n .. n : i = n
    OBVIOUS
  <2> QED
    BY <1>1, <2>1
<1> QED
  BY <1>1, <1>2 DEF CoveredAfter

(* What a power failure leaves of a file was seen.                          *)
LEMMA RemainsSeen ==
    ASSUME NEW f \in Files, NEW n \in 0 .. Len(f), Covered(f, n), NEW g \in Remains(f, n)
    PROVE  Seen(g)
<1>1. PICK i \in n .. Len(f) : g = SubSeq(f, 1, i) \/ g = Append(SubSeq(f, 1, i), Torn)
  BY RemainsParts
<1>2. SubSeq(f, 1, i) \in Files
  <2>1. i \in 0 .. Len(f)
    BY DEF Files
  <2> QED
    BY <2>1, PrefixParts
<1>3. CASE g = SubSeq(f, 1, i)
  BY <1>3 DEF Covered
<1>4. CASE g = Append(SubSeq(f, 1, i), Torn)
  <2>1. ~Whole(g)
    BY <1>2, <1>4, AppendParts
  <2> QED
    BY <2>1 DEF Seen
<1> QED
  BY <1>1, <1>3, <1>4

(* What a power failure leaves was once to be read and is not too old.      *)
LEMMA OutcomesSeen ==
    ASSUME TypeOK, DurableInv, NEW g \in Outcomes
    PROVE  Seen(g)
<1>1. CASE g \in Remains(file, synced)
  BY <1>1, RemainsSeen DEF TypeOK, DurableInv
<1>2. CASE detached # NoFile /\ g = detached
  BY <1>2 DEF DurableInv
<1>3. CASE old # NoFile /\ g \in Remains(old.file, old.synced)
  <2>1. old.file \in Files /\ old.synced \in 0 .. Len(old.file)
    BY <1>3 DEF TypeOK
  <2> QED
    BY <1>3, <2>1, RemainsSeen DEF DurableInv
<1> QED
  BY <1>1, <1>2, <1>3 DEF Outcomes

(* A record, or a part of one, is appended to the file.                     *)
LEMMA AppendCovered ==
    ASSUME TypeOK, NEW c \in Record \cup {Torn}, file' = Append(file, c),
           CoveredAfter(file, synced), SeenAfter(Append(file, c))
    PROVE  CoveredAfter(file', synced)
<1>1. file \in Files /\ synced \in 0 .. Len(file) /\ Len(file) \in Nat
  BY DEF TypeOK, Files
<1>2. /\ Len(file') = Len(file) + 1 /\ file' \in Files
      /\ \A n \in 0 .. Len(file) : SubSeq(file', 1, n) = SubSeq(file, 1, n)
      /\ SubSeq(file', 1, Len(file')) = file'
  <2>1. Append(file, c) \in Files /\ Len(Append(file, c)) = Len(file) + 1
        /\ \A n \in 0 .. Len(file) : SubSeq(Append(file, c), 1, n) = SubSeq(file, 1, n)
    BY <1>1, AppendParts
  <2>2. file' \in Files /\ Len(file') = Len(file) + 1
        /\ \A n \in 0 .. Len(file) : SubSeq(file', 1, n) = SubSeq(file, 1, n)
    BY <2>1
  <2>3. SubSeq(file', 1, Len(file')) = file'
    BY <2>2 DEF Files
  <2> QED
    BY <2>2, <2>3
<1>3. SUFFICES ASSUME NEW k \in synced .. Len(file') PROVE SeenAfter(SubSeq(file', 1, k))
  BY DEF CoveredAfter
<1>4. CASE k = Len(file')
  BY <1>2, <1>4
<1>5. CASE k # Len(file')
  <2>1. k \in synced .. Len(file) /\ k \in 0 .. Len(file)
    BY <1>1, <1>2, <1>5
  <2> QED
    BY <1>2, <2>1 DEF CoveredAfter
<1> QED
  BY <1>4, <1>5

(* Every step keeps the durability invariant.                               *)
LEMMA DurableStep ==
    ASSUME TypeOK, TypeOK', StampInv, MemoryInv, MemoryInv', DurableInv, [Next]_vars
    PROVE  DurableInv'
<1> USE DEF mem, compaction, limits
<1>0. /\ file \in Files /\ Compacted \in Files /\ file' \in Files
      /\ Covered(file, synced)
      /\ old # NoFile => Covered(old.file, old.synced)
      /\ detached # NoFile => detached \in Files /\ Seen(detached)
  BY CompactedParts DEF TypeOK, DurableInv
<1>1. ASSUME promise' = promise, views' = views \/ \E v : views' = Append(views, v)
      PROVE  /\ CoveredAfter(file, synced)
             /\ old # NoFile => CoveredAfter(old.file, old.synced)
             /\ detached # NoFile => SeenAfter(detached)
  BY <1>0, <1>1, StillSeen
<1>2. ASSUME promise' = promise, views' = views, file' = file, synced' = synced,
             old' = old \/ old' = NoFile, detached' = detached
      PROVE  DurableInv'
  BY <1>1, <1>2, DurableAfter
<1>3. ASSUME NEW k \in Keys, Put(k) \/ Delete(k) PROVE DurableInv'
  <2>1. PICK rec \in Record : phase = "up" /\ Commit(rec, ApplyRecord(keys, rec))
    BY <1>3, WriteRecord
  <2>2. /\ file' = Append(file, rec) /\ views' = Append(views, View(keys')) /\ phase' = "up"
        /\ UNCHANGED <<synced, old, detached, promise>>
    BY <2>1 DEF Commit, AppendKv
  <2>3. SeenAfter(file')
    BY <2>2, SeenNow DEF MemoryInv, Whole
  <2>4. CoveredAfter(file', synced')
    BY <1>1, <2>2, <2>3, AppendCovered
  <2> QED
    BY <1>1, <2>2, <2>4, DurableAfter
<1>4. CASE WriteFails
  <2>1. file' = Append(file, Torn) /\ UNCHANGED <<synced, old, detached, promise, views>>
    BY <1>4 DEF WriteFails
  <2>2. SeenAfter(Append(file, Torn))
    BY <1>0, AppendParts DEF SeenAfter
  <2>3. CoveredAfter(file', synced')
    BY <1>1, <2>1, <2>2, AppendCovered
  <2> QED
    BY <1>1, <2>1, <2>3, DurableAfter
<1>5. CASE FsyncTake \/ FsyncFails \/ CompactSnapshot \/ CompactWrite \/ CompactFails
  BY <1>2, <1>5 DEF FsyncTake, FsyncFails, CompactSnapshot, CompactWrite, CompactFails
<1>6. CASE FsyncDone
  <2>1. /\ synced' = Len(file) /\ file' = file /\ old' = NoFile /\ phase' = "up"
        /\ detached' = detached /\ views' = views
        /\ detached # NoFile => promise' = promise
    BY <1>6 DEF FsyncDone
  <2>2. SeenAfter(file')
    BY <2>1, SeenNow DEF MemoryInv, Whole
  <2>3. CoveredAfter(file', synced')
    BY <1>0, <2>1, <2>2, WholeCovered
  <2> QED
    BY <1>1, <2>1, <2>3, DurableAfter
<1>7. CASE CompactSwap
  <2>1. /\ file' = Compacted /\ synced' = Len(file') /\ detached' = NoFile
        /\ phase' = "up" /\ UNCHANGED <<views, promise>>
    BY <1>7 DEF CompactSwap, CompactSynced
  <2>2. SeenAfter(file')
    BY <2>1, SeenNow DEF MemoryInv, Whole
  <2>3. CoveredAfter(file', synced')
    BY <1>0, <2>1, <2>2, WholeCovered
  <2>4. CoveredAfter(old'.file, old'.synced)
    <3>1. CASE detached = NoFile
      <4>1. old'.file = file /\ old'.synced = synced
        BY <1>7, <3>1 DEF CompactSwap
      <4> QED
        BY <1>1, <2>1, <4>1
    <3>2. CASE detached # NoFile
      <4>1. old'.file = detached /\ old'.synced = Len(detached)
        BY <1>7, <3>2 DEF CompactSwap
      <4>2. detached \in Files /\ SeenAfter(detached)
        BY <1>0, <1>1, <2>1, <3>2
      <4> QED
        BY <4>1, <4>2, WholeCovered
    <3> QED
      BY <3>1, <3>2
  <2> QED
    BY <2>1, <2>3, <2>4, DurableAfter
<1>8. CASE CompactReopenFails
  <2>1. /\ detached' = Compacted /\ phase' = "up" /\ step # "idle" /\ keys' = keys
        /\ UNCHANGED <<file, synced, old, views, promise>>
    BY <1>8 DEF CompactReopenFails
  <2>2. SeenAfter(Compacted)
    BY <2>1, SeenNow DEF MemoryInv
  <2> QED
    BY <1>1, <2>1, <2>2, DurableAfter
<1>9. ASSUME NEW f, NEW n, Die(f, n)
      PROVE  /\ file' = f /\ synced' = n /\ detached' = NoFile
             /\ UNCHANGED <<views, promise>>
  BY <1>9 DEF Die
<1>10. CASE Kill
  <2>1. CASE detached = NoFile
    <3>1. PICK tear \in Tears : Die(file \o tear, synced) /\ old' = old
      BY <1>10, <2>1 DEF Kill
    <3>2. /\ file' = file \o tear /\ synced' = synced /\ detached' = NoFile
          /\ UNCHANGED <<views, promise>>
      BY <1>9, <3>1
    <3>3. CoveredAfter(file', synced')
      <4>1. CASE tear = <<>>
        <5>1. file' = file
          BY <1>0, <3>2, <4>1 DEF Files
        <5> QED
          BY <1>1, <3>2, <5>1
      <4>2. CASE tear = <<Torn>>
        <5>1. file' = Append(file, Torn)
          BY <1>0, <3>2, <4>2 DEF Files
        <5>2. SeenAfter(Append(file, Torn))
          BY <1>0, AppendParts DEF SeenAfter
        <5> QED
          BY <1>1, <3>2, <5>1, <5>2, AppendCovered
      <4> QED
        BY <4>1, <4>2 DEF Tears
    <3> QED
      BY <1>1, <3>1, <3>2, <3>3, DurableAfter
  <2>2. CASE detached # NoFile
    <3>1. Die(detached, Len(detached)) /\ old' = [file |-> file, synced |-> synced]
      BY <1>10, <2>2 DEF Kill
    <3>2. /\ file' = detached /\ synced' = Len(detached) /\ detached' = NoFile
          /\ UNCHANGED <<views, promise>>
      BY <1>9, <3>1
    <3>3. CoveredAfter(detached, Len(detached))
      BY <1>0, <1>1, <2>2, <3>2, WholeCovered
    <3>4. CoveredAfter(old'.file, old'.synced)
      <4>1. old'.file = file /\ old'.synced = synced
        BY <3>1
      <4> QED
        BY <1>1, <3>2, <4>1
    <3> QED
      BY <3>2, <3>3, <3>4, DurableAfter
  <2> QED
    BY <2>1, <2>2
<1>11. CASE PowerFailure
  <2>1. PICK f \in Outcomes : Die(f, Len(f)) /\ old' = NoFile
    BY <1>11 DEF PowerFailure
  <2>2. f \in Files /\ Seen(f)
    BY OutcomesType, OutcomesSeen
  <2>3. file' = f /\ synced' = Len(f) /\ detached' = NoFile /\ UNCHANGED <<views, promise>>
    BY <1>9, <2>1
  <2>4. SeenAfter(f)
    BY <2>2, <2>3, StillSeen
  <2>5. CoveredAfter(file', synced')
    BY <2>2, <2>3, <2>4, WholeCovered
  <2> QED
    BY <2>1, <2>3, <2>5, DurableAfter
<1>12. CASE Open
  <2>1. /\ phase = "down" /\ phase' = "up" /\ views' = Append(views, View(Recovered(file)))
        /\ promise' = IF synced = Len(file) /\ old = NoFile THEN Len(views') ELSE promise
        /\ UNCHANGED <<file, synced, old, detached>>
    BY <1>12 DEF Open
  <2>2. detached = NoFile
    BY <2>1 DEF MemoryInv
  <2>3. CASE synced = Len(file) /\ old = NoFile
    <3>1. SeenAfter(file')
      BY <2>1, SeenNow DEF MemoryInv, Whole
    <3>2. CoveredAfter(file', synced')
      BY <1>0, <2>1, <2>3, <3>1, WholeCovered
    <3> QED
      BY <2>1, <2>2, <2>3, <3>2, DurableAfter
  <2>4. CASE ~(synced = Len(file) /\ old = NoFile)
    <3>1. promise' = promise
      BY <2>1, <2>4
    <3> QED
      BY <1>1, <2>1, <3>1, DurableAfter
  <2> QED
    BY <2>3, <2>4
<1>13. CASE UNCHANGED vars
  BY <1>2, <1>13 DEF vars
<1> QED
  BY <1>3, <1>4, <1>5, <1>6, <1>7, <1>8, <1>10, <1>11, <1>12, <1>13 DEF Next

(* The durability invariant holds initially.                                *)
LEMMA DurableInit == Init => DurableInv
<1> SUFFICES ASSUME Init PROVE DurableInv
  OBVIOUS
<1>1. /\ file = <<>> /\ synced = 0 /\ old = NoFile /\ detached = NoFile
      /\ views = <<View(EmptyTable)>> /\ promise = 1
  BY DEF Init
<1>2. \A k \in synced .. Len(file) : SubSeq(file, 1, k) = <<>>
  BY <1>1
<1>3. Seen(<<>>)
  <2>1. 1 \in promise .. Len(views) /\ views[1] = View(EmptyTable)
    BY <1>1
  <2> QED
    BY <2>1, ReplayEmpty DEF Seen
<1> QED
  BY <1>1, <1>2, <1>3 DEF DurableInv, Covered

(* Whatever a power failure leaves of the files, the restart finds a state  *)
(* that could once be read and that is not older than the last completed    *)
(* sync, also around the rename of a compaction.                            *)
THEOREM PowerLossIsBounded == Spec => []PowerLossBounded
<1>1. TypeOK /\ StampInv /\ [Next]_vars => TypeOK' /\ StampInv'
  BY TypeStep
<1>2. TypeOK /\ StampInv /\ MemoryInv /\ [Next]_vars => MemoryInv'
  BY MemoryStep
<1>3. /\ TypeOK /\ TypeOK' /\ StampInv /\ MemoryInv /\ MemoryInv' /\ DurableInv
      /\ [Next]_vars
      => DurableInv'
  BY DurableStep
<1>4. ASSUME TypeOK, DurableInv PROVE PowerLossBounded
  <2>1. SUFFICES ASSUME Healthy, NEW g \in Outcomes
                 PROVE  \E i \in promise .. Len(views) : View(Recovered(g)) = views[i]
    BY DEF PowerLossBounded
  <2>2. ASSUME NEW f \in Files, NEW n \in 0 .. Len(f), Covered(f, n), Whole(f),
               g \in Remains(f, n)
        PROVE  \E i \in promise .. Len(views) : View(Recovered(g)) = views[i]
    <3>1. PICK i \in n .. Len(f) : g = SubSeq(f, 1, i) \/ g = Append(SubSeq(f, 1, i), Torn)
      BY <2>2, RemainsParts
    <3>2. SubSeq(f, 1, i) \in Files /\ Whole(SubSeq(f, 1, i))
      <4>1. i \in 0 .. Len(f)
        BY DEF Files
      <4> QED
        BY <2>2, <4>1, PrefixParts
    <3>3. Scan(g) = SubSeq(f, 1, i)
      BY <3>1, <3>2, WholeFile, ScanTorn
    <3>4. Seen(SubSeq(f, 1, i))
      BY <2>2 DEF Covered
    <3> QED
      BY <3>2, <3>3, <3>4 DEF Seen, Recovered
  <2>3. CASE g \in Remains(file, synced)
    BY <1>4, <2>1, <2>2, <2>3 DEF TypeOK, DurableInv, Healthy
  <2>4. CASE old # NoFile /\ g \in Remains(old.file, old.synced)
    <3>1. old.file \in Files /\ old.synced \in 0 .. Len(old.file)
      BY <1>4, <2>4 DEF TypeOK
    <3> QED
      BY <1>4, <2>1, <2>2, <2>4, <3>1 DEF DurableInv, Healthy
  <2> QED
    BY <2>1, <2>3, <2>4 DEF Outcomes, Healthy
<1> QED
  BY <1>1, <1>2, <1>3, <1>4, TypeInit, MemoryInit, DurableInit, PTL DEF Spec
=============================================================================
