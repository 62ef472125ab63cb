----------------------- MODULE HistoricalRangeProofs -----------------------
(***************************************************************************)
(* Proofs about HistoricalRange, for every set of keys, of ranges and every*)
(* bound:                                                                  *)
(*                                                                         *)
(*   OldVersionsTrue, SingleLifetimeExact  with TypeOK, HistoryInv (what   *)
(*   the entries of the table, the log and a log about to replace it say   *)
(*   of every past revision) and ReaderInv (what a read under way has).    *)
(***************************************************************************)
EXTENDS HistoricalRange, KeyLogProofs

-----------------------------------------------------------------------------
(* The inductive invariant.                                                 *)

Versions == UNION {[ks -> Nat] : ks \in SUBSET Keys}
Steps == {"idle", "compacted?", "phase1", "phase2", "phase3", "done"}
Reader == [step: Steps, bound: SUBSET Keys, target: Nat, direct: Versions,
           stale: SUBSET Keys, scanned: Versions, once: SUBSET Keys, intact: BOOLEAN]

TypeOK ==
    /\ keys \in Tables /\ next_rev \in Nat \ {0} /\ compact_rev \in Nat
    /\ wal \in Seq(Record)
    /\ gc \in [on: BOOLEAN, recs: Seq(Record), mark: Nat, rev: Nat]
    /\ compactions \in Nat
    /\ views \in Seq(Versions) /\ Len(views) = current_revision
    /\ births \in [Keys -> Nat] /\ floor \in Nat
    /\ reader \in Reader

(* The lifetime that an entry tells of includes revision t.                 *)
Covers(m, k, t) ==
    m[k].create_revision <= t /\ (m[k].delete_revision = 0 \/ t < m[k].delete_revision)

(* Version rev of a key could be read at revision t.                        *)
Reads(vs, t, k, rev) == k \in DOMAIN vs[t] /\ vs[t][k] = rev

(* An entry is right about the revisions it covers, and a key with a single *)
(* lifetime could be read at no others.                                     *)
EntryOk(k) ==
    IF Present(keys, k)
    THEN /\ 1 <= keys[k].create_revision
         /\ keys[k].create_revision <= keys[k].mod_revision
         /\ keys[k].mod_revision <= current_revision
         /\ keys[k].delete_revision <= current_revision
         /\ births[k] >= 1 /\ (keys[k].rebirth => births[k] >= 2)
         /\ \A t \in 1 .. current_revision :
               /\ Covers(keys, k, t) =>
                     /\ k \in DOMAIN views[t]
                     /\ keys[k].mod_revision <= t => Reads(views, t, k, keys[k].mod_revision)
               /\ births[k] <= 1 /\ k \in DOMAIN views[t] => Covers(keys, k, t)
    ELSE /\ births[k] = 0 /\ keys[k].delete_revision = 0
         /\ \A t \in 1 .. current_revision : k \notin DOMAIN views[t]

ViewsOk ==
    /\ current_revision > 0 => views[current_revision] = View(keys)
    /\ \A s \in 1 .. current_revision : \A k \in DOMAIN views[s] :
          /\ 1 <= views[s][k] /\ views[s][k] <= s
          /\ \A r \in 1 .. s : views[s][k] <= r => Reads(views, r, k, views[s][k])

(* Record i is the last one of the key up to revision t.                    *)
IsLast(log, k, t, i) ==
    /\ i \in 1 .. Len(log) /\ log[i].key = k /\ log[i].mod_revision <= t
    /\ \A j \in i + 1 .. Len(log) : ~(log[j].key = k /\ log[j].mod_revision <= t)

(* Where the log has a put of the key as its last record, it is the version *)
(* of that revision; from low on it has one for every key.                  *)
LogTrue(log, vs) ==
    \A k \in Keys : \A t \in 1 .. Len(vs) : \A i \in 1 .. Len(log) :
        IsLast(log, k, t, i) /\ ~log[i].deleted => Reads(vs, t, k, log[i].mod_revision)
LogFull(log, vs, low) ==
    \A k \in Keys : \A t \in 1 .. Len(vs) : low <= t /\ k \in DOMAIN vs[t] =>
        \E i \in 1 .. Len(log) : IsLast(log, k, t, i) /\ ~log[i].deleted

WalOk ==
    /\ \A i \in 1 .. Len(wal) :
          1 <= wal[i].mod_revision /\ wal[i].mod_revision <= current_revision
    /\ floor <= current_revision
    /\ LogTrue(wal, views) /\ LogFull(wal, views, floor)

(* The records of a snapshot are the view at its revision.                  *)
SnapOk(recs, vs, rev) ==
    /\ \A i \in 1 .. Len(recs) :
          /\ rev > 0 /\ ~recs[i].deleted
          /\ Reads(vs, rev, recs[i].key, recs[i].mod_revision)
          /\ \A j \in 1 .. Len(recs) : recs[i].key = recs[j].key => i = j
    /\ rev > 0 => \A k \in DOMAIN vs[rev] : \E i \in 1 .. Len(recs) : recs[i].key = k

GcOk ==
    gc.on =>
        /\ floor <= gc.rev /\ gc.rev <= current_revision /\ gc.mark <= Len(wal)
        /\ \A i \in 1 .. Len(wal) : i <= gc.mark <=> wal[i].mod_revision <= gc.rev
        /\ SnapOk(gc.recs, views, gc.rev)

HistoryInv == (\A k \in Keys : EntryOk(k)) /\ ViewsOk /\ WalOk /\ GcOk

(* A read under way: what it has is true, and what it lacks of the keys     *)
(* with a single lifetime it will take from the log.                        *)
AnswerTrue(t) ==
    \A k \in DOMAIN reader.direct : k \in reader.bound /\
        (reader.direct[k] <= t => Reads(views, t, k, reader.direct[k]))
OnceTrue(t) ==
    \A k \in DOMAIN reader.direct \cap reader.once : Reads(views, t, k, reader.direct[k])
OnceFull(t, rest) ==
    \A k \in reader.once \cap reader.bound :
        k \in DOMAIN views[t] <=> k \in DOMAIN reader.direct \cup rest
ScanOk(t) ==
    /\ \A k \in DOMAIN reader.scanned : k \in reader.bound /\ Reads(views, t, k, reader.scanned[k])
    /\ reader.intact => \A k \in reader.bound : k \in DOMAIN views[t] => k \in DOMAIN reader.scanned

ReaderInv ==
    /\ reader.step # "idle" => reader.target \in 1 .. current_revision
    /\ reader.step \in {"idle", "compacted?", "phase1", "phase2"} => reader.intact
    /\ reader.step \in {"phase2", "phase3", "done"} =>
          /\ AnswerTrue(reader.target)
          /\ reader.intact => OnceTrue(reader.target)
    /\ reader.step \in {"phase2", "phase3"} =>
          /\ reader.stale \subseteq reader.bound
          /\ reader.intact => OnceFull(reader.target, reader.stale)
    /\ reader.step = "phase3" => ScanOk(reader.target)
    /\ reader.step = "done" /\ reader.intact => OnceFull(reader.target, {})

-----------------------------------------------------------------------------
(* The operators.                                                           *)

(* What can be read of a table is a set of versions.                        *)
LEMMA ViewType ==
    ASSUME NEW m \in Tables
    PROVE  View(m) \in Versions
<1>1. AliveKeys(m) \in SUBSET Keys
  BY DEF AliveKeys
<1>2. View(m) \in [AliveKeys(m) -> Nat]
  BY <1>1 DEF View, Tables, KeyState
<1> QED
  BY <1>1, <1>2 DEF Versions

(* Within keeps the keys of S.                                              *)
LEMMA WithinDef ==
    ASSUME NEW f, NEW S
    PROVE  /\ DOMAIN Within(f, S) = DOMAIN f \cap S
           /\ \A x \in DOMAIN f \cap S : Within(f, S)[x] = f[x]
BY DEF Within

(* Joined has the keys of both functions; the first one wins.               *)
LEMMA JoinedDef ==
    ASSUME NEW f, NEW g
    PROVE  /\ DOMAIN Joined(f, g) = DOMAIN f \cup DOMAIN g
           /\ \A x \in DOMAIN f : Joined(f, g)[x] = f[x]
           /\ \A x \in DOMAIN g : x \notin DOMAIN f => Joined(f, g)[x] = g[x]
BY DEF Joined

(* The view of a table, key by key.                                         *)
LEMMA ViewAt ==
    ASSUME NEW m, NEW k \in Keys
    PROVE  /\ k \in DOMAIN View(m) <=> Alive(m, k)
           /\ Alive(m, k) => View(m)[k] = m[k].mod_revision
BY DEF View, AliveKeys

-----------------------------------------------------------------------------
(* What a write does to a key and to the log.                               *)

IsPut(table, k) ==
    /\ Alive(table, k) /\ table[k].mod_revision = next_rev
    /\ table[k].create_revision = IF Alive(keys, k) THEN keys[k].create_revision ELSE next_rev
    /\ table[k].rebirth <=> keys[k].delete_revision # 0
IsDead(table, k) ==
    /\ Alive(keys, k) /\ Present(table, k) /\ table[k].delete_revision = next_rev
    /\ table[k].mod_revision = keys[k].mod_revision
    /\ table[k].create_revision = keys[k].create_revision
    /\ table[k].rebirth = keys[k].rebirth

Write(table, recs) ==
    /\ table \in Tables /\ recs \in Seq(Record)
    /\ \A i \in 1 .. Len(recs) :
          /\ recs[i].mod_revision = next_rev
          /\ \A j \in 1 .. Len(recs) : recs[i].key = recs[j].key => i = j
    /\ \A k \in Keys :
          \/ IsPut(table, k) /\ \E i \in 1 .. Len(recs) : recs[i].key = k /\ ~recs[i].deleted
          \/ IsDead(table, k) /\ \E i \in 1 .. Len(recs) : recs[i].key = k /\ recs[i].deleted
          \/ table[k] = keys[k] /\ \A i \in 1 .. Len(recs) : recs[i].key # k

(* A put writes as Write says.                                              *)
LEMMA PutWrites ==
    ASSUME TypeOK, NEW k \in Keys
    PROVE  Write(ApplyPut(keys, k, EmptyValue, 0, next_rev),
                 <<PutRecord(keys, k, EmptyValue, 0, next_rev)>>)
<1> DEFINE table == ApplyPut(keys, k, EmptyValue, 0, next_rev)
           rec == PutRecord(keys, k, EmptyValue, 0, next_rev)
           recs == <<rec>>
<1>1. keys \in Tables /\ next_rev \in Nat /\ EmptyValue \in Values /\ 0 \in Nat
  BY ValuesAssumption DEF TypeOK
<1>2. table \in Tables /\ rec \in Record
  BY <1>1, ApplyPutType, RecordType
<1>3. rec.key = k /\ rec.mod_revision = next_rev /\ ~rec.deleted
  BY DEF PutRecord
<1>4. /\ table[k].mod_revision = next_rev /\ table[k].delete_revision = 0
      /\ table[k].version = NextVersion(keys, k)
      /\ table[k].create_revision = NextCreate(keys, k, next_rev)
      /\ table[k].rebirth = (keys[k].delete_revision # 0)
      /\ \A j \in Keys : j # k => table[j] = keys[j]
  BY <1>1 DEF ApplyPut, PutEntry, Tables
<1>5. NextVersion(keys, k) # 0
  BY <1>1 DEF NextVersion, Tables, KeyState
<1> HIDE DEF table, rec
<1>6. IsPut(table, k)
  BY <1>4, <1>5 DEF IsPut, Alive, Present, NextCreate
<1>7. recs \in Seq(Record) /\ Len(recs) = 1 /\ recs[1] = rec
  BY <1>2
<1> HIDE DEF recs
<1>8. \A i \in 1 .. Len(recs) : i = 1
  BY <1>7
<1>9. 1 \in 1 .. Len(recs)
  BY <1>7
<1> QED
  BY <1>2, <1>3, <1>4, <1>6, <1>7, <1>8, <1>9 DEF Write, table, recs, rec

(* A range delete writes as Write says.                                     *)
LEMMA DeleteWrites ==
    ASSUME TypeOK, NEW bound,
           NEW recs \in [1 .. Cardinality(AliveKeys(keys) \cap bound) ->
                   {DeleteRecord(keys, k, next_rev) : k \in AliveKeys(keys) \cap bound}],
           \A i, j \in DOMAIN recs : i < j => recs[i].key < recs[j].key
    PROVE  Write(ApplyDeletes(keys, bound, next_rev), recs)
<1> DEFINE D == AliveKeys(keys) \cap bound
           n == Cardinality(D)
           table == ApplyDeletes(keys, bound, next_rev)
           s == [i \in 1 .. n |-> recs[i].key]
<1>1. keys \in Tables /\ next_rev \in Nat /\ next_rev # 0 /\ D \in SUBSET Keys
  BY DEF TypeOK, AliveKeys
<1>2. ASSUME NEW i \in 1 .. n
      PROVE  /\ recs[i] \in Record /\ recs[i].key \in D
             /\ recs[i].mod_revision = next_rev /\ recs[i].deleted
  <2>1. PICK k \in D : recs[i] = DeleteRecord(keys, k, next_rev)
    OBVIOUS
  <2>2. DeleteRecord(keys, k, next_rev) \in Record
    <3>1. k \in Keys /\ EmptyValue \in Values /\ 0 \in Nat
      BY <1>1, <2>1, ValuesAssumption
    <3> QED
      BY <1>1, <3>1, RecordType
  <2> QED
    BY <2>1, <2>2 DEF DeleteRecord
<1>3. s \in [1 .. n -> D] /\ \A i, j \in 1 .. n : i < j => s[i] < s[j]
  BY <1>2
<1>4. /\ n \in Nat /\ \A i, j \in 1 .. n : s[i] = s[j] => i = j
      /\ \A k \in D : \E i \in 1 .. n : s[i] = k
  BY <1>1, <1>3, IncreasingOnto
<1>5. /\ n \in Nat /\ \A i, j \in 1 .. n : recs[i].key = recs[j].key => i = j
      /\ \A k \in D : \E i \in 1 .. n : recs[i].key = k
  BY <1>4
<1>6. recs \in Seq(Record) /\ Len(recs) = n
  <2>1. recs = [i \in 1 .. n |-> recs[i]]
    OBVIOUS
  <2> HIDE DEF n, D
  <2>2. \A i \in 1 .. n : recs[i] \in Record
    BY <1>2
  <2>3. recs \in [1 .. n -> Record]
    BY <2>1, <2>2
  <2> QED
    BY <1>5, <2>3
<1>7. table \in Tables
  BY <1>1, ApplyDeletesType
<1>8. ASSUME NEW k \in D PROVE IsDead(table, k)
  <2>1. k \in Keys /\ k \in bound /\ Alive(keys, k)
    BY DEF AliveKeys
  <2>2. table[k] = [keys[k] EXCEPT !.delete_revision = next_rev]
    BY <2>1 DEF ApplyDeletes
  <2> HIDE DEF table
  <2>3. keys[k] \in KeyState
    BY <1>1, <2>1 DEF Tables
  <2> QED
    BY <2>1, <2>2, <2>3 DEF IsDead, Alive, Present, KeyState
<1>9. ASSUME NEW k \in Keys, k \notin D PROVE table[k] = keys[k]
  BY <1>9 DEF ApplyDeletes, AliveKeys
<1> HIDE DEF table, n, D
<1>10. ASSUME NEW k \in Keys
       PROVE  \/ IsDead(table, k) /\ \E i \in 1 .. Len(recs) : recs[i].key = k /\ recs[i].deleted
              \/ table[k] = keys[k] /\ \A i \in 1 .. Len(recs) : recs[i].key # k
  <2>1. CASE k \in D
    BY <1>2, <1>5, <1>6, <1>8, <2>1
  <2>2. CASE k \notin D
    BY <1>2, <1>6, <1>9, <2>2
  <2> QED
    BY <2>1, <2>2
<1>11. \A i \in 1 .. Len(recs) :
          /\ recs[i].mod_revision = next_rev
          /\ \A j \in 1 .. Len(recs) : recs[i].key = recs[j].key => i = j
  BY <1>2, <1>5, <1>6
<1>12. Write(table, recs)
  BY <1>6, <1>7, <1>10, <1>11 DEF Write
<1> QED
  BY <1>12 DEF table

(* A write adds its view to the history and leaves the rest of it alone.    *)
LEMMA CommittedParts ==
    ASSUME TypeOK, NEW table, NEW recs, Write(table, recs), Committed(table, recs)
    PROVE  /\ current_revision \in Nat /\ next_rev = current_revision + 1
           /\ current_revision' = current_revision + 1
           /\ keys' = table /\ table \in Tables
           /\ views' \in Seq(Versions) /\ Len(views') = current_revision'
           /\ \A t \in 1 .. current_revision : views'[t] = views[t]
           /\ views'[current_revision + 1] = View(table)
           /\ \A t \in 1 .. current_revision' : t \in 1 .. current_revision \/ t = current_revision + 1
<1>1. /\ next_rev \in Nat /\ next_rev # 0 /\ current_revision = next_rev - 1
      /\ views \in Seq(Versions) /\ Len(views) = current_revision
  BY DEF TypeOK, current_revision
<1>2. /\ next_rev' = next_rev + 1 /\ keys' = table /\ views' = Append(views, View(table))
  BY DEF Committed
<1>3. table \in Tables
  BY DEF Write
<1>4. View(table) \in Versions
  BY <1>3, ViewType
<1>5. current_revision' = next_rev' - 1
  BY DEF current_revision
<1>6. /\ current_revision \in Nat /\ next_rev = current_revision + 1
      /\ current_revision' = current_revision + 1
  BY <1>1, <1>2, <1>5
<1>7. /\ views' \in Seq(Versions) /\ Len(views') = Len(views) + 1
      /\ \A t \in 1 .. Len(views) : views'[t] = views[t]
      /\ views'[Len(views) + 1] = View(table)
  BY <1>1, <1>2, <1>4
<1> QED
  BY <1>1, <1>2, <1>3, <1>6, <1>7

(* The entries stay right.                                                  *)
LEMMA EntryWrite ==
    ASSUME TypeOK, HistoryInv, NEW table, NEW recs, Write(table, recs), Committed(table, recs),
           NEW k \in Keys
    PROVE  EntryOk(k)'
<1> DEFINE R == current_revision
           m == keys[k]
           x == table[k]
<1>1. /\ R \in Nat /\ next_rev = R + 1 /\ current_revision' = R + 1 /\ keys' = table
      /\ \A t \in 1 .. R : views'[t] = views[t]
      /\ views'[R + 1] = View(table)
      /\ \A t \in 1 .. current_revision' : t \in 1 .. R \/ t = R + 1
  BY CommittedParts
<1>2. births'[k] = IF Alive(table, k) /\ ~Alive(keys, k) THEN births[k] + 1 ELSE births[k]
  BY DEF Committed
<1>3. EntryOk(k) /\ births[k] \in Nat
  BY DEF HistoryInv, TypeOK
<1>4. /\ m.create_revision \in Nat /\ m.mod_revision \in Nat /\ m.delete_revision \in Nat
      /\ m.version \in Nat
  BY DEF TypeOK, Tables, KeyState
<1>5. /\ k \in DOMAIN View(table) <=> Alive(table, k)
      /\ Alive(table, k) => View(table)[k] = x.mod_revision
  BY ViewAt
<1>6. Present(keys, k) <=> m.version # 0
  BY DEF Present
<1>7. /\ Alive(keys, k) <=> Present(keys, k) /\ m.delete_revision = 0
      /\ Alive(table, k) <=> Present(table, k) /\ x.delete_revision = 0
  BY DEF Alive
<1>8. \A t \in 1 .. R : R + 1 > t
  BY <1>1
<1> DEFINE In(t) == k \in DOMAIN views[t]
           C(t) == m.create_revision <= t /\ (m.delete_revision = 0 \/ t < m.delete_revision)
           Val(t) == views[t][k]
<1>9. CASE Present(keys, k)
  <2>1. /\ 1 <= m.create_revision /\ m.create_revision <= m.mod_revision /\ m.mod_revision <= R
        /\ m.delete_revision <= R /\ births[k] >= 1 /\ (m.rebirth => births[k] >= 2)
        /\ \A t \in 1 .. R : C(t) => In(t) /\ (m.mod_revision <= t => Val(t) = m.mod_revision)
        /\ births[k] <= 1 => \A t \in 1 .. R : In(t) => C(t)
    BY <1>3, <1>9 DEF EntryOk, Covers, Reads
  <2> HIDE DEF R
  <2>2. CASE IsPut(table, k)
    <3>1. /\ x.mod_revision = R + 1 /\ x.delete_revision = 0 /\ Present(table, k)
          /\ x.create_revision = IF Alive(keys, k) THEN m.create_revision ELSE R + 1
          /\ x.rebirth <=> m.delete_revision # 0
      BY <1>1, <1>7, <2>2 DEF IsPut
    <3>2. CASE Alive(keys, k)
      <4>1. births'[k] = births[k] /\ x.create_revision = m.create_revision /\ ~x.rebirth
            /\ m.delete_revision = 0
        BY <1>2, <1>7, <3>1, <3>2
      <4>2. ASSUME NEW t \in 1 .. R
            PROVE  /\ Covers(table, k, t) <=> C(t)
                   /\ views'[t] = views[t] /\ ~(x.mod_revision <= t)
        BY <1>1, <3>1, <4>1 DEF Covers
      <4>3. Covers(table, k, R + 1) /\ Reads(views', R + 1, k, R + 1)
        BY <1>1, <1>4, <1>5, <1>7, <2>1, <3>1, <4>1 DEF Covers, Reads
      <4> HIDE DEF C
      <4> QED
        BY <1>1, <1>4, <2>1, <3>1, <4>1, <4>2, <4>3 DEF EntryOk, Reads
    <3>3. CASE ~Alive(keys, k)
      <4>1. births'[k] = births[k] + 1 /\ x.create_revision = R + 1
        BY <1>2, <1>7, <3>1, <3>3
      <4>2. ASSUME NEW t \in 1 .. R PROVE ~Covers(table, k, t)
        BY <1>1, <4>1 DEF Covers
      <4>3. Covers(table, k, R + 1) /\ Reads(views', R + 1, k, R + 1)
        BY <1>1, <1>4, <1>5, <1>7, <3>1, <4>1 DEF Covers, Reads
      <4>4. births'[k] >= 2 /\ births'[k] \in Nat
        BY <1>3, <2>1, <4>1
      <4> QED
        BY <1>1, <1>4, <3>1, <4>1, <4>2, <4>3, <4>4 DEF EntryOk, Reads
    <3> QED
      BY <3>2, <3>3
  <2>3. CASE IsDead(table, k)
    <3>1. /\ Alive(keys, k) /\ x.delete_revision = R + 1 /\ Present(table, k)
          /\ x.mod_revision = m.mod_revision /\ x.create_revision = m.create_revision
          /\ x.rebirth = m.rebirth
      BY <1>1, <2>3 DEF IsDead
    <3>2. ~Alive(table, k) /\ births'[k] = births[k] /\ m.delete_revision = 0
      BY <1>1, <1>2, <1>7, <3>1
    <3>3. ASSUME NEW t \in 1 .. R
          PROVE  (Covers(table, k, t) <=> C(t)) /\ views'[t] = views[t]
      BY <1>1, <3>1, <3>2 DEF Covers
    <3>4. ~Covers(table, k, R + 1) /\ k \notin DOMAIN views'[R + 1]
      BY <1>1, <1>5, <3>1, <3>2 DEF Covers
    <3> HIDE DEF C
    <3> QED
      BY <1>1, <1>4, <2>1, <3>1, <3>2, <3>3, <3>4 DEF EntryOk, Reads
  <2>4. CASE x = m
    <3>1. /\ Present(table, k) /\ (Alive(table, k) <=> Alive(keys, k))
          /\ births'[k] = births[k]
      BY <1>2, <1>7, <1>9, <2>4 DEF Present
    <3>2. ASSUME NEW t \in 1 .. R
          PROVE  (Covers(table, k, t) <=> C(t)) /\ views'[t] = views[t]
      BY <1>1, <2>4 DEF Covers
    <3>3. /\ Covers(table, k, R + 1) <=> Alive(table, k)
          /\ k \in DOMAIN views'[R + 1] <=> Alive(table, k)
          /\ Alive(table, k) => Reads(views', R + 1, k, x.mod_revision)
      BY <1>1, <1>4, <1>5, <1>7, <2>1, <2>4, <3>1 DEF Covers, Reads
    <3> HIDE DEF C
    <3> QED
      BY <1>1, <1>4, <2>1, <2>4, <3>1, <3>2, <3>3 DEF EntryOk, Reads
  <2> QED
    BY <2>2, <2>3, <2>4 DEF Write
<1>10. CASE ~Present(keys, k)
  <2>1. /\ births[k] = 0 /\ m.delete_revision = 0 /\ ~Alive(keys, k)
        /\ \A t \in 1 .. R : ~In(t)
    BY <1>3, <1>7, <1>10 DEF EntryOk
  <2> HIDE DEF R
  <2>2. CASE IsPut(table, k)
    <3>1. /\ x.mod_revision = R + 1 /\ x.delete_revision = 0 /\ Present(table, k)
          /\ x.create_revision = R + 1 /\ ~x.rebirth /\ births'[k] = 1
      BY <1>1, <1>2, <1>7, <2>1, <2>2 DEF IsPut
    <3>2. ASSUME NEW t \in 1 .. R PROVE ~Covers(table, k, t) /\ k \notin DOMAIN views'[t]
      BY <1>1, <2>1, <3>1 DEF Covers
    <3>3. Covers(table, k, R + 1) /\ Reads(views', R + 1, k, R + 1)
      BY <1>1, <1>5, <1>7, <3>1 DEF Covers, Reads
    <3> QED
      BY <1>1, <3>1, <3>2, <3>3 DEF EntryOk, Reads
  <2>3. CASE x = m
    <3>1. ~Present(table, k) /\ ~Alive(table, k) /\ births'[k] = 0
      BY <1>2, <1>7, <1>10, <2>1, <2>3 DEF Present
    <3>2. k \notin DOMAIN views'[R + 1]
      BY <1>1, <1>5, <3>1
    <3> QED
      BY <1>1, <2>1, <2>3, <3>1, <3>2 DEF EntryOk
  <2>4. ~IsDead(table, k)
    BY <2>1 DEF IsDead
  <2> QED
    BY <2>2, <2>3, <2>4 DEF Write
<1> QED
  BY <1>9, <1>10

(* So do the views: a version that is not newer than an older revision was  *)
(* there already at that revision.                                          *)
LEMMA ViewsWrite ==
    ASSUME TypeOK, HistoryInv, NEW table, NEW recs, Write(table, recs), Committed(table, recs)
    PROVE  ViewsOk'
<1> DEFINE R == current_revision
<1>1. /\ R \in Nat /\ next_rev = R + 1 /\ current_revision' = R + 1 /\ keys' = table
      /\ \A t \in 1 .. R : views'[t] = views[t]
      /\ views'[R + 1] = View(table) /\ table \in Tables
      /\ \A t \in 1 .. current_revision' : t \in 1 .. R \/ t = R + 1
  BY CommittedParts
<1>2. ViewsOk
  BY DEF HistoryInv
<1>3. ASSUME NEW k \in DOMAIN View(table)
      PROVE  /\ k \in Keys /\ Present(table, k) /\ View(table)[k] = table[k].mod_revision
             /\ table[k].mod_revision \in Nat /\ table[k].create_revision \in Nat
             /\ table[k].delete_revision = 0
  <2>1. k \in Keys /\ Alive(table, k)
    BY DEF View, AliveKeys
  <2> QED
    BY <1>1, <2>1, ViewAt DEF Alive, Tables, KeyState
<1>4. ASSUME NEW k \in DOMAIN View(table)
      PROVE  /\ 1 <= View(table)[k] /\ View(table)[k] <= R + 1
             /\ \A r \in 1 .. R + 1 : View(table)[k] <= r => Reads(views', r, k, View(table)[k])
  <2>1. EntryOk(k)'
    BY <1>3, EntryWrite
  <2>2. /\ 1 <= table[k].create_revision /\ table[k].create_revision <= table[k].mod_revision
        /\ table[k].mod_revision <= R + 1
        /\ \A t \in 1 .. R + 1 : Covers(table, k, t) =>
              (table[k].mod_revision <= t => Reads(views', t, k, table[k].mod_revision))
    BY <1>1, <1>3, <2>1 DEF EntryOk
  <2>3. ASSUME NEW r \in 1 .. R + 1, table[k].mod_revision <= r PROVE Covers(table, k, r)
    BY <1>1, <1>3, <2>2, <2>3 DEF Covers
  <2> QED
    BY <1>1, <1>3, <2>2, <2>3
<1>5. ASSUME NEW s \in 1 .. R, NEW k \in DOMAIN views[s]
      PROVE  /\ 1 <= views[s][k] /\ views[s][k] <= s
             /\ \A r \in 1 .. s : views[s][k] <= r => Reads(views', r, k, views[s][k])
  <2>1. /\ 1 <= views[s][k] /\ views[s][k] <= s
        /\ \A r \in 1 .. s : views[s][k] <= r => Reads(views, r, k, views[s][k])
    BY <1>2 DEF ViewsOk
  <2>2. \A r \in 1 .. s : r \in 1 .. R /\ views'[r] = views[r]
    BY <1>1
  <2> QED
    BY <2>1, <2>2 DEF Reads
<1> HIDE DEF R
<1> QED
  BY <1>1, <1>4, <1>5 DEF ViewsOk

-----------------------------------------------------------------------------
(* The log.                                                                 *)

(* The elements of two joined sequences.                                    *)
LEMMA ConcatParts ==
    ASSUME NEW E, NEW s \in Seq(E), NEW u \in Seq(E)
    PROVE  /\ s \o u \in Seq(E) /\ Len(s) \in Nat /\ Len(u) \in Nat
           /\ Len(s \o u) = Len(s) + Len(u)
           /\ \A i \in 1 .. Len(s) : (s \o u)[i] = s[i]
           /\ \A i \in 1 .. Len(u) : (s \o u)[Len(s) + i] = u[i]
           /\ \A i \in 1 .. Len(s \o u) :
                 i \in 1 .. Len(s) \/ \E j \in 1 .. Len(u) : i = Len(s) + j
<1>1. /\ s \o u \in Seq(E) /\ Len(s) \in Nat /\ Len(u) \in Nat
      /\ Len(s \o u) = Len(s) + Len(u)
      /\ \A i \in 1 .. Len(s) : (s \o u)[i] = s[i]
      /\ \A i \in 1 .. Len(u) : (s \o u)[Len(s) + i] = u[i]
  OBVIOUS
<1>2. ASSUME NEW i \in 1 .. Len(s \o u), i \notin 1 .. Len(s)
      PROVE  \E j \in 1 .. Len(u) : i = Len(s) + j
  <2>1. i - Len(s) \in 1 .. Len(u) /\ i = Len(s) + (i - Len(s))
    BY <1>1, <1>2
  <2> QED
    BY <2>1
<1> QED
  BY <1>1, <1>2

(* Records carry numbers as revisions.                                      *)
LEMMA RecordRevs ==
    ASSUME NEW log \in Seq(Record)
    PROVE  \A i \in 1 .. Len(log) : log[i] \in Record /\ log[i].mod_revision \in Nat
<1>1. \A i \in 1 .. Len(log) : log[i] \in Record
  OBVIOUS
<1>2. \A rec \in Record : rec.mod_revision \in Nat
  BY DEF Record
<1> QED
  BY <1>1, <1>2

(* The last record of a key up to a revision is one record.                 *)
LEMMA LastUnique ==
    ASSUME NEW log \in Seq(Record), NEW k, NEW t, NEW i, NEW j,
           IsLast(log, k, t, i), IsLast(log, k, t, j)
    PROVE  i = j
<1>1. Len(log) \in Nat /\ i \in 1 .. Len(log) /\ j \in 1 .. Len(log)
  BY DEF IsLast
<1>2. ~(i < j)
  <2>1. i < j => j \in i + 1 .. Len(log)
    BY <1>1
  <2> QED
    BY <2>1 DEF IsLast
<1>3. ~(j < i)
  <2>1. j < i => i \in j + 1 .. Len(log)
    BY <1>1
  <2> QED
    BY <2>1 DEF IsLast
<1> QED
  BY <1>1, <1>2, <1>3

(* Records that are newer, or of other keys, do not count.                  *)
LEMMA LastBefore ==
    ASSUME NEW log \in Seq(Record), NEW recs \in Seq(Record), NEW k, NEW t,
           \A j \in 1 .. Len(recs) : ~(recs[j].key = k /\ recs[j].mod_revision <= t)
    PROVE  \A i : IsLast(log \o recs, k, t, i) <=> IsLast(log, k, t, i)
<1> DEFINE w == log \o recs
<1>1. /\ Len(log) \in Nat /\ Len(recs) \in Nat /\ Len(w) = Len(log) + Len(recs)
      /\ \A i \in 1 .. Len(log) : w[i] = log[i]
      /\ \A i \in 1 .. Len(recs) : w[Len(log) + i] = recs[i]
      /\ \A i \in 1 .. Len(w) : i \in 1 .. Len(log) \/ \E j \in 1 .. Len(recs) : i = Len(log) + j
  BY ConcatParts
<1> HIDE DEF w
<1>2. ASSUME NEW i \in 1 .. Len(w), w[i].key = k, w[i].mod_revision <= t
      PROVE  i \in 1 .. Len(log)
  BY <1>1, <1>2
<1>3. ASSUME NEW i, IsLast(w, k, t, i) PROVE IsLast(log, k, t, i)
  <2>1. i \in 1 .. Len(log) /\ w[i] = log[i]
    BY <1>1, <1>2, <1>3 DEF IsLast
  <2>2. \A j \in i + 1 .. Len(log) : j \in i + 1 .. Len(w) /\ w[j] = log[j]
    BY <1>1, <2>1
  <2> QED
    BY <1>3, <2>1, <2>2 DEF IsLast
<1>4. ASSUME NEW i, IsLast(log, k, t, i) PROVE IsLast(w, k, t, i)
  <2>1. i \in 1 .. Len(log) /\ i \in 1 .. Len(w) /\ w[i] = log[i]
    BY <1>1, <1>4 DEF IsLast
  <2>2. ASSUME NEW j \in i + 1 .. Len(w), w[j].key = k, w[j].mod_revision <= t PROVE FALSE
    <3>1. j \in 1 .. Len(w) /\ j > i
      BY <1>1, <2>1
    <3>2. j \in 1 .. Len(log)
      BY <1>2, <2>2, <3>1
    <3>3. j \in i + 1 .. Len(log)
      BY <1>1, <2>1, <3>1, <3>2
    <3>4. w[j] = log[j]
      BY <1>1, <3>2
    <3> QED
      BY <1>4, <2>2, <3>3, <3>4 DEF IsLast
  <2> QED
    BY <1>4, <2>1, <2>2 DEF IsLast
<1> QED
  BY <1>3, <1>4 DEF w

(* A record of the second part is the last one when it is so in that part.  *)
LEMMA LastBehind ==
    ASSUME NEW log \in Seq(Record), NEW recs \in Seq(Record), NEW k, NEW t,
           NEW j \in 1 .. Len(recs)
    PROVE  IsLast(log \o recs, k, t, Len(log) + j) <=> IsLast(recs, k, t, j)
<1> DEFINE w == log \o recs
           n == Len(log)
<1>1. /\ n \in Nat /\ Len(recs) \in Nat /\ Len(w) = n + Len(recs)
      /\ \A i \in 1 .. Len(recs) : w[n + i] = recs[i]
      /\ \A i \in 1 .. Len(w) : i \in 1 .. n \/ \E l \in 1 .. Len(recs) : i = n + l
  BY ConcatParts
<1> HIDE DEF w, n
<1>2. n + j \in 1 .. Len(w) /\ w[n + j] = recs[j]
  BY <1>1
<1>3. ASSUME NEW i \in j + 1 .. Len(recs)
      PROVE  n + i \in (n + j) + 1 .. Len(w) /\ w[n + i] = recs[i]
  BY <1>1
<1>4. ASSUME NEW i \in (n + j) + 1 .. Len(w)
      PROVE  \E l \in j + 1 .. Len(recs) : w[i] = recs[l]
  <2>1. i - n \in j + 1 .. Len(recs) /\ i - n \in 1 .. Len(recs) /\ n + (i - n) = i
    BY <1>1
  <2> QED
    BY <1>1, <2>1
<1>5. IsLast(w, k, t, n + j) <=> IsLast(recs, k, t, j)
  BY <1>2, <1>3, <1>4 DEF IsLast
<1> QED
  BY <1>5 DEF w, n

(* A revision that no record exceeds: one more of them makes no difference. *)
LEMMA LastLater ==
    ASSUME NEW log \in Seq(Record), NEW R \in Nat,
           \A i \in 1 .. Len(log) : log[i].mod_revision <= R, NEW k, NEW i
    PROVE  IsLast(log, k, R + 1, i) <=> IsLast(log, k, R, i)
<1>1. \A j \in 1 .. Len(log) : log[j].mod_revision \in Nat
  BY RecordRevs
<1>2. \A j \in 1 .. Len(log) : log[j].mod_revision <= R + 1 <=> log[j].mod_revision <= R
  BY <1>1
<1>3. i \in 1 .. Len(log) => \A j \in i + 1 .. Len(log) : j \in 1 .. Len(log)
  OBVIOUS
<1> QED
  BY <1>2, <1>3 DEF IsLast

(* A write is logged for every key it changes.                              *)
LEMMA WalWrite ==
    ASSUME TypeOK, HistoryInv, NEW table, NEW recs, Write(table, recs), Committed(table, recs)
    PROVE  WalOk'
<1> DEFINE R == current_revision
           n == Len(wal)
<1>1. /\ R \in Nat /\ next_rev = R + 1 /\ current_revision' = R + 1 /\ keys' = table
      /\ \A t \in 1 .. R : views'[t] = views[t]
      /\ views'[R + 1] = View(table) /\ table \in Tables /\ Len(views') = R + 1
      /\ \A t \in 1 .. current_revision' : t \in 1 .. R \/ t = R + 1
  BY CommittedParts
<1>2. wal \in Seq(Record) /\ recs \in Seq(Record) /\ wal' = wal \o recs /\ Len(views) = R
      /\ floor' = floor /\ floor \in Nat
  BY DEF TypeOK, Write, Committed
<1>3. /\ Len(wal') = n + Len(recs) /\ n \in Nat /\ Len(recs) \in Nat
      /\ \A i \in 1 .. n : wal'[i] = wal[i]
      /\ \A i \in 1 .. Len(recs) : wal'[n + i] = recs[i]
      /\ \A i \in 1 .. Len(wal') : i \in 1 .. n \/ \E j \in 1 .. Len(recs) : i = n + j
  <2>1. wal \in Seq(Record) /\ recs \in Seq(Record) /\ wal' = wal \o recs
    BY <1>2
  <2> QED
    BY ONLY <2>1, ConcatParts, SMTT(30)
<1>4. /\ \A i \in 1 .. n : 1 <= wal[i].mod_revision /\ wal[i].mod_revision <= R
      /\ floor <= R /\ LogTrue(wal, views) /\ LogFull(wal, views, floor)
  BY DEF HistoryInv, WalOk
<1>5. /\ \A i \in 1 .. n : wal[i] \in Record /\ wal[i].mod_revision \in Nat
      /\ \A i \in 1 .. Len(recs) : recs[i].mod_revision = R + 1
  BY <1>1, <1>2, RecordRevs DEF Write
<1> HIDE DEF R, n
<1>6. ASSUME NEW i \in 1 .. Len(wal')
      PROVE  1 <= wal'[i].mod_revision /\ wal'[i].mod_revision <= R + 1
  <2>1. CASE i \in 1 .. n
    <3>1. wal'[i] = wal[i]
      BY <1>3, <2>1
    <3>2. /\ 1 <= wal[i].mod_revision /\ wal[i].mod_revision <= R
          /\ wal[i].mod_revision \in Nat
      BY <1>4, <1>5, <2>1
    <3> QED
      BY <1>1, <3>1, <3>2
  <2>2. CASE \E j \in 1 .. Len(recs) : i = n + j
    <3>1. wal'[i].mod_revision = R + 1
      BY <1>3, <1>5, <2>2
    <3> QED
      BY <1>1, <3>1
  <2> QED
    BY <1>3, <2>1, <2>2
<1>7. ASSUME NEW t \in 1 .. R, NEW k, NEW i PROVE IsLast(wal', k, t, i) <=> IsLast(wal, k, t, i)
  <2>1. \A j \in 1 .. Len(recs) : ~(recs[j].key = k /\ recs[j].mod_revision <= t)
    BY <1>1, <1>5
  <2> QED
    BY <1>2, <2>1, LastBefore
<1>8. ASSUME NEW k, NEW i, \A j \in 1 .. Len(recs) : recs[j].key # k
      PROVE  IsLast(wal', k, R + 1, i) <=> IsLast(wal, k, R, i)
  <2>1. IsLast(wal', k, R + 1, i) <=> IsLast(wal, k, R + 1, i)
    BY <1>2, <1>8, LastBefore
  <2>2. IsLast(wal, k, R + 1, i) <=> IsLast(wal, k, R, i)
    BY <1>1, <1>2, <1>4, LastLater DEF n
  <2> QED
    BY <2>1, <2>2
<1>9. ASSUME NEW k \in Keys, table[k] = keys[k], R > 0
      PROVE  /\ k \in DOMAIN views'[R + 1] <=> k \in DOMAIN views[R]
             /\ \A rev : Reads(views, R, k, rev) => Reads(views', R + 1, k, rev)
  <2>1. views[R] = View(keys)
    BY <1>9 DEF HistoryInv, ViewsOk, R
  <2>2. Alive(table, k) <=> Alive(keys, k)
    BY <1>9 DEF Alive, Present
  <2> QED
    BY <1>1, <1>9, <2>1, <2>2, ViewAt DEF Reads
<1>10. ASSUME NEW k \in Keys, NEW i \in 1 .. Len(wal'), IsLast(wal', k, R + 1, i), ~wal'[i].deleted
       PROVE  Reads(views', R + 1, k, wal'[i].mod_revision)
  <2>1. CASE i \in 1 .. n
    <3>1. ASSUME NEW j \in 1 .. Len(recs) PROVE recs[j].key # k
      <4>1. n + j \in i + 1 .. Len(wal') /\ wal'[n + j] = recs[j]
        BY <1>3, <2>1
      <4>2. recs[j].mod_revision <= R + 1
        BY <1>1, <1>5
      <4> QED
        BY <1>10, <4>1, <4>2 DEF IsLast
    <3>2. table[k] = keys[k]
      BY <3>1 DEF Write
    <3>3. IsLast(wal, k, R, i) /\ wal'[i] = wal[i]
      BY <1>3, <1>8, <1>10, <2>1, <3>1
    <3>4. R > 0 /\ R \in 1 .. R
      BY <1>1, <1>4, <1>5, <2>1
    <3>5. Reads(views, R, k, wal[i].mod_revision)
      BY <1>2, <1>4, <1>10, <2>1, <3>3, <3>4 DEF LogTrue, n
    <3> QED
      BY <1>9, <3>2, <3>3, <3>4, <3>5
  <2>2. CASE i \notin 1 .. n
    <3>1. PICK j \in 1 .. Len(recs) : i = n + j
      BY <1>3, <2>2
    <3>2. wal'[i] = recs[j] /\ recs[j].key = k /\ ~recs[j].deleted /\ recs[j].mod_revision = R + 1
      BY <1>3, <1>5, <1>10, <3>1 DEF IsLast
    <3>3. IsPut(table, k)
      <4>1. \A l \in 1 .. Len(recs) : recs[l].key = k => l = j
        BY <3>2 DEF Write
      <4> QED
        BY <3>2, <4>1 DEF Write
    <3>4. Alive(table, k) /\ table[k].mod_revision = R + 1
      BY <1>1, <3>3 DEF IsPut
    <3> QED
      BY <1>1, <3>2, <3>4, ViewAt DEF Reads
  <2> QED
    BY <2>1, <2>2
<1>11. ASSUME NEW k \in Keys, k \in DOMAIN views'[R + 1]
       PROVE  \E i \in 1 .. Len(wal') : IsLast(wal', k, R + 1, i) /\ ~wal'[i].deleted
  <2>1. Alive(table, k)
    BY <1>1, <1>11, ViewAt
  <2>2. CASE \E i \in 1 .. Len(recs) : recs[i].key = k /\ ~recs[i].deleted
    <3>1. PICK j \in 1 .. Len(recs) : recs[j].key = k /\ ~recs[j].deleted
      BY <2>2
    <3>2. \A l \in 1 .. Len(recs) : recs[l].key = k => l = j
      BY <3>1 DEF Write
    <3>3. IsLast(recs, k, R + 1, j)
      <4>1. recs[j].mod_revision <= R + 1
        BY <1>1, <1>5
      <4>2. \A l \in j + 1 .. Len(recs) : l \in 1 .. Len(recs) /\ l # j
        BY <1>3
      <4> QED
        BY <3>1, <3>2, <4>1, <4>2 DEF IsLast
    <3>4. IsLast(wal', k, R + 1, n + j)
      BY <1>2, <3>3, LastBehind DEF n
    <3>5. n + j \in 1 .. Len(wal') /\ wal'[n + j] = recs[j]
      BY <1>3
    <3> QED
      BY <3>1, <3>4, <3>5
  <2>3. CASE table[k] = keys[k] /\ \A i \in 1 .. Len(recs) : recs[i].key # k
    <3>1. Alive(keys, k)
      BY <2>1, <2>3 DEF Alive, Present
    <3>2. R > 0
      <4>1. EntryOk(k) /\ Present(keys, k)
        BY <3>1 DEF HistoryInv, Alive
      <4>2. /\ 1 <= keys[k].create_revision /\ keys[k].create_revision <= keys[k].mod_revision
            /\ keys[k].mod_revision <= R
        BY <4>1 DEF EntryOk, R
      <4>3. keys[k].create_revision \in Nat /\ keys[k].mod_revision \in Nat
        BY DEF TypeOK, Tables, KeyState
      <4> QED
        BY <1>1, <4>2, <4>3
    <3>3. k \in DOMAIN views[R] /\ R \in 1 .. R
      BY <1>1, <1>9, <1>11, <2>3, <3>2
    <3>4. PICK i \in 1 .. n : IsLast(wal, k, R, i) /\ ~wal[i].deleted
      BY <1>2, <1>4, <3>3 DEF LogFull, n
    <3>5. IsLast(wal', k, R + 1, i) /\ i \in 1 .. Len(wal') /\ wal'[i] = wal[i]
      BY <1>3, <1>8, <2>3, <3>4
    <3> QED
      BY <3>4, <3>5
  <2>4. ~IsDead(table, k)
    BY <1>1, <2>1 DEF IsDead, Alive
  <2> QED
    BY <2>2, <2>3, <2>4 DEF Write
<1>12. LogTrue(wal', views')
  <2>1. ASSUME NEW k \in Keys, NEW t \in 1 .. R, NEW i \in 1 .. Len(wal'),
               IsLast(wal', k, t, i), ~wal'[i].deleted
        PROVE  Reads(views', t, k, wal'[i].mod_revision)
    <3>1. IsLast(wal, k, t, i)
      BY <1>7, <2>1
    <3>2. i \in 1 .. n /\ wal'[i] = wal[i]
      BY <1>3, <3>1 DEF IsLast, n
    <3>3. Reads(views, t, k, wal[i].mod_revision)
      BY <1>2, <1>4, <2>1, <3>1, <3>2 DEF LogTrue, n
    <3> QED
      BY <1>1, <3>2, <3>3 DEF Reads
  <2> QED
    BY <1>1, <1>10, <2>1 DEF LogTrue
<1>13. LogFull(wal', views', floor)
  <2>1. ASSUME NEW k \in Keys, NEW t \in 1 .. R, floor <= t, k \in DOMAIN views'[t]
        PROVE  \E i \in 1 .. Len(wal') : IsLast(wal', k, t, i) /\ ~wal'[i].deleted
    <3>1. PICK i \in 1 .. n : IsLast(wal, k, t, i) /\ ~wal[i].deleted
      BY <1>1, <1>2, <1>4, <2>1 DEF LogFull, n
    <3>2. IsLast(wal', k, t, i) /\ i \in 1 .. Len(wal') /\ wal'[i] = wal[i]
      BY <1>3, <1>7, <3>1
    <3> QED
      BY <3>1, <3>2
  <2> QED
    BY <1>1, <1>11, <2>1 DEF LogFull
<1> QED
  BY <1>1, <1>2, <1>4, <1>6, <1>12, <1>13 DEF WalOk

(* A compaction under way does not see what is written behind its mark.     *)
LEMMA GcWrite ==
    ASSUME TypeOK, HistoryInv, NEW table, NEW recs, Write(table, recs), Committed(table, recs)
    PROVE  GcOk'
<1> DEFINE R == current_revision
           n == Len(wal)
<1>1. /\ R \in Nat /\ current_revision' = R + 1 /\ next_rev = R + 1
      /\ \A t \in 1 .. R : views'[t] = views[t]
  BY CommittedParts
<1>2. /\ wal \in Seq(Record) /\ recs \in Seq(Record) /\ wal' = wal \o recs
      /\ floor' = floor /\ gc' = gc
      /\ gc.rev \in Nat /\ gc.mark \in Nat /\ floor \in Nat /\ gc.recs \in Seq(Record)
      /\ \A i \in 1 .. Len(recs) : recs[i].mod_revision = R + 1
  BY <1>1 DEF TypeOK, Write, Committed
<1>3. /\ Len(wal') = n + Len(recs) /\ n \in Nat /\ Len(recs) \in Nat
      /\ \A i \in 1 .. n : wal'[i] = wal[i]
      /\ \A i \in 1 .. Len(recs) : wal'[n + i] = recs[i]
      /\ \A i \in 1 .. Len(wal') : i \in 1 .. n \/ \E j \in 1 .. Len(recs) : i = n + j
  <2>1. wal \in Seq(Record) /\ recs \in Seq(Record) /\ wal' = wal \o recs
    BY <1>2
  <2> QED
    BY ONLY <2>1, ConcatParts, SMTT(30)
<1>4. SUFFICES ASSUME gc.on
               PROVE  /\ floor <= gc.rev /\ gc.rev <= R + 1 /\ gc.mark <= Len(wal')
                      /\ \A i \in 1 .. Len(wal') : i <= gc.mark <=> wal'[i].mod_revision <= gc.rev
                      /\ SnapOk(gc.recs, views', gc.rev)
  BY <1>1, <1>2 DEF GcOk
<1>5. /\ floor <= gc.rev /\ gc.rev <= R /\ gc.mark <= n
      /\ \A i \in 1 .. n : i <= gc.mark <=> wal[i].mod_revision <= gc.rev
      /\ SnapOk(gc.recs, views, gc.rev)
  BY <1>4 DEF HistoryInv, GcOk
<1> HIDE DEF R, n
<1>6. ASSUME NEW i \in 1 .. Len(wal') PROVE i <= gc.mark <=> wal'[i].mod_revision <= gc.rev
  <2>1. CASE i \in 1 .. n
    BY <1>3, <1>5, <2>1
  <2>2. CASE \E j \in 1 .. Len(recs) : i = n + j
    <3>1. PICK j \in 1 .. Len(recs) : i = n + j
      BY <2>2
    <3>2. wal'[i].mod_revision = R + 1
      BY <1>2, <1>3, <3>1
    <3> QED
      BY <1>1, <1>2, <1>3, <1>5, <3>1, <3>2
  <2> QED
    BY <1>3, <2>1, <2>2
<1>7. gc.rev > 0 => views'[gc.rev] = views[gc.rev]
  <2>1. gc.rev > 0 => gc.rev \in 1 .. R
    BY <1>1, <1>2, <1>5
  <2> QED
    BY <1>1, <2>1 DEF R
<1>8. SnapOk(gc.recs, views', gc.rev)
  BY <1>5, <1>7 DEF SnapOk, Reads
<1> QED
  BY <1>1, <1>2, <1>3, <1>5, <1>6, <1>8

(* A snapshot is the view at the current revision.                          *)
LEMMA SnapshotHistory ==
    ASSUME TypeOK, HistoryInv, CompactSnapshot
    PROVE  HistoryInv'
<1> DEFINE R == current_revision
           snap == SnapshotRecords(keys)
           live == InOrder(AliveKeys(keys))
           n == Cardinality(AliveKeys(keys))
<1>1. /\ UNCHANGED <<keys, next_rev, wal, views, births, floor>>
      /\ gc'.recs = snap /\ gc'.mark = Len(wal) /\ gc'.rev = R
  BY DEF CompactSnapshot
<1>2. keys \in Tables /\ R \in Nat /\ AliveKeys(keys) \in SUBSET Keys /\ wal \in Seq(Record)
  BY DEF TypeOK, current_revision, AliveKeys
<1>3. /\ n \in Nat /\ live \in [1 .. n -> AliveKeys(keys)]
      /\ \A i, j \in 1 .. n : i < j => live[i] < live[j]
      /\ \A k \in AliveKeys(keys) : \E i \in 1 .. n : live[i] = k
  BY <1>2, InOrderDef
<1>4. /\ snap \in Seq(Record) /\ Len(snap) = n
      /\ \A i \in 1 .. n : /\ ~snap[i].deleted /\ snap[i].key = live[i]
                           /\ snap[i].mod_revision = keys[live[i]].mod_revision
  BY <1>2, SnapshotDef
<1> HIDE DEF snap, live, n
<1>5. ASSUME NEW k \in AliveKeys(keys)
      PROVE  R > 0
  <2>1. k \in Keys /\ Alive(keys, k)
    BY DEF AliveKeys
  <2>2. EntryOk(k) /\ Present(keys, k)
    BY <2>1 DEF HistoryInv, Alive
  <2>3. /\ 1 <= keys[k].create_revision /\ keys[k].create_revision <= keys[k].mod_revision
        /\ keys[k].mod_revision <= R
    BY <2>2 DEF EntryOk
  <2>4. keys[k].create_revision \in Nat /\ keys[k].mod_revision \in Nat
    BY <1>2, <2>1 DEF Tables, KeyState
  <2> HIDE DEF R
  <2> QED
    BY <1>2, <2>3, <2>4
<1>6. R > 0 => views[R] = View(keys)
  BY DEF HistoryInv, ViewsOk
<1>7. ASSUME NEW i \in 1 .. n, NEW j \in 1 .. n, live[i] = live[j] PROVE i = j
  <2>1. live[i] \in Nat /\ live[j] \in Nat
    BY <1>2, <1>3, KeysAssumption
  <2> QED
    BY <1>3, <1>7, <2>1
<1>8. SnapOk(snap, views, R)
  <2>1. ASSUME NEW i \in 1 .. Len(snap)
        PROVE  /\ R > 0 /\ ~snap[i].deleted
               /\ Reads(views, R, snap[i].key, snap[i].mod_revision)
               /\ \A j \in 1 .. Len(snap) : snap[i].key = snap[j].key => i = j
    <3>1. live[i] \in AliveKeys(keys)
      BY <1>3, <1>4
    <3>2. R > 0
      BY <1>5, <3>1
    <3>3. Reads(views, R, live[i], keys[live[i]].mod_revision)
      BY <1>6, <3>1, <3>2, ViewDef DEF Reads
    <3> QED
      BY <1>4, <1>7, <3>2, <3>3
  <2>2. ASSUME R > 0, NEW k \in DOMAIN views[R]
        PROVE  \E i \in 1 .. Len(snap) : snap[i].key = k
    <3>1. k \in AliveKeys(keys)
      BY <1>6, <2>2, ViewDef
    <3> QED
      BY <1>3, <1>4, <3>1
  <2> HIDE DEF R
  <2> QED
    BY <2>1, <2>2 DEF SnapOk
<1>9. /\ \A i \in 1 .. Len(wal) : wal[i].mod_revision <= R
      /\ floor <= R
  BY DEF HistoryInv, WalOk
<1>10. GcOk'
  <2>1. current_revision' = R
    BY <1>1 DEF current_revision
  <2>2. \A i \in 1 .. Len(wal) : i <= Len(wal)
    OBVIOUS
  <2>3. Len(wal) <= Len(wal)
    BY <1>2
  <2> HIDE DEF R
  <2> QED
    BY <1>1, <1>2, <1>8, <1>9, <2>1, <2>2, <2>3 DEF GcOk
<1>11. (\A k \in Keys : EntryOk(k)') /\ ViewsOk' /\ WalOk'
  BY <1>1 DEF HistoryInv, EntryOk, ViewsOk, WalOk, current_revision
<1> QED
  BY <1>10, <1>11 DEF HistoryInv

(* The swap keeps the log true of every revision, and complete from the     *)
(* revision of the snapshot on.                                             *)
LEMMA SwapHistory ==
    ASSUME TypeOK, HistoryInv, CompactSwap
    PROVE  HistoryInv'
<1> DEFINE R == current_revision
           n == Len(wal)
           f == gc.mark
           g == gc.rev
           snap == gc.recs
           p == Len(snap)
           head == SubSeq(wal, 1, f)
           tail == SubSeq(wal, f + 1, n)
<1>1. /\ UNCHANGED <<keys, next_rev, views, births>>
      /\ wal' = snap \o tail /\ gc'.on = FALSE /\ floor' = g /\ gc.on
  BY DEF CompactSwap, NoGc
<1>2. /\ wal \in Seq(Record) /\ snap \in Seq(Record) /\ f \in Nat /\ g \in Nat
      /\ R \in Nat /\ n \in Nat /\ p \in Nat /\ floor \in Nat /\ Len(views) = R
  BY DEF TypeOK, current_revision
<1>3. /\ floor <= g /\ g <= R /\ f <= n
      /\ \A i \in 1 .. n : i <= f <=> wal[i].mod_revision <= g
      /\ SnapOk(snap, views, g)
  BY <1>1 DEF HistoryInv, GcOk
<1>4. /\ \A i \in 1 .. n : 1 <= wal[i].mod_revision /\ wal[i].mod_revision <= R
      /\ LogTrue(wal, views) /\ LogFull(wal, views, floor)
  BY DEF HistoryInv, WalOk
<1> HIDE DEF R, n, f, g, snap, p
<1>5. /\ head \in Seq(Record) /\ Len(head) = f
      /\ \A i \in 1 .. f : head[i] = wal[i] /\ i \in 1 .. n
  BY <1>2, <1>3 DEF n
<1>6. /\ tail \in Seq(Record) /\ Len(tail) = n - f
      /\ \A i \in 1 .. n - f : tail[i] = wal[f + i] /\ f + i \in 1 .. n
  BY <1>2, <1>3 DEF n
<1> HIDE DEF head, tail
<1>7. wal = head \o tail
  <2>1. /\ head \o tail \in Seq(Record) /\ Len(head \o tail) = Len(head) + Len(tail)
        /\ \A j \in 1 .. Len(head) : (head \o tail)[j] = head[j]
        /\ \A j \in 1 .. Len(tail) : (head \o tail)[Len(head) + j] = tail[j]
    <3>1. head \in Seq(Record) /\ tail \in Seq(Record)
      BY <1>5, <1>6
    <3> QED
      BY ONLY <3>1, ConcatParts
  <2> DEFINE w == head \o tail
  <2> HIDE DEF w
  <2>2. /\ w \in Seq(Record) /\ Len(w) = n
        /\ \A j \in 1 .. f : w[j] = wal[j]
        /\ \A j \in 1 .. n - f : w[f + j] = wal[f + j]
    <3>1. f + (n - f) = n
      BY <1>2
    <3> QED
      BY <1>5, <1>6, <2>1, <3>1 DEF w
  <2>3. ASSUME NEW i \in 1 .. n PROVE wal[i] = w[i]
    <3>1. CASE i <= f
      BY <1>2, <2>2, <3>1
    <3>2. CASE i > f
      <4>1. i - f \in 1 .. n - f /\ f + (i - f) = i
        BY <1>2, <1>3, <3>2
      <4> QED
        BY <2>2, <4>1
    <3> QED
      BY <1>2, <3>1, <3>2
  <2>4. wal = w
    BY <1>2, <2>2, <2>3, SeqEqual DEF n
  <2> QED
    BY <2>4 DEF w
<1>8. /\ Len(wal') = p + Len(tail) /\ Len(tail) \in Nat
      /\ \A i \in 1 .. p : wal'[i] = snap[i]
      /\ \A i \in 1 .. Len(tail) : wal'[p + i] = tail[i]
      /\ \A i \in 1 .. Len(wal') : i \in 1 .. p \/ \E j \in 1 .. Len(tail) : i = p + j
  <2>1. /\ Len(wal') = Len(snap) + Len(tail) /\ Len(tail) \in Nat
        /\ \A i \in 1 .. Len(snap) : wal'[i] = snap[i]
        /\ \A i \in 1 .. Len(tail) : wal'[Len(snap) + i] = tail[i]
        /\ \A i \in 1 .. Len(wal') :
              i \in 1 .. Len(snap) \/ \E j \in 1 .. Len(tail) : i = Len(snap) + j
    <3>1. wal' = snap \o tail /\ snap \in Seq(Record) /\ tail \in Seq(Record)
      BY <1>1, <1>2, <1>6
    <3> QED
      BY ONLY <3>1, ConcatParts, SMTT(30)
  <2> QED
    BY <2>1 DEF p
<1>9. ASSUME NEW j \in 1 .. Len(tail)
      PROVE  /\ f + j \in 1 .. n /\ wal[f + j] = tail[j]
             /\ tail[j].mod_revision > g /\ tail[j].mod_revision \in Nat
  <2>1. f + j \in 1 .. n /\ wal[f + j] = tail[j] /\ ~(f + j <= f)
    BY <1>2, <1>6
  <2>2. wal[f + j].mod_revision \in Nat
    BY <1>2, <2>1, RecordRevs DEF n
  <2> QED
    BY <1>2, <1>3, <2>1, <2>2
<1>10. ASSUME NEW k, NEW t, NEW j \in 1 .. Len(tail)
       PROVE  IsLast(wal', k, t, p + j) <=> IsLast(wal, k, t, f + j)
  <2>1. IsLast(wal', k, t, p + j) <=> IsLast(tail, k, t, j)
    BY <1>1, <1>2, <1>6, LastBehind DEF p
  <2>2. IsLast(wal, k, t, f + j) <=> IsLast(tail, k, t, j)
    BY <1>5, <1>6, <1>7, LastBehind
  <2> QED
    BY <2>1, <2>2
<1>11. ASSUME NEW i \in 1 .. p
       PROVE  /\ g > 0 /\ ~snap[i].deleted /\ snap[i].mod_revision \in Nat
              /\ Reads(views, g, snap[i].key, snap[i].mod_revision)
              /\ 1 <= snap[i].mod_revision /\ snap[i].mod_revision <= g
              /\ \A r \in 1 .. g : snap[i].mod_revision <= r =>
                    Reads(views, r, snap[i].key, snap[i].mod_revision)
  <2>1. g > 0 /\ ~snap[i].deleted /\ Reads(views, g, snap[i].key, snap[i].mod_revision)
    BY <1>3 DEF SnapOk, p
  <2>2. g \in 1 .. R
    BY <1>2, <1>3, <2>1
  <2>3. snap[i].key \in DOMAIN views[g] /\ views[g][snap[i].key] = snap[i].mod_revision
    BY <2>1 DEF Reads
  <2>4. /\ 1 <= views[g][snap[i].key] /\ views[g][snap[i].key] <= g
        /\ \A r \in 1 .. g : views[g][snap[i].key] <= r =>
              Reads(views, r, snap[i].key, views[g][snap[i].key])
    BY <2>2, <2>3 DEF HistoryInv, ViewsOk, R
  <2>5. snap[i].mod_revision \in Nat
    BY <1>2, RecordRevs DEF p
  <2> QED
    BY <2>1, <2>3, <2>4, <2>5
(* Records of the key up to t: none in the tail.                            *)
<1> DEFINE None(k, t) == \A j \in 1 .. Len(tail) : ~(tail[j].key = k /\ tail[j].mod_revision <= t)
<1>12. ASSUME NEW k, NEW t \in Nat, g <= t, None(k, t), NEW i
       PROVE  IsLast(wal, k, t, i) <=> IsLast(wal, k, g, i)
  <2>1. ASSUME NEW r, None(k, r) PROVE IsLast(wal, k, r, i) <=> IsLast(head, k, r, i)
    <3>1. \A j \in 1 .. Len(tail) : ~(tail[j].key = k /\ tail[j].mod_revision <= r)
      BY <2>1
    <3>2. head \in Seq(Record) /\ tail \in Seq(Record)
      BY <1>5, <1>6
    <3>3. \A x : IsLast(head \o tail, k, r, x) <=> IsLast(head, k, r, x)
      BY ONLY <3>1, <3>2, LastBefore
    <3> QED
      BY ONLY <1>7, <3>3, Zenon
  <2>2. None(k, g)
    BY <1>2, <1>9
  <2>3. ASSUME NEW j \in 1 .. Len(head) PROVE head[j].mod_revision <= t /\ head[j].mod_revision <= g
    <3>0. j \in 1 .. f /\ j <= f
      BY <1>2, <1>5
    <3>1. head[j] = wal[j] /\ j \in 1 .. n /\ j <= f
      BY <1>5, <3>0
    <3>2. head[j].mod_revision \in Nat
      BY <1>5, RecordRevs
    <3> QED
      BY <1>2, <1>3, <1>12, <3>1, <3>2
  <2>4. i \in 1 .. Len(head) => \A j \in i + 1 .. Len(head) : j \in 1 .. Len(head)
    BY <1>2, <1>5
  <2>5. IsLast(head, k, t, i) <=> IsLast(head, k, g, i)
    BY <2>3, <2>4 DEF IsLast
  <2> QED
    BY <1>12, <2>1, <2>2, <2>5
<1>13. ASSUME NEW k \in Keys, NEW t \in 1 .. R, NEW i \in 1 .. Len(wal'),
              IsLast(wal', k, t, i), ~wal'[i].deleted
       PROVE  Reads(views, t, k, wal'[i].mod_revision)
  <2>1. CASE i \in 1 .. p
    <3>1. wal'[i] = snap[i] /\ snap[i].key = k /\ snap[i].mod_revision <= t
      BY <1>8, <1>13, <2>1 DEF IsLast
    <3>2. CASE t <= g
      <4>1. t \in 1 .. g
        BY <1>2, <3>2
      <4> QED
        BY <1>11, <2>1, <3>1, <4>1
    <3>3. CASE g <= t
      <4>1. None(k, t)
        <5>1. ASSUME NEW j \in 1 .. Len(tail) PROVE p + j \in i + 1 .. Len(wal') /\ wal'[p + j] = tail[j]
          BY <1>2, <1>8, <2>1
        <5> QED
          BY <1>13, <5>1 DEF IsLast
      <4>2. g \in 1 .. R /\ k \in DOMAIN views[g] /\ views[g][k] = snap[i].mod_revision
        BY <1>2, <1>3, <1>11, <2>1, <3>1 DEF Reads
      <4>3. PICK l \in 1 .. n : IsLast(wal, k, g, l) /\ ~wal[l].deleted
        BY <1>2, <1>3, <1>4, <4>2 DEF LogFull, n
      <4>4. Reads(views, g, k, wal[l].mod_revision)
        BY <1>2, <1>4, <4>2, <4>3 DEF LogTrue, n
      <4>5. wal[l].mod_revision = snap[i].mod_revision
        BY <4>2, <4>4 DEF Reads
      <4>6. IsLast(wal, k, t, l)
        BY <1>12, <3>3, <4>1, <4>3
      <4>7. Reads(views, t, k, wal[l].mod_revision)
        BY <1>2, <1>4, <4>3, <4>6 DEF LogTrue, n
      <4> QED
        BY <3>1, <4>5, <4>7
    <3> QED
      BY <1>2, <3>2, <3>3
  <2>2. CASE i \notin 1 .. p
    <3>1. PICK j \in 1 .. Len(tail) : i = p + j
      BY <1>8, <2>2
    <3>2. IsLast(wal, k, t, f + j) /\ wal'[i] = tail[j] /\ wal[f + j] = tail[j] /\ f + j \in 1 .. n
      BY <1>8, <1>9, <1>10, <1>13, <3>1
    <3> QED
      BY <1>2, <1>4, <1>13, <3>2 DEF LogTrue, n
  <2> QED
    BY <2>1, <2>2
<1>14. ASSUME NEW k \in Keys, NEW t \in 1 .. R, g <= t, k \in DOMAIN views[t]
       PROVE  \E i \in 1 .. Len(wal') : IsLast(wal', k, t, i) /\ ~wal'[i].deleted
  <2>1. floor <= t
    BY <1>2, <1>3, <1>14
  <2>2. PICK l \in 1 .. n : IsLast(wal, k, t, l) /\ ~wal[l].deleted
    BY <1>2, <1>4, <1>14, <2>1 DEF LogFull, n
  <2>3. CASE l > f
    <3>1. l - f \in 1 .. Len(tail) /\ l = f + (l - f)
      BY <1>2, <1>3, <1>6, <2>3
    <3>2. IsLast(wal', k, t, p + (l - f))
      BY <1>10, <2>2, <3>1
    <3>3. p + (l - f) \in 1 .. Len(wal')
      BY <1>2, <1>8, <3>1
    <3>4. wal'[p + (l - f)] = wal[l]
      BY <1>8, <1>9, <3>1
    <3> QED
      BY <2>2, <3>2, <3>3, <3>4
  <2>4. CASE l <= f
    <3>1. None(k, t)
      <4>1. ASSUME NEW j \in 1 .. Len(tail) PROVE f + j \in l + 1 .. Len(wal) /\ wal[f + j] = tail[j]
        BY <1>2, <1>9, <2>4 DEF n
      <4> QED
        BY <2>2, <4>1 DEF IsLast
    <3>2. IsLast(wal, k, g, l)
      BY <1>12, <1>14, <2>2, <3>1
    <3>3. g \in 1 .. R
      <4>1. wal[l].mod_revision <= g /\ 1 <= wal[l].mod_revision
        BY <1>4, <2>2, <3>2 DEF IsLast
      <4>2. wal[l].mod_revision \in Nat
        BY <1>2, RecordRevs DEF n
      <4> QED
        BY <1>2, <1>3, <4>1, <4>2
    <3>4. k \in DOMAIN views[g]
      BY <1>2, <1>4, <2>2, <3>2, <3>3 DEF LogTrue, Reads, n
    <3>5. g > 0
      BY <3>3
    <3>6. PICK i \in 1 .. p : snap[i].key = k
      BY <1>3, <3>4, <3>5 DEF SnapOk, p
    <3>7. snap[i].mod_revision <= t /\ ~snap[i].deleted
      BY <1>2, <1>11, <1>14
    <3>8. IsLast(snap, k, t, i)
      <4>1. \A j \in 1 .. p : snap[i].key = snap[j].key => i = j
        BY <1>3 DEF SnapOk, p
      <4>2. \A j \in i + 1 .. p : j \in 1 .. p /\ i # j
        BY <1>2
      <4> QED
        BY <3>6, <3>7, <4>1, <4>2 DEF IsLast, p
    <3>9. IsLast(wal', k, t, i)
      BY <1>1, <1>2, <1>6, <3>1, <3>8, LastBefore
    <3>10. i \in 1 .. Len(wal') /\ wal'[i] = snap[i]
      BY <1>2, <1>8
    <3> QED
      BY <3>7, <3>9, <3>10
  <2> QED
    BY <1>2, <2>3, <2>4
<1>15. ASSUME NEW i \in 1 .. Len(wal')
       PROVE  1 <= wal'[i].mod_revision /\ wal'[i].mod_revision <= R
  <2>1. CASE i \in 1 .. p
    <3>1. wal'[i] = snap[i]
      BY <1>8, <2>1
    <3>2. /\ snap[i].mod_revision \in Nat /\ 1 <= snap[i].mod_revision
          /\ snap[i].mod_revision <= g
      BY <1>11, <2>1
    <3> QED
      BY <1>2, <1>3, <3>1, <3>2
  <2>2. CASE i \notin 1 .. p
    <3>1. PICK j \in 1 .. Len(tail) : i = p + j
      BY <1>8, <2>2
    <3> QED
      BY <1>4, <1>8, <1>9, <3>1
  <2> QED
    BY <2>1, <2>2
<1>16. current_revision' = R
  BY <1>1 DEF current_revision, R
<1>17. WalOk'
  <2>1. LogTrue(wal', views')
    BY <1>1, <1>2, <1>13 DEF LogTrue
  <2>2. LogFull(wal', views', g)
    BY <1>1, <1>2, <1>14 DEF LogFull
  <2> QED
    BY <1>1, <1>3, <1>15, <1>16, <2>1, <2>2 DEF WalOk
<1>18. GcOk'
  BY <1>1 DEF GcOk
<1>19. (\A k \in Keys : EntryOk(k)') /\ ViewsOk'
  BY <1>1 DEF HistoryInv, EntryOk, ViewsOk, current_revision
<1> QED
  BY <1>17, <1>18, <1>19 DEF HistoryInv

-----------------------------------------------------------------------------
(* Types.                                                                   *)

(* A function from keys to numbers is a set of versions.                    *)
LEMMA VersionsIntro ==
    ASSUME NEW ks \in SUBSET Keys, NEW f \in [ks -> Nat]
    PROVE  f \in Versions
BY DEF Versions

(* Versions are a function from keys to numbers.                            *)
LEMMA VersionsParts ==
    ASSUME NEW f \in Versions
    PROVE  /\ DOMAIN f \in SUBSET Keys /\ f \in [DOMAIN f -> Nat]
           /\ \A k \in DOMAIN f : f[k] \in Nat
<1>1. PICK ks \in SUBSET Keys : f \in [ks -> Nat]
  BY DEF Versions
<1> QED
  BY <1>1

(* One version more.                                                        *)
LEMMA WithType ==
    ASSUME NEW f \in Versions, NEW k \in Keys, NEW v \in Nat
    PROVE  With(f, k, v) \in Versions
<1>1. DOMAIN f \in SUBSET Keys /\ \A x \in DOMAIN f : f[x] \in Nat
  BY VersionsParts
<1>2. With(f, k, v) \in [DOMAIN f \cup {k} -> Nat] /\ DOMAIN f \cup {k} \in SUBSET Keys
  BY <1>1 DEF With
<1> QED
  BY <1>2, VersionsIntro

(* No versions at all.                                                      *)
LEMMA NothingType == Nothing \in Versions /\ DOMAIN Nothing = {}
<1>1. Nothing \in [{} -> Nat] /\ {} \in SUBSET Keys
  BY DEF Nothing
<1> QED
  BY <1>1, VersionsIntro

(* An idle reader is intact.                                                *)
LEMMA IdleType == Idle \in Reader /\ Idle.intact
BY NothingType DEF Idle, Reader, Steps

(* What the log yields.                                                     *)
LEMMA ScanDef ==
    ASSUME TypeOK, NEW bound \in SUBSET Keys, NEW t \in Nat
    PROVE  LET scan == ScanWalRange(bound, t) IN
           /\ scan \in Versions
           /\ \A k : k \in DOMAIN scan <=>
                 k \in bound /\ \E i \in 1 .. Len(wal) : IsLast(wal, k, t, i) /\ ~wal[i].deleted
           /\ \A k \in DOMAIN scan : \A i \in 1 .. Len(wal) :
                 IsLast(wal, k, t, i) => scan[k] = wal[i].mod_revision
<1> DEFINE scan == ScanWalRange(bound, t)
           D == {k \in bound : \E i \in LastUpTo(k, t) : ~wal[i].deleted}
           pick(k) == CHOOSE i \in LastUpTo(k, t) : TRUE
<1>1. wal \in Seq(Record) /\ DOMAIN wal = 1 .. Len(wal)
  BY DEF TypeOK
<1>2. \A k, i : i \in LastUpTo(k, t) <=> IsLast(wal, k, t, i)
  BY <1>1 DEF LastUpTo, IsLast
<1>3. \A k, i : IsLast(wal, k, t, i) => i \in 1 .. Len(wal)
  BY DEF IsLast
<1>4. scan = [k \in D |-> wal[pick(k)].mod_revision]
  BY DEF ScanWalRange
<1>5. ASSUME NEW k \in D PROVE pick(k) \in LastUpTo(k, t)
  OBVIOUS
<1> HIDE DEF pick, scan
<1>6. DOMAIN scan = D /\ \A k \in D : scan[k] = wal[pick(k)].mod_revision
  BY <1>4
<1>7. ASSUME NEW k \in D PROVE scan[k] \in Nat
  BY <1>1, <1>2, <1>3, <1>5, <1>6, RecordRevs
<1>8. ASSUME NEW k \in D, NEW i \in 1 .. Len(wal), IsLast(wal, k, t, i)
      PROVE  scan[k] = wal[i].mod_revision
  <2>1. IsLast(wal, k, t, pick(k))
    BY <1>2, <1>5
  <2>2. pick(k) = i
    BY <1>1, <1>8, <2>1, LastUnique
  <2> QED
    BY <1>6, <2>2
<1>9. \A k : k \in D <=> k \in bound /\ \E i \in 1 .. Len(wal) : IsLast(wal, k, t, i) /\ ~wal[i].deleted
  BY <1>2, <1>3
<1>10. D \in SUBSET Keys
  OBVIOUS
<1> HIDE DEF D
<1>11. scan \in [D -> Nat]
  BY <1>4, <1>6, <1>7
<1>12. scan \in Versions
  BY <1>10, <1>11, VersionsIntro
<1> QED
  BY <1>6, <1>8, <1>9, <1>12 DEF scan

-----------------------------------------------------------------------------
(* The read, step by step.                                                  *)

(* What other steps do does not disturb a read: the past stays as it is.    *)
LEMMA ReaderFrame ==
    ASSUME TypeOK, ReaderInv, reader' = reader,
           current_revision \in Nat, current_revision' \in Nat,
           current_revision <= current_revision',
           \A t \in 1 .. current_revision : views'[t] = views[t]
    PROVE  ReaderInv'
<1>1. reader.step # "idle" =>
         /\ reader.target \in 1 .. current_revision /\ reader.target \in 1 .. current_revision'
         /\ views'[reader.target] = views[reader.target]
  <2>1. SUFFICES ASSUME reader.step # "idle"
                 PROVE  /\ reader.target \in 1 .. current_revision
                        /\ reader.target \in 1 .. current_revision'
                        /\ views'[reader.target] = views[reader.target]
    OBVIOUS
  <2>2. reader.target \in 1 .. current_revision
    BY <2>1 DEF ReaderInv
  <2>3. 1 .. current_revision \subseteq 1 .. current_revision'
    OBVIOUS
  <2> QED
    BY <2>2, <2>3
<1>2. CASE reader.step = "idle"
  BY <1>2 DEF ReaderInv
<1>3. CASE reader.step # "idle"
  BY <1>1, <1>3 DEF ReaderInv, AnswerTrue, OnceTrue, OnceFull, ScanOk, Reads
<1> QED
  BY <1>2, <1>3

(* Starting a read keeps the reader's invariant.                            *)
LEMMA BeginReads ==
    ASSUME TypeOK, HistoryInv, ReaderInv, NEW bound \in Bounds,
           RangeCurrent(bound) \/ \E target \in 1 .. MaxRev : RangeBegin(bound, target)
    PROVE  reader' \in Reader /\ ReaderInv'
<1> DEFINE R == current_revision
<1>1. R \in Nat /\ bound \in SUBSET Keys /\ reader \in Reader /\ keys \in Tables
  BY BoundsAssumption DEF TypeOK, current_revision
<1>3. CASE RangeCurrent(bound)
  <2> DEFINE r == [Idle EXCEPT !.step = "done", !.bound = bound, !.once = Keys,
                              !.target = R, !.direct = Within(View(keys), bound)]
             d == Within(View(keys), bound)
  <2>1. reader' = r /\ UNCHANGED <<next_rev, views>> /\ R > 0
    BY <1>3 DEF RangeCurrent, store
  <2>2. d \in Versions
    <3>1. View(keys) \in Versions
      BY <1>1, ViewType
    <3>2. DOMAIN View(keys) \in SUBSET Keys /\ \A k \in DOMAIN View(keys) : View(keys)[k] \in Nat
      BY <3>1, VersionsParts
    <3>3. d \in [DOMAIN View(keys) \cap bound -> Nat] /\ DOMAIN View(keys) \cap bound \in SUBSET Keys
      BY <3>2 DEF Within
    <3> QED
      BY <3>3, VersionsIntro
  <2>3. DOMAIN d = DOMAIN View(keys) \cap bound /\ \A k \in DOMAIN d : d[k] = View(keys)[k]
    BY WithinDef
  <2> HIDE DEF d
  <2>4. r = [Idle EXCEPT !.step = "done", !.bound = bound, !.once = Keys, !.target = R,
                         !.direct = d]
    BY DEF d
  <2> HIDE DEF r
  <2>5. /\ r \in Reader /\ r.step = "done" /\ r.bound = bound /\ r.target = R
        /\ r.direct = d /\ r.once = Keys
    BY <1>1, <2>2, <2>4, IdleType DEF Reader, Steps
  <2>6. views[R] = View(keys) /\ current_revision' = R
    BY <2>1 DEF HistoryInv, ViewsOk, current_revision
  <2>7. R \in 1 .. R
    BY <1>1, <2>1
  <2> HIDE DEF R
  <2>8. /\ reader'.step = "done" /\ reader'.bound = bound /\ reader'.target = R
        /\ reader'.direct = d /\ reader'.once = Keys
    BY <2>1, <2>5
  <2>9. AnswerTrue(R)' /\ OnceTrue(R)' /\ OnceFull(R, {})'
    <3>1. views' = views /\ R' = R
      BY <2>1, <2>6 DEF R
    <3>2. \A k \in DOMAIN d : k \in bound /\ Reads(views, R, k, d[k])
      BY <2>3, <2>6 DEF Reads
    <3>3. \A k \in bound : k \in DOMAIN views[R] <=> k \in DOMAIN d
      BY <2>3, <2>6
    <3> QED
      BY <2>8, <3>1, <3>2, <3>3 DEF AnswerTrue, OnceTrue, OnceFull, Reads
  <2>10. R' = R
    BY <2>6 DEF R
  <2> QED
    BY <2>1, <2>5, <2>6, <2>7, <2>8, <2>9, <2>10 DEF ReaderInv
<1>4. ASSUME NEW target \in 1 .. MaxRev, RangeBegin(bound, target)
      PROVE  reader' \in Reader /\ ReaderInv'
  <2>0. target \in Nat
    BY BoundsAssumption
  <2>1. /\ target <= R /\ UNCHANGED <<next_rev, views>> /\ target \in Nat
        /\ reader' = [Idle EXCEPT !.step = "compacted?", !.bound = bound, !.target = target]
    BY <1>4, <2>0 DEF RangeBegin, store
  <2>2. /\ reader' \in Reader /\ reader'.step = "compacted?" /\ reader'.target = target
        /\ reader'.intact
    BY <1>1, <2>1, IdleType DEF Reader, Steps
  <2>3. target \in 1 .. R /\ current_revision' = R
    BY <1>1, <2>1 DEF current_revision
  <2> QED
    BY <2>1, <2>2, <2>3 DEF ReaderInv
<1> QED
  BY <1>3, <1>4

(* Checking for compaction and returning keep the reader's invariant.       *)
LEMMA SettleReads ==
    ASSUME TypeOK, ReaderInv, RangeCheckCompacted \/ RangeReturn
    PROVE  reader' \in Reader /\ ReaderInv'
<1> DEFINE R == current_revision
<1>1. reader \in Reader
  BY DEF TypeOK
<1>2. CASE reader' = Idle
  BY <1>2, IdleType DEF ReaderInv, Idle
<1>3. CASE RangeCheckCompacted /\ reader' # Idle
  <2>1. /\ reader.step = "compacted?" /\ reader' = [reader EXCEPT !.step = "phase1"]
        /\ UNCHANGED <<next_rev, views>>
    BY <1>3 DEF RangeCheckCompacted, store
  <2>2. /\ reader' \in Reader /\ reader'.step = "phase1" /\ reader'.target = reader.target
        /\ reader'.intact = reader.intact
    BY <1>1, <2>1 DEF Reader, Steps
  <2>3. current_revision' = R
    BY <2>1 DEF current_revision
  <2> QED
    BY <2>1, <2>2, <2>3 DEF ReaderInv
<1> QED
  BY <1>2, <1>3 DEF RangeCheckCompacted, RangeReturn

(* What the entries tell of a past revision.                                *)
LEMMA EntryTells ==
    ASSUME TypeOK, HistoryInv, NEW t \in 1 .. current_revision, NEW k \in Keys
    PROVE  /\ Direct(keys, k, t) => Reads(views, t, k, keys[k].mod_revision)
           /\ Alive(keys, k) /\ keys[k].mod_revision <= t => Reads(views, t, k, keys[k].mod_revision)
           /\ births[k] <= 1 =>
                 (k \in DOMAIN views[t] <=> Direct(keys, k, t) \/ Stale(keys, k, t))
<1>1. /\ keys[k].create_revision \in Nat /\ keys[k].mod_revision \in Nat
      /\ keys[k].delete_revision \in Nat /\ births[k] \in Nat /\ t \in Nat
  BY DEF TypeOK, Tables, KeyState
<1>2. EntryOk(k)
  BY DEF HistoryInv
<1>3. CASE ~Present(keys, k)
  <2>1. k \notin DOMAIN views[t]
    BY <1>2, <1>3 DEF EntryOk
  <2> QED
    BY <1>3, <2>1 DEF Direct, Stale, Alive
<1>4. CASE Present(keys, k)
  <2>1. /\ keys[k].create_revision <= keys[k].mod_revision /\ (keys[k].rebirth => births[k] >= 2)
        /\ Covers(keys, k, t) =>
              /\ k \in DOMAIN views[t]
              /\ keys[k].mod_revision <= t => Reads(views, t, k, keys[k].mod_revision)
        /\ births[k] <= 1 /\ k \in DOMAIN views[t] => Covers(keys, k, t)
    BY <1>2, <1>4 DEF EntryOk
  <2>2. Direct(keys, k, t) <=> Covers(keys, k, t) /\ keys[k].mod_revision <= t
    BY <1>1, <1>4 DEF Direct, Covers
  <2>3. Covers(keys, k, t) => Direct(keys, k, t) \/ Stale(keys, k, t)
    BY <1>1, <1>4 DEF Direct, Stale, Covers
  <2>4. births[k] <= 1 /\ Stale(keys, k, t) => Covers(keys, k, t)
    BY <1>1, <2>1 DEF Stale, Covers
  <2>5. Alive(keys, k) /\ keys[k].mod_revision <= t => Covers(keys, k, t)
    BY <1>1, <2>1 DEF Alive, Covers
  <2> QED
    BY <2>1, <2>2, <2>3, <2>4, <2>5
<1> QED
  BY <1>3, <1>4

(* The pass over the table keeps the reader's invariant.                    *)
LEMMA Phase1Reads ==
    ASSUME TypeOK, HistoryInv, ReaderInv, RangePhase1
    PROVE  reader' \in Reader /\ ReaderInv'
<1> DEFINE R == current_revision
           t == reader.target
           bound == reader.bound
           direct == {k \in bound : Direct(keys, k, t)}
           stale == {k \in bound : Stale(keys, k, t)}
           once == {k \in Keys : births[k] <= 1}
           d == [k \in direct |-> keys[k].mod_revision]
           step == IF stale = {} THEN "done" ELSE "phase2"
<1>1. /\ reader \in Reader /\ keys \in Tables /\ reader.step = "phase1"
      /\ reader' = [reader EXCEPT !.step = step, !.direct = d, !.stale = stale, !.once = once]
      /\ UNCHANGED <<next_rev, views>>
  BY DEF TypeOK, RangePhase1, store
<1>2. t \in 1 .. R /\ reader.intact
  BY <1>1 DEF ReaderInv
<1>3. bound \in SUBSET Keys
  BY <1>1 DEF Reader
<1>4. direct \in SUBSET Keys /\ stale \in SUBSET Keys /\ direct \subseteq bound /\ stale \subseteq bound
  BY <1>3
<1>5. ASSUME NEW k \in bound
      PROVE  /\ k \in direct => Reads(views, t, k, keys[k].mod_revision)
             /\ k \in once => (k \in DOMAIN views[t] <=> k \in direct \cup stale)
  BY <1>2, <1>3, EntryTells
<1> HIDE DEF direct, stale, once
<1>6. d \in [direct -> Nat]
  BY <1>1, <1>4 DEF Tables, KeyState
<1>7. d \in Versions /\ DOMAIN d = direct /\ \A k \in direct : d[k] = keys[k].mod_revision
  BY <1>4, <1>6, VersionsIntro
<1> HIDE DEF d
<1>8. once \in SUBSET Keys
  BY DEF once
<1>9. step \in {"done", "phase2"} /\ (step = "done" => stale = {})
  OBVIOUS
<1> HIDE DEF step
<1>10. /\ reader' \in Reader
       /\ reader'.step = step /\ reader'.direct = d /\ reader'.stale = stale /\ reader'.once = once
       /\ reader'.target = t /\ reader'.bound = bound /\ reader'.intact = reader.intact
  BY <1>1, <1>4, <1>7, <1>8, <1>9 DEF Reader, Steps
<1>11. current_revision' = R /\ views' = views
  BY <1>1 DEF current_revision
<1>12. AnswerTrue(reader.target)' /\ OnceTrue(reader.target)' /\ OnceFull(reader.target, reader.stale)'
  <2>1. \A k \in DOMAIN d : k \in bound /\ Reads(views, t, k, d[k])
    BY <1>4, <1>5, <1>7
  <2>2. \A k \in once \cap bound : k \in DOMAIN views[t] <=> k \in DOMAIN d \cup stale
    BY <1>5, <1>7
  <2> HIDE DEF t, bound
  <2> QED
    BY <1>10, <1>11, <2>1, <2>2 DEF AnswerTrue, OnceTrue, OnceFull, Reads
<1> HIDE DEF t, bound, R
<1> QED
  BY <1>2, <1>4, <1>9, <1>10, <1>11, <1>12 DEF ReaderInv

(* The scan of the log keeps the reader's invariant.                        *)
LEMMA Phase2Reads ==
    ASSUME TypeOK, HistoryInv, ReaderInv, RangePhase2
    PROVE  reader' \in Reader /\ ReaderInv'
<1> DEFINE R == current_revision
           t == reader.target
           bound == reader.bound
           scan == ScanWalRange(bound, t)
<1>1. /\ reader \in Reader /\ reader.step = "phase2"
      /\ reader' = [reader EXCEPT !.step = "phase3", !.scanned = scan, !.intact = floor <= t]
      /\ UNCHANGED <<next_rev, views>> /\ Len(views) = R
  BY DEF TypeOK, RangePhase2, store
<1>2. t \in 1 .. R /\ t \in Nat /\ bound \in SUBSET Keys
  BY <1>1 DEF ReaderInv, Reader
<1>3. /\ scan \in Versions
      /\ \A k : k \in DOMAIN scan <=>
            k \in bound /\ \E i \in 1 .. Len(wal) : IsLast(wal, k, t, i) /\ ~wal[i].deleted
      /\ \A k \in DOMAIN scan : \A i \in 1 .. Len(wal) :
            IsLast(wal, k, t, i) => scan[k] = wal[i].mod_revision
  BY <1>2, ScanDef
<1>4. LogTrue(wal, views) /\ LogFull(wal, views, floor)
  BY DEF HistoryInv, WalOk
<1>5. /\ AnswerTrue(t) /\ OnceTrue(t) /\ reader.stale \subseteq bound
      /\ OnceFull(t, reader.stale)
  BY <1>1 DEF ReaderInv
<1> HIDE DEF scan, R
<1>6. ASSUME NEW k \in DOMAIN scan PROVE k \in bound /\ Reads(views, t, k, scan[k])
  <2>1. PICK i \in 1 .. Len(wal) : IsLast(wal, k, t, i) /\ ~wal[i].deleted
    BY <1>3
  <2>2. k \in bound /\ k \in Keys /\ scan[k] = wal[i].mod_revision
    BY <1>2, <1>3, <2>1
  <2> QED
    BY <1>1, <1>2, <1>4, <2>1, <2>2 DEF LogTrue
<1>7. ASSUME floor <= t, NEW k \in bound, k \in DOMAIN views[t] PROVE k \in DOMAIN scan
  <2>1. k \in Keys
    BY <1>2
  <2>2. \E i \in 1 .. Len(wal) : IsLast(wal, k, t, i) /\ ~wal[i].deleted
    BY <1>1, <1>2, <1>4, <1>7, <2>1 DEF LogFull
  <2> QED
    BY <1>3, <2>2
<1>8. /\ reader' \in Reader
      /\ reader'.step = "phase3" /\ reader'.scanned = scan /\ reader'.intact = (floor <= t)
      /\ reader'.target = t /\ reader'.bound = bound /\ reader'.direct = reader.direct
      /\ reader'.once = reader.once /\ reader'.stale = reader.stale
  <2>1. (floor <= t) \in BOOLEAN
    BY <1>2 DEF TypeOK
  <2> QED
    BY <1>1, <1>3, <2>1 DEF Reader, Steps
<1>9. current_revision' = R /\ views' = views
  BY <1>1 DEF current_revision, R
<1>10. AnswerTrue(reader.target)' /\ OnceTrue(reader.target)' /\ OnceFull(reader.target, reader.stale)'
  BY <1>5, <1>8, <1>9 DEF AnswerTrue, OnceTrue, OnceFull, Reads
<1>11. ScanOk(reader.target)'
  <2> HIDE DEF t, bound
  <2> QED
    BY <1>6, <1>7, <1>8, <1>9 DEF ScanOk, Reads
<1> HIDE DEF t, bound
<1> QED
  BY <1>2, <1>5, <1>8, <1>9, <1>10, <1>11 DEF ReaderInv

(* Merging what both passes found keeps the reader's invariant.             *)
LEMMA MergeReads ==
    ASSUME TypeOK, HistoryInv, ReaderInv, RangeMerge
    PROVE  reader' \in Reader /\ ReaderInv'
<1> DEFINE R == current_revision
           t == reader.target
           bound == reader.bound
           scan == reader.scanned
           d == reader.direct
<1>1. /\ reader \in Reader /\ reader.step = "phase3" /\ UNCHANGED <<next_rev, views>>
  BY DEF TypeOK, RangeMerge, store
<1>2. PICK k \in reader.stale :
         reader' = [reader EXCEPT
                !.stale = @ \ {k},
                !.direct = CASE k \in DOMAIN reader.scanned -> With(@, k, reader.scanned[k])
                             [] k \notin DOMAIN reader.scanned /\ Alive(keys, k)
                                                -> With(@, k, keys[k].mod_revision)
                             [] OTHER -> @]
  BY DEF RangeMerge
<1>3. /\ t \in 1 .. R /\ bound \in SUBSET Keys /\ d \in Versions /\ scan \in Versions
      /\ t \in Nat
  BY <1>1 DEF ReaderInv, Reader
<1>4. /\ AnswerTrue(t) /\ (reader.intact => OnceTrue(t))
      /\ reader.stale \subseteq bound /\ (reader.intact => OnceFull(t, reader.stale))
      /\ ScanOk(t)
  BY <1>1 DEF ReaderInv
<1>5. k \in bound /\ k \in Keys
  BY <1>3, <1>4
<1>6. current_revision' = R /\ views' = views
  BY <1>1 DEF current_revision
(* What it takes that the answer d1 for the key k is right.                 *)
<1>7. ASSUME NEW d1 \in Versions, reader' = [reader EXCEPT !.stale = reader.stale \ {k}, !.direct = d1],
             \A j \in DOMAIN d1 : j # k => j \in DOMAIN d /\ d1[j] = d[j],
             \A j \in DOMAIN d : j \in DOMAIN d1,
             k \in DOMAIN d1 => (d1[k] <= t => Reads(views, t, k, d1[k])),
             reader.intact /\ k \in reader.once =>
                 /\ k \in DOMAIN d1 => Reads(views, t, k, d1[k])
                 /\ k \in DOMAIN d1 <=> k \in DOMAIN views[t]
      PROVE  reader' \in Reader /\ ReaderInv'
  <2>1. /\ reader' \in Reader
        /\ reader'.step = "phase3" /\ reader'.scanned = scan /\ reader'.intact = reader.intact
        /\ reader'.target = t /\ reader'.bound = bound /\ reader'.direct = d1
        /\ reader'.once = reader.once /\ reader'.stale = reader.stale \ {k}
    BY <1>1, <1>7 DEF Reader
  <2> HIDE DEF t, bound, d, scan, R
  <2>2. AnswerTrue(reader.target)'
    <3>1. \A j \in DOMAIN d : j \in bound /\ (d[j] <= t => Reads(views, t, j, d[j]))
      BY <1>4 DEF AnswerTrue, bound, d
    <3>2. \A j \in DOMAIN d1 : j \in bound /\ (d1[j] <= t => Reads(views, t, j, d1[j]))
      BY <1>5, <1>7, <3>1
    <3> QED
      BY <1>6, <2>1, <3>2 DEF AnswerTrue, Reads
  <2>3. ASSUME reader.intact PROVE OnceTrue(reader.target)' /\ OnceFull(reader.target, reader.stale)'
    <3>1. /\ \A j \in DOMAIN d \cap reader.once : Reads(views, t, j, d[j])
          /\ \A j \in reader.once \cap bound :
                j \in DOMAIN views[t] <=> j \in DOMAIN d \cup reader.stale
      BY <1>4, <2>3 DEF OnceTrue, OnceFull, bound, d
    <3>2. \A j \in DOMAIN d1 \cap reader.once : Reads(views, t, j, d1[j])
      BY <1>7, <2>3, <3>1
    <3>3. \A j \in reader.once \cap bound :
             j \in DOMAIN views[t] <=> j \in DOMAIN d1 \cup (reader.stale \ {k})
      BY <1>7, <2>3, <3>1
    <3> QED
      BY <1>6, <2>1, <3>2, <3>3 DEF OnceTrue, OnceFull, Reads
  <2>4. ScanOk(reader.target)'
    BY <1>4, <1>6, <2>1 DEF ScanOk, Reads, bound, scan
  <2>5. reader'.stale \subseteq bound
    BY <1>4, <2>1
  <2> QED
    BY <1>3, <1>6, <2>1, <2>2, <2>3, <2>4, <2>5 DEF ReaderInv
<1>8. reader.intact /\ k \in reader.once => k \in DOMAIN views[t] /\ k \in DOMAIN scan
  BY <1>4, <1>5 DEF OnceFull, ScanOk
<1>9. CASE k \in DOMAIN scan
  <2> DEFINE d1 == With(d, k, scan[k])
  <2>1. Reads(views, t, k, scan[k]) /\ scan[k] \in Nat
    BY <1>3, <1>4, <1>9, VersionsParts DEF ScanOk
  <2>2. d1 \in Versions
    BY <1>3, <1>5, <2>1, WithType
  <2>3. reader' = [reader EXCEPT !.stale = reader.stale \ {k}, !.direct = d1]
    BY <1>1, <1>2, <1>9 DEF Reader
  <2>4. /\ DOMAIN d1 = DOMAIN d \cup {k} /\ d1[k] = scan[k]
        /\ \A j \in DOMAIN d : j # k => d1[j] = d[j]
    BY DEF With
  <2> HIDE DEF d1, d, scan, t
  <2> QED
    BY <1>7, <1>8, <2>1, <2>2, <2>3, <2>4
<1>10. CASE k \notin DOMAIN scan /\ Alive(keys, k)
  <2> DEFINE v == keys[k].mod_revision
             d1 == With(d, k, v)
  <2>1. v \in Nat /\ (v <= t => Reads(views, t, k, v))
    <3>1. v \in Nat
      BY <1>5 DEF TypeOK, Tables, KeyState
    <3> QED
      BY <1>3, <1>5, <1>10, <3>1, EntryTells
  <2>2. d1 \in Versions
    BY <1>3, <1>5, <2>1, WithType
  <2>3. reader' = [reader EXCEPT !.stale = reader.stale \ {k}, !.direct = d1]
    BY <1>1, <1>2, <1>10 DEF Reader
  <2>4. /\ DOMAIN d1 = DOMAIN d \cup {k} /\ d1[k] = v
        /\ \A j \in DOMAIN d : j # k => d1[j] = d[j]
    BY DEF With
  <2> HIDE DEF d1, d, scan, t, v
  <2> QED
    BY <1>7, <1>8, <1>10, <2>1, <2>2, <2>3, <2>4
<1>11. CASE k \notin DOMAIN scan /\ ~Alive(keys, k)
  <2>1. reader' = [reader EXCEPT !.stale = reader.stale \ {k}, !.direct = d]
    BY <1>1, <1>2, <1>11 DEF Reader
  <2>2. k \in DOMAIN d => (d[k] <= t => Reads(views, t, k, d[k]))
    BY <1>4 DEF AnswerTrue
  <2> HIDE DEF d, scan, t
  <2> QED
    BY <1>3, <1>7, <1>8, <1>11, <2>1, <2>2
<1> QED
  BY <1>9, <1>10, <1>11

(* Merging the rest keeps the reader's invariant.                           *)
LEMMA RestReads ==
    ASSUME TypeOK, HistoryInv, ReaderInv, RangeMergeRest
    PROVE  reader' \in Reader /\ ReaderInv'
<1> DEFINE R == current_revision
           t == reader.target
           bound == reader.bound
           scan == reader.scanned
           d == reader.direct
           d1 == Joined(d, scan)
<1>1. /\ reader \in Reader /\ reader.step = "phase3" /\ UNCHANGED <<next_rev, views>>
      /\ reader.stale = {} /\ reader' = [reader EXCEPT !.step = "done", !.direct = d1]
  BY DEF TypeOK, RangeMergeRest, store, Reader
<1>2. /\ t \in 1 .. R /\ bound \in SUBSET Keys /\ d \in Versions /\ scan \in Versions
  BY <1>1 DEF ReaderInv, Reader
<1>3. /\ AnswerTrue(t) /\ (reader.intact => OnceTrue(t))
      /\ (reader.intact => OnceFull(t, {})) /\ ScanOk(t)
  BY <1>1 DEF ReaderInv
<1>4. d1 \in Versions
  <2>1. DOMAIN d \in SUBSET Keys /\ DOMAIN scan \in SUBSET Keys
        /\ (\A k \in DOMAIN d : d[k] \in Nat) /\ \A k \in DOMAIN scan : scan[k] \in Nat
    BY <1>2, VersionsParts
  <2>2. d1 \in [DOMAIN d \cup DOMAIN scan -> Nat] /\ DOMAIN d \cup DOMAIN scan \in SUBSET Keys
    BY <2>1 DEF Joined
  <2> QED
    BY <2>2, VersionsIntro
<1>5. /\ DOMAIN d1 = DOMAIN d \cup DOMAIN scan
      /\ \A k \in DOMAIN d : d1[k] = d[k]
      /\ \A k \in DOMAIN scan : k \notin DOMAIN d => d1[k] = scan[k]
  BY JoinedDef
<1> HIDE DEF d1
<1>6. /\ reader' \in Reader
      /\ reader'.step = "done" /\ reader'.intact = reader.intact
      /\ reader'.target = t /\ reader'.bound = bound /\ reader'.direct = d1
      /\ reader'.once = reader.once
  BY <1>1, <1>4 DEF Reader, Steps
<1>7. current_revision' = R /\ views' = views
  BY <1>1 DEF current_revision
<1>8. /\ \A k \in DOMAIN d : k \in bound /\ (d[k] <= t => Reads(views, t, k, d[k]))
      /\ \A k \in DOMAIN scan : k \in bound /\ Reads(views, t, k, scan[k])
  BY <1>3 DEF AnswerTrue, ScanOk
<1>9. reader.intact =>
         /\ \A k \in DOMAIN d \cap reader.once : Reads(views, t, k, d[k])
         /\ \A k \in reader.once \cap bound : k \in DOMAIN views[t] <=> k \in DOMAIN d
  BY <1>3 DEF OnceTrue, OnceFull
<1>10. \A k \in DOMAIN scan : k \in DOMAIN views[t]
  BY <1>8 DEF Reads
<1> HIDE DEF t, bound, scan, d, R
<1>11. AnswerTrue(reader.target)'
  BY <1>5, <1>6, <1>7, <1>8 DEF AnswerTrue, Reads
<1>12. ASSUME reader.intact PROVE OnceTrue(reader.target)' /\ OnceFull(reader.target, {})'
  <2>1. \A k \in DOMAIN d1 \cap reader.once : Reads(views, t, k, d1[k])
    BY <1>5, <1>8, <1>9, <1>12
  <2>2. \A k \in reader.once \cap bound : k \in DOMAIN views[t] <=> k \in DOMAIN d1
    BY <1>5, <1>9, <1>10, <1>12
  <2> QED
    BY <1>6, <1>7, <2>1, <2>2 DEF OnceTrue, OnceFull, Reads
<1> QED
  BY <1>2, <1>6, <1>7, <1>11, <1>12 DEF ReaderInv

-----------------------------------------------------------------------------
(* The invariant.                                                           *)

Inv == TypeOK /\ HistoryInv /\ ReaderInv

(* The invariant holds initially.                                           *)
LEMMA InitInv == Init => Inv
<1> SUFFICES ASSUME Init PROVE Inv
  OBVIOUS
<1>1. /\ keys = EmptyTable /\ next_rev = 1 /\ compact_rev = 0 /\ wal = <<>> /\ gc = NoGc
      /\ compactions = 0 /\ reader = Idle /\ views = <<>> /\ floor = 0
      /\ births = [k \in Keys |-> 0]
  BY DEF Init
<1>2. current_revision = 0 /\ Len(wal) = 0 /\ Len(views) = 0 /\ 1 .. 0 = {}
  BY <1>1 DEF current_revision
<1>3. TypeOK
  <2>1. wal \in Seq(Record) /\ views \in Seq(Versions)
    BY <1>1
  <2>2. gc \in [on: BOOLEAN, recs: Seq(Record), mark: Nat, rev: Nat]
    <3>1. <<>> \in Seq(Record)
      OBVIOUS
    <3> QED
      BY <1>1, <3>1 DEF NoGc
  <2> QED
    BY <1>1, <1>2, <2>1, <2>2, EmptyTableType, IdleType DEF TypeOK
<1>4. ASSUME NEW k \in Keys PROVE EntryOk(k)
  <2>1. keys[k] = Vacant /\ births[k] = 0
    BY <1>1 DEF EmptyTable
  <2> QED
    BY <1>2, <2>1 DEF EntryOk, Present, Vacant
<1>5. ViewsOk
  BY <1>2 DEF ViewsOk
<1>6. WalOk
  BY <1>1, <1>2 DEF WalOk, LogTrue, LogFull
<1>7. GcOk
  BY <1>1 DEF GcOk, NoGc
<1>8. ReaderInv
  <2>1. reader.step = "idle" /\ reader.intact
    BY <1>1 DEF Idle
  <2> QED
    BY <2>1 DEF ReaderInv
<1> QED
  BY <1>3, <1>4, <1>5, <1>6, <1>7, <1>8 DEF Inv, HistoryInv

(* A write keeps the invariant.                                             *)
LEMMA WriteInv ==
    ASSUME Inv, NEW table, NEW recs, Write(table, recs), Committed(table, recs)
    PROVE  Inv'
<1>1. TypeOK /\ HistoryInv /\ ReaderInv
  BY DEF Inv
<1>2. HistoryInv'
  BY <1>1, EntryWrite, ViewsWrite, WalWrite, GcWrite DEF HistoryInv
<1>3. /\ current_revision \in Nat /\ next_rev = current_revision + 1
      /\ current_revision' = current_revision + 1 /\ keys' = table /\ table \in Tables
      /\ views' \in Seq(Versions) /\ Len(views') = current_revision'
      /\ \A t \in 1 .. current_revision : views'[t] = views[t]
  BY <1>1, CommittedParts
<1>4. /\ next_rev' = next_rev + 1 /\ wal' = wal \o recs
      /\ UNCHANGED <<compact_rev, gc, compactions, reader, floor>>
      /\ births' = [k \in Keys |->
            IF Alive(table, k) /\ ~Alive(keys, k) THEN births[k] + 1 ELSE births[k]]
  BY DEF Committed
<1>5. TypeOK'
  <2>1. wal' \in Seq(Record)
    BY <1>1, <1>4 DEF TypeOK, Write
  <2>2. births' \in [Keys -> Nat]
    BY <1>1, <1>4 DEF TypeOK
  <2> QED
    BY <1>1, <1>3, <1>4, <2>1, <2>2 DEF TypeOK
<1>6. ReaderInv'
  <2>1. current_revision' \in Nat /\ current_revision <= current_revision'
    BY <1>3
  <2> QED
    BY <1>1, <1>3, <1>4, <2>1, ReaderFrame
<1> QED
  BY <1>2, <1>5, <1>6 DEF Inv

(* The compactions, of revisions and of the log, keep the invariant.        *)
LEMMA CompactInv ==
    ASSUME Inv,
           \/ \E rev \in 1 .. current_revision : Compact(rev)
           \/ CompactSnapshot \/ CompactSwap
    PROVE  Inv'
<1>1. TypeOK /\ HistoryInv /\ ReaderInv
  BY DEF Inv
<1>2. UNCHANGED <<keys, next_rev, reader, views, births>>
  BY DEF Compact, CompactSnapshot, CompactSwap
<1>3. current_revision' = current_revision /\ current_revision \in Nat
      /\ current_revision <= current_revision
  BY <1>1, <1>2 DEF current_revision, TypeOK
<1>4. ReaderInv'
  BY <1>1, <1>2, <1>3, ReaderFrame
<1>5. CASE \E rev \in 1 .. current_revision : Compact(rev)
  <2>1. compact_rev' \in Nat /\ UNCHANGED <<wal, gc, compactions, floor>>
    BY <1>5 DEF Compact
  <2>2. TypeOK'
    BY <1>1, <1>2, <1>3, <2>1 DEF TypeOK
  <2>3. HistoryInv'
    BY <1>1, <1>2, <1>3, <2>1 DEF HistoryInv, EntryOk, ViewsOk, WalOk, GcOk
  <2> QED
    BY <1>4, <2>2, <2>3 DEF Inv
<1>6. CASE CompactSnapshot
  <2>1. SnapshotRecords(keys) \in Seq(Record) /\ Len(wal) \in Nat
    BY <1>1, SnapshotDef DEF TypeOK
  <2>2. /\ gc' = [on |-> TRUE, recs |-> SnapshotRecords(keys), mark |-> Len(wal),
                  rev |-> current_revision]
        /\ compactions' = compactions + 1 /\ UNCHANGED <<compact_rev, wal, floor>>
    BY <1>6 DEF CompactSnapshot
  <2>3. gc' \in [on: BOOLEAN, recs: Seq(Record), mark: Nat, rev: Nat]
    BY <1>3, <2>1, <2>2
  <2>4. TypeOK'
    BY <1>1, <1>2, <1>3, <2>2, <2>3 DEF TypeOK
  <2> QED
    BY <1>1, <1>4, <1>6, <2>4, SnapshotHistory DEF Inv
<1>7. CASE CompactSwap
  <2>1. /\ wal' = gc.recs \o SubSeq(wal, gc.mark + 1, Len(wal)) /\ gc' = NoGc /\ floor' = gc.rev
        /\ UNCHANGED <<compact_rev, compactions>>
    BY <1>7 DEF CompactSwap
  <2>2. /\ gc.recs \in Seq(Record) /\ gc.mark \in Nat /\ gc.rev \in Nat /\ wal \in Seq(Record)
    BY <1>1 DEF TypeOK
  <2>3. SubSeq(wal, gc.mark + 1, Len(wal)) \in Seq(Record)
    BY <2>2
  <2>4. wal' \in Seq(Record)
    BY <2>1, <2>2, <2>3
  <2>5. gc' \in [on: BOOLEAN, recs: Seq(Record), mark: Nat, rev: Nat]
    <3>1. <<>> \in Seq(Record)
      OBVIOUS
    <3> QED
      BY <2>1, <3>1 DEF NoGc
  <2>6. TypeOK'
    BY <1>1, <1>2, <1>3, <2>1, <2>2, <2>4, <2>5 DEF TypeOK
  <2> QED
    BY <1>1, <1>4, <1>7, <2>6, SwapHistory DEF Inv
<1> QED
  BY <1>5, <1>6, <1>7

(* Every step of a read keeps the invariant.                                *)
LEMMA ReadInv ==
    ASSUME Inv,
           \/ \E bound \in Bounds : RangeCurrent(bound)
           \/ \E bound \in Bounds, target \in 1 .. MaxRev : RangeBegin(bound, target)
           \/ RangeCheckCompacted \/ RangePhase1 \/ RangePhase2 \/ RangeMerge \/ RangeMergeRest
           \/ RangeReturn
    PROVE  Inv'
<1>1. TypeOK /\ HistoryInv /\ ReaderInv
  BY DEF Inv
<1>2. UNCHANGED store
  BY DEF RangeCurrent, RangeBegin, RangeCheckCompacted, RangePhase1, RangePhase2, RangeMerge,
         RangeMergeRest, RangeReturn
<1>3. HistoryInv'
  BY <1>1, <1>2 DEF HistoryInv, EntryOk, ViewsOk, WalOk, GcOk, store, current_revision
<1>4. reader' \in Reader /\ ReaderInv'
  <2>1. ASSUME RangeCheckCompacted \/ RangeReturn PROVE reader' \in Reader /\ ReaderInv'
    BY <1>1, <2>1, SettleReads
  <2> QED
    BY <1>1, <2>1, BeginReads, Phase1Reads, Phase2Reads, MergeReads, RestReads
<1>5. TypeOK'
  BY <1>1, <1>2, <1>4 DEF TypeOK, store, current_revision
<1> QED
  BY <1>3, <1>4, <1>5 DEF Inv

(* Every step keeps the invariant.                                          *)
LEMMA NextInv == Inv /\ [Next]_vars => Inv'
<1> SUFFICES ASSUME Inv, [Next]_vars PROVE Inv'
  OBVIOUS
<1>1. TypeOK
  BY DEF Inv
<1>2. ASSUME NEW k \in Keys, Put(k) PROVE Inv'
  BY <1>1, <1>2, PutWrites, WriteInv DEF Put
<1>3. ASSUME NEW bound \in Bounds, DeleteRange(bound) PROVE Inv'
  BY <1>1, <1>3, DeleteWrites, WriteInv DEF DeleteRange
<1>4. ASSUME UNCHANGED vars PROVE Inv'
  BY <1>4 DEF Inv, TypeOK, HistoryInv, EntryOk, ViewsOk, WalOk, GcOk, ReaderInv, AnswerTrue,
              OnceTrue, OnceFull, ScanOk, current_revision, vars
<1> QED
  BY <1>2, <1>3, <1>4, CompactInv, ReadInv DEF Next

(* Spec => []OldVersionsTrue: whatever runs between the phases of a read, a *)
(* version in its answer that is not newer than the target revision is the  *)
(* one that could be read at it (Store::range, range_historical,            *)
(* scan_wal_range).                                                         *)
THEOREM OldVersionsAreTrue == Spec => []OldVersionsTrue
<1>1. Inv => OldVersionsTrue
  <2> SUFFICES ASSUME Inv, reader.step = "done", NEW k \in DOMAIN answer,
                      answer[k] <= reader.target
               PROVE  k \in DOMAIN truth /\ truth[k] = answer[k]
    BY DEF OldVersionsTrue
  <2>1. AnswerTrue(reader.target)
    BY DEF Inv, ReaderInv
  <2>2. k \in reader.bound /\ Reads(views, reader.target, k, answer[k])
    BY <2>1 DEF AnswerTrue, answer
  <2> QED
    BY <2>2 DEF Reads, truth, Within
<1> QED
  BY <1>1, InitInv, NextInv, PTL DEF Spec

(* Spec => []SingleLifetimeExact: for keys with one lifetime the answer of  *)
(* range_historical has all that could be read at the target revision and   *)
(* nothing else, unless the log had been compacted past it before the scan. *)
THEOREM SingleLifetimesAreExact == Spec => []SingleLifetimeExact
<1>1. Inv => SingleLifetimeExact
  <2> SUFFICES ASSUME Inv, reader.step = "done", reader.intact
               PROVE  Within(answer, reader.once) = Within(truth, reader.once)
    BY DEF SingleLifetimeExact
  <2> DEFINE t == reader.target
             a == Within(answer, reader.once)
             b == Within(truth, reader.once)
  <2>1. AnswerTrue(t) /\ OnceTrue(t) /\ OnceFull(t, {})
    BY DEF Inv, ReaderInv
  <2>2. DOMAIN a = DOMAIN answer \cap reader.once
        /\ DOMAIN b = DOMAIN views[t] \cap reader.bound \cap reader.once
    BY DEF truth, Within
  <2>3. DOMAIN a = DOMAIN b
    BY <2>1, <2>2 DEF AnswerTrue, OnceFull, answer
  <2>4. ASSUME NEW k \in DOMAIN a PROVE answer[k] = truth[k]
    <3>1. k \in DOMAIN answer \cap reader.once /\ k \in DOMAIN views[t] \cap reader.bound
      BY <2>2, <2>3
    <3>2. answer[k] = views[t][k]
      BY <2>1, <3>1 DEF OnceTrue, Reads, answer
    <3>3. truth[k] = views[t][k]
      BY <3>1 DEF truth, Within
    <3> QED
      BY <3>2, <3>3
  <2>5. a = [k \in DOMAIN a |-> answer[k]] /\ b = [k \in DOMAIN b |-> truth[k]]
    BY <2>2 DEF Within
  <2> QED
    BY <2>3, <2>4, <2>5
<1> QED
  BY <1>1, InitInv, NextInv, PTL DEF Spec
=============================================================================
