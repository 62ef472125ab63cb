---------------------------- MODULE KeyLogProofs ----------------------------
(***************************************************************************)
(* Proofs about the operators of KeyTable and KeyLog: the types of tables  *)
(* and records, what the replay of a log computes, and that the snapshot   *)
(* of a compaction replays to what was there to be read.                   *)
(***************************************************************************)
EXTENDS KeyLog, NatProofs, FiniteSetTheorems

-----------------------------------------------------------------------------
(* The operators on tables and records.                                     *)

(* A put, live or replayed, installs a well-typed entry.                     *)
LEMMA PutEntryType ==
    ASSUME NEW m \in Tables, NEW k \in Keys, NEW v \in Values, NEW l \in Nat,
           NEW rev \in Nat, NEW kv \in KvBytes
    PROVE  PutEntry(m, k, v, l, rev, kv) \in KeyState
BY DEF Tables, KeyState, PutEntry, NextCreate, NextVersion, Alive, Present

(* apply keeps the table a table.                                           *)
LEMMA ApplyPutType ==
    ASSUME NEW m \in Tables, NEW k \in Keys, NEW v \in Values, NEW l \in Nat,
           NEW rev \in Nat
    PROVE  ApplyPut(m, k, v, l, rev) \in Tables
<1> DEFINE kv == [create_revision |-> NextCreate(m, k, rev),
                  version |-> NextVersion(m, k)]
<1>1. kv \in KvBytes
  BY DEF Tables, KeyState, KvBytes, NextCreate, NextVersion, Alive, Present
<1>2. PutEntry(m, k, v, l, rev, kv) \in KeyState
  BY <1>1, PutEntryType
<1> QED
  BY <1>2 DEF ApplyPut, Tables

(* A batch of deletes keeps the table a table.                              *)
LEMMA ApplyDeletesType ==
    ASSUME NEW m \in Tables, NEW ks, NEW rev \in Nat
    PROVE  ApplyDeletes(m, ks, rev) \in Tables
BY DEF ApplyDeletes, Tables, KeyState

(* Replaying a record keeps the table a table.                              *)
LEMMA ApplyRecordType ==
    ASSUME NEW m \in Tables, NEW rec \in Record
    PROVE  ApplyRecord(m, rec) \in Tables
<1> DEFINE kv == [create_revision |-> rec.create_revision, version |-> rec.version]
<1>1. CASE rec.deleted
  BY <1>1 DEF ApplyRecord, ApplyDelete, Tables, KeyState, Record
<1>2. CASE ~rec.deleted
  <2>1. kv \in KvBytes
    BY DEF Record, KvBytes
  <2>2. PutEntry(m, rec.key, rec.value, rec.lease, rec.mod_revision, kv) \in KeyState
    BY <2>1, PutEntryType DEF Record
  <2> QED
    BY <1>2, <2>2 DEF ApplyRecord, Tables, Record
<1> QED
  BY <1>1, <1>2

(* The records put_at and the batches append are records.                   *)
LEMMA RecordType ==
    ASSUME NEW m \in Tables, NEW k \in Keys, NEW v \in Values, NEW l \in Nat,
           NEW rev \in Nat
    PROVE  PutRecord(m, k, v, l, rev) \in Record /\ DeleteRecord(m, k, rev) \in Record
BY DEF PutRecord, DeleteRecord, Record, Tables, KeyState, NextCreate, NextVersion,
       Alive, Present

-----------------------------------------------------------------------------
(* The replay of a log.                                                     *)

(* The recursion of ReplaySteps has a solution.                             *)
LEMMA ReplayExists ==
    ASSUME NEW log, NEW n \in Nat
    PROVE  \E t : t = [i \in 0 .. n |->
                        IF i = 0 THEN EmptyTable ELSE ApplyRecord(t[i - 1], log[i])]
<1> DEFINE Step(t, i) == IF i = 0 THEN EmptyTable ELSE ApplyRecord(t[i - 1], log[i])
           T == {k \in Nat : \E t : t = [i \in 0 .. k |-> Step(t, i)]}
<1>1. 0 \in T
  <2> DEFINE u == [i \in 0 .. 0 |-> EmptyTable]
  <2>1. u = [i \in 0 .. 0 |-> Step(u, i)]
    OBVIOUS
  <2> QED
    BY <2>1
<1>2. ASSUME NEW k \in Nat, k \in T PROVE k + 1 \in T
  <2>1. PICK t : t = [i \in 0 .. k |-> Step(t, i)]
    BY <1>2
  <2> DEFINE u == [i \in 0 .. k + 1 |->
                      IF i = k + 1 THEN ApplyRecord(t[k], log[k + 1]) ELSE t[i]]
  <2>2. ASSUME NEW i \in 0 .. k + 1 PROVE u[i] = Step(u, i)
    <3>1. CASE i = k + 1
      <4>1. u[i] = ApplyRecord(t[k], log[k + 1]) /\ u[i - 1] = t[k] /\ i # 0
        BY <3>1
      <4> QED
        BY <3>1, <4>1
    <3>2. CASE i # k + 1
      <4>1. i \in 0 .. k /\ u[i] = t[i] /\ (i # 0 => i - 1 \in 0 .. k + 1 /\ u[i - 1] = t[i - 1])
        BY <3>2
      <4>2. t[i] = Step(t, i)
        BY <2>1, <4>1
      <4> QED
        BY <4>1, <4>2
    <3> QED
      BY <3>1, <3>2
  <2>3. u = [i \in 0 .. k + 1 |-> Step(u, i)]
    BY <2>2
  <2>4. \E t1 : t1 = [i \in 0 .. k + 1 |-> Step(t1, i)]
    <3> HIDE DEF u, Step
    <3> QED
      BY <2>3
  <2> QED
    BY <2>4
<1>3. T = Nat
  <2> HIDE DEF T
  <2>1. T \in SUBSET Nat
    BY DEF T
  <2> QED
    BY <1>1, <1>2, <2>1, InductionOnSet
<1> QED
  BY <1>3

(* The table after each record of a log.                                    *)
LEMMA ReplayStepsDef ==
    ASSUME NEW log, Len(log) \in Nat
    PROVE  /\ ReplaySteps(log)[0] = EmptyTable
           /\ \A i \in 1 .. Len(log) :
                 ReplaySteps(log)[i] = ApplyRecord(ReplaySteps(log)[i - 1], log[i])
<1> DEFINE Good(t) == t = [i \in 0 .. Len(log) |->
                       IF i = 0 THEN EmptyTable ELSE ApplyRecord(t[i - 1], log[i])]
<1>1. \E t : Good(t)
  BY ReplayExists
<1>2. ReplaySteps(log) = CHOOSE t : Good(t)
  BY DEF ReplaySteps
<1>3. Good(ReplaySteps(log))
  BY <1>1, <1>2
<1> QED
  BY <1>3

(* The replay of a longer log begins with that of the shorter one.          *)
LEMMA ReplayAppend ==
    ASSUME NEW S, NEW log \in Seq(S), NEW rec \in S
    PROVE  Replay(Append(log, rec)) = ApplyRecord(Replay(log), rec)
<1> DEFINE n == Len(log)
           long == Append(log, rec)
           T == {k \in Nat : k <= n => ReplaySteps(long)[k] = ReplaySteps(log)[k]}
<1>1. /\ n \in Nat /\ Len(long) = n + 1 /\ long[n + 1] = rec
      /\ \A i \in 1 .. n : long[i] = log[i]
  OBVIOUS
<1> HIDE DEF n, long
<1>2. /\ ReplaySteps(log)[0] = EmptyTable
      /\ \A i \in 1 .. n : ReplaySteps(log)[i] = ApplyRecord(ReplaySteps(log)[i - 1], log[i])
  BY <1>1, ReplayStepsDef DEF n
<1>3. /\ ReplaySteps(long)[0] = EmptyTable
      /\ \A i \in 1 .. n + 1 :
            ReplaySteps(long)[i] = ApplyRecord(ReplaySteps(long)[i - 1], long[i])
  BY <1>1, ReplayStepsDef
<1>4. 0 \in T
  BY <1>2, <1>3
<1>5. ASSUME NEW k \in Nat, k \in T PROVE k + 1 \in T
  <2>1. SUFFICES ASSUME k + 1 <= n
                 PROVE  ReplaySteps(long)[k + 1] = ReplaySteps(log)[k + 1]
    OBVIOUS
  <2>2. k + 1 \in 1 .. n /\ k + 1 \in 1 .. n + 1 /\ (k + 1) - 1 = k
    BY <1>1, <2>1
  <2>3. ReplaySteps(long)[k] = ReplaySteps(log)[k]
    BY <1>1, <1>5, <2>1
  <2>4. ReplaySteps(log)[k + 1] = ApplyRecord(ReplaySteps(log)[k], log[k + 1])
    BY <1>2, <2>2
  <2>5. ReplaySteps(long)[k + 1] = ApplyRecord(ReplaySteps(long)[k], long[k + 1])
    BY <1>3, <2>2
  <2> QED
    BY <1>1, <2>2, <2>3, <2>4, <2>5
<1>6. T = Nat
  <2> HIDE DEF T
  <2>1. T \in SUBSET Nat
    BY DEF T
  <2> QED
    BY <1>4, <1>5, <2>1, InductionOnSet
<1>7. ReplaySteps(long)[n] = ReplaySteps(log)[n]
  BY <1>1, <1>6
<1>8. n + 1 \in 1 .. n + 1 /\ (n + 1) - 1 = n
  BY <1>1
<1>9. ReplaySteps(long)[n + 1] = ApplyRecord(ReplaySteps(long)[n], long[n + 1])
  BY <1>3, <1>8
<1> QED
  BY <1>1, <1>7, <1>9 DEF Replay, n, long

(* An empty log replays to the empty table.                                 *)
LEMMA ReplayEmpty == Replay(<<>>) = EmptyTable
<1>1. Len(<<>>) = 0
  OBVIOUS
<1> QED
  BY <1>1, ReplayStepsDef DEF Replay

(* Facts that hold of the empty table and that a record keeps hold of every *)
(* replay: it is a table, and none of its revisions exceeds all of those in *)
(* the log.                                                                 *)
LEMMA EmptyTableType == EmptyTable \in Tables
BY ValuesAssumption DEF EmptyTable, Tables, Vacant, KeyState, KvBytes

(* A replayed table has no revision above those of its log.                 *)
LEMMA ReplayType ==
    ASSUME NEW log \in Seq(Record), NEW top \in Nat,
           \A i \in 1 .. Len(log) : log[i].mod_revision <= top
    PROVE  Replay(log) \in Tables /\ \A k \in Keys : Replay(log)[k].mod_revision <= top
<1> DEFINE Ok(m) == m \in Tables /\ \A k \in Keys : m[k].mod_revision <= top
           T == {n \in Nat : n <= Len(log) => Ok(ReplaySteps(log)[n])}
<1>1. /\ ReplaySteps(log)[0] = EmptyTable
      /\ \A i \in 1 .. Len(log) :
            ReplaySteps(log)[i] = ApplyRecord(ReplaySteps(log)[i - 1], log[i])
  BY ReplayStepsDef
<1>2. 0 \in T
  <2>1. Ok(EmptyTable)
    BY EmptyTableType DEF EmptyTable, Vacant
  <2> QED
    BY <1>1, <2>1
<1>3. ASSUME NEW n \in Nat, n \in T PROVE n + 1 \in T
  <2>1. SUFFICES ASSUME n + 1 <= Len(log) PROVE Ok(ReplaySteps(log)[n + 1])
    OBVIOUS
  <2> DEFINE m == ReplaySteps(log)[n]
             rec == log[n + 1]
  <2>2. Ok(m) /\ rec \in Record /\ rec.mod_revision <= top
    BY <1>3, <2>1
  <2>3. ReplaySteps(log)[n + 1] = ApplyRecord(m, rec)
    <3>1. n + 1 \in 1 .. Len(log) /\ (n + 1) - 1 = n
      BY <2>1
    <3> QED
      BY <1>1, <3>1
  <2> HIDE DEF m, rec
  <2>4. ApplyRecord(m, rec) \in Tables
    BY <2>2, ApplyRecordType
  <2>5. \A k \in Keys : ApplyRecord(m, rec)[k].mod_revision <= top
    BY <2>2 DEF ApplyRecord, ApplyDelete, PutEntry, Tables, KeyState, Record
  <2> QED
    BY <2>3, <2>4, <2>5
<1>4. T = Nat
  <2> HIDE DEF T
  <2>1. T \in SUBSET Nat
    BY DEF T
  <2> QED
    BY <1>2, <1>3, <2>1, InductionOnSet
<1> QED
  BY <1>4 DEF Replay

(* Replaying a log gives a table.                                           *)
LEMMA ReplayIsTable ==
    ASSUME NEW log \in Seq(Record)
    PROVE  Replay(log) \in Tables
<1> DEFINE T == {n \in Nat : n <= Len(log) => ReplaySteps(log)[n] \in Tables}
<1>1. /\ ReplaySteps(log)[0] = EmptyTable
      /\ \A i \in 1 .. Len(log) :
            ReplaySteps(log)[i] = ApplyRecord(ReplaySteps(log)[i - 1], log[i])
  BY ReplayStepsDef
<1>2. 0 \in T
  BY <1>1, EmptyTableType
<1>3. ASSUME NEW n \in Nat, n \in T PROVE n + 1 \in T
  <2>1. SUFFICES ASSUME n + 1 <= Len(log) PROVE ReplaySteps(log)[n + 1] \in Tables
    OBVIOUS
  <2>2. n + 1 \in 1 .. Len(log) /\ (n + 1) - 1 = n /\ log[n + 1] \in Record
    BY <2>1
  <2>3. ReplaySteps(log)[n] \in Tables
    BY <1>3, <2>1
  <2>4. ReplaySteps(log)[n + 1] = ApplyRecord(ReplaySteps(log)[n], log[n + 1])
    BY <1>1, <2>2
  <2> QED
    BY <2>2, <2>3, <2>4, ApplyRecordType
<1>4. T = Nat
  <2> HIDE DEF T
  <2>1. T \in SUBSET Nat
    BY DEF T
  <2> QED
    BY <1>2, <1>3, <2>1, InductionOnSet
<1> QED
  BY <1>4 DEF Replay

(* The highest revision of a log is one of those in it, or 0.               *)
LEMMA LastRevBound ==
    ASSUME NEW log \in Seq(Record), NEW top \in Nat,
           \A i \in 1 .. Len(log) : log[i].mod_revision <= top
    PROVE  /\ LastRev(log) \in 0 .. top
           /\ \A i \in 1 .. Len(log) : log[i].mod_revision <= LastRev(log)
<1> DEFINE revs == {0} \cup {log[i].mod_revision : i \in DOMAIN log}
           gaps == {top - r : r \in revs}
<1>1. DOMAIN log = 1 .. Len(log) /\ \A i \in 1 .. Len(log) : log[i].mod_revision \in Nat
  <2>1. DOMAIN log = 1 .. Len(log) /\ \A i \in 1 .. Len(log) : log[i] \in Record
    OBVIOUS
  <2> QED
    BY <2>1 DEF Record
<1>2. revs \subseteq 0 .. top /\ 0 \in revs
  BY <1>1
<1>3. \A i \in 1 .. Len(log) : log[i].mod_revision \in revs
  BY <1>1
<1>4. LastRev(log) = CHOOSE rev \in revs : \A r \in revs : r <= rev
  BY DEF LastRev
<1> HIDE DEF revs
<1>5. gaps \in SUBSET Nat /\ gaps # {}
  BY <1>2
<1>6. PICK g \in gaps : \A h \in gaps : g <= h
  BY <1>5, NatLeast
<1>7. PICK rev \in revs : g = top - rev
  BY <1>6
<1>8. ASSUME NEW r \in revs PROVE r <= rev
  <2>1. top - r \in gaps /\ r \in 0 .. top /\ rev \in 0 .. top
    BY <1>2
  <2>2. top - rev <= top - r
    BY <1>6, <1>7, <2>1
  <2> QED
    BY <2>1, <2>2
<1> HIDE DEF gaps
<1>9. LastRev(log) \in revs /\ \A r \in revs : r <= LastRev(log)
  BY <1>4, <1>7, <1>8
<1> QED
  BY <1>2, <1>3, <1>9

-----------------------------------------------------------------------------
(* What can be read after a replay.                                         *)

(* The view of a table has its live keys with their revisions.              *)
LEMMA ViewDef ==
    ASSUME NEW m
    PROVE  /\ DOMAIN View(m) = AliveKeys(m)
           /\ \A k \in AliveKeys(m) : View(m)[k] = m[k].mod_revision
BY DEF View

(* Two tables look the same when they have the same live keys with the same *)
(* revisions.                                                               *)
LEMMA SameView ==
    ASSUME NEW m1, NEW m2
    PROVE  View(m1) = View(m2) <=>
              /\ AliveKeys(m1) = AliveKeys(m2)
              /\ \A k \in AliveKeys(m1) : m1[k].mod_revision = m2[k].mod_revision
<1>1. ASSUME View(m1) = View(m2)
      PROVE  /\ AliveKeys(m1) = AliveKeys(m2)
             /\ \A k \in AliveKeys(m1) : m1[k].mod_revision = m2[k].mod_revision
  <2>1. AliveKeys(m1) = AliveKeys(m2)
    BY <1>1, ViewDef
  <2>2. ASSUME NEW k \in AliveKeys(m1) PROVE m1[k].mod_revision = m2[k].mod_revision
    <3>1. View(m1)[k] = m1[k].mod_revision /\ View(m2)[k] = m2[k].mod_revision
      BY <2>1, ViewDef
    <3> QED
      BY <1>1, <3>1
  <2> QED
    BY <2>1, <2>2
<1>2. ASSUME AliveKeys(m1) = AliveKeys(m2),
             \A k \in AliveKeys(m1) : m1[k].mod_revision = m2[k].mod_revision
      PROVE  View(m1) = View(m2)
  BY <1>2 DEF View
<1> QED
  BY <1>1, <1>2

(* What a record does to a table, as far as it can be read.                 *)
LEMMA RecordView ==
    ASSUME NEW m \in Tables, NEW rec \in Record
    PROVE  /\ AliveKeys(ApplyRecord(m, rec)) =
                 IF rec.deleted THEN
                     IF rec.mod_revision = 0 THEN AliveKeys(m) ELSE AliveKeys(m) \ {rec.key}
                 ELSE AliveKeys(m) \cup {rec.key}
           /\ ~rec.deleted => ApplyRecord(m, rec)[rec.key].mod_revision = rec.mod_revision
           /\ \A k \in Keys : k # rec.key \/ rec.deleted
                 => ApplyRecord(m, rec)[k].mod_revision = m[k].mod_revision
<1> DEFINE n == ApplyRecord(m, rec)
<1>0. rec.key \in Keys /\ rec.mod_revision \in Nat
  BY DEF Record
<1>1. CASE rec.deleted
  <2>1. n = IF Alive(m, rec.key)
            THEN [m EXCEPT ![rec.key].delete_revision = rec.mod_revision] ELSE m
    BY <1>1 DEF ApplyRecord, ApplyDelete
  <2> HIDE DEF n
  <2>2. \A k \in Keys : n[k].mod_revision = m[k].mod_revision
    BY <1>0, <2>1 DEF Tables, KeyState
  <2>3. \A k \in Keys \ {rec.key} : n[k] = m[k]
    BY <1>0, <2>1 DEF Tables, KeyState
  <2>4. Alive(n, rec.key) <=> Alive(m, rec.key) /\ rec.mod_revision = 0
    BY <1>0, <2>1 DEF Tables, KeyState, Alive, Present
  <2>5. \A k \in Keys \ {rec.key} : Alive(n, k) <=> Alive(m, k)
    BY <2>3 DEF Alive, Present
  <2>6. AliveKeys(n) = IF rec.mod_revision = 0 THEN AliveKeys(m) ELSE AliveKeys(m) \ {rec.key}
    BY <1>0, <2>4, <2>5 DEF AliveKeys
  <2>7. /\ AliveKeys(n) = IF rec.deleted THEN
                             IF rec.mod_revision = 0 THEN AliveKeys(m)
                             ELSE AliveKeys(m) \ {rec.key}
                         ELSE AliveKeys(m) \cup {rec.key}
        /\ \A k \in Keys : k # rec.key \/ rec.deleted => n[k].mod_revision = m[k].mod_revision
    BY <1>1, <2>2, <2>6
  <2> QED
    BY <1>1, <2>7 DEF n
<1>2. CASE ~rec.deleted
  <2>1. \A k \in Keys \ {rec.key} : n[k] = m[k]
    BY <1>0, <1>2 DEF ApplyRecord, Tables
  <2>2. /\ n[rec.key].mod_revision = rec.mod_revision /\ n[rec.key].delete_revision = 0
        /\ n[rec.key].version = NextVersion(m, rec.key)
    BY <1>0, <1>2 DEF ApplyRecord, Tables, PutEntry
  <2>3. NextVersion(m, rec.key) # 0
    BY <1>0 DEF NextVersion, Tables, KeyState
  <2> HIDE DEF n
  <2> QED
    BY <1>0, <1>2, <2>1, <2>2, <2>3 DEF AliveKeys, Alive, Present, n
<1> QED
  BY <1>1, <1>2

(* So it does the same to two tables that look the same.                    *)
LEMMA RecordSameView ==
    ASSUME NEW m1 \in Tables, NEW m2 \in Tables, NEW rec \in Record, View(m1) = View(m2)
    PROVE  View(ApplyRecord(m1, rec)) = View(ApplyRecord(m2, rec))
<1> DEFINE n1 == ApplyRecord(m1, rec)
           n2 == ApplyRecord(m2, rec)
<1>0. /\ AliveKeys(m1) = AliveKeys(m2)
      /\ \A k \in AliveKeys(m1) : m1[k].mod_revision = m2[k].mod_revision
  BY SameView
<1>1. AliveKeys(n1) = AliveKeys(n2)
  <2>1. CASE rec.deleted
    BY <1>0, <2>1, RecordView
  <2>2. CASE ~rec.deleted
    BY <1>0, <2>2, RecordView
  <2> QED
    BY <2>1, <2>2
<1>2. ASSUME NEW k \in AliveKeys(n1) PROVE n1[k].mod_revision = n2[k].mod_revision
  <2>0. k \in Keys
    BY DEF AliveKeys
  <2>1. CASE k = rec.key /\ ~rec.deleted
    BY <2>1, RecordView
  <2>2. CASE ~(k = rec.key /\ ~rec.deleted)
    <3>1. k \in AliveKeys(m1)
      BY <2>2, RecordView
    <3>2. n1[k].mod_revision = m1[k].mod_revision /\ n2[k].mod_revision = m2[k].mod_revision
      BY <2>0, <2>2, RecordView
    <3> QED
      BY <1>0, <3>1, <3>2
  <2> QED
    BY <2>1, <2>2
<1> HIDE DEF n1, n2
<1>3. View(n1) = View(n2)
  BY <1>1, <1>2, SameView
<1> QED
  BY <1>3 DEF n1, n2

-----------------------------------------------------------------------------
(* The snapshot of a compaction.                                            *)

(* Every set of keys can be put in order.                                   *)
LEMMA OrderExists ==
    ASSUME NEW n \in Nat, NEW ks \in SUBSET Keys, Cardinality(ks) = n
    PROVE  \E s \in [1 .. n -> ks] : \A i, j \in 1 .. n : i < j => s[i] < s[j]
<1> DEFINE Ordered(s, k) == \A i, j \in 1 .. k : i < j => s[i] < s[j]
           T == {k \in Nat : \A S \in SUBSET Keys :
                    Cardinality(S) = k => \E s \in [1 .. k -> S] : Ordered(s, k)}
<1>0. ASSUME NEW S \in SUBSET Keys PROVE S \subseteq Nat /\ IsFiniteSet(S)
  BY KeysAssumption, FS_Subset
<1>1. 0 \in T
  <2>1. ASSUME NEW S \in SUBSET Keys PROVE \E s \in [1 .. 0 -> S] : Ordered(s, 0)
    <3>1. [i \in 1 .. 0 |-> 0] \in [1 .. 0 -> S] /\ Ordered([i \in 1 .. 0 |-> 0], 0)
      OBVIOUS
    <3> QED
      BY <3>1
  <2> QED
    BY <2>1
<1>2. ASSUME NEW k \in Nat, k \in T PROVE k + 1 \in T
  <2>1. SUFFICES ASSUME NEW S \in SUBSET Keys, Cardinality(S) = k + 1
                 PROVE  \E s \in [1 .. k + 1 -> S] : Ordered(s, k + 1)
    OBVIOUS
  <2>2. S # {} /\ S \in SUBSET Nat
    BY <1>0, <2>1, FS_EmptySet
  <2>3. PICK x \in S : \A y \in S : x <= y
    BY <2>2, NatLeast
  <2>4. Cardinality(S \ {x}) = k /\ S \ {x} \in SUBSET Keys
    BY <1>0, <2>1, <2>3, FS_RemoveElement
  <2>5. PICK s \in [1 .. k -> S \ {x}] : Ordered(s, k)
    BY <1>2, <2>4
  <2> DEFINE u == [i \in 1 .. k + 1 |-> IF i = 1 THEN x ELSE s[i - 1]]
  <2>6. u \in [1 .. k + 1 -> S]
    BY <2>3, <2>5
  <2>7. ASSUME NEW i \in 1 .. k + 1, NEW j \in 1 .. k + 1, i < j PROVE u[i] < u[j]
    <3>1. j # 1 /\ j - 1 \in 1 .. k /\ u[j] = s[j - 1] /\ s[j - 1] \in S \ {x}
      BY <2>5, <2>7
    <3>2. CASE i = 1
      <4>1. u[i] = x /\ x <= s[j - 1] /\ x # s[j - 1]
        BY <2>3, <3>1, <3>2
      <4>2. x \in Nat /\ s[j - 1] \in Nat
        BY <2>2, <3>1
      <4> HIDE DEF u
      <4> QED
        BY <3>1, <4>1, <4>2
    <3>3. CASE i # 1
      <4>1. i - 1 \in 1 .. k /\ u[i] = s[i - 1] /\ i - 1 < j - 1
        BY <2>7, <3>3
      <4> HIDE DEF u
      <4> QED
        BY <2>5, <3>1, <4>1
    <3> QED
      BY <3>2, <3>3
  <2> QED
    BY <2>6, <2>7
<1>3. T = Nat
  <2> HIDE DEF T
  <2>1. T \in SUBSET Nat
    BY DEF T
  <2> QED
    BY <1>1, <1>2, <2>1, InductionOnSet
<1> QED
  BY <1>3

(* An increasing sequence of as many keys as there are has all of them.     *)
LEMMA IncreasingOnto ==
    ASSUME NEW ks \in SUBSET Keys, NEW s \in [1 .. Cardinality(ks) -> ks],
           \A i, j \in 1 .. Cardinality(ks) : i < j => s[i] < s[j]
    PROVE  /\ Cardinality(ks) \in Nat
           /\ \A i, j \in 1 .. Cardinality(ks) : s[i] = s[j] => i = j
           /\ \A k \in ks : \E i \in 1 .. Cardinality(ks) : s[i] = k
<1> DEFINE n == Cardinality(ks)
<1>1. IsFiniteSet(ks) /\ n \in Nat
  BY KeysAssumption, FS_Subset, FS_CardinalityType
<1>2. \A i \in 1 .. n : s[i] \in Nat
  BY KeysAssumption
<1>3. ASSUME NEW i \in 1 .. n, NEW j \in 1 .. n, s[i] = s[j] PROVE i = j
  BY <1>1, <1>2, <1>3
<1>4. s \in Injection(1 .. n, ks)
  BY <1>3 DEF Injection, IsInjective
<1>5. Cardinality(1 .. n) = n
  BY <1>1, FS_Interval
<1>6. s \in Surjection(1 .. n, ks)
  BY <1>1, <1>4, <1>5, FS_Injection
<1> QED
  BY <1>1, <1>3, <1>6 DEF Surjection

(* A set of keys in order: each key once, ascending.                        *)
LEMMA InOrderDef ==
    ASSUME NEW ks \in SUBSET Keys
    PROVE  /\ Cardinality(ks) \in Nat
           /\ InOrder(ks) \in [1 .. Cardinality(ks) -> ks]
           /\ \A i, j \in 1 .. Cardinality(ks) : i < j => InOrder(ks)[i] < InOrder(ks)[j]
           /\ \A k \in ks : \E i \in 1 .. Cardinality(ks) : InOrder(ks)[i] = k
<1> DEFINE n == Cardinality(ks)
           s == InOrder(ks)
<1>1. IsFiniteSet(ks) /\ n \in Nat
  BY KeysAssumption, FS_Subset, FS_CardinalityType
<1>2. \E t \in [1 .. n -> ks] : \A i, j \in DOMAIN t : i < j => t[i] < t[j]
  BY <1>1, OrderExists
<1>3. s \in [1 .. n -> ks] /\ \A i, j \in DOMAIN s : i < j => s[i] < s[j]
  BY <1>2 DEF InOrder
<1> HIDE DEF n, s
<1>4. \A i, j \in 1 .. n : i < j => s[i] < s[j]
  BY <1>3
<1>5. \A k \in ks : \E i \in 1 .. n : s[i] = k
  BY <1>3, <1>4, IncreasingOnto DEF n
<1> QED
  BY <1>1, <1>3, <1>4, <1>5 DEF n, s

(* The snapshot has one put for each live key.                              *)
LEMMA SnapshotDef ==
    ASSUME NEW m \in Tables
    PROVE  LET live == InOrder(AliveKeys(m))
               n == Cardinality(AliveKeys(m))
               snap == SnapshotRecords(m)
           IN  /\ snap \in Seq(Record) /\ Len(snap) = n
               /\ \A i \in 1 .. n : /\ ~snap[i].deleted /\ snap[i].key = live[i]
                                    /\ snap[i].mod_revision = m[live[i]].mod_revision
<1> DEFINE live == InOrder(AliveKeys(m))
           n == Cardinality(AliveKeys(m))
           snap == SnapshotRecords(m)
<1>1. n \in Nat /\ live \in [1 .. n -> AliveKeys(m)] /\ AliveKeys(m) \subseteq Keys
  BY InOrderDef DEF AliveKeys
<1>2. DOMAIN live = 1 .. n
  BY <1>1
<1>3. snap = [i \in 1 .. n |->
                [deleted |-> FALSE, key |-> live[i], value |-> m[live[i]].value,
                 create_revision |-> m[live[i]].create_revision,
                 mod_revision |-> m[live[i]].mod_revision,
                 version |-> m[live[i]].version, lease |-> m[live[i]].lease]]
  BY <1>2 DEF SnapshotRecords
<1> HIDE DEF live, n, snap
<1>4. ASSUME NEW i \in 1 .. n
      PROVE  /\ snap[i] \in Record /\ ~snap[i].deleted /\ snap[i].key = live[i]
             /\ snap[i].mod_revision = m[live[i]].mod_revision
  <2>1. live[i] \in Keys /\ m[live[i]] \in KeyState
    BY <1>1 DEF Tables
  <2>2. snap[i] = [deleted |-> FALSE, key |-> live[i], value |-> m[live[i]].value,
                   create_revision |-> m[live[i]].create_revision,
                   mod_revision |-> m[live[i]].mod_revision,
                   version |-> m[live[i]].version, lease |-> m[live[i]].lease]
    BY <1>3
  <2>3. snap[i] \in Record
    BY <2>1, <2>2 DEF Record, KeyState
  <2> QED
    BY <2>2, <2>3
<1>5. snap \in Seq(Record) /\ Len(snap) = n
  BY <1>1, <1>3, <1>4
<1> QED
  BY <1>4, <1>5 DEF live, n, snap

(* Its replay shows what the table shows.                                   *)
LEMMA SnapshotView ==
    ASSUME NEW m \in Tables
    PROVE  View(Replay(SnapshotRecords(m))) = View(m)
<1> DEFINE live == InOrder(AliveKeys(m))
           n == Cardinality(AliveKeys(m))
           snap == SnapshotRecords(m)
           Ok(t, k) == /\ t \in Tables
                       /\ AliveKeys(t) = {live[j] : j \in 1 .. k}
                       /\ \A j \in 1 .. k : t[live[j]].mod_revision = m[live[j]].mod_revision
           T == {k \in Nat : k <= n => Ok(ReplaySteps(snap)[k], k)}
<1>1. /\ n \in Nat /\ live \in [1 .. n -> AliveKeys(m)]
      /\ \A k \in AliveKeys(m) : \E i \in 1 .. n : live[i] = k
  BY InOrderDef DEF AliveKeys
<1>2. /\ snap \in Seq(Record) /\ Len(snap) = n
      /\ \A i \in 1 .. n : /\ ~snap[i].deleted /\ snap[i].key = live[i]
                           /\ snap[i].mod_revision = m[live[i]].mod_revision
  BY SnapshotDef
<1> HIDE DEF live, n, snap
<1>3. /\ ReplaySteps(snap)[0] = EmptyTable
      /\ \A i \in 1 .. n : ReplaySteps(snap)[i] = ApplyRecord(ReplaySteps(snap)[i - 1], snap[i])
  BY <1>1, <1>2, ReplayStepsDef
<1>4. 0 \in T
  <2>1. AliveKeys(EmptyTable) = {}
    BY DEF AliveKeys, Alive, Present, EmptyTable, Vacant
  <2>2. {live[j] : j \in 1 .. 0} = {} /\ 1 .. 0 = {}
    OBVIOUS
  <2>3. Ok(EmptyTable, 0)
    BY <2>1, <2>2, EmptyTableType
  <2> QED
    BY <1>3, <2>3
<1>5. ASSUME NEW k \in Nat, k \in T PROVE k + 1 \in T
  <2>1. SUFFICES ASSUME k + 1 <= n PROVE Ok(ReplaySteps(snap)[k + 1], k + 1)
    OBVIOUS
  <2> DEFINE t == ReplaySteps(snap)[k]
             rec == snap[k + 1]
  <2>2. k + 1 \in 1 .. n /\ (k + 1) - 1 = k
    BY <1>1, <2>1
  <2>3. Ok(t, k)
    BY <1>1, <1>5, <2>1
  <2>4. /\ rec \in Record /\ ~rec.deleted /\ rec.key = live[k + 1]
        /\ rec.mod_revision = m[live[k + 1]].mod_revision
    BY <1>2, <2>2
  <2>5. ReplaySteps(snap)[k + 1] = ApplyRecord(t, rec)
    BY <1>3, <2>2
  <2> HIDE DEF t, rec
  <2>6. ApplyRecord(t, rec) \in Tables
    BY <2>3, <2>4, ApplyRecordType
  <2>7. AliveKeys(ApplyRecord(t, rec)) = {live[j] : j \in 1 .. k + 1}
    <3>1. AliveKeys(ApplyRecord(t, rec)) = {live[j] : j \in 1 .. k} \cup {live[k + 1]}
      BY <2>3, <2>4, RecordView
    <3> QED
      BY <3>1
  <2>8. ASSUME NEW j \in 1 .. k + 1
        PROVE  ApplyRecord(t, rec)[live[j]].mod_revision = m[live[j]].mod_revision
    <3>1. CASE live[j] = live[k + 1]
      BY <2>3, <2>4, <3>1, RecordView
    <3>2. CASE live[j] # live[k + 1]
      <4>1. j \in 1 .. k /\ live[j] \in Keys
        BY <1>1, <2>1, <3>2 DEF AliveKeys
      <4>2. ApplyRecord(t, rec)[live[j]].mod_revision = t[live[j]].mod_revision
        BY <2>3, <2>4, <3>2, <4>1, RecordView
      <4> QED
        BY <2>3, <4>1, <4>2
    <3> QED
      BY <3>1, <3>2
  <2> QED
    BY <2>5, <2>6, <2>7, <2>8
<1>6. T = Nat
  <2> HIDE DEF T
  <2>1. T \in SUBSET Nat
    BY DEF T
  <2> QED
    BY <1>4, <1>5, <2>1, InductionOnSet
<1>7. Ok(ReplaySteps(snap)[n], n)
  <2>1. n \in T
    BY <1>1, <1>6
  <2> HIDE DEF Ok
  <2> QED
    BY <1>1, <2>1
<1>8. AliveKeys(m) = {live[j] : j \in 1 .. n}
  BY <1>1
<1>9. View(ReplaySteps(snap)[n]) = View(m)
  <2> DEFINE t == ReplaySteps(snap)[n]
  <2>1. AliveKeys(t) = AliveKeys(m)
    BY <1>7, <1>8
  <2>2. \A k \in AliveKeys(t) : t[k].mod_revision = m[k].mod_revision
    BY <1>7
  <2> HIDE DEF t
  <2>3. View(t) = View(m)
    BY <2>1, <2>2, SameView
  <2> QED
    BY <2>3 DEF t
<1> QED
  BY <1>2, <1>9 DEF Replay, snap
=============================================================================
