--------------------------- MODULE WatchHubProofs ---------------------------
(***************************************************************************)
(* Proofs about WatchHub, for every set of keys, streams and bounds:       *)
(*                                                                         *)
(*   TypeOK      on its own;                                               *)
(*   UniqueIds   with IdsInv;                                              *)
(*   WatchExact  with LogInv (what the log, a log about to replace it and  *)
(*               the checkpoint hold, against the history of events) and   *)
(*               QueuesOk (what a pending create has in its queue).        *)
(*                                                                         *)
(* That every create is answered (CreateAnswered) rests on fairness and is *)
(* left to TLC.                                                            *)
(***************************************************************************)
EXTENDS WatchHub, KeyLogProofs, SequenceTheorems

-----------------------------------------------------------------------------
(* The members of a sequence that are in a set.                             *)

(* The equations of AmongSteps.                                             *)
LEMMA AmongStepsDef ==
    ASSUME NEW E, NEW s \in Seq(E), NEW S
    PROVE  /\ AmongSteps(s, S) \in [0 .. Len(s) -> Seq(E)]
           /\ AmongSteps(s, S)[0] = <<>>
           /\ \A i \in 1 .. Len(s) :
                 AmongSteps(s, S)[i] = IF s[i] \in S THEN Append(AmongSteps(s, S)[i - 1], s[i])
                                       ELSE AmongSteps(s, S)[i - 1]
<1> DEFINE n == Len(s)
           Step(i, x) == IF s[i] \in S THEN Append(x, s[i]) ELSE x
           f == [i \in 1 .. n |-> [x \in Seq(E) |-> Step(i, x)]]
           Whole(t) == t = [i \in 0 .. n |-> IF i = 0 THEN <<>> ELSE Step(i, t[i - 1])]
<1>1. n \in Nat /\ <<>> \in Seq(E) /\ \A i \in 1 .. n : s[i] \in E
  OBVIOUS
<1>2. f \in [1 .. n -> [Seq(E) -> Seq(E)]]
  <2>1. ASSUME NEW i \in 1 .. n, NEW x \in Seq(E) PROVE Step(i, x) \in Seq(E)
    BY <1>1
  <2> HIDE DEF Step
  <2> QED
    BY <2>1
<1>3. \A i \in 1 .. n, x \in Seq(E) : f[i][x] = Step(i, x)
  <2> HIDE DEF Step
  <2> QED
    OBVIOUS
<1> HIDE DEF f
<1>4. PICK t \in [0 .. n -> Seq(E)] : t[0] = <<>> /\ \A i \in 1 .. n : t[i] = f[i][t[i - 1]]
  <2> DEFINE b == <<>>
             X == Seq(E)
  <2>1. b \in X /\ n \in Nat /\ f \in [1 .. n -> [X -> X]]
    BY <1>1, <1>2
  <2> HIDE DEF n, b, X
  <2>2. \E t \in [0 .. n -> X] : t[0] = b /\ \A i \in 1 .. n : t[i] = f[i][t[i - 1]]
    BY <2>1, Recursion
  <2> QED
    BY <2>2 DEF b, X
<1>5. Whole(t)
  <2>1. ASSUME NEW i \in 1 .. n PROVE t[i] = Step(i, t[i - 1])
    <3>1. i - 1 \in 0 .. n
      BY <1>1
    <3> QED
      BY <1>3, <1>4, <3>1
  <2> HIDE DEF Step, n
  <2> QED
    BY <1>1, <1>4, <2>1
<1>6. Whole(AmongSteps(s, S))
  <2>1. AmongSteps(s, S) = CHOOSE u : Whole(u)
    BY DEF AmongSteps
  <2> HIDE DEF Whole
  <2> QED
    BY <1>5, <2>1
<1> DEFINE u == AmongSteps(s, S)
<1>7. u[0] = <<>> /\ \A i \in 1 .. n : u[i] = Step(i, u[i - 1])
  <2> HIDE DEF Step, u
  <2>1. u = [i \in 0 .. n |-> IF i = 0 THEN <<>> ELSE Step(i, u[i - 1])]
    BY <1>6 DEF u
  <2>2. \A i \in 0 .. n : u[i] = IF i = 0 THEN <<>> ELSE Step(i, u[i - 1])
    BY <2>1
  <2> QED
    BY <1>1, <2>2
<1>8. u \in [0 .. n -> Seq(E)]
  <2> DEFINE T == {i \in Nat : i <= n => u[i] \in Seq(E)}
  <2>1. 0 \in T
    BY <1>1, <1>7
  <2>2. ASSUME NEW i \in Nat, i \in T PROVE i + 1 \in T
    <3>1. SUFFICES ASSUME i + 1 <= n PROVE u[i + 1] \in Seq(E)
      OBVIOUS
    <3>2. i + 1 \in 1 .. n /\ (i + 1) - 1 = i /\ u[i] \in Seq(E) /\ s[i + 1] \in E
      BY <1>1, <2>2, <3>1
    <3>3. u[i + 1] = Step(i + 1, u[i])
      BY <1>7, <3>2
    <3> HIDE DEF u
    <3> QED
      BY <3>2, <3>3
  <2> HIDE DEF T
  <2>3. T = Nat
    <3>1. T \in SUBSET Nat
      BY DEF T
    <3> QED
      BY <2>1, <2>2, <3>1, InductionOnSet
  <2>4. \A i \in 0 .. n : u[i] \in Seq(E)
    BY <1>1, <2>3 DEF T
  <2>5. u = [i \in 0 .. n |-> IF i = 0 THEN <<>> ELSE Step(i, u[i - 1])]
    BY <1>6
  <2> HIDE DEF u, Step
  <2> QED
    BY <2>4, <2>5
<1> QED
  BY <1>7, <1>8

(* How it grows with the sequence.                                          *)
LEMMA AmongGrows ==
    ASSUME NEW E, NEW S
    PROVE  \A s \in Seq(E) : \A e \in E :
              /\ e \in S => Among(Append(s, e), S) = Append(Among(s, S), e)
              /\ e \notin S => Among(Append(s, e), S) = Among(s, S)
<1> SUFFICES ASSUME NEW s \in Seq(E), NEW e \in E
             PROVE  /\ e \in S => Among(Append(s, e), S) = Append(Among(s, S), e)
                    /\ e \notin S => Among(Append(s, e), S) = Among(s, S)
  OBVIOUS
<1> DEFINE n == Len(s)
           long == Append(s, e)
           u == AmongSteps(s, S)
           v == AmongSteps(long, S)
           T == {i \in Nat : i <= n => v[i] = u[i]}
<1>1. /\ n \in Nat /\ long \in Seq(E) /\ Len(long) = n + 1 /\ long[n + 1] = e
      /\ \A i \in 1 .. n : long[i] = s[i]
  OBVIOUS
<1>2. /\ u \in [0 .. n -> Seq(E)] /\ u[0] = <<>>
      /\ \A i \in 1 .. n : u[i] = IF s[i] \in S THEN Append(u[i - 1], s[i]) ELSE u[i - 1]
  BY AmongStepsDef
<1>3. /\ v[0] = <<>>
      /\ \A i \in 1 .. n + 1 :
            v[i] = IF long[i] \in S THEN Append(v[i - 1], long[i]) ELSE v[i - 1]
  <2> HIDE DEF long
  <2> QED
    BY <1>1, AmongStepsDef
<1> HIDE DEF u, v, long
<1>4. 0 \in T
  BY <1>2, <1>3
<1>5. ASSUME NEW i \in Nat, i \in T PROVE i + 1 \in T
  <2>1. SUFFICES ASSUME i + 1 <= n PROVE v[i + 1] = u[i + 1]
    OBVIOUS
  <2>2. i + 1 \in 1 .. n /\ i + 1 \in 1 .. n + 1 /\ (i + 1) - 1 = i /\ v[i] = u[i]
    BY <1>1, <1>5, <2>1
  <2> QED
    BY <1>1, <1>2, <1>3, <2>2
<1> HIDE DEF T
<1>6. T = Nat
  <2>1. T \in SUBSET Nat
    BY DEF T
  <2> QED
    BY <1>4, <1>5, <2>1, InductionOnSet
<1>7. v[n] = u[n]
  BY <1>1, <1>6 DEF T
<1>8. v[n + 1] = IF e \in S THEN Append(u[n], e) ELSE u[n]
  <2>1. n + 1 \in 1 .. n + 1 /\ (n + 1) - 1 = n
    BY <1>1
  <2> QED
    BY <1>1, <1>3, <1>7, <2>1
<1>9. u[n] \in Seq(E)
  BY <1>1, <1>2
<1> QED
  BY <1>1, <1>8, <1>9 DEF Among, u, v, long

(* Nothing is among nothing.                                                *)
LEMMA AmongEmpty ==
    ASSUME NEW S
    PROVE  Among(<<>>, S) = <<>>
<1> DEFINE s == <<>>
<1>1. s \in Seq({}) /\ Len(s) = 0
  OBVIOUS
<1>2. AmongSteps(s, S)[0] = <<>>
  <2> DEFINE E == {}
  <2>1. s \in Seq(E)
    BY <1>1
  <2> HIDE DEF s, E
  <2> QED
    BY <2>1, AmongStepsDef
<1> QED
  BY <1>1, <1>2 DEF Among

(* Selected elements are elements.                                          *)
LEMMA AmongType ==
    ASSUME NEW E, NEW s \in Seq(E), NEW S
    PROVE  Among(s, S) \in Seq(E)
<1>1. Len(s) \in 0 .. Len(s)
  OBVIOUS
<1> QED
  BY <1>1, AmongStepsDef DEF Among

(* Selecting distributes over joining.                                      *)
LEMMA AmongConcat ==
    ASSUME NEW E, NEW r \in Seq(E), NEW s \in Seq(E), NEW S
    PROVE  Among(r \o s, S) = Among(r, S) \o Among(s, S)
<1> DEFINE T == {x \in Seq(E) : Among(r \o x, S) = Among(r, S) \o Among(x, S)}
<1>0. Among(r, S) \in Seq(E)
  BY AmongType
<1>1. <<>> \in T
  <2>1. r \o <<>> = r /\ Among(r, S) \o <<>> = Among(r, S) /\ <<>> \in Seq(E)
    BY <1>0
  <2>2. Among(<<>>, S) = <<>>
    BY AmongEmpty
  <2> QED
    BY <2>1, <2>2
<1>2. ASSUME NEW x \in T, NEW e \in E PROVE Append(x, e) \in T
  <2>1. /\ x \in Seq(E) /\ r \o x \in Seq(E) /\ Append(x, e) \in Seq(E)
        /\ r \o Append(x, e) = Append(r \o x, e)
    OBVIOUS
  <2>2. Among(r \o x, S) = Among(r, S) \o Among(x, S) /\ Among(x, S) \in Seq(E)
    BY <2>1, AmongType
  <2>3. /\ e \in S => Among(Append(x, e), S) = Append(Among(x, S), e)
        /\ e \notin S => Among(Append(x, e), S) = Among(x, S)
    BY <2>1, AmongGrows
  <2>4. /\ e \in S => Among(r \o Append(x, e), S) = Append(Among(r \o x, S), e)
        /\ e \notin S => Among(r \o Append(x, e), S) = Among(r \o x, S)
    <3>1. \A z \in Seq(E) : /\ e \in S => Among(Append(z, e), S) = Append(Among(z, S), e)
                            /\ e \notin S => Among(Append(z, e), S) = Among(z, S)
      BY AmongGrows
    <3> QED
      BY <2>1, <3>1
  <2>5. Among(r, S) \o Append(Among(x, S), e) = Append(Among(r, S) \o Among(x, S), e)
    BY <1>0, <2>2
  <2> QED
    BY <2>1, <2>3, <2>4, <2>5
<1> HIDE DEF T
<1>3. T = Seq(E)
  <2>1. T \in SUBSET Seq(E)
    BY DEF T
  <2> QED
    BY <1>1, <1>2, <2>1, InductionOnSeq
<1> QED
  BY <1>3 DEF T

(* Only the membership of the elements matters.                             *)
LEMMA AmongSame ==
    ASSUME NEW E, NEW s \in Seq(E), NEW S1, NEW S2,
           \A i \in 1 .. Len(s) : s[i] \in S1 <=> s[i] \in S2
    PROVE  Among(s, S1) = Among(s, S2)
<1> DEFINE Same(x) == \A i \in 1 .. Len(x) : x[i] \in S1 <=> x[i] \in S2
           T == {x \in Seq(E) : Same(x) => Among(x, S1) = Among(x, S2)}
<1>1. <<>> \in T
  BY AmongEmpty
<1>2. ASSUME NEW x \in T, NEW e \in E PROVE Append(x, e) \in T
  <2>1. /\ x \in Seq(E) /\ Append(x, e) \in Seq(E) /\ Len(x) \in Nat
        /\ Len(Append(x, e)) = Len(x) + 1 /\ Append(x, e)[Len(x) + 1] = e
        /\ \A i \in 1 .. Len(x) : Append(x, e)[i] = x[i]
    OBVIOUS
  <2>2. SUFFICES ASSUME Same(Append(x, e))
                 PROVE  Among(Append(x, e), S1) = Among(Append(x, e), S2)
    BY <2>1
  <2>3. (e \in S1 <=> e \in S2) /\ Same(x)
    BY <2>1, <2>2
  <2>4. Among(x, S1) = Among(x, S2)
    BY <2>3
  <2>5. /\ e \in S1 => Among(Append(x, e), S1) = Append(Among(x, S1), e)
        /\ e \notin S1 => Among(Append(x, e), S1) = Among(x, S1)
    BY <2>1, AmongGrows
  <2>6. /\ e \in S2 => Among(Append(x, e), S2) = Append(Among(x, S2), e)
        /\ e \notin S2 => Among(Append(x, e), S2) = Among(x, S2)
    BY <2>1, AmongGrows
  <2> QED
    BY <2>3, <2>4, <2>5, <2>6
<1> HIDE DEF T
<1>3. T = Seq(E)
  <2>1. T \in SUBSET Seq(E)
    BY DEF T
  <2> QED
    BY <1>1, <1>2, <2>1, InductionOnSeq
<1> QED
  BY <1>3 DEF T

(* Selecting what is not there gives nothing.                               *)
LEMMA AmongNone ==
    ASSUME NEW E, NEW s \in Seq(E), NEW S, \A i \in 1 .. Len(s) : s[i] \notin S
    PROVE  Among(s, S) = <<>>
<1> DEFINE T == {x \in Seq(E) : Among(x, {}) = <<>>}
<1>1. <<>> \in T
  BY AmongEmpty
<1>2. ASSUME NEW x \in T, NEW e \in E PROVE Append(x, e) \in T
  <2>1. x \in Seq(E) /\ Append(x, e) \in Seq(E) /\ e \notin {}
    OBVIOUS
  <2> QED
    BY <2>1, AmongGrows
<1>3. T = Seq(E)
  <2> HIDE DEF T
  <2>1. T \in SUBSET Seq(E)
    BY DEF T
  <2> QED
    BY <1>1, <1>2, <2>1, InductionOnSeq
<1>4. Among(s, S) = Among(s, {})
  BY AmongSame
<1> QED
  BY <1>3, <1>4

(* Selecting what all are gives all.                                        *)
LEMMA AmongAll ==
    ASSUME NEW E, NEW s \in Seq(E), NEW S, \A i \in 1 .. Len(s) : s[i] \in S
    PROVE  Among(s, S) = s
<1> DEFINE T == {x \in Seq(E) : Among(x, E) = x}
<1>1. <<>> \in T
  BY AmongEmpty
<1>2. ASSUME NEW x \in T, NEW e \in E PROVE Append(x, e) \in T
  <2>1. x \in Seq(E) /\ Append(x, e) \in Seq(E)
    OBVIOUS
  <2> QED
    BY <2>1, AmongGrows
<1>3. T = Seq(E)
  <2> HIDE DEF T
  <2>1. T \in SUBSET Seq(E)
    BY DEF T
  <2> QED
    BY <1>1, <1>2, <2>1, InductionOnSeq
<1>4. Among(s, S) = Among(s, E)
  <2>1. \A i \in 1 .. Len(s) : s[i] \in E
    OBVIOUS
  <2> QED
    BY <2>1, AmongSame
<1> QED
  BY <1>3, <1>4

(* Selecting twice is selecting from both sets.                             *)
LEMMA AmongTwice ==
    ASSUME NEW E, NEW s \in Seq(E), NEW S1, NEW S2
    PROVE  Among(Among(s, S1), S2) = Among(s, S1 \cap S2)
<1> DEFINE T == {x \in Seq(E) : Among(Among(x, S1), S2) = Among(x, S1 \cap S2)}
<1>1. <<>> \in T
  BY AmongEmpty
<1>2. ASSUME NEW x \in T, NEW e \in E PROVE Append(x, e) \in T
  <2>1. /\ x \in Seq(E) /\ Append(x, e) \in Seq(E)
        /\ Among(Among(x, S1), S2) = Among(x, S1 \cap S2)
    OBVIOUS
  <2> DEFINE y == Among(x, S1)
  <2>2. y \in Seq(E)
    BY <2>1, AmongType
  <2>3. /\ e \in S1 => Among(Append(x, e), S1) = Append(y, e)
        /\ e \notin S1 => Among(Append(x, e), S1) = y
    BY <2>1, AmongGrows
  <2> DEFINE S == S1 \cap S2
  <2>4. /\ e \in S => Among(Append(x, e), S) = Append(Among(x, S), e)
        /\ e \notin S => Among(Append(x, e), S) = Among(x, S)
    <3> HIDE DEF S
    <3> QED
      BY <2>1, AmongGrows
  <2>5. /\ e \in S2 => Among(Append(y, e), S2) = Append(Among(y, S2), e)
        /\ e \notin S2 => Among(Append(y, e), S2) = Among(y, S2)
    <3> HIDE DEF y
    <3> QED
      BY <2>2, AmongGrows
  <2> QED
    BY <2>1, <2>3, <2>4, <2>5
<1> HIDE DEF T
<1>3. T = Seq(E)
  <2>1. T \in SUBSET Seq(E)
    BY DEF T
  <2> QED
    BY <1>1, <1>2, <2>1, InductionOnSeq
<1> QED
  BY <1>3 DEF T

-----------------------------------------------------------------------------
(* The scan of records.                                                     *)

Prevs == [Keys -> Nat]
Scans == [evts: Seq(Events), prev: Prevs]

(* The event of a record is an event.                                       *)
LEMMA EventType ==
    ASSUME NEW rec \in Record, NEW prev \in Nat
    PROVE  Event(rec, prev) \in Events
BY DEF Event, Events, Record

(* What an event leaves are previous versions.                              *)
LEMMA AfterEventType ==
    ASSUME NEW prev \in Prevs, NEW e \in Events
    PROVE  AfterEvent(prev, e) \in Prevs
BY DEF AfterEvent, Prevs, Events

(* Scanning one record more gives a scan.                                   *)
LEMMA ScanRecordType ==
    ASSUME NEW a \in Scans, NEW rec \in Record
    PROVE  ScanRecord(a, rec) \in Scans
<1> DEFINE e == Event(rec, a.prev[rec.key])
<1>1. a.prev \in Prevs /\ a.evts \in Seq(Events) /\ a.prev[rec.key] \in Nat
  BY DEF Scans, Prevs, Record
<1>2. e \in Events
  BY <1>1, EventType
<1>3. AfterEvent(a.prev, e) \in Prevs
  <2> HIDE DEF e
  <2> QED
    BY <1>1, <1>2, AfterEventType
<1>4. ScanRecord(a, rec) = [evts |-> Append(a.evts, e), prev |-> AfterEvent(a.prev, e)]
  BY DEF ScanRecord
<1>5. Append(a.evts, e) \in Seq(Events)
  BY <1>1, <1>2
<1> HIDE DEF e
<1> QED
  BY <1>3, <1>4, <1>5 DEF Scans

(* A recursion over scans has a solution.                                   *)
LEMMA ScanRecursion ==
    \A b \in Scans, n \in Nat : \A f \in [1 .. n -> [Scans -> Scans]] :
        \E t \in [0 .. n -> Scans] : t[0] = b /\ \A i \in 1 .. n : t[i] = f[i][t[i - 1]]
BY Recursion

(* The equations of ScanSteps.                                              *)
LEMMA ScanStepsDef ==
    ASSUME NEW recs \in Seq(Record), NEW prev \in Prevs
    PROVE  /\ ScanSteps(recs, prev) \in [0 .. Len(recs) -> Scans]
           /\ ScanSteps(recs, prev)[0] = [evts |-> <<>>, prev |-> prev]
           /\ \A i \in 1 .. Len(recs) :
                 ScanSteps(recs, prev)[i] = ScanRecord(ScanSteps(recs, prev)[i - 1], recs[i])
<1> DEFINE n == Len(recs)
           b == [evts |-> <<>>, prev |-> prev]
           f == [i \in 1 .. n |-> [x \in Scans |-> ScanRecord(x, recs[i])]]
           Whole(t) == t = [i \in 0 .. n |-> IF i = 0 THEN b ELSE ScanRecord(t[i - 1], recs[i])]
           u == ScanSteps(recs, prev)
<1>1. n \in Nat /\ b \in Scans /\ \A i \in 1 .. n : recs[i] \in Record
  BY DEF Scans
<1>2. f \in [1 .. n -> [Scans -> Scans]]
  BY <1>1, ScanRecordType
<1>3. \A i \in 1 .. n, x \in Scans : f[i][x] = ScanRecord(x, recs[i])
  OBVIOUS
<1>4. PICK t \in [0 .. n -> Scans] : t[0] = b /\ \A i \in 1 .. n : t[i] = f[i][t[i - 1]]
  <2>1. b \in Scans /\ n \in Nat /\ f \in [1 .. n -> [Scans -> Scans]]
    BY <1>1, <1>2
  <2> HIDE DEF f, n, b, Whole, u
  <2> QED
    BY <2>1, ScanRecursion
<1> HIDE DEF f
<1>5. Whole(t)
  <2>1. ASSUME NEW i \in 1 .. n PROVE t[i] = ScanRecord(t[i - 1], recs[i])
    <3>1. i - 1 \in 0 .. n
      BY <1>1
    <3> QED
      BY <1>3, <1>4, <3>1
  <2> HIDE DEF n, b
  <2> QED
    BY <1>1, <1>4, <2>1
<1>6. Whole(u)
  <2>1. u = CHOOSE x : Whole(x)
    BY DEF ScanSteps
  <2> HIDE DEF Whole, u
  <2> QED
    BY <1>5, <2>1
<1> HIDE DEF b, u
<1>7. \A i \in 0 .. n : u[i] = IF i = 0 THEN b ELSE ScanRecord(u[i - 1], recs[i])
  BY <1>6
<1>8. u[0] = b /\ \A i \in 1 .. n : u[i] = ScanRecord(u[i - 1], recs[i])
  BY <1>1, <1>7
<1>9. u \in [0 .. n -> Scans]
  <2> DEFINE T == {i \in Nat : i <= n => u[i] \in Scans}
  <2>1. 0 \in T
    BY <1>1, <1>8
  <2>2. ASSUME NEW i \in Nat, i \in T PROVE i + 1 \in T
    <3>1. SUFFICES ASSUME i + 1 <= n PROVE u[i + 1] \in Scans
      OBVIOUS
    <3>2. i + 1 \in 1 .. n /\ (i + 1) - 1 = i /\ u[i] \in Scans /\ recs[i + 1] \in Record
      BY <1>1, <2>2, <3>1
    <3> QED
      BY <1>8, <3>2, ScanRecordType
  <2> HIDE DEF T
  <2>3. T = Nat
    <3>1. T \in SUBSET Nat
      BY DEF T
    <3> QED
      BY <2>1, <2>2, <3>1, InductionOnSet
  <2>4. \A i \in 0 .. n : u[i] \in Scans
    BY <1>1, <2>3 DEF T
  <2> QED
    BY <1>6, <2>4
<1> QED
  BY <1>8, <1>9 DEF u, b

(* Scanning a log gives a scan.                                             *)
LEMMA ScannedType ==
    ASSUME NEW recs \in Seq(Record), NEW prev \in Prevs
    PROVE  Scanned(recs, prev) \in Scans
<1>1. Len(recs) \in 0 .. Len(recs)
  OBVIOUS
<1> QED
  BY <1>1, ScanStepsDef DEF Scanned

(* Scanning an empty log finds nothing.                                     *)
LEMMA ScannedEmpty ==
    ASSUME NEW prev \in Prevs
    PROVE  Scanned(<<>>, prev) = [evts |-> <<>>, prev |-> prev]
<1> DEFINE recs == <<>>
<1>1. recs \in Seq(Record) /\ Len(recs) = 0
  OBVIOUS
<1>2. ScanSteps(recs, prev)[0] = [evts |-> <<>>, prev |-> prev]
  <2> HIDE DEF recs
  <2> QED
    BY <1>1, ScanStepsDef
<1> QED
  BY <1>1, <1>2 DEF Scanned

(* How it grows with the records.                                           *)
LEMMA ScannedGrows ==
    ASSUME NEW prev \in Prevs
    PROVE  \A recs \in Seq(Record) : \A rec \in Record :
              Scanned(Append(recs, rec), prev) = ScanRecord(Scanned(recs, prev), rec)
<1> SUFFICES ASSUME NEW recs \in Seq(Record), NEW rec \in Record
             PROVE  Scanned(Append(recs, rec), prev) = ScanRecord(Scanned(recs, prev), rec)
  OBVIOUS
<1> DEFINE n == Len(recs)
           long == Append(recs, rec)
           u == ScanSteps(recs, prev)
           v == ScanSteps(long, prev)
           T == {i \in Nat : i <= n => v[i] = u[i]}
<1>1. /\ n \in Nat /\ long \in Seq(Record) /\ Len(long) = n + 1 /\ long[n + 1] = rec
      /\ \A i \in 1 .. n : long[i] = recs[i]
  OBVIOUS
<1> DEFINE b == [evts |-> <<>>, prev |-> prev]
<1>2. u[0] = b /\ \A i \in 1 .. n : u[i] = ScanRecord(u[i - 1], recs[i])
  BY ScanStepsDef
<1>3. v[0] = b /\ \A i \in 1 .. n + 1 : v[i] = ScanRecord(v[i - 1], long[i])
  <2> HIDE DEF long
  <2> QED
    BY <1>1, ScanStepsDef
<1> HIDE DEF u, v, long, b
<1>4. 0 \in T
  BY <1>2, <1>3
<1>5. ASSUME NEW i \in Nat, i \in T PROVE i + 1 \in T
  <2>1. SUFFICES ASSUME i + 1 <= n PROVE v[i + 1] = u[i + 1]
    OBVIOUS
  <2>2. i + 1 \in 1 .. n /\ i + 1 \in 1 .. n + 1 /\ (i + 1) - 1 = i /\ v[i] = u[i]
    BY <1>1, <1>5, <2>1
  <2> QED
    BY <1>1, <1>2, <1>3, <2>2
<1> HIDE DEF T
<1>6. T = Nat
  <2>1. T \in SUBSET Nat
    BY DEF T
  <2> QED
    BY <1>4, <1>5, <2>1, InductionOnSet
<1>7. v[n] = u[n]
  BY <1>1, <1>6 DEF T
<1>8. v[n + 1] = ScanRecord(u[n], rec)
  <2>1. n + 1 \in 1 .. n + 1 /\ (n + 1) - 1 = n
    BY <1>1
  <2> QED
    BY <1>1, <1>3, <1>7, <2>1
<1> QED
  BY <1>1, <1>8 DEF Scanned, u, v, long

(* One event more behind two joined sequences.                              *)
LEMMA EventsConcat ==
    \A r, s \in Seq(Events), e \in Events : Append(r \o s, e) = r \o Append(s, e)
OBVIOUS

(* A scan of two parts.                                                     *)
LEMMA ScannedConcat ==
    ASSUME NEW prev \in Prevs, NEW r \in Seq(Record), NEW s \in Seq(Record)
    PROVE  LET one == Scanned(r, prev)
               two == Scanned(s, one.prev)
           IN  /\ Scanned(r \o s, prev).evts = one.evts \o two.evts
               /\ Scanned(r \o s, prev).prev = two.prev
<1> DEFINE one == Scanned(r, prev)
           p == one.prev
           evts == one.evts
           Same(x) == /\ Scanned(r \o x, prev).evts = evts \o Scanned(x, p).evts
                      /\ Scanned(r \o x, prev).prev = Scanned(x, p).prev
           T == {x \in Seq(Record) : Same(x)}
<1>0. one \in Scans /\ p \in Prevs /\ evts \in Seq(Events)
  BY ScannedType DEF Scans
<1>9. \A y \in Seq(Events), e \in Events : Append(evts \o y, e) = evts \o Append(y, e)
  <2>1. evts \in Seq(Events)
    BY <1>0
  <2> HIDE DEF evts, one, p
  <2> QED
    BY <2>1, EventsConcat, Zenon
<1>1. <<>> \in T
  <2>1. r \o <<>> = r /\ evts \o <<>> = evts /\ <<>> \in Seq(Record)
    BY <1>0
  <2>2. Scanned(<<>>, p) = [evts |-> <<>>, prev |-> p]
    <3> HIDE DEF p
    <3> QED
      BY <1>0, ScannedEmpty
  <2>3. Scanned(<<>>, p).evts = <<>> /\ Scanned(<<>>, p).prev = p
    BY <2>2
  <2> QED
    BY <2>1, <2>3
<1>2. ASSUME NEW x \in T, NEW rec \in Record PROVE Append(x, rec) \in T
  <2>1. /\ x \in Seq(Record) /\ r \o x \in Seq(Record) /\ Append(x, rec) \in Seq(Record)
        /\ r \o Append(x, rec) = Append(r \o x, rec)
    OBVIOUS
  <2> DEFINE a == Scanned(x, p)
             c == Scanned(r \o x, prev)
             e == Event(rec, a.prev[rec.key])
  <2>2. c.evts = evts \o a.evts /\ c.prev = a.prev
    OBVIOUS
  <2>3. a.prev \in Prevs /\ a.evts \in Seq(Events)
    <3>1. a \in Scans
      BY <1>0, <2>1, ScannedType
    <3> QED
      BY <3>1 DEF Scans
  <2>4. Scanned(Append(x, rec), p) = ScanRecord(a, rec)
    BY <1>0, <2>1, ScannedGrows
  <2>5. Scanned(r \o Append(x, rec), prev) = ScanRecord(c, rec)
    <3>1. \A z \in Seq(Record) : Scanned(Append(z, rec), prev) = ScanRecord(Scanned(z, prev), rec)
      BY ScannedGrows
    <3> QED
      BY <2>1, <3>1
  <2> HIDE DEF a, c, p, evts
  <2>6. e \in Events
    <3>1. a.prev[rec.key] \in Nat
      BY <2>3 DEF Prevs, Record
    <3> QED
      BY <3>1, EventType
  <2>7. ScanRecord(a, rec).evts = Append(a.evts, e) /\ ScanRecord(a, rec).prev = AfterEvent(a.prev, e)
    BY DEF ScanRecord
  <2>8. ScanRecord(c, rec).evts = Append(c.evts, e) /\ ScanRecord(c, rec).prev = AfterEvent(a.prev, e)
    BY <2>2 DEF ScanRecord
  <2>9. Append(evts \o a.evts, e) = evts \o Append(a.evts, e)
    <3> DEFINE y == a.evts
    <3> HIDE DEF y, e, one
    <3>1. y \in Seq(Events) /\ e \in Events
      BY <2>3, <2>6 DEF y
    <3>2. Append(evts \o y, e) = evts \o Append(y, e)
      BY <1>9, <3>1
    <3> QED
      BY <3>2 DEF y
  <2>10. Same(Append(x, rec))
    <3> HIDE DEF e
    <3> QED
      BY <2>2, <2>4, <2>5, <2>7, <2>8, <2>9
  <2> QED
    BY <2>1, <2>10
<1> HIDE DEF T
<1>3. T = Seq(Record)
  <2>1. T \in SUBSET Seq(Record)
    BY DEF T
  <2> QED
    BY <1>1, <1>2, <2>1, InductionOnSeq
<1> QED
  BY <1>3 DEF T

(* A cut that ends one element later.                                       *)
LEMMA SubSeqGrows ==
    ASSUME NEW E, NEW s \in Seq(E), NEW i \in Nat, NEW j \in Nat, i <= j, j + 1 <= Len(s)
    PROVE  Append(SubSeq(s, i + 1, j), s[j + 1]) = SubSeq(s, i + 1, j + 1)
<1> DEFINE h == SubSeq(s, i + 1, j)
           l == SubSeq(s, i + 1, j + 1)
           e == s[j + 1]
<1>1. /\ h \in Seq(E) /\ Len(h) = j - i /\ e \in E
      /\ \A x \in 1 .. j - i : h[x] = s[i + x]
  OBVIOUS
<1>2. /\ l \in Seq(E) /\ Len(l) = j + 1 - i
      /\ \A x \in 1 .. j + 1 - i : l[x] = s[i + x]
  OBVIOUS
<1> HIDE DEF h, l
<1>3. /\ Append(h, e) \in Seq(E) /\ Len(Append(h, e)) = j - i + 1
      /\ Append(h, e)[j - i + 1] = e /\ \A x \in 1 .. j - i : Append(h, e)[x] = h[x]
  BY <1>1
<1>4. ASSUME NEW x \in 1 .. j + 1 - i PROVE Append(h, e)[x] = l[x]
  BY <1>1, <1>2, <1>3
<1> HIDE DEF e
<1>5. Append(h, e) = l
  BY <1>2, <1>3, <1>4, SeqEqual
<1> QED
  BY <1>5 DEF h, l, e

(* A scan of the records of the events after the a-th, from the previous    *)
(* versions at a, gives these events and the previous versions after them.  *)
LEMMA ScanFollows ==
    ASSUME NEW es \in Seq(Events), NEW p \in [0 .. Len(es) -> Prevs], NEW a \in 0 .. Len(es),
           NEW recs \in Seq(Record), a + Len(recs) <= Len(es),
           \A j \in 1 .. Len(es) : /\ es[j].prev = p[j - 1][es[j].key]
                                   /\ p[j] = AfterEvent(p[j - 1], es[j]),
           \A j \in 1 .. Len(recs) : Event(recs[j], es[a + j].prev) = es[a + j]
    PROVE  /\ Scanned(recs, p[a]).evts = SubSeq(es, a + 1, a + Len(recs))
           /\ Scanned(recs, p[a]).prev = p[a + Len(recs)]
<1> DEFINE Fits(x) == /\ a + Len(x) <= Len(es)
                      /\ \A j \in 1 .. Len(x) : Event(x[j], es[a + j].prev) = es[a + j]
           Exact(x) == /\ Scanned(x, p[a]).evts = SubSeq(es, a + 1, a + Len(x))
                       /\ Scanned(x, p[a]).prev = p[a + Len(x)]
           T == {x \in Seq(Record) : Fits(x) => Exact(x)}
<1>0. p[a] \in Prevs /\ a \in Nat /\ Len(es) \in Nat
  OBVIOUS
<1>1. <<>> \in T
  <2>1. Scanned(<<>>, p[a]) = [evts |-> <<>>, prev |-> p[a]]
    BY <1>0, ScannedEmpty
  <2>2. SubSeq(es, a + 1, a) = <<>> /\ Len(<<>>) = 0 /\ a + 0 = a /\ <<>> \in Seq(Record)
    BY <1>0
  <2>3. Scanned(<<>>, p[a]).evts = <<>> /\ Scanned(<<>>, p[a]).prev = p[a]
    BY <2>1
  <2> QED
    BY <2>2, <2>3
<1>2. ASSUME NEW x \in T, NEW rec \in Record PROVE Append(x, rec) \in T
  <2> DEFINE n == Len(x)
             y == Append(x, rec)
             d == a + n + 1
             e == es[d]
  <2>1. /\ x \in Seq(Record) /\ y \in Seq(Record) /\ n \in Nat /\ Len(y) = n + 1
        /\ y[n + 1] = rec /\ \A j \in 1 .. n : y[j] = x[j]
    OBVIOUS
  <2>2. SUFFICES ASSUME Fits(y) PROVE Exact(y)
    BY <2>1
  <2> HIDE DEF y
  <2>3. /\ Fits(x) /\ d \in 1 .. Len(es) /\ d - 1 = a + n /\ a + (n + 1) = d
        /\ Event(rec, e.prev) = e
    BY <1>0, <2>1, <2>2
  <2>4. Scanned(x, p[a]).evts = SubSeq(es, a + 1, a + n) /\ Scanned(x, p[a]).prev = p[a + n]
    BY <2>3
  <2> HIDE DEF Fits, T
  <2>5. e.prev = p[a + n][e.key] /\ p[d] = AfterEvent(p[a + n], e)
    BY <2>3
  <2>6. e.key = rec.key
    BY <2>3 DEF Event
  <2> HIDE DEF e
  <2>7. Scanned(y, p[a]) = ScanRecord(Scanned(x, p[a]), rec)
    BY <1>0, <2>1, ScannedGrows DEF y
  <2>8. /\ ScanRecord(Scanned(x, p[a]), rec).evts = Append(SubSeq(es, a + 1, a + n), e)
        /\ ScanRecord(Scanned(x, p[a]), rec).prev = AfterEvent(p[a + n], e)
    <3> DEFINE c == Scanned(x, p[a])
               f == Event(rec, c.prev[rec.key])
    <3>1. f = e
      BY <2>3, <2>4, <2>5, <2>6
    <3>2. ScanRecord(c, rec).evts = Append(c.evts, f) /\ ScanRecord(c, rec).prev = AfterEvent(c.prev, f)
      BY DEF ScanRecord
    <3> HIDE DEF c, f
    <3> QED
      BY <2>4, <3>1, <3>2 DEF c
  <2>9. Append(SubSeq(es, a + 1, a + n), e) = SubSeq(es, a + 1, d)
    <3>1. a + n \in Nat /\ a <= a + n /\ d = (a + n) + 1 /\ d <= Len(es)
      BY <1>0, <2>1, <2>3
    <3> QED
      BY <1>0, <3>1, SubSeqGrows DEF e
  <2> QED
    BY <2>1, <2>3, <2>5, <2>7, <2>8, <2>9
<1>3. T = Seq(Record)
  <2> HIDE DEF T
  <2>1. T \in SUBSET Seq(Record)
    BY DEF T
  <2> QED
    BY <1>1, <1>2, <2>1, InductionOnSeq
<1> QED
  BY <1>3

(* A snapshot stands for the versions of its table.                         *)
VersionsOf(m) == [k \in Keys |-> IF Alive(m, k) THEN m[k].mod_revision ELSE 0]

(* Scanning a snapshot finds the versions of its table.                     *)
LEMMA ScanSnapshot ==
    ASSUME NEW m \in Tables
    PROVE  Scanned(SnapshotRecords(m), NoPrev).prev = VersionsOf(m)
<1> DEFINE live == InOrder(AliveKeys(m))
           n == Cardinality(AliveKeys(m))
           snap == SnapshotRecords(m)
           u == ScanSteps(snap, NoPrev)
           Upto(i) == {live[j] : j \in 1 .. i}
           After(i) == [k \in Keys |-> IF k \in Upto(i) THEN m[k].mod_revision ELSE 0]
           T == {i \in Nat : i <= n => u[i].prev = After(i)}
<1>1. /\ n \in Nat /\ live \in [1 .. n -> AliveKeys(m)] /\ AliveKeys(m) \subseteq Keys
      /\ \A k \in AliveKeys(m) : \E i \in 1 .. n : live[i] = k
  <2>1. AliveKeys(m) \in SUBSET Keys
    BY DEF AliveKeys
  <2> QED
    BY <2>1, InOrderDef
<1>2. /\ snap \in Seq(Record) /\ Len(snap) = n
      /\ \A i \in 1 .. n : /\ ~snap[i].deleted /\ snap[i].key = live[i]
                           /\ snap[i].mod_revision = m[live[i]].mod_revision
  BY SnapshotDef
<1>3. NoPrev \in Prevs
  BY DEF NoPrev, Prevs
<1> HIDE DEF snap, live, n
<1>4. /\ u \in [0 .. n -> Scans] /\ u[0] = [evts |-> <<>>, prev |-> NoPrev]
      /\ \A i \in 1 .. n : u[i] = ScanRecord(u[i - 1], snap[i])
  BY <1>2, <1>3, ScanStepsDef
<1> HIDE DEF u
<1>5. 0 \in T
  <2>1. u[0].prev = NoPrev /\ Upto(0) = {}
    BY <1>4
  <2> QED
    BY <2>1 DEF NoPrev
<1>6. ASSUME NEW i \in Nat, i \in T PROVE i + 1 \in T
  <2>1. SUFFICES ASSUME i + 1 <= n PROVE u[i + 1].prev = After(i + 1)
    OBVIOUS
  <2> DEFINE rec == snap[i + 1]
  <2>2. i + 1 \in 1 .. n /\ (i + 1) - 1 = i /\ i \in 0 .. n /\ u[i].prev = After(i)
    BY <1>1, <1>6, <2>1
  <2>6. live[i + 1] \in Keys
    BY <1>1, <2>2
  <2>7. ~rec.deleted
    BY <1>2, <2>2
  <2>8. rec.key = live[i + 1] /\ rec.mod_revision = m[live[i + 1]].mod_revision
    BY <1>2, <2>2
  <2> HIDE DEF rec, After
  <2>3. u[i + 1] = ScanRecord(u[i], rec)
    BY <1>4, <2>2 DEF rec
  <2>4. u[i + 1].prev = [u[i].prev EXCEPT ![live[i + 1]] = m[live[i + 1]].mod_revision]
    <3> DEFINE a == u[i]
               e == Event(rec, a.prev[rec.key])
    <3>1. e.key = live[i + 1] /\ e.rev = m[live[i + 1]].mod_revision
      BY <2>8 DEF Event
    <3>2. ~e.deleted
      BY <2>7 DEF Event
    <3>3. u[i + 1].prev = AfterEvent(a.prev, e)
      BY <2>3 DEF ScanRecord
    <3> HIDE DEF a, e
    <3>4. AfterEvent(a.prev, e) = [a.prev EXCEPT ![live[i + 1]] = m[live[i + 1]].mod_revision]
      BY <3>1, <3>2 DEF AfterEvent
    <3> QED
      BY <3>3, <3>4 DEF a
  <2>5. Upto(i + 1) = Upto(i) \cup {live[i + 1]}
    BY <2>2
  <2> HIDE DEF Upto
  <2> QED
    BY <2>2, <2>4, <2>5, <2>6 DEF After
<1> HIDE DEF T
<1>7. T = Nat
  <2>1. T \in SUBSET Nat
    BY DEF T
  <2> QED
    BY <1>5, <1>6, <2>1, InductionOnSet
<1>8. u[n].prev = After(n)
  BY <1>1, <1>7 DEF T
<1>9. Upto(n) = AliveKeys(m)
  BY <1>1
<1>10. After(n) = VersionsOf(m)
  <2> HIDE DEF Upto
  <2>1. After(n) = [k \in Keys |-> IF k \in AliveKeys(m) THEN m[k].mod_revision ELSE 0]
    BY <1>9
  <2> QED
    BY <2>1 DEF VersionsOf, AliveKeys
<1> QED
  BY <1>2, <1>8, <1>10 DEF Scanned, u, snap

-----------------------------------------------------------------------------
(* Types.                                                                   *)

(* The parts of a record of a create that a change of its state leaves.     *)
LEMMA StateChange ==
    ASSUME NEW r \in Creates, NEW st \in {"queued", "batch", "answered", "open", "ticking", "ended"}
    PROVE  LET q == [r EXCEPT !.state = st]
           IN  /\ q \in Creates /\ q.state = st /\ q.id = r.id
               /\ q.start = r.start /\ q.bound = r.bound /\ q.stream = r.stream
BY DEF Creates

(* Answering a create changes its state and its outcome alone.              *)
LEMMA ReplyChange ==
    ASSUME NEW r \in Creates, NEW b \in BOOLEAN
    PROVE  LET q == [r EXCEPT !.state = "answered", !.created = b]
           IN  /\ q \in Creates /\ q.state = "answered" /\ q.id = r.id
               /\ q.start = r.start /\ q.bound = r.bound /\ q.stream = r.stream
BY DEF Creates

(* The creates are numbered from 1, those of a batch among them.            *)
LEMMA CreatesDomain ==
    ASSUME TypeOK
    PROVE  /\ DOMAIN creates = 1 .. Len(creates) /\ Len(creates) \in Nat
           /\ \A c \in DOMAIN creates : creates[c] \in Creates
           /\ Are({"batch"}) \subseteq DOMAIN creates
BY DEF TypeOK, Are

(* A function on the numbers of a sequence is a sequence.                   *)
LEMMA CreatesMapped ==
    ASSUME TypeOK, NEW f \in [DOMAIN creates -> Creates]
    PROVE  f \in Seq(Creates) /\ DOMAIN f = DOMAIN creates
<1>1. DOMAIN creates = 1 .. Len(creates) /\ Len(creates) \in Nat
  BY CreatesDomain
<1> QED
  BY <1>1, IsASeq

(* Delivering events keeps the queues typed.                                *)
LEMMA DeliverType ==
    ASSUME TypeOK, NEW new, \A c \in DOMAIN new : new[c] \in Seq(Events), Deliver(new)
    PROVE  queue' \in [DOMAIN creates -> Seq(Events)]
<1>1. DOMAIN queue = DOMAIN creates /\ \A c \in DOMAIN creates : queue[c] \in Seq(Events)
  BY DEF TypeOK
<1>2. ASSUME NEW c \in DOMAIN creates, c \in DOMAIN new PROVE queue[c] \o new[c] \in Seq(Events)
  BY <1>1, <1>2
<1> QED
  BY <1>1, <1>2 DEF Deliver

(* The next revision is the one after the current.                          *)
LEMMA RevType ==
    ASSUME TypeOK
    PROVE  /\ next_rev \in Nat /\ current_revision \in Nat /\ MaxRev \in Nat
           /\ next_rev = current_revision + 1
BY BoundsAssumption DEF TypeOK, current_revision

(* The steps that write.                                                    *)
LEMMA CommittedTypes ==
    ASSUME TypeOK, NEW rec \in Record, NEW table \in Tables, Committed(rec, table)
    PROVE  TypeOK'
<1> DEFINE e == Event(rec, IF Alive(keys, rec.key) THEN keys[rec.key].mod_revision ELSE 0)
<1>1. e \in Events
  <2>1. keys[rec.key].mod_revision \in Nat
    BY DEF TypeOK, Tables, KeyState, Record
  <2> QED
    BY <2>1, EventType
<1>2. /\ next_rev <= MaxRev /\ next_rev' = next_rev + 1 /\ keys' = table
      /\ wal' = Append(wal, rec) /\ events' = Append(events, e) /\ NotifyWatchers(e)
      /\ UNCHANGED <<compact_rev, registry, creates, got, hub, collector, clients>>
  BY DEF Committed
<1> HIDE DEF e
<1>3. queue' \in [DOMAIN creates -> Seq(Events)]
  <2> DEFINE new == [c \in {w \in registry : e \in Wanted(w) \cap Since(w)} |-> <<e>>]
  <2>1. \A c \in DOMAIN new : new[c] \in Seq(Events)
    BY <1>1
  <2>2. Deliver(new)
    BY <1>2 DEF NotifyWatchers
  <2> HIDE DEF new
  <2> QED
    BY <2>1, <2>2, DeliverType
<1>4. wal' \in Seq(Record) /\ events' \in Seq(Events) /\ keys' \in Tables
  BY <1>1, <1>2 DEF TypeOK
<1>5. next_rev' \in 1 .. MaxRev + 1
  BY <1>2, BoundsAssumption DEF TypeOK
<1> QED
  BY <1>2, <1>3, <1>4, <1>5 DEF TypeOK, hub, collector, clients

(* Puts and deletes commit a record of their key.                           *)
LEMMA PutType ==
    ASSUME TypeOK, NEW k \in Keys, Put(k) \/ Delete(k)
    PROVE  \E rec \in Record, table \in Tables : rec.key = k /\ Committed(rec, table)
<1>1. keys \in Tables /\ next_rev \in Nat /\ EmptyValue \in Values /\ 0 \in Nat
  BY RevType, ValuesAssumption DEF TypeOK
<1>2. CASE Put(k)
  <2>1. PutRecord(keys, k, EmptyValue, 0, next_rev) \in Record
    BY <1>1, RecordType
  <2>2. ApplyPut(keys, k, EmptyValue, 0, next_rev) \in Tables
    BY <1>1, ApplyPutType
  <2>3. PutRecord(keys, k, EmptyValue, 0, next_rev).key = k
    BY DEF PutRecord
  <2> QED
    BY <1>2, <2>1, <2>2, <2>3 DEF Put
<1>3. CASE Delete(k)
  <2>1. DeleteRecord(keys, k, next_rev) \in Record
    BY <1>1, RecordType
  <2>2. ApplyDelete(keys, k, next_rev) \in Tables
    BY <1>1 DEF ApplyDelete, Tables, KeyState
  <2>3. DeleteRecord(keys, k, next_rev).key = k
    BY DEF DeleteRecord
  <2> QED
    BY <1>3, <2>1, <2>2, <2>3 DEF Delete
<1> QED
  BY <1>2, <1>3

(* The steps of the store keep the type invariant.                          *)
LEMMA StoreTypes ==
    ASSUME TypeOK,
           \/ \E k \in Keys : Put(k) \/ Delete(k)
           \/ \E rev \in 1 .. current_revision : Compact(rev)
           \/ CompactSnapshot \/ CompactSwap
    PROVE  TypeOK'
<1>1. CASE \E k \in Keys : Put(k) \/ Delete(k)
  BY <1>1, PutType, CommittedTypes
<1>2. ASSUME NEW rev \in 1 .. current_revision, Compact(rev) PROVE TypeOK'
  <2>1. compact_rev' \in Nat
    BY <1>2, RevType DEF Compact
  <2> QED
    BY <1>2, <2>1 DEF TypeOK, Compact, store, hub, collector, clients
<1>3. CASE CompactSnapshot
  <2>1. SnapshotRecords(keys) \in Seq(Record) /\ Len(wal) \in Nat /\ current_revision \in Nat
    BY SnapshotDef, RevType DEF TypeOK
  <2>2. gc' \in [on: BOOLEAN, recs: Seq(Record), mark: Nat, rev: Nat]
    BY <1>3, <2>1 DEF CompactSnapshot
  <2> QED
    <3>1. /\ compactions' = compactions + 1
          /\ UNCHANGED <<store, compact_rev, registry, creates, queue, got, hub, floor, epoch, clients>>
      BY <1>3 DEF CompactSnapshot
    <3> QED
      BY <2>2, <3>1, SMTT(30) DEF TypeOK, store, hub, clients
<1>4. CASE CompactSwap
  <2>1. gc.recs \in Seq(Record) /\ gc.mark \in Nat /\ gc.rev \in Nat
    BY DEF TypeOK
  <2>2. wal' \in Seq(Record)
    <3>1. SubSeq(wal, gc.mark + 1, Len(wal)) \in Seq(Record)
      BY <2>1 DEF TypeOK
    <3> QED
      BY <1>4, <2>1, <3>1 DEF CompactSwap
  <2>3. gc' \in [on: BOOLEAN, recs: Seq(Record), mark: Nat, rev: Nat]
    BY <1>4 DEF CompactSwap, NoGc
  <2>4. floor' \in Nat /\ epoch' \in Nat
    BY <1>4, <2>1 DEF CompactSwap, TypeOK
  <2> QED
    BY <1>4, <2>2, <2>3, <2>4 DEF TypeOK, CompactSwap, hub, clients
<1> QED
  BY <1>1, <1>2, <1>3, <1>4

(* The steps of the tasks of the streams.                                   *)
LEMMA StreamTypes ==
    ASSUME TypeOK, NEW s \in Streams,
           \/ \E id \in WatchIds, bound \in Bounds, requested \in 0 .. MaxRev :
                 CreateRequest(s, id, bound, requested)
           \/ \E c \in DOMAIN creates : CancelRequest(s, creates[c].id)
           \/ ProgressRequest(s) \/ Disconnect(s) \/ TakeReply(s)
    PROVE  TypeOK'
<1>1. ASSUME NEW id \in WatchIds, NEW bound \in Bounds, NEW requested \in 0 .. MaxRev,
             CreateRequest(s, id, bound, requested)
      PROVE  TypeOK'
  <2> DEFINE n == Len(creates)
             r == [stream |-> s, id |-> IF id = 0 THEN next_watch_id ELSE id, bound |-> bound,
                   start |-> ResolveStart(requested), state |-> "queued", created |-> FALSE]
  <2>1. r \in Creates
    <3>1. ResolveStart(requested) \in Nat
      BY RevType DEF ResolveStart
    <3>2. next_watch_id \in Nat /\ id \in Nat
      BY RequestsAssumption DEF TypeOK
    <3> QED
      BY <3>1, <3>2 DEF Creates
  <2>2. /\ creates' = Append(creates, r) /\ queue' = Append(queue, <<>>) /\ got' = Append(got, <<>>)
        /\ awaits' = [awaits EXCEPT ![s] = n + 1]
    BY <1>1 DEF CreateRequest
  <2> HIDE DEF r
  <2>3. DOMAIN creates = 1 .. n /\ n \in Nat
    BY CreatesDomain
  <2>4. creates' \in Seq(Creates) /\ DOMAIN creates' = 1 .. n + 1
    BY <2>1, <2>2 DEF TypeOK
  <2>5. queue' \in [1 .. n + 1 -> Seq(Events)] /\ got' \in [1 .. n + 1 -> Seq(Events)]
    <3>1. queue \in Seq(Seq(Events)) /\ Len(queue) = n /\ got \in Seq(Seq(Events)) /\ Len(got) = n
      <4>1. queue \in [1 .. n -> Seq(Events)] /\ got \in [1 .. n -> Seq(Events)]
        BY <2>3 DEF TypeOK
      <4> DEFINE Q == Seq(Events)
      <4> HIDE DEF Q, n
      <4> QED
        BY <2>3, <4>1, IsASeq DEF Q
    <3>2. <<>> \in Seq(Events)
      OBVIOUS
    <3> DEFINE Q == Seq(Events)
    <3> HIDE DEF Q, n
    <3>3. queue \in Seq(Q) /\ got \in Seq(Q) /\ <<>> \in Q
      BY <3>1, <3>2 DEF Q
    <3>4. queue' \in Seq(Q) /\ Len(queue') = n + 1 /\ got' \in Seq(Q) /\ Len(got') = n + 1
      BY <2>2, <3>1, <3>3
    <3>5. queue' \in [1 .. n + 1 -> Q] /\ got' \in [1 .. n + 1 -> Q]
      BY <3>4
    <3> QED
      BY <3>5 DEF Q
  <2>6. awaits' \in [Streams -> {0} \cup 1 .. n + 1]
    BY <2>2, <2>3, SMTT(30) DEF TypeOK
  <2>7. next_watch_id' \in Nat
    BY <1>1 DEF CreateRequest, TypeOK
  <2>8. registry' = registry /\ hurt' = hurt /\ early' = early
    BY <1>1 DEF CreateRequest, hub
  <2>9. registry' \subseteq DOMAIN creates' /\ hurt' \subseteq DOMAIN creates' /\ early' \subseteq DOMAIN creates'
    BY <2>3, <2>4, <2>8, SMTT(30) DEF TypeOK
  <2> HIDE DEF n
  <2> QED
    BY <1>1, <2>4, <2>5, <2>6, <2>7, <2>9 DEF TypeOK, CreateRequest, store, hub, collector
<1>2. ASSUME NEW c \in DOMAIN creates, CancelRequest(s, creates[c].id) PROVE TypeOK'
  <2>1. registry' \subseteq DOMAIN creates /\ requests' \in Nat
    BY <1>2 DEF TypeOK, CancelRequest, CancelWatcher, Request
  <2>2. UNCHANGED <<store, compact_rev, creates, queue, got, hub, collector, awaits, up,
                    next_watch_id, progress>>
    BY <1>2 DEF CancelRequest
  <2> QED
    BY <2>1, <2>2 DEF TypeOK, store, hub, collector
<1>3. CASE ProgressRequest(s)
  <2>1. progress' \in [Streams -> Nat]
    <3>1. current_revision \in Nat /\ progress \in [Streams -> Nat]
      BY RevType DEF TypeOK
    <3> QED
      BY <1>3, <3>1 DEF ProgressRequest
  <2> QED
    BY <1>3, <2>1, SMTT(30) DEF TypeOK, ProgressRequest, Request, store, hub, collector
<1>4. CASE Disconnect(s)
  BY <1>4 DEF TypeOK, Disconnect, Request, store, hub, collector
<1>5. CASE TakeReply(s)
  <2> DEFINE c == awaits[s]
  <2>1. c \in DOMAIN creates
    BY <1>5 DEF TypeOK, TakeReply
  <2>2. creates' \in [DOMAIN creates -> Creates] /\ queue' \in [DOMAIN creates -> Seq(Events)]
    <3>1. PICK st \in {"open", "ended"} : creates' = [creates EXCEPT ![c].state = st]
      BY <1>5 DEF TakeReply
    <3>2. queue' = queue \/ queue' = [queue EXCEPT ![c] = <<>>]
      BY <1>5 DEF TakeReply
    <3>3. [creates[c] EXCEPT !.state = st] \in Creates
      BY <2>1, CreatesDomain, StateChange
    <3>4. creates' \in [DOMAIN creates -> Creates]
      BY <3>1, <3>3, CreatesDomain
    <3>5. queue' \in [DOMAIN creates -> Seq(Events)]
      <4>1. <<>> \in Seq(Events) /\ queue \in [DOMAIN creates -> Seq(Events)]
        BY DEF TypeOK
      <4> HIDE DEF c
      <4> QED
        BY <3>2, <4>1
    <3> QED
      BY <3>4, <3>5
  <2>3. creates' \in Seq(Creates) /\ DOMAIN creates' = DOMAIN creates
    BY <2>2, CreatesMapped
  <2>4. awaits' \in [Streams -> {0} \cup DOMAIN creates]
    BY <1>5 DEF TypeOK, TakeReply
  <2> QED
    BY <1>5, <2>2, <2>3, <2>4 DEF TypeOK, TakeReply, store, hub, collector
<1> QED
  BY <1>1, <1>2, <1>3, <1>4, <1>5

(* The steps of the forwarders.                                             *)
LEMMA DroppedTypes ==
    ASSUME TypeOK, NEW c \in DOMAIN creates, Dropped(c)
    PROVE  /\ creates' \in Seq(Creates) /\ DOMAIN creates' = DOMAIN creates
           /\ queue' \in [DOMAIN creates -> Seq(Events)] /\ registry' \subseteq DOMAIN creates
<1>1. [creates[c] EXCEPT !.state = "ended"] \in Creates
  BY CreatesDomain, StateChange
<1>2. creates' \in [DOMAIN creates -> Creates]
  BY <1>1, CreatesDomain DEF Dropped
<1>3. <<>> \in Seq(Events) /\ queue \in [DOMAIN creates -> Seq(Events)]
  BY DEF TypeOK
<1>4. queue' \in [DOMAIN creates -> Seq(Events)]
  BY <1>3 DEF Dropped
<1> QED
  BY <1>2, <1>4, CreatesMapped DEF Dropped, CancelWatcher, TypeOK

(* The steps of a forwarder keep the type invariant.                        *)
LEMMA ForwarderTypes ==
    ASSUME TypeOK, NEW c \in DOMAIN creates,
           Forward(c) \/ ForwarderEnds(c) \/ Tick(c) \/ TickSend(c)
    PROVE  TypeOK'
<1>1. CASE Forward(c)
  <2>1. UNCHANGED <<store, compact_rev, hub, collector, clients>>
    BY <1>1 DEF Forward
  <2>2. CASE creates[c].stream \in up
    <3>1. queue[c] \in Seq(Events) /\ queue[c] # <<>> /\ got[c] \in Seq(Events)
      BY <1>1 DEF Forward, TypeOK
    <3>2. Tail(queue[c]) \in Seq(Events) /\ Append(got[c], Head(queue[c])) \in Seq(Events)
      BY <3>1
    <3>3. /\ got' = [got EXCEPT ![c] = Append(got[c], Head(queue[c]))]
          /\ queue' = [queue EXCEPT ![c] = Tail(queue[c])]
          /\ UNCHANGED <<registry, creates>>
      BY <1>1, <2>2 DEF Forward
    <3>4. got' \in [DOMAIN creates -> Seq(Events)] /\ queue' \in [DOMAIN creates -> Seq(Events)]
      BY <3>2, <3>3 DEF TypeOK
    <3> QED
      BY <2>1, <3>3, <3>4 DEF TypeOK, store, hub, collector, clients
  <2>3. CASE creates[c].stream \notin up
    <3>1. Dropped(c) /\ UNCHANGED got
      BY <1>1, <2>3 DEF Forward
    <3>2. /\ creates' \in Seq(Creates) /\ DOMAIN creates' = DOMAIN creates
          /\ queue' \in [DOMAIN creates -> Seq(Events)] /\ registry' \subseteq DOMAIN creates
      BY <3>1, DroppedTypes
    <3> QED
      BY <2>1, <3>1, <3>2 DEF TypeOK, store, hub, collector, clients
  <2> QED
    BY <2>2, <2>3
<1>2. ASSUME NEW st \in {"open", "ticking", "ended"}, creates' = [creates EXCEPT ![c].state = st]
      PROVE  creates' \in Seq(Creates) /\ DOMAIN creates' = DOMAIN creates
  <2>1. [creates[c] EXCEPT !.state = st] \in Creates
    BY CreatesDomain, StateChange
  <2>2. creates' \in [DOMAIN creates -> Creates]
    BY <1>2, <2>1, CreatesDomain
  <2> QED
    BY <2>2, CreatesMapped
<1>3. CASE ForwarderEnds(c)
  <2>1. creates' \in Seq(Creates) /\ DOMAIN creates' = DOMAIN creates
    BY <1>2, <1>3 DEF ForwarderEnds
  <2>2. UNCHANGED <<store, compact_rev, registry, queue, got, hub, collector, clients>>
    BY <1>3 DEF ForwarderEnds
  <2> QED
    BY <2>1, <2>2 DEF TypeOK, store, hub, collector, clients
<1>4. CASE Tick(c)
  <2>1. creates' \in Seq(Creates) /\ DOMAIN creates' = DOMAIN creates
    BY <1>2, <1>4 DEF Tick
  <2>2. UNCHANGED <<store, compact_rev, registry, queue, got, hub, collector, awaits, up,
                    next_watch_id, progress>> /\ requests' = requests + 1
    BY <1>4 DEF Tick, Request
  <2> QED
    BY <2>1, <2>2, SMTT(30) DEF TypeOK, store, hub, collector
<1>5. CASE TickSend(c)
  <2>1. UNCHANGED <<store, compact_rev, got, hub, collector, awaits, up, next_watch_id, requests>>
    BY <1>5 DEF TickSend
  <2>2. CASE creates[c].stream \in up
    <3>1. creates' \in Seq(Creates) /\ DOMAIN creates' = DOMAIN creates
      BY <1>2, <1>5, <2>2 DEF TickSend
    <3>2. progress' \in [Streams -> Nat] /\ UNCHANGED <<registry, queue>>
      <4>1. current_revision \in Nat /\ progress \in [Streams -> Nat]
        BY RevType DEF TypeOK
      <4> QED
        BY <1>5, <2>2, <4>1 DEF TickSend
    <3> QED
      BY <2>1, <3>1, <3>2 DEF TypeOK, store, hub, collector
  <2>3. CASE creates[c].stream \notin up
    <3>1. Dropped(c) /\ UNCHANGED progress
      BY <1>5, <2>3 DEF TickSend
    <3>2. /\ creates' \in Seq(Creates) /\ DOMAIN creates' = DOMAIN creates
          /\ queue' \in [DOMAIN creates -> Seq(Events)] /\ registry' \subseteq DOMAIN creates
      BY <3>1, DroppedTypes
    <3> QED
      BY <2>1, <3>1, <3>2 DEF TypeOK, store, hub, collector
  <2> QED
    BY <2>2, <2>3
<1> QED
  BY <1>1, <1>3, <1>4, <1>5

(* The steps of the global loop.                                            *)
LEMMA AnsweredType ==
    ASSUME TypeOK, NEW cs, NEW b \in BOOLEAN
    PROVE  Answered(cs, b) \in Seq(Creates) /\ DOMAIN Answered(cs, b) = DOMAIN creates
<1>1. Answered(cs, b) \in [DOMAIN creates -> Creates]
  <2>1. ASSUME NEW c \in DOMAIN creates
        PROVE  [creates[c] EXCEPT !.state = "answered", !.created = b] \in Creates
    BY CreatesDomain, ReplyChange
  <2> QED
    BY <2>1, CreatesDomain DEF Answered
<1> QED
  BY <1>1, CreatesMapped

(* The steps of the global loop keep the type invariant.                    *)
LEMMA LoopTypes ==
    ASSUME TypeOK, Checkpoint \/ Screen \/ Phase1 \/ Phase2
    PROVE  TypeOK'
<1>0. NoPrev \in Prevs /\ prev_kv \in Prevs /\ NoCp \in [rev: Nat, off: Nat, epoch: Nat]
  BY DEF NoPrev, Prevs, NoCp, TypeOK
<1>1. CASE Checkpoint
  <2>1. creates' \in [DOMAIN creates -> Creates]
    <3>1. ASSUME NEW c \in DOMAIN creates
          PROVE  [creates[c] EXCEPT !.state = "batch"] \in Creates
      BY CreatesDomain, StateChange
    <3> QED
      BY <1>1, <3>1, CreatesDomain DEF Checkpoint
  <2>2. creates' \in Seq(Creates) /\ DOMAIN creates' = DOMAIN creates
    BY <2>1, CreatesMapped
  <2>3. cp' \in [rev: Nat, off: Nat, epoch: Nat] /\ loop' = "screen"
    <3>1. Len(wal) \in Nat /\ epoch \in Nat /\ current_revision \in Nat
      BY RevType DEF TypeOK
    <3> QED
      BY <1>1, <3>1 DEF Checkpoint
  <2>4. UNCHANGED <<store, compact_rev, registry, queue, got, prev_kv, hurt, early, collector, clients>>
    BY <1>1 DEF Checkpoint
  <2> QED
    BY <2>2, <2>3, <2>4 DEF TypeOK, store, collector, clients
<1>2. CASE Screen
  <2>1. PICK cs : creates' = Answered(cs, FALSE)
    BY <1>2 DEF Screen
  <2>2. creates' \in Seq(Creates) /\ DOMAIN creates' = DOMAIN creates
    BY <2>1, AnsweredType
  <2>3. cp' \in [rev: Nat, off: Nat, epoch: Nat] /\ loop' \in {"collect", "phase1"}
    BY <1>0, <1>2 DEF Screen, TypeOK
  <2>4. UNCHANGED <<store, compact_rev, registry, queue, got, prev_kv, hurt, early, collector, clients>>
    BY <1>2 DEF Screen
  <2> QED
    BY <2>2, <2>3, <2>4 DEF TypeOK, store, collector, clients
<1>3. CASE Phase1
  <2> DEFINE recs == Among(wal, {rec \in Record : rec.mod_revision <= cp.rev})
             scan == Scanned(recs, NoPrev)
             new == [c \in Are({"batch"}) |-> Among(scan.evts, Wanted(c) \cap Since(c))]
  <2>1. Deliver(new) /\ prev_kv' = scan.prev /\ loop' = "phase2"
    BY <1>3 DEF Phase1
  <2>2. scan.evts \in Seq(Events) /\ scan.prev \in Prevs
    <3>1. recs \in Seq(Record)
      BY AmongType DEF TypeOK
    <3> HIDE DEF recs
    <3>2. scan \in Scans
      BY <1>0, <3>1, ScannedType
    <3> QED
      BY <3>2 DEF Scans
  <2> HIDE DEF scan
  <2>3. \A c \in DOMAIN new : new[c] \in Seq(Events)
    BY <2>2, AmongType
  <2> HIDE DEF new
  <2>4. queue' \in [DOMAIN creates -> Seq(Events)]
    BY <2>1, <2>3, DeliverType
  <2>5. UNCHANGED <<store, compact_rev, registry, creates, got, cp, early, collector, clients>>
    BY <1>3 DEF Phase1
  <2>6. hurt' \subseteq DOMAIN creates
    BY <1>3, CreatesDomain DEF Phase1, TypeOK
  <2> QED
    BY <2>1, <2>2, <2>4, <2>5, <2>6 DEF TypeOK, store, collector, clients, Prevs
<1>4. CASE Phase2
  <2>1. PICK off \in Offsets :
           Deliver([c \in Are({"batch"}) |-> Among(Scanned(CatchUp(off), prev_kv).evts, Wanted(c))])
    BY <1>4 DEF Phase2
  <2> DEFINE scan == Scanned(CatchUp(off), prev_kv)
             new == [c \in Are({"batch"}) |-> Among(scan.evts, Wanted(c))]
  <2>2. scan.evts \in Seq(Events)
    <3>1. off \in Nat
      BY DEF Offsets, TypeOK
    <3>2. SubSeq(wal, off + 1, Len(wal)) \in Seq(Record)
      BY <3>1 DEF TypeOK
    <3>3. CatchUp(off) \in Seq(Record)
      BY <3>2, AmongType DEF CatchUp
    <3>4. scan \in Scans
      BY <1>0, <3>3, ScannedType
    <3> QED
      BY <3>4 DEF Scans
  <2>3. Deliver(new)
    BY <2>1
  <2> HIDE DEF scan
  <2>4. \A c \in DOMAIN new : new[c] \in Seq(Events)
    BY <2>2, AmongType
  <2> HIDE DEF new
  <2>5. queue' \in [DOMAIN creates -> Seq(Events)]
    BY <2>3, <2>4, DeliverType
  <2>6. creates' \in Seq(Creates) /\ DOMAIN creates' = DOMAIN creates
    BY <1>4, AnsweredType DEF Phase2
  <2>7. registry' \subseteq DOMAIN creates /\ hurt' \subseteq DOMAIN creates /\ early' \subseteq DOMAIN creates
    BY <1>4, CreatesDomain DEF Phase2, TypeOK
  <2>8. loop' = "collect" /\ cp' = NoCp /\ prev_kv' = NoPrev
    BY <1>4 DEF Phase2
  <2>9. UNCHANGED <<store, compact_rev, got, collector, clients>>
    BY <1>4 DEF Phase2
  <2> QED
    BY <1>0, <2>5, <2>6, <2>7, <2>8, <2>9 DEF TypeOK, store, collector, clients, Prevs
<1> QED
  BY <1>1, <1>2, <1>3, <1>4

(* A stuttering step keeps the type invariant.                              *)
LEMMA StutterTypes ==
    ASSUME TypeOK, UNCHANGED vars
    PROVE  TypeOK'
BY DEF TypeOK, vars, store, hub, collector, clients

(* The type invariant holds initially.                                      *)
LEMMA InitTypes == Init => TypeOK
<1> SUFFICES ASSUME Init PROVE TypeOK
  OBVIOUS
<1>1. keys \in Tables /\ next_rev \in 1 .. MaxRev + 1 /\ compact_rev \in Nat
  BY EmptyTableType, BoundsAssumption DEF Init
<1>2. /\ wal \in Seq(Record) /\ events \in Seq(Events) /\ creates \in Seq(Creates)
      /\ DOMAIN creates = {} /\ DOMAIN queue = {} /\ DOMAIN got = {}
  BY DEF Init
<1>3. queue \in [DOMAIN creates -> Seq(Events)] /\ got \in [DOMAIN creates -> Seq(Events)]
  <2>1. queue = [c \in {} |-> <<>>] /\ got = [c \in {} |-> <<>>]
    BY <1>2 DEF Init
  <2> QED
    BY <1>2, <2>1
<1>4. /\ cp \in [rev: Nat, off: Nat, epoch: Nat] /\ prev_kv \in [Keys -> Nat]
      /\ gc \in [on: BOOLEAN, recs: Seq(Record), mark: Nat, rev: Nat]
  BY DEF Init, NoCp, NoPrev, NoGc
<1> QED
  BY <1>1, <1>2, <1>3, <1>4 DEF TypeOK, Init

(* Every step keeps the type invariant.                                     *)
LEMMA NextTypes ==
    ASSUME TypeOK, [Next]_vars
    PROVE  TypeOK'
<1>1. CASE UNCHANGED vars
  BY <1>1, StutterTypes
<1>2. CASE Next
  BY <1>2, StoreTypes, StreamTypes, ForwarderTypes, LoopTypes DEF Next
<1> QED
  BY <1>1, <1>2

(* Spec keeps every variable in its type, whatever the requests and the     *)
(* order of the steps; in particular only create requests that were read    *)
(* are registered, and every one has its queue.                             *)
THEOREM TypeCorrect == Spec => []TypeOK
<1>1. Init => TypeOK
  BY InitTypes
<1>2. TypeOK /\ [Next]_vars => TypeOK'
  BY NextTypes
<1> QED
  BY <1>1, <1>2, PTL DEF Spec

-----------------------------------------------------------------------------
(* Identities.                                                              *)

(* What a request asks for never changes.                                   *)
SameRequest(c) ==
    /\ creates'[c].id = creates[c].id /\ creates'[c].bound = creates[c].bound
    /\ creates'[c].start = creates[c].start

Pending == {"queued", "batch"}

(* A step outside of the global loop: requests are only added, the ones the *)
(* loop has still to answer stay as they are, and registrations only go.    *)
Outside ==
    /\ DOMAIN creates \subseteq DOMAIN creates'
    /\ \A c \in DOMAIN creates : SameRequest(c)
    /\ \A c \in DOMAIN creates : creates[c].state \in Pending \/ creates'[c].state \in Pending
                                    => creates'[c].state = creates[c].state
    /\ \A c \in DOMAIN creates' \ DOMAIN creates : creates'[c].state = "queued"
    /\ registry' \subseteq registry
    /\ UNCHANGED hub

(* A step that at most removes registrations is outside of the global loop. *)
LEMMA NothingOutside ==
    ASSUME TypeOK, UNCHANGED creates, registry' \subseteq registry, UNCHANGED hub
    PROVE  Outside
BY DEF Outside, SameRequest

(* So is one that changes the state of a create that is not pending.        *)
LEMMA ChangeOutside ==
    ASSUME TypeOK, NEW c \in DOMAIN creates, NEW st \in {"open", "ticking", "ended"},
           creates[c].state \notin Pending, creates' = [creates EXCEPT ![c].state = st],
           registry' \subseteq registry, UNCHANGED hub
    PROVE  Outside
<1>1. DOMAIN creates' = DOMAIN creates
  OBVIOUS
<1>2. ASSUME NEW d \in DOMAIN creates, d # c PROVE creates'[d] = creates[d]
  BY <1>2
<1>3. creates'[c] = [creates[c] EXCEPT !.state = st] /\ creates[c] \in Creates
  BY CreatesDomain
<1>4. SameRequest(c) /\ creates'[c].state = st
  BY <1>3 DEF SameRequest, Creates
<1>5. st \notin Pending
  BY DEF Pending
<1>6. ASSUME NEW d \in DOMAIN creates
      PROVE  SameRequest(d) /\ (creates[d].state \in Pending \/ creates'[d].state \in Pending
                                   => creates'[d].state = creates[d].state)
  BY <1>2, <1>4, <1>5 DEF SameRequest
<1> QED
  BY <1>1, <1>6 DEF Outside

(* The steps of the store are outside of the global loop.                   *)
LEMMA StoreOutside ==
    ASSUME TypeOK,
           \/ \E k \in Keys : Put(k) \/ Delete(k)
           \/ \E rev \in 1 .. current_revision : Compact(rev)
           \/ CompactSnapshot \/ CompactSwap
    PROVE  Outside /\ UNCHANGED registry
<1>1. UNCHANGED creates /\ UNCHANGED registry /\ UNCHANGED hub
  BY DEF Put, Delete, Committed, Compact, CompactSnapshot, CompactSwap
<1> QED
  BY <1>1, NothingOutside

(* The steps of a stream are outside of the global loop.                    *)
LEMMA StreamOutside ==
    ASSUME TypeOK, NEW s \in Streams,
           \/ \E id \in WatchIds, bound \in Bounds, requested \in 0 .. MaxRev :
                 CreateRequest(s, id, bound, requested)
           \/ \E c \in DOMAIN creates : CancelRequest(s, creates[c].id)
           \/ ProgressRequest(s) \/ Disconnect(s) \/ TakeReply(s)
    PROVE  Outside
<1>1. ASSUME NEW id \in WatchIds, NEW bound \in Bounds, NEW requested \in 0 .. MaxRev,
             CreateRequest(s, id, bound, requested)
      PROVE  Outside
  <2> DEFINE n == Len(creates)
             r == [stream |-> s, id |-> IF id = 0 THEN next_watch_id ELSE id, bound |-> bound,
                   start |-> ResolveStart(requested), state |-> "queued", created |-> FALSE]
  <2>1. creates' = Append(creates, r) /\ registry' = registry /\ UNCHANGED hub
    BY <1>1 DEF CreateRequest
  <2>2. r.state = "queued"
    OBVIOUS
  <2> HIDE DEF r
  <2>3. /\ DOMAIN creates = 1 .. n /\ DOMAIN creates' = 1 .. n + 1 /\ n \in Nat
        /\ creates'[n + 1] = r /\ \A c \in 1 .. n : creates'[c] = creates[c]
    BY <2>1, SMTT(30) DEF TypeOK
  <2> HIDE DEF n
  <2> QED
    BY <2>1, <2>2, <2>3 DEF Outside, SameRequest
<1>2. ASSUME NEW c \in DOMAIN creates, CancelRequest(s, creates[c].id) PROVE Outside
  BY <1>2, NothingOutside DEF CancelRequest, CancelWatcher
<1>3. CASE ProgressRequest(s)
  BY <1>3, NothingOutside DEF ProgressRequest
<1>4. CASE Disconnect(s)
  BY <1>4, NothingOutside DEF Disconnect
<1>5. CASE TakeReply(s)
  <2> DEFINE c == awaits[s]
  <2>1. c \in DOMAIN creates /\ creates[c].state = "answered"
    BY <1>5 DEF TypeOK, TakeReply
  <2>2. PICK st \in {"open", "ended"} : creates' = [creates EXCEPT ![c].state = st]
    BY <1>5 DEF TakeReply
  <2>3. registry' \subseteq registry /\ UNCHANGED hub
    BY <1>5 DEF TakeReply
  <2>4. creates[c].state \notin Pending
    BY <2>1 DEF Pending
  <2> HIDE DEF c
  <2> QED
    BY <2>1, <2>2, <2>3, <2>4, ChangeOutside
<1> QED
  BY <1>1, <1>2, <1>3, <1>4, <1>5

(* The steps of a forwarder are outside of the global loop.                 *)
LEMMA ForwarderOutside ==
    ASSUME TypeOK, NEW c \in DOMAIN creates,
           Forward(c) \/ ForwarderEnds(c) \/ Tick(c) \/ TickSend(c)
    PROVE  Outside
<1>1. UNCHANGED hub
  BY DEF Forward, ForwarderEnds, Tick, TickSend
<1>2. registry' \subseteq registry
  BY DEF Forward, ForwarderEnds, Tick, TickSend, Dropped, CancelWatcher
<1>3. creates[c].state \notin Pending
  BY DEF Forward, ForwarderEnds, Tick, TickSend, Pending
<1>4. \/ UNCHANGED creates
      \/ \E st \in {"open", "ticking", "ended"} : creates' = [creates EXCEPT ![c].state = st]
  BY DEF Forward, ForwarderEnds, Tick, TickSend, Dropped
<1> QED
  BY <1>1, <1>2, <1>3, <1>4, NothingOutside, ChangeOutside

(* The replies of the loop.                                                 *)
LEMMA AnsweredRequests ==
    ASSUME TypeOK, NEW cs, NEW b \in BOOLEAN, creates' = Answered(cs, b)
    PROVE  /\ DOMAIN creates' = DOMAIN creates
           /\ \A c \in DOMAIN creates : SameRequest(c)
           /\ \A c \in DOMAIN creates : c \in cs => creates'[c].state = "answered"
           /\ \A c \in DOMAIN creates : c \notin cs => creates'[c] = creates[c]
<1>1. DOMAIN creates' = DOMAIN creates
  BY DEF Answered
<1>2. ASSUME NEW c \in DOMAIN creates, c \notin cs PROVE creates'[c] = creates[c]
  BY <1>2 DEF Answered
<1>3. ASSUME NEW c \in DOMAIN creates, c \in cs
      PROVE  SameRequest(c) /\ creates'[c].state = "answered"
  <2>1. creates'[c] = [creates[c] EXCEPT !.state = "answered", !.created = b]
    BY <1>3 DEF Answered
  <2>2. creates[c] \in Creates
    BY CreatesDomain
  <2> QED
    BY <2>1, <2>2 DEF SameRequest, Creates
<1> QED
  BY <1>1, <1>2, <1>3 DEF SameRequest

(* Steps outside of the global loop keep the invariant of the ids.          *)
LEMMA OutsideIds ==
    ASSUME TypeOK, IdsInv, Outside
    PROVE  IdsInv'
<1>1. registry' \subseteq DOMAIN creates /\ registry' \subseteq registry
  BY DEF Outside, TypeOK
<1>2. UniqueIds'
  BY <1>1 DEF Outside, SameRequest, IdsInv, UniqueIds
<1>3. ASSUME loop' \in {"phase1", "phase2"},
             NEW c \in (registry \cup Are({"batch"}))', NEW d \in (registry \cup Are({"batch"}))',
             creates'[c].id = creates'[d].id
      PROVE  c = d
  <2>1. ASSUME NEW x \in (registry \cup Are({"batch"}))'
        PROVE  x \in registry \cup Are({"batch"}) /\ x \in DOMAIN creates
    <3>1. CASE x \in registry'
      BY <1>1, <3>1
    <3>2. CASE x \in Are({"batch"})'
      <4>1. x \in DOMAIN creates' /\ creates'[x].state = "batch"
        BY <3>2 DEF Are
      <4>2. x \in DOMAIN creates /\ creates[x].state = "batch"
        BY <4>1 DEF Outside, Pending
      <4> QED
        BY <4>2 DEF Are
    <3> QED
      BY <2>1, <3>1, <3>2
  <2>2. loop = loop'
    BY DEF Outside, hub
  <2>3. creates[c].id = creates[d].id
    BY <1>3, <2>1 DEF Outside, SameRequest
  <2> QED
    BY <1>3, <2>1, <2>2, <2>3 DEF IdsInv
<1> QED
  BY <1>2, <1>3 DEF IdsInv

(* The steps of the global loop keep the invariant of the ids.              *)
LEMMA LoopIds ==
    ASSUME TypeOK, IdsInv, Checkpoint \/ Screen \/ Phase1 \/ Phase2
    PROVE  IdsInv'
<1>0. UniqueIds /\ registry \subseteq DOMAIN creates /\ Are({"batch"}) \subseteq DOMAIN creates
  BY CreatesDomain DEF IdsInv, TypeOK
<1>1. CASE Checkpoint
  <2>1. ASSUME NEW c \in DOMAIN creates PROVE creates'[c].id = creates[c].id
    <3>1. creates'[c] = creates[c] \/ creates'[c] = [creates[c] EXCEPT !.state = "batch"]
      BY <1>1 DEF Checkpoint
    <3>2. [creates[c] EXCEPT !.state = "batch"].id = creates[c].id
      BY CreatesDomain, StateChange
    <3> QED
      BY <3>1, <3>2
  <2>2. UNCHANGED registry /\ loop' = "screen"
    BY <1>1 DEF Checkpoint
  <2> QED
    BY <1>0, <2>1, <2>2 DEF IdsInv, UniqueIds
<1>2. CASE Screen
  <2> DEFINE cs == Are({"batch"})
             active == {c \in cs : ~Compacted(c) /\ ~TooLarge(c)}
             gone == Refused(cs, active)
  <2>1. creates' = Answered(gone, FALSE) /\ UNCHANGED registry
    BY <1>2 DEF Screen
  <2>2. /\ DOMAIN creates' = DOMAIN creates
        /\ \A c \in DOMAIN creates : creates'[c].id = creates[c].id
        /\ \A c \in DOMAIN creates : c \in gone => creates'[c].state = "answered"
        /\ \A c \in DOMAIN creates : c \notin gone => creates'[c] = creates[c]
    <3> HIDE DEF gone
    <3> QED
      BY <2>1, AnsweredRequests DEF SameRequest
  <2>3. UniqueIds'
    <3>1. registry' = registry /\ \A c \in registry : creates'[c].id = creates[c].id
      BY <1>0, <2>1, <2>2
    <3> QED
      BY <1>0, <3>1 DEF UniqueIds
  <2>4. ASSUME NEW c \in Are({"batch"})'
        PROVE  c \in active /\ ~DuplicateId(c, active) /\ c \in DOMAIN creates
    <3>1. c \in DOMAIN creates /\ creates'[c].state = "batch"
      BY <2>2 DEF Are
    <3>2. c \notin gone
      BY <2>2, <3>1
    <3>3. c \in cs
      BY <2>2, <3>1, <3>2 DEF Are
    <3> QED
      BY <3>1, <3>2, <3>3 DEF Refused
  <2> HIDE DEF active, gone
  <2>5. ASSUME NEW c \in (registry \cup Are({"batch"}))', NEW d \in (registry \cup Are({"batch"}))',
               creates'[c].id = creates'[d].id
        PROVE  c = d
    <3>1. c \in DOMAIN creates /\ d \in DOMAIN creates
      BY <1>0, <2>1, <2>4
    <3>2. creates[c].id = creates[d].id
      BY <2>2, <2>5, <3>1
    <3>3. CASE c \in registry /\ d \in registry
      BY <1>0, <3>2, <3>3 DEF UniqueIds
    <3>4. CASE c \in registry /\ d \in Are({"batch"})'
      BY <2>4, <3>2, <3>4 DEF DuplicateId
    <3>5. CASE c \in Are({"batch"})' /\ d \in registry
      BY <2>4, <3>2, <3>5 DEF DuplicateId
    <3>6. CASE c \in Are({"batch"})' /\ d \in Are({"batch"})'
      <4>1. c \in Nat /\ d \in Nat
        BY <3>1, CreatesDomain
      <4>2. ~(c < d) /\ ~(d < c)
        BY <2>4, <3>2, <3>6 DEF DuplicateId
      <4> QED
        BY <4>1, <4>2
    <3> QED
      BY <2>1, <2>5, <3>3, <3>4, <3>5, <3>6
  <2> QED
    BY <2>3, <2>5 DEF IdsInv
<1>3. CASE Phase1
  <2>1. UNCHANGED <<registry, creates>> /\ loop = "phase1"
    BY <1>3 DEF Phase1
  <2> QED
    BY <2>1 DEF IdsInv, UniqueIds, Are
<1>4. CASE Phase2
  <2>1. /\ creates' = Answered(Are({"batch"}), TRUE) /\ registry' = registry \cup Are({"batch"})
        /\ loop = "phase2" /\ loop' = "collect"
    BY <1>4 DEF Phase2
  <2>2. \A c \in DOMAIN creates : creates'[c].id = creates[c].id
    BY <2>1, AnsweredRequests DEF SameRequest
  <2>3. \A c, d \in registry \cup Are({"batch"}) : creates[c].id = creates[d].id => c = d
    BY <2>1 DEF IdsInv
  <2>4. registry' \subseteq DOMAIN creates
    BY <1>0, <2>1
  <2>5. UniqueIds'
    BY <2>1, <2>2, <2>3, <2>4 DEF UniqueIds
  <2> QED
    BY <2>1, <2>5 DEF IdsInv
<1> QED
  BY <1>1, <1>2, <1>3, <1>4

(* No two registrations ever have the same id, however creates, cancels and *)
(* disconnects fall between the screening of a batch and its registration:  *)
(* the loop is the only one that registers.                                 *)
THEOREM IdsAreUnique == Spec => []UniqueIds
<1>1. Init => TypeOK /\ IdsInv
  BY InitTypes DEF Init, IdsInv, UniqueIds
<1>2. TypeOK /\ IdsInv /\ [Next]_vars => TypeOK' /\ IdsInv'
  <2> SUFFICES ASSUME TypeOK, IdsInv, [Next]_vars PROVE IdsInv'
    BY NextTypes
  <2>1. CASE UNCHANGED vars
    <3>1. UNCHANGED <<registry, creates, loop>>
      BY <2>1 DEF vars, hub
    <3> QED
      BY <3>1 DEF IdsInv, UniqueIds, Are
  <2>2. CASE Next
    BY <2>2, StoreOutside, StreamOutside, ForwarderOutside, OutsideIds, LoopIds DEF Next
  <2> QED
    BY <2>1, <2>2
<1>3. IdsInv => UniqueIds
  BY DEF IdsInv
<1> QED
  BY <1>1, <1>2, <1>3, PTL DEF Spec

-----------------------------------------------------------------------------
(* What the events and the log say.  p[r] are the versions of the keys at   *)
(* revision r.                                                              *)

(* Every event carries its revision and the version it replaces.            *)
History(p) ==
    /\ Len(events) = current_revision
    /\ p \in [0 .. current_revision -> Prevs] /\ p[0] = NoPrev
    /\ \A i \in 1 .. current_revision :
          /\ events[i].rev = i /\ events[i].prev = p[i - 1][events[i].key]
          /\ p[i] = AfterEvent(p[i - 1], events[i])
    /\ \A i \in 0 .. current_revision, k \in Keys : p[i][k] <= i
    /\ p[current_revision] = VersionsOf(keys)

(* The log is a snapshot of the versions at floor and the records of the    *)
(* events since.                                                            *)
HeadLen == Len(wal) - (current_revision - floor)

LogOk(p) ==
    /\ floor <= current_revision /\ current_revision - floor <= Len(wal)
    /\ \A i \in 1 .. HeadLen : wal[i].mod_revision <= floor
    /\ \A j \in floor + 1 .. current_revision :
          Event(wal[HeadLen + (j - floor)], events[j].prev) = events[j]
    /\ Scanned(SubSeq(wal, 1, HeadLen), NoPrev).prev = p[floor]

(* So is the log that compact_wal is about to put in its place.             *)
GcOk(p) ==
    gc.on =>
        /\ floor <= gc.rev /\ gc.rev <= current_revision
        /\ gc.mark <= Len(wal) /\ Len(wal) - gc.mark = current_revision - gc.rev
        /\ \A i \in 1 .. Len(gc.recs) : gc.recs[i].mod_revision <= gc.rev
        /\ Scanned(gc.recs, NoPrev).prev = p[gc.rev]

(* The checkpoint names a revision and where its records end, as long as    *)
(* the log is not replaced.                                                 *)
CpOk(p) ==
    loop # "collect" =>
        /\ cp.epoch <= epoch
        /\ cp.epoch = epoch =>
              /\ floor <= cp.rev /\ cp.rev <= current_revision
              /\ cp.off <= Len(wal) /\ Len(wal) - cp.off = current_revision - cp.rev
              /\ loop = "phase2" => prev_kv = p[cp.rev]

LogInv == \E p : History(p) /\ LogOk(p) /\ GcOk(p) /\ CpOk(p)

(* A create the loop has still to answer has got nothing but its replay.    *)
QueuesOk ==
    /\ \A c \in registry : creates[c].state \notin Pending
    /\ \A c \in Are(Pending) :
          /\ got[c] = <<>>
          /\ creates[c].state = "queued" \/ loop # "phase2" => queue[c] = <<>>
    /\ loop = "phase2" /\ cp.epoch = epoch =>
          \A c \in Are({"batch"}) \ hurt :
              queue[c] = Among(SubSeq(events, 1, cp.rev), Wanted(c) \cap Since(c))

(* Steps that leave the store, the log and the locals of the loop alone.    *)
LEMMA FrameLog ==
    ASSUME LogInv,
           UNCHANGED <<keys, next_rev, wal, events, floor, epoch, gc, loop, cp, prev_kv>>
    PROVE  LogInv'
<1>1. PICK p : History(p) /\ LogOk(p) /\ GcOk(p) /\ CpOk(p)
  BY DEF LogInv
<1>2. History(p)' /\ LogOk(p)' /\ GcOk(p)' /\ CpOk(p)'
  BY <1>1 DEF History, LogOk, HeadLen, GcOk, CpOk, current_revision
<1> QED
  BY <1>2 DEF LogInv

(* A write is recorded with the next revision, and changes the version of   *)
(* its key alone.                                                           *)
LEMMA WriteVersions ==
    ASSUME TypeOK, NEW k \in Keys, Put(k) \/ Delete(k)
    PROVE  \E rec \in Record, table \in Tables :
              /\ Committed(rec, table) /\ rec.mod_revision = next_rev
              /\ VersionsOf(table) = [VersionsOf(keys) EXCEPT
                                         ![rec.key] = IF rec.deleted THEN 0 ELSE next_rev]
<1>1. keys \in Tables /\ next_rev \in Nat /\ next_rev # 0 /\ EmptyValue \in Values /\ 0 \in Nat
  BY ValuesAssumption DEF TypeOK
<1>2. CASE Put(k)
  <2> DEFINE rec == PutRecord(keys, k, EmptyValue, 0, next_rev)
             table == ApplyPut(keys, k, EmptyValue, 0, next_rev)
  <2>1. rec \in Record /\ table \in Tables
    BY <1>1, RecordType, ApplyPutType
  <2>2. rec.key = k /\ rec.mod_revision = next_rev
    BY DEF PutRecord
  <2>3. ~rec.deleted
    BY DEF PutRecord
  <2>4. /\ table[k].mod_revision = next_rev /\ table[k].delete_revision = 0
        /\ table[k].version = NextVersion(keys, k)
        /\ \A j \in Keys : j # k => table[j] = keys[j]
    BY <1>1 DEF ApplyPut, PutEntry, Tables
  <2>5. NextVersion(keys, k) # 0
    BY <1>1 DEF NextVersion, Tables, KeyState
  <2>6. VersionsOf(table) = [VersionsOf(keys) EXCEPT ![k] = next_rev]
    <3> HIDE DEF table
    <3> QED
      BY <2>4, <2>5 DEF VersionsOf, Alive, Present
  <2>7. Committed(rec, table)
    BY <1>2 DEF Put
  <2> HIDE DEF rec, table
  <2> QED
    BY <2>1, <2>2, <2>3, <2>6, <2>7
<1>3. CASE Delete(k)
  <2> DEFINE rec == DeleteRecord(keys, k, next_rev)
             table == ApplyDelete(keys, k, next_rev)
  <2>1. rec \in Record /\ table \in Tables
    BY <1>1, RecordType DEF ApplyDelete, Tables, KeyState
  <2>2. rec.key = k /\ rec.mod_revision = next_rev
    BY DEF DeleteRecord
  <2>3. rec.deleted
    BY DEF DeleteRecord
  <2>4. table[k].delete_revision = next_rev /\ \A j \in Keys : j # k => table[j] = keys[j]
    BY <1>1, <1>3 DEF Delete, ApplyDelete, Tables, KeyState
  <2>5. VersionsOf(table) = [VersionsOf(keys) EXCEPT ![k] = 0]
    <3> HIDE DEF table
    <3> QED
      BY <1>1, <2>4 DEF VersionsOf, Alive, Present
  <2>6. Committed(rec, table)
    BY <1>3 DEF Delete
  <2> HIDE DEF rec, table
  <2> QED
    BY <2>1, <2>2, <2>3, <2>5, <2>6
<1> QED
  BY <1>2, <1>3

(* The event of a write, of the versions before it.                         *)
LEMMA WriteEvent ==
    ASSUME TypeOK, NEW rec \in Record
    PROVE  LET e == Event(rec, IF Alive(keys, rec.key) THEN keys[rec.key].mod_revision ELSE 0)
           IN  e = Event(rec, VersionsOf(keys)[rec.key]) /\ e \in Events
<1>1. rec.key \in Keys /\ keys[rec.key].mod_revision \in Nat
  BY DEF Record, TypeOK, Tables, KeyState
<1> QED
  BY <1>1, EventType DEF VersionsOf

(* A commit keeps the invariant of the log.                                 *)
LEMMA CommittedLog ==
    ASSUME TypeOK, LogInv, NEW rec \in Record, NEW table \in Tables, Committed(rec, table),
           rec.mod_revision = next_rev,
           VersionsOf(table) = [VersionsOf(keys) EXCEPT
                                   ![rec.key] = IF rec.deleted THEN 0 ELSE next_rev]
    PROVE  LogInv'
<1> DEFINE n == current_revision
           e == Event(rec, VersionsOf(keys)[rec.key])
<1>1. PICK p : History(p) /\ LogOk(p) /\ GcOk(p) /\ CpOk(p)
  BY DEF LogInv
<1>2. n \in Nat /\ next_rev = n + 1 /\ e \in Events
  BY RevType, WriteEvent
<1>3. /\ next_rev' = next_rev + 1 /\ keys' = table /\ wal' = Append(wal, rec)
      /\ events' = Append(events, e)
      /\ UNCHANGED <<floor, epoch, gc, loop, cp, prev_kv>>
  BY WriteEvent DEF Committed, hub, collector
<1>4. current_revision' = n + 1
  BY <1>2, <1>3 DEF current_revision
<1>5. /\ e.rev = n + 1 /\ e.key = rec.key /\ e.key \in Keys /\ e.prev = VersionsOf(keys)[e.key]
      /\ AfterEvent(VersionsOf(keys), e) = VersionsOf(table)
  <2>1. e.rev = n + 1 /\ e.key = rec.key /\ e.prev = VersionsOf(keys)[e.key] /\ e.key \in Keys
    BY <1>2 DEF Event, Record
  <2>2. e.deleted = rec.deleted
    BY DEF Event
  <2> HIDE DEF e
  <2>3. AfterEvent(VersionsOf(keys), e) =
           [VersionsOf(keys) EXCEPT ![rec.key] = IF rec.deleted THEN 0 ELSE next_rev]
    BY <1>2, <2>1, <2>2 DEF AfterEvent
  <2> QED
    BY <2>1, <2>3
<1>6. /\ Len(events) = n /\ p \in [0 .. n -> Prevs] /\ p[0] = NoPrev /\ p[n] = VersionsOf(keys)
      /\ \A i \in 1 .. n : /\ events[i].rev = i /\ events[i].prev = p[i - 1][events[i].key]
                           /\ p[i] = AfterEvent(p[i - 1], events[i])
      /\ \A i \in 0 .. n, k \in Keys : p[i][k] <= i
  BY <1>1 DEF History
<1> HIDE DEF n, e
<1>q. PICK q : q = [i \in 0 .. n + 1 |-> IF i <= n THEN p[i] ELSE VersionsOf(table)]
  OBVIOUS
<1>7. (\A i \in 0 .. n : q[i] = p[i]) /\ q[n + 1] = VersionsOf(table) /\ DOMAIN q = 0 .. n + 1
  BY <1>2, <1>q
<1>8. VersionsOf(table) \in Prevs /\ \A k \in Keys : VersionsOf(table)[k] <= n + 1
  <2>1. VersionsOf(keys) \in Prevs /\ \A k \in Keys : VersionsOf(keys)[k] <= n
    BY <1>2, <1>6
  <2> QED
    BY <1>2, <2>1 DEF Prevs, Record
<1>9. q \in [0 .. n + 1 -> Prevs]
  BY <1>2, <1>6, <1>8, <1>q
<1>10. /\ Len(events') = n + 1 /\ events'[n + 1] = e
       /\ \A i \in 1 .. n : events'[i] = events[i]
  BY <1>2, <1>3, <1>6 DEF TypeOK
<1>11. History(q)'
  <2>1. ASSUME NEW i \in 1 .. n + 1
        PROVE  /\ events'[i].rev = i /\ events'[i].prev = q[i - 1][events'[i].key]
               /\ q[i] = AfterEvent(q[i - 1], events'[i])
    <3>1. CASE i \in 1 .. n
      <4>1. i - 1 \in 0 .. n /\ q[i] = p[i] /\ q[i - 1] = p[i - 1] /\ events'[i] = events[i]
        BY <1>2, <1>7, <1>10, <3>1
      <4> QED
        BY <1>6, <3>1, <4>1
    <3>2. CASE i = n + 1
      <4>1. i - 1 = n /\ q[n] = VersionsOf(keys) /\ q[i] = VersionsOf(table) /\ events'[i] = e
        BY <1>2, <1>6, <1>7, <1>10, <3>2
      <4> QED
        BY <1>5, <3>2, <4>1
    <3> QED
      BY <1>2, <3>1, <3>2
  <2>2. ASSUME NEW i \in 0 .. n + 1, NEW k \in Keys PROVE q[i][k] <= i
    <3>1. CASE i \in 0 .. n
      BY <1>6, <1>7, <3>1
    <3>2. CASE i = n + 1
      BY <1>7, <1>8, <3>2
    <3> QED
      BY <1>2, <3>1, <3>2
  <2>3. q[0] = NoPrev /\ q[n + 1] = VersionsOf(keys') /\ Len(events') = n + 1
    BY <1>2, <1>3, <1>6, <1>7, <1>10
  <2>4. /\ Len(events') = current_revision'
        /\ q \in [0 .. current_revision' -> Prevs] /\ q[0] = NoPrev
        /\ q[current_revision'] = VersionsOf(keys')
    BY <1>4, <1>9, <2>3
  <2>5. \A i \in 1 .. current_revision' :
           /\ events'[i].rev = i /\ events'[i].prev = q[i - 1][events'[i].key]
           /\ q[i] = AfterEvent(q[i - 1], events'[i])
    BY <1>4, <2>1
  <2>6. \A i \in 0 .. current_revision', k \in Keys : q[i][k] <= i
    BY <1>4, <2>2
  <2> QED
    BY <2>4, <2>5, <2>6 DEF History
<1> DEFINE h == HeadLen
<1>12. /\ floor \in 0 .. n /\ n - floor <= Len(wal) /\ Len(wal) \in Nat
       /\ h = Len(wal) - (n - floor) /\ h \in 0 .. Len(wal)
       /\ \A i \in 1 .. h : wal[i].mod_revision <= floor
       /\ \A j \in floor + 1 .. n : Event(wal[h + (j - floor)], events[j].prev) = events[j]
       /\ Scanned(SubSeq(wal, 1, h), NoPrev).prev = p[floor]
  BY <1>1, <1>2 DEF LogOk, TypeOK, HeadLen, n
<1>13. /\ Len(wal') = Len(wal) + 1 /\ wal'[Len(wal) + 1] = rec
       /\ \A i \in 1 .. Len(wal) : wal'[i] = wal[i]
       /\ SubSeq(wal', 1, h) = SubSeq(wal, 1, h)
  <2>1. wal \in Seq(Record) /\ wal' = Append(wal, rec) /\ h \in 0 .. Len(wal) /\ Len(wal) \in Nat
    BY <1>3, <1>12 DEF TypeOK
  <2> HIDE DEF h
  <2>2. \A s \in Seq(Record), x \in Record :
           /\ Len(Append(s, x)) = Len(s) + 1 /\ Append(s, x)[Len(s) + 1] = x
           /\ \A i \in 1 .. Len(s) : Append(s, x)[i] = s[i]
           /\ \A i \in 0 .. Len(s) : SubSeq(Append(s, x), 1, i) = SubSeq(s, 1, i)
    OBVIOUS
  <2> QED
    BY <2>1, <2>2
<1>14. HeadLen' = h
  BY <1>2, <1>3, <1>4, <1>12, <1>13 DEF HeadLen
<1> HIDE DEF h
<1>15. LogOk(q)'
  <2>1. ASSUME NEW j \in floor + 1 .. n + 1
        PROVE  Event(wal'[h + (j - floor)], events'[j].prev) = events'[j]
    <3>1. CASE j \in floor + 1 .. n
      <4>1. h + (j - floor) \in 1 .. Len(wal) /\ j \in 1 .. n
        BY <1>2, <1>12, <3>1
      <4> QED
        BY <1>10, <1>12, <1>13, <3>1, <4>1
    <3>2. CASE j = n + 1
      <4>1. h + (j - floor) = Len(wal) + 1
        BY <1>2, <1>12, <3>2
      <4>2. Event(rec, e.prev) = e
        BY DEF e, Event
      <4> QED
        BY <1>10, <1>13, <3>2, <4>1, <4>2
    <3> QED
      BY <1>2, <1>12, <3>1, <3>2
  <2>2. ASSUME NEW i \in 1 .. h PROVE wal'[i].mod_revision <= floor
    <3>1. i \in 1 .. Len(wal)
      BY <1>12
    <3> QED
      BY <1>12, <1>13, <3>1
  <2>3. Scanned(SubSeq(wal', 1, h), NoPrev).prev = q[floor]
    BY <1>7, <1>12, <1>13
  <2>4. floor <= n + 1 /\ (n + 1) - floor <= Len(wal')
    BY <1>2, <1>12, <1>13
  <2>5. floor' <= current_revision' /\ current_revision' - floor' <= Len(wal')
    BY <1>3, <1>4, <2>4
  <2>6. \A i \in 1 .. HeadLen' : wal'[i].mod_revision <= floor'
    BY <1>3, <1>14, <2>2
  <2>7. \A j \in floor' + 1 .. current_revision' :
           Event(wal'[HeadLen' + (j - floor')], events'[j].prev) = events'[j]
    BY <1>3, <1>4, <1>14, <2>1
  <2>8. Scanned(SubSeq(wal', 1, HeadLen'), NoPrev).prev = q[floor']
    BY <1>3, <1>14, <2>3
  <2> QED
    BY <2>5, <2>6, <2>7, <2>8 DEF LogOk
<1>16. GcOk(q)'
  <2>1. SUFFICES ASSUME gc.on PROVE GcOk(q)'
    BY <1>3 DEF GcOk
  <2>2. /\ floor <= gc.rev /\ gc.rev \in 0 .. n /\ gc.mark <= Len(wal) /\ gc.mark \in Nat
        /\ Len(wal) - gc.mark = n - gc.rev
        /\ \A i \in 1 .. Len(gc.recs) : gc.recs[i].mod_revision <= gc.rev
        /\ Scanned(gc.recs, NoPrev).prev = p[gc.rev]
    BY <1>1, <2>1, SMTT(30) DEF GcOk, TypeOK, n
  <2>3. gc.rev <= n + 1 /\ gc.mark <= Len(wal') /\ Len(wal') - gc.mark = (n + 1) - gc.rev
    <3>1. Len(wal) \in Nat /\ Len(wal') = Len(wal) + 1
      BY <1>12, <1>13
    <3>2. gc.rev \in Nat /\ gc.mark \in Nat /\ gc.rev <= n /\ gc.mark <= Len(wal)
          /\ Len(wal) - gc.mark = n - gc.rev
      BY <1>2, <2>2
    <3> QED
      BY <1>2, <3>1, <3>2
  <2>4. q[gc.rev] = p[gc.rev]
    BY <1>7, <2>2
  <2> QED
    <3>1. gc' = gc /\ floor' = floor /\ current_revision' = n + 1
      BY <1>3, <1>4
    <3> QED
      BY <2>2, <2>3, <2>4, <3>1 DEF GcOk
<1>17. CpOk(q)'
  <2>1. SUFFICES ASSUME loop # "collect" PROVE CpOk(q)'
    BY <1>3 DEF CpOk
  <2>2. cp.epoch <= epoch
    BY <1>1, <2>1 DEF CpOk
  <2>3. SUFFICES ASSUME cp.epoch = epoch PROVE CpOk(q)'
    BY <1>3, <2>1, <2>2 DEF CpOk
  <2>4. /\ floor <= cp.rev /\ cp.rev \in 0 .. n /\ cp.off <= Len(wal) /\ cp.off \in Nat
        /\ Len(wal) - cp.off = n - cp.rev
        /\ loop = "phase2" => prev_kv = p[cp.rev]
    BY <1>1, <2>1, <2>3 DEF CpOk, TypeOK, n
  <2>5. cp.rev <= n + 1 /\ cp.off <= Len(wal') /\ Len(wal') - cp.off = (n + 1) - cp.rev
    <3>1. Len(wal) \in Nat /\ Len(wal') = Len(wal) + 1
      BY <1>12, <1>13
    <3> QED
      BY <1>2, <2>4, <3>1, SMTT(30)
  <2>6. q[cp.rev] = p[cp.rev]
    BY <1>7, <2>4
  <2> QED
    <3>1. UNCHANGED <<cp, floor, epoch, loop, prev_kv>> /\ current_revision' = n + 1
      BY <1>3, <1>4
    <3> QED
      BY <2>2, <2>4, <2>5, <2>6, <3>1 DEF CpOk
<1> QED
  BY <1>11, <1>15, <1>16, <1>17 DEF LogInv

(* The parts of a log.                                                      *)
LEMMA LogParts ==
    ASSUME TypeOK, NEW p, LogOk(p)
    PROVE  /\ wal \in Seq(Record) /\ Len(wal) \in Nat /\ current_revision \in Nat /\ floor \in Nat
           /\ floor <= current_revision /\ HeadLen \in 0 .. Len(wal)
           /\ HeadLen = Len(wal) - (current_revision - floor)
<1>1. wal \in Seq(Record) /\ current_revision \in Nat /\ floor \in Nat
  BY RevType DEF TypeOK
<1>2. Len(wal) \in Nat
  BY <1>1
<1>3. floor <= current_revision /\ current_revision - floor <= Len(wal)
  BY DEF LogOk
<1> QED
  BY <1>1, <1>2, <1>3 DEF HeadLen

(* The elements of two joined sequences.                                    *)
LEMMA ConcatParts ==
    ASSUME NEW E, NEW r \in Seq(E), NEW s \in Seq(E)
    PROVE  /\ r \o s \in Seq(E) /\ Len(r \o s) = Len(r) + Len(s)
           /\ \A i \in 1 .. Len(r) : (r \o s)[i] = r[i]
           /\ \A i \in 1 .. Len(s) : (r \o s)[Len(r) + i] = s[i]
           /\ SubSeq(r \o s, 1, Len(r)) = r
<1>1. /\ r \o s \in Seq(E) /\ Len(r \o s) = Len(r) + Len(s)
      /\ \A i \in 1 .. Len(r) : (r \o s)[i] = r[i]
      /\ \A i \in 1 .. Len(s) : (r \o s)[Len(r) + i] = s[i]
  OBVIOUS
<1>2. SubSeq(r \o s, 1, Len(r)) = r
  <2> DEFINE t == r \o s
             n == Len(r)
             u == SubSeq(t, 1, n)
  <2>1. t \in Seq(E) /\ n \in Nat /\ n <= Len(t) /\ \A i \in 1 .. n : t[i] = r[i]
    BY <1>1
  <2> HIDE DEF t
  <2>2. u \in Seq(E) /\ Len(u) = n /\ \A i \in 1 .. n : u[i] = t[i]
    BY <2>1
  <2> HIDE DEF u
  <2>3. u = r
    BY <2>1, <2>2, SeqEqual
  <2> QED
    BY <2>3 DEF u, t
<1> QED
  BY <1>1, <1>2

(* The elements of the rest of a sequence.                                  *)
LEMMA SuffixParts ==
    ASSUME NEW E, NEW s \in Seq(E), NEW i \in 0 .. Len(s)
    PROVE  /\ SubSeq(s, i + 1, Len(s)) \in Seq(E) /\ Len(SubSeq(s, i + 1, Len(s))) = Len(s) - i
           /\ \A j \in 1 .. Len(s) - i : SubSeq(s, i + 1, Len(s))[j] = s[i + j]
OBVIOUS

(* The snapshot of a compaction keeps the invariant of the log.             *)
LEMMA SnapshotLog ==
    ASSUME TypeOK, LogInv, CompactSnapshot
    PROVE  LogInv'
<1> DEFINE n == current_revision
           snap == SnapshotRecords(keys)
<1>1. PICK p : History(p) /\ LogOk(p) /\ GcOk(p) /\ CpOk(p)
  BY DEF LogInv
<1>2. /\ UNCHANGED <<keys, next_rev, wal, events, floor, epoch, loop, cp, prev_kv>>
      /\ gc' = [on |-> TRUE, recs |-> snap, mark |-> Len(wal), rev |-> n]
  BY DEF CompactSnapshot, store, hub
<1>3. History(p)' /\ LogOk(p)' /\ CpOk(p)'
  BY <1>1, <1>2 DEF History, LogOk, HeadLen, CpOk, current_revision
<1>4. floor <= n /\ n \in Nat /\ Len(wal) \in Nat
  BY <1>1, LogParts
<1>5. /\ \A k \in Keys : VersionsOf(keys)[k] <= n
      /\ p[n] = VersionsOf(keys)
  <2>1. n \in 0 .. n
    BY <1>4
  <2> QED
    BY <1>1, <2>1 DEF History
<1>6. ASSUME NEW i \in 1 .. Len(snap) PROVE snap[i].mod_revision <= n
  <2> DEFINE live == InOrder(AliveKeys(keys))
             m == Cardinality(AliveKeys(keys))
  <2>1. keys \in Tables /\ AliveKeys(keys) \in SUBSET Keys
    BY DEF TypeOK, AliveKeys
  <2>2. Len(snap) = m /\ snap[i].mod_revision = keys[live[i]].mod_revision /\ i \in 1 .. m
    BY <2>1, SnapshotDef
  <2>3. live[i] \in AliveKeys(keys)
    BY <2>1, <2>2, InOrderDef
  <2>4. live[i] \in Keys /\ VersionsOf(keys)[live[i]] = keys[live[i]].mod_revision
    BY <2>3 DEF VersionsOf, AliveKeys
  <2> QED
    BY <1>5, <2>2, <2>4
<1>7. Scanned(snap, NoPrev).prev = p[n]
  BY <1>5, ScanSnapshot DEF TypeOK
<1> HIDE DEF snap
<1>8. /\ gc'.recs = snap /\ gc'.mark = Len(wal) /\ gc'.rev = n /\ floor' = floor /\ wal' = wal
      /\ current_revision' = n
  BY <1>2 DEF current_revision
<1> HIDE DEF n
<1>9. GcOk(p)'
  BY <1>4, <1>6, <1>7, <1>8 DEF GcOk
<1> QED
  BY <1>3, <1>9 DEF LogInv

(* Swapping the compacted file in keeps the invariant of the log.           *)
LEMMA SwapLog ==
    ASSUME TypeOK, LogInv, CompactSwap
    PROVE  LogInv'
<1> DEFINE n == current_revision
           m == Len(gc.recs)
           recs == gc.recs
           rev == gc.rev
           mark == gc.mark
           rest == SubSeq(wal, mark + 1, Len(wal))
<1>1. PICK p : History(p) /\ LogOk(p) /\ GcOk(p) /\ CpOk(p)
  BY DEF LogInv
<1>2. /\ UNCHANGED <<keys, next_rev, events, loop, cp, prev_kv>> /\ gc.on
      /\ wal' = recs \o rest /\ gc' = NoGc /\ floor' = rev /\ epoch' = epoch + 1
  BY DEF CompactSwap, hub
<1>3. /\ floor <= rev /\ rev <= n /\ mark <= Len(wal) /\ Len(wal) - mark = n - rev
      /\ \A i \in 1 .. m : recs[i].mod_revision <= rev
      /\ Scanned(recs, NoPrev).prev = p[rev]
  BY <1>1, <1>2 DEF GcOk
<1>4. /\ recs \in Seq(Record) /\ rev \in Nat /\ mark \in Nat /\ m \in Nat
      /\ Len(wal) \in Nat /\ n \in Nat /\ floor \in Nat /\ wal \in Seq(Record)
      /\ HeadLen = Len(wal) - (n - floor)
  BY <1>1, LogParts DEF TypeOK
<1>5. current_revision' = n
  BY <1>2 DEF current_revision
<1>6. History(p)'
  BY <1>1, <1>2, <1>5 DEF History
<1> HIDE DEF n, rev, mark
<1>7. /\ rest \in Seq(Record) /\ Len(rest) = n - rev
      /\ \A i \in 1 .. n - rev : rest[i] = wal[mark + i]
  <2>1. mark \in 0 .. Len(wal)
    BY <1>3, <1>4
  <2> QED
    BY <1>3, <1>4, <2>1, SuffixParts
<1>8. /\ Len(wal') = m + (n - rev) /\ SubSeq(wal', 1, m) = recs
      /\ \A i \in 1 .. m : wal'[i] = recs[i]
      /\ \A i \in 1 .. n - rev : wal'[m + i] = rest[i]
  <2>1. m = Len(recs)
    OBVIOUS
  <2> HIDE DEF recs, rest, m
  <2>2. \A r, s \in Seq(Record) :
           /\ Len(r \o s) = Len(r) + Len(s) /\ SubSeq(r \o s, 1, Len(r)) = r
           /\ \A i \in 1 .. Len(r) : (r \o s)[i] = r[i]
           /\ \A i \in 1 .. Len(s) : (r \o s)[Len(r) + i] = s[i]
    BY ConcatParts
  <2>3. recs \in Seq(Record) /\ rest \in Seq(Record)
    BY <1>4, <1>7
  <2>4. /\ Len(recs \o rest) = Len(recs) + Len(rest) /\ SubSeq(recs \o rest, 1, Len(recs)) = recs
        /\ \A i \in 1 .. Len(recs) : (recs \o rest)[i] = recs[i]
        /\ \A i \in 1 .. Len(rest) : (recs \o rest)[Len(recs) + i] = rest[i]
    BY <2>2, <2>3
  <2>5. wal' = recs \o rest /\ Len(rest) = n - rev
    BY <1>2, <1>7
  <2> QED
    BY <2>1, <2>4, <2>5, Zenon
<1> HIDE DEF rest
<1>9. HeadLen' = m
  BY <1>2, <1>3, <1>4, <1>5, <1>8 DEF HeadLen
<1>10. LogOk(p)'
  <2>1. floor' <= current_revision' /\ current_revision' - floor' <= Len(wal')
    BY <1>2, <1>3, <1>4, <1>5, <1>8
  <2>2. \A i \in 1 .. m : wal'[i].mod_revision <= rev
    BY <1>3, <1>8
  <2>3. ASSUME NEW j \in rev + 1 .. n
        PROVE  Event(wal'[m + (j - rev)], events[j].prev) = events[j]
    <3>1. /\ j - rev \in 1 .. n - rev /\ j \in floor + 1 .. n
          /\ mark + (j - rev) = HeadLen + (j - floor)
      BY <1>3, <1>4
    <3>2. wal'[m + (j - rev)] = wal[HeadLen + (j - floor)]
      BY <1>7, <1>8, <3>1
    <3>3. Event(wal[HeadLen + (j - floor)], events[j].prev) = events[j]
      BY <1>1, <3>1 DEF LogOk, n
    <3> QED
      BY <3>2, <3>3
  <2>4. Scanned(SubSeq(wal', 1, m), NoPrev).prev = p[rev]
    BY <1>3, <1>8
  <2>5. events' = events /\ floor' = rev
    BY <1>2
  <2> HIDE DEF m, recs
  <2> QED
    BY <1>5, <1>9, <2>1, <2>2, <2>3, <2>4, <2>5 DEF LogOk
<1>11. GcOk(p)'
  <2>1. ~gc'.on
    BY <1>2 DEF NoGc
  <2> QED
    BY <2>1 DEF GcOk
<1>12. CpOk(p)'
  <2>1. cp' = cp /\ loop' = loop /\ epoch' = epoch + 1
    BY <1>2
  <2>2. loop # "collect" => cp.epoch <= epoch
    BY <1>1 DEF CpOk
  <2>3. epoch \in Nat /\ cp.epoch \in Nat
    BY DEF TypeOK
  <2>4. loop # "collect" => cp.epoch <= epoch + 1 /\ cp.epoch # epoch + 1
    BY <2>2, <2>3
  <2> QED
    BY <2>1, <2>4 DEF CpOk
<1> QED
  BY <1>6, <1>10, <1>11, <1>12 DEF LogInv

-----------------------------------------------------------------------------
(* Parts of a sequence.                                                     *)
LEMMA CutParts ==
    ASSUME NEW E, NEW s \in Seq(E), NEW i \in Nat, NEW j \in Nat, i <= j, j <= Len(s)
    PROVE  /\ SubSeq(s, i + 1, j) \in Seq(E) /\ Len(SubSeq(s, i + 1, j)) = j - i
           /\ \A k \in 1 .. j - i : SubSeq(s, i + 1, j)[k] = s[i + k]
OBVIOUS

(* A cut is the join of its two halves.                                     *)
LEMMA CutAgain ==
    ASSUME NEW E, NEW s \in Seq(E), NEW i \in Nat, NEW j \in Nat, NEW k \in Nat,
           i <= j, j <= k, k <= Len(s)
    PROVE  SubSeq(s, i + 1, k) = SubSeq(s, i + 1, j) \o SubSeq(s, j + 1, k)
<1> DEFINE w == SubSeq(s, i + 1, k)
           a == SubSeq(s, i + 1, j)
           b == SubSeq(s, j + 1, k)
           c == a \o b
<1>0. Len(s) \in Nat
  OBVIOUS
<1>1. /\ w \in Seq(E) /\ Len(w) = k - i
      /\ \A n \in 1 .. k - i : w[n] = s[i + n]
  <2>1. i <= k
    OBVIOUS
  <2> QED
    BY <2>1, CutParts
<1>2. /\ a \in Seq(E) /\ Len(a) = j - i
      /\ \A n \in 1 .. j - i : a[n] = s[i + n]
  <2>1. j <= Len(s)
    BY <1>0
  <2> QED
    BY <2>1, CutParts
<1>3. /\ b \in Seq(E) /\ Len(b) = k - j
      /\ \A n \in 1 .. k - j : b[n] = s[j + n]
  BY CutParts
<1> HIDE DEF w, a, b
<1>4. /\ c \in Seq(E) /\ Len(c) = (j - i) + (k - j)
      /\ \A n \in 1 .. j - i : c[n] = a[n]
      /\ \A n \in 1 .. k - j : c[(j - i) + n] = b[n]
  <2>1. \A x, y \in Seq(E) :
           /\ x \o y \in Seq(E) /\ Len(x \o y) = Len(x) + Len(y)
           /\ \A n \in 1 .. Len(x) : (x \o y)[n] = x[n]
           /\ \A n \in 1 .. Len(y) : (x \o y)[Len(x) + n] = y[n]
    BY ConcatParts
  <2>2. a \in Seq(E) /\ b \in Seq(E) /\ Len(a) = j - i /\ Len(b) = k - j
    BY <1>2, <1>3
  <2>3. /\ c \in Seq(E) /\ Len(c) = Len(a) + Len(b)
        /\ \A n \in 1 .. Len(a) : c[n] = a[n]
        /\ \A n \in 1 .. Len(b) : c[Len(a) + n] = b[n]
    BY <2>1, <2>2
  <2> HIDE DEF c
  <2> QED
    BY <2>2, <2>3
<1> HIDE DEF c
<1>5. ASSUME NEW n \in 1 .. k - i PROVE w[n] = c[n]
  <2>1. CASE n \in 1 .. j - i
    BY <1>1, <1>2, <1>4, <2>1
  <2>2. CASE n \notin 1 .. j - i
    <3>1. n - (j - i) \in 1 .. k - j /\ (j - i) + (n - (j - i)) = n /\ j + (n - (j - i)) = i + n
      BY <2>2
    <3> QED
      <4> DEFINE d == n - (j - i)
      <4>1. d \in 1 .. k - j /\ (j - i) + d = n /\ j + d = i + n
        BY <3>1
      <4> HIDE DEF d
      <4>2. c[(j - i) + d] = b[d] /\ b[d] = s[j + d] /\ w[n] = s[i + n]
        BY <1>1, <1>3, <1>4, <4>1
      <4> QED
        BY <4>1, <4>2
  <2> QED
    BY <2>1, <2>2
<1>6. w = c
  <2>1. Len(c) = k - i
    BY <1>4
  <2>2. w \in Seq(E) /\ c \in Seq(E) /\ Len(w) = Len(c) /\ \A n \in 1 .. Len(w) : w[n] = c[n]
    BY <1>1, <1>4, <1>5, <2>1
  <2> QED
    BY <2>2, SeqEqual
<1> QED
  BY <1>6 DEF w, a, b, c

(* So are the first elements of a sequence.                                 *)
LEMMA CutFirst ==
    ASSUME NEW E, NEW s \in Seq(E), NEW j \in Nat, NEW k \in Nat, j <= k, k <= Len(s)
    PROVE  SubSeq(s, 1, k) = SubSeq(s, 1, j) \o SubSeq(s, j + 1, k)
<1>1. PICK i \in Nat : i = 0
  OBVIOUS
<1>2. i <= j /\ i + 1 = 1
  BY <1>1
<1>3. SubSeq(s, i + 1, k) = SubSeq(s, i + 1, j) \o SubSeq(s, j + 1, k)
  BY <1>2, CutAgain
<1> QED
  BY <1>2, <1>3

(* All of a sequence is the sequence.                                       *)
LEMMA CutWhole ==
    ASSUME NEW E, NEW s \in Seq(E)
    PROVE  SubSeq(s, 1, Len(s)) = s
OBVIOUS

(* The events of a scan have the revisions of the records.                  *)
LEMMA ScanRevs ==
    ASSUME NEW prev \in Prevs, NEW f \in Nat, NEW recs \in Seq(Record),
           \A i \in 1 .. Len(recs) : recs[i].mod_revision <= f
    PROVE  \A i \in 1 .. Len(Scanned(recs, prev).evts) : Scanned(recs, prev).evts[i].rev <= f
<1> DEFINE Low(x) == \A i \in 1 .. Len(x) : x[i].mod_revision <= f
           Evts(x) == Scanned(x, prev).evts
           T == {x \in Seq(Record) : Low(x) => \A i \in 1 .. Len(Evts(x)) : Evts(x)[i].rev <= f}
<1>1. <<>> \in T
  <2>1. Evts(<<>>) = <<>> /\ <<>> \in Seq(Record)
    BY ScannedEmpty
  <2> HIDE DEF Evts
  <2> QED
    BY <2>1
<1>2. ASSUME NEW x \in T, NEW rec \in Record PROVE Append(x, rec) \in T
  <2> DEFINE y == Append(x, rec)
             a == Scanned(x, prev)
             e == Event(rec, a.prev[rec.key])
             evts == a.evts
  <2>1. /\ x \in Seq(Record) /\ y \in Seq(Record) /\ Len(y) = Len(x) + 1 /\ Len(x) \in Nat
        /\ y[Len(x) + 1] = rec /\ \A i \in 1 .. Len(x) : y[i] = x[i]
    OBVIOUS
  <2>2. SUFFICES ASSUME Low(y) PROVE \A i \in 1 .. Len(Evts(y)) : Evts(y)[i].rev <= f
    BY <2>1
  <2>3. Low(x) /\ rec.mod_revision <= f
    <3> HIDE DEF y
    <3>1. Len(x) + 1 \in 1 .. Len(y) /\ \A i \in 1 .. Len(x) : i \in 1 .. Len(y)
      BY <2>1
    <3> QED
      BY <2>1, <2>2, <3>1
  <2>4. \A i \in 1 .. Len(evts) : evts[i].rev <= f
    BY <2>3
  <2>5. e.rev <= f
    BY <2>3 DEF Event
  <2>6. Evts(y) = Append(evts, e) /\ a \in Scans /\ e \in Events
    <3>1. a \in Scans
      BY <2>1, ScannedType
    <3>2. a.prev[rec.key] \in Nat
      BY <3>1 DEF Scans, Prevs, Record
    <3>3. Scanned(y, prev) = ScanRecord(a, rec)
      BY <2>1, ScannedGrows
    <3>4. ScanRecord(a, rec).evts = Append(evts, e)
      BY DEF ScanRecord
    <3> QED
      BY <3>1, <3>2, <3>3, <3>4, EventType
  <2>7. evts \in Seq(Events)
    BY <2>6 DEF Scans
  <2> HIDE DEF Evts, evts, e, y, a
  <2> QED
    BY <2>4, <2>5, <2>6, <2>7
<1> HIDE DEF T
<1>3. T = Seq(Record)
  <2>1. T \in SUBSET Seq(Record)
    BY DEF T
  <2> QED
    BY <1>1, <1>2, <2>1, InductionOnSeq
<1> QED
  BY <1>3 DEF T

(* A record of the log past its head is the record of an event.             *)
LEMMA TailRecord ==
    ASSUME TypeOK, NEW p, History(p), LogOk(p), NEW j \in floor + 1 .. current_revision
    PROVE  /\ Event(wal[HeadLen + (j - floor)], events[j].prev) = events[j]
           /\ wal[HeadLen + (j - floor)].mod_revision = j
<1>1. Event(wal[HeadLen + (j - floor)], events[j].prev) = events[j]
  BY DEF LogOk
<1>2. j \in 1 .. current_revision
  BY LogParts
<1>3. events[j].rev = j
  BY <1>2 DEF History
<1>4. Event(wal[HeadLen + (j - floor)], events[j].prev).rev = wal[HeadLen + (j - floor)].mod_revision
  BY DEF Event
<1> QED
  BY <1>1, <1>3, <1>4

(* A scan of the records of the events after a, from the versions at a.     *)
LEMMA ScanTail ==
    ASSUME TypeOK, NEW p, History(p), LogOk(p), NEW a \in Nat, NEW b \in Nat,
           floor <= a, a <= b, b <= current_revision
    PROVE  LET recs == SubSeq(wal, HeadLen + (a - floor) + 1, HeadLen + (b - floor))
           IN  /\ recs \in Seq(Record) /\ Len(recs) = b - a
               /\ \A j \in 1 .. b - a : recs[j].mod_revision = a + j
               /\ Scanned(recs, p[a]).evts = SubSeq(events, a + 1, b)
               /\ Scanned(recs, p[a]).prev = p[b]
<1> DEFINE n == current_revision
           h == HeadLen
           recs == SubSeq(wal, h + (a - floor) + 1, h + (b - floor))
<1>1. /\ wal \in Seq(Record) /\ Len(wal) \in Nat /\ n \in Nat /\ floor \in Nat /\ floor <= n
      /\ h \in Nat /\ h = Len(wal) - (n - floor)
  BY LogParts
<1>2. /\ \A j \in floor + 1 .. n : Event(wal[h + (j - floor)], events[j].prev) = events[j]
      /\ \A j \in floor + 1 .. n : wal[h + (j - floor)].mod_revision = j
  BY TailRecord
<1>3. /\ events \in Seq(Events) /\ Len(events) = n /\ p \in [0 .. Len(events) -> Prevs]
      /\ \A j \in 1 .. Len(events) : /\ events[j].prev = p[j - 1][events[j].key]
                                     /\ p[j] = AfterEvent(p[j - 1], events[j])
  BY DEF History, TypeOK
<1> HIDE DEF n, h
<1>4. /\ recs \in Seq(Record) /\ Len(recs) = b - a
      /\ \A j \in 1 .. b - a : recs[j] = wal[h + ((a + j) - floor)]
  <2> DEFINE x == h + (a - floor)
             y == h + (b - floor)
  <2>1. x \in Nat /\ y \in Nat /\ x <= y /\ y <= Len(wal) /\ y - x = b - a
    BY <1>1 DEF n
  <2>2. \A j \in 1 .. b - a : x + j = h + ((a + j) - floor)
    BY <1>1
  <2> HIDE DEF x, y
  <2>3. /\ SubSeq(wal, x + 1, y) \in Seq(Record) /\ Len(SubSeq(wal, x + 1, y)) = y - x
        /\ \A k \in 1 .. y - x : SubSeq(wal, x + 1, y)[k] = wal[x + k]
    BY <1>1, <2>1, CutParts
  <2>4. recs = SubSeq(wal, x + 1, y)
    BY DEF x, y
  <2> HIDE DEF recs
  <2> QED
    BY <2>1, <2>2, <2>3, <2>4
<1> HIDE DEF recs
<1>5. ASSUME NEW j \in 1 .. b - a
      PROVE  /\ Event(recs[j], events[a + j].prev) = events[a + j]
             /\ recs[j].mod_revision = a + j
  <2>1. a + j \in floor + 1 .. n
    BY <1>1 DEF n
  <2> QED
    BY <1>2, <1>4, <2>1
<1>6. a \in 0 .. Len(events) /\ a + Len(recs) <= Len(events) /\ a + Len(recs) = b
  BY <1>1, <1>3, <1>4 DEF n
<1>7. \A j \in 1 .. Len(recs) : Event(recs[j], events[a + j].prev) = events[a + j]
  BY <1>4, <1>5
<1>8. /\ Scanned(recs, p[a]).evts = SubSeq(events, a + 1, a + Len(recs))
      /\ Scanned(recs, p[a]).prev = p[a + Len(recs)]
  BY <1>3, <1>4, <1>6, <1>7, ScanFollows
<1>9. /\ Scanned(recs, p[a]).evts = SubSeq(events, a + 1, b)
      /\ Scanned(recs, p[a]).prev = p[b]
  BY <1>6, <1>8
<1> QED
  BY <1>4, <1>5, <1>9 DEF recs, h

(* The replay up to a revision r: events no later than the snapshot, and    *)
(* after them exactly the events up to r.                                   *)
LEMMA LogReplay ==
    ASSUME TypeOK, NEW p, History(p), LogOk(p), NEW r \in Nat, floor <= r, r <= current_revision
    PROVE  LET scan == Scanned(Among(wal, {rec \in Record : rec.mod_revision <= r}), NoPrev)
           IN  /\ scan.prev = p[r]
               /\ \E old \in Seq(Events) : /\ \A i \in 1 .. Len(old) : old[i].rev <= floor
                                           /\ scan.evts = old \o SubSeq(events, floor + 1, r)
<1> DEFINE n == current_revision
           h == HeadLen
           m == h + (r - floor)
           S == {rec \in Record : rec.mod_revision <= r}
           head == SubSeq(wal, 1, h)
           mid == SubSeq(wal, h + 1, m)
           rest == SubSeq(wal, m + 1, Len(wal))
<1>1. /\ wal \in Seq(Record) /\ Len(wal) \in Nat /\ n \in Nat /\ floor \in Nat /\ floor <= n
      /\ h \in Nat /\ h = Len(wal) - (n - floor) /\ h <= Len(wal)
  BY LogParts
<1>2. /\ \A i \in 1 .. h : wal[i].mod_revision <= floor
      /\ Scanned(head, NoPrev).prev = p[floor]
  BY DEF LogOk
<1>3. /\ mid \in Seq(Record) /\ Len(mid) = r - floor
      /\ \A j \in 1 .. r - floor : mid[j].mod_revision = floor + j
      /\ Scanned(mid, p[floor]).evts = SubSeq(events, floor + 1, r)
      /\ Scanned(mid, p[floor]).prev = p[r]
  <2>1. PICK a \in Nat : a = floor
    BY <1>1
  <2>2. floor <= a /\ a <= r /\ h + (a - floor) + 1 = h + 1
    BY <1>1, <2>1
  <2>3. LET recs == SubSeq(wal, HeadLen + (a - floor) + 1, HeadLen + (r - floor))
        IN  /\ recs \in Seq(Record) /\ Len(recs) = r - a
            /\ \A j \in 1 .. r - a : recs[j].mod_revision = a + j
            /\ Scanned(recs, p[a]).evts = SubSeq(events, a + 1, r)
            /\ Scanned(recs, p[a]).prev = p[r]
    BY <2>2, ScanTail
  <2> QED
    BY <2>1, <2>2, <2>3
<1>4. /\ rest \in Seq(Record) /\ Len(rest) = n - r
      /\ \A j \in 1 .. n - r : rest[j].mod_revision = r + j
  <2>1. Len(wal) = h + (n - floor) /\ n <= n
    BY <1>1
  <2>2. LET recs == SubSeq(wal, h + (r - floor) + 1, h + (n - floor))
        IN  /\ recs \in Seq(Record) /\ Len(recs) = n - r
            /\ \A j \in 1 .. n - r : recs[j].mod_revision = r + j
    <3>1. n \in Nat /\ r <= n /\ n <= current_revision
      BY <1>1
    <3> HIDE DEF n
    <3> QED
      BY <3>1, ScanTail
  <2> QED
    BY <2>1, <2>2
<1> HIDE DEF n, h
<1>5. m \in Nat /\ h <= m /\ m <= Len(wal)
  BY <1>1 DEF n
<1>6. /\ head \in Seq(Record) /\ Len(head) = h
      /\ \A i \in 1 .. h : head[i] = wal[i]
  BY <1>1
<1> HIDE DEF m
<1>7. wal = (head \o mid) \o rest
  <2>1. SubSeq(wal, 1, m) = head \o mid
    BY <1>1, <1>5, CutFirst
  <2>2. SubSeq(wal, 1, Len(wal)) = SubSeq(wal, 1, m) \o rest
    <3>1. PICK k \in Nat : k = Len(wal)
      BY <1>1
    <3>2. wal \in Seq(Record) /\ m \in Nat /\ m <= k /\ k <= Len(wal)
      BY <1>1, <1>5, <3>1
    <3>3. SubSeq(wal, 1, k) = SubSeq(wal, 1, m) \o SubSeq(wal, m + 1, k)
      BY <3>2, CutFirst
    <3> QED
      BY <3>1, <3>3
  <2>3. SubSeq(wal, 1, Len(wal)) = wal
    BY <1>1, CutWhole
  <2> QED
    BY <2>1, <2>2, <2>3
<1> HIDE DEF head, mid, rest
<1>8. Among(head, S) = head
  <2>1. \A i \in 1 .. Len(head) : head[i] \in S
    <3>1. ASSUME NEW i \in 1 .. h PROVE head[i] \in Record /\ head[i].mod_revision <= floor
      BY <1>2, <1>6, <3>1
    <3>2. ASSUME NEW i \in 1 .. h PROVE head[i].mod_revision <= r
      <4>1. head[i].mod_revision \in Nat
        BY <3>1 DEF Record
      <4> QED
        BY <1>1, <3>1, <4>1
    <3> QED
      BY <1>6, <3>1, <3>2
  <2> HIDE DEF S
  <2> QED
    BY <1>6, <2>1, AmongAll
<1>9. Among(mid, S) = mid
  <2>1. \A j \in 1 .. Len(mid) : mid[j] \in S
    <3>1. ASSUME NEW j \in 1 .. r - floor PROVE mid[j] \in Record /\ floor + j <= r
      BY <1>1, <1>3
    <3> QED
      BY <1>3, <3>1
  <2> HIDE DEF S
  <2> QED
    BY <1>3, <2>1, AmongAll
<1>10. Among(rest, S) = <<>>
  <2>1. \A j \in 1 .. Len(rest) : rest[j] \notin S
    <3>1. ASSUME NEW j \in 1 .. n - r PROVE ~(r + j <= r)
      BY <1>1
    <3> QED
      BY <1>4, <3>1
  <2> HIDE DEF S
  <2> QED
    BY <1>4, <2>1, AmongNone
<1>11. Among(wal, S) = head \o mid
  <2> HIDE DEF S
  <2>1. \A x, y \in Seq(Record) : x \o y \in Seq(Record) /\ Among(x \o y, S) = Among(x, S) \o Among(y, S)
    BY AmongConcat, ConcatParts
  <2>2. head \o mid \in Seq(Record) /\ Among(head \o mid, S) = head \o mid
    BY <1>3, <1>6, <1>8, <1>9, <2>1
  <2>3. Among((head \o mid) \o rest, S) = (head \o mid) \o <<>>
    BY <1>4, <1>10, <2>1, <2>2
  <2> QED
    BY <1>7, <2>2, <2>3
<1> DEFINE one == Scanned(head, NoPrev)
           scan == Scanned(head \o mid, NoPrev)
<1>12. NoPrev \in Prevs
  BY DEF NoPrev, Prevs
<1>13. /\ scan.evts = one.evts \o Scanned(mid, one.prev).evts
       /\ scan.prev = Scanned(mid, one.prev).prev
  BY <1>3, <1>6, <1>12, ScannedConcat
<1>14. scan.evts = one.evts \o SubSeq(events, floor + 1, r) /\ scan.prev = p[r]
  BY <1>2, <1>3, <1>13
<1>15. one.evts \in Seq(Events)
  BY <1>6, <1>12, ScannedType DEF Scans
<1>16. \A i \in 1 .. Len(one.evts) : one.evts[i].rev <= floor
  <2>1. \A i \in 1 .. Len(head) : head[i].mod_revision <= floor
    BY <1>2, <1>6
  <2> QED
    BY <1>1, <1>6, <1>12, <2>1, ScanRevs
<1> HIDE DEF one
<1> QED
  BY <1>11, <1>14, <1>15, <1>16

(* The catch-up reads exactly the events since the checkpoint.              *)
LEMMA CatchesUp ==
    ASSUME TypeOK, NEW p, History(p), LogOk(p), CpOk(p), loop = "phase2", cp.epoch = epoch,
           NEW off \in Offsets
    PROVE  /\ cp.rev \in Nat /\ floor <= cp.rev /\ cp.rev <= current_revision
           /\ Scanned(CatchUp(off), prev_kv).evts = SubSeq(events, cp.rev + 1, current_revision)
<1> DEFINE n == current_revision
           h == HeadLen
           a == cp.rev
           S == {rec \in Record : rec.mod_revision > a}
           rest == SubSeq(wal, off + 1, Len(wal))
<1>1. /\ wal \in Seq(Record) /\ Len(wal) \in Nat /\ n \in Nat /\ floor \in Nat /\ floor <= n
      /\ h \in Nat /\ h = Len(wal) - (n - floor)
  BY LogParts
<1>2. floor <= a /\ a <= n /\ cp.off <= Len(wal) /\ Len(wal) - cp.off = n - a /\ prev_kv = p[a]
  BY DEF CpOk
<1>3. off = cp.off /\ off \in Nat /\ a \in Nat
  BY DEF Offsets, TypeOK
<1>4. /\ rest \in Seq(Record) /\ Len(rest) = n - a
      /\ \A j \in 1 .. n - a : rest[j].mod_revision = a + j
      /\ Scanned(rest, p[a]).evts = SubSeq(events, a + 1, n)
  <2> HIDE DEF a
  <2>1. off = h + (a - floor) /\ Len(wal) = h + (n - floor)
    BY <1>1, <1>2, <1>3
  <2>2. LET recs == SubSeq(wal, h + (a - floor) + 1, h + (n - floor))
        IN  /\ recs \in Seq(Record) /\ Len(recs) = n - a
            /\ \A j \in 1 .. n - a : recs[j].mod_revision = a + j
            /\ Scanned(recs, p[a]).evts = SubSeq(events, a + 1, n)
    <3>1. n \in Nat /\ a \in Nat /\ floor <= a /\ a <= n /\ n <= current_revision
      BY <1>1, <1>2, <1>3
    <3> HIDE DEF n
    <3> QED
      BY <3>1, ScanTail
  <2> QED
    BY <2>1, <2>2
<1> HIDE DEF rest, n, h
<1>5. Among(rest, S) = rest
  <2>1. \A j \in 1 .. Len(rest) : rest[j] \in S
    <3>1. ASSUME NEW j \in 1 .. n - a PROVE rest[j] \in Record /\ a + j > a
      BY <1>1, <1>3, <1>4, SMTT(30)
    <3> QED
      BY <1>4, <3>1
  <2> HIDE DEF S
  <2> QED
    BY <1>4, <2>1, AmongAll
<1>6. CatchUp(off) = rest
  BY <1>5 DEF CatchUp, rest
<1> QED
  BY <1>2, <1>3, <1>4, <1>6 DEF n

(* The steps of the loop.                                                   *)
LEMMA LoopLog ==
    ASSUME TypeOK, LogInv, Checkpoint \/ Screen \/ Phase1 \/ Phase2
    PROVE  LogInv'
<1>1. PICK p : History(p) /\ LogOk(p) /\ GcOk(p) /\ CpOk(p)
  BY DEF LogInv
<1>2. UNCHANGED <<keys, next_rev, wal, events, floor, epoch, gc>>
  BY DEF Checkpoint, Screen, Phase1, Phase2, store, collector
<1>3. History(p)' /\ LogOk(p)' /\ GcOk(p)' /\ current_revision' = current_revision
  BY <1>1, <1>2 DEF History, LogOk, HeadLen, GcOk, current_revision
<1>4. CpOk(p)'
  <2>1. CASE Checkpoint
    <3>1. /\ cp'.rev = current_revision /\ cp'.off = Len(wal) /\ cp'.epoch = epoch
          /\ loop' = "screen"
      BY <2>1 DEF Checkpoint
    <3>2. /\ floor <= current_revision /\ Len(wal) \in Nat /\ current_revision \in Nat
          /\ epoch \in Nat
      BY <1>1, LogParts DEF TypeOK
    <3>3. floor <= current_revision /\ current_revision <= current_revision /\ epoch <= epoch
          /\ Len(wal) <= Len(wal) /\ Len(wal) - Len(wal) = current_revision - current_revision
      BY <3>2
    <3> QED
      BY <1>2, <1>3, <3>1, <3>3 DEF CpOk
  <2>2. CASE Screen
    <3>1. loop = "screen" /\ (loop' = "collect" \/ (loop' = "phase1" /\ cp' = cp))
      BY <2>2 DEF Screen
    <3> QED
      BY <1>1, <1>2, <1>3, <3>1 DEF CpOk
  <2>3. CASE Phase1
    <3> DEFINE S == {rec \in Record : rec.mod_revision <= cp.rev}
    <3>1. /\ loop = "phase1" /\ loop' = "phase2" /\ cp' = cp
          /\ prev_kv' = Scanned(Among(wal, S), NoPrev).prev
      BY <2>3 DEF Phase1
    <3>2. ASSUME cp.epoch = epoch PROVE prev_kv' = p[cp.rev]
      <4>1. cp.rev \in Nat /\ floor <= cp.rev /\ cp.rev <= current_revision
        BY <1>1, <3>1, <3>2 DEF CpOk, TypeOK
      <4>2. Scanned(Among(wal, S), NoPrev).prev = p[cp.rev]
        BY <1>1, <4>1, LogReplay
      <4> QED
        BY <3>1, <4>2
    <3> HIDE DEF S
    <3> QED
      BY <1>1, <1>2, <1>3, <3>1, <3>2 DEF CpOk
  <2>4. CASE Phase2
    BY <2>4 DEF Phase2, CpOk
  <2> QED
    BY <2>1, <2>2, <2>3, <2>4
<1> QED
  BY <1>3, <1>4 DEF LogInv

(* The invariant of the log holds initially.                                *)
LEMMA InitLog == Init => LogInv
<1> SUFFICES ASSUME Init PROVE LogInv
  OBVIOUS
<1>1. PICK p : p = [i \in 0 .. 0 |-> NoPrev]
  OBVIOUS
<1>2. current_revision = 0 /\ HeadLen = 0 /\ wal = <<>> /\ events = <<>> /\ floor = 0
  BY DEF Init, current_revision, HeadLen
<1>3. NoPrev \in Prevs /\ p[0] = NoPrev /\ DOMAIN p = {0}
  BY <1>1 DEF NoPrev, Prevs
<1>4. VersionsOf(keys) = NoPrev
  BY DEF Init, EmptyTable, VersionsOf, NoPrev, Alive, Present, Vacant
<1>5. History(p)
  <2>1. p \in [0 .. 0 -> Prevs] /\ \A i \in 0 .. 0, k \in Keys : p[i][k] <= i
    <3>1. \A k \in Keys : NoPrev[k] = 0
      BY DEF NoPrev
    <3> QED
      BY <1>1, <1>3, <3>1
  <2> QED
    BY <1>2, <1>3, <1>4, <2>1 DEF History
<1>6. LogOk(p)
  <2>1. SubSeq(wal, 1, 0) = <<>>
    BY <1>2
  <2>2. Scanned(<<>>, NoPrev).prev = NoPrev
    BY <1>3, ScannedEmpty
  <2>3. /\ floor <= current_revision /\ current_revision - floor <= Len(wal)
        /\ 1 .. HeadLen = {} /\ floor + 1 .. current_revision = {}
    BY <1>2
  <2>4. Scanned(SubSeq(wal, 1, HeadLen), NoPrev).prev = p[floor]
    BY <1>2, <1>3, <2>1, <2>2
  <2> QED
    BY <2>3, <2>4 DEF LogOk
<1>7. GcOk(p) /\ CpOk(p)
  BY DEF Init, NoGc, GcOk, CpOk
<1> QED
  BY <1>5, <1>6, <1>7 DEF LogInv

(* Every step keeps the invariant of the log.                               *)
LEMMA NextLog ==
    ASSUME TypeOK, LogInv, [Next]_vars
    PROVE  LogInv'
<1>1. CASE UNCHANGED vars
  BY <1>1, FrameLog DEF vars, store, hub, collector
<1>2. ASSUME NEW k \in Keys, Put(k) \/ Delete(k) PROVE LogInv'
  BY <1>2, WriteVersions, CommittedLog
<1>3. ASSUME NEW rev, Compact(rev) PROVE LogInv'
  BY <1>3, FrameLog DEF Compact, store, hub, collector
<1>4. CASE CompactSnapshot \/ CompactSwap
  BY <1>4, SnapshotLog, SwapLog
<1>5. ASSUME NEW s \in Streams,
             \/ \E id \in WatchIds, bound \in Bounds, requested \in 0 .. MaxRev :
                   CreateRequest(s, id, bound, requested)
             \/ \E c \in DOMAIN creates : CancelRequest(s, creates[c].id)
             \/ ProgressRequest(s) \/ Disconnect(s) \/ TakeReply(s)
      PROVE  LogInv'
  BY <1>5, FrameLog DEF CreateRequest, CancelRequest, ProgressRequest, Disconnect, TakeReply,
                        store, hub, collector
<1>6. ASSUME NEW c \in DOMAIN creates,
             Forward(c) \/ ForwarderEnds(c) \/ Tick(c) \/ TickSend(c)
      PROVE  LogInv'
  BY <1>6, FrameLog DEF Forward, ForwarderEnds, Tick, TickSend, store, hub, collector
<1>7. CASE Checkpoint \/ Screen \/ Phase1 \/ Phase2
  BY <1>7, LoopLog
<1> QED
  BY <1>1, <1>2, <1>3, <1>4, <1>5, <1>6, <1>7 DEF Next

-----------------------------------------------------------------------------
(* What is delivered.                                                       *)
Fine(c) ==
    creates[c].state # "ended" =>
        /\ Among(Delivered(c), Since(c)) = Asked(c)
        /\ c \notin early => Delivered(c) = Asked(c)

WatchInv == QueuesOk /\ \A c \in registry \ hurt : Fine(c)

(* What a create asks for stays.                                            *)
LEMMA SameFilters ==
    ASSUME NEW c, SameRequest(c)
    PROVE  Since(c)' = Since(c) /\ Wanted(c)' = Wanted(c)
BY DEF SameRequest, Since, Wanted, Wants

(* A step that writes nothing and is not of the loop: pending creates and   *)
(* their queues are left alone, and of the others nothing gets lost but by  *)
(* their end.                                                               *)
LEMMA QuietWatch ==
    ASSUME TypeOK, WatchInv, Outside, UNCHANGED events,
           loop = "phase2" /\ cp.epoch = epoch' => cp.epoch = epoch,
           \A c \in DOMAIN creates : creates[c].state \in Pending =>
               queue'[c] = queue[c] /\ got'[c] = got[c],
           \A c \in DOMAIN creates' \ DOMAIN creates : queue'[c] = <<>> /\ got'[c] = <<>>,
           \A c \in registry' : creates'[c].state # "ended" =>
               creates[c].state # "ended" /\ Delivered(c)' = Delivered(c)
    PROVE  WatchInv'
<1>1. /\ registry' \subseteq registry /\ registry \subseteq DOMAIN creates
      /\ \A c \in DOMAIN creates : SameRequest(c)
      /\ hurt' = hurt /\ early' = early /\ loop' = loop /\ cp' = cp
  BY DEF Outside, hub, TypeOK
<1>2. ASSUME NEW c \in registry' PROVE creates'[c].state \notin Pending
  <2>1. c \in DOMAIN creates /\ creates[c].state \notin Pending
    BY <1>1, <1>2 DEF WatchInv, QueuesOk
  <2> QED
    BY <2>1 DEF Outside
<1>3. ASSUME NEW c \in Are(Pending)'
      PROVE  /\ got'[c] = <<>>
             /\ creates'[c].state = "queued" \/ loop' # "phase2" => queue'[c] = <<>>
  <2>1. c \in DOMAIN creates' /\ creates'[c].state \in Pending
    BY <1>3 DEF Are
  <2>2. CASE c \notin DOMAIN creates
    BY <2>1, <2>2
  <2>3. CASE c \in DOMAIN creates
    <3>1. creates'[c].state = creates[c].state
      BY <2>1, <2>3 DEF Outside
    <3>2. c \in Are(Pending) /\ queue'[c] = queue[c] /\ got'[c] = got[c]
      BY <2>1, <2>3, <3>1 DEF Are
    <3> QED
      BY <1>1, <3>1, <3>2 DEF WatchInv, QueuesOk
  <2> QED
    BY <2>2, <2>3
<1>4. ASSUME loop' = "phase2", cp'.epoch = epoch', NEW c \in Are({"batch"})' \ hurt'
      PROVE  queue'[c] = Among(SubSeq(events', 1, cp'.rev), (Wanted(c) \cap Since(c))')
  <2>1. c \in DOMAIN creates' /\ creates'[c].state = "batch" /\ "batch" \in Pending
        /\ "batch" # "queued"
    BY <1>4 DEF Are, Pending
  <2>2. c \in DOMAIN creates /\ creates[c].state = "batch"
    BY <2>1 DEF Outside
  <2>3. c \in Are({"batch"}) \ hurt /\ queue'[c] = queue[c]
    BY <1>1, <1>4, <2>1, <2>2 DEF Are
  <2>4. loop = "phase2" /\ cp.epoch = epoch
    BY <1>1, <1>4
  <2>5. queue[c] = Among(SubSeq(events, 1, cp.rev), Wanted(c) \cap Since(c))
    BY <2>3, <2>4 DEF WatchInv, QueuesOk
  <2>6. (Wanted(c) \cap Since(c))' = Wanted(c) \cap Since(c)
    BY <1>1, <2>2, SameFilters
  <2> QED
    BY <1>1, <2>3, <2>5, <2>6
<1>5. ASSUME NEW c \in registry' \ hurt' PROVE Fine(c)'
  <2>1. SUFFICES ASSUME creates'[c].state # "ended" PROVE Fine(c)'
    BY DEF Fine
  <2>2. c \in registry \ hurt /\ creates[c].state # "ended" /\ Delivered(c)' = Delivered(c)
    BY <1>1, <1>5, <2>1
  <2>3. /\ Among(Delivered(c), Since(c)) = Asked(c)
        /\ c \notin early => Delivered(c) = Asked(c)
    BY <2>2 DEF WatchInv, Fine
  <2>4. Since(c)' = Since(c) /\ Wanted(c)' = Wanted(c)
    BY <1>1, <2>2, SameFilters
  <2>5. Asked(c)' = Asked(c)
    BY <2>4 DEF Asked
  <2> QED
    BY <1>1, <2>2, <2>3, <2>4, <2>5 DEF Fine
<1>6. QueuesOk'
  BY <1>2, <1>3, <1>4 DEF QueuesOk
<1> QED
  BY <1>5, <1>6 DEF WatchInv

(* Nothing of the watches changes at all.                                   *)
LEMMA IdleWatch ==
    ASSUME TypeOK, WatchInv, UNCHANGED <<events, creates, queue, got, hub>>,
           registry' \subseteq registry,
           loop = "phase2" /\ cp.epoch = epoch' => cp.epoch = epoch
    PROVE  WatchInv'
<1>1. Outside
  BY NothingOutside
<1>2. \A c : Delivered(c)' = Delivered(c)
  BY DEF Delivered
<1> QED
  BY <1>1, <1>2, QuietWatch

(* A create changes its state, and ends or keeps what is delivered to it.   *)
LEMMA ChangeWatch ==
    ASSUME TypeOK, WatchInv, NEW c \in DOMAIN creates, NEW st \in {"open", "ticking", "ended"},
           creates[c].state \notin Pending, creates[c].state # "ended",
           creates' = [creates EXCEPT ![c].state = st],
           UNCHANGED <<events, got, hub, epoch>>, registry' \subseteq registry,
           queue' = queue \/ (st = "ended" /\ queue' = [queue EXCEPT ![c] = <<>>])
    PROVE  WatchInv'
<1>1. Outside
  BY ChangeOutside
<1>2. DOMAIN queue = DOMAIN creates /\ DOMAIN creates' = DOMAIN creates
      /\ creates[c] \in Creates /\ creates'[c] = [creates[c] EXCEPT !.state = st]
  BY CreatesDomain DEF TypeOK
<1>3. creates'[c].state = st
  BY <1>2 DEF Creates
<1>4. ASSUME NEW d \in DOMAIN creates, d # c
      PROVE  queue'[d] = queue[d] /\ creates'[d] = creates[d]
  BY <1>2, <1>4
<1>5. ASSUME NEW d \in registry', creates'[d].state # "ended"
      PROVE  creates[d].state # "ended" /\ Delivered(d)' = Delivered(d)
  <2>1. d \in DOMAIN creates
    BY <1>5 DEF TypeOK
  <2>2. CASE d # c
    BY <1>4, <1>5, <2>1, <2>2 DEF Delivered
  <2>3. CASE d = c
    BY <1>3, <1>5, <2>3 DEF Delivered
  <2> QED
    BY <2>2, <2>3
<1> QED
  BY <1>1, <1>2, <1>4, <1>5, QuietWatch

(* The steps of a stream keep the invariant of the watches.                 *)
LEMMA StreamWatch ==
    ASSUME TypeOK, WatchInv, NEW s \in Streams,
           \/ \E id \in WatchIds, bound \in Bounds, requested \in 0 .. MaxRev :
                 CreateRequest(s, id, bound, requested)
           \/ \E c \in DOMAIN creates : CancelRequest(s, creates[c].id)
           \/ ProgressRequest(s) \/ Disconnect(s) \/ TakeReply(s)
    PROVE  WatchInv'
<1>1. ASSUME NEW id \in WatchIds, NEW bound \in Bounds, NEW requested \in 0 .. MaxRev,
             CreateRequest(s, id, bound, requested)
      PROVE  WatchInv'
  <2> DEFINE n == Len(creates)
  <2>1. Outside /\ registry' = registry /\ UNCHANGED <<events, epoch>>
    BY <1>1, StreamOutside DEF CreateRequest, store, collector
  <2>2. /\ queue' = Append(queue, <<>>) /\ got' = Append(got, <<>>) /\ Len(creates') = n + 1
        /\ creates' \in Seq(Creates)
    <3>1. TypeOK'
      BY <1>1, StreamTypes
    <3>2. creates' \in Seq(Creates)
      BY <3>1 DEF TypeOK
    <3>3. PICK r : creates' = Append(creates, r)
      BY <1>1 DEF CreateRequest
    <3>4. Len(creates') = n + 1
      BY <3>3 DEF TypeOK
    <3> QED
      BY <1>1, <3>2, <3>4 DEF CreateRequest
  <2>3. /\ DOMAIN creates = 1 .. n /\ n \in Nat /\ DOMAIN creates' = 1 .. n + 1
        /\ queue \in Seq(Seq(Events)) /\ got \in Seq(Seq(Events))
        /\ Len(queue) = n /\ Len(got) = n
    <3>1. DOMAIN creates = 1 .. n /\ n \in Nat
      BY CreatesDomain
    <3>2. queue \in [1 .. n -> Seq(Events)] /\ got \in [1 .. n -> Seq(Events)]
      BY <3>1 DEF TypeOK
    <3>3. queue \in Seq(Seq(Events)) /\ got \in Seq(Seq(Events))
      BY <3>1, <3>2, IsASeq
    <3>4. DOMAIN queue = 1 .. n /\ DOMAIN got = 1 .. n
      BY <3>2
    <3> QED
      BY <2>2, <3>1, <3>3, <3>4
  <2>4. /\ queue'[n + 1] = <<>> /\ got'[n + 1] = <<>>
        /\ \A c \in 1 .. n : queue'[c] = queue[c] /\ got'[c] = got[c]
    BY <2>2, <2>3
  <2>5. ASSUME NEW c \in registry', creates'[c].state # "ended"
        PROVE  creates[c].state # "ended" /\ Delivered(c)' = Delivered(c)
    <3>1. c \in 1 .. n
      BY <2>1, <2>3 DEF TypeOK
    <3>2. PICK r : creates' = Append(creates, r)
      BY <1>1 DEF CreateRequest
    <3>3. creates'[c] = creates[c]
      BY <2>3, <3>1, <3>2 DEF TypeOK
    <3> QED
      BY <2>4, <2>5, <3>1, <3>3 DEF Delivered
  <2>6. \A c \in DOMAIN creates' \ DOMAIN creates : queue'[c] = <<>> /\ got'[c] = <<>>
    <3>1. \A c \in (1 .. n + 1) \ (1 .. n) : c = n + 1
      BY <2>3
    <3> QED
      BY <2>3, <2>4, <3>1
  <2>7. \A c \in DOMAIN creates : creates[c].state \in Pending =>
           queue'[c] = queue[c] /\ got'[c] = got[c]
    BY <2>3, <2>4
  <2> QED
    BY <2>1, <2>5, <2>6, <2>7, QuietWatch
<1>2. ASSUME NEW c \in DOMAIN creates, CancelRequest(s, creates[c].id) PROVE WatchInv'
  BY <1>2, IdleWatch DEF CancelRequest, CancelWatcher, store, collector
<1>3. CASE ProgressRequest(s)
  BY <1>3, IdleWatch DEF ProgressRequest, store, collector
<1>4. CASE Disconnect(s)
  BY <1>4, IdleWatch DEF Disconnect, store, collector
<1>5. CASE TakeReply(s)
  <2> DEFINE c == awaits[s]
  <2>1. c \in DOMAIN creates /\ creates[c].state = "answered"
    BY <1>5 DEF TypeOK, TakeReply
  <2>2. PICK st \in {"open", "ended"} :
           /\ creates' = [creates EXCEPT ![c].state = st]
           /\ queue' = queue \/ (st = "ended" /\ queue' = [queue EXCEPT ![c] = <<>>])
    BY <1>5 DEF TakeReply
  <2>3. registry' \subseteq registry /\ UNCHANGED <<events, got, hub, epoch>>
    BY <1>5 DEF TakeReply, store, collector
  <2>4. creates[c].state \notin Pending /\ creates[c].state # "ended"
    BY <2>1 DEF Pending
  <2> HIDE DEF c
  <2> QED
    BY <2>1, <2>2, <2>3, <2>4, ChangeWatch
<1> QED
  BY <1>1, <1>2, <1>3, <1>4, <1>5

(* A forwarder moves the head of its queue to the client.                   *)
LEMMA MoveHead ==
    ASSUME NEW E, NEW g \in Seq(E), NEW q \in Seq(E), q # <<>>
    PROVE  Append(g, Head(q)) \o Tail(q) = g \o q
OBVIOUS

(* The steps of a forwarder keep the invariant of the watches.              *)
LEMMA ForwarderWatch ==
    ASSUME TypeOK, WatchInv, NEW c \in DOMAIN creates,
           Forward(c) \/ ForwarderEnds(c) \/ Tick(c) \/ TickSend(c)
    PROVE  WatchInv'
<1>1. creates[c].state \in {"open", "ticking"} /\ UNCHANGED <<events, hub, epoch>>
  BY DEF Forward, ForwarderEnds, Tick, TickSend, store, collector
<1>2. creates[c].state \notin Pending /\ creates[c].state # "ended"
  BY <1>1 DEF Pending
<1>3. ASSUME Dropped(c), UNCHANGED got PROVE WatchInv'
  BY <1>1, <1>2, <1>3, ChangeWatch DEF Dropped, CancelWatcher
<1>4. CASE Forward(c)
  <2>1. CASE creates[c].stream \in up
    <3>1. /\ got' = [got EXCEPT ![c] = Append(got[c], Head(queue[c]))] /\ queue[c] # <<>>
          /\ queue' = [queue EXCEPT ![c] = Tail(queue[c])]
          /\ UNCHANGED <<registry, creates>>
      BY <1>4, <2>1 DEF Forward
    <3>2. /\ DOMAIN queue = DOMAIN creates /\ DOMAIN got = DOMAIN creates
          /\ registry \subseteq DOMAIN creates
          /\ queue[c] \in Seq(Events) /\ got[c] \in Seq(Events)
      BY DEF TypeOK
    <3>3. \A d \in DOMAIN creates : d # c => queue'[d] = queue[d] /\ got'[d] = got[d]
      BY <3>1, <3>2
    <3>4. queue'[c] = Tail(queue[c]) /\ got'[c] = Append(got[c], Head(queue[c]))
      BY <3>1, <3>2
    <3>5. got'[c] \o queue'[c] = got[c] \o queue[c]
      BY <3>1, <3>2, <3>4, MoveHead
    <3>6. \A d \in DOMAIN creates : Delivered(d)' = Delivered(d)
      BY <3>3, <3>5 DEF Delivered
    <3>7. Outside
      BY <1>1, <3>1, NothingOutside
    <3> QED
      BY <1>1, <1>2, <3>1, <3>2, <3>3, <3>6, <3>7, QuietWatch
  <2>2. CASE creates[c].stream \notin up
    BY <1>3, <1>4, <2>2 DEF Forward
  <2> QED
    BY <2>1, <2>2
<1>5. CASE ForwarderEnds(c)
  BY <1>1, <1>2, <1>5, ChangeWatch DEF ForwarderEnds
<1>6. CASE Tick(c)
  BY <1>1, <1>2, <1>6, ChangeWatch DEF Tick
<1>7. CASE TickSend(c)
  <2>1. CASE creates[c].stream \in up
    BY <1>1, <1>2, <1>7, <2>1, ChangeWatch DEF TickSend
  <2>2. CASE creates[c].stream \notin up
    BY <1>3, <1>7, <2>2 DEF TickSend
  <2> QED
    BY <2>1, <2>2
<1> QED
  BY <1>4, <1>5, <1>6, <1>7

(* Joining one element is appending it.                                     *)
LEMMA SendOne ==
    ASSUME NEW E, NEW q \in Seq(E), NEW e \in E
    PROVE  q \o <<e>> = Append(q, e)
OBVIOUS

(* One more event, wanted or not, reaches the queues and the history alike. *)
LEMMA CommittedWatch ==
    ASSUME TypeOK, LogInv, WatchInv, NEW rec \in Record, NEW table, Committed(rec, table)
    PROVE  WatchInv'
<1>1. PICK e \in Events : /\ events' = Append(events, e) /\ NotifyWatchers(e)
                          /\ UNCHANGED <<registry, creates, got, hub, collector>>
  BY WriteEvent DEF Committed
<1> DEFINE hit(c) == c \in registry /\ e \in Wanted(c) /\ e \in Since(c)
                        /\ creates[c].state # "ended"
<1>2. /\ UNCHANGED <<registry, creates, got, loop, cp, hurt, early, epoch>>
      /\ registry \subseteq DOMAIN creates /\ events \in Seq(Events)
      /\ \A c \in DOMAIN creates : queue[c] \in Seq(Events) /\ got[c] \in Seq(Events)
  BY <1>1 DEF hub, collector, TypeOK
<1>3. ASSUME NEW c \in DOMAIN creates
      PROVE  /\ hit(c) => queue'[c] = queue[c] \o <<e>>
             /\ ~hit(c) => queue'[c] = queue[c]
  <2> DEFINE D == {w \in registry : e \in Wanted(w) \cap Since(w)}
             new == [w \in D |-> <<e>>]
  <2>1. /\ DOMAIN queue = DOMAIN creates
        /\ queue' = [x \in DOMAIN queue |->
                        IF x \in DOMAIN new /\ creates[x].state # "ended"
                        THEN queue[x] \o new[x] ELSE queue[x]]
    BY <1>1 DEF NotifyWatchers, Deliver, TypeOK
  <2>2. DOMAIN new = D /\ (c \in D => new[c] = <<e>>) /\ (hit(c) <=> c \in D /\ creates[c].state # "ended")
    OBVIOUS
  <2> HIDE DEF D, new, hit
  <2> QED
    BY <2>1, <2>2
<1>4. \A c : Since(c)' = Since(c) /\ Wanted(c)' = Wanted(c) /\ Are({"batch"})' = Are({"batch"})
             /\ Are(Pending)' = Are(Pending)
  BY <1>2 DEF Since, Wanted, Wants, Are
<1>5. \A c \in Are(Pending) : c \in DOMAIN creates /\ queue'[c] = queue[c]
  BY <1>3 DEF WatchInv, QueuesOk, Are
<1>6. ASSUME loop = "phase2", cp.epoch = epoch
      PROVE  SubSeq(events', 1, cp.rev) = SubSeq(events, 1, cp.rev)
  <2>1. PICK p : History(p) /\ LogOk(p) /\ CpOk(p)
    BY DEF LogInv
  <2>2. cp.rev \in Nat /\ cp.rev <= Len(events)
    BY <1>6, <2>1 DEF CpOk, History, TypeOK
  <2>3. events \in Seq(Events) /\ events' = Append(events, e)
    BY <1>1, <1>2
  <2> QED
    BY <2>2, <2>3
<1>7. QueuesOk'
  <2>1. \A c \in registry' : creates'[c].state \notin Pending
    BY <1>2 DEF WatchInv, QueuesOk
  <2>2. \A c \in Are(Pending)' :
          /\ got'[c] = <<>>
          /\ creates'[c].state = "queued" \/ loop' # "phase2" => queue'[c] = <<>>
    BY <1>2, <1>4, <1>5 DEF WatchInv, QueuesOk
  <2>3. ASSUME loop = "phase2", cp.epoch = epoch, NEW c \in Are({"batch"}) \ hurt
        PROVE  queue'[c] = Among(SubSeq(events', 1, cp.rev), Wanted(c) \cap Since(c))
    <3>1. c \in Are(Pending)
      BY DEF Are, Pending
    <3>2. queue[c] = Among(SubSeq(events, 1, cp.rev), Wanted(c) \cap Since(c))
      BY <2>3 DEF WatchInv, QueuesOk
    <3> QED
      BY <1>5, <1>6, <2>3, <3>1, <3>2
  <2>4. loop' = "phase2" /\ cp'.epoch = epoch' =>
          \A c \in Are({"batch"})' \ hurt' :
              queue'[c] = Among(SubSeq(events', 1, cp'.rev), (Wanted(c) \cap Since(c))')
    BY <1>2, <1>4, <2>3
  <2> QED
    BY <2>1, <2>2, <2>4 DEF QueuesOk
<1>8. ASSUME NEW c \in registry \ hurt, creates[c].state # "ended"
      PROVE  /\ Among(Delivered(c)', Since(c)) = Among(events', Wanted(c) \cap Since(c))
             /\ c \notin early => Delivered(c)' = Among(events', Wanted(c) \cap Since(c))
  <2> DEFINE S == Since(c)
             W == Wanted(c)
             d == Delivered(c)
             B == W \cap S
  <2>0. c \in DOMAIN creates /\ c \in registry
    BY <1>2, <1>8
  <2>1. /\ Among(d, S) = Among(events, B)
        /\ c \notin early => d = Among(events, B)
    BY <1>8 DEF WatchInv, Fine, Asked
  <2>2. d \in Seq(Events) /\ queue[c] \in Seq(Events) /\ got[c] \in Seq(Events)
        /\ d = got[c] \o queue[c]
    BY <1>2, <2>0 DEF Delivered
  <2>3. Delivered(c)' = got[c] \o queue'[c]
    BY <1>2 DEF Delivered
  <2> HIDE DEF S, W, d
  <2>4. \A X : \A x \in Seq(Events) :
           /\ e \in X => Among(Append(x, e), X) = Append(Among(x, X), e)
           /\ e \notin X => Among(Append(x, e), X) = Among(x, X)
    BY AmongGrows
  <2>5. CASE e \in W /\ e \in S
    <3>1. queue'[c] = Append(queue[c], e)
      <4>1. hit(c)
        BY <1>8, <2>0, <2>5 DEF W, S
      <4> QED
        BY <1>3, <2>0, <2>2, <4>1, SendOne
    <3>2. Delivered(c)' = Append(d, e)
      <4>1. got[c] \o Append(queue[c], e) = Append(got[c] \o queue[c], e)
        BY <2>2, EventsConcat, Zenon
      <4> QED
        BY <2>2, <2>3, <3>1, <4>1, Zenon
    <3>3. e \in B
      BY <2>5
    <3> HIDE DEF B
    <3>4. Among(Append(d, e), S) = Append(Among(d, S), e)
      BY <2>2, <2>4, <2>5
    <3>5. Among(events', B) = Append(Among(events, B), e)
      BY <1>1, <1>2, <2>4, <3>3
    <3>6. /\ Among(Delivered(c)', S) = Among(events', B)
          /\ c \notin early => Delivered(c)' = Among(events', B)
      BY <2>1, <3>2, <3>4, <3>5
    <3> QED
      BY <3>6 DEF S, W, B
  <2>6. CASE ~(e \in W /\ e \in S)
    <3>1. queue'[c] = queue[c]
      <4>1. ~hit(c)
        BY <2>6 DEF W, S
      <4> QED
        BY <1>3, <2>0, <4>1
    <3>2. Delivered(c)' = d
      BY <2>2, <2>3, <3>1
    <3>3. e \notin B
      BY <2>6
    <3> HIDE DEF B
    <3>4. Among(events', B) = Among(events, B)
      BY <1>1, <1>2, <2>4, <3>3
    <3>5. /\ Among(Delivered(c)', S) = Among(events', B)
          /\ c \notin early => Delivered(c)' = Among(events', B)
      BY <2>1, <3>2, <3>4
    <3> QED
      BY <3>5 DEF S, W, B
  <2> QED
    BY <2>5, <2>6
<1>9. ASSUME NEW c \in registry' \ hurt' PROVE Fine(c)'
  <2>1. c \in registry \ hurt
    BY <1>2, <1>9
  <2>2. Asked(c)' = Among(events', Wanted(c) \cap Since(c)) /\ Since(c)' = Since(c)
    BY <1>4 DEF Asked
  <2> QED
    BY <1>2, <1>8, <2>1, <2>2 DEF Fine
<1> QED
  BY <1>7, <1>9 DEF WatchInv

(* The steps of the store keep the invariant of the watches.                *)
LEMMA StoreWatch ==
    ASSUME TypeOK, LogInv, WatchInv,
           \/ \E k \in Keys : Put(k) \/ Delete(k)
           \/ \E rev \in 1 .. current_revision : Compact(rev)
           \/ CompactSnapshot \/ CompactSwap
    PROVE  WatchInv'
<1>1. ASSUME NEW k \in Keys, Put(k) \/ Delete(k) PROVE WatchInv'
  BY <1>1, PutType, CommittedWatch
<1>2. ASSUME NEW rev, Compact(rev) PROVE WatchInv'
  BY <1>2, IdleWatch DEF Compact, store, collector
<1>3. CASE CompactSnapshot
  BY <1>3, IdleWatch DEF CompactSnapshot, store
<1>4. CASE CompactSwap
  <2>1. UNCHANGED <<events, creates, queue, got, hub, registry>> /\ epoch' = epoch + 1
    BY <1>4 DEF CompactSwap
  <2>2. loop = "phase2" => cp.epoch <= epoch
    BY DEF LogInv, CpOk
  <2>3. epoch \in Nat /\ cp.epoch \in Nat
    BY DEF TypeOK
  <2>4. loop = "phase2" => cp.epoch # epoch'
    BY <2>1, <2>2, <2>3
  <2> QED
    BY <2>1, <2>4, IdleWatch
<1> QED
  BY <1>1, <1>2, <1>3, <1>4

(* Watchers the loop does not touch.                                        *)
LEMMA KeptFine ==
    ASSUME TypeOK, WatchInv, UNCHANGED <<events, got>>, NEW c \in registry \ hurt,
           creates'[c] = creates[c], queue'[c] = queue[c], c \in early => c \in early'
    PROVE  Fine(c)'
<1>1. SameRequest(c)
  BY DEF SameRequest
<1>2. Since(c)' = Since(c) /\ Wanted(c)' = Wanted(c)
  BY <1>1, SameFilters
<1>3. Delivered(c)' = Delivered(c) /\ Asked(c)' = Asked(c)
  BY <1>2 DEF Delivered, Asked
<1>4. Fine(c)
  BY DEF WatchInv
<1> QED
  BY <1>2, <1>3, <1>4 DEF Fine

(* Reading the revision for a batch keeps the invariant of the watches.     *)
LEMMA CheckpointWatch ==
    ASSUME TypeOK, WatchInv, Checkpoint
    PROVE  WatchInv'
<1>1. /\ UNCHANGED <<events, registry, queue, got, hurt, early>>
      /\ loop = "collect" /\ loop' = "screen"
  BY DEF Checkpoint, store
<1>2. ASSUME NEW c \in DOMAIN creates
      PROVE  /\ creates[c].state \notin Pending => creates'[c] = creates[c]
             /\ creates'[c].state \in Pending => creates[c].state \in Pending
  <2>1. CASE creates[c].state = "queued"
    BY <2>1 DEF Pending
  <2>2. CASE creates[c].state # "queued"
    BY <2>2 DEF Checkpoint
  <2> QED
    BY <2>1, <2>2
<1>3. registry \subseteq DOMAIN creates /\ DOMAIN creates' = DOMAIN creates
  BY DEF TypeOK, Checkpoint
<1>4. \A c \in registry : creates[c].state \notin Pending /\ creates'[c] = creates[c]
  BY <1>2, <1>3 DEF WatchInv, QueuesOk
<1>5. \A c \in Are(Pending)' : got'[c] = <<>> /\ queue'[c] = <<>>
  <2>1. \A c \in Are(Pending)' : c \in Are(Pending)
    BY <1>2, <1>3 DEF Are
  <2> QED
    BY <1>1, <2>1 DEF WatchInv, QueuesOk
<1>6. QueuesOk'
  BY <1>1, <1>4, <1>5 DEF QueuesOk
<1>7. \A c \in registry' \ hurt' : Fine(c)'
  BY <1>1, <1>4, KeptFine
<1> QED
  BY <1>6, <1>7 DEF WatchInv

(* Screening a batch keeps the invariant of the watches.                    *)
LEMMA ScreenWatch ==
    ASSUME TypeOK, WatchInv, Screen
    PROVE  WatchInv'
<1>1. /\ UNCHANGED <<events, registry, queue, got, hurt, early>>
      /\ loop = "screen" /\ loop' # "phase2"
  BY DEF Screen, store
<1>2. PICK gone \in SUBSET Are({"batch"}) : creates' = Answered(gone, FALSE)
  BY DEF Screen, Refused
<1>3. /\ DOMAIN creates' = DOMAIN creates /\ registry \subseteq DOMAIN creates
      /\ \A c \in DOMAIN creates : c \in gone => creates'[c].state = "answered"
      /\ \A c \in DOMAIN creates : c \notin gone => creates'[c] = creates[c]
  BY <1>2, AnsweredRequests DEF TypeOK
<1>4. \A c \in registry : creates[c].state \notin Pending /\ creates'[c] = creates[c]
  <2>1. \A c \in registry : creates[c].state \notin Pending
    BY DEF WatchInv, QueuesOk
  <2>2. \A c \in gone : creates[c].state \in Pending
    BY <1>2 DEF Are, Pending
  <2> QED
    BY <1>3, <2>1, <2>2
<1>5. \A c \in Are(Pending)' : got'[c] = <<>> /\ queue'[c] = <<>>
  <2>1. ASSUME NEW c \in Are(Pending)' PROVE c \in Are(Pending)
    <3>1. c \in DOMAIN creates /\ creates'[c].state \in Pending /\ "answered" \notin Pending
      BY <1>3 DEF Are, Pending
    <3>2. creates'[c] = creates[c]
      BY <1>3, <3>1
    <3> QED
      BY <3>1, <3>2 DEF Are
  <2> QED
    BY <1>1, <2>1 DEF WatchInv, QueuesOk
<1>6. QueuesOk'
  BY <1>1, <1>4, <1>5 DEF QueuesOk
<1>7. \A c \in registry' \ hurt' : Fine(c)'
  BY <1>1, <1>4, KeptFine
<1> QED
  BY <1>6, <1>7 DEF WatchInv

(* A replay that starts after the snapshot gives what the history says.     *)
LEMMA ReplayExact ==
    ASSUME TypeOK, NEW p, History(p), NEW r \in Nat, floor <= r, r <= current_revision,
           NEW old \in Seq(Events), \A i \in 1 .. Len(old) : old[i].rev <= floor,
           NEW S, NEW start \in Nat, start > floor, \A e \in S : e.rev >= start
    PROVE  Among(old \o SubSeq(events, floor + 1, r), S) = Among(SubSeq(events, 1, r), S)
<1> DEFINE new == SubSeq(events, floor + 1, r)
           gone == SubSeq(events, 1, floor)
<1>1. /\ events \in Seq(Events) /\ Len(events) = current_revision /\ floor \in Nat
      /\ current_revision \in Nat
  BY RevType DEF TypeOK, History
<1>2. floor <= Len(events) /\ r <= Len(events)
  BY <1>1
<1>3. new \in Seq(Events)
  BY <1>1, <1>2, CutParts
<1>4. gone \in Seq(Events) /\ Len(gone) = floor /\ \A i \in 1 .. floor : gone[i] = events[i]
  BY <1>1, <1>2
<1>5. SubSeq(events, 1, r) = gone \o new
  BY <1>1, <1>2, CutFirst
<1>6. \A i \in 1 .. Len(gone) : gone[i].rev <= floor
  <2>1. ASSUME NEW i \in 1 .. floor PROVE events[i].rev = i
    <3>1. i \in 1 .. current_revision
      BY <1>1, <1>2
    <3> QED
      BY <3>1 DEF History
  <2> QED
    BY <1>1, <1>4, <2>1
<1> HIDE DEF new, gone
<1>7. \A x \in Seq(Events) : (\A i \in 1 .. Len(x) : x[i].rev <= floor) => Among(x, S) = <<>>
  <2> SUFFICES ASSUME NEW x \in Seq(Events), \A i \in 1 .. Len(x) : x[i].rev <= floor
               PROVE  Among(x, S) = <<>>
    OBVIOUS
  <2>1. ASSUME NEW i \in 1 .. Len(x) PROVE x[i] \notin S
    <3>1. x[i] \in Events /\ x[i].rev <= floor
      OBVIOUS
    <3>2. x[i].rev \in Nat
      BY <3>1 DEF Events
    <3> QED
      BY <1>1, <3>1, <3>2
  <2> QED
    BY <2>1, AmongNone
<1>8. \A x \in Seq(Events) : Among(x \o new, S) = Among(x, S) \o Among(new, S)
  BY <1>3, AmongConcat
<1>9. Among(old, S) = <<>> /\ Among(gone, S) = <<>>
  BY <1>4, <1>6, <1>7
<1>10. Among(old \o new, S) = Among(gone \o new, S)
  BY <1>4, <1>8, <1>9
<1> QED
  BY <1>5, <1>10 DEF new

(* What a step of the loop puts into the queues of its batch.               *)
LEMMA DeliverBatch ==
    ASSUME TypeOK, NEW new, DOMAIN new = Are({"batch"}), Deliver(new)
    PROVE  /\ \A c \in Are({"batch"}) : queue'[c] = queue[c] \o new[c]
           /\ \A c \in DOMAIN creates : c \notin Are({"batch"}) => queue'[c] = queue[c]
<1>1. DOMAIN queue = DOMAIN creates
  BY DEF TypeOK
<1>2. \A c \in Are({"batch"}) : c \in DOMAIN creates /\ creates[c].state # "ended"
  BY DEF Are
<1> QED
  BY <1>1, <1>2 DEF Deliver

(* The replay of a batch keeps the invariant of the watches.                *)
LEMMA Phase1Watch ==
    ASSUME TypeOK, LogInv, WatchInv, Phase1
    PROVE  WatchInv'
<1> DEFINE batch == Are({"batch"})
           r == cp.rev
           Low == {rec \in Record : rec.mod_revision <= r}
           scan == Scanned(Among(wal, Low), NoPrev)
           new == [c \in batch |-> Among(scan.evts, Wanted(c) \cap Since(c))]
<1>1. /\ UNCHANGED <<events, registry, creates, got, cp, early, epoch>>
      /\ loop = "phase1" /\ loop' = "phase2"
      /\ hurt' = hurt \cup {c \in batch : creates[c].start <= floor}
      /\ Deliver(new)
  BY DEF Phase1, store, collector
<1>2. /\ \A c \in batch : queue'[c] = queue[c] \o new[c]
      /\ \A c \in DOMAIN creates : c \notin batch => queue'[c] = queue[c]
  <2>1. DOMAIN new = batch
    OBVIOUS
  <2> HIDE DEF new
  <2> QED
    BY <1>1, <2>1, DeliverBatch
<1>3. \A c : Since(c)' = Since(c) /\ Wanted(c)' = Wanted(c) /\ Are({"batch"})' = batch
             /\ Are(Pending)' = Are(Pending)
  BY <1>1 DEF Since, Wanted, Wants, Are
<1>4. \A c \in batch : c \in DOMAIN creates /\ c \in Are(Pending) /\ queue[c] = <<>>
  BY <1>1 DEF WatchInv, QueuesOk, Are, Pending
<1>5. \A c \in registry : c \in DOMAIN creates /\ c \notin batch
  BY DEF WatchInv, QueuesOk, Are, Pending, TypeOK
<1>6. ASSUME cp.epoch = epoch, NEW c \in batch \ hurt'
      PROVE  queue'[c] = Among(SubSeq(events, 1, r), Wanted(c) \cap Since(c))
  <2> DEFINE S == Wanted(c) \cap Since(c)
  <2>1. PICK p : History(p) /\ LogOk(p) /\ CpOk(p)
    BY DEF LogInv
  <2>2. r \in Nat /\ floor <= r /\ r <= current_revision /\ floor \in Nat
    BY <1>1, <1>6, <2>1 DEF CpOk, TypeOK
  <2>3. PICK old \in Seq(Events) : /\ \A i \in 1 .. Len(old) : old[i].rev <= floor
                                   /\ scan.evts = old \o SubSeq(events, floor + 1, r)
    <3> HIDE DEF r
    <3> QED
      BY <2>1, <2>2, LogReplay
  <2>4. creates[c].start \in Nat /\ creates[c].start > floor
    <3>1. c \in DOMAIN creates /\ ~(creates[c].start <= floor)
      BY <1>1, <1>4, <1>6
    <3>2. creates[c].start \in Nat
      BY <3>1, CreatesDomain DEF Creates
    <3> QED
      BY <2>2, <3>1, <3>2
  <2>5. \A e \in S : e.rev >= creates[c].start
    BY DEF Since
  <2> HIDE DEF S, r, scan
  <2>6. Among(scan.evts, S) = Among(SubSeq(events, 1, r), S)
    BY <2>1, <2>2, <2>3, <2>4, <2>5, ReplayExact
  <2>7. queue'[c] = <<>> \o Among(scan.evts, S)
    BY <1>2, <1>4, <1>6 DEF S
  <2>8. Among(scan.evts, S) \in Seq(Events)
    <3>1. SubSeq(events, 1, r) \in Seq(Events)
      BY <2>1, <2>2 DEF TypeOK, History
    <3> QED
      BY <2>6, <3>1, AmongType
  <2> QED
    BY <2>6, <2>7, <2>8 DEF S
<1> HIDE DEF new, scan, Low, r
<1>7. QueuesOk'
  <2>1. \A c \in registry' : creates'[c].state \notin Pending
    BY <1>1 DEF WatchInv, QueuesOk
  <2>2. ASSUME NEW c \in Are(Pending)'
        PROVE  /\ got'[c] = <<>>
               /\ creates'[c].state = "queued" \/ loop' # "phase2" => queue'[c] = <<>>
    <3>1. c \in Are(Pending) /\ c \in DOMAIN creates
      BY <1>3 DEF Are
    <3>2. got[c] = <<>> /\ queue[c] = <<>>
      BY <1>1, <3>1 DEF WatchInv, QueuesOk
    <3>3. creates[c].state = "queued" => c \notin batch
      BY DEF Are
    <3> QED
      BY <1>1, <1>2, <3>1, <3>2, <3>3
  <2>3. loop' = "phase2" /\ cp'.epoch = epoch' =>
          \A c \in Are({"batch"})' \ hurt' :
              queue'[c] = Among(SubSeq(events', 1, cp'.rev), (Wanted(c) \cap Since(c))')
    BY <1>1, <1>3, <1>6 DEF r
  <2> QED
    BY <2>1, <2>2, <2>3 DEF QueuesOk
<1>8. \A c \in registry' \ hurt' : Fine(c)'
  BY <1>1, <1>2, <1>5, KeptFine
<1> QED
  BY <1>7, <1>8 DEF WatchInv

(* Registering a batch keeps the invariant of the watches.                  *)
LEMMA Phase2Watch ==
    ASSUME TypeOK, LogInv, WatchInv, Phase2
    PROVE  WatchInv'
<1> DEFINE batch == Are({"batch"})
           r == cp.rev
           n == current_revision
<1>1. PICK off \in Offsets :
         Deliver([c \in batch |-> Among(Scanned(CatchUp(off), prev_kv).evts, Wanted(c))])
  BY DEF Phase2
<1> DEFINE evts == Scanned(CatchUp(off), prev_kv).evts
           new == [c \in batch |-> Among(evts, Wanted(c))]
<1>2. /\ UNCHANGED <<events, got, epoch>> /\ loop = "phase2" /\ loop' = "collect"
      /\ registry' = registry \cup batch /\ creates' = Answered(batch, TRUE)
      /\ early' = early \cup {c \in batch : creates[c].start > r + 1}
      /\ hurt \subseteq hurt'
      /\ cp.epoch # epoch => batch \subseteq hurt'
  BY DEF Phase2, store, collector
<1>3. /\ \A c \in batch : queue'[c] = queue[c] \o Among(evts, Wanted(c))
      /\ \A c \in DOMAIN creates : c \notin batch => queue'[c] = queue[c]
  <2>1. Deliver(new) /\ DOMAIN new = batch
    BY <1>1
  <2>2. \A c \in batch : new[c] = Among(evts, Wanted(c))
    OBVIOUS
  <2> HIDE DEF new, evts
  <2> QED
    BY <2>1, <2>2, DeliverBatch
<1>4. /\ DOMAIN creates' = DOMAIN creates
      /\ \A c \in DOMAIN creates : SameRequest(c)
      /\ \A c \in DOMAIN creates : c \in batch => creates'[c].state = "answered"
      /\ \A c \in DOMAIN creates : c \notin batch => creates'[c] = creates[c]
  BY <1>2, AnsweredRequests
<1>5. \A c \in batch : c \in DOMAIN creates /\ got[c] = <<>>
  BY DEF WatchInv, QueuesOk, Are, Pending
<1>6. \A c \in registry : c \in DOMAIN creates /\ c \notin batch /\ creates[c].state \notin Pending
  BY DEF WatchInv, QueuesOk, Are, Pending, TypeOK
<1>7. QueuesOk'
  <2>1. ASSUME NEW c \in registry' PROVE creates'[c].state \notin Pending
    <3>1. CASE c \in batch
      BY <1>4, <1>5, <3>1 DEF Pending
    <3>2. CASE c \in registry
      BY <1>4, <1>6, <3>2
    <3> QED
      BY <1>2, <3>1, <3>2
  <2>2. ASSUME NEW c \in Are(Pending)' PROVE got'[c] = <<>> /\ queue'[c] = <<>>
    <3>1. c \in DOMAIN creates /\ creates'[c].state \in Pending /\ "answered" \notin Pending
      BY <1>4 DEF Are, Pending
    <3>2. c \notin batch /\ creates'[c] = creates[c]
      BY <1>4, <3>1
    <3>3. c \in Are(Pending) /\ creates[c].state = "queued"
      BY <3>1, <3>2 DEF Are, Pending
    <3>4. got[c] = <<>> /\ queue[c] = <<>>
      BY <3>3 DEF WatchInv, QueuesOk
    <3> QED
      BY <1>2, <1>3, <3>1, <3>2, <3>4
  <2> QED
    BY <1>2, <2>1, <2>2 DEF QueuesOk
<1>8. ASSUME NEW c \in batch \ hurt' PROVE Fine(c)'
  <2> DEFINE S == Since(c)
             W == Wanted(c)
             B == W \cap S
             first == SubSeq(events, 1, r)
             then == SubSeq(events, r + 1, n)
  <2>1. cp.epoch = epoch /\ c \notin hurt /\ c \in DOMAIN creates
    BY <1>2, <1>5, <1>8
  <2>2. PICK p : History(p) /\ LogOk(p) /\ CpOk(p)
    BY DEF LogInv
  <2>3. r \in Nat /\ floor <= r /\ r <= n /\ evts = then
    BY <1>2, <2>1, <2>2, CatchesUp
  <2>4. events \in Seq(Events) /\ Len(events) = n /\ n \in Nat
    BY <2>2, RevType DEF TypeOK, History
  <2> HIDE DEF r, n
  <2>5. /\ first \in Seq(Events) /\ then \in Seq(Events) /\ Len(then) = n - r
        /\ \A j \in 1 .. n - r : then[j] = events[r + j]
    BY <2>3, <2>4
  <2>6. events = first \o then
    <3>1. SubSeq(events, 1, n) = first \o then
      <4>1. n <= Len(events)
        BY <2>4
      <4> QED
        BY <2>3, <2>4, <4>1, CutFirst
    <3>2. SubSeq(events, 1, n) = events
      BY <2>4, CutWhole
    <3> QED
      BY <3>1, <3>2
  <2>7. queue[c] = Among(first, B)
    BY <1>2, <1>8, <2>1 DEF WatchInv, QueuesOk, r
  <2>8. Since(c)' = S /\ Wanted(c)' = W /\ Asked(c)' = Among(events, B)
    <3>1. Since(c)' = S /\ Wanted(c)' = W
      BY <1>4, <2>1, SameFilters
    <3> QED
      BY <1>2, <3>1 DEF Asked
  <2>9. \A j \in 1 .. Len(then) : then[j] \in Events /\ then[j].rev = r + j
    <3>1. ASSUME NEW j \in 1 .. n - r PROVE r + j \in 1 .. n
      BY <2>3, <2>4
    <3>2. \A i \in 1 .. n : events[i] \in Events /\ events[i].rev = i
      BY <2>2, <2>4 DEF History, n
    <3> QED
      BY <2>5, <3>1, <3>2
  <2> HIDE DEF S, W, B, first, then, evts
  <2>10. Among(first, B) \in Seq(Events) /\ Among(then, W) \in Seq(Events)
    BY <2>5, AmongType
  <2>11. Delivered(c)' = Among(first, B) \o Among(then, W)
    <3>1. queue'[c] = Among(first, B) \o Among(then, W)
      BY <1>3, <1>8, <2>3, <2>7 DEF W
    <3>2. got'[c] = <<>>
      BY <1>2, <1>5, <1>8
    <3>3. Among(first, B) \o Among(then, W) \in Seq(Events)
      BY <2>10
    <3> QED
      BY <3>1, <3>2, <3>3 DEF Delivered
  <2>12. Among(events, B) = Among(first, B) \o Among(then, B)
    BY <2>5, <2>6, AmongConcat
  <2>13. Among(Delivered(c)', S) = Among(events, B)
    <3>1. Among(Among(first, B) \o Among(then, W), S)
             = Among(Among(first, B), S) \o Among(Among(then, W), S)
      BY <2>10, AmongConcat
    <3>2. Among(Among(first, B), S) = Among(first, B \cap S) /\ B \cap S = B
      BY <2>5, AmongTwice DEF B
    <3>3. Among(Among(then, W), S) = Among(then, W \cap S) /\ W \cap S = B
      BY <2>5, AmongTwice DEF B
    <3> QED
      BY <2>11, <2>12, <3>1, <3>2, <3>3
  <2>14. ASSUME c \notin early' PROVE Delivered(c)' = Among(events, B)
    <3>1. creates[c].start \in Nat /\ ~(creates[c].start > r + 1)
      BY <1>2, <1>8, <2>1, <2>14, CreatesDomain DEF Creates, r
    <3>2. \A j \in 1 .. Len(then) : then[j] \in S
      <4>1. ASSUME NEW j \in 1 .. Len(then) PROVE r + j >= creates[c].start
        BY <2>3, <2>4, <2>5, <3>1
      <4> QED
        BY <2>9, <4>1 DEF S, Since
    <3>3. Among(then, W) = Among(then, B)
      <4>1. \A j \in 1 .. Len(then) : then[j] \in W <=> then[j] \in B
        BY <3>2 DEF B
      <4> QED
        BY <2>5, <4>1, AmongSame
    <3> QED
      BY <2>11, <2>12, <3>3
  <2> QED
    BY <2>8, <2>13, <2>14 DEF Fine
<1>9. ASSUME NEW c \in registry \ hurt PROVE Fine(c)'
  BY <1>2, <1>3, <1>4, <1>6, KeptFine
<1>10. \A c \in registry' \ hurt' : Fine(c)'
  BY <1>2, <1>8, <1>9
<1> QED
  BY <1>7, <1>10 DEF WatchInv

(* Every event from the start of a watch on reaches its queue once, in      *)
(* order and with the version it replaced, whatever falls between the       *)
(* checkpoint, the two phases of the replay and the registration.  The log  *)
(* is shown to be a snapshot of the versions at a revision followed by the  *)
(* records of the events since; the two phases read the records up to the   *)
(* checkpoint and the ones after it, and the registration, under the same   *)
(* lock as the catch-up, leaves no gap.                                     *)
THEOREM WatchesAreExact == Spec => []WatchExact
<1>1. Init => TypeOK /\ LogInv /\ WatchInv
  <2> SUFFICES ASSUME Init PROVE WatchInv
    BY InitTypes, InitLog
  <2>1. registry = {} /\ Are(Pending) = {} /\ loop = "collect"
    BY DEF Init, Are
  <2> QED
    BY <2>1 DEF WatchInv, QueuesOk
<1>2. TypeOK /\ LogInv /\ WatchInv /\ [Next]_vars => TypeOK' /\ LogInv' /\ WatchInv'
  <2> SUFFICES ASSUME TypeOK, LogInv, WatchInv, [Next]_vars PROVE WatchInv'
    BY NextTypes, NextLog
  <2>1. CASE UNCHANGED vars
    BY <2>1, IdleWatch DEF vars, store, collector
  <2>2. CASE Next
    BY <2>2, StoreWatch, StreamWatch, ForwarderWatch, CheckpointWatch, ScreenWatch,
       Phase1Watch, Phase2Watch DEF Next
  <2> QED
    BY <2>1, <2>2
<1>3. WatchInv => WatchExact
  BY DEF WatchInv, Fine, WatchExact
<1> QED
  BY <1>1, <1>2, <1>3, PTL DEF Spec
=============================================================================
