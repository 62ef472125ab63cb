-------------------------- MODULE AlgorithmsProofs --------------------------
(***************************************************************************)
(* The pure functions of the store are right for every input, whatever the *)
(* bounds of the instance, and so are the chains of offline tools: every   *)
(* property of Algorithms but the two that a collision of the checksum     *)
(* would refute (DamagedLogRead, TornHidesLater).                          *)
(***************************************************************************)
EXTENDS Algorithms, KeyLogProofs

-----------------------------------------------------------------------------
(* The order of byte strings.                                               *)

(* A prefix, cell by cell.                                                  *)
LEMMA PrefixCells ==
    \A a, b \in Seq(Nat) :
        IsPrefix(a, b) <=> Len(a) <= Len(b) /\ \A i \in 1 .. Len(a) : a[i] = b[i]
  BY DEF IsPrefix

(* a comes before b exactly if they agree up to some place of b where a     *)
(* ends or has the smaller byte.                                            *)
LEMMA BeforeCells ==
    \A a, b \in Seq(Nat) :
        Before(a, b) <=>
            \E i \in 1 .. Len(b) :
                /\ i <= Len(a) + 1
                /\ \A j \in 1 .. (i - 1) : a[j] = b[j]
                /\ i = Len(a) + 1 \/ a[i] < b[i]
<1> SUFFICES ASSUME NEW a \in Seq(Nat), NEW b \in Seq(Nat)
             PROVE  Before(a, b) <=>
                        \E i \in 1 .. Len(b) :
                            /\ i <= Len(a) + 1
                            /\ \A j \in 1 .. (i - 1) : a[j] = b[j]
                            /\ i = Len(a) + 1 \/ a[i] < b[i]
  OBVIOUS
<1>1. IsStrictPrefix(a, b) <=>
        Len(a) + 1 \in 1 .. Len(b) /\ \A j \in 1 .. Len(a) : a[j] = b[j]
  BY PrefixCells, SMTT(40) DEF IsStrictPrefix
<1> DEFINE Here(i) == /\ i <= Len(a) + 1
                      /\ \A j \in 1 .. (i - 1) : a[j] = b[j]
                      /\ i = Len(a) + 1 \/ a[i] < b[i]
<1>2. DOMAIN a \cap DOMAIN b = {i \in 1 .. Len(b) : i <= Len(a)}
  OBVIOUS
<1>3. ASSUME Before(a, b) PROVE \E i \in 1 .. Len(b) : Here(i)
  <2>1. CASE IsStrictPrefix(a, b)
    <3>1. Len(a) + 1 \in 1 .. Len(b) /\ Here(Len(a) + 1)
      BY <1>1, <2>1
    <3> QED
      BY <3>1
  <2>2. CASE \E i \in DOMAIN a \cap DOMAIN b :
                a[i] < b[i] /\ \A j \in 1 .. (i - 1) : a[j] = b[j]
    <3>1. PICK i \in DOMAIN a \cap DOMAIN b :
              a[i] < b[i] /\ \A j \in 1 .. (i - 1) : a[j] = b[j]
      BY <2>2
    <3>2. i \in 1 .. Len(b) /\ Here(i)
      BY <1>2, <3>1
    <3> QED
      BY <3>2
  <2> QED
    BY <1>3, <2>1, <2>2 DEF Before
<1>4. ASSUME NEW i \in 1 .. Len(b), Here(i) PROVE Before(a, b)
  <2>1. CASE i = Len(a) + 1
    <3>1. IsStrictPrefix(a, b)
      BY <1>1, <1>4, <2>1
    <3> QED
      BY <3>1 DEF Before
  <2>2. CASE i # Len(a) + 1
    <3>1. i \in DOMAIN a \cap DOMAIN b /\ a[i] < b[i]
          /\ \A j \in 1 .. (i - 1) : a[j] = b[j]
      BY <1>2, <1>4, <2>2
    <3> QED
      BY <3>1 DEF Before
  <2> QED
    BY <2>1, <2>2
<1> QED
  BY <1>3, <1>4

(* The place where a ends or has the smaller byte shows that a is before b. *)
LEMMA BeforeHere ==
    \A a, b \in Seq(Nat) : \A i \in 1 .. Len(b) :
        /\ i <= Len(a) + 1
        /\ \A j \in 1 .. (i - 1) : a[j] = b[j]
        /\ i = Len(a) + 1 \/ a[i] < b[i]
        => Before(a, b)
  BY BeforeCells, Zenon

(* No byte string is before itself.                                         *)
LEMMA BeforeIrreflexive ==
    \A a \in Seq(Nat) : ~Before(a, a)
  BY BeforeCells

(* The order of byte strings is transitive.                                 *)
LEMMA BeforeTransitive ==
    \A a, b, c \in Seq(Nat) : Before(a, b) /\ Before(b, c) => Before(a, c)
<1> SUFFICES ASSUME NEW a \in Seq(Nat), NEW b \in Seq(Nat), NEW c \in Seq(Nat),
                    Before(a, b), Before(b, c)
             PROVE  Before(a, c)
  OBVIOUS
<1>1. PICK i \in 1 .. Len(b) :
        /\ i <= Len(a) + 1
        /\ \A j \in 1 .. (i - 1) : a[j] = b[j]
        /\ i = Len(a) + 1 \/ a[i] < b[i]
  BY BeforeCells
<1>2. PICK n \in 1 .. Len(c) :
        /\ n <= Len(b) + 1
        /\ \A j \in 1 .. (n - 1) : b[j] = c[j]
        /\ n = Len(b) + 1 \/ b[n] < c[n]
  BY BeforeCells
<1>3. CASE i < n
  <2>1. /\ i \in 1 .. Len(c) /\ i <= Len(a) + 1
        /\ \A j \in 1 .. (i - 1) : a[j] = c[j]
        /\ i = Len(a) + 1 \/ a[i] < c[i]
    BY <1>1, <1>2, <1>3, SMTT(40)
  <2> QED
    BY <2>1, BeforeHere
<1>4. CASE n <= i
  <2>1. /\ n \in 1 .. Len(c) /\ n <= Len(a) + 1
        /\ \A j \in 1 .. (n - 1) : a[j] = c[j]
    BY <1>1, <1>2, <1>4
  <2>2. b[n] < c[n] /\ b[n] \in Nat /\ c[n] \in Nat
    BY <1>1, <1>2, <1>4, SMTT(40)
  <2>3. n = Len(a) + 1 \/ a[n] < c[n]
    <3>1. CASE n = i
      <4>1. CASE i = Len(a) + 1
        BY <3>1, <4>1
      <4>2. CASE i # Len(a) + 1
        <5>1. a[n] < b[n] /\ a[n] \in Nat
          BY <1>1, <3>1, <4>2
        <5> QED
          BY <2>2, <5>1, SMTT(40)
      <4> QED
        BY <4>1, <4>2
    <3>2. CASE n # i
      BY <1>1, <1>4, <2>2, <3>2
    <3> QED
      BY <3>1, <3>2
  <2> QED
    BY <2>1, <2>3, BeforeHere
<1> QED
  BY <1>3, <1>4

(* The first place where two strings differ decides.                        *)
LEMMA BeforeTotal ==
    \A a, b \in Seq(Nat) : a = b \/ Before(a, b) \/ Before(b, a)
<1> SUFFICES ASSUME NEW a \in Seq(Nat), NEW b \in Seq(Nat), a # b
             PROVE  Before(a, b) \/ Before(b, a)
  OBVIOUS
<1> DEFINE D == {i \in Nat : /\ i > 0
                             /\ i > Len(a) \/ i > Len(b) \/ a[i] # b[i]}
<1>1. Len(a) + 1 \in D
  OBVIOUS
<1>2. PICK i \in D : \A j \in D : i <= j
  BY <1>1, NatLeast
<1>3. \A j \in 1 .. (i - 1) : j <= Len(a) /\ j <= Len(b) /\ a[j] = b[j]
  BY <1>2
<1>4. i <= Len(a) + 1 /\ i <= Len(b) + 1
  <2>1. i - 1 = 0 \/ i - 1 \in 1 .. (i - 1)
    BY <1>2
  <2> QED
    BY <1>2, <1>3, <2>1
<1>5. ~(i = Len(a) + 1 /\ i = Len(b) + 1)
  BY <1>3
<1>6. CASE i = Len(a) + 1
  <2>1. i \in 1 .. Len(b) /\ \A j \in 1 .. (i - 1) : a[j] = b[j]
    BY <1>2, <1>3, <1>4, <1>5, <1>6
  <2> QED
    BY <1>6, <2>1, BeforeHere, SMTT(40)
<1>7. CASE i = Len(b) + 1
  <2>1. i \in 1 .. Len(a) /\ \A j \in 1 .. (i - 1) : b[j] = a[j]
    BY <1>2, <1>3, <1>4, <1>5, <1>7
  <2> QED
    BY <1>7, <2>1, BeforeHere
<1>8. CASE i <= Len(a) /\ i <= Len(b)
  <2>1. a[i] \in Nat /\ b[i] \in Nat /\ a[i] # b[i] /\ i \in 1 .. Len(a) /\ i \in 1 .. Len(b)
    BY <1>2, <1>8
  <2>2. CASE a[i] < b[i]
    BY <1>3, <2>1, <2>2, BeforeHere, SMTT(40)
  <2>3. CASE b[i] < a[i]
    <3>1. i <= Len(b) + 1 /\ \A j \in 1 .. (i - 1) : b[j] = a[j]
      BY <1>3, <1>4
    <3> QED
      BY <2>1, <2>3, <3>1, BeforeHere
  <2> QED
    BY <2>1, <2>2, <2>3
<1> QED
  BY <1>2, <1>4, <1>6, <1>7, <1>8

(* What the proofs about ranges use of the order.                           *)
LEMMA AtOrBeforeNot ==
    \A a, b \in Seq(Nat) : AtOrBefore(a, b) <=> ~Before(b, a)
  BY BeforeTotal, BeforeIrreflexive, BeforeTransitive DEF AtOrBefore

(* k with a zero byte is the next key after k.                              *)
LEMMA ZeroNext ==
    \A k, p \in Seq(Nat) : Before(k, Append(p, 0)) <=> AtOrBefore(k, p)
<1> SUFFICES ASSUME NEW k \in Seq(Nat), NEW p \in Seq(Nat)
             PROVE  Before(k, Append(p, 0)) <=> AtOrBefore(k, p)
  OBVIOUS
<1> DEFINE q == Append(p, 0)
<1>1. /\ q \in Seq(Nat) /\ Len(q) = Len(p) + 1 /\ q[Len(p) + 1] = 0
      /\ \A j \in 1 .. Len(p) : q[j] = p[j]
  OBVIOUS
<1> HIDE DEF q
<1>2. ASSUME Before(k, q) PROVE AtOrBefore(k, p)
  <2>1. PICK i \in 1 .. Len(q) :
          /\ i <= Len(k) + 1
          /\ \A j \in 1 .. (i - 1) : k[j] = q[j]
          /\ i = Len(k) + 1 \/ k[i] < q[i]
    BY <1>1, <1>2, BeforeCells
  <2>2. CASE i <= Len(p)
    <3>1. i \in 1 .. Len(p) /\ (\A j \in 1 .. (i - 1) : k[j] = p[j])
          /\ (i = Len(k) + 1 \/ k[i] < p[i])
      BY <1>1, <2>1, <2>2
    <3> QED
      BY <2>1, <3>1, BeforeCells DEF AtOrBefore
  <2>3. CASE i = Len(p) + 1
    <3>1. i = Len(k) + 1
      BY <1>1, <2>1, <2>3
    <3>2. Len(k) = Len(p) /\ \A j \in 1 .. Len(p) : k[j] = p[j]
      BY <1>1, <2>1, <2>3, <3>1
    <3>3. k = p
      BY <3>2
    <3> QED
      BY <3>3 DEF AtOrBefore
  <2> QED
    BY <1>1, <2>1, <2>2, <2>3
<1>3. Before(p, q)
  <2>1. Len(q) \in 1 .. Len(q) /\ Len(q) = Len(p) + 1
        /\ \A j \in 1 .. (Len(q) - 1) : p[j] = q[j]
    BY <1>1
  <2>2. \A i \in 1 .. Len(q) :
          i <= Len(p) + 1 /\ (\A j \in 1 .. (i - 1) : p[j] = q[j])
          /\ (i = Len(p) + 1 \/ p[i] < q[i]) => Before(p, q)
    BY <1>1, BeforeHere
  <2> QED
    BY ONLY <2>1, <2>2
<1>4. ASSUME AtOrBefore(k, p) PROVE Before(k, q)
  BY <1>1, <1>3, <1>4, BeforeTransitive DEF AtOrBefore
<1> QED
  BY <1>2, <1>4 DEF q

(* The keys with a prefix are a stretch of the order that begins with it.   *)
LEMMA PrefixStretch ==
    \A p, j, k \in Seq(Nat) :
        /\ IsPrefix(p, k) => AtOrBefore(p, k)
        /\ IsPrefix(p, k) /\ AtOrBefore(p, j) /\ AtOrBefore(j, k) => IsPrefix(p, j)
<1> SUFFICES ASSUME NEW p \in Seq(Nat), NEW j \in Seq(Nat), NEW k \in Seq(Nat),
                    IsPrefix(p, k)
             PROVE  /\ AtOrBefore(p, k)
                    /\ AtOrBefore(p, j) /\ AtOrBefore(j, k) => IsPrefix(p, j)
  OBVIOUS
<1>1. AtOrBefore(p, k)
  BY Zenon DEF AtOrBefore, Before, IsStrictPrefix
<1>2. ASSUME AtOrBefore(p, j), AtOrBefore(j, k), ~IsPrefix(p, j) PROVE FALSE
  <2>1. Before(p, j) /\ Before(j, k)
    <3>1. IsPrefix(p, p)
      BY PrefixCells
    <3> QED
      BY <1>2, <3>1 DEF AtOrBefore
  <2>2. PICK i \in 1 .. Len(j) :
          /\ i <= Len(p) + 1
          /\ \A n \in 1 .. (i - 1) : p[n] = j[n]
          /\ i = Len(p) + 1 \/ p[i] < j[i]
    BY <2>1, BeforeCells
  <2>3. i <= Len(p) /\ p[i] < j[i]
    BY <1>2, <2>2, PrefixCells, SMTT(40)
  <2>4. Len(p) <= Len(k) /\ \A n \in 1 .. Len(p) : p[n] = k[n]
    BY PrefixCells
  <2>5. Before(k, j)
    <3>1. /\ i \in 1 .. Len(j) /\ i <= Len(k) + 1
          /\ \A n \in 1 .. (i - 1) : k[n] = j[n]
          /\ k[i] < j[i]
      BY <2>2, <2>3, <2>4
    <3> QED
      BY <3>1, BeforeHere
  <2> QED
    BY <2>1, <2>5, BeforeTransitive, BeforeIrreflexive
<1> QED
  BY <1>1, <1>2

-----------------------------------------------------------------------------
(* The end of a prefix.                                                     *)
Bytes == 0 .. MaxByte

(* Bytes are numbers, at least three of them.                               *)
LEMMA BytesAreNat ==
    MaxByte \in Nat /\ MaxByte >= 2 /\ Bytes \subseteq Nat /\ Seq(Bytes) \subseteq Seq(Nat)
<1>1. MaxByte \in Nat /\ MaxByte >= 2 /\ Bytes \subseteq Nat
  BY MaxByteAssumption DEF Bytes
<1>2. \A s \in Seq(Bytes) : s \in Seq(Nat)
  BY <1>1, SeqMonotonic
<1> QED
  BY <1>1, <1>2

(* What prefix_end computes: nothing for a string of highest bytes,         *)
(* otherwise the string up to its last other byte, which is incremented.    *)
LEMMA PrefixEndCases ==
    ASSUME NEW p \in Seq(Bytes)
    PROVE  \/ prefix_end(p) = Unbounded /\ \A j \in 1 .. Len(p) : p[j] = MaxByte
           \/ \E i \in 1 .. Len(p) :
                 /\ p[i] < MaxByte
                 /\ \A j \in (i + 1) .. Len(p) : p[j] = MaxByte
                 /\ prefix_end(p) = <<Append(SubSeq(p, 1, i - 1), p[i] + 1)>>
<1> DEFINE I == {i \in 1 .. Len(p) : p[i] # MaxByte}
           last == SelectLastInSeq(p, LAMBDA x : x # MaxByte)
<1>1. last = IF I # {} THEN Max(I) ELSE 0
  BY DEF SelectLastInSeq
<1>2. prefix_end(p) = IF last = 0 THEN Unbounded
                      ELSE <<Append(SubSeq(p, 1, last - 1), p[last] + 1)>>
  BY DEF prefix_end
<1> HIDE DEF last
<1>3. CASE I = {}
  <2>1. \A j \in 1 .. Len(p) : p[j] = MaxByte
    BY <1>3
  <2> QED
    BY <1>1, <1>2, <1>3, <2>1
<1>4. CASE I # {}
  <2>1. \E x \in I : \A y \in I : x >= y
    <3>1. \E x \in I : \A y \in I : y <= x
      <4>1. I \in SUBSET Nat /\ Len(p) \in Nat /\ \A y \in I : y <= Len(p)
        OBVIOUS
      <4> HIDE DEF I
      <4> QED
        BY <1>4, <4>1, NatGreatest
    <3> QED
      BY <3>1
  <2>2. Max(I) \in I /\ \A y \in I : Max(I) >= y
    BY <2>1 DEF Max
  <2>3. last \in I /\ \A y \in I : last >= y
    BY <1>1, <1>4, <2>2
  <2>4. p[last] \in Bytes /\ p[last] # MaxByte /\ last \in 1 .. Len(p)
    BY <2>3
  <2>5. p[last] < MaxByte
    BY <2>4, BytesAreNat DEF Bytes
  <2>6. \A j \in (last + 1) .. Len(p) : p[j] = MaxByte
    BY <2>3
  <2>7. prefix_end(p) = <<Append(SubSeq(p, 1, last - 1), p[last] + 1)>>
    BY <1>2, <2>4
  <2> QED
    BY <2>4, <2>5, <2>6, <2>7
<1> QED
  BY <1>3, <1>4

(* A string cut before place i, with x there.                               *)
LEMMA CutAppend ==
    ASSUME NEW p \in Seq(Nat), NEW i \in 1 .. Len(p), NEW x \in Nat
    PROVE  LET e == Append(SubSeq(p, 1, i - 1), x) IN
           e \in Seq(Nat) /\ Len(e) = i /\ e[i] = x /\ \A j \in 1 .. (i - 1) : e[j] = p[j]
  OBVIOUS

(* Behind a string whose rest is of highest bytes there is no key that is   *)
(* not an extension of it before its incremented byte.                      *)
LEMMA IncrementedNext ==
    ASSUME NEW p \in Seq(Bytes), NEW k \in Seq(Bytes), NEW i \in 1 .. Len(p),
           p[i] < MaxByte, \A j \in (i + 1) .. Len(p) : p[j] = MaxByte
    PROVE  LET e == Append(SubSeq(p, 1, i - 1), p[i] + 1) IN
           AtOrBefore(p, k) /\ Before(k, e) <=> IsPrefix(p, k)
<1> DEFINE e == Append(SubSeq(p, 1, i - 1), p[i] + 1)
<1>1. p \in Seq(Nat) /\ k \in Seq(Nat)
  BY BytesAreNat
<1>2. e \in Seq(Nat) /\ Len(e) = i /\ e[i] = p[i] + 1
      /\ \A j \in 1 .. (i - 1) : e[j] = p[j]
  BY <1>1
<1> HIDE DEF e
<1>3. ASSUME IsPrefix(p, k) PROVE AtOrBefore(p, k) /\ Before(k, e)
  <2>1. Len(p) <= Len(k) /\ \A j \in 1 .. Len(p) : p[j] = k[j]
    BY <1>1, <1>3, PrefixCells
  <2>2. /\ i \in 1 .. Len(e) /\ i <= Len(k) + 1
        /\ \A j \in 1 .. (i - 1) : k[j] = e[j]
        /\ k[i] < e[i]
    BY <1>1, <1>2, <2>1, SMTT(40)
  <2>3. Before(k, e)
    BY <1>1, <1>2, <2>2, BeforeHere
  <2> QED
    BY <1>1, <1>3, <2>3, PrefixStretch
<1>4. ASSUME AtOrBefore(p, k), Before(k, e), ~IsPrefix(p, k) PROVE FALSE
  <2>1. Before(p, k)
    <3>1. IsPrefix(p, p)
      BY <1>1, PrefixCells
    <3> QED
      BY <1>4, <3>1 DEF AtOrBefore
  <2>2. PICK n \in 1 .. Len(k) :
          /\ n <= Len(p) + 1
          /\ \A j \in 1 .. (n - 1) : p[j] = k[j]
          /\ n = Len(p) + 1 \/ p[n] < k[n]
    BY <1>1, <2>1, BeforeCells
  <2>3. n <= Len(p) /\ p[n] < k[n]
    <3>1. n # Len(p) + 1
      <4>1. ~(Len(p) <= Len(k) /\ \A j \in 1 .. Len(p) : p[j] = k[j])
        BY <1>1, <1>4, PrefixCells
      <4> QED
        BY <1>1, <2>2, <4>1
    <3> QED
      BY <1>1, <2>2, <3>1, SMTT(40)
  <2>4. n <= i
    <3>1. k[n] \in Bytes /\ p[n] \in Bytes
      BY <2>2, <2>3
    <3>2. p[n] # MaxByte
      <4>1. k[n] \in 0 .. MaxByte /\ p[n] \in 0 .. MaxByte /\ p[n] < k[n] /\ MaxByte \in Nat
        BY <2>3, <3>1, BytesAreNat DEF Bytes
      <4> QED
        BY ONLY <4>1
    <3> QED
      BY <2>2, <2>3, <3>2
  <2>5. PICK m \in 1 .. Len(e) :
          /\ m <= Len(k) + 1
          /\ \A j \in 1 .. (m - 1) : k[j] = e[j]
          /\ m = Len(k) + 1 \/ k[m] < e[m]
    BY <1>1, <1>2, <1>4, BeforeCells
  <2>6. CASE m < n
    <3>1. k[m] = p[m] /\ e[m] = p[m] /\ m <= Len(k) /\ k[m] \in Nat
      BY <1>1, <1>2, <2>2, <2>4, <2>5, <2>6, SMTT(40)
    <3> QED
      BY <2>5, <3>1
  <2>7. CASE n < m
    <3>1. k[n] = e[n] /\ e[n] = p[n] /\ p[n] \in Nat
      BY <1>1, <1>2, <2>3, <2>5, <2>7
    <3> QED
      BY <2>3, <3>1
  <2>8. CASE n = m
    <3>1. k[n] < e[n] /\ p[n] < k[n] /\ k[n] \in Nat /\ p[n] \in Nat
      BY <1>1, <2>2, <2>3, <2>5, <2>8, SMTT(40)
    <3>2. CASE n < i
      BY <1>2, <2>2, <3>1, <3>2
    <3>3. CASE n = i
      BY <1>2, <3>1, <3>3
    <3> QED
      BY <2>4, <3>2, <3>3
  <2> QED
    BY <2>6, <2>7, <2>8
<1> QED
  BY <1>3, <1>4 DEF e

(* The keys with a prefix are those from it up to its prefix_end.           *)
LEMMA PrefixEndExact ==
    \A p, k \in Seq(Bytes) :
        AtOrBefore(p, k) /\ StartsBeforeEnd(k, prefix_end(p)) <=> IsPrefix(p, k)
<1> SUFFICES ASSUME NEW p \in Seq(Bytes), NEW k \in Seq(Bytes)
             PROVE  AtOrBefore(p, k) /\ StartsBeforeEnd(k, prefix_end(p))
                        <=> IsPrefix(p, k)
  OBVIOUS
<1>1. p \in Seq(Nat) /\ k \in Seq(Nat)
  BY BytesAreNat
<1>2. CASE prefix_end(p) = Unbounded /\ \A j \in 1 .. Len(p) : p[j] = MaxByte
  <2>1. ASSUME AtOrBefore(p, k), ~IsPrefix(p, k) PROVE FALSE
    <3>1. Before(p, k)
      <4>1. IsPrefix(p, p)
        BY <1>1, PrefixCells
      <4> QED
        BY <2>1, <4>1 DEF AtOrBefore
    <3>2. PICK n \in 1 .. Len(k) :
            /\ n <= Len(p) + 1
            /\ \A j \in 1 .. (n - 1) : p[j] = k[j]
            /\ n = Len(p) + 1 \/ p[n] < k[n]
      BY <1>1, <3>1, BeforeCells
    <3>3. n <= Len(p) /\ p[n] < k[n]
      BY <1>1, <2>1, <3>2, PrefixCells
    <3>4. k[n] \in Bytes /\ p[n] = MaxByte
      BY <1>2, <3>2, <3>3
    <3> QED
      BY <3>3, <3>4, BytesAreNat, SMTT(40) DEF Bytes
  <2> QED
    BY <1>1, <1>2, <2>1, PrefixStretch DEF StartsBeforeEnd
<1>3. CASE \E i \in 1 .. Len(p) :
              /\ p[i] < MaxByte
              /\ \A j \in (i + 1) .. Len(p) : p[j] = MaxByte
              /\ prefix_end(p) = <<Append(SubSeq(p, 1, i - 1), p[i] + 1)>>
  <2>1. PICK i \in 1 .. Len(p) :
              /\ p[i] < MaxByte
              /\ \A j \in (i + 1) .. Len(p) : p[j] = MaxByte
              /\ prefix_end(p) = <<Append(SubSeq(p, 1, i - 1), p[i] + 1)>>
    BY <1>3
  <2> DEFINE e == Append(SubSeq(p, 1, i - 1), p[i] + 1)
  <2>2. AtOrBefore(p, k) /\ Before(k, e) <=> IsPrefix(p, k)
    BY <2>1, IncrementedNext
  <2>3. prefix_end(p) # Unbounded /\ prefix_end(p)[1] = e
    <3> HIDE DEF e
    <3>1. prefix_end(p) = <<e>>
      BY <2>1 DEF e
    <3> QED
      BY <3>1 DEF Unbounded
  <2> QED
    BY <2>2, <2>3 DEF StartsBeforeEnd
<1> QED
  BY <1>2, <1>3, PrefixEndCases

-----------------------------------------------------------------------------
(* Ranges.                                                                  *)

(* The bounds resolve_range makes.                                          *)
Bounds ==
    {AllKeys}
    \cup {Point(k) : k \in Seq(Bytes)} \cup {From(k) : k \in Seq(Bytes)}
    \cup {Prefix(k) : k \in Seq(Bytes)}
    \cup {KeyRange(s, e) : s \in Seq(Bytes), e \in Seq(Bytes)}

(* Statements about the bounds, kind by kind.                               *)
LEMMA BoundCases ==
    ASSUME NEW b \in Bounds
    PROVE  \/ b = AllKeys
           \/ \E k \in Seq(Bytes) : b = Point(k) \/ b = From(k) \/ b = Prefix(k)
           \/ \E s, e \in Seq(Bytes) : b = KeyRange(s, e)
  BY DEF Bounds

(* matches_range, kind by kind of a range.                                  *)
LEMMA MatchesKinds ==
    /\ \A k : matches_range(AllKeys, k)
    /\ \A s, k : matches_range(Point(s), k) <=> k = s
    /\ \A s, k : matches_range(From(s), k) <=> AtOrBefore(s, k)
    /\ \A s, k : matches_range(Prefix(s), k) <=> IsPrefix(s, k)
    /\ \A s, e, k : matches_range(KeyRange(s, e), k) <=> AtOrBefore(s, k) /\ Before(k, e)
<1>1. \A k : matches_range(AllKeys, k)
  BY DEF matches_range, AllKeys
<1>2. \A s, k : matches_range(Point(s), k) <=> k = s
  BY DEF matches_range, Point
<1>3. \A s, k : matches_range(From(s), k) <=> AtOrBefore(s, k)
  BY DEF matches_range, From
<1>4. \A s, k : matches_range(Prefix(s), k) <=> IsPrefix(s, k)
  BY DEF matches_range, Prefix
<1>5. \A s, e, k : matches_range(KeyRange(s, e), k) <=> AtOrBefore(s, k) /\ Before(k, e)
  BY DEF matches_range, KeyRange
<1> QED
  BY <1>1, <1>2, <1>3, <1>4, <1>5

(* A bound matches the keys of its interval.                                *)
LEMMA IntervalExact ==
    ASSUME NEW b \in Bounds
    PROVE  /\ bound_interval(b)[1] \in Seq(Bytes)
           /\ bound_interval(b)[2] = Unbounded \/ bound_interval(b)[2][1] \in Seq(Nat)
           /\ \A k \in Seq(Bytes) : matches_range(b, k) <=>
                 /\ AtOrBefore(bound_interval(b)[1], k)
                 /\ StartsBeforeEnd(k, bound_interval(b)[2])
<1> DEFINE start == bound_interval(b)[1]
           end == bound_interval(b)[2]
           Exact == \A k \in Seq(Bytes) :
                       matches_range(b, k) <=> AtOrBefore(start, k) /\ StartsBeforeEnd(k, end)
<1> SUFFICES start \in Seq(Bytes) /\ (end = Unbounded \/ end[1] \in Seq(Nat)) /\ Exact
  OBVIOUS
<1>1. CASE b = AllKeys
  <2>1. start = <<>> /\ end = Unbounded
    BY <1>1 DEF bound_interval, AllKeys
  <2>2. \A k \in Seq(Bytes) : AtOrBefore(<<>>, k)
    <3> SUFFICES ASSUME NEW k \in Seq(Bytes) PROVE AtOrBefore(<<>>, k)
      OBVIOUS
    <3>1. <<>> \in Seq(Nat) /\ Len(<<>>) = 0 /\ k \in Seq(Nat)
      BY BytesAreNat
    <3>2. Len(<<>>) <= Len(k) /\ \A n \in 1 .. Len(<<>>) : <<>>[n] = k[n]
      BY <3>1
    <3>3. IsPrefix(<<>>, k)
      BY <3>1, <3>2, PrefixCells, Zenon
    <3> QED
      BY <3>1, <3>3, PrefixStretch
  <2> HIDE DEF start, end
  <2>3. <<>> \in Seq(Bytes)
    OBVIOUS
  <2> QED
    BY <1>1, <2>1, <2>2, <2>3, MatchesKinds DEF StartsBeforeEnd
<1>2. CASE \E s \in Seq(Bytes) : b = Point(s)
  <2>1. PICK s \in Seq(Bytes) : b = Point(s)
    BY <1>2
  <2>2. start = s /\ end = <<Append(s, 0)>>
    BY <2>1 DEF bound_interval, Point, point_interval, PointEnd
  <2>3. end # Unbounded /\ end[1] = Append(s, 0) /\ Append(s, 0) \in Seq(Nat) /\ s \in Seq(Nat)
    BY <2>2, BytesAreNat DEF Unbounded
  <2> HIDE DEF start, end
  <2>4. ASSUME NEW k \in Seq(Bytes)
        PROVE  matches_range(b, k) <=> AtOrBefore(s, k) /\ Before(k, Append(s, 0))
    <3>1. k \in Seq(Nat)
      BY BytesAreNat
    <3>2. k = s <=> AtOrBefore(s, k) /\ AtOrBefore(k, s)
      BY <2>3, <3>1, BeforeTransitive, BeforeIrreflexive DEF AtOrBefore
    <3> QED
      BY <2>1, <2>3, <3>1, <3>2, ZeroNext, MatchesKinds
  <2> QED
    BY <2>2, <2>3, <2>4 DEF StartsBeforeEnd
<1>3. CASE \E s \in Seq(Bytes) : b = From(s)
  <2>1. PICK s \in Seq(Bytes) : b = From(s)
    BY <1>3
  <2>2. start = s /\ end = Unbounded
    BY <2>1 DEF bound_interval, From
  <2> HIDE DEF start, end
  <2> QED
    BY <2>1, <2>2, MatchesKinds DEF StartsBeforeEnd
<1>4. CASE \E s \in Seq(Bytes) : b = Prefix(s)
  <2>1. PICK s \in Seq(Bytes) : b = Prefix(s)
    BY <1>4
  <2>2. start = s /\ end = prefix_end(s)
    BY <2>1 DEF bound_interval, Prefix
  <2> HIDE DEF start, end
  <2>3. prefix_end(s) = Unbounded \/ prefix_end(s)[1] \in Seq(Nat)
    <3>1. CASE \E i \in 1 .. Len(s) :
                  prefix_end(s) = <<Append(SubSeq(s, 1, i - 1), s[i] + 1)>>
      <4>1. PICK i \in 1 .. Len(s) :
                  prefix_end(s) = <<Append(SubSeq(s, 1, i - 1), s[i] + 1)>>
        BY <3>1
      <4>2. s \in Seq(Nat)
        BY BytesAreNat
      <4>3. SubSeq(s, 1, i - 1) \in Seq(Nat) /\ s[i] + 1 \in Nat
        BY <4>2
      <4> QED
        BY <4>1, <4>3
    <3> QED
      BY <3>1, PrefixEndCases
  <2> QED
    BY <2>1, <2>2, <2>3, MatchesKinds, PrefixEndExact
<1>5. CASE \E s, e \in Seq(Bytes) : b = KeyRange(s, e)
  <2>1. PICK s \in Seq(Bytes), e \in Seq(Bytes) : b = KeyRange(s, e)
    BY <1>5
  <2>2. start = s /\ end = <<e>>
    BY <2>1 DEF bound_interval, KeyRange
  <2>3. end # Unbounded /\ end[1] = e /\ e \in Seq(Nat)
    BY <2>2, BytesAreNat DEF Unbounded
  <2> HIDE DEF start, end
  <2> QED
    BY <2>1, <2>2, <2>3, MatchesKinds DEF StartsBeforeEnd
<1> QED
  BY <1>1, <1>2, <1>3, <1>4, <1>5, BoundCases

(* Two bounds overlap exactly if some key is matched by both; the later of  *)
(* their starts is such a key.                                              *)
LEMMA OverlapOfBounds ==
    ASSUME NEW a \in Bounds, NEW b \in Bounds
    PROVE  /\ intervals_overlap(bound_interval(a), bound_interval(b)) =>
                 \E k \in {bound_interval(a)[1], bound_interval(b)[1]} :
                    matches_range(a, k) /\ matches_range(b, k)
           /\ \A k \in Seq(Bytes) :
                 matches_range(a, k) /\ matches_range(b, k) =>
                    intervals_overlap(bound_interval(a), bound_interval(b))
<1> DEFINE i == bound_interval(a)
           j == bound_interval(b)
<1>1. /\ i[1] \in Seq(Bytes)
      /\ i[2] = Unbounded \/ i[2][1] \in Seq(Nat)
      /\ \A k \in Seq(Bytes) :
            matches_range(a, k) <=> AtOrBefore(i[1], k) /\ StartsBeforeEnd(k, i[2])
  BY IntervalExact
<1>2. /\ j[1] \in Seq(Bytes)
      /\ j[2] = Unbounded \/ j[2][1] \in Seq(Nat)
      /\ \A k \in Seq(Bytes) :
            matches_range(b, k) <=> AtOrBefore(j[1], k) /\ StartsBeforeEnd(k, j[2])
  BY IntervalExact
<1> HIDE DEF i, j
<1>3. i[1] \in Seq(Nat) /\ j[1] \in Seq(Nat)
  BY <1>1, <1>2, BytesAreNat
<1>4. ASSUME intervals_overlap(i, j)
      PROVE  \E k \in {i[1], j[1]} : matches_range(a, k) /\ matches_range(b, k)
  <2>1. AtOrBefore(i[1], j[1]) \/ AtOrBefore(j[1], i[1])
    BY <1>3, BeforeTotal DEF AtOrBefore
  <2>2. AtOrBefore(i[1], i[1]) /\ AtOrBefore(j[1], j[1])
    BY DEF AtOrBefore
  <2> QED
    BY <1>1, <1>2, <1>4, <2>1, <2>2 DEF intervals_overlap
<1>5. ASSUME NEW k \in Seq(Bytes), matches_range(a, k), matches_range(b, k)
      PROVE  intervals_overlap(i, j)
  <2>1. /\ AtOrBefore(i[1], k) /\ StartsBeforeEnd(k, i[2])
        /\ AtOrBefore(j[1], k) /\ StartsBeforeEnd(k, j[2])
    BY <1>1, <1>2, <1>5
  <2>2. k \in Seq(Nat)
    BY BytesAreNat
  <2>3. StartsBeforeEnd(i[1], i[2]) /\ StartsBeforeEnd(j[1], i[2])
    BY <1>1, <1>3, <2>1, <2>2, BeforeTransitive DEF StartsBeforeEnd, AtOrBefore
  <2>4. StartsBeforeEnd(i[1], j[2]) /\ StartsBeforeEnd(j[1], j[2])
    BY <1>2, <1>3, <2>1, <2>2, BeforeTransitive DEF StartsBeforeEnd, AtOrBefore
  <2> QED
    BY <2>3, <2>4 DEF intervals_overlap
<1> QED
  BY <1>4, <1>5 DEF i, j

(* Whatever keys the map holds, a scan visits those the bound matches.      *)
LEMMA ScanOfTable ==
    ASSUME NEW b \in Bounds, NEW table \in SUBSET Seq(Bytes)
    PROVE  ScanKeys(table, b) = {k \in table : matches_range(b, k)}
<1> DEFINE Window == {k \in table : InBounds(btree_bounds(b), k)}
<1>1. \A k \in table : k \in Seq(Bytes) /\ k \in Seq(Nat)
  BY BytesAreNat
<1>2. ScanKeys(table, b) =
        {k \in Window : b.kind = "Prefix" =>
            \A j \in Window : AtOrBefore(j, k) => IsPrefix(b.start, j)}
  BY DEF ScanKeys
<1>3. CASE b = AllKeys
  <2>1. b.kind = "All" /\ btree_bounds(b) = <<Unbounded, Unbounded>>
    BY <1>3 DEF btree_bounds, AllKeys
  <2>2. \A k : InBounds(btree_bounds(b), k)
    BY <2>1 DEF InBounds
  <2> QED
    BY <1>2, <1>3, <2>1, <2>2, MatchesKinds
<1>4. CASE \E s \in Seq(Bytes) : b = Point(s)
  <2>1. PICK s \in Seq(Bytes) : b = Point(s)
    BY <1>4
  <2>2. b.kind = "Point" /\ btree_bounds(b) = <<<<s>>, <<Append(s, 0)>>>>
    BY <2>1 DEF btree_bounds, Point, PointEnd
  <2>3. \A k : InBounds(btree_bounds(b), k) <=> AtOrBefore(s, k) /\ Before(k, Append(s, 0))
    BY <2>2 DEF InBounds, Unbounded
  <2>4. ASSUME NEW k \in table PROVE matches_range(b, k) <=> InBounds(btree_bounds(b), k)
    <3>1. s \in Seq(Nat) /\ k \in Seq(Nat)
      BY <1>1, BytesAreNat
    <3>2. k = s <=> AtOrBefore(s, k) /\ AtOrBefore(k, s)
      BY <3>1, BeforeTransitive, BeforeIrreflexive DEF AtOrBefore
    <3> QED
      BY <2>1, <2>3, <3>1, <3>2, ZeroNext, MatchesKinds
  <2> QED
    BY <1>2, <2>2, <2>4
<1>5. CASE \E s \in Seq(Bytes) : b = From(s)
  <2>1. PICK s \in Seq(Bytes) : b = From(s)
    BY <1>5
  <2>2. b.kind = "From" /\ btree_bounds(b) = <<<<s>>, Unbounded>>
    BY <2>1 DEF btree_bounds, From
  <2>3. \A k : InBounds(btree_bounds(b), k) <=> AtOrBefore(s, k)
    BY <2>2 DEF InBounds, Unbounded
  <2> QED
    BY <1>2, <2>1, <2>2, <2>3, MatchesKinds
<1>6. CASE \E s \in Seq(Bytes) : b = Prefix(s)
  <2>1. PICK s \in Seq(Bytes) : b = Prefix(s)
    BY <1>6
  <2>2. b.kind = "Prefix" /\ b.start = s /\ btree_bounds(b) = <<<<s>>, Unbounded>>
    BY <2>1 DEF btree_bounds, Prefix
  <2>3. \A k : InBounds(btree_bounds(b), k) <=> AtOrBefore(s, k)
    BY <2>2 DEF InBounds, Unbounded
  <2>4. s \in Seq(Nat)
    BY BytesAreNat
  <2>5. ASSUME NEW k \in table
        PROVE  IsPrefix(s, k) <=>
                  /\ AtOrBefore(s, k)
                  /\ \A j \in table : AtOrBefore(s, j) /\ AtOrBefore(j, k) => IsPrefix(s, j)
    <3>1. AtOrBefore(k, k)
      BY DEF AtOrBefore
    <3> QED
      BY <1>1, <2>4, <3>1, PrefixStretch
  <2>6. ASSUME NEW k PROVE k \in ScanKeys(table, b) <=> k \in table /\ matches_range(b, k)
    <3>1. k \in ScanKeys(table, b) <=>
            /\ k \in table /\ AtOrBefore(s, k)
            /\ \A j \in table : AtOrBefore(s, j) /\ AtOrBefore(j, k) => IsPrefix(s, j)
      BY <1>2, <2>2, <2>3
    <3>2. matches_range(b, k) <=> IsPrefix(s, k)
      BY <2>1, MatchesKinds
    <3> QED
      BY <2>5, <3>1, <3>2
  <2>7. ScanKeys(table, b) \subseteq table
    BY <1>2
  <2> QED
    BY <2>6, <2>7
<1>7. CASE \E s, e \in Seq(Bytes) : b = KeyRange(s, e)
  <2>1. PICK s \in Seq(Bytes), e \in Seq(Bytes) : b = KeyRange(s, e)
    BY <1>7
  <2>2. b.kind = "Range" /\ btree_bounds(b) = <<<<s>>, <<e>>>>
    BY <2>1 DEF btree_bounds, KeyRange
  <2>3. \A k : InBounds(btree_bounds(b), k) <=> AtOrBefore(s, k) /\ Before(k, e)
    BY <2>2 DEF InBounds, Unbounded
  <2> QED
    BY <1>2, <2>1, <2>2, <2>3, MatchesKinds
<1> QED
  BY <1>3, <1>4, <1>5, <1>6, <1>7, BoundCases

-----------------------------------------------------------------------------
(* What the input at hand can be, by its kind.                              *)
InputOK ==
    /\ input.kind = "range" => \E r \in Requested :
          input = [kind |-> "range", bound |-> resolve_range(r[1], r[2]),
                   key |-> r[1], range_end |-> r[2]]
    /\ input.kind = "writes" => \E r, q \in Requested :
          input = [kind |-> "writes", a |-> resolve_range(r[1], r[2]),
                   b |-> resolve_range(q[1], q[2])]
    /\ input.kind = "table" => \E h \in SeqOf(Writes(Keys, {0}), MaxWrites) :
          input = [kind |-> "table", table |-> TableAfter(h)]
    /\ input.kind = "kv" => \E kv \in KvFields : input = [kind |-> "kv", kv |-> kv]
    /\ input.kind = "file" =>
          \E kvs \in SeqOf(ScanFields, 2), later \in ScanFields :
          \E cut \in 0 .. Len(FileOf(RecordsOf(kvs))) :
             input = [kind |-> "file", kvs |-> kvs, later |-> later, cut |-> cut]
    /\ input.kind = "cut" => \E h \in [1 .. 2 -> LegacyWrites] :
          \E cut \in 0 .. Len(LegacyLog(LegacyRecords(h))) :
             input = [kind |-> "cut", recs |-> LegacyRecords(h), cut |-> cut]
    /\ input.kind = "legacy" => \E h \in SeqOf(LegacyWrites, MaxLegacy) :
          input = [kind |-> "legacy", history |-> h, log |-> LegacyLog(LegacyRecords(h))]

(* Every input was picked.                                                  *)
LEMMA InputPicked == Spec => []InputOK
<1>1. Init => InputOK
  BY DEF Init, InputOK, None
<1>2. InputOK /\ [Next]_vars => InputOK'
  <2> SUFFICES ASSUME InputOK, [Next]_vars PROVE InputOK'
    OBVIOUS
  <2>1. CASE PickRange
    <3>1. PICK r \in Requested :
            input' = [kind |-> "range", bound |-> resolve_range(r[1], r[2]),
                      key |-> r[1], range_end |-> r[2]]
      BY <2>1 DEF PickRange
    <3>2. input'.kind = "range"
      BY <3>1
    <3> QED
      BY <3>1, <3>2 DEF InputOK
  <2>2. CASE PickWrites
    <3>1. PICK r \in Requested, q \in Requested :
            input' = [kind |-> "writes", a |-> resolve_range(r[1], r[2]),
                      b |-> resolve_range(q[1], q[2])]
      BY <2>2 DEF PickWrites
    <3>2. input'.kind = "writes"
      BY <3>1
    <3> QED
      BY <3>1, <3>2 DEF InputOK
  <2>3. CASE PickTable
    <3>1. PICK h \in SeqOf(Writes(Keys, {0}), MaxWrites) :
            input' = [kind |-> "table", table |-> TableAfter(h)]
      BY <2>3 DEF PickTable
    <3>2. input'.kind = "table"
      BY <3>1
    <3> QED
      BY <3>1, <3>2 DEF InputOK
  <2>4. CASE PickKv
    <3>1. PICK kv \in KvFields : input' = [kind |-> "kv", kv |-> kv]
      BY <2>4 DEF PickKv
    <3>2. input'.kind = "kv"
      BY <3>1
    <3> QED
      BY <3>1, <3>2 DEF InputOK
  <2>5. CASE PickFile
    <3>1. \E kvs \in SeqOf(ScanFields, 2), later \in ScanFields :
          \E cut \in 0 .. Len(FileOf(RecordsOf(kvs))) :
             input' = [kind |-> "file", kvs |-> kvs, later |-> later, cut |-> cut]
      BY <2>5 DEF PickFile
    <3>2. input'.kind = "file"
      BY <3>1
    <3> QED
      BY <3>1, <3>2 DEF InputOK
  <2>6. CASE PickDamage
    <3>1. PICK h \in [1 .. 2 -> LegacyWrites] :
             LET recs == LegacyRecords(h) IN
             \/ \E cut \in 0 .. Len(LegacyLog(recs)) :
                   input' = [kind |-> "cut", recs |-> recs, cut |-> cut]
             \/ input'.kind = "changed"
      BY <2>6 DEF PickDamage
    <3>2. CASE \E cut \in 0 .. Len(LegacyLog(LegacyRecords(h))) :
                  input' = [kind |-> "cut", recs |-> LegacyRecords(h), cut |-> cut]
      <4>1. input'.kind = "cut"
        BY <3>2
      <4> QED
        BY <3>2, <4>1 DEF InputOK
    <3>3. CASE input'.kind = "changed"
      BY <3>3 DEF InputOK
    <3> QED
      BY <3>1, <3>2, <3>3
  <2>7. CASE PickLegacy
    <3>1. PICK h \in SeqOf(LegacyWrites, MaxLegacy) :
            input' = [kind |-> "legacy", history |-> h, log |-> LegacyLog(LegacyRecords(h))]
      BY <2>7 DEF PickLegacy
    <3>2. input'.kind = "legacy"
      BY <3>1
    <3> QED
      BY <3>1, <3>2 DEF InputOK
  <2>8. CASE Drop
    BY <2>8 DEF Drop, InputOK, None
  <2>9. CASE UNCHANGED vars
    BY <2>9 DEF vars, InputOK
  <2> QED
    BY <2>1, <2>2, <2>3, <2>4, <2>5, <2>6, <2>7, <2>8, <2>9 DEF Next
<1> QED
  BY <1>1, <1>2, PTL DEF Spec

-----------------------------------------------------------------------------
(* Key ranges of requests.                                                  *)
LEMMA ByteStringsAre ==
    ASSUME NEW n \in Nat
    PROVE  \A s : s \in ByteStrings(n) <=> s \in Seq(Bytes) /\ Len(s) <= n
<1> SUFFICES ASSUME NEW s
             PROVE  s \in ByteStrings(n) <=> s \in Seq(Bytes) /\ Len(s) <= n
  OBVIOUS
<1>1. s \in ByteStrings(n) <=> \E m \in 0 .. n : s \in [1 .. m -> Bytes]
  BY DEF ByteStrings, SeqOf, Bytes
<1>2. ASSUME NEW m \in 0 .. n, s \in [1 .. m -> Bytes]
      PROVE  s \in Seq(Bytes) /\ Len(s) <= n
  <2>1. m \in Nat
    OBVIOUS
  <2>2. s \in Seq(Bytes) /\ Len(s) = m
    BY <1>2, <2>1
  <2> QED
    BY <2>2
<1>3. ASSUME s \in Seq(Bytes), Len(s) <= n
      PROVE  \E m \in 0 .. n : s \in [1 .. m -> Bytes]
  <2>1. Len(s) \in 0 .. n /\ s \in [1 .. Len(s) -> Bytes]
    BY <1>3
  <2> QED
    BY <2>1
<1> QED
  BY <1>1, <1>2, <1>3

(* What is requested is a pair of byte strings with a key that is not       *)
(* empty.                                                                   *)
LEMMA RequestedStrings ==
    ASSUME NEW r \in Requested
    PROVE  /\ r[1] \in Seq(Bytes) /\ r[2] \in Seq(Bytes) /\ r[1] # <<>>
           /\ r[1] \in ByteStrings(MaxKeyLen)
<1>1. r[1] \in ByteStrings(MaxKeyLen) \ {<<>>} /\ r[2] \in ByteStrings(MaxKeyLen)
  BY DEF Requested
<1> QED
  BY <1>1, ByteStringsAre, BoundsAssumption

(* The encoding of a prefix by its incremented last byte is its prefix_end. *)
LEMMA PrefixEncodedIsEnd ==
    ASSUME NEW key \in Seq(Bytes), key # <<>>, NEW end \in Seq(Bytes),
           PrefixEncoded(key, end), NEW k \in Seq(Bytes)
    PROVE  IsPrefix(key, k) <=> AtOrBefore(key, k) /\ Before(k, end)
<1> DEFINE n == Len(key)
           e == Append(SubSeq(key, 1, n - 1), key[n] + 1)
<1>1. n \in 1 .. Len(key) /\ n \in Nat /\ key[n] \in Bytes
  OBVIOUS
<1>2. Len(end) = n /\ SubSeq(end, 1, n - 1) = SubSeq(key, 1, n - 1)
      /\ end[n] = (key[n] + 1) % (MaxByte + 1) /\ key[n] # MaxByte
  BY DEF PrefixEncoded, Front, Last
<1>3. key[n] < MaxByte
  BY <1>1, <1>2, BytesAreNat DEF Bytes
<1>4. end[n] = key[n] + 1
  <2>1. key[n] \in Nat /\ MaxByte \in Nat
    BY <1>1, BytesAreNat
  <2>2. \A x, y \in Nat : x < y => (x + 1) % (y + 1) = x + 1
    BY SMTT(40)
  <2> QED
    BY <1>2, <1>3, <2>1, <2>2
<1>5. end = e
  <2>1. \A j \in 1 .. (n - 1) : end[j] = key[j]
    <3> SUFFICES ASSUME NEW j \in 1 .. (n - 1) PROVE end[j] = key[j]
      OBVIOUS
    <3>1. SubSeq(end, 1, n - 1)[j] = end[j] /\ SubSeq(key, 1, n - 1)[j] = key[j]
      BY <1>1, <1>2
    <3> QED
      BY <1>2, <3>1
  <2>2. key[n] + 1 \in Nat /\ key \in Seq(Nat) /\ end \in Seq(Nat)
    BY <1>1, BytesAreNat
  <2>3. e \in Seq(Nat) /\ Len(e) = n /\ e[n] = key[n] + 1
        /\ \A j \in 1 .. (n - 1) : e[j] = key[j]
    BY <1>1, <2>2, CutAppend, ZenonT(60)
  <2> HIDE DEF e
  <2>4. \A j \in 1 .. n : end[j] = e[j]
    <3> SUFFICES ASSUME NEW j \in 1 .. n PROVE end[j] = e[j]
      OBVIOUS
    <3>1. j = n \/ j \in 1 .. (n - 1)
      BY <1>1
    <3> QED
      BY <1>4, <2>1, <2>3, <3>1
  <2>5. n \in Nat /\ Len(end) = n /\ Len(e) = n /\ end \in Seq(Nat) /\ e \in Seq(Nat)
    BY <1>1, <1>2, <2>2, <2>3
  <2> HIDE DEF n
  <2> QED
    BY ONLY <2>4, <2>5
<1>6. AtOrBefore(key, k) /\ Before(k, e) <=> IsPrefix(key, k)
  BY <1>1, <1>3, IncrementedNext
<1> QED
  BY <1>5, <1>6

(* resolve_range gives one of the kinds of a range.                         *)
LEMMA ResolveBounds ==
    ASSUME NEW key \in Seq(Bytes), NEW end \in Seq(Bytes)
    PROVE  resolve_range(key, end) \in Bounds
  BY DEF resolve_range, Bounds

(* What a request means, for every key and every range end but key\0.       *)
LEMMA ResolveExact ==
    ASSUME NEW key \in Seq(Bytes), key # <<>>, NEW end \in Seq(Bytes), NEW k \in Seq(Bytes),
           end # Append(key, 0)
    PROVE  matches_range(resolve_range(key, end), k) <=> AsksFor(key, end, k)
<1>1. <<0>> # <<>>
  OBVIOUS
<1>2. CASE end = <<>>
  BY <1>1, <1>2, MatchesKinds DEF resolve_range, AsksFor
<1>3. CASE end = <<0>>
  BY <1>1, <1>3, MatchesKinds DEF resolve_range, AsksFor
<1>4. CASE end # <<>> /\ end # <<0>>
  <2>1. CASE PrefixEncoded(key, end)
    <3>1. resolve_range(key, end) = Prefix(key)
      BY <1>4, <2>1 DEF resolve_range
    <3>2. IsPrefix(key, k) <=> AtOrBefore(key, k) /\ Before(k, end)
      BY <2>1, PrefixEncodedIsEnd
    <3> QED
      BY <1>4, <3>1, <3>2, MatchesKinds DEF AsksFor
  <2>2. CASE ~PrefixEncoded(key, end)
    <3>1. resolve_range(key, end) = KeyRange(key, end)
      BY <1>4, <2>2 DEF resolve_range, ZeroSuffixed
    <3> QED
      BY <1>4, <3>1, MatchesKinds DEF AsksFor
  <2> QED
    BY <2>1, <2>2
<1> QED
  BY <1>2, <1>3, <1>4

(* A bound matches exactly the keys its request asks for, for every length  *)
(* of keys and every highest byte (resolve_range), unless the range end is  *)
(* key\0.                                                                   *)
THEOREM MatchesAsRequested == Spec => []MatchExact
<1>1. InputOK => MatchExact
  <2> SUFFICES ASSUME InputOK, input.kind = "range",
                      input.range_end # Append(input.key, 0)
               PROVE  BoundMatches(input)
    BY DEF MatchExact
  <2>1. PICK r \in Requested :
          input = [kind |-> "range", bound |-> resolve_range(r[1], r[2]),
                   key |-> r[1], range_end |-> r[2]]
    BY DEF InputOK
  <2>2. input.bound = resolve_range(r[1], r[2]) /\ input.key = r[1] /\ input.range_end = r[2]
    BY <2>1
  <2>3. \A k \in ByteStrings(MaxKeyLen + 1) : k \in Seq(Bytes)
    BY ByteStringsAre, BoundsAssumption
  <2>4. ASSUME NEW k \in ByteStrings(MaxKeyLen + 1)
        PROVE  matches_range(resolve_range(r[1], r[2]), k) <=> AsksFor(r[1], r[2], k)
    BY <2>2, <2>3, RequestedStrings, ResolveExact
  <2> QED
    BY <2>2, <2>4 DEF BoundMatches
<1> QED
  BY <1>1, InputPicked, PTL

(* A scan of the map visits exactly the keys the bound matches.             *)
THEOREM ScansWhatMatches == Spec => []ScanExact
<1>1. InputOK => ScanExact
  <2> SUFFICES ASSUME InputOK, input.kind = "range"
               PROVE  LET table == ByteStrings(MaxKeyLen + 1) IN
                      ScanKeys(table, input.bound) =
                          {k \in table : matches_range(input.bound, k)}
    BY DEF ScanExact
  <2>1. PICK r \in Requested :
          input = [kind |-> "range", bound |-> resolve_range(r[1], r[2]),
                   key |-> r[1], range_end |-> r[2]]
    BY DEF InputOK
  <2>2. input.bound \in Bounds
    BY <2>1, RequestedStrings, ResolveBounds
  <2>3. ByteStrings(MaxKeyLen + 1) \in SUBSET Seq(Bytes)
    BY ByteStringsAre, BoundsAssumption
  <2> QED
    BY <2>2, <2>3, ScanOfTable
<1> QED
  BY <1>1, InputPicked, PTL

(* Two writes are refused as duplicates exactly if some key is matched by   *)
(* both.                                                                    *)
THEOREM OverlapIsExact == Spec => []OverlapExact
<1>1. InputOK => OverlapExact
  <2> SUFFICES ASSUME InputOK, input.kind = "writes"
               PROVE  intervals_overlap(bound_interval(input.a), bound_interval(input.b))
                        <=> \E k \in ByteStrings(MaxKeyLen) :
                                matches_range(input.a, k) /\ matches_range(input.b, k)
    BY DEF OverlapExact
  <2>1. PICK r \in Requested, q \in Requested :
          input = [kind |-> "writes", a |-> resolve_range(r[1], r[2]),
                   b |-> resolve_range(q[1], q[2])]
    BY DEF InputOK
  <2>2. input.a = resolve_range(r[1], r[2]) /\ input.b = resolve_range(q[1], q[2])
    BY <2>1
  <2>3. input.a \in Bounds /\ input.b \in Bounds
    BY <2>2, RequestedStrings, ResolveBounds
  <2>4. \A t \in Requested : bound_interval(resolve_range(t[1], t[2]))[1] = t[1]
    <3> SUFFICES ASSUME NEW t \in Requested
                 PROVE  bound_interval(resolve_range(t[1], t[2]))[1] = t[1]
      OBVIOUS
    <3>1. t[1] # <<>>
      BY RequestedStrings
    <3>2. /\ bound_interval(Point(t[1]))[1] = t[1]
          /\ bound_interval(From(t[1]))[1] = t[1]
          /\ bound_interval(Prefix(t[1]))[1] = t[1]
          /\ bound_interval(KeyRange(t[1], t[2]))[1] = t[1]
      BY DEF bound_interval, point_interval, Point, From, Prefix, KeyRange
    <3> QED
      BY <3>1, <3>2 DEF resolve_range
  <2>5. {bound_interval(input.a)[1], bound_interval(input.b)[1]} \subseteq ByteStrings(MaxKeyLen)
    BY <2>2, <2>4, RequestedStrings
  <2>6. ByteStrings(MaxKeyLen) \subseteq Seq(Bytes)
    BY ByteStringsAre, BoundsAssumption
  <2>7. intervals_overlap(bound_interval(input.a), bound_interval(input.b)) =>
            \E k \in {bound_interval(input.a)[1], bound_interval(input.b)[1]} :
                matches_range(input.a, k) /\ matches_range(input.b, k)
    BY <2>3, OverlapOfBounds
  <2>8. \A k \in Seq(Bytes) :
            matches_range(input.a, k) /\ matches_range(input.b, k) =>
                intervals_overlap(bound_interval(input.a), bound_interval(input.b))
    BY <2>3, OverlapOfBounds
  <2> QED
    BY <2>5, <2>6, <2>7, <2>8
<1> QED
  BY <1>1, InputPicked, PTL

-----------------------------------------------------------------------------
(* The tables a history of writes leaves.                                   *)
Write == [deleted : BOOLEAN, key : Keys, value : Values, lease : Nat]

(* The blob of an entry has the stamps of the entry.                        *)
Consistent(m) ==
    /\ m \in Tables
    /\ \A k \in Keys : Alive(m, k) =>
          /\ m[k].kv_bytes.create_revision = m[k].create_revision
          /\ m[k].kv_bytes.version = m[k].version

(* The recursion of TableSteps has a solution.                              *)
LEMMA TableStepsExist ==
    ASSUME NEW h, NEW n \in Nat
    PROVE  \E t : t = [i \in 0 .. n |->
                        IF i = 0 THEN EmptyTable ELSE Commit(t[i - 1], h[i], i)]
<1> DEFINE Step(t, i) == IF i = 0 THEN EmptyTable ELSE Commit(t[i - 1], h[i], i)
           T == {k \in Nat : \E t : t = [i \in 0 .. k |-> Step(t, i)]}
<1>1. 0 \in T
  <2> DEFINE u == [i \in 0 .. 0 |-> EmptyTable]
  <2>1. u = [i \in 0 .. 0 |-> Step(u, i)]
    OBVIOUS
  <2> QED
    BY <2>1
<1>2. ASSUME NEW k \in Nat, k \in T PROVE k + 1 \in T
  <2>1. PICK t : t = [i \in 0 .. k |-> Step(t, i)]
    BY <1>2
  <2> DEFINE u == [i \in 0 .. k + 1 |->
                      IF i = k + 1 THEN Commit(t[k], h[k + 1], k + 1) ELSE t[i]]
  <2>2. ASSUME NEW i \in 0 .. k + 1 PROVE u[i] = Step(u, i)
    <3>1. CASE i = k + 1
      <4>1. u[i] = Commit(t[k], h[k + 1], k + 1) /\ u[i - 1] = t[k] /\ i # 0
        BY <3>1
      <4> QED
        BY <3>1, <4>1
    <3>2. CASE i # k + 1
      <4>1. i \in 0 .. k /\ u[i] = t[i] /\ (i # 0 => i - 1 \in 0 .. k + 1 /\ u[i - 1] = t[i - 1])
        BY <3>2
      <4>2. t[i] = Step(t, i)
        BY <2>1, <4>1
      <4> QED
        BY <4>1, <4>2
    <3> QED
      BY <3>1, <3>2
  <2>3. u = [i \in 0 .. k + 1 |-> Step(u, i)]
    BY <2>2
  <2>4. \E t1 : t1 = [i \in 0 .. k + 1 |-> Step(t1, i)]
    <3> HIDE DEF u, Step
    <3> QED
      BY <2>3
  <2> QED
    BY <2>4
<1>3. T = Nat
  <2> HIDE DEF T
  <2>1. T \in SUBSET Nat
    BY DEF T
  <2> QED
    BY <1>1, <1>2, <2>1, InductionOnSet
<1> QED
  BY <1>3

(* The equations of TableSteps.                                             *)
LEMMA TableStepsDef ==
    ASSUME NEW h, Len(h) \in Nat
    PROVE  /\ TableSteps(h)[0] = EmptyTable
           /\ \A i \in 1 .. Len(h) :
                 TableSteps(h)[i] = Commit(TableSteps(h)[i - 1], h[i], i)
<1> DEFINE Good(t) == t = [i \in 0 .. Len(h) |->
                       IF i = 0 THEN EmptyTable ELSE Commit(t[i - 1], h[i], i)]
<1>1. \E t : Good(t)
  BY TableStepsExist
<1>2. TableSteps(h) = CHOOSE t : Good(t)
  BY DEF TableSteps
<1>3. Good(TableSteps(h))
  BY <1>1, <1>2
<1> QED
  BY <1>3

(* A commit keeps a table consistent.                                       *)
LEMMA CommitConsistent ==
    ASSUME NEW m, Consistent(m), NEW w \in Write, NEW rev \in Nat
    PROVE  Consistent(Commit(m, w, rev))
<1>1. m \in Tables /\ w.key \in Keys /\ w.value \in Values /\ w.lease \in Nat
  BY DEF Consistent, Write
<1>2. CASE w.deleted
  <2>1. Commit(m, w, rev) = IF Alive(m, w.key)
                            THEN [m EXCEPT ![w.key].delete_revision = rev] ELSE m
    BY <1>2 DEF Commit, ApplyDelete
  <2>2. CASE Alive(m, w.key)
    <3> DEFINE m2 == [m EXCEPT ![w.key].delete_revision = rev]
    <3>1. m2 \in Tables
      BY <1>1 DEF Tables, KeyState
    <3>2. \A k \in Keys : k # w.key => m2[k] = m[k]
      BY <1>1 DEF Tables
    <3>3. /\ m2[w.key].version = m[w.key].version
          /\ m2[w.key].create_revision = m[w.key].create_revision
          /\ m2[w.key].kv_bytes = m[w.key].kv_bytes
      BY <1>1 DEF Tables, KeyState
    <3>4. Commit(m, w, rev) = m2
      BY <2>1, <2>2
    <3> HIDE DEF m2
    <3> QED
      BY <2>2, <3>1, <3>2, <3>3, <3>4 DEF Consistent, Alive, Present
  <2> QED
    BY <2>1, <2>2
<1>3. CASE ~w.deleted
  <2> DEFINE m2 == ApplyPut(m, w.key, w.value, w.lease, rev)
  <2>1. Commit(m, w, rev) = m2
    BY <1>3 DEF Commit
  <2>2. m2 \in Tables
    BY <1>1, ApplyPutType
  <2>3. \A k \in Keys : k # w.key => m2[k] = m[k]
    BY <1>1 DEF Tables, ApplyPut
  <2>4. /\ m2[w.key].kv_bytes.create_revision = m2[w.key].create_revision
        /\ m2[w.key].kv_bytes.version = m2[w.key].version
    BY <1>1 DEF Tables, ApplyPut, PutEntry
  <2> HIDE DEF m2
  <2> QED
    BY <2>1, <2>2, <2>3, <2>4 DEF Consistent, Alive, Present
<1> QED
  BY <1>2, <1>3 DEF Write

(* A history leaves a consistent table.                                     *)
LEMMA TableConsistent ==
    ASSUME NEW h \in Seq(Write)
    PROVE  Consistent(TableAfter(h))
<1> DEFINE T == {n \in Nat : n <= Len(h) => Consistent(TableSteps(h)[n])}
<1>1. /\ TableSteps(h)[0] = EmptyTable
      /\ \A i \in 1 .. Len(h) : TableSteps(h)[i] = Commit(TableSteps(h)[i - 1], h[i], i)
  BY TableStepsDef
<1>2. 0 \in T
  <2>1. Consistent(EmptyTable)
    BY EmptyTableType DEF Consistent, EmptyTable, Alive, Present, Vacant
  <2> QED
    BY <1>1, <2>1
<1>3. ASSUME NEW n \in Nat, n \in T PROVE n + 1 \in T
  <2>1. SUFFICES ASSUME n + 1 <= Len(h) PROVE Consistent(TableSteps(h)[n + 1])
    OBVIOUS
  <2>2. n + 1 \in 1 .. Len(h) /\ (n + 1) - 1 = n /\ h[n + 1] \in Write /\ n + 1 \in Nat
    BY <2>1
  <2>3. Consistent(TableSteps(h)[n])
    BY <1>3, <2>1
  <2>4. TableSteps(h)[n + 1] = Commit(TableSteps(h)[n], h[n + 1], n + 1)
    BY <1>1, <2>2
  <2> QED
    BY <2>2, <2>3, <2>4, CommitConsistent
<1>4. T = Nat
  <2> HIDE DEF T
  <2>1. T \in SUBSET Nat
    BY DEF T
  <2> QED
    BY <1>2, <1>3, <2>1, InductionOnSet
<1> QED
  BY <1>4 DEF TableAfter

(* The histories of the instance are sequences of writes.                   *)
LEMMA HistoriesAre ==
    ASSUME NEW ks \in SUBSET Keys, NEW ls \in SUBSET Nat, NEW n \in Nat,
           NEW h \in SeqOf(Writes(ks, ls), n)
    PROVE  h \in Seq(Write) /\ h \in Seq(Writes(ks, ls)) /\ Len(h) <= n
<1>1. PICK i \in 0 .. n : h \in [1 .. i -> Writes(ks, ls)]
  BY DEF SeqOf
<1>2. h \in Seq(Writes(ks, ls)) /\ Len(h) = i
  BY <1>1
<1>3. Writes(ks, ls) \subseteq Write
  <2> SUFFICES ASSUME NEW w \in Writes(ks, ls) PROVE w \in Write
    OBVIOUS
  <2>1. CASE \E k \in ks, v \in Values, l \in ls :
                w = [deleted |-> FALSE, key |-> k, value |-> v, lease |-> l]
    BY <2>1 DEF Write
  <2>2. CASE \E k \in ks :
                w = [deleted |-> TRUE, key |-> k, value |-> EmptyValue, lease |-> 0]
    BY <2>2, ValuesAssumption DEF Write
  <2> QED
    BY <2>1, <2>2 DEF Writes
<1> QED
  BY <1>2, <1>3, SeqMonotonic

-----------------------------------------------------------------------------
(* Sorting a finite set by a strict total order R.                          *)
StrictOrder(R, U) ==
    /\ \A x \in U : <<x, x>> \notin R
    /\ \A x, y, z \in U : <<x, y>> \in R /\ <<y, z>> \in R => <<x, z>> \in R
    /\ \A x, y \in U : x = y \/ <<x, y>> \in R \/ <<y, x>> \in R

Sorts(s, S, R) ==
    /\ s \in [1 .. Cardinality(S) -> S]
    /\ \A i, j \in 1 .. Cardinality(S) : i < j => <<s[i], s[j]>> \in R

(* A finite set that is not empty has a least element in a strict order.    *)
LEMMA LeastExists ==
    ASSUME NEW U, NEW R, StrictOrder(R, U)
    PROVE  \A n \in Nat : \A S \in SUBSET U :
              IsFiniteSet(S) /\ Cardinality(S) = n + 1 =>
                  \E x \in S : \A y \in S : x = y \/ <<x, y>> \in R
<1> DEFINE Least(S) == \E x \in S : \A y \in S : x = y \/ <<x, y>> \in R
           T == {n \in Nat : \A S \in SUBSET U :
                    IsFiniteSet(S) /\ Cardinality(S) = n + 1 => Least(S)}
<1>1. 0 \in T
  <2> SUFFICES ASSUME NEW S \in SUBSET U, IsFiniteSet(S), Cardinality(S) = 0 + 1
               PROVE  Least(S)
    OBVIOUS
  <2>1. PICK x : S = {x}
    BY FS_Singleton
  <2> QED
    BY <2>1
<1>2. ASSUME NEW n \in Nat, n \in T PROVE n + 1 \in T
  <2> SUFFICES ASSUME NEW S \in SUBSET U, IsFiniteSet(S), Cardinality(S) = (n + 1) + 1
               PROVE  Least(S)
    OBVIOUS
  <2>1. PICK z \in S : TRUE
    BY FS_EmptySet
  <2>2. S \ {z} \in SUBSET U /\ IsFiniteSet(S \ {z}) /\ Cardinality(S \ {z}) = n + 1
    BY <2>1, FS_RemoveElement
  <2>3. PICK x \in S \ {z} : \A y \in S \ {z} : x = y \/ <<x, y>> \in R
    BY <1>2, <2>2
  <2>4. x \in U /\ z \in U /\ x # z
    BY <2>1, <2>3
  <2>5. CASE <<x, z>> \in R
    BY <2>3, <2>5
  <2>6. CASE <<z, x>> \in R
    <3>1. \A y \in S : z = y \/ <<z, y>> \in R
      BY <2>3, <2>4, <2>6 DEF StrictOrder
    <3> QED
      BY <2>1, <3>1
  <2> QED
    BY <2>4, <2>5, <2>6 DEF StrictOrder
<1>3. T = Nat
  <2> HIDE DEF T
  <2>1. T \in SUBSET Nat
    BY DEF T
  <2> QED
    BY <1>1, <1>2, <2>1, InductionOnSet
<1> QED
  BY <1>3

(* A finite set has a sorted sequence in a strict order.                    *)
LEMMA SortExists ==
    ASSUME NEW U, NEW R, StrictOrder(R, U), NEW S0 \in SUBSET U, IsFiniteSet(S0)
    PROVE  \E s : Sorts(s, S0, R)
<1> DEFINE Ordered(s, n) == \A i, j \in 1 .. n : i < j => <<s[i], s[j]>> \in R
           T == {n \in Nat : \A S \in SUBSET U :
                    IsFiniteSet(S) /\ Cardinality(S) = n =>
                        \E s \in [1 .. n -> S] : Ordered(s, n)}
<1>1. 0 \in T
  <2>1. ASSUME NEW S \in SUBSET U PROVE \E s \in [1 .. 0 -> S] : Ordered(s, 0)
    <3>1. [i \in 1 .. 0 |-> 0] \in [1 .. 0 -> S] /\ Ordered([i \in 1 .. 0 |-> 0], 0)
      OBVIOUS
    <3> QED
      BY <3>1
  <2> QED
    BY <2>1
<1>2. ASSUME NEW n \in Nat, n \in T PROVE n + 1 \in T
  <2> SUFFICES ASSUME NEW S \in SUBSET U, IsFiniteSet(S), Cardinality(S) = n + 1
               PROVE  \E s \in [1 .. n + 1 -> S] : Ordered(s, n + 1)
    OBVIOUS
  <2>1. PICK x \in S : \A y \in S : x = y \/ <<x, y>> \in R
    BY LeastExists
  <2>2. S \ {x} \in SUBSET U /\ IsFiniteSet(S \ {x}) /\ Cardinality(S \ {x}) = n
    <3>1. IsFiniteSet(S \ {x}) /\ Cardinality(S \ {x}) = Cardinality(S) - 1
      BY <2>1, FS_RemoveElement
    <3> QED
      BY <3>1
  <2>3. PICK s \in [1 .. n -> S \ {x}] : Ordered(s, n)
    BY <1>2, <2>2
  <2> DEFINE u == [i \in 1 .. n + 1 |-> IF i = 1 THEN x ELSE s[i - 1]]
  <2>4. u \in [1 .. n + 1 -> S]
    BY <2>1, <2>3
  <2>5. ASSUME NEW i \in 1 .. n + 1, NEW j \in 1 .. n + 1, i < j
        PROVE  <<u[i], u[j]>> \in R
    <3>1. j - 1 \in 1 .. n /\ u[j] = s[j - 1] /\ s[j - 1] \in S \ {x}
      BY <2>3, <2>5
    <3>2. CASE i = 1
      <4>1. u[i] = x
        BY <3>2
      <4> QED
        BY <2>1, <3>1, <4>1
    <3>3. CASE i # 1
      <4>1. i - 1 \in 1 .. n /\ u[i] = s[i - 1] /\ i - 1 < j - 1
        BY <2>5, <3>3
      <4> QED
        BY <2>3, <3>1, <4>1
    <3> QED
      BY <3>2, <3>3
  <2> HIDE DEF u
  <2> QED
    BY <2>4, <2>5
<1>3. T = Nat
  <2> HIDE DEF T
  <2>1. T \in SUBSET Nat
    BY DEF T
  <2> QED
    BY <1>1, <1>2, <2>1, InductionOnSet
<1>4. Cardinality(S0) \in Nat
  BY FS_CardinalityType
<1>5. \E s \in [1 .. Cardinality(S0) -> S0] : Ordered(s, Cardinality(S0))
  BY <1>3, <1>4
<1> QED
  BY <1>5 DEF Sorts

(* A sorted sequence of a set has every element, once, and in the only      *)
(* places the order allows.                                                 *)
LEMMA SortedOnto ==
    ASSUME NEW U, NEW R, StrictOrder(R, U), NEW S \in SUBSET U, IsFiniteSet(S),
           NEW s, Sorts(s, S, R)
    PROVE  /\ Cardinality(S) \in Nat
           /\ \A i \in 1 .. Cardinality(S) : s[i] \in S
           /\ \A x \in S : \E i \in 1 .. Cardinality(S) : s[i] = x
           /\ \A i, j \in 1 .. Cardinality(S) : <<s[i], s[j]>> \in R <=> i < j
           /\ \A i, j \in 1 .. Cardinality(S) : s[i] = s[j] => i = j
<1> DEFINE n == Cardinality(S)
<1>1. n \in Nat /\ s \in [1 .. n -> S]
  BY FS_CardinalityType DEF Sorts
<1>2. \A i, j \in 1 .. n : i < j => <<s[i], s[j]>> \in R
  BY DEF Sorts
<1>3. \A i \in 1 .. n : s[i] \in S /\ s[i] \in U
  BY <1>1
<1> HIDE DEF n
<1>4. \A i, j \in 1 .. n : s[i] = s[j] => i = j
  <2> SUFFICES ASSUME NEW i \in 1 .. n, NEW j \in 1 .. n, s[i] = s[j], i # j PROVE FALSE
    OBVIOUS
  <2>1. i < j \/ j < i
    BY <1>1
  <2> QED
    BY <1>2, <1>3, <2>1 DEF StrictOrder
<1>5. \A i, j \in 1 .. n : <<s[i], s[j]>> \in R <=> i < j
  <2> SUFFICES ASSUME NEW i \in 1 .. n, NEW j \in 1 .. n, <<s[i], s[j]>> \in R, ~(i < j)
               PROVE  FALSE
    BY <1>2
  <2>1. i = j \/ j < i
    BY <1>1
  <2>2. CASE i = j
    BY <1>3, <2>2 DEF StrictOrder
  <2>3. CASE j < i
    <3>1. <<s[j], s[i]>> \in R
      BY <1>2, <2>3
    <3> QED
      BY <1>3, <3>1 DEF StrictOrder
  <2> QED
    BY <2>1, <2>2, <2>3
<1>6. s \in Injection(1 .. n, S)
  BY <1>1, <1>4 DEF Injection, IsInjective
<1>7. Cardinality(1 .. n) = n
  BY <1>1, FS_Interval
<1>8. s \in Surjection(1 .. n, S)
  BY <1>1, <1>6, <1>7, FS_Injection DEF n
<1>9. \A x \in S : \E i \in 1 .. n : s[i] = x
  BY <1>8 DEF Surjection
<1> QED
  BY <1>1, <1>3, <1>4, <1>5, <1>9 DEF n

(* The elements with fewer than lim before them are the first lim of the    *)
(* sorted sequence.                                                         *)
LEMMA TopOfSorted ==
    ASSUME NEW U, NEW R, StrictOrder(R, U), NEW S \in SUBSET U, IsFiniteSet(S),
           NEW s, Sorts(s, S, R), NEW i \in 1 .. Cardinality(S)
    PROVE  /\ IsFiniteSet({f \in S : <<f, s[i]>> \in R})
           /\ Cardinality({f \in S : <<f, s[i]>> \in R}) = i - 1
<1> DEFINE n == Cardinality(S)
           L == {f \in S : <<f, s[i]>> \in R}
           g == [j \in 1 .. (i - 1) |-> s[j]]
<1>1. /\ n \in Nat
      /\ \A j \in 1 .. n : s[j] \in S
      /\ \A x \in S : \E j \in 1 .. n : s[j] = x
      /\ \A j, k \in 1 .. n : <<s[j], s[k]>> \in R <=> j < k
      /\ \A j, k \in 1 .. n : s[j] = s[k] => j = k
  BY SortedOnto
<1> HIDE DEF n
<1>2. i \in 1 .. n /\ \A j \in 1 .. (i - 1) : j \in 1 .. n /\ j < i
  BY <1>1 DEF n
<1>3. g \in Surjection(1 .. (i - 1), L)
  <2>1. g \in [1 .. (i - 1) -> L]
    BY <1>1, <1>2
  <2>2. ASSUME NEW f \in L PROVE \E j \in 1 .. (i - 1) : g[j] = f
    <3>1. PICK j \in 1 .. n : s[j] = f
      BY <1>1
    <3>2. j < i
      BY <1>1, <1>2, <3>1
    <3>3. j \in 1 .. (i - 1) /\ g[j] = f
      BY <1>2, <3>1, <3>2
    <3> QED
      BY <3>3
  <2> HIDE DEF g, L
  <2> QED
    BY <2>1, <2>2 DEF Surjection
<1>4. g \in Injection(1 .. (i - 1), L)
  <2>1. g \in [1 .. (i - 1) -> L]
    BY <1>1, <1>2
  <2>2. \A j, k \in 1 .. (i - 1) : g[j] = g[k] => j = k
    BY <1>1, <1>2
  <2> HIDE DEF g, L
  <2> QED
    BY <2>1, <2>2 DEF Injection, IsInjective
<1>5. IsFiniteSet(1 .. (i - 1)) /\ Cardinality(1 .. (i - 1)) = i - 1
  BY <1>2, <1>1, FS_Interval
<1> HIDE DEF g, L
<1>6. IsFiniteSet(L) /\ Cardinality(L) = i - 1
  BY <1>3, <1>4, <1>5, FS_Surjection
<1> QED
  BY <1>6 DEF L

-----------------------------------------------------------------------------
(* Pages.                                                                   *)
AnyRequest ==
    [keys : SUBSET Keys, point : BOOLEAN, limit : Nat, sort_order : Nat,
     sort_target : Nat, keys_only : BOOLEAN, count_only : BOOLEAN, min_mod : Nat,
     max_mod : Nat, min_create : Nat, max_create : Nat]

Hits(m, req) == {k \in req.keys : Alive(m, k) /\ PassesFilters(m[k], req)}

(* The order a request asks for, as a relation on the keys it finds.        *)
RankOrder(m, req) ==
    {p \in Hits(m, req) \X Hits(m, req) : Ranks(m, p[1], p[2], req)}

(* The keys a request selects are finitely many.                            *)
LEMMA HitsFinite ==
    ASSUME NEW m, NEW req \in AnyRequest
    PROVE  /\ Hits(m, req) \in SUBSET Keys /\ Hits(m, req) \subseteq Nat
           /\ IsFiniteSet(Hits(m, req)) /\ Cardinality(Hits(m, req)) \in Nat
<1>1. Hits(m, req) \in SUBSET Keys
  BY DEF Hits, AnyRequest
<1> QED
  BY <1>1, KeysAssumption, FS_Subset, FS_CardinalityType

(* The field to sort by is a number.                                        *)
LEMMA RankFieldType ==
    ASSUME NEW m \in Tables, NEW k \in Keys, NEW t \in Nat
    PROVE  RankField(m, k, t) \in Nat
<1>1. m[k] \in KeyState /\ Values \subseteq Nat
  BY OrderedValues DEF Tables
<1>2. /\ m[k].version \in Nat /\ m[k].create_revision \in Nat
      /\ m[k].mod_revision \in Nat /\ m[k].value \in Nat
  BY <1>1 DEF KeyState
<1> QED
  BY <1>2 DEF RankField

(* The order of sort_kvs is a strict total order on the selected keys.      *)
LEMMA RankStrict ==
    ASSUME NEW m \in Tables, NEW req \in AnyRequest
    PROVE  StrictOrder(RankOrder(m, req), Hits(m, req))
<1> DEFINE f(k) == RankField(m, k, req.sort_target)
           Up(x, y) == f(x) < f(y) \/ (f(x) = f(y) /\ x < y)
           H == Hits(m, req)
<1>1. \A k \in H : k \in Nat /\ f(k) \in Nat
  BY HitsFinite, RankFieldType DEF AnyRequest
<1>2. \A a, b \in H : <<a, b>> \in RankOrder(m, req) <=> Ranks(m, a, b, req)
  BY DEF RankOrder
<1>3. \A a, b : Ranks(m, a, b, req) <=>
        IF req.sort_order = Descend /\ req.sort_target \in 0 .. 4 THEN Up(b, a)
        ELSE IF req.sort_order = Ascend THEN Up(a, b)
        ELSE a < b
  BY DEF Ranks
<1> HIDE DEF f, H
<1>4. /\ \A x \in H : ~Up(x, x)
      /\ \A x, y, z \in H : Up(x, y) /\ Up(y, z) => Up(x, z)
      /\ \A x, y \in H : x = y \/ Up(x, y) \/ Up(y, x)
  <2>1. \A x \in H : ~Up(x, x)
    BY <1>1
  <2>2. ASSUME NEW x \in H, NEW y \in H, NEW z \in H, Up(x, y), Up(y, z) PROVE Up(x, z)
    BY <1>1, <2>2
  <2>3. \A x, y \in H : x = y \/ Up(x, y) \/ Up(y, x)
    BY <1>1
  <2> QED
    BY <2>1, <2>2, <2>3
<1>5. /\ \A x \in H : ~(x < x)
      /\ \A x, y, z \in H : x < y /\ y < z => x < z
      /\ \A x, y \in H : x = y \/ x < y \/ y < x
  BY <1>1
<1> HIDE DEF Up
<1>6. CASE req.sort_order = Descend /\ req.sort_target \in 0 .. 4
  <2>1. \A a, b \in H : <<a, b>> \in RankOrder(m, req) <=> Up(b, a)
    BY <1>2, <1>3, <1>6
  <2> QED
    BY <1>4, <2>1 DEF StrictOrder, H
<1>7. CASE ~(req.sort_order = Descend /\ req.sort_target \in 0 .. 4) /\ req.sort_order = Ascend
  <2>1. \A a, b \in H : <<a, b>> \in RankOrder(m, req) <=> Up(a, b)
    BY <1>2, <1>3, <1>7
  <2> QED
    BY <1>4, <2>1 DEF StrictOrder, H
<1>8. CASE ~(req.sort_order = Descend /\ req.sort_target \in 0 .. 4) /\ req.sort_order # Ascend
  <2>1. \A a, b \in H : <<a, b>> \in RankOrder(m, req) <=> a < b
    BY <1>2, <1>3, <1>8
  <2> QED
    BY <1>5, <2>1 DEF StrictOrder, H
<1> QED
  BY <1>6, <1>7, <1>8

(* What sort_kvs returns for the blobs of the hits: the blobs of a sequence *)
(* of keys that is sorted as asked and has all hits, or the first of them.  *)
Arranged(m, req, sorted, K) ==
    LET H == Hits(m, req) p == Len(sorted) IN
    /\ p \in Nat /\ K \in [1 .. p -> H]
    /\ sorted = [i \in 1 .. p |-> Blob(m, K[i], req)]
    /\ p = Cardinality(H) \/ (p = req.limit /\ req.limit > 0 /\ req.limit <= Cardinality(H))
    /\ \A i, j \in 1 .. p : i < j => Ranks(m, K[i], K[j], req)
    /\ \A i \in 1 .. p : \A k \in H : (\A j \in 1 .. p : K[j] # k) => Ranks(m, K[i], k, req)

KvsOf(m, req) ==
    [i \in DOMAIN InOrder(Hits(m, req)) |-> Blob(m, InOrder(Hits(m, req))[i], req)]

(* The list of entries has one for each selected key, in key order.         *)
LEMMA KvsOfHits ==
    ASSUME NEW m, NEW req \in AnyRequest
    PROVE  LET n == Cardinality(Hits(m, req)) O == InOrder(Hits(m, req)) IN
           /\ n \in Nat /\ O \in [1 .. n -> Hits(m, req)]
           /\ \A i, j \in 1 .. n : i < j => O[i] < O[j]
           /\ \A k \in Hits(m, req) : \E i \in 1 .. n : O[i] = k
           /\ KvsOf(m, req) = [i \in 1 .. n |-> Blob(m, O[i], req)]
           /\ Len(KvsOf(m, req)) = n
<1> DEFINE n == Cardinality(Hits(m, req))
           O == InOrder(Hits(m, req))
<1>1. /\ n \in Nat /\ O \in [1 .. n -> Hits(m, req)]
      /\ \A i, j \in 1 .. n : i < j => O[i] < O[j]
      /\ \A k \in Hits(m, req) : \E i \in 1 .. n : O[i] = k
  BY HitsFinite, InOrderDef
<1> HIDE DEF n, O
<1>2. DOMAIN O = 1 .. n
  BY <1>1
<1>3. KvsOf(m, req) = [i \in 1 .. n |-> Blob(m, O[i], req)]
  BY <1>2 DEF KvsOf, O
<1>4. Len(KvsOf(m, req)) = n
  BY <1>1, <1>3
<1> QED
  BY <1>1, <1>3, <1>4 DEF n, O

(* In key order, or in reverse.                                             *)
LEMMA ArrangedByKey ==
    ASSUME NEW m \in Tables, NEW req \in AnyRequest,
           ~(req.sort_order \in {Ascend, Descend} /\ req.sort_target \in SortFields)
    PROVE  \E K : Arranged(m, req,
                     sort_kvs(KvsOf(m, req), req.sort_order, req.sort_target, req.limit), K)
<1> DEFINE H == Hits(m, req)
           n == Cardinality(H)
           O == InOrder(H)
           kvs == KvsOf(m, req)
           sorted == sort_kvs(kvs, req.sort_order, req.sort_target, req.limit)
           Back == req.sort_order = Descend /\ req.sort_target = SortByKey
<1>1. /\ n \in Nat /\ O \in [1 .. n -> H]
      /\ \A i, j \in 1 .. n : i < j => O[i] < O[j]
      /\ \A k \in H : \E i \in 1 .. n : O[i] = k
      /\ kvs = [i \in 1 .. n |-> Blob(m, O[i], req)]
      /\ Len(kvs) = n
  BY KvsOfHits
<1>2. req.sort_order \in Nat /\ req.sort_target \in Nat
  BY DEF AnyRequest
<1>3. sorted = IF Back THEN Reverse(kvs) ELSE kvs
  BY <1>2 DEF sort_kvs, SortByKey, SortFields, Ascend, Descend
<1>4. \A a, b \in H : Ranks(m, a, b, req) <=> IF Back THEN b < a ELSE a < b
  <2>1. req.sort_target \notin SortFields =>
            \A k : RankField(m, k, req.sort_target) = 0
    BY DEF RankField, SortFields
  <2>2. CASE req.sort_target \in SortFields
    <3>1. ~Back /\ req.sort_order \notin {Ascend, Descend}
      BY <2>2 DEF SortByKey, SortFields
    <3> QED
      BY <3>1 DEF Ranks
  <2>3. CASE req.sort_target \notin SortFields
    <3>1. \A a, b \in H : a \in Nat /\ b \in Nat
      BY HitsFinite
    <3>2. req.sort_target \in 0 .. 4 <=> req.sort_target = SortByKey
      BY <1>2, <2>3 DEF SortByKey, SortFields
    <3> QED
      BY <2>1, <2>3, <3>1, <3>2 DEF Ranks, Ascend, Descend
  <2> QED
    BY <2>2, <2>3
<1> HIDE DEF H, n, O, kvs, sorted
<1> DEFINE K == [i \in 1 .. n |-> IF Back THEN O[n - i + 1] ELSE O[i]]
<1>5. \A i \in 1 .. n : n - i + 1 \in 1 .. n
  BY <1>1
<1>6. sorted = [i \in 1 .. n |-> Blob(m, K[i], req)] /\ Len(sorted) = n
  <2>1. CASE Back
    <3>1. sorted = [i \in 1 .. n |-> kvs[(n - i) + 1]]
      BY <1>1, <1>3, <2>1 DEF Reverse
    <3>2. \A i \in 1 .. n : kvs[(n - i) + 1] = Blob(m, K[i], req)
      BY <1>1, <1>5, <2>1
    <3> HIDE DEF K
    <3>3. sorted = [i \in 1 .. n |-> Blob(m, K[i], req)]
      BY <3>1, <3>2
    <3> QED
      BY <1>1, <3>3
  <2>2. CASE ~Back
    <3>1. \A i \in 1 .. n : Blob(m, O[i], req) = Blob(m, K[i], req)
      BY <1>1, <2>2
    <3> HIDE DEF K
    <3> QED
      BY <1>1, <1>3, <2>2, <3>1
  <2> QED
    BY <2>1, <2>2
<1>7. K \in [1 .. n -> H]
  BY <1>1, <1>5
<1>8. \A i, j \in 1 .. n : i < j => Ranks(m, K[i], K[j], req)
  <2> SUFFICES ASSUME NEW i \in 1 .. n, NEW j \in 1 .. n, i < j
               PROVE  Ranks(m, K[i], K[j], req)
    OBVIOUS
  <2>1. K[i] \in H /\ K[j] \in H
    BY <1>7
  <2>2. CASE Back
    <3>1. K[i] = O[n - i + 1] /\ K[j] = O[n - j + 1] /\ n - j + 1 < n - i + 1
      BY <1>1, <2>2
    <3>2. O[n - j + 1] < O[n - i + 1]
      BY <1>1, <1>5, <3>1
    <3> QED
      BY <1>4, <2>1, <2>2, <3>1, <3>2
  <2>3. CASE ~Back
    <3>1. K[i] = O[i] /\ K[j] = O[j]
      BY <2>3
    <3> QED
      BY <1>1, <1>4, <2>1, <2>3, <3>1
  <2> QED
    BY <2>2, <2>3
<1>9. \A k \in H : \E i \in 1 .. n : K[i] = k
  <2> SUFFICES ASSUME NEW k \in H PROVE \E i \in 1 .. n : K[i] = k
    OBVIOUS
  <2>1. PICK i \in 1 .. n : O[i] = k
    BY <1>1
  <2>2. CASE Back
    <3>1. n - i + 1 \in 1 .. n /\ n - (n - i + 1) + 1 = i
      BY <1>1, <1>5
    <3>2. K[n - i + 1] = k
      BY <2>1, <2>2, <3>1
    <3> QED
      BY <3>1, <3>2
  <2>3. CASE ~Back
    BY <2>1, <2>3
  <2> QED
    BY <2>2, <2>3
<1> HIDE DEF K, Back
<1>10. Arranged(m, req, sorted, K)
  BY <1>1, <1>6, <1>7, <1>8, <1>9 DEF Arranged, H, n
<1> QED
  BY <1>10 DEF sorted, kvs

(* The order of the blobs is the order of the keys.                         *)
LEMMA BlobOrder ==
    ASSUME NEW m, Consistent(m), NEW req \in AnyRequest, ~req.keys_only,
           req.sort_order \in {Ascend, Descend}, req.sort_target \in SortFields,
           NEW a \in Hits(m, req), NEW b \in Hits(m, req)
    PROVE  /\ SortsBefore(Blob(m, a, req), Blob(m, b, req), req.sort_order, req.sort_target)
                 <=> Ranks(m, a, b, req)
           /\ Blob(m, a, req).key = a
<1>1. \A k \in Hits(m, req) :
        /\ Blob(m, k, req).key = k
        /\ SortValue(Blob(m, k, req), req.sort_target) = RankField(m, k, req.sort_target)
  <2> SUFFICES ASSUME NEW k \in Hits(m, req)
               PROVE  /\ Blob(m, k, req).key = k
                      /\ SortValue(Blob(m, k, req), req.sort_target)
                            = RankField(m, k, req.sort_target)
    OBVIOUS
  <2>1. /\ m[k].kv_bytes.create_revision = m[k].create_revision
        /\ m[k].kv_bytes.version = m[k].version
    BY HitsFinite DEF Consistent, Hits
  <2>2. Blob(m, k, req) =
          [key |-> k, create_revision |-> m[k].create_revision,
           mod_revision |-> m[k].mod_revision, version |-> m[k].version,
           value |-> m[k].value]
    BY <2>1 DEF Blob
  <2> QED
    BY <2>2 DEF SortValue, RankField, SortFields
<1>2. req.sort_target \in 0 .. 4
  BY DEF SortFields
<1> QED
  BY <1>1, <1>2 DEF SortsBefore, Ranks, Ascend, Descend

(* As many images as elements, when no two elements share one.              *)
LEMMA ImageSize ==
    ASSUME NEW S, IsFiniteSet(S), NEW f, \A x, y \in S : f[x] = f[y] => x = y
    PROVE  /\ IsFiniteSet({f[x] : x \in S})
           /\ Cardinality({f[x] : x \in S}) = Cardinality(S)
<1> DEFINE T == {f[x] : x \in S}
           g == [x \in S |-> f[x]]
<1>1. g \in [S -> T] /\ \A x \in S : g[x] = f[x]
  OBVIOUS
<1>2. \A t \in T : \E x \in S : g[x] = t
  OBVIOUS
<1> HIDE DEF g, T
<1>3. g \in Surjection(S, T)
  BY <1>1, <1>2 DEF Surjection
<1>4. g \in Injection(S, T)
  BY <1>1 DEF Injection, IsInjective
<1>5. IsFiniteSet(T) /\ Cardinality(T) = Cardinality(S)
  BY <1>3, <1>4, FS_Surjection
<1> QED
  BY <1>5 DEF T

(* The elements that have fewer than lim before them: lim of them, and all  *)
(* others come after.                                                       *)
Top(S, R, lim) == {x \in S : Cardinality({f \in S : <<f, x>> \in R}) < lim}

(* The selected top entries are as many as the limit and before all others. *)
LEMMA TopFirst ==
    ASSUME NEW R, NEW S, StrictOrder(R, S), IsFiniteSet(S),
           NEW lim \in 1 .. Cardinality(S)
    PROVE  /\ IsFiniteSet(Top(S, R, lim)) /\ Cardinality(Top(S, R, lim)) = lim
           /\ \A x \in Top(S, R, lim), y \in S \ Top(S, R, lim) : <<x, y>> \in R
<1>1. PICK s : Sorts(s, S, R)
  BY SortExists
<1> DEFINE n == Cardinality(S)
           L(x) == {f \in S : <<f, x>> \in R}
           T == Top(S, R, lim)
<1>2. /\ n \in Nat
      /\ \A i \in 1 .. n : s[i] \in S
      /\ \A x \in S : \E i \in 1 .. n : s[i] = x
      /\ \A i, j \in 1 .. n : <<s[i], s[j]>> \in R <=> i < j
      /\ \A i, j \in 1 .. n : s[i] = s[j] => i = j
  BY <1>1, SortedOnto
<1>3. \A i \in 1 .. n : Cardinality(L(s[i])) = i - 1
  BY <1>1, TopOfSorted
<1>4. lim \in 1 .. n
  OBVIOUS
<1>5. \A x : x \in T <=> x \in S /\ Cardinality(L(x)) < lim
  BY DEF Top
<1> HIDE DEF n, L, T
<1>6. \A i \in 1 .. n : s[i] \in T <=> i <= lim
  BY <1>2, <1>3, <1>4, <1>5
<1>7. IsFiniteSet(1 .. lim) /\ Cardinality(1 .. lim) = lim
  BY <1>2, <1>4, FS_Interval
<1>8. \A i \in 1 .. lim : i \in 1 .. n
  BY <1>2, <1>4
<1>9. T = {s[i] : i \in 1 .. lim}
  <2>1. ASSUME NEW x \in T PROVE x \in {s[i] : i \in 1 .. lim}
    <3>1. PICK i \in 1 .. n : s[i] = x
      BY <1>2, <1>5
    <3>2. i \in 1 .. lim
      BY <1>2, <1>4, <1>6, <3>1
    <3> QED
      BY <3>1, <3>2
  <2>2. ASSUME NEW i \in 1 .. lim PROVE s[i] \in T
    BY <1>4, <1>6, <1>8
  <2> QED
    BY <2>1, <2>2
<1>10. \A i, j \in 1 .. lim : s[i] = s[j] => i = j
  BY <1>2, <1>8
<1>11. IsFiniteSet(T) /\ Cardinality(T) = lim
  BY <1>7, <1>9, <1>10, ImageSize
<1>12. ASSUME NEW x \in T, NEW y \in S \ T PROVE <<x, y>> \in R
  <2>1. PICK i \in 1 .. n : s[i] = x
    BY <1>2, <1>5
  <2>2. PICK j \in 1 .. n : s[j] = y
    BY <1>2
  <2>3. i <= lim /\ ~(j <= lim)
    BY <1>6, <2>1, <2>2
  <2>4. i < j
    BY <1>4, <2>3
  <2> QED
    BY <1>2, <2>1, <2>2, <2>4
<1> QED
  BY <1>11, <1>12 DEF T

(* Sorting the blobs of some of the hits sorts the keys.                    *)
LEMMA SortedKeys ==
    ASSUME NEW m, Consistent(m), NEW req \in AnyRequest, ~req.keys_only,
           req.sort_order \in {Ascend, Descend}, req.sort_target \in SortFields,
           NEW S \in SUBSET Hits(m, req)
    PROVE  \E K : /\ Sorts(K, S, RankOrder(m, req))
                  /\ SortedBy({Blob(m, k, req) : k \in S}, req.sort_order, req.sort_target)
                        = [i \in 1 .. Cardinality(S) |-> Blob(m, K[i], req)]
<1> DEFINE B == [k \in S |-> Blob(m, k, req)]
           E == {Blob(m, k, req) : k \in S}
           R == RankOrder(m, req)
           n == Cardinality(S)
           Sooner(a, b) == SortsBefore(a, b, req.sort_order, req.sort_target)
           Good(v) == \A i, j \in DOMAIN v : i < j => Sooner(v[i], v[j])
<1>1. m \in Tables
  BY DEF Consistent
<1>2. IsFiniteSet(S) /\ n \in Nat /\ StrictOrder(R, Hits(m, req))
  BY <1>1, HitsFinite, RankStrict, FS_Subset, FS_CardinalityType
<1>3. /\ \A k \in S : B[k] = Blob(m, k, req) /\ B[k].key = k
      /\ \A a, b \in S : Sooner(B[a], B[b]) <=> <<a, b>> \in R
  <2>1. \A k \in S : B[k] = Blob(m, k, req) /\ k \in Hits(m, req)
    OBVIOUS
  <2>2. \A a, b \in S : /\ Sooner(B[a], B[b]) <=> Ranks(m, a, b, req)
                        /\ B[a].key = a
    BY <2>1, BlobOrder
  <2>3. \A a, b \in S : <<a, b>> \in R <=> Ranks(m, a, b, req)
    BY <2>1 DEF RankOrder
  <2> QED
    BY <2>1, <2>2, <2>3
<1>4. E = {B[k] : k \in S}
  OBVIOUS
<1> HIDE DEF B, E, R, Sooner
<1>5. \A a, b \in S : B[a] = B[b] => a = b
  BY <1>3
<1>6. IsFiniteSet(E) /\ Cardinality(E) = n
  BY <1>2, <1>4, <1>5, ImageSize
<1>7. PICK s : Sorts(s, S, R)
  BY <1>2, SortExists
<1>8. s \in [1 .. n -> S] /\ \A i, j \in 1 .. n : i < j => <<s[i], s[j]>> \in R
  BY <1>7 DEF Sorts
<1> DEFINE v0 == [i \in 1 .. n |-> B[s[i]]]
           v == SortedBy(E, req.sort_order, req.sort_target)
<1> HIDE DEF n
<1>9. v0 \in [1 .. n -> E] /\ Good(v0)
  <2>1. v0 \in [1 .. n -> E]
    BY <1>4, <1>8
  <2>2. \A i, j \in 1 .. n : i < j => Sooner(v0[i], v0[j])
    BY <1>3, <1>8
  <2> QED
    BY <2>1, <2>2
<1> HIDE DEF v0
<1>10. v = CHOOSE w \in [1 .. n -> E] : Good(w)
  BY <1>6 DEF SortedBy, Sooner
<1> HIDE DEF v, Good
<1>11. v \in [1 .. n -> E] /\ Good(v)
  BY <1>9, <1>10
<1>12. \A i, j \in 1 .. n : i < j => Sooner(v[i], v[j])
  BY <1>11 DEF Good
<1> DEFINE K == [i \in 1 .. n |-> v[i].key]
<1>13. \A i \in 1 .. n : K[i] \in S /\ v[i] = B[K[i]]
  <2> SUFFICES ASSUME NEW i \in 1 .. n PROVE K[i] \in S /\ v[i] = B[K[i]]
    OBVIOUS
  <2>1. PICK k \in S : v[i] = B[k]
    BY <1>4, <1>11
  <2>2. K[i] = k
    BY <1>3, <2>1
  <2> QED
    BY <2>1, <2>2
<1>14. K \in [1 .. n -> S]
  BY <1>13
<1> HIDE DEF K
<1>15. \A i, j \in 1 .. n : i < j => <<K[i], K[j]>> \in R
  BY <1>3, <1>12, <1>13
<1>16. Sorts(K, S, R)
  BY <1>14, <1>15 DEF Sorts, n
<1>17. v = [i \in 1 .. n |-> Blob(m, K[i], req)]
  BY <1>3, <1>11, <1>13
<1> QED
  BY <1>16, <1>17 DEF v, E, n, R

(* By another field, with the first of the page selected before the sort    *)
(* when the page is small.                                                  *)
LEMMA ArrangedByField ==
    ASSUME NEW m, Consistent(m), NEW req \in AnyRequest, ~req.keys_only,
           req.sort_order \in {Ascend, Descend}, req.sort_target \in SortFields
    PROVE  \E K : Arranged(m, req,
                     sort_kvs(KvsOf(m, req), req.sort_order, req.sort_target, req.limit), K)
<1> DEFINE H == Hits(m, req)
           R == RankOrder(m, req)
           n == Cardinality(H)
           kvs == KvsOf(m, req)
           lim == req.limit
           small == lim > 0 /\ lim * TopFactor <= n
           S == IF small THEN Top(H, R, lim) ELSE H
           sorted == sort_kvs(kvs, req.sort_order, req.sort_target, lim)
           Blobs(X) == {Blob(m, k, req) : k \in X}
           Sooner(a, b) == SortsBefore(a, b, req.sort_order, req.sort_target)
<1>1. m \in Tables /\ lim \in Nat
  BY DEF Consistent, AnyRequest
<1>2. IsFiniteSet(H) /\ n \in Nat /\ StrictOrder(R, H)
  BY <1>1, HitsFinite, RankStrict
<1>3. ToSet(kvs) = Blobs(H) /\ Len(kvs) = n
  <2> DEFINE O == InOrder(H)
  <2>1. /\ O \in [1 .. n -> H]
        /\ \A k \in H : \E i \in 1 .. n : O[i] = k
        /\ kvs = [i \in 1 .. n |-> Blob(m, O[i], req)]
        /\ Len(kvs) = n
    BY KvsOfHits
  <2> HIDE DEF O, H, kvs, n
  <2>2. ToSet(kvs) = {kvs[i] : i \in 1 .. n}
    BY <2>1 DEF ToSet
  <2>3. \A i \in 1 .. n : kvs[i] = Blob(m, O[i], req) /\ O[i] \in H
    BY <2>1
  <2>4. \A k \in H : \E i \in 1 .. n : kvs[i] = Blob(m, k, req)
    BY <2>1, <2>3
  <2>5. ToSet(kvs) = Blobs(H)
    BY <2>2, <2>3, <2>4
  <2> QED
    BY <2>1, <2>5
<1>4. \A a, b \in H : Sooner(Blob(m, a, req), Blob(m, b, req)) <=> <<a, b>> \in R
  <2>1. \A a, b \in H : Sooner(Blob(m, a, req), Blob(m, b, req)) <=> Ranks(m, a, b, req)
    BY BlobOrder
  <2> QED
    BY <2>1 DEF RankOrder
<1>5. \A a \in H : Blob(m, a, req).key = a
  BY BlobOrder
<1>6. SelectTop(Blobs(H), req.sort_order, req.sort_target, lim) = Blobs(Top(H, R, lim))
  <2> DEFINE L(k) == {f \in H : <<f, k>> \in R}
             LB(e) == {f \in Blobs(H) : Sooner(f, e)}
             B == [k \in H |-> Blob(m, k, req)]
  <2>1. ASSUME NEW k \in H
        PROVE  Cardinality(LB(Blob(m, k, req))) = Cardinality(L(k))
    <3>1. LB(Blob(m, k, req)) = {B[f] : f \in L(k)}
      <4> HIDE DEF H, Sooner, R
      <4> QED
        BY <1>4
    <3>2. IsFiniteSet(L(k)) /\ \A f \in L(k) : f \in H
      BY <1>2, FS_Subset
    <3>3. \A f, g \in L(k) : B[f] = B[g] => f = g
      <4> HIDE DEF H, Sooner, R
      <4> QED
        BY <1>5, <3>2
    <3> HIDE DEF B, L, LB
    <3> QED
      BY <3>1, <3>2, <3>3, ImageSize
  <2>2. SelectTop(Blobs(H), req.sort_order, req.sort_target, lim)
          = {e \in Blobs(H) : Cardinality(LB(e)) < lim}
    BY DEF SelectTop
  <2>3. Top(H, R, lim) = {k \in H : Cardinality(L(k)) < lim}
    BY DEF Top
  <2> HIDE DEF LB, L, H
  <2> QED
    BY <2>1, <2>2, <2>3
<1>7. sorted = SortedBy(Blobs(S), req.sort_order, req.sort_target)
  <2>1. /\ req.sort_order \in {Ascend, Descend}
        /\ req.sort_target \in {SortByKey} \cup SortFields
        /\ req.sort_target # SortByKey
    BY DEF SortFields, SortByKey
  <2> DEFINE ents == IF lim > 0 /\ lim * TopFactor <= Len(kvs)
                     THEN SelectTop(ToSet(kvs), req.sort_order, req.sort_target, lim)
                     ELSE ToSet(kvs)
  <2>2. sorted = SortedBy(ents, req.sort_order, req.sort_target)
    BY <2>1 DEF sort_kvs
  <2>3. ents = Blobs(S)
    BY <1>3, <1>6
  <2> QED
    BY <2>2, <2>3
<1>8. small => lim \in 1 .. n
  <2> HIDE DEF n, lim
  <2>1. small => lim <= lim * TopFactor
    <3>1. \A a \in Nat, b \in Nat \ {0} : a <= a * b
      OBVIOUS
    <3> QED
      BY <1>1, <3>1, TopFactorAssumption
  <2> QED
    BY <1>1, <1>2, <2>1, TopFactorAssumption
<1>9. /\ S \in SUBSET H
      /\ Cardinality(S) = IF small THEN lim ELSE n
      /\ \A x \in S, y \in H \ S : <<x, y>> \in R
  <2>1. CASE small
    <3>1. S = Top(H, R, lim)
      BY <2>1
    <3>2. Top(H, R, lim) \in SUBSET H
      BY DEF Top
    <3>3. /\ Cardinality(Top(H, R, lim)) = lim
          /\ \A x \in Top(H, R, lim), y \in H \ Top(H, R, lim) : <<x, y>> \in R
      BY <1>2, <1>8, <2>1, TopFirst
    <3> QED
      BY <2>1, <3>1, <3>2, <3>3
  <2>2. CASE ~small
    BY <2>2
  <2> QED
    BY <2>1, <2>2
<1> HIDE DEF S, sorted
<1> DEFINE p == Cardinality(S)
<1>10. PICK K : Sorts(K, S, R) /\ sorted = [i \in 1 .. p |-> Blob(m, K[i], req)]
  <2>1. \E K : /\ Sorts(K, S, R)
                /\ SortedBy(Blobs(S), req.sort_order, req.sort_target)
                      = [i \in 1 .. p |-> Blob(m, K[i], req)]
    BY <1>9, SortedKeys
  <2> QED
    BY <1>7, <2>1
<1>11. /\ p \in Nat /\ (p = n \/ (p = lim /\ lim > 0 /\ lim <= n))
       /\ IsFiniteSet(S) /\ StrictOrder(R, H)
  BY <1>1, <1>2, <1>8, <1>9, FS_Subset
<1>12. /\ K \in [1 .. p -> S]
       /\ \A i, j \in 1 .. p : i < j => <<K[i], K[j]>> \in R
       /\ \A x \in S : \E i \in 1 .. p : K[i] = x
  BY <1>9, <1>10, <1>11, SortedOnto DEF Sorts
<1>13. \A a, b : <<a, b>> \in R => Ranks(m, a, b, req)
  BY DEF RankOrder
<1> HIDE DEF p, R, H, n, lim
<1>14. Len(sorted) = p
  BY <1>10, <1>11
<1>15. K \in [1 .. p -> H]
  BY <1>9, <1>12
<1>16. \A i, j \in 1 .. p : i < j => Ranks(m, K[i], K[j], req)
  BY <1>12, <1>13
<1>17. ASSUME NEW i \in 1 .. p, NEW k \in H, \A j \in 1 .. p : K[j] # k
       PROVE  Ranks(m, K[i], k, req)
  <2>1. K[i] \in S /\ k \in H \ S
    BY <1>12, <1>17
  <2> QED
    BY <1>9, <1>13, <2>1
<1>18. Arranged(m, req, sorted, K)
  BY <1>10, <1>11, <1>14, <1>15, <1>16, <1>17 DEF Arranged, H, n, lim
<1> QED
  BY <1>18 DEF sorted, lim

(* A page for every request on every table that writes can build.           *)
LEMMA PageOf ==
    ASSUME NEW m, Consistent(m), NEW req \in AnyRequest,
           req.point => Cardinality(req.keys) = 1
    PROVE  IsPage(m, req, range_current(m, req))
<1> DEFINE H == Hits(m, req)
           n == Cardinality(H)
           kvs == KvsOf(m, req)
           lim == req.limit
           sorted == sort_kvs(kvs, req.sort_order, req.sort_target, lim)
           more == HasMore(n, sorted, lim)
           ans == range_current(m, req)
           page == [i \in DOMAIN ans.kvs |-> ans.kvs[i].key]
           cut == lim > 0 /\ lim < n
<1>1. m \in Tables /\ lim \in Nat /\ n \in Nat /\ Len(kvs) = n /\ req.keys \in SUBSET Keys
  BY HitsFinite, KvsOfHits DEF Consistent, AnyRequest
<1>2. ans = IF req.count_only THEN [kvs |-> <<>>, more |-> FALSE, count |-> n]
            ELSE IF req.point THEN [kvs |-> kvs, more |-> FALSE, count |-> n]
            ELSE [kvs |-> IF more THEN SubSeq(sorted, 1, lim) ELSE sorted,
                  more |-> more, count |-> n]
  <2>1. ans = IF req.count_only THEN [kvs |-> <<>>, more |-> FALSE, count |-> Len(kvs)]
            ELSE IF req.point THEN [kvs |-> kvs, more |-> FALSE, count |-> Len(kvs)]
            ELSE [kvs |-> IF HasMore(Len(kvs), sorted, lim)
                          THEN SubSeq(sorted, 1, lim) ELSE sorted,
                  more |-> HasMore(Len(kvs), sorted, lim), count |-> Len(kvs)]
    BY DEF range_current, KvsOf, Hits
  <2> QED
    BY <1>1, <2>1
<1>3. IsPage(m, req, ans) <=>
        /\ ans.count = n
        /\ req.count_only => ans.kvs = <<>> /\ ~ans.more
        /\ ~req.count_only /\ (req.keys_only => req.sort_target = SortByKey) =>
              /\ ans.more = cut
              /\ Len(page) = IF cut THEN lim ELSE n
              /\ ToSet(page) \subseteq H
              /\ \A i, j \in DOMAIN page : i < j => Ranks(m, page[i], page[j], req)
              /\ \A i \in DOMAIN page : \A k \in H \ ToSet(page) :
                    Ranks(m, page[i], k, req)
  BY DEF IsPage, Hits
<1>4. \A k : Blob(m, k, req).key = k
  BY DEF Blob
<1>0. SUFFICES IsPage(m, req, ans)
  OBVIOUS
<1>5. CASE req.count_only
  <2>1. ans.count = n /\ ans.kvs = <<>> /\ ans.more = FALSE
    BY <1>2, <1>5
  <2> HIDE DEF ans, H, n, lim, page, cut
  <2> QED
    BY <1>3, <1>5, <2>1
<1>6. CASE ~req.count_only /\ ~(req.keys_only => req.sort_target = SortByKey)
  <2>1. ans.count = n
    BY <1>2, <1>6
  <2> HIDE DEF ans, H, n, lim, page, cut
  <2> QED
    BY <1>3, <1>6, <2>1
<1>7. ASSUME NEW p \in Nat, NEW K \in [1 .. p -> H],
             ~req.count_only, ans.count = n, ans.more = cut,
             p = IF cut THEN lim ELSE n,
             ans.kvs = [i \in 1 .. p |-> Blob(m, K[i], req)],
             \A i, j \in 1 .. p : i < j => Ranks(m, K[i], K[j], req),
             \A i \in 1 .. p : \A k \in H :
                 (\A j \in 1 .. p : K[j] # k) => Ranks(m, K[i], k, req)
      PROVE  IsPage(m, req, ans)
  <2> HIDE DEF ans, H, n, lim
  <2>1. page = K
    <3>1. DOMAIN ans.kvs = 1 .. p /\ \A i \in 1 .. p : ans.kvs[i].key = K[i]
      BY <1>4, <1>7
    <3>2. page = [i \in 1 .. p |-> K[i]]
      BY <3>1
    <3> QED
      BY <3>2
  <2>2. DOMAIN page = 1 .. p /\ Len(page) = p
    BY <2>1
  <2>3. ToSet(page) = {K[i] : i \in 1 .. p}
    BY <2>1 DEF ToSet
  <2>4. ToSet(page) \subseteq H
    BY <2>3
  <2>5. ASSUME NEW i \in DOMAIN page, NEW k \in H \ ToSet(page)
        PROVE  Ranks(m, page[i], k, req)
    <3>1. i \in 1 .. p /\ page[i] = K[i] /\ k \in H
      BY <2>1, <2>2
    <3>2. \A j \in 1 .. p : K[j] # k
      BY <2>3
    <3> HIDE DEF page
    <3> QED
      BY <1>7, <3>1, <3>2
  <2>6. \A i, j \in DOMAIN page : i < j => Ranks(m, page[i], page[j], req)
    BY <1>7, <2>1, <2>2
  <2> HIDE DEF page, cut
  <2> QED
    BY <1>3, <1>7, <2>2, <2>4, <2>5, <2>6
<1>8. CASE ~req.count_only /\ req.point
  <2> DEFINE O == InOrder(H)
  <2>1. /\ O \in [1 .. n -> H]
        /\ \A k \in H : \E i \in 1 .. n : O[i] = k
        /\ kvs = [i \in 1 .. n |-> Blob(m, O[i], req)]
    BY KvsOfHits
  <2>2. n <= 1
    <3>1. IsFiniteSet(req.keys) /\ H \subseteq req.keys
      BY <1>1, KeysAssumption, FS_Subset DEF Hits
    <3>2. n <= Cardinality(req.keys)
      BY <3>1, FS_Subset
    <3> QED
      BY <1>8, <3>2
  <2>3. cut = FALSE
    BY <1>1, <2>2
  <2>4. ans.kvs = kvs /\ ans.more = cut /\ ans.count = n
    <3>1. ans = [kvs |-> kvs, more |-> FALSE, count |-> n]
      BY <1>2, <1>8
    <3> HIDE DEF ans, kvs, n, cut
    <3> QED
      BY <2>3, <3>1
  <2>5. \A i, j \in 1 .. n : ~(i < j)
    BY <1>1, <2>2
  <2> HIDE DEF ans, H, n, lim, kvs, O, cut
  <2>6. \A i \in 1 .. n : \A k \in H : ~(\A j \in 1 .. n : O[j] # k)
    BY <2>1
  <2>7. /\ n = IF cut THEN lim ELSE n
        /\ ans.kvs = [i \in 1 .. n |-> Blob(m, O[i], req)]
        /\ \A i, j \in 1 .. n : i < j => Ranks(m, O[i], O[j], req)
        /\ \A i \in 1 .. n : \A k \in H :
              (\A j \in 1 .. n : O[j] # k) => Ranks(m, O[i], k, req)
    BY <2>1, <2>3, <2>4, <2>5, <2>6
  <2>8. n \in Nat /\ O \in [1 .. n -> H] /\ ~req.count_only
    BY <1>1, <1>8, <2>1
  <2> HIDE DEF page
  <2> QED
    BY <1>7, <2>4, <2>7, <2>8
<1>9. CASE ~req.count_only /\ ~req.point /\ (req.keys_only => req.sort_target = SortByKey)
  <2>1. \E K : Arranged(m, req, sorted, K)
    <3>1. CASE req.sort_order \in {Ascend, Descend} /\ req.sort_target \in SortFields
      <4>1. ~req.keys_only
        BY <1>9, <3>1 DEF SortByKey, SortFields
      <4> QED
        BY <3>1, <4>1, ArrangedByField
    <3>2. CASE ~(req.sort_order \in {Ascend, Descend} /\ req.sort_target \in SortFields)
      BY <1>1, <3>2, ArrangedByKey
    <3> QED
      BY <3>1, <3>2
  <2>2. PICK K : Arranged(m, req, sorted, K)
    BY <2>1
  <2> DEFINE q == Len(sorted)
  <2>3. /\ q \in Nat /\ K \in [1 .. q -> H]
        /\ sorted = [i \in 1 .. q |-> Blob(m, K[i], req)]
        /\ q = n \/ (q = lim /\ lim > 0 /\ lim <= n)
        /\ \A i, j \in 1 .. q : i < j => Ranks(m, K[i], K[j], req)
        /\ \A i \in 1 .. q : \A k \in H :
              (\A j \in 1 .. q : K[j] # k) => Ranks(m, K[i], k, req)
    BY <2>2 DEF Arranged
  <2>4. more = cut
    BY <1>1 DEF HasMore
  <2>5. ans.kvs = (IF cut THEN SubSeq(sorted, 1, lim) ELSE sorted)
        /\ ans.more = cut /\ ans.count = n
    <3>1. ans = [kvs |-> IF more THEN SubSeq(sorted, 1, lim) ELSE sorted,
                 more |-> more, count |-> n]
      BY <1>2, <1>9
    <3> HIDE DEF ans, sorted, lim, n, more
    <3> QED
      BY <2>4, <3>1
  <2> HIDE DEF ans, H, n, lim, kvs, sorted, more, q
  <2>6. CASE ~cut
    <3>1. q = n
      BY <1>1, <2>3, <2>6
    <3> QED
      BY <1>7, <1>9, <2>3, <2>5, <2>6, <3>1
  <2>7. CASE cut
    <3> DEFINE J == [i \in 1 .. lim |-> K[i]]
    <3>1. lim \in 1 .. q /\ \A i \in 1 .. lim : i \in 1 .. q
      BY <1>1, <2>3, <2>7
    <3>2. J \in [1 .. lim -> H] /\ \A i \in 1 .. lim : J[i] = K[i]
      BY <2>3, <3>1
    <3>3. SubSeq(sorted, 1, lim) = [i \in 1 .. lim |-> sorted[i]]
      BY <1>1 DEF SubSeq
    <3>4. ans.kvs = [i \in 1 .. lim |-> Blob(m, J[i], req)]
      BY <2>3, <2>5, <2>7, <3>1, <3>2, <3>3
    <3> HIDE DEF J
    <3>5. \A i, j \in 1 .. lim : i < j => Ranks(m, J[i], J[j], req)
      BY <2>3, <3>1, <3>2
    <3>6. ASSUME NEW i \in 1 .. lim, NEW k \in H, \A j \in 1 .. lim : J[j] # k
          PROVE  Ranks(m, J[i], k, req)
      <4>1. CASE \E j \in 1 .. q : K[j] = k
        <5>1. PICK j \in 1 .. q : K[j] = k
          BY <4>1
        <5>2. ~(j \in 1 .. lim)
          BY <3>2, <3>6, <5>1
        <5>3. i < j
          BY <1>1, <2>3, <5>2
        <5> QED
          BY <2>3, <3>1, <3>2, <5>1, <5>3
      <4>2. CASE ~ \E j \in 1 .. q : K[j] = k
        BY <2>3, <3>1, <3>2, <4>2
      <4> QED
        BY <4>1, <4>2
    <3> HIDE DEF cut
    <3> QED
      BY <1>1, <1>7, <1>9, <2>5, <2>7, <3>2, <3>4, <3>5, <3>6
  <2> QED
    BY <2>6, <2>7
<1> QED
  BY <1>5, <1>6, <1>8, <1>9

(* Whatever the table and the request, a page holds the first `limit' of    *)
(* the keys that match in the order asked for, with the exact count and the *)
(* exact `more' (range_current and sort_kvs, storage/store.rs): also when   *)
(* the page is selected before it is sorted.                                *)
THEOREM PagesAreExact == Spec => []PageExact
<1>1. InputOK => PageExact
  <2> SUFFICES ASSUME InputOK, input.kind = "table", NEW req \in Requests
               PROVE  IsPage(input.table, req, range_current(input.table, req))
    BY DEF PageExact
  <2>1. PICK h \in SeqOf(Writes(Keys, {0}), MaxWrites) :
          input = [kind |-> "table", table |-> TableAfter(h)]
    BY DEF InputOK
  <2>2. Consistent(input.table)
    BY <2>1, HistoriesAre, BoundsAssumption, TableConsistent
  <2>3. req \in AnyRequest /\ (req.point => Cardinality(req.keys) = 1)
    BY DEF Requests, AnyRequest
  <2> QED
    BY <2>2, <2>3, PageOf
<1> QED
  BY <1>1, InputPicked, PTL

-----------------------------------------------------------------------------
(* Numbers in groups.                                                       *)

(* Lowest group and the other groups of a number.                           *)
LEMMA DivMod ==
    \A x \in Nat : /\ x \div GroupBase \in Nat /\ x % GroupBase \in 0 .. (GroupBase - 1)
                   /\ (x % GroupBase) + GroupBase * (x \div GroupBase) = x
                   /\ x \div GroupBase = 0 <=> x < GroupBase
                   /\ x < GroupBase => x % GroupBase = x
  BY CodecAssumption

(* The continuation bit does not change the lowest group.                   *)
LEMMA ModAdd ==
    \A x \in 0 .. (GroupBase - 1) : (x + GroupBase) % GroupBase = x
  BY CodecAssumption

(* A recursion over numbers has a solution.                                 *)
LEMMA NatRecursion ==
    \A b \in Nat, n \in Nat : \A f \in [1 .. n -> [Nat -> Nat]] :
        \E t \in [0 .. n -> Nat] : t[0] = b /\ \A i \in 1 .. n : t[i] = f[i][t[i - 1]]
<1> DEFINE X == Nat
<1> HIDE DEF X
<1>1. \A b \in X, n \in Nat : \A f \in [1 .. n -> [X -> X]] :
        \E t \in [0 .. n -> X] : t[0] = b /\ \A i \in 1 .. n : t[i] = f[i][t[i - 1]]
  BY Recursion
<1> QED
  BY <1>1 DEF X

(* The equations of Shifted.                                                *)
LEMMA ShiftedDef ==
    ASSUME NEW v \in Nat
    PROVE  /\ Shifted(v) \in [0 .. RevGroups -> Nat]
           /\ Shifted(v)[0] = v
           /\ \A i \in 1 .. RevGroups : Shifted(v)[i] = Shifted(v)[i - 1] \div GroupBase
<1> DEFINE Half(x) == x \div GroupBase
           f == [i \in 1 .. RevGroups |-> [x \in Nat |-> Half(x)]]
           Good(t) == t = [i \in 0 .. RevGroups |-> IF i = 0 THEN v ELSE Half(t[i - 1])]
<1>0. RevGroups \in Nat /\ \A x \in Nat : Half(x) \in Nat
  BY CodecAssumption, DivMod
<1> HIDE DEF Half
<1>1. f \in [1 .. RevGroups -> [Nat -> Nat]]
  BY <1>0
<1>2. PICK t \in [0 .. RevGroups -> Nat] :
        t[0] = v /\ \A i \in 1 .. RevGroups : t[i] = f[i][t[i - 1]]
  <2> HIDE DEF f
  <2> QED
    BY <1>0, <1>1, NatRecursion, ZenonT(60)
<1>3. \A i \in 1 .. RevGroups : i - 1 \in 0 .. RevGroups /\ t[i] = Half(t[i - 1])
  <2>1. \A i \in 1 .. RevGroups : i - 1 \in 0 .. RevGroups
    BY <1>0
  <2>2. \A i \in 1 .. RevGroups : t[i - 1] \in Nat
    BY <1>2, <2>1
  <2>3. \A i \in 1 .. RevGroups, x \in Nat : f[i][x] = Half(x)
    OBVIOUS
  <2> HIDE DEF f
  <2> QED
    BY <1>2, <2>1, <2>2, <2>3
<1>4. \E u : Good(u)
  <2>1. \A i \in 0 .. RevGroups : t[i] = IF i = 0 THEN v ELSE Half(t[i - 1])
    BY <1>0, <1>2, <1>3
  <2>2. Good(t)
    BY <1>2, <2>1
  <2> HIDE DEF Good
  <2> QED
    BY <2>2
<1>5. Shifted(v) = CHOOSE u : Good(u)
  BY DEF Shifted, Half
<1>6. Good(Shifted(v))
  <2> HIDE DEF Good
  <2> QED
    BY <1>4, <1>5
<1> DEFINE s == Shifted(v)
           T == {n \in Nat : n <= RevGroups => s[n] \in Nat}
<1>7. /\ s[0] = v /\ DOMAIN s = 0 .. RevGroups /\ s = [i \in 0 .. RevGroups |-> s[i]]
      /\ \A i \in 1 .. RevGroups : s[i] = Half(s[i - 1])
  <2> HIDE DEF s
  <2>1. s = [i \in 0 .. RevGroups |-> IF i = 0 THEN v ELSE Half(s[i - 1])]
    BY <1>6 DEF s
  <2>2. 0 \in 0 .. RevGroups /\ \A i \in 1 .. RevGroups : i \in 0 .. RevGroups /\ i # 0
    BY <1>0
  <2> QED
    BY <2>1, <2>2
<1> HIDE DEF s
<1>8. T = Nat
  <2>1. 0 \in T
    BY <1>7
  <2>2. ASSUME NEW n \in Nat, n \in T PROVE n + 1 \in T
    <3>1. SUFFICES ASSUME n + 1 <= RevGroups PROVE s[n + 1] \in Nat
      OBVIOUS
    <3>2. n + 1 \in 1 .. RevGroups /\ (n + 1) - 1 = n /\ s[n] \in Nat
      BY <1>0, <2>2, <3>1
    <3>3. s[n + 1] = Half(s[n])
      BY <1>7, <3>2
    <3> QED
      BY <1>0, <3>2, <3>3
  <2> HIDE DEF T
  <2>3. T \in SUBSET Nat
    BY DEF T
  <2> QED
    BY <2>1, <2>2, <2>3, InductionOnSet
<1>9. s \in [0 .. RevGroups -> Nat]
  <2> HIDE DEF T
  <2>1. \A i \in 0 .. RevGroups : i \in T /\ i <= RevGroups
    BY <1>0, <1>8
  <2>2. \A i \in T : i <= RevGroups => s[i] \in Nat
    BY DEF T
  <2> QED
    BY <1>7, <2>1, <2>2
<1> QED
  BY <1>7, <1>9 DEF s, Half

(* The equations of GroupsSum.                                              *)
LEMMA GroupsSumDef ==
    ASSUME NEW cells \in Seq(Nat)
    PROVE  /\ GroupsSum(cells) \in [0 .. Len(cells) -> Nat]
           /\ GroupsSum(cells)[0] = 0
           /\ \A j \in 1 .. Len(cells) :
                 GroupsSum(cells)[j] = (cells[Len(cells) - j + 1] % GroupBase)
                                          + GroupBase * GroupsSum(cells)[j - 1]
<1> DEFINE n == Len(cells)
           g(j) == cells[n - j + 1] % GroupBase
           Next1(j, x) == g(j) + GroupBase * x
           f == [j \in 1 .. n |-> [x \in Nat |-> Next1(j, x)]]
           Good(t) == t = [j \in 0 .. n |->
                              IF j = 0 THEN 0 ELSE Next1(j, t[j - 1])]
<1>0. n \in Nat /\ GroupBase \in Nat
  BY CodecAssumption
<1>1. \A j \in 1 .. n : g(j) \in Nat
  <2>1. \A j \in 1 .. n : n - j + 1 \in 1 .. n
    BY <1>0
  <2>2. \A j \in 1 .. n : cells[n - j + 1] \in Nat
    BY <2>1
  <2>3. \A x \in Nat : x % GroupBase \in Nat
    BY <1>0, DivMod
  <2> HIDE DEF n
  <2> QED
    BY <2>2, <2>3
<1> HIDE DEF g
<1>11. \A j \in 1 .. n, x \in Nat : Next1(j, x) \in Nat
  BY <1>0, <1>1
<1> HIDE DEF n, Next1
<1>2. f \in [1 .. n -> [Nat -> Nat]]
  BY <1>11
<1>3. PICK t \in [0 .. n -> Nat] : t[0] = 0 /\ \A j \in 1 .. n : t[j] = f[j][t[j - 1]]
  <2>1. 0 \in Nat
    OBVIOUS
  <2> HIDE DEF f
  <2> QED
    BY <1>0, <1>2, <2>1, NatRecursion, ZenonT(60)
<1>4. \A j \in 1 .. n : j - 1 \in 0 .. n /\ t[j] = Next1(j, t[j - 1])
  <2>1. \A j \in 1 .. n : j - 1 \in 0 .. n
    BY <1>0
  <2>2. \A j \in 1 .. n : t[j - 1] \in Nat
    BY <1>3, <2>1
  <2>3. \A j \in 1 .. n, x \in Nat : f[j][x] = Next1(j, x)
    OBVIOUS
  <2> HIDE DEF f
  <2> QED
    BY <1>3, <2>1, <2>2, <2>3
<1>5. \E u : Good(u)
  <2>1. \A j \in 0 .. n : t[j] = IF j = 0 THEN 0 ELSE Next1(j, t[j - 1])
    BY <1>0, <1>3, <1>4
  <2>2. Good(t)
    BY <1>3, <2>1
  <2> HIDE DEF Good
  <2> QED
    BY <2>2
<1>6. GroupsSum(cells) = CHOOSE u : Good(u)
  BY DEF GroupsSum, Next1, g, n
<1>7. Good(GroupsSum(cells))
  <2> HIDE DEF Good
  <2> QED
    BY <1>5, <1>6
<1> DEFINE s == GroupsSum(cells)
           T == {k \in Nat : k <= n => s[k] \in Nat}
<1>8. /\ s[0] = 0 /\ DOMAIN s = 0 .. n /\ s = [j \in 0 .. n |-> s[j]]
      /\ \A j \in 1 .. n : s[j] = Next1(j, s[j - 1])
  <2> HIDE DEF s
  <2>1. s = [j \in 0 .. n |-> IF j = 0 THEN 0 ELSE Next1(j, s[j - 1])]
    BY <1>7 DEF s
  <2>2. 0 \in 0 .. n /\ \A j \in 1 .. n : j \in 0 .. n /\ j # 0
    BY <1>0
  <2> QED
    BY <2>1, <2>2
<1> HIDE DEF s
<1>9. T = Nat
  <2>1. 0 \in T
    BY <1>8
  <2>2. ASSUME NEW k \in Nat, k \in T PROVE k + 1 \in T
    <3>1. SUFFICES ASSUME k + 1 <= n PROVE s[k + 1] \in Nat
      OBVIOUS
    <3>2. k + 1 \in 1 .. n /\ (k + 1) - 1 = k /\ s[k] \in Nat
      BY <1>0, <2>2, <3>1
    <3>3. s[k + 1] = Next1(k + 1, s[k])
      BY <1>8, <3>2
    <3> QED
      BY <1>11, <3>2, <3>3
  <2> HIDE DEF T
  <2>3. T \in SUBSET Nat
    BY DEF T
  <2> QED
    BY <2>1, <2>2, <2>3, InductionOnSet
<1>10. s \in [0 .. n -> Nat]
  <2>1. \A j \in 0 .. n : s[j] \in Nat
    BY <1>0, <1>9
  <2> QED
    BY <1>8, <2>1
<1> QED
  BY <1>8, <1>10 DEF s, Next1, g, n

(* What encode_overlong writes.                                             *)
LEMMA OverlongCells ==
    ASSUME NEW v \in Nat, NEW n \in 1 .. RevGroups
    PROVE  /\ encode_overlong(v, n) \in Seq(Nat) /\ Len(encode_overlong(v, n)) = n
           /\ \A i \in 1 .. n : encode_overlong(v, n)[i] % GroupBase = Group(v, i)
           /\ \A i \in 1 .. (n - 1) : ~(encode_overlong(v, n)[i] < GroupBase)
           /\ encode_overlong(v, n)[n] < GroupBase
<1> DEFINE e == encode_overlong(v, n)
<1>1. /\ GroupBase \in Nat /\ RevGroups \in Nat /\ n \in Nat
      /\ \A i \in 1 .. n : i - 1 \in 0 .. RevGroups
  BY CodecAssumption
<1>2. \A i \in 1 .. n : Group(v, i) \in 0 .. (GroupBase - 1)
  BY <1>1, ShiftedDef, DivMod DEF Group
<1>3. e = [i \in 1 .. n |-> Group(v, i) + IF i < n THEN GroupBase ELSE 0]
  BY DEF encode_overlong
<1> HIDE DEF e
<1>4. \A i \in 1 .. n : e[i] \in Nat
  BY <1>1, <1>2, <1>3
<1>5. e \in Seq(Nat) /\ Len(e) = n
  BY <1>1, <1>3, <1>4
<1>6. ASSUME NEW i \in 1 .. n PROVE e[i] % GroupBase = Group(v, i)
  <2>1. CASE i < n
    <3>1. e[i] = Group(v, i) + GroupBase
      BY <1>3, <2>1
    <3> QED
      BY <1>2, <3>1, ModAdd
  <2>2. CASE ~(i < n)
    <3>1. e[i] = Group(v, i)
      BY <1>1, <1>2, <1>3, <2>2
    <3> QED
      BY <1>1, <1>2, <3>1, DivMod
  <2> QED
    BY <2>1, <2>2
<1>7. \A i \in 1 .. (n - 1) : ~(e[i] < GroupBase)
  BY <1>1, <1>2, <1>3
<1>8. e[n] < GroupBase
  BY <1>1, <1>2, <1>3
<1> QED
  BY <1>5, <1>6, <1>7, <1>8 DEF e

(* The cells give the number back.                                          *)
LEMMA OverlongValue ==
    ASSUME NEW n \in 1 .. RevGroups, NEW v, Fits(v, n)
    PROVE  GroupsValue(encode_overlong(v, n)) = v
<1> DEFINE e == encode_overlong(v, n)
           s == Shifted(v)
           val == GroupsSum(e)
           T == {j \in Nat : j <= n => val[j] = s[n - j]}
<1>1. /\ v \in Nat /\ s[n] = 0 /\ n \in Nat /\ RevGroups \in Nat /\ GroupBase \in Nat
      /\ n <= RevGroups
  BY CodecAssumption DEF Fits
<1>2. /\ e \in Seq(Nat) /\ Len(e) = n
      /\ \A i \in 1 .. n : e[i] % GroupBase = s[i - 1] % GroupBase
  BY <1>1, OverlongCells DEF Group
<1>3. /\ s \in [0 .. RevGroups -> Nat] /\ s[0] = v
      /\ \A i \in 1 .. RevGroups : s[i] = s[i - 1] \div GroupBase
  BY <1>1, ShiftedDef
<1> HIDE DEF e, s
<1>4. /\ val[0] = 0
      /\ \A j \in 1 .. n : val[j] = (e[n - j + 1] % GroupBase) + GroupBase * val[j - 1]
  BY <1>2, GroupsSumDef
<1> HIDE DEF val
<1>5. 0 \in T
  BY <1>1, <1>4
<1>6. ASSUME NEW j \in Nat, j \in T PROVE j + 1 \in T
  <2>1. SUFFICES ASSUME j + 1 <= n PROVE val[j + 1] = s[n - (j + 1)]
    OBVIOUS
  <2> DEFINE i == n - j
  <2>2. i \in 1 .. n /\ i \in 1 .. RevGroups /\ i - 1 \in 0 .. RevGroups
        /\ n - (j + 1) + 1 = i /\ n - (j + 1) = i - 1 /\ j + 1 \in 1 .. n /\ (j + 1) - 1 = j
    BY <1>1, <2>1
  <2>3. val[j] = s[i]
    BY <1>6, <2>1
  <2> HIDE DEF i
  <2>4. val[j + 1] = (e[i] % GroupBase) + GroupBase * s[i]
    BY <1>4, <2>2, <2>3
  <2>5. e[i] % GroupBase = s[i - 1] % GroupBase /\ s[i] = s[i - 1] \div GroupBase
        /\ s[i - 1] \in Nat
    BY <1>2, <1>3, <2>2
  <2>6. (s[i - 1] % GroupBase) + GroupBase * (s[i - 1] \div GroupBase) = s[i - 1]
    BY <2>5, DivMod
  <2> QED
    BY <2>2, <2>4, <2>5, <2>6
<1>7. T = Nat
  <2> HIDE DEF T
  <2>1. T \in SUBSET Nat
    BY DEF T
  <2> QED
    BY <1>5, <1>6, <2>1, InductionOnSet
<1>8. val[n] = v
  <2>1. val[n] = s[n - n]
    BY <1>1, <1>7
  <2> QED
    BY <1>1, <1>3, <2>1
<1> QED
  BY <1>2, <1>8 DEF GroupsValue, e, val

(* A minimal encoding is an overlong one of the least width.                *)
LEMMA VarintIsOverlong ==
    ASSUME NEW v, Fits(v, RevGroups)
    PROVE  \E n \in 1 .. RevGroups : encode_varint(v) = encode_overlong(v, n) /\ Fits(v, n)
<1> DEFINE s == Shifted(v)
           Ends(n) == s[n - 1] < GroupBase
           T == {n \in 1 .. RevGroups : Ends(n)}
           Good(n) == Ends(n) /\ \A i \in 1 .. (n - 1) : s[i - 1] >= GroupBase
<1>1. /\ v \in Nat /\ s[RevGroups] = 0 /\ RevGroups \in Nat /\ RevGroups > 0
      /\ GroupBase \in Nat
  BY CodecAssumption DEF Fits
<1>2. /\ s \in [0 .. RevGroups -> Nat]
      /\ \A i \in 1 .. RevGroups : s[i] = s[i - 1] \div GroupBase
  BY <1>1, ShiftedDef
<1> HIDE DEF s
<1>3. \A n \in 1 .. RevGroups : n \in 1 .. RevGroups /\ n - 1 \in 0 .. RevGroups
  BY <1>1
<1>4. \A n \in 1 .. RevGroups : Ends(n) <=> s[n] = 0
  BY <1>2, <1>3, DivMod
<1>5. RevGroups \in T
  BY <1>1, <1>4
<1>6. \E n \in T : \A x \in T : n <= x
  <2> HIDE DEF T, Ends
  <2>1. T \in SUBSET Nat
    BY <1>1 DEF T
  <2> QED
    BY <1>5, <2>1, NatLeast
<1>7. \E n \in 1 .. RevGroups : Good(n)
  <2>1. PICK n \in T : \A x \in T : n <= x
    BY <1>6
  <2>2. ASSUME NEW i \in 1 .. (n - 1) PROVE s[i - 1] >= GroupBase
    <3>1. i \in 1 .. RevGroups /\ i \notin T
      BY <1>1, <2>1
    <3>2. ~(s[i - 1] < GroupBase) /\ s[i - 1] \in Nat
      BY <1>2, <1>3, <3>1
    <3> QED
      BY <1>1, <3>2
  <2> QED
    BY <2>1, <2>2
<1>8. PICK n \in 1 .. RevGroups :
        Good(n) /\ n = CHOOSE k \in 1 .. RevGroups : Good(k)
  <2> HIDE DEF Good
  <2> QED
    BY <1>7
<1>9. encode_varint(v) = encode_overlong(v, n)
  BY <1>8 DEF encode_varint, s
<1>10. Fits(v, n)
  BY <1>1, <1>4, <1>8 DEF Fits, s
<1> QED
  BY <1>9, <1>10

-----------------------------------------------------------------------------
(* Reading cells.                                                           *)

(* The cells x are found in buf behind the first p.                         *)
HasAt(buf, p, x) ==
    p + Len(x) <= Len(buf) /\ \A j \in 1 .. Len(x) : buf[p + j] = x[j]

(* What is appended is found behind what it is appended to.                 *)
LEMMA HasEnd ==
    ASSUME NEW a \in Seq(Nat), NEW b \in Seq(Nat)
    PROVE  /\ a \o b \in Seq(Nat) /\ Len(a \o b) = Len(a) + Len(b)
           /\ HasAt(a \o b, Len(a), b)
  BY DEF HasAt

(* What cells have at a position they have with more cells behind.          *)
LEMMA HasMoreCells ==
    ASSUME NEW a \in Seq(Nat), NEW b \in Seq(Nat), NEW p \in Nat, NEW x \in Seq(Nat),
           HasAt(a, p, x)
    PROVE  HasAt(a \o b, p, x)
<1>1. Len(a \o b) = Len(a) + Len(b) /\ Len(x) \in Nat /\ Len(a) \in Nat /\ Len(b) \in Nat
  OBVIOUS
<1>2. \A i \in 1 .. Len(a) : (a \o b)[i] = a[i]
  OBVIOUS
<1>3. \A j \in 1 .. Len(x) : p + j \in 1 .. Len(a) /\ a[p + j] = x[j]
  BY <1>1 DEF HasAt
<1>4. \A j \in 1 .. Len(x) : (a \o b)[p + j] = x[j]
  BY <1>2, <1>3, Zenon
<1>5. p + Len(x) <= Len(a)
  BY DEF HasAt
<1>6. p + Len(x) <= Len(a \o b)
  BY <1>1, <1>5
<1> QED
  BY <1>4, <1>6, Zenon DEF HasAt

(* Where a varint ends.                                                     *)
LEMMA VarintLenIs ==
    ASSUME NEW buf \in Seq(Nat), NEW n \in 1 .. Len(buf), buf[n] < GroupBase,
           \A i \in 1 .. (n - 1) : ~(buf[i] < GroupBase)
    PROVE  VarintLen(buf) = n
<1> DEFINE I == {i \in 1 .. Len(buf) : buf[i] < GroupBase}
<1>1. n \in I /\ I \in SUBSET Nat /\ n \in Nat
  OBVIOUS
<1>2. \A i \in I : n <= i
  <2> SUFFICES ASSUME NEW i \in I, ~(n <= i) PROVE FALSE
    OBVIOUS
  <2>1. i \in 1 .. (n - 1) /\ buf[i] < GroupBase
    BY <1>1
  <2> QED
    BY <2>1
<1>3. VarintLen(buf) = IF I # {} THEN Min(I) ELSE 0
  BY DEF VarintLen, SelectInSeq
<1> HIDE DEF I
<1>4. Min(I) = CHOOSE x \in I : \A y \in I : x <= y
  BY DEF Min
<1>5. \E x \in I : \A y \in I : x <= y
  BY <1>1, <1>2
<1>6. Min(I) \in I /\ \A y \in I : Min(I) <= y
  BY <1>4, <1>5
<1>7. Min(I) = n
  <2> DEFINE x == Min(I)
  <2> HIDE DEF x
  <2>1. x \in I /\ x <= n
    BY <1>1, <1>6 DEF x
  <2>2. x \in Nat /\ n <= x
    BY <1>1, <1>2, <2>1
  <2>3. x = n
    BY <1>1, <2>1, <2>2
  <2> QED
    BY <2>3 DEF x
<1> QED
  BY <1>1, <1>3, <1>7

(* Cells that all have the continuation bit hold no whole varint.           *)
LEMMA VarintLenNone ==
    ASSUME NEW buf \in Seq(Nat), \A i \in 1 .. Len(buf) : ~(buf[i] < GroupBase)
    PROVE  VarintLen(buf) = 0
<1> DEFINE I == {i \in 1 .. Len(buf) : buf[i] < GroupBase}
<1>1. I = {}
  OBVIOUS
<1>2. VarintLen(buf) = IF I # {} THEN Min(I) ELSE 0
  BY DEF VarintLen, SelectInSeq
<1> QED
  BY <1>1, <1>2

(* The cells behind the first p, one by one.                                *)
LEMMA DropDef ==
    ASSUME NEW buf \in Seq(Nat), NEW p \in 0 .. Len(buf)
    PROVE  /\ DropCells(buf, p) \in Seq(Nat) /\ Len(DropCells(buf, p)) = Len(buf) - p
           /\ \A j \in 1 .. (Len(buf) - p) : DropCells(buf, p)[j] = buf[p + j]
<1>1. DropCells(buf, p) = SubSeq(buf, p + 1, Len(buf))
  BY DEF DropCells
<1>2. Len(buf) \in Nat
  OBVIOUS
<1>3. SubSeq(buf, p + 1, Len(buf)) = [j \in 1 .. (Len(buf) - p) |-> buf[p + j]]
  BY <1>2 DEF SubSeq
<1>4. \A j \in 1 .. (Len(buf) - p) : p + j \in 1 .. Len(buf) /\ buf[p + j] \in Nat
  BY <1>2
<1>5. SubSeq(buf, p + 1, Len(buf)) \in Seq(Nat)
  BY <1>2, <1>3, <1>4
<1> QED
  BY <1>1, <1>2, <1>3, <1>5

(* The cells that are there are the subsequence of their place.             *)
LEMMA PieceDef ==
    ASSUME NEW buf \in Seq(Nat), NEW p \in Nat, NEW x \in Seq(Nat), HasAt(buf, p, x)
    PROVE  SubSeq(buf, p + 1, p + Len(x)) = x
<1>1. Len(x) \in Nat /\ Len(buf) \in Nat /\ x = [j \in 1 .. Len(x) |-> x[j]]
  OBVIOUS
<1>2. SubSeq(buf, p + 1, p + Len(x)) = [j \in 1 .. Len(x) |-> buf[p + j]]
  BY <1>1, SMTT(40) DEF SubSeq
<1> QED
  BY <1>1, <1>2 DEF HasAt

(* decode_varint where an encoding begins, in a buffer that may end before  *)
(* the encoding does.                                                       *)
LEMMA DecodeVarintAt ==
    ASSUME NEW whole \in Seq(Nat), NEW n \in 0 .. Len(whole), NEW p \in 0 .. n,
           NEW k \in 1 .. RevGroups, NEW v, Fits(v, k),
           HasAt(whole, p, encode_overlong(v, k))
    PROVE  decode_varint(DropCells(SubSeq(whole, 1, n), p))
              = IF p + k <= n THEN <<<<v, k>>>> ELSE <<>>
<1> DEFINE e == encode_overlong(v, k)
           buf == SubSeq(whole, 1, n)
           d == DropCells(buf, p)
<1>1. v \in Nat /\ k \in Nat /\ n \in Nat /\ p \in Nat /\ RevGroups \in Nat /\ Len(whole) \in Nat
  BY CodecAssumption DEF Fits
<1>2. /\ e \in Seq(Nat) /\ Len(e) = k
      /\ \A i \in 1 .. (k - 1) : ~(e[i] < GroupBase)
      /\ e[k] < GroupBase
  BY <1>1, OverlongCells
<1>3. GroupsValue(e) = v
  BY OverlongValue
<1>4. /\ buf \in Seq(Nat) /\ Len(buf) = n
      /\ \A j \in 1 .. n : buf[j] = whole[j]
  BY <1>1
<1> HIDE DEF buf
<1>5. /\ d \in Seq(Nat) /\ Len(d) = n - p
      /\ \A j \in 1 .. (n - p) : d[j] = buf[p + j]
  BY <1>4, DropDef
<1>6. \A j \in 1 .. k : whole[p + j] = e[j]
  BY <1>2 DEF HasAt
<1> HIDE DEF e, d
<1>7. \A j \in 1 .. (n - p) : j <= k => d[j] = e[j]
  <2> SUFFICES ASSUME NEW j \in 1 .. (n - p), j <= k PROVE d[j] = e[j]
    OBVIOUS
  <2>1. p + j \in 1 .. n /\ j \in 1 .. k
    BY <1>1
  <2> QED
    BY <1>4, <1>5, <1>6, <2>1
<1>8. CASE p + k <= n
  <2>1. k \in 1 .. Len(d)
    BY <1>1, <1>5, <1>8
  <2>0. \A i \in 1 .. k : d[i] = e[i]
    <3>1. \A i \in 1 .. k : i \in 1 .. (n - p) /\ i <= k
      BY <1>1, <1>8
    <3> QED
      BY <1>7, <3>1
  <2>2. d[k] < GroupBase /\ \A i \in 1 .. (k - 1) : ~(d[i] < GroupBase)
    BY <1>1, <1>2, <2>0
  <2>3. VarintLen(d) = k
    BY <1>5, <2>1, <2>2, VarintLenIs
  <2>4. SubSeq(d, 1, k) = e
    <3>1. HasAt(d, 0, e)
      <4>1. 0 + k <= Len(d) /\ \A j \in 1 .. k : 0 + j = j
        BY <1>1, <2>1
      <4> QED
        BY <1>2, <2>0, <4>1 DEF HasAt
    <3>2. SubSeq(d, 0 + 1, 0 + k) = e
      BY <1>2, <1>5, <3>1, PieceDef
    <3> QED
      BY <1>1, <3>2
  <2>5. decode_varint(d) = <<<<GroupsValue(SubSeq(d, 1, k)), k>>>>
    BY <1>1, <2>3 DEF decode_varint
  <2> QED
    BY <1>3, <1>8, <2>4, <2>5 DEF d, buf
<1>9. CASE ~(p + k <= n)
  <2>1. \A i \in 1 .. Len(d) : ~(d[i] < GroupBase)
    <3> SUFFICES ASSUME NEW i \in 1 .. Len(d) PROVE ~(d[i] < GroupBase)
      OBVIOUS
    <3>1. i \in 1 .. (n - p) /\ i \in 1 .. (k - 1) /\ i <= k
      BY <1>1, <1>5, <1>9
    <3> QED
      BY <1>2, <1>7, <3>1
  <2>2. VarintLen(d) = 0
    BY <1>5, <2>1, VarintLenNone
  <2>3. decode_varint(d) = <<>>
    BY <2>2 DEF decode_varint
  <2> QED
    BY <1>9, <2>3 DEF d, buf
<1> QED
  BY <1>8, <1>9

(* The same for decode_overlong.                                            *)
LEMMA DecodeOverlongAt ==
    ASSUME NEW whole \in Seq(Nat), NEW n \in 0 .. Len(whole), NEW p \in 0 .. n,
           NEW k \in 1 .. RevGroups, NEW v, Fits(v, k),
           HasAt(whole, p, encode_overlong(v, k))
    PROVE  decode_overlong(DropCells(SubSeq(whole, 1, n), p), k)
              = IF p + k <= n THEN <<v>> ELSE <<>>
<1> DEFINE e == encode_overlong(v, k)
           buf == SubSeq(whole, 1, n)
           d == DropCells(buf, p)
<1>1. v \in Nat /\ k \in Nat /\ n \in Nat /\ p \in Nat /\ RevGroups \in Nat /\ Len(whole) \in Nat
  BY CodecAssumption DEF Fits
<1>2. e \in Seq(Nat) /\ Len(e) = k
  BY <1>1, OverlongCells
<1>3. GroupsValue(e) = v
  BY OverlongValue
<1>4. /\ buf \in Seq(Nat) /\ Len(buf) = n
      /\ \A j \in 1 .. n : buf[j] = whole[j]
  BY <1>1
<1> HIDE DEF buf
<1>5. /\ d \in Seq(Nat) /\ Len(d) = n - p
      /\ \A j \in 1 .. (n - p) : d[j] = buf[p + j]
  BY <1>4, DropDef
<1>6. \A j \in 1 .. k : whole[p + j] = e[j]
  BY <1>2 DEF HasAt
<1> HIDE DEF e, d
<1>7. CASE p + k <= n
  <2>1. \A j \in 1 .. k : p + j \in 1 .. n /\ j \in 1 .. (n - p)
    BY <1>1, <1>7
  <2>2. \A j \in 1 .. k : d[j] = e[j]
    BY <1>4, <1>5, <1>6, <2>1
  <2>3. HasAt(d, 0, e)
    BY <1>1, <1>2, <1>5, <1>7, <2>2 DEF HasAt
  <2>4. SubSeq(d, 0 + 1, 0 + k) = e
    BY <1>2, <1>5, <2>3, PieceDef
  <2>5. SubSeq(d, 1, k) = e
    BY <1>1, <2>4
  <2>6. decode_overlong(d, k) = <<GroupsValue(SubSeq(d, 1, k))>>
    BY <1>1, <1>5, <1>7 DEF decode_overlong
  <2> QED
    BY <1>3, <1>7, <2>5, <2>6 DEF d, buf
<1>8. CASE ~(p + k <= n)
  <2>1. decode_overlong(d, k) = <<>>
    BY <1>1, <1>5, <1>8 DEF decode_overlong
  <2> QED
    BY <1>8, <2>1 DEF d, buf
<1> QED
  BY <1>7, <1>8

-----------------------------------------------------------------------------
(* The cursor on the first n cells of a blob: it has read got and stands at *)
(* p, or it is lost because the blob ends before p.                         *)
Reads(c, whole, n, p, got) ==
    IF p <= n THEN c = [buf |-> SubSeq(whole, 1, n), i |-> p, ok |-> TRUE, got |-> got]
    ELSE c = [buf |-> c.buf, i |-> c.i, ok |-> FALSE, got |-> c.got]

(* A new cursor has read nothing, at position 0.                            *)
LEMMA CursorReads ==
    ASSUME NEW whole, NEW n \in Nat
    PROVE  Reads(Cursor(SubSeq(whole, 1, n)), whole, n, 0, <<>>)
  BY DEF Reads, Cursor

(* Skipping moves a cursor, or it is stuck.                                 *)
LEMMA SkipReads ==
    ASSUME NEW whole \in Seq(Nat), NEW n \in 0 .. Len(whole), NEW p \in Nat, NEW k \in Nat,
           NEW c, NEW got, Reads(c, whole, n, p, got)
    PROVE  Reads(Skip(c, k), whole, n, p + k, got)
<1>1. n \in Nat /\ Len(SubSeq(whole, 1, n)) = n
  OBVIOUS
<1>2. CASE p <= n
  <2>1. c = [buf |-> SubSeq(whole, 1, n), i |-> p, ok |-> TRUE, got |-> got]
    BY <1>2 DEF Reads
  <2>4. c.i = p /\ Len(c.buf) = n
    BY <1>1, <2>1
  <2>5. c.ok
    BY <2>1
  <2>2. CASE p + k <= n
    <3>1. Skip(c, k) = [c EXCEPT !.i = p + k]
      <4>1. ~(c.i + k > Len(c.buf)) /\ c.i + k = p + k
        BY <1>1, <2>2, <2>4
      <4> QED
        BY ONLY <2>5, <4>1, Zenon DEF Skip
    <3> QED
      BY <2>1, <2>2, <3>1 DEF Reads
  <2>3. CASE ~(p + k <= n)
    <3>1. Skip(c, k) = [c EXCEPT !.ok = FALSE]
      <4>1. c.i + k > Len(c.buf)
        BY <1>1, <2>3, <2>4
      <4> QED
        BY ONLY <4>1, Zenon DEF Skip, Stuck
    <3> QED
      BY <2>1, <2>3, <3>1 DEF Reads
  <2> QED
    BY <2>2, <2>3
<1>3. CASE ~(p <= n)
  <2>1. c = [buf |-> c.buf, i |-> c.i, ok |-> FALSE, got |-> c.got] /\ ~(p + k <= n)
    BY <1>1, <1>3 DEF Reads
  <2>3. ~c.ok
    <3>1. c.ok = FALSE
      <4> DEFINE no == FALSE
                 b == c.buf
                 j == c.i
                 g == c.got
      <4>1. c = [buf |-> b, i |-> j, ok |-> no, got |-> g]
        BY <2>1
      <4> HIDE DEF no, b, j, g
      <4>2. c.ok = no
        BY ONLY <4>1
      <4> QED
        BY ONLY <4>2, Zenon DEF no
    <3> QED
      BY ONLY <3>1, Zenon
  <2>2. Skip(c, k) = [c EXCEPT !.ok = FALSE]
    BY ONLY <2>3, Zenon DEF Skip, Stuck
  <2> QED
    BY <2>1, <2>2 DEF Reads
<1> QED
  BY <1>2, <1>3

(* Reading a varint that is there adds its number to what was read.         *)
LEMMA VarintReads ==
    ASSUME NEW whole \in Seq(Nat), NEW n \in 0 .. Len(whole), NEW p \in Nat,
           NEW k \in 1 .. RevGroups, NEW v, Fits(v, k),
           HasAt(whole, p, encode_overlong(v, k)),
           NEW c, NEW got, Reads(c, whole, n, p, got)
    PROVE  Reads(Varint(c), whole, n, p + k, Append(got, v))
<1> DEFINE d == decode_varint(DropCells(c.buf, c.i))
<1>0. Varint(c) = IF ~c.ok \/ d = <<>> THEN Stuck(c) ELSE Advance(c, d[1][2], d[1][1])
  <2> HIDE DEF d
  <2>1. Varint(c) = VarintGot(c, d)
    BY DEF Varint, d
  <2> QED
    BY <2>1 DEF VarintGot
<1>1. n \in Nat /\ k \in Nat
  BY CodecAssumption
<1>2. CASE p <= n
  <2>1. c = [buf |-> SubSeq(whole, 1, n), i |-> p, ok |-> TRUE, got |-> got]
    BY <1>2 DEF Reads
  <2>2. d = IF p + k <= n THEN <<<<v, k>>>> ELSE <<>>
    <3>1. p \in 0 .. n
      BY <1>1, <1>2
    <3> QED
      BY <2>1, <3>1, DecodeVarintAt
  <2>3. Varint(c) = IF ~c.ok \/ d = <<>> THEN Stuck(c)
                    ELSE Advance(c, d[1][2], d[1][1])
    BY <1>0
  <2> HIDE DEF d
  <2>4. CASE p + k <= n
    <3>1. d = <<<<v, k>>>> /\ d # <<>> /\ d[1][1] = v /\ d[1][2] = k
      BY <2>2, <2>4
    <3>2. Varint(c) = [c EXCEPT !.i = @ + k, !.got = Append(@, v)]
      BY <2>1, <2>3, <3>1 DEF Advance
    <3> QED
      BY <2>1, <2>4, <3>2 DEF Reads
  <2>5. CASE ~(p + k <= n)
    <3>1. Varint(c) = [c EXCEPT !.ok = FALSE]
      BY <2>2, <2>3, <2>5 DEF Stuck
    <3> QED
      BY <2>1, <2>5, <3>1 DEF Reads
  <2> QED
    BY <2>4, <2>5
<1>3. CASE ~(p <= n)
  <2>1. c = [buf |-> c.buf, i |-> c.i, ok |-> FALSE, got |-> c.got] /\ ~(p + k <= n)
    BY <1>1, <1>3 DEF Reads
  <2>2. ~c.ok
    BY <2>1
  <2> HIDE DEF d
  <2>3. Varint(c) = [c EXCEPT !.ok = FALSE]
    BY <1>0, <2>2 DEF Stuck
  <2> QED
    BY <2>1, <2>3 DEF Reads
<1> QED
  BY <1>2, <1>3

(* Reading a number of fixed width adds it to what was read.                *)
LEMMA OverlongReads ==
    ASSUME NEW whole \in Seq(Nat), NEW n \in 0 .. Len(whole), NEW p \in Nat,
           NEW k \in 1 .. RevGroups, NEW v, Fits(v, k),
           HasAt(whole, p, encode_overlong(v, k)),
           NEW c, NEW got, Reads(c, whole, n, p, got)
    PROVE  Reads(Overlong(c, k), whole, n, p + k, Append(got, v))
<1>1. n \in Nat /\ k \in Nat
  BY CodecAssumption
<1>2. CASE p <= n
  <2>1. c = [buf |-> SubSeq(whole, 1, n), i |-> p, ok |-> TRUE, got |-> got]
    BY <1>2 DEF Reads
  <2> DEFINE d == decode_overlong(DropCells(c.buf, c.i), k)
  <2>2. d = IF p + k <= n THEN <<v>> ELSE <<>>
    <3>1. p \in 0 .. n
      BY <1>1, <1>2
    <3> QED
      BY <2>1, <3>1, DecodeOverlongAt
  <2>3. Overlong(c, k) = IF ~c.ok \/ d = <<>> THEN Stuck(c)
                         ELSE Advance(c, k, d[1])
    BY DEF Overlong
  <2> HIDE DEF d
  <2>4. CASE p + k <= n
    <3>1. d = <<v>> /\ d # <<>> /\ d[1] = v
      BY <2>2, <2>4
    <3>2. Overlong(c, k) = [c EXCEPT !.i = @ + k, !.got = Append(@, v)]
      BY <2>1, <2>3, <3>1 DEF Advance
    <3> QED
      BY <2>1, <2>4, <3>2 DEF Reads
  <2>5. CASE ~(p + k <= n)
    <3>1. Overlong(c, k) = [c EXCEPT !.ok = FALSE]
      BY <2>2, <2>3, <2>5 DEF Stuck
    <3> QED
      BY <2>1, <2>5, <3>1 DEF Reads
  <2> QED
    BY <2>4, <2>5
<1>3. CASE ~(p <= n)
  <2>1. c = [buf |-> c.buf, i |-> c.i, ok |-> FALSE, got |-> c.got] /\ ~(p + k <= n)
    BY <1>1, <1>3 DEF Reads
  <2>2. Overlong(c, k) = [c EXCEPT !.ok = FALSE]
    BY <2>1 DEF Overlong, Stuck
  <2> QED
    BY <2>1, <2>2 DEF Reads
<1> QED
  BY <1>2, <1>3

(* Taking the announced number of cells replaces the number by the cells.   *)
LEMMA TakeReads ==
    ASSUME NEW whole \in Seq(Nat), NEW n \in 0 .. Len(whole), NEW p \in Nat,
           NEW x \in Seq(Nat), HasAt(whole, p, x), NEW E, NEW got \in Seq(E),
           NEW c, Reads(c, whole, n, p, Append(got, Len(x)))
    PROVE  Reads(TakeBytes(c), whole, n, p + Len(x), Append(got, x))
<1> DEFINE k == Len(x)
           buf == SubSeq(whole, 1, n)
           g == Append(got, k)
<1>1. n \in Nat /\ k \in Nat /\ Len(whole) \in Nat /\ Len(buf) = n /\ buf \in Seq(Nat)
      /\ \A j \in 1 .. n : buf[j] = whole[j]
  OBVIOUS
<1>2. Last(g) = k /\ Front(g) = got
  <2>1. g \in Seq(E \cup Nat) /\ Len(g) = Len(got) + 1 /\ Len(got) \in Nat /\ g[Len(got) + 1] = k
        /\ \A j \in 1 .. Len(got) : g[j] = got[j]
    <3>1. got \in Seq(E \cup Nat) /\ k \in E \cup Nat
      BY <1>1, SeqMonotonic
    <3> HIDE DEF k
    <3> QED
      BY <3>1
  <2>2. Last(g) = k
    BY <2>1 DEF Last
  <2>3. SubSeq(g, 1, Len(got)) = [j \in 1 .. Len(got) |-> g[j]]
    BY <2>1 DEF SubSeq
  <2>4. got = [j \in 1 .. Len(got) |-> got[j]]
    OBVIOUS
  <2> HIDE DEF g
  <2>5. SubSeq(g, 1, Len(got)) = got
    BY <2>1, <2>3, <2>4
  <2>6. Front(g) = SubSeq(g, 1, Len(got))
    BY <2>1 DEF Front
  <2> QED
    BY <2>2, <2>5, <2>6
<1> HIDE DEF g, buf, k
<1>3. CASE p <= n
  <2>1. c = [buf |-> buf, i |-> p, ok |-> TRUE, got |-> g]
    BY <1>3 DEF Reads, buf, g, k
  <2>2. TakeBytes(c) = IF p + k > n THEN [c EXCEPT !.ok = FALSE]
                       ELSE [c EXCEPT !.i = p + k, !.got = Append(got, Cells(buf, p, k))]
    BY <1>1, <1>2, <2>1 DEF TakeBytes, Stuck
  <2>3. CASE p + k <= n
    <3>1. HasAt(buf, p, x)
      <4>1. \A j \in 1 .. k : p + j \in 1 .. n
        BY <1>1, <2>3
      <4> QED
        BY <1>1, <2>3, <4>1 DEF HasAt, k
    <3>2. Cells(buf, p, k) = x
      BY <1>1, <3>1, PieceDef DEF Cells, k
    <3>3. TakeBytes(c) = [c EXCEPT !.i = p + k, !.got = Append(got, x)]
      BY <1>1, <2>2, <2>3, <3>2
    <3> QED
      BY <2>1, <2>3, <3>3 DEF Reads, buf, k
  <2>4. CASE ~(p + k <= n)
    <3>1. TakeBytes(c) = [c EXCEPT !.ok = FALSE]
      BY <1>1, <2>2, <2>4
    <3> QED
      BY <2>1, <2>4, <3>1 DEF Reads, k
  <2> QED
    BY <2>3, <2>4
<1>4. CASE ~(p <= n)
  <2>1. c = [buf |-> c.buf, i |-> c.i, ok |-> FALSE, got |-> c.got] /\ ~(p + k <= n)
    BY <1>1, <1>4 DEF Reads
  <2>2. TakeBytes(c) = [c EXCEPT !.ok = FALSE]
    BY <2>1 DEF TakeBytes, Stuck
  <2> QED
    BY <2>1, <2>2 DEF Reads, k
<1> QED
  BY <1>3, <1>4

-----------------------------------------------------------------------------
(* The layout of a blob.                                                    *)
LEMMA HasParts ==
    ASSUME NEW w \in Seq(Nat), NEW a \in Seq(Nat), NEW b \in Seq(Nat), HasAt(w, 0, a \o b)
    PROVE  /\ Len(a \o b) = Len(a) + Len(b) /\ a \o b \in Seq(Nat)
           /\ HasAt(w, 0, a) /\ HasAt(w, Len(a), b)
<1> DEFINE ab == a \o b
<1>1. /\ ab \in Seq(Nat) /\ Len(ab) = Len(a) + Len(b)
      /\ Len(a) \in Nat /\ Len(b) \in Nat /\ Len(w) \in Nat
      /\ \A i \in 1 .. Len(a) : ab[i] = a[i]
      /\ \A i \in 1 .. Len(b) : ab[Len(a) + i] = b[i]
  OBVIOUS
<1> HIDE DEF ab
<1>2. Len(a) + Len(b) <= Len(w) /\ \A j \in 1 .. (Len(a) + Len(b)) : w[j] = ab[j]
  <2>1. HasAt(w, 0, ab)
    BY DEF ab
  <2> QED
    BY <1>1, <2>1 DEF HasAt
<1>3. HasAt(w, 0, a)
  <2>1. \A i \in 1 .. Len(a) : i \in 1 .. (Len(a) + Len(b)) /\ 0 + i = i
    BY <1>1
  <2> QED
    BY <1>1, <1>2, <2>1 DEF HasAt
<1>4. HasAt(w, Len(a), b)
  <2>1. \A i \in 1 .. Len(b) : Len(a) + i \in 1 .. (Len(a) + Len(b))
    BY <1>1
  <2> QED
    BY <1>1, <1>2, <2>1 DEF HasAt
<1> QED
  BY <1>1, <1>3, <1>4 DEF ab

(* Where the fields of a blob w are when the three varints have c, v and l  *)
(* bytes.                                                                   *)
ModAt(kv, c) == 1 + LenGroups + Len(kv.key) + 1 + c + 1
ValueAt(kv, c, v) == ModAt(kv, c) + RevGroups + 1 + v + 1 + LenGroups
Layout(kv, w, c, v, l) ==
    LET m == ModAt(kv, c) x == ValueAt(kv, c, v) IN
    /\ w \in Seq(Nat) /\ Len(w) = x + Len(kv.value) + 1 + l
    /\ Fits(kv.create_revision, c) /\ Fits(kv.version, v) /\ Fits(kv.lease, l)
    /\ HasAt(w, 1, encode_overlong(Len(kv.key), LenGroups))
    /\ HasAt(w, 1 + LenGroups, kv.key)
    /\ HasAt(w, 1 + LenGroups + Len(kv.key) + 1, encode_overlong(kv.create_revision, c))
    /\ HasAt(w, m, encode_overlong(kv.mod_revision, RevGroups))
    /\ HasAt(w, m + RevGroups + 1, encode_overlong(kv.version, v))
    /\ HasAt(w, m + RevGroups + 1 + v + 1, encode_overlong(Len(kv.value), LenGroups))
    /\ HasAt(w, x, kv.value)
    /\ HasAt(w, x + Len(kv.value) + 1, encode_overlong(kv.lease, l))

UptoMod(kv) ==
    <<Tags.key>> \o encode_overlong(Len(kv.key), LenGroups) \o kv.key
        \o <<Tags.create>> \o encode_varint(kv.create_revision) \o <<Tags.mod>>

(* The fields of a key-value are numbers and cells that fit their widths.   *)
LEMMA KeyValueTypes ==
    ASSUME NEW kv \in KeyValues
    PROVE  /\ kv.key \in Seq(Nat) /\ kv.value \in Seq(Nat)
           /\ Fits(Len(kv.key), LenGroups) /\ Fits(Len(kv.value), LenGroups)
           /\ Fits(kv.create_revision, RevGroups) /\ Fits(kv.mod_revision, RevGroups)
           /\ Fits(kv.version, RevGroups) /\ Fits(kv.lease, RevGroups)
  BY DEF KeyValues

(* The widths of the format are positive numbers.                           *)
LEMMA GroupNumbers ==
    /\ LenGroups \in 1 .. RevGroups /\ RevGroups \in 1 .. RevGroups /\ RevGroups \in Nat
    /\ LenGroups \in Nat /\ GroupBase \in Nat /\ OffsetLimit \in Nat /\ OffsetLimit > 1
  BY CodecAssumption

(* A single number is a cell.                                               *)
LEMMA OneCell == \A x \in Nat : <<x>> \in Seq(Nat) /\ Len(<<x>>) = 1
  OBVIOUS

(* The field tags are single cells.                                         *)
LEMMA TagCells ==
    /\ <<Tags.key>> \in Seq(Nat) /\ <<Tags.create>> \in Seq(Nat) /\ <<Tags.mod>> \in Seq(Nat)
    /\ <<Tags.version>> \in Seq(Nat) /\ <<Tags.value>> \in Seq(Nat)
    /\ <<Tags.lease>> \in Seq(Nat)
    /\ Len(<<Tags.key>>) = 1 /\ Len(<<Tags.create>>) = 1 /\ Len(<<Tags.mod>>) = 1
    /\ Len(<<Tags.version>>) = 1 /\ Len(<<Tags.value>>) = 1 /\ Len(<<Tags.lease>>) = 1
<1>1. /\ Tags.key \in Nat /\ Tags.create \in Nat /\ Tags.mod \in Nat
      /\ Tags.version \in Nat /\ Tags.value \in Nat /\ Tags.lease \in Nat
  BY DEF Tags
<1> QED
  BY <1>1, OneCell

(* encode_kv puts every field where Layout says.                            *)
LEMMA BlobLayout ==
    ASSUME NEW kv \in KeyValues
    PROVE  \E c, v, l \in 1 .. RevGroups :
              /\ Layout(kv, encode_kv(kv).bytes, c, v, l)
              /\ Len(encode_varint(kv.lease)) = l
              /\ UptoMod(kv) \in Seq(Nat) /\ Len(UptoMod(kv)) = ModAt(kv, c)
<1>1. PICK c \in 1 .. RevGroups :
        /\ encode_varint(kv.create_revision) = encode_overlong(kv.create_revision, c)
        /\ Fits(kv.create_revision, c)
  BY KeyValueTypes, VarintIsOverlong
<1>2. PICK v \in 1 .. RevGroups :
        encode_varint(kv.version) = encode_overlong(kv.version, v) /\ Fits(kv.version, v)
  BY KeyValueTypes, VarintIsOverlong
<1>3. PICK l \in 1 .. RevGroups :
        encode_varint(kv.lease) = encode_overlong(kv.lease, l) /\ Fits(kv.lease, l)
  BY KeyValueTypes, VarintIsOverlong
<1> DEFINE kl == encode_overlong(Len(kv.key), LenGroups)
           cr == encode_varint(kv.create_revision)
           mr == encode_overlong(kv.mod_revision, RevGroups)
           ve == encode_varint(kv.version)
           vl == encode_overlong(Len(kv.value), LenGroups)
           le == encode_varint(kv.lease)
           k == kv.key
           x == kv.value
           w == encode_kv(kv).bytes
<1>4. /\ kl \in Seq(Nat) /\ Len(kl) = LenGroups /\ cr \in Seq(Nat) /\ Len(cr) = c
      /\ mr \in Seq(Nat) /\ Len(mr) = RevGroups /\ ve \in Seq(Nat) /\ Len(ve) = v
      /\ vl \in Seq(Nat) /\ Len(vl) = LenGroups /\ le \in Seq(Nat) /\ Len(le) = l
  <2>1. /\ Len(kv.key) \in Nat /\ Len(kv.value) \in Nat /\ kv.create_revision \in Nat
        /\ kv.mod_revision \in Nat /\ kv.version \in Nat /\ kv.lease \in Nat
    BY KeyValueTypes DEF Fits
  <2>2. \A y \in Nat, n \in 1 .. RevGroups :
          encode_overlong(y, n) \in Seq(Nat) /\ Len(encode_overlong(y, n)) = n
    BY OverlongCells
  <2>3. kl \in Seq(Nat) /\ Len(kl) = LenGroups
    BY <2>1, <2>2, GroupNumbers
  <2>4. cr \in Seq(Nat) /\ Len(cr) = c
    <3>1. cr = encode_overlong(kv.create_revision, c)
      BY <1>1
    <3> HIDE DEF cr
    <3> QED
      BY <2>1, <2>2, <3>1
  <2>5. mr \in Seq(Nat) /\ Len(mr) = RevGroups
    BY <2>1, <2>2, GroupNumbers
  <2>6. ve \in Seq(Nat) /\ Len(ve) = v
    BY <1>2, <2>1, <2>2, ZenonT(60)
  <2>7. vl \in Seq(Nat) /\ Len(vl) = LenGroups
    BY <2>1, <2>2, GroupNumbers
  <2>8. le \in Seq(Nat) /\ Len(le) = l
    BY <1>3, <2>1, <2>2, ZenonT(60)
  <2> HIDE DEF kl, cr, mr, ve, vl, le
  <2> QED
    BY <2>3, <2>4, <2>5, <2>6, <2>7, <2>8
<1>5. w = <<Tags.key>> \o kl \o k \o <<Tags.create>> \o cr \o <<Tags.mod>> \o mr
             \o <<Tags.version>> \o ve \o <<Tags.value>> \o vl \o x \o <<Tags.lease>> \o le
  BY DEF encode_kv
<1>6. k \in Seq(Nat) /\ x \in Seq(Nat)
  BY KeyValueTypes
<1>7. UptoMod(kv) = <<Tags.key>> \o kl \o k \o <<Tags.create>> \o cr \o <<Tags.mod>>
  BY DEF UptoMod
<1> HIDE DEF kl, cr, mr, ve, vl, le, k, x, w
<1> DEFINE a1 == <<Tags.key>>
           a2 == a1 \o kl
           a3 == a2 \o k
           a4 == a3 \o <<Tags.create>>
           a5 == a4 \o cr
           a6 == a5 \o <<Tags.mod>>
           a7 == a6 \o mr
           a8 == a7 \o <<Tags.version>>
           a9 == a8 \o ve
           a10 == a9 \o <<Tags.value>>
           a11 == a10 \o vl
           a12 == a11 \o x
           a13 == a12 \o <<Tags.lease>>
           a14 == a13 \o le
<1>8. w = a14 /\ UptoMod(kv) = a6
  BY <1>5, <1>7
<1> HIDE DEF a1, a2, a3, a4, a5, a6, a7, a8, a9, a10, a11, a12, a13, a14
<1>9. a1 \in Seq(Nat) /\ Len(a1) = 1
  BY TagCells DEF a1
<1>10. \A a, b \in Seq(Nat) : a \o b \in Seq(Nat) /\ Len(a \o b) = Len(a) + Len(b)
  OBVIOUS
<1>11. a2 \in Seq(Nat) /\ Len(a2) = 1 + LenGroups
  BY <1>4, <1>9, <1>10 DEF a2
<1>12. a3 \in Seq(Nat) /\ Len(a3) = 1 + LenGroups + Len(k)
  BY <1>6, <1>10, <1>11 DEF a3
<1>13. a4 \in Seq(Nat) /\ Len(a4) = 1 + LenGroups + Len(k) + 1
  BY <1>10, <1>12, TagCells DEF a4
<1>14. a5 \in Seq(Nat) /\ Len(a5) = 1 + LenGroups + Len(k) + 1 + c
  BY <1>4, <1>10, <1>13 DEF a5
<1> DEFINE m == ModAt(kv, c)
<1>15. a6 \in Seq(Nat) /\ Len(a6) = m
  BY <1>10, <1>14, TagCells DEF a6, ModAt, k
<1> HIDE DEF m
<1>16. a7 \in Seq(Nat) /\ Len(a7) = m + RevGroups
  BY <1>4, <1>10, <1>15 DEF a7
<1>17. a8 \in Seq(Nat) /\ Len(a8) = m + RevGroups + 1
  BY <1>10, <1>16, TagCells DEF a8
<1>18. a9 \in Seq(Nat) /\ Len(a9) = m + RevGroups + 1 + v
  BY <1>4, <1>10, <1>17 DEF a9
<1>19. a10 \in Seq(Nat) /\ Len(a10) = m + RevGroups + 1 + v + 1
  BY <1>10, <1>18, TagCells, SMTT(40) DEF a10
<1>20. a11 \in Seq(Nat) /\ Len(a11) = ValueAt(kv, c, v)
  BY <1>4, <1>10, <1>19 DEF a11, ValueAt, m
<1>21. a12 \in Seq(Nat) /\ Len(a12) = ValueAt(kv, c, v) + Len(x)
  BY <1>6, <1>10, <1>20 DEF a12
<1>22. a13 \in Seq(Nat) /\ Len(a13) = ValueAt(kv, c, v) + Len(x) + 1
  BY <1>10, <1>21, TagCells DEF a13
<1>23. a14 \in Seq(Nat) /\ Len(a14) = ValueAt(kv, c, v) + Len(x) + 1 + l
  BY <1>4, <1>10, <1>22 DEF a14
<1>24. HasAt(w, 0, a14)
  BY <1>8, <1>23 DEF HasAt
<1>25. w \in Seq(Nat)
  BY <1>8, <1>23
<1>26. HasAt(w, 0, a13) /\ HasAt(w, Len(a13), le)
  BY <1>4, <1>22, <1>24, <1>25, HasParts DEF a14
<1>27. HasAt(w, 0, a12)
  BY <1>21, <1>25, <1>26, TagCells, HasParts DEF a13
<1>28. HasAt(w, 0, a11) /\ HasAt(w, Len(a11), x)
  BY <1>6, <1>20, <1>25, <1>27, HasParts DEF a12
<1>29. HasAt(w, 0, a10) /\ HasAt(w, Len(a10), vl)
  BY <1>4, <1>19, <1>25, <1>28, HasParts DEF a11
<1>30. HasAt(w, 0, a9)
  BY <1>18, <1>25, <1>29, TagCells, HasParts DEF a10
<1>31. HasAt(w, 0, a8) /\ HasAt(w, Len(a8), ve)
  BY <1>4, <1>17, <1>25, <1>30, HasParts DEF a9
<1>32. HasAt(w, 0, a7)
  BY <1>16, <1>25, <1>31, TagCells, HasParts DEF a8
<1>33. HasAt(w, 0, a6) /\ HasAt(w, Len(a6), mr)
  BY <1>4, <1>15, <1>25, <1>32, HasParts DEF a7
<1>34. HasAt(w, 0, a5)
  BY <1>14, <1>25, <1>33, TagCells, HasParts DEF a6
<1>35. HasAt(w, 0, a4) /\ HasAt(w, Len(a4), cr)
  BY <1>4, <1>13, <1>25, <1>34, HasParts DEF a5
<1>36. HasAt(w, 0, a3)
  BY <1>12, <1>25, <1>35, TagCells, HasParts DEF a4
<1>37. HasAt(w, 0, a2) /\ HasAt(w, Len(a2), k)
  BY <1>6, <1>11, <1>25, <1>36, HasParts DEF a3
<1>38. HasAt(w, Len(a1), kl)
  BY <1>4, <1>9, <1>25, <1>37, HasParts DEF a2
<1>39. /\ HasAt(w, 1, kl) /\ HasAt(w, 1 + LenGroups, k)
       /\ HasAt(w, 1 + LenGroups + Len(k) + 1, cr)
       /\ HasAt(w, m, mr) /\ HasAt(w, m + RevGroups + 1, ve)
       /\ HasAt(w, m + RevGroups + 1 + v + 1, vl)
       /\ HasAt(w, ValueAt(kv, c, v), x) /\ HasAt(w, ValueAt(kv, c, v) + Len(x) + 1, le)
  BY <1>9, <1>11, <1>13, <1>15, <1>17, <1>19, <1>20, <1>22, <1>26, <1>28, <1>29, <1>31,
     <1>33, <1>35, <1>37, <1>38, Zenon
<1>40. Layout(kv, w, c, v, l)
  BY <1>1, <1>2, <1>3, <1>8, <1>23, <1>25, <1>39, Zenon
     DEF Layout, kl, cr, mr, ve, vl, le, k, x, m
<1> QED
  BY <1>4, <1>8, <1>15, <1>40 DEF w, le, m

-----------------------------------------------------------------------------
(* The patch of a revision.                                                 *)

(* What follows the revision in a blob.                                     *)
RestOf(kv) ==
    <<Tags.version>> \o encode_varint(kv.version)
        \o <<Tags.value>> \o encode_overlong(Len(kv.value), LenGroups) \o kv.value
        \o <<Tags.lease>> \o encode_varint(kv.lease)

(* Joining cells is associative and adds lengths.                           *)
LEMMA CellsJoin ==
    /\ \A a, b \in Seq(Nat) : a \o b \in Seq(Nat) /\ Len(a \o b) = Len(a) + Len(b)
    /\ \A a, b, d \in Seq(Nat) : (a \o b) \o d = a \o (b \o d)
<1>1. ASSUME NEW a \in Seq(Nat), NEW b \in Seq(Nat), NEW d \in Seq(Nat)
      PROVE  (a \o b) \o d = a \o (b \o d)
  BY ConcatAssociative, SMTT(40)
<1> QED
  BY <1>1

(* Encoded numbers are cells.                                               *)
LEMMA NumberCells ==
    ASSUME NEW kv \in KeyValues
    PROVE  /\ encode_varint(kv.create_revision) \in Seq(Nat)
           /\ encode_varint(kv.version) \in Seq(Nat)
           /\ encode_varint(kv.lease) \in Seq(Nat)
           /\ encode_overlong(Len(kv.key), LenGroups) \in Seq(Nat)
           /\ encode_overlong(Len(kv.value), LenGroups) \in Seq(Nat)
<1>1. \A x : Fits(x, RevGroups) => encode_varint(x) \in Seq(Nat)
  <2> SUFFICES ASSUME NEW x, Fits(x, RevGroups) PROVE encode_varint(x) \in Seq(Nat)
    OBVIOUS
  <2>1. PICK n \in 1 .. RevGroups : encode_varint(x) = encode_overlong(x, n)
    BY VarintIsOverlong
  <2>2. x \in Nat
    BY DEF Fits
  <2> QED
    BY <2>1, <2>2, OverlongCells
<1>2. \A x : Fits(x, LenGroups) => encode_overlong(x, LenGroups) \in Seq(Nat)
  BY GroupNumbers, OverlongCells DEF Fits
<1> QED
  BY <1>1, <1>2, KeyValueTypes

(* Only the fixed width revision differs when the revision does.            *)
LEMMA BlobParts ==
    ASSUME NEW kv \in KeyValues, NEW rev \in Nat
    PROVE  /\ RestOf(kv) \in Seq(Nat)
           /\ encode_kv([kv EXCEPT !.mod_revision = rev]).bytes
                 = (UptoMod(kv) \o encode_overlong(rev, RevGroups)) \o RestOf(kv)
<1> DEFINE kw == [kv EXCEPT !.mod_revision = rev]
           mr == encode_overlong(rev, RevGroups)
<1>1. /\ kw.key = kv.key /\ kw.value = kv.value /\ kw.mod_revision = rev
      /\ kw.create_revision = kv.create_revision /\ kw.version = kv.version
      /\ kw.lease = kv.lease
  BY DEF KeyValues
<1> HIDE DEF kw
<1>2. encode_kv(kw).bytes = UptoMod(kv) \o mr
             \o <<Tags.version>> \o encode_varint(kv.version)
             \o <<Tags.value>> \o encode_overlong(Len(kv.value), LenGroups) \o kv.value
             \o <<Tags.lease>> \o encode_varint(kv.lease)
  BY <1>1 DEF encode_kv, UptoMod
<1>3. UptoMod(kv) \in Seq(Nat)
  BY BlobLayout
<1>4. mr \in Seq(Nat)
  BY GroupNumbers, OverlongCells
<1> DEFINE a == UptoMod(kv) \o mr
           ve == encode_varint(kv.version)
           vl == encode_overlong(Len(kv.value), LenGroups)
           x == kv.value
           le == encode_varint(kv.lease)
<1>5. a \in Seq(Nat)
  BY <1>3, <1>4, CellsJoin
<1>6. ve \in Seq(Nat) /\ vl \in Seq(Nat) /\ x \in Seq(Nat) /\ le \in Seq(Nat)
  BY NumberCells, KeyValueTypes
<1>7. /\ RestOf(kv) = <<Tags.version>> \o ve \o <<Tags.value>> \o vl \o x \o <<Tags.lease>> \o le
      /\ encode_kv(kw).bytes
            = a \o <<Tags.version>> \o ve \o <<Tags.value>> \o vl \o x \o <<Tags.lease>> \o le
  BY <1>2, Zenon DEF RestOf
<1>8. a = UptoMod(kv) \o mr
  OBVIOUS
<1> HIDE DEF a, ve, vl, x, le
<1>9. RestOf(kv) \in Seq(Nat) /\ encode_kv(kw).bytes = a \o RestOf(kv)
  <2> DEFINE g1 == <<Tags.version>>
             g2 == <<Tags.value>>
             g3 == <<Tags.lease>>
  <2>1. g1 \in Seq(Nat) /\ g2 \in Seq(Nat) /\ g3 \in Seq(Nat)
    BY TagCells
  <2>2. /\ RestOf(kv) = g1 \o ve \o g2 \o vl \o x \o g3 \o le
        /\ encode_kv(kw).bytes = a \o g1 \o ve \o g2 \o vl \o x \o g3 \o le
    BY <1>7
  <2> HIDE DEF g1, g2, g3
  <2> DEFINE t2 == g1 \o ve
             t3 == t2 \o g2
             t4 == t3 \o vl
             t5 == t4 \o x
             t6 == t5 \o g3
             t7 == t6 \o le
  <2> HIDE DEF t2, t3, t4, t5, t6, t7
  <2>3. t2 \in Seq(Nat) /\ (a \o g1) \o ve = a \o t2
    <3>1. g1 \in Seq(Nat) /\ ve \in Seq(Nat)
      BY <1>6, <2>1
    <3> QED
      BY ONLY <1>5, <3>1, CellsJoin, Zenon DEF t2
  <2>4. t3 \in Seq(Nat) /\ (a \o t2) \o g2 = a \o t3
    BY ONLY <1>5, <2>1, <2>3, CellsJoin, Zenon DEF t3
  <2>5. t4 \in Seq(Nat) /\ (a \o t3) \o vl = a \o t4
    BY ONLY <1>5, <1>6, <2>4, CellsJoin, ZenonT(60) DEF t4
  <2>6. t5 \in Seq(Nat) /\ (a \o t4) \o x = a \o t5
    BY ONLY <1>5, <1>6, <2>5, CellsJoin, ZenonT(60) DEF t5
  <2>7. t6 \in Seq(Nat) /\ (a \o t5) \o g3 = a \o t6
    BY ONLY <1>5, <2>1, <2>6, CellsJoin, ZenonT(60) DEF t6
  <2>8. t7 \in Seq(Nat) /\ (a \o t6) \o le = a \o t7
    BY ONLY <1>5, <1>6, <2>7, CellsJoin, ZenonT(60) DEF t7
  <2>9. encode_kv(kw).bytes = a \o t7
    BY <2>2, <2>3, <2>4, <2>5, <2>6, <2>7, <2>8, Zenon
  <2>10. RestOf(kv) = t7
    BY <2>2, Zenon DEF t2, t3, t4, t5, t6, t7
  <2> QED
    BY <2>8, <2>9, <2>10, Zenon
<1> QED
  BY <1>8, <1>9 DEF kw

(* The length of an overlong number that is there is found as written.      *)
LEMMA VarintLenAt ==
    ASSUME NEW whole \in Seq(Nat), NEW p \in Nat, NEW k \in 1 .. RevGroups, NEW v \in Nat,
           HasAt(whole, p, encode_overlong(v, k))
    PROVE  VarintLen(DropCells(whole, p)) = k
<1> DEFINE e == encode_overlong(v, k)
           d == DropCells(whole, p)
           n == Len(whole)
<1>1. k \in Nat /\ n \in Nat /\ RevGroups \in Nat
  BY CodecAssumption
<1>2. /\ e \in Seq(Nat) /\ Len(e) = k
      /\ \A i \in 1 .. (k - 1) : ~(e[i] < GroupBase)
      /\ e[k] < GroupBase
  BY <1>1, OverlongCells
<1>3. p + k <= n /\ \A j \in 1 .. k : whole[p + j] = e[j]
  BY <1>2 DEF HasAt
<1>4. p \in 0 .. n
  BY <1>1, <1>3
<1>5. /\ d \in Seq(Nat) /\ Len(d) = n - p
      /\ \A j \in 1 .. (n - p) : d[j] = whole[p + j]
  BY <1>4, DropDef
<1> HIDE DEF e, d, n
<1>6. k \in 1 .. Len(d) /\ \A i \in 1 .. k : i \in 1 .. (n - p)
  BY <1>1, <1>3, <1>4, <1>5
<1>7. \A i \in 1 .. k : d[i] = e[i]
  BY <1>3, <1>5, <1>6
<1>8. d[k] < GroupBase /\ \A i \in 1 .. (k - 1) : ~(d[i] < GroupBase)
  BY <1>1, <1>2, <1>7
<1> QED
  BY <1>5, <1>6, <1>8, VarintLenIs DEF d

(* mod_revision_field_offset finds the revision behind the fields before    *)
(* it.                                                                      *)
LEMMA OffsetFound ==
    ASSUME NEW kv \in KeyValues, NEW w, NEW c \in 1 .. RevGroups, NEW v, NEW l,
           Layout(kv, w, c, v, l)
    PROVE  mod_revision_field_offset(w) = ModAt(kv, c)
<1> DEFINE kl == encode_overlong(Len(kv.key), LenGroups)
           i == 1 + LenGroups + Len(kv.key) + 1
<1>1. /\ w \in Seq(Nat) /\ HasAt(w, 1, kl)
      /\ HasAt(w, i, encode_overlong(kv.create_revision, c))
  BY DEF Layout
<1>2. Len(kv.key) \in Nat /\ kv.create_revision \in Nat /\ Fits(Len(kv.key), LenGroups)
  BY KeyValueTypes DEF Fits
<1>3. kl \in Seq(Nat) /\ Len(kl) = LenGroups
  BY <1>2, GroupNumbers, OverlongCells
<1>4. GroupsValue(kl) = Len(kv.key)
  BY <1>2, GroupNumbers, OverlongValue
<1>5. Cells(w, 1, LenGroups) = kl
  <2> HIDE DEF kl
  <2>1. SubSeq(w, 1 + 1, 1 + Len(kl)) = kl
    BY <1>1, <1>3, PieceDef
  <2> QED
    BY <1>3, <2>1 DEF Cells
<1>6. i \in Nat /\ c \in Nat
  <2>1. \A x \in Nat : 1 + LenGroups + x + 1 \in Nat
    BY GroupNumbers
  <2>2. c \in Nat
    BY GroupNumbers
  <2> QED
    BY <1>2, <2>1, <2>2
<1>7. VarintLen(DropCells(w, i)) = c
  BY <1>1, <1>2, <1>6, VarintLenAt
<1>8. mod_revision_field_offset(w) = i + (c - 1) + 2
  <2> HIDE DEF kl
  <2> QED
    BY <1>4, <1>5, <1>7 DEF mod_revision_field_offset
<1> QED
  BY <1>2, <1>6, <1>8, GroupNumbers DEF ModAt

(* The cells of two joined sequences, one by one.                           *)
LEMMA CellAt ==
    \A a, b \in Seq(Nat) :
        /\ a \o b \in Seq(Nat) /\ Len(a \o b) = Len(a) + Len(b)
        /\ \A i \in 1 .. (Len(a) + Len(b)) :
              (a \o b)[i] = IF i <= Len(a) THEN a[i] ELSE b[i - Len(a)]
<1> SUFFICES ASSUME NEW a \in Seq(Nat), NEW b \in Seq(Nat)
             PROVE  /\ a \o b \in Seq(Nat) /\ Len(a \o b) = Len(a) + Len(b)
                    /\ \A i \in 1 .. (Len(a) + Len(b)) :
                          (a \o b)[i] = IF i <= Len(a) THEN a[i] ELSE b[i - Len(a)]
  OBVIOUS
<1>1. Len(a) \in Nat /\ Len(b) \in Nat
  OBVIOUS
<1>2. /\ a \o b \in Seq(Nat) /\ Len(a \o b) = Len(a) + Len(b)
      /\ \A i \in 1 .. Len(a) : (a \o b)[i] = a[i]
      /\ \A i \in 1 .. Len(b) : (a \o b)[Len(a) + i] = b[i]
  OBVIOUS
<1> DEFINE ab == a \o b
           p == Len(a)
           n == Len(b)
<1> HIDE DEF ab, p, n
<1>3. ASSUME NEW i \in 1 .. (p + n) PROVE ab[i] = IF i <= p THEN a[i] ELSE b[i - p]
  <2>1. CASE i <= p
    BY <1>1, <1>2, <2>1 DEF ab, p, n
  <2>2. CASE ~(i <= p)
    <3>1. i - p \in 1 .. n /\ p + (i - p) = i
      BY <1>1, <2>2 DEF p, n
    <3>2. ab[p + (i - p)] = b[i - p]
      BY <1>2, <3>1 DEF ab, p, n
    <3> QED
      BY <2>2, <3>1, <3>2
  <2> QED
    BY <2>1, <2>2
<1> QED
  BY <1>2, <1>3 DEF ab, p, n

(* Overwriting the middle of three parts.                                   *)
Overwritten(buf, p, m) ==
    [i \in DOMAIN buf |-> IF i \in (p + 1) .. (p + Len(m)) THEN m[i - p] ELSE buf[i]]

(* Overwriting a middle part by one as long replaces that part.             *)
LEMMA MiddleReplaced ==
    ASSUME NEW a \in Seq(Nat), NEW m1 \in Seq(Nat), NEW m2 \in Seq(Nat), NEW t \in Seq(Nat),
           Len(m1) = Len(m2)
    PROVE  Overwritten((a \o m1) \o t, Len(a), m2) = (a \o m2) \o t
<1> DEFINE p == Len(a)
           n == Len(m2)
           z == Len(t)
<1>0. p \in Nat /\ n \in Nat /\ z \in Nat /\ p = Len(a) /\ n = Len(m1) /\ n = Len(m2)
      /\ z = Len(t)
  OBVIOUS
<1> HIDE DEF p, n, z
<1> DEFINE b1 == (a \o m1) \o t
           b2 == (a \o m2) \o t
           g == [i \in DOMAIN b1 |-> IF i \in (p + 1) .. (p + n) THEN m2[i - p] ELSE b1[i]]
<1>1. p \in Nat /\ n \in Nat /\ z \in Nat
  BY <1>0
<1>2. \A m \in Seq(Nat) : Len(m) = n =>
        /\ (a \o m) \o t \in Seq(Nat) /\ DOMAIN ((a \o m) \o t) = 1 .. (p + n + z)
        /\ \A i \in 1 .. (p + n + z) :
              ((a \o m) \o t)[i] = IF i <= p THEN a[i]
                                   ELSE IF i <= p + n THEN m[i - p] ELSE t[i - (p + n)]
  <2> SUFFICES ASSUME NEW m \in Seq(Nat), Len(m) = n
               PROVE  /\ (a \o m) \o t \in Seq(Nat)
                      /\ DOMAIN ((a \o m) \o t) = 1 .. (p + n + z)
                      /\ \A i \in 1 .. (p + n + z) :
                           ((a \o m) \o t)[i] = IF i <= p THEN a[i]
                              ELSE IF i <= p + n THEN m[i - p] ELSE t[i - (p + n)]
    OBVIOUS
  <2> DEFINE am == a \o m
  <2>1. am \in Seq(Nat) /\ Len(am) = p + n
        /\ \A i \in 1 .. (p + n) : am[i] = IF i <= p THEN a[i] ELSE m[i - p]
    <3>1. /\ am \in Seq(Nat) /\ Len(am) = Len(a) + Len(m)
          /\ \A i \in 1 .. (Len(a) + Len(m)) :
                am[i] = IF i <= Len(a) THEN a[i] ELSE m[i - Len(a)]
      BY CellAt, Zenon
    <3> HIDE DEF am
    <3> QED
      BY <1>0, <3>1, Zenon
  <2> HIDE DEF am
  <2>2. am \o t \in Seq(Nat) /\ Len(am \o t) = p + n + z
        /\ \A i \in 1 .. (p + n + z) :
              (am \o t)[i] = IF i <= p + n THEN am[i] ELSE t[i - (p + n)]
    <3>1. /\ am \o t \in Seq(Nat) /\ Len(am \o t) = Len(am) + Len(t)
          /\ \A i \in 1 .. (Len(am) + Len(t)) :
                (am \o t)[i] = IF i <= Len(am) THEN am[i] ELSE t[i - Len(am)]
      BY <2>1, CellAt, Zenon
    <3> QED
      BY <1>0, <2>1, <3>1, Zenon
  <2>3. DOMAIN (am \o t) = 1 .. (p + n + z)
    BY <2>2
  <2>4. ASSUME NEW i \in 1 .. (p + n + z)
        PROVE  (am \o t)[i] = IF i <= p THEN a[i]
                              ELSE IF i <= p + n THEN m[i - p] ELSE t[i - (p + n)]
    <3>1. i <= p => i \in 1 .. (p + n)
      BY <1>1
    <3>2. i <= p + n => i \in 1 .. (p + n)
      BY <1>1
    <3>3. i <= p => i <= p + n
      BY <1>1
    <3> QED
      BY <2>1, <2>2, <3>1, <3>2, <3>3
  <2> QED
    BY <2>2, <2>3, <2>4 DEF am
<1>3. /\ DOMAIN b1 = 1 .. (p + n + z)
      /\ \A i \in 1 .. (p + n + z) :
            b1[i] = IF i <= p THEN a[i] ELSE IF i <= p + n THEN m1[i - p] ELSE t[i - (p + n)]
  BY <1>0, <1>2
<1>4. /\ b2 \in Seq(Nat) /\ DOMAIN b2 = 1 .. (p + n + z)
      /\ \A i \in 1 .. (p + n + z) :
            b2[i] = IF i <= p THEN a[i] ELSE IF i <= p + n THEN m2[i - p] ELSE t[i - (p + n)]
  BY <1>0, <1>2
<1>5. b2 = [i \in 1 .. (p + n + z) |-> b2[i]]
  <2> HIDE DEF b2
  <2> QED
    BY <1>4
<1> HIDE DEF b1, b2
<1>6. \A i \in 1 .. (p + n + z) : g[i] = b2[i]
  <2> SUFFICES ASSUME NEW i \in 1 .. (p + n + z) PROVE g[i] = b2[i]
    OBVIOUS
  <2>1. g[i] = IF i \in (p + 1) .. (p + n) THEN m2[i - p] ELSE b1[i]
    BY <1>3
  <2>2. i \in (p + 1) .. (p + n) <=> ~(i <= p) /\ i <= p + n
    BY <1>1
  <2> QED
    BY <1>3, <1>4, <2>1, <2>2
<1>7. g = [i \in 1 .. (p + n + z) |-> g[i]]
  BY <1>3
<1>8. g = b2
  <2> HIDE DEF g
  <2> QED
    BY <1>5, <1>6, <1>7
<1> QED
  BY <1>0, <1>8, Zenon DEF b1, b2, Overwritten

(* with_mod_revision gives what encoding with that revision gives.          *)
LEMMA Patched ==
    ASSUME NEW kv \in KeyValues, NEW rev \in Nat
    PROVE  with_mod_revision(encode_kv(kv).bytes, rev)
              = encode_kv([kv EXCEPT !.mod_revision = rev]).bytes
<1> DEFINE w == encode_kv(kv).bytes
           m1 == encode_overlong(kv.mod_revision, RevGroups)
           m2 == encode_overlong(rev, RevGroups)
<1>1. PICK c, v, l \in 1 .. RevGroups :
        Layout(kv, w, c, v, l) /\ UptoMod(kv) \in Seq(Nat) /\ Len(UptoMod(kv)) = ModAt(kv, c)
  BY BlobLayout
<1>2. kv.mod_revision \in Nat
  BY KeyValueTypes DEF Fits
<1>3. [kv EXCEPT !.mod_revision = kv.mod_revision] = kv
  BY DEF KeyValues
<1>4. RestOf(kv) \in Seq(Nat) /\ w = (UptoMod(kv) \o m1) \o RestOf(kv)
  BY <1>2, <1>3, BlobParts
<1>5. encode_kv([kv EXCEPT !.mod_revision = rev]).bytes = (UptoMod(kv) \o m2) \o RestOf(kv)
  BY BlobParts
<1>6. m1 \in Seq(Nat) /\ m2 \in Seq(Nat) /\ Len(m1) = RevGroups /\ Len(m2) = RevGroups
  BY <1>2, GroupNumbers, OverlongCells
<1> HIDE DEF w, m1
<1>7. mod_revision_field_offset(w) = Len(UptoMod(kv))
  BY <1>1, OffsetFound
<1>8. with_mod_revision(w, rev) = (UptoMod(kv) \o m2) \o RestOf(kv)
  <2> DEFINE a == UptoMod(kv)
             t == RestOf(kv)
  <2>1. with_mod_revision(w, rev) = Overwritten(w, Len(a), m2)
    BY <1>6, <1>7 DEF with_mod_revision, Overwritten
  <2>2. a \in Seq(Nat) /\ t \in Seq(Nat) /\ w = (a \o m1) \o t
    BY <1>1, <1>4
  <2>3. m1 \in Seq(Nat) /\ m2 \in Seq(Nat) /\ Len(m1) = Len(m2)
    BY <1>6
  <2> HIDE DEF m2, a, t
  <2>4. Overwritten((a \o m1) \o t, Len(a), m2) = (a \o m2) \o t
    BY ONLY <2>2, <2>3, MiddleReplaced, ZenonT(60)
  <2> QED
    BY <2>1, <2>2, <2>4, Zenon DEF a, t
<1> QED
  BY <1>5, <1>8 DEF w

-----------------------------------------------------------------------------
(* The readers of a blob.                                                   *)
Fields(kv) == <<kv.key, kv.create_revision, kv.mod_revision, kv.version, kv.value>>

(* Five fields read one after the other.                                    *)
LEMMA GotFields ==
    ASSUME NEW x1, NEW x2, NEW x3, NEW x4, NEW x5
    PROVE  Append(Append(Append(Append(Append(<<>>, x1), x2), x3), x4), x5)
              = <<x1, x2, x3, x4, x5>>
<1> DEFINE E == {x1, x2, x3, x4, x5}
<1>1. Append(<<>>, x1) = <<x1>>
  OBVIOUS
<1>2. Append(<<x1>>, x2) = <<x1, x2>>
  <2>1. <<x1>> \in Seq(E) /\ Len(<<x1>>) = 1 /\ x2 \in E
    OBVIOUS
  <2>2. <<x1, x2>> \in Seq(E) /\ Len(<<x1, x2>>) = 2
    OBVIOUS
  <2>3. /\ Append(<<x1>>, x2) \in Seq(E) /\ Len(Append(<<x1>>, x2)) = 2
        /\ \A i \in 1 .. 2 : Append(<<x1>>, x2)[i] = <<x1, x2>>[i]
    BY <2>1
  <2> QED
    BY <2>2, <2>3, SeqEqual, Zenon
<1>3. Append(<<x1, x2>>, x3) = <<x1, x2, x3>>
  <2>1. <<x1, x2>> \in Seq(E) /\ Len(<<x1, x2>>) = 2 /\ x3 \in E
    OBVIOUS
  <2>2. <<x1, x2, x3>> \in Seq(E) /\ Len(<<x1, x2, x3>>) = 3
    OBVIOUS
  <2>3. /\ Append(<<x1, x2>>, x3) \in Seq(E) /\ Len(Append(<<x1, x2>>, x3)) = 3
        /\ \A i \in 1 .. 3 : Append(<<x1, x2>>, x3)[i] = <<x1, x2, x3>>[i]
    BY <2>1
  <2> QED
    BY <2>2, <2>3, SeqEqual, Zenon
<1>4. Append(<<x1, x2, x3>>, x4) = <<x1, x2, x3, x4>>
  <2>1. <<x1, x2, x3>> \in Seq(E) /\ Len(<<x1, x2, x3>>) = 3 /\ x4 \in E
    OBVIOUS
  <2>2. <<x1, x2, x3, x4>> \in Seq(E) /\ Len(<<x1, x2, x3, x4>>) = 4
    OBVIOUS
  <2>3. /\ Append(<<x1, x2, x3>>, x4) \in Seq(E) /\ Len(Append(<<x1, x2, x3>>, x4)) = 4
        /\ \A i \in 1 .. 4 : Append(<<x1, x2, x3>>, x4)[i] = <<x1, x2, x3, x4>>[i]
    BY <2>1
  <2> QED
    BY <2>2, <2>3, SeqEqual, Zenon
<1>5. Append(<<x1, x2, x3, x4>>, x5) = <<x1, x2, x3, x4, x5>>
  <2>1. <<x1, x2, x3, x4>> \in Seq(E) /\ Len(<<x1, x2, x3, x4>>) = 4 /\ x5 \in E
    OBVIOUS
  <2>2. <<x1, x2, x3, x4, x5>> \in Seq(E) /\ Len(<<x1, x2, x3, x4, x5>>) = 5
    OBVIOUS
  <2>3. /\ Append(<<x1, x2, x3, x4>>, x5) \in Seq(E) /\ Len(Append(<<x1, x2, x3, x4>>, x5)) = 5
        /\ \A i \in 1 .. 5 : Append(<<x1, x2, x3, x4>>, x5)[i] = <<x1, x2, x3, x4, x5>>[i]
    BY <2>1
  <2> QED
    BY <2>2, <2>3, SeqEqual, Zenon
<1> QED
  BY <1>1, <1>2, <1>3, <1>4, <1>5, Zenon

(* parse_kv on the first n cells of a blob, and the protobuf decoder on all.*)
LEMMA BlobReads ==
    ASSUME NEW kv \in KeyValues, NEW w, NEW c \in 1 .. RevGroups, NEW v \in 1 .. RevGroups,
           NEW l \in 1 .. RevGroups, Layout(kv, w, c, v, l), NEW n \in 0 .. Len(w)
    PROVE  /\ parse_kv(SubSeq(w, 1, n))
                 = IF n >= Len(w) - (1 + l) THEN <<Fields(kv)>> ELSE <<>>
           /\ n = Len(w) =>
                 KeyValueDecode(SubSeq(w, 1, n)) = <<Append(Fields(kv), kv.lease)>>
<1> DEFINE k == kv.key
           x == kv.value
           kn == Len(k)
           xn == Len(x)
           cr == kv.create_revision
           mr == kv.mod_revision
           ve == kv.version
           le == kv.lease
           E == Nat \cup Seq(Nat)
<1>1. /\ k \in Seq(Nat) /\ x \in Seq(Nat) /\ kn \in Nat /\ xn \in Nat
      /\ Fits(kn, LenGroups) /\ Fits(xn, LenGroups) /\ Fits(mr, RevGroups)
      /\ Fits(cr, c) /\ Fits(ve, v) /\ Fits(le, l)
      /\ cr \in Nat /\ mr \in Nat /\ ve \in Nat /\ le \in Nat
  BY KeyValueTypes DEF Layout, Fits
<1>2. /\ LenGroups \in 1 .. RevGroups /\ RevGroups \in 1 .. RevGroups
      /\ LenGroups \in Nat /\ RevGroups \in Nat
      /\ c \in Nat /\ v \in Nat /\ l \in Nat /\ 1 \in Nat /\ 0 \in Nat
  BY GroupNumbers
<1> DEFINE p1 == 0 + 1
           p2 == p1 + LenGroups
           p3 == p2 + kn
           p4 == p3 + 1
           p5 == p4 + c
           p6 == p5 + 1
           p7 == p6 + RevGroups
           p8 == p7 + 1
           p9 == p8 + v
           p10 == p9 + 1
           p11 == p10 + LenGroups
           p12 == p11 + xn
           p13 == p12 + 1
           p14 == p13 + l
<1>3. /\ w \in Seq(Nat) /\ Len(w) = p14
      /\ HasAt(w, p1, encode_overlong(kn, LenGroups)) /\ HasAt(w, p2, k)
      /\ HasAt(w, p4, encode_overlong(cr, c)) /\ HasAt(w, p6, encode_overlong(mr, RevGroups))
      /\ HasAt(w, p8, encode_overlong(ve, v)) /\ HasAt(w, p10, encode_overlong(xn, LenGroups))
      /\ HasAt(w, p11, x) /\ HasAt(w, p13, encode_overlong(le, l))
  <2>1. p1 = 1
    OBVIOUS
  <2> HIDE DEF k, x
  <2> QED
    BY <1>1, <1>2, <2>1 DEF Layout, ModAt, ValueAt, k, x
<1> HIDE DEF kn, xn, cr, mr, ve, le, p1, p2, p3, p4, p5, p6, p7, p8, p9, p10, p11, p12, p13, p14
<1>4. /\ p1 \in Nat /\ p2 \in Nat /\ p3 \in Nat /\ p4 \in Nat /\ p5 \in Nat /\ p6 \in Nat
      /\ p7 \in Nat /\ p8 \in Nat /\ p9 \in Nat /\ p10 \in Nat /\ p11 \in Nat /\ p12 \in Nat
      /\ p13 \in Nat /\ p14 \in Nat /\ p14 = p12 + (1 + l)
  <2>1. p1 \in Nat
    BY DEF p1
  <2>2. p2 \in Nat
    BY <1>1, <1>2, <2>1 DEF p2
  <2>3. p3 \in Nat
    BY <1>1, <1>2, <2>2 DEF p3
  <2>4. p4 \in Nat
    BY <1>1, <1>2, <2>3 DEF p4
  <2>5. p5 \in Nat
    BY <1>1, <1>2, <2>4 DEF p5
  <2>6. p6 \in Nat
    BY <1>1, <1>2, <2>5 DEF p6
  <2>7. p7 \in Nat
    BY <1>1, <1>2, <2>6 DEF p7
  <2>8. p8 \in Nat
    BY <1>1, <1>2, <2>7 DEF p8
  <2>9. p9 \in Nat
    BY <1>1, <1>2, <2>8 DEF p9
  <2>10. p10 \in Nat
    BY <1>1, <1>2, <2>9 DEF p10
  <2>11. p11 \in Nat
    BY <1>1, <1>2, <2>10 DEF p11
  <2>12. p12 \in Nat
    BY <1>1, <1>2, <2>11 DEF p12
  <2>13. p13 \in Nat
    BY <1>1, <1>2, <2>12 DEF p13
  <2>14. p14 \in Nat
    BY <1>1, <1>2, <2>13 DEF p14
  <2>15. p14 = p12 + (1 + l)
    BY <1>2, <2>12 DEF p13, p14
  <2> QED
    BY <2>1, <2>2, <2>3, <2>4, <2>5, <2>6, <2>7, <2>8, <2>9, <2>10, <2>11, <2>12, <2>13,
       <2>14, <2>15
<1> DEFINE g1 == Append(<<>>, k)
           g2 == Append(g1, cr)
           g3 == Append(g2, mr)
           g4 == Append(g3, ve)
           g5 == Append(g4, x)
<1>5. <<>> \in Seq(E) /\ g4 \in Seq(E)
  <2>1. k \in E /\ cr \in E /\ mr \in E /\ ve \in E
    BY <1>1
  <2> HIDE DEF E, k
  <2>2. \A s \in Seq(E), y \in E : Append(s, y) \in Seq(E)
    OBVIOUS
  <2>3. <<>> \in Seq(E)
    OBVIOUS
  <2> QED
    BY <2>1, <2>2, <2>3, Zenon
<1>6. g5 = Fields(kv) /\ Append(g5, le) = Append(Fields(kv), kv.lease)
  <2>1. g5 = <<k, cr, mr, ve, x>>
    BY GotFields, SMTT(40)
  <2> HIDE DEF g5
  <2> QED
    BY <2>1, Zenon DEF Fields, k, x, cr, mr, ve, le
<1>7. n \in Nat /\ w \in Seq(Nat) /\ Len(w) = p14 /\ n \in 0 .. Len(w)
  BY <1>3
<1> HIDE DEF g1, g2, g3, g4, g5, k, x, E
<1> DEFINE c0 == Cursor(SubSeq(w, 1, n))
           c1 == Skip(c0, 1)
           c2 == Overlong(c1, LenGroups)
           c3 == TakeBytes(c2)
           c4 == Skip(c3, 1)
           c5 == Varint(c4)
           c6 == Skip(c5, 1)
           c7 == Overlong(c6, RevGroups)
           c8 == Skip(c7, 1)
           c9 == Varint(c8)
           c10 == Skip(c9, 1)
           c11 == Overlong(c10, LenGroups)
           c12 == TakeBytes(c11)
<1>8. parse_kv(SubSeq(w, 1, n)) = IF c12.ok THEN <<c12.got>> ELSE <<>>
  BY DEF parse_kv
<1> HIDE DEF c0, c1, c2, c3, c4, c5, c6, c7, c8, c9, c10, c11, c12
<1>9. Reads(c0, w, n, 0, <<>>)
  BY <1>7, CursorReads DEF c0
<1>10. Reads(c1, w, n, p1, <<>>)
  <2>1. 0 \in Nat /\ 1 \in Nat
    BY <1>4
  <2> QED
    BY ONLY <1>7, <1>9, <2>1, SkipReads, Zenon DEF c1, p1
<1>11. Reads(c2, w, n, p2, Append(<<>>, kn))
  <2>1. /\ p1 \in Nat /\ LenGroups \in 1 .. RevGroups /\ Fits(kn, LenGroups)
        /\ HasAt(w, p1, encode_overlong(kn, LenGroups))
    BY <1>1, <1>2, <1>3, <1>4
  <2> QED
    BY ONLY <1>7, <1>10, <2>1, OverlongReads, Zenon DEF c2, p2
<1>12. Reads(c3, w, n, p3, g1)
  <2>1. p2 \in Nat /\ k \in Seq(Nat) /\ HasAt(w, p2, k) /\ <<>> \in Seq(E)
    BY <1>1, <1>3, <1>4, <1>5
  <2> QED
    BY ONLY <1>7, <1>11, <2>1, TakeReads, Zenon DEF c3, p3, g1, kn
<1>13. Reads(c4, w, n, p4, g1)
  <2>1. p3 \in Nat /\ 1 \in Nat
    BY <1>4
  <2> QED
    BY ONLY <1>7, <1>12, <2>1, SkipReads, Zenon DEF c4, p4
<1>14. Reads(c5, w, n, p5, g2)
  <2>1. /\ p4 \in Nat /\ c \in 1 .. RevGroups /\ Fits(cr, c)
        /\ HasAt(w, p4, encode_overlong(cr, c))
    BY <1>1, <1>2, <1>3, <1>4
  <2> QED
    BY ONLY <1>7, <1>13, <2>1, VarintReads, Zenon DEF c5, p5, g2
<1>15. Reads(c6, w, n, p6, g2)
  <2>1. p5 \in Nat /\ 1 \in Nat
    BY <1>4
  <2> QED
    BY ONLY <1>7, <1>14, <2>1, SkipReads, Zenon DEF c6, p6
<1>16. Reads(c7, w, n, p7, g3)
  <2>1. /\ p6 \in Nat /\ RevGroups \in 1 .. RevGroups /\ Fits(mr, RevGroups)
        /\ HasAt(w, p6, encode_overlong(mr, RevGroups))
    BY <1>1, <1>2, <1>3, <1>4
  <2> QED
    BY ONLY <1>7, <1>15, <2>1, OverlongReads, Zenon DEF c7, p7, g3
<1>17. Reads(c8, w, n, p8, g3)
  <2>1. p7 \in Nat /\ 1 \in Nat
    BY <1>4
  <2> QED
    BY ONLY <1>7, <1>16, <2>1, SkipReads, Zenon DEF c8, p8
<1>18. Reads(c9, w, n, p9, g4)
  <2>1. /\ p8 \in Nat /\ v \in 1 .. RevGroups /\ Fits(ve, v)
        /\ HasAt(w, p8, encode_overlong(ve, v))
    BY <1>1, <1>2, <1>3, <1>4
  <2> QED
    BY ONLY <1>7, <1>17, <2>1, VarintReads, Zenon DEF c9, p9, g4
<1>19. Reads(c10, w, n, p10, g4)
  <2>1. p9 \in Nat /\ 1 \in Nat
    BY <1>4
  <2> QED
    BY ONLY <1>7, <1>18, <2>1, SkipReads, Zenon DEF c10, p10
<1>20. Reads(c11, w, n, p11, Append(g4, xn))
  <2>1. /\ p10 \in Nat /\ LenGroups \in 1 .. RevGroups /\ Fits(xn, LenGroups)
        /\ HasAt(w, p10, encode_overlong(xn, LenGroups))
    BY <1>1, <1>2, <1>3, <1>4
  <2> QED
    BY ONLY <1>7, <1>19, <2>1, OverlongReads, Zenon DEF c11, p11
<1>21. Reads(c12, w, n, p12, g5)
  <2>1. p11 \in Nat /\ x \in Seq(Nat) /\ HasAt(w, p11, x) /\ g4 \in Seq(E)
    BY <1>1, <1>3, <1>4, <1>5
  <2> QED
    BY ONLY <1>7, <1>20, <2>1, TakeReads, Zenon DEF c12, p12, g5, xn
<1>22. parse_kv(SubSeq(w, 1, n)) = IF n >= Len(w) - (1 + l) THEN <<g5>> ELSE <<>>
  <2>1. n >= Len(w) - (1 + l) <=> p12 <= n
    BY <1>2, <1>4, <1>7
  <2>2. CASE p12 <= n
    <3>1. c12 = [buf |-> SubSeq(w, 1, n), i |-> p12, ok |-> TRUE, got |-> g5]
      BY <1>21, <2>2 DEF Reads
    <3>2. c12.ok /\ c12.got = g5
      BY <3>1
    <3> QED
      BY <1>8, <2>1, <2>2, <3>2
  <2>3. CASE ~(p12 <= n)
    <3>1. c12 = [buf |-> c12.buf, i |-> c12.i, ok |-> FALSE, got |-> c12.got]
      BY <1>21, <2>3 DEF Reads
    <3>2. ~c12.ok
      BY <3>1
    <3> QED
      BY <1>8, <2>1, <2>3, <3>2
  <2> QED
    BY <2>2, <2>3
<1> DEFINE d0 == Cursor(SubSeq(w, 1, n))
           d1 == Skip(d0, 1)
           d2 == Varint(d1)
           d3 == TakeBytes(d2)
           d4 == Skip(d3, 1)
           d5 == Varint(d4)
           d6 == Skip(d5, 1)
           d7 == Varint(d6)
           d8 == Skip(d7, 1)
           d9 == Varint(d8)
           d10 == Skip(d9, 1)
           d11 == Varint(d10)
           d12 == TakeBytes(d11)
           d13 == Skip(d12, 1)
           d14 == Varint(d13)
<1>23. KeyValueDecode(SubSeq(w, 1, n)) = IF d14.ok THEN <<d14.got>> ELSE <<>>
  BY DEF KeyValueDecode
<1> HIDE DEF d0, d1, d2, d3, d4, d5, d6, d7, d8, d9, d10, d11, d12, d13, d14
<1>24. Reads(d0, w, n, 0, <<>>)
  BY <1>7, CursorReads DEF d0
<1>25. Reads(d1, w, n, p1, <<>>)
  <2>1. 0 \in Nat /\ 1 \in Nat
    BY <1>4
  <2> QED
    BY ONLY <1>7, <1>24, <2>1, SkipReads, Zenon DEF d1, p1
<1>26. Reads(d2, w, n, p2, Append(<<>>, kn))
  <2>1. /\ p1 \in Nat /\ LenGroups \in 1 .. RevGroups /\ Fits(kn, LenGroups)
        /\ HasAt(w, p1, encode_overlong(kn, LenGroups))
    BY <1>1, <1>2, <1>3, <1>4
  <2> QED
    BY ONLY <1>7, <1>25, <2>1, VarintReads, Zenon DEF d2, p2
<1>27. Reads(d3, w, n, p3, g1)
  <2>1. p2 \in Nat /\ k \in Seq(Nat) /\ HasAt(w, p2, k) /\ <<>> \in Seq(E)
    BY <1>1, <1>3, <1>4, <1>5
  <2> QED
    BY ONLY <1>7, <1>26, <2>1, TakeReads, Zenon DEF d3, p3, g1, kn
<1>28. Reads(d4, w, n, p4, g1)
  <2>1. p3 \in Nat /\ 1 \in Nat
    BY <1>4
  <2> QED
    BY ONLY <1>7, <1>27, <2>1, SkipReads, Zenon DEF d4, p4
<1>29. Reads(d5, w, n, p5, g2)
  <2>1. /\ p4 \in Nat /\ c \in 1 .. RevGroups /\ Fits(cr, c)
        /\ HasAt(w, p4, encode_overlong(cr, c))
    BY <1>1, <1>2, <1>3, <1>4
  <2> QED
    BY ONLY <1>7, <1>28, <2>1, VarintReads, Zenon DEF d5, p5, g2
<1>30. Reads(d6, w, n, p6, g2)
  <2>1. p5 \in Nat /\ 1 \in Nat
    BY <1>4
  <2> QED
    BY ONLY <1>7, <1>29, <2>1, SkipReads, Zenon DEF d6, p6
<1>31. Reads(d7, w, n, p7, g3)
  <2>1. /\ p6 \in Nat /\ RevGroups \in 1 .. RevGroups /\ Fits(mr, RevGroups)
        /\ HasAt(w, p6, encode_overlong(mr, RevGroups))
    BY <1>1, <1>2, <1>3, <1>4
  <2> QED
    BY ONLY <1>7, <1>30, <2>1, VarintReads, Zenon DEF d7, p7, g3
<1>32. Reads(d8, w, n, p8, g3)
  <2>1. p7 \in Nat /\ 1 \in Nat
    BY <1>4
  <2> QED
    BY ONLY <1>7, <1>31, <2>1, SkipReads, Zenon DEF d8, p8
<1>33. Reads(d9, w, n, p9, g4)
  <2>1. /\ p8 \in Nat /\ v \in 1 .. RevGroups /\ Fits(ve, v)
        /\ HasAt(w, p8, encode_overlong(ve, v))
    BY <1>1, <1>2, <1>3, <1>4
  <2> QED
    BY ONLY <1>7, <1>32, <2>1, VarintReads, Zenon DEF d9, p9, g4
<1>34. Reads(d10, w, n, p10, g4)
  <2>1. p9 \in Nat /\ 1 \in Nat
    BY <1>4
  <2> QED
    BY ONLY <1>7, <1>33, <2>1, SkipReads, Zenon DEF d10, p10
<1>35. Reads(d11, w, n, p11, Append(g4, xn))
  <2>1. /\ p10 \in Nat /\ LenGroups \in 1 .. RevGroups /\ Fits(xn, LenGroups)
        /\ HasAt(w, p10, encode_overlong(xn, LenGroups))
    BY <1>1, <1>2, <1>3, <1>4
  <2> QED
    BY ONLY <1>7, <1>34, <2>1, VarintReads, Zenon DEF d11, p11
<1>36. Reads(d12, w, n, p12, g5)
  <2>1. p11 \in Nat /\ x \in Seq(Nat) /\ HasAt(w, p11, x) /\ g4 \in Seq(E)
    BY <1>1, <1>3, <1>4, <1>5
  <2> QED
    BY ONLY <1>7, <1>35, <2>1, TakeReads, Zenon DEF d12, p12, g5, xn
<1>37. Reads(d13, w, n, p13, g5)
  <2>1. p12 \in Nat /\ 1 \in Nat
    BY <1>4
  <2> QED
    BY ONLY <1>7, <1>36, <2>1, SkipReads, Zenon DEF d13, p13
<1>38. Reads(d14, w, n, p14, Append(g5, le))
  <2>1. /\ p13 \in Nat /\ l \in 1 .. RevGroups /\ Fits(le, l)
        /\ HasAt(w, p13, encode_overlong(le, l))
    BY <1>1, <1>2, <1>3, <1>4
  <2> QED
    BY ONLY <1>7, <1>37, <2>1, VarintReads, Zenon DEF d14, p14
<1>39. ASSUME n = Len(w) PROVE KeyValueDecode(SubSeq(w, 1, n)) = <<Append(g5, le)>>
  <2>1. p14 <= n
    BY <1>4, <1>7, <1>39
  <2>2. d14 = [buf |-> SubSeq(w, 1, n), i |-> p14, ok |-> TRUE, got |-> Append(g5, le)]
    BY <1>38, <2>1 DEF Reads
  <2>3. d14.ok /\ d14.got = Append(g5, le)
    BY <2>2
  <2> QED
    BY <1>23, <2>3
<1> QED
  BY <1>6, <1>22, <1>39, Zenon

(* All of a sequence is the sequence.                                       *)
LEMMA WholeIsItself ==
    ASSUME NEW w \in Seq(Nat)
    PROVE  SubSeq(w, 1, Len(w)) = w
  OBVIOUS

(* read_key_from_kv gives the key if all of it is there.                    *)
LEMMA KeyRead ==
    ASSUME NEW kv \in KeyValues, NEW w, NEW c, NEW v, NEW l, Layout(kv, w, c, v, l),
           1 + LenGroups + Len(kv.key) <= Len(w)
    PROVE  read_key_from_kv(w, 1 % OffsetLimit) = <<kv.key>>
<1> DEFINE k == kv.key
           kn == Len(k)
           d == decode_varint(DropCells(w, 1))
<1>1. /\ w \in Seq(Nat) /\ HasAt(w, 1, encode_overlong(kn, LenGroups))
      /\ HasAt(w, 1 + LenGroups, k)
  BY DEF Layout
<1>2. k \in Seq(Nat) /\ kn \in Nat /\ Fits(kn, LenGroups)
  BY KeyValueTypes
<1>3. Len(w) \in Nat /\ LenGroups \in Nat /\ LenGroups > 0 /\ LenGroups \in 1 .. RevGroups
  BY <1>1, CodecAssumption
<1> DEFINE wn == Len(w)
<1>31. wn \in Nat /\ 1 + LenGroups + kn <= wn /\ wn = Len(w)
  BY <1>3
<1> HIDE DEF wn, kn
<1>32. 1 + LenGroups <= wn /\ 1 \in 0 .. wn /\ wn \in 0 .. wn /\ ~(1 >= wn)
       /\ ~((1 + LenGroups) + kn > wn)
  BY <1>2, <1>3, <1>31
<1>4. 1 % OffsetLimit = 1
  BY GroupNumbers
<1>5. d = <<<<kn, LenGroups>>>>
  <2>1. 1 + LenGroups <= Len(w) /\ 1 \in 0 .. Len(w) /\ Len(w) \in 0 .. Len(w)
    BY <1>31, <1>32
  <2>2. SubSeq(w, 1, Len(w)) = w
    BY <1>1, WholeIsItself
  <2>3. decode_varint(DropCells(SubSeq(w, 1, Len(w)), 1))
           = IF 1 + LenGroups <= Len(w) THEN <<<<kn, LenGroups>>>> ELSE <<>>
    BY <1>1, <1>2, <1>3, <2>1, DecodeVarintAt
  <2> QED
    BY <2>1, <2>2, <2>3
<1> HIDE DEF d
<1>6. d # <<>> /\ d[1][1] = kn /\ d[1][2] = LenGroups
  BY <1>5
<1>7. Cells(w, 1 + LenGroups, kn) = k
  <2>1. 1 + LenGroups \in Nat
    BY <1>3
  <2>2. SubSeq(w, (1 + LenGroups) + 1, (1 + LenGroups) + Len(k)) = k
    BY <1>1, <1>2, <2>1, PieceDef
  <2> QED
    BY <2>2 DEF Cells, kn
<1>8. read_key_from_kv(w, 1)
        = IF 1 >= Len(w) \/ d = <<>> THEN <<>>
          ELSE IF (1 + d[1][2]) + d[1][1] > Len(w) THEN <<>>
               ELSE <<Cells(w, 1 + d[1][2], d[1][1])>>
  BY Zenon DEF read_key_from_kv, d
<1>9. ~(1 >= Len(w)) /\ ~((1 + LenGroups) + kn > Len(w))
  BY <1>31, <1>32
<1> QED
  BY <1>4, <1>6, <1>7, <1>8, <1>9

(* read_mod_revision_from_kv gives the revision if the offset did not wrap. *)
LEMMA ModRead ==
    ASSUME NEW kv \in KeyValues, NEW w, NEW c \in 1 .. RevGroups, NEW v, NEW l,
           Layout(kv, w, c, v, l), ModAt(kv, c) + RevGroups <= Len(w),
           Len(kv.key) + LenGroups + RevGroups + 3 < OffsetLimit
    PROVE  read_mod_revision_from_kv(w, ModAt(kv, c) % OffsetLimit) = <<kv.mod_revision>>
<1> DEFINE m == ModAt(kv, c)
           kn == Len(kv.key)
           mr == kv.mod_revision
<1>1. w \in Seq(Nat) /\ HasAt(w, m, encode_overlong(mr, RevGroups))
  BY DEF Layout
<1>2. kn \in Nat /\ Fits(mr, RevGroups)
  BY KeyValueTypes
<1>3. m = 1 + LenGroups + kn + 1 + c + 1
  BY DEF ModAt
<1> HIDE DEF m, kn
<1>4. m \in Nat /\ m < OffsetLimit
  <2>1. kn + LenGroups + RevGroups + 3 < OffsetLimit
    BY DEF kn
  <2> QED
    BY <1>2, <1>3, <2>1, GroupNumbers
<1>5. m % OffsetLimit = m
  BY <1>4, GroupNumbers
<1>6. m + RevGroups <= Len(w) /\ m \in 0 .. Len(w) /\ Len(w) \in 0 .. Len(w)
  <2>1. m + RevGroups <= Len(w) /\ Len(w) \in Nat
    BY <1>1 DEF m
  <2> QED
    BY <1>4, <2>1, GroupNumbers
<1>7. SubSeq(w, 1, Len(w)) = w
  BY <1>1, WholeIsItself
<1>8. decode_overlong(DropCells(SubSeq(w, 1, Len(w)), m), RevGroups)
        = IF m + RevGroups <= Len(w) THEN <<mr>> ELSE <<>>
  BY <1>1, <1>2, <1>6, GroupNumbers, DecodeOverlongAt
<1>9. decode_overlong(DropCells(w, m), RevGroups) = <<mr>>
  BY <1>6, <1>7, <1>8
<1>10. ~(m + RevGroups > Len(w))
  <2>1. Len(w) \in Nat
    BY <1>1
  <2> QED
    BY <1>4, <1>6, <2>1, GroupNumbers
<1> QED
  BY <1>5, <1>9, <1>10 DEF read_mod_revision_from_kv, m

(* A checksum is a number.                                                  *)
LEMMA CrcType ==
    ASSUME NEW cells \in Seq(Nat)
    PROVE  Crc32c(cells) \in Nat
<1> DEFINE n == Len(cells)
           Next1(j, x) == (x * 131 + cells[j] + 7) % 1000003
           f == [j \in 1 .. n |-> [x \in Nat |-> Next1(j, x)]]
           Good(t) == t = [j \in 0 .. n |-> IF j = 0 THEN 1 ELSE Next1(j, t[j - 1])]
<1>0. n \in Nat /\ \A j \in 1 .. n : cells[j] \in Nat
  OBVIOUS
<1>1. \A j \in 1 .. n, x \in Nat : Next1(j, x) \in Nat
  <2>1. \A y, x \in Nat : (x * 131 + y + 7) % 1000003 \in Nat
    OBVIOUS
  <2> QED
    BY <1>0, <2>1
<1> HIDE DEF n, Next1
<1>2. f \in [1 .. n -> [Nat -> Nat]]
  BY <1>1
<1>3. PICK t \in [0 .. n -> Nat] : t[0] = 1 /\ \A j \in 1 .. n : t[j] = f[j][t[j - 1]]
  <2>1. 1 \in Nat
    OBVIOUS
  <2> HIDE DEF f
  <2> QED
    BY <1>0, <1>2, <2>1, NatRecursion
<1>4. \A j \in 1 .. n : j - 1 \in 0 .. n /\ t[j] = Next1(j, t[j - 1])
  <2>1. \A j \in 1 .. n : j - 1 \in 0 .. n
    BY <1>0
  <2>2. \A j \in 1 .. n : t[j - 1] \in Nat
    BY <1>3, <2>1
  <2>3. \A j \in 1 .. n, x \in Nat : f[j][x] = Next1(j, x)
    OBVIOUS
  <2> HIDE DEF f
  <2> QED
    BY <1>3, <2>1, <2>2, <2>3
<1>5. \E u : Good(u)
  <2>1. \A j \in 0 .. n : t[j] = IF j = 0 THEN 1 ELSE Next1(j, t[j - 1])
    BY <1>0, <1>3, <1>4
  <2>2. Good(t)
    BY <1>3, <2>1
  <2> HIDE DEF Good
  <2> QED
    BY <2>2
<1> DEFINE s == Crc32cSteps(cells)
           T == {k \in Nat : k <= n => s[k] \in Nat}
<1>6. Good(s)
  <2>1. s = CHOOSE u : Good(u)
    BY DEF Crc32cSteps, Next1, n
  <2> HIDE DEF Good, s
  <2> QED
    BY <1>5, <2>1
<1> HIDE DEF s
<1>7. s[0] = 1 /\ \A j \in 1 .. n : s[j] = Next1(j, s[j - 1])
  <2>1. 0 \in 0 .. n /\ \A j \in 1 .. n : j \in 0 .. n /\ j # 0
    BY <1>0
  <2> QED
    BY <1>6, <2>1
<1>8. T = Nat
  <2>1. 0 \in T
    BY <1>7
  <2>2. ASSUME NEW k \in Nat, k \in T PROVE k + 1 \in T
    <3>1. SUFFICES ASSUME k + 1 <= n PROVE s[k + 1] \in Nat
      OBVIOUS
    <3>2. k + 1 \in 1 .. n /\ (k + 1) - 1 = k /\ s[k] \in Nat
      BY <1>0, <2>2, <3>1
    <3>3. s[k + 1] = Next1(k + 1, s[k])
      BY <1>7, <3>2
    <3> QED
      BY <1>1, <3>2, <3>3
  <2> HIDE DEF T
  <2>3. T \in SUBSET Nat
    BY DEF T
  <2> QED
    BY <2>1, <2>2, <2>3, InductionOnSet
<1>9. s[n] \in Nat
  <2>1. n \in T
    BY <1>0, <1>8
  <2> QED
    BY <1>0, <2>1
<1> QED
  BY <1>9 DEF Crc32c, s, n

-----------------------------------------------------------------------------
(* Records.                                                                 *)

(* What of a layout the record needs: how long the blob is at least.        *)
LEMMA BlobLength ==
    ASSUME NEW kv \in KeyValues
    PROVE  \E c, v, l \in 1 .. RevGroups :
              LET w == encode_kv(kv).bytes IN
              /\ Layout(kv, w, c, v, l) /\ Len(encode_varint(kv.lease)) = l
              /\ w \in Seq(Nat) /\ ModAt(kv, c) \in Nat
              /\ ModAt(kv, c) + RevGroups <= Len(w) /\ 1 + LenGroups + Len(kv.key) <= Len(w)
              /\ 1 < Len(w)
              /\ encode_kv(kv).key_offset = 1 % OffsetLimit
              /\ encode_kv(kv).mod_rev_offset = ModAt(kv, c) % OffsetLimit
<1> DEFINE w == encode_kv(kv).bytes
<1>1. PICK c, v, l \in 1 .. RevGroups :
        /\ Layout(kv, w, c, v, l) /\ Len(encode_varint(kv.lease)) = l
        /\ Len(UptoMod(kv)) = ModAt(kv, c)
  BY BlobLayout
<1>2. encode_kv(kv).key_offset = 1 % OffsetLimit
      /\ encode_kv(kv).mod_rev_offset = Len(UptoMod(kv)) % OffsetLimit
  BY DEF encode_kv, UptoMod
<1> HIDE DEF w
<1>3. w \in Seq(Nat) /\ Len(w) = ValueAt(kv, c, v) + Len(kv.value) + 1 + l
  BY <1>1 DEF Layout
<1> DEFINE kn == Len(kv.key)
           xn == Len(kv.value)
           wn == Len(w)
<1>4. kn \in Nat /\ xn \in Nat
  BY KeyValueTypes
<1>5. /\ wn = 1 + LenGroups + kn + 1 + c + 1 + RevGroups + 1 + v + 1 + LenGroups + xn + 1 + l
      /\ ModAt(kv, c) = 1 + LenGroups + kn + 1 + c + 1
  BY <1>3 DEF ModAt, ValueAt
<1> HIDE DEF kn, xn, wn
<1>6. c \in Nat /\ v \in Nat /\ l \in Nat /\ LenGroups \in Nat /\ RevGroups \in Nat
      /\ LenGroups > 0
  BY CodecAssumption
<1>7. /\ ModAt(kv, c) \in Nat /\ ModAt(kv, c) + RevGroups <= wn
      /\ 1 + LenGroups + kn <= wn /\ 1 < wn
  BY <1>4, <1>5, <1>6
<1> QED
  BY <1>1, <1>2, <1>3, <1>7 DEF w, kn, wn

(* Four numbers as cells.                                                   *)
LEMMA FourCells ==
    \A x1, x2, x3, x4 \in Nat :
        /\ <<x1, x2, x3, x4>> \in Seq(Nat) /\ Len(<<x1, x2, x3, x4>>) = 4
        /\ <<x1, x2, x3, x4>>[1] = x1 /\ <<x1, x2, x3, x4>>[2] = x2
        /\ <<x1, x2, x3, x4>>[3] = x3 /\ <<x1, x2, x3, x4>>[4] = x4
  OBVIOUS

(* A record is read back from its bytes.                                    *)
LEMMA RecordBytes ==
    ASSUME NEW kv \in KeyValues, NEW flags \in Nat
    PROVE  LET rec == KvWalRecord(flags, kv) d == serialize(rec) IN
           /\ d \in Seq(Nat) /\ rec.rec_len \in Nat /\ Len(d) = rec.rec_len
           /\ d[4] = rec.rec_len /\ rec.rec_len > KvHeader + KvCrc
           /\ deserialize(d) = <<rec>>
<1> DEFINE b == encode_kv(kv).bytes
           ko == encode_kv(kv).key_offset
           mo == encode_kv(kv).mod_rev_offset
           n == Len(b)
           rl == KvHeader + n + KvCrc
           h == <<flags, ko, mo, rl>>
           hb == h \o b
           crc == Crc32c(hb)
           rec == [flags |-> flags, kv_bytes |-> b, key_offset |-> ko, mod_rev_offset |-> mo,
                   rec_len |-> rl, crc |-> crc]
           d == hb \o <<crc>>
<1>1. KvWalRecord(flags, kv) = rec
  BY DEF KvWalRecord, KvHeaderCells
<1>2. serialize(rec) = d
  BY DEF serialize, KvHeaderCells
<1>3. PICK c \in 1 .. RevGroups :
        /\ b \in Seq(Nat) /\ ModAt(kv, c) \in Nat /\ ModAt(kv, c) + RevGroups <= n /\ 1 < n
        /\ ko = 1 % OffsetLimit /\ mo = ModAt(kv, c) % OffsetLimit
  BY BlobLength
<1>4. /\ rec.flags = flags /\ rec.kv_bytes = b /\ rec.key_offset = ko
      /\ rec.mod_rev_offset = mo /\ rec.rec_len = rl /\ rec.crc = crc
  OBVIOUS
<1> HIDE DEF b, ko, mo, n, rec
<1>5. n \in Nat /\ n = Len(b)
  BY <1>3 DEF n
<1>6. ko \in Nat /\ ko < n /\ mo \in Nat /\ mo + RevGroups <= n
  <2>1. 1 % OffsetLimit = 1
    BY GroupNumbers
  <2>2. \A x \in Nat : x % OffsetLimit \in Nat /\ x % OffsetLimit <= x
    BY GroupNumbers
  <2>3. mo \in Nat /\ mo <= ModAt(kv, c)
    BY <1>3, <2>2
  <2> QED
    BY <1>3, <1>5, <2>1, <2>3, GroupNumbers
<1>7. rl = n + 5 /\ rl \in Nat
  BY <1>5 DEF KvHeader, KvCrc
<1> HIDE DEF rl
<1>8. /\ h \in Seq(Nat) /\ Len(h) = 4 /\ h[1] = flags /\ h[2] = ko /\ h[3] = mo /\ h[4] = rl
  BY <1>6, <1>7, FourCells, SMTT(40)
<1> HIDE DEF h
<1>9. hb \in Seq(Nat) /\ Len(hb) = 4 + n
      /\ \A i \in 1 .. (4 + n) : hb[i] = IF i <= 4 THEN h[i] ELSE b[i - 4]
  <2>1. /\ hb \in Seq(Nat) /\ Len(hb) = Len(h) + Len(b)
        /\ \A i \in 1 .. (Len(h) + Len(b)) :
              hb[i] = IF i <= Len(h) THEN h[i] ELSE b[i - Len(h)]
    BY <1>3, <1>8, CellAt, Zenon
  <2> HIDE DEF hb
  <2> QED
    BY <1>5, <1>8, <2>1, Zenon
<1> HIDE DEF hb
<1>10. crc \in Nat
  BY <1>9, CrcType
<1> HIDE DEF crc
<1>11. /\ d \in Seq(Nat) /\ Len(d) = 4 + n + 1
       /\ \A i \in 1 .. (4 + n + 1) : d[i] = IF i <= 4 + n THEN hb[i] ELSE <<crc>>[i - (4 + n)]
  <2>1. <<crc>> \in Seq(Nat) /\ Len(<<crc>>) = 1
    BY <1>10, OneCell
  <2>2. /\ d \in Seq(Nat) /\ Len(d) = Len(hb) + Len(<<crc>>)
        /\ \A i \in 1 .. (Len(hb) + Len(<<crc>>)) :
              d[i] = IF i <= Len(hb) THEN hb[i] ELSE <<crc>>[i - Len(hb)]
    BY <1>9, <2>1, CellAt, Zenon
  <2> HIDE DEF d
  <2> QED
    BY <1>9, <2>1, <2>2, Zenon
<1>12. HasAt(d, 0, hb) /\ HasAt(d, 4, b)
  <2>1. <<crc>> \in Seq(Nat)
    BY <1>10, OneCell
  <2>2. HasAt(d, 0, d)
    <3> HIDE DEF d
    <3> QED
      BY <1>11 DEF HasAt
  <2>3. HasAt(d, 0, hb)
    BY <1>9, <1>11, <2>1, <2>2, HasParts
  <2> HIDE DEF d
  <2>4. HasAt(d, Len(h), b)
    BY <1>3, <1>8, <1>11, <2>3, HasParts DEF hb
  <2> QED
    BY <1>8, <2>3, <2>4
<1> HIDE DEF d
<1>13. Len(d) = rl
  BY <1>5, <1>7, <1>11
<1>14. d[1] = flags /\ d[2] = ko /\ d[3] = mo /\ d[4] = rl
  <2>1. \A i \in 1 .. 4 : i \in 1 .. (4 + n + 1) /\ i \in 1 .. (4 + n) /\ i <= 4 /\ i <= 4 + n
    BY <1>5
  <2>2. \A i \in 1 .. 4 : d[i] = h[i]
    BY <1>9, <1>11, <2>1, SMTT(40)
  <2> QED
    BY <1>8, <2>2
<1>15. d[rl] = crc
  <2>1. rl \in 1 .. (4 + n + 1) /\ ~(rl <= 4 + n) /\ rl - (4 + n) = 1
    BY <1>5, <1>7
  <2> QED
    BY <1>11, <2>1
<1>16. SubSeq(d, 1, rl - KvCrc) = hb
  <2>1. SubSeq(d, 0 + 1, 0 + Len(hb)) = hb
    BY <1>9, <1>11, <1>12, PieceDef
  <2>2. 0 + Len(hb) = rl - KvCrc
    BY <1>5, <1>7, <1>9 DEF KvCrc
  <2> QED
    BY <2>1, <2>2
<1>17. Cells(d, KvHeader, rl - KvHeader - KvCrc) = b
  <2>1. SubSeq(d, 4 + 1, 4 + Len(b)) = b
    BY <1>3, <1>11, <1>12, PieceDef
  <2>2. rl - KvHeader - KvCrc = Len(b) /\ KvHeader = 4
    BY <1>5, <1>7 DEF KvCrc, KvHeader
  <2> QED
    BY <2>1, <2>2 DEF Cells
<1>18. deserialize(d) = <<rec>>
  <2>1. /\ ~(Len(d) < KvHeader + KvCrc) /\ ~(d[4] < KvHeader + KvCrc) /\ ~(d[4] > Len(d))
    BY <1>5, <1>7, <1>13, <1>14 DEF KvHeader, KvCrc
  <2>2. Crc32c(SubSeq(d, 1, d[4] - KvCrc)) = crc
    BY <1>14, <1>16 DEF crc
  <2>3. ~(ko >= Len(b)) /\ ~(mo + RevGroups > Len(b))
    BY <1>5, <1>6, GroupNumbers
  <2> DEFINE r == [flags |-> d[1], key_offset |-> d[2], mod_rev_offset |-> d[3],
                   rec_len |-> d[4], crc |-> d[d[4]],
                   kv_bytes |-> Cells(d, KvHeader, d[4] - KvHeader - KvCrc)]
  <2>4. r = rec
    BY <1>14, <1>15, <1>17 DEF rec
  <2>5. deserialize(d) = IF \/ Crc32c(SubSeq(d, 1, d[4] - KvCrc)) # r.crc
                            \/ r.key_offset >= Len(r.kv_bytes)
                            \/ r.mod_rev_offset + RevGroups > Len(r.kv_bytes)
                         THEN <<>> ELSE <<r>>
    BY <2>1, Zenon DEF deserialize
  <2> HIDE DEF r
  <2> QED
    BY <1>4, <2>2, <2>3, <2>4, <2>5
<1>19. rl > KvHeader + KvCrc
  BY <1>3, <1>5, <1>7 DEF KvHeader, KvCrc
<1> QED
  BY <1>1, <1>2, <1>4, <1>7, <1>11, <1>13, <1>14, <1>18, <1>19, Zenon

(* CodecExact for one key-value.                                            *)
LEMMA CodecOf ==
    ASSUME NEW kv \in KeyValues
    PROVE  LET e == encode_kv(kv)
               rec == KvWalRecord(IS_CREATE, kv)
               fields == <<kv.key, kv.create_revision, kv.mod_revision, kv.version,
                           kv.value>>
               lease_size == 1 + Len(encode_varint(kv.lease)) IN
           /\ \A n \in 0..Len(e.bytes) :
                 parse_kv(SubSeq(e.bytes, 1, n)) =
                    IF n >= Len(e.bytes) - lease_size THEN <<fields>> ELSE <<>>
           /\ KeyValueDecode(e.bytes) = <<Append(fields, kv.lease)>>
           /\ read_key_from_kv(e.bytes, e.key_offset) = <<kv.key>>
           /\ Len(kv.key) + LenGroups + RevGroups + 3 < OffsetLimit =>
                 read_mod_revision_from_kv(e.bytes, e.mod_rev_offset) = <<kv.mod_revision>>
           /\ deserialize(serialize(rec)) = <<rec>>
<1> DEFINE w == encode_kv(kv).bytes
           ko == encode_kv(kv).key_offset
           mo == encode_kv(kv).mod_rev_offset
<1>1. PICK c \in 1 .. RevGroups, v \in 1 .. RevGroups, l \in 1 .. RevGroups :
        /\ Layout(kv, w, c, v, l) /\ Len(encode_varint(kv.lease)) = l
        /\ w \in Seq(Nat)
        /\ ModAt(kv, c) + RevGroups <= Len(w) /\ 1 + LenGroups + Len(kv.key) <= Len(w)
        /\ ko = 1 % OffsetLimit /\ mo = ModAt(kv, c) % OffsetLimit
  BY BlobLength
<1> HIDE DEF w, ko, mo
<1>2. \A n \in 0 .. Len(w) :
        /\ parse_kv(SubSeq(w, 1, n))
              = IF n >= Len(w) - (1 + l) THEN <<Fields(kv)>> ELSE <<>>
        /\ n = Len(w) =>
              KeyValueDecode(SubSeq(w, 1, n)) = <<Append(Fields(kv), kv.lease)>>
  BY <1>1, BlobReads
<1>3. KeyValueDecode(w) = <<Append(Fields(kv), kv.lease)>>
  <2>1. Len(w) \in 0 .. Len(w) /\ SubSeq(w, 1, Len(w)) = w
    BY <1>1, WholeIsItself
  <2> QED
    BY <1>2, <2>1
<1>4. read_key_from_kv(w, ko) = <<kv.key>>
  BY <1>1, KeyRead
<1>5. Len(kv.key) + LenGroups + RevGroups + 3 < OffsetLimit =>
        read_mod_revision_from_kv(w, mo) = <<kv.mod_revision>>
  BY <1>1, ModRead
<1>6. deserialize(serialize(KvWalRecord(IS_CREATE, kv))) = <<KvWalRecord(IS_CREATE, kv)>>
  <2>1. IS_CREATE \in Nat
    BY DEF IS_CREATE
  <2> QED
    BY <2>1, RecordBytes, Zenon
<1> QED
  BY <1>1, <1>2, <1>3, <1>4, <1>5, <1>6, Zenon DEF Fields, w, ko, mo

(* The blob codec is exact for every KeyValue of the code's types: the one- *)
(* pass reader gives back every field of a blob of which at most the lease  *)
(* is missing, and nothing of a shorter one; the protobuf decoder and the   *)
(* reads through the offsets give back what was encoded; a record survives  *)
(* serialize and deserialize (encode_kv, parse_kv, read_key_from_kv,        *)
(* read_mod_revision_from_kv, KvWalRecord).                                 *)
THEOREM CodecIsExact == Spec => []CodecExact
<1>1. InputOK => CodecExact
  <2> SUFFICES ASSUME InputOK, input.kind = "kv" PROVE CodecExact
    BY DEF CodecExact
  <2>1. PICK kv \in KvFields : input = [kind |-> "kv", kv |-> kv]
    BY DEF InputOK
  <2>2. kv \in KeyValues /\ input.kv = kv
    BY <2>1, FieldsAssumption
  <2> QED
    BY <2>2, CodecOf, Zenon DEF CodecExact
<1> QED
  BY <1>1, InputPicked, PTL

(* Patching the revision of a blob in place gives, for every KeyValue and   *)
(* every revision, the blob that encoding with that revision would give     *)
(* (with_mod_revision, mod_revision_field_offset).                          *)
THEOREM PatchIsExact == Spec => []PatchExact
<1>1. InputOK => PatchExact
  <2> SUFFICES ASSUME InputOK, input.kind = "kv", NEW rev \in NewRevs
               PROVE  with_mod_revision(encode_kv(input.kv).bytes, rev) =
                         encode_kv([input.kv EXCEPT !.mod_revision = rev]).bytes
    BY DEF PatchExact
  <2>1. PICK kv \in KvFields : input = [kind |-> "kv", kv |-> kv]
    BY DEF InputOK
  <2>2. kv \in KeyValues /\ input.kv = kv /\ rev \in Nat
    BY <2>1, FieldsAssumption
  <2> QED
    BY <2>2, Patched, Zenon
<1> QED
  BY <1>1, InputPicked, PTL

-----------------------------------------------------------------------------
(* Files of records.                                                        *)

(* A recursion from places to later places, and that it has a solution.     *)
LaterSolution(t, n, g, base, nx) ==
    \A c \in 0 .. n : t[c] = IF nx[c] \in (c + 1) .. n THEN g[c][t[nx[c]]] ELSE base[c]

(* A recursion from each position to a later one has a solution.            *)
LEMMA LaterRecursion ==
    \A n \in Nat : \A X :
    \A g \in [0 .. n -> [X -> X]], base \in [0 .. n -> X], nx \in [0 .. n -> Nat] :
        \E t \in [0 .. n -> X] : LaterSolution(t, n, g, base, nx)
<1> SUFFICES ASSUME NEW n \in Nat, NEW X, NEW g \in [0 .. n -> [X -> X]],
                    NEW base \in [0 .. n -> X], NEW nx \in [0 .. n -> Nat]
             PROVE  \E t \in [0 .. n -> X] : LaterSolution(t, n, g, base, nx)
  OBVIOUS
<1> DEFINE Rhs(t, c) == IF nx[c] \in (c + 1) .. n THEN g[c][t[nx[c]]] ELSE base[c]
           Solves(t, k) == \A c \in 0 .. n : c + k > n => t[c] = Rhs(t, c)
           T == {k \in Nat : \E t \in [0 .. n -> X] : Solves(t, k)}
<1>1. 0 \in T
  <2>1. Solves(base, 0)
    OBVIOUS
  <2> HIDE DEF Solves
  <2> QED
    BY <2>1
<1>2. ASSUME NEW k \in Nat, k \in T PROVE k + 1 \in T
  <2>1. PICK t \in [0 .. n -> X] : Solves(t, k)
    BY <1>2
  <2> DEFINE d == n - k
             u == [t EXCEPT ![d] = Rhs(t, d)]
  <2>2. CASE ~(d \in 0 .. n)
    <3>1. Solves(t, k + 1)
      BY <2>1, <2>2
    <3> HIDE DEF Solves
    <3> QED
      BY <3>1
  <2>3. CASE d \in 0 .. n
    <3>1. Rhs(t, d) \in X
      <4>1. \A y \in (d + 1) .. n : y \in 0 .. n
        BY <2>3
      <4>2. \A y \in 0 .. n : g[d][t[y]] \in X
        BY <2>3
      <4> QED
        BY <2>3, <4>1, <4>2
    <3>2. u \in [0 .. n -> X]
      BY <3>1
    <3>3. \A y \in 0 .. n : y # d => u[y] = t[y]
      OBVIOUS
    <3>4. u[d] = Rhs(t, d)
      BY <2>3
    <3> HIDE DEF u
    <3>5. \A c \in 0 .. n : c >= d => Rhs(u, c) = Rhs(t, c)
      <4> SUFFICES ASSUME NEW c \in 0 .. n, c >= d, nx[c] \in (c + 1) .. n
                   PROVE  u[nx[c]] = t[nx[c]]
        OBVIOUS
      <4>1. nx[c] \in 0 .. n /\ nx[c] # d
        BY <2>3
      <4> QED
        BY <3>3, <4>1
    <3> HIDE DEF Rhs
    <3>6. Solves(u, k + 1)
      <4> SUFFICES ASSUME NEW c \in 0 .. n, c + (k + 1) > n PROVE u[c] = Rhs(u, c)
        OBVIOUS
      <4>1. CASE c = d
        BY <2>3, <3>4, <3>5, <4>1
      <4>2. CASE c # d
        <5>1. c + k > n /\ c >= d
          BY <2>3, <4>2
        <5> QED
          BY <2>1, <3>3, <3>5, <4>2, <5>1
      <4> QED
        BY <4>1, <4>2
    <3> HIDE DEF Solves
    <3> QED
      BY <3>2, <3>6
  <2> QED
    BY <2>2, <2>3
<1>3. T = Nat
  <2> HIDE DEF T
  <2>1. T \in SUBSET Nat
    BY DEF T
  <2> QED
    BY <1>1, <1>2, <2>1, InductionOnSet
<1>4. PICK t \in [0 .. n -> X] : Solves(t, n + 1)
  <2> HIDE DEF Solves
  <2>1. n + 1 \in T
    <3> HIDE DEF T
    <3> QED
      BY <1>3
  <2> QED
    BY <2>1
<1>5. \A c \in 0 .. n : t[c] = Rhs(t, c)
  <2>1. \A c \in 0 .. n : c + (n + 1) > n
    OBVIOUS
  <2> HIDE DEF Rhs
  <2> QED
    BY <1>4, <2>1
<1> QED
  BY <1>5 DEF LaterSolution

(* FlattenSeq is the last of the sequences joined so far.                   *)
LEMMA FlattenIs ==
    ASSUME NEW ss \in Seq(Seq(Nat)), NEW t \in [0 .. Len(ss) -> Seq(Nat)], t[0] = <<>>,
           \A i \in 1 .. Len(ss) : t[i] = t[i - 1] \o ss[i]
    PROVE  FlattenSeq(ss) = t[Len(ss)]
<1> DEFINE n == Len(ss)
<1>1. n \in Nat /\ \A i \in 1 .. n : ss[i] \in Seq(Nat)
  OBVIOUS
<1>2. CASE n = 0
  <2>1. ss = <<>> /\ FlattenSeq(ss) = ss
    BY <1>2 DEF FlattenSeq
  <2> QED
    BY <1>2, <2>1
<1>3. CASE n # 0
  <2> DEFINE Body(u, i) == IF i = 1 THEN ss[i] ELSE u[i - 1] \o ss[i]
             Good(u) == u = [i \in 1 .. n |-> Body(u, i)]
             s == [i \in 1 .. n |-> t[i]]
             f == CHOOSE u : Good(u)
  <2>1. \A i \in 1 .. n : s[i] = Body(s, i)
    <3> SUFFICES ASSUME NEW i \in 1 .. n PROVE s[i] = Body(s, i)
      OBVIOUS
    <3>1. s[i] = t[i - 1] \o ss[i]
      OBVIOUS
    <3>2. CASE i = 1
      <4>0. i - 1 = 0
        BY <3>2
      <4>1. s[i] = <<>> \o ss[1]
        <5> HIDE DEF s
        <5> QED
          BY <3>1, <3>2, <4>0
      <4>2. ss[1] \in Seq(Nat)
        BY <1>1, <3>2
      <4>3. \A z \in Seq(Nat) : <<>> \o z = z
        OBVIOUS
      <4> QED
        BY <3>2, <4>1, <4>2, <4>3
    <3>3. CASE i # 1
      <4>1. i - 1 \in 1 .. n
        BY <1>1, <3>3
      <4>2. s[i - 1] = t[i - 1]
        BY <4>1
      <4> HIDE DEF s
      <4> QED
        BY <3>1, <3>3, <4>2
    <3> QED
      BY <3>2, <3>3
  <2>2. Good(s)
    <3> HIDE DEF Body
    <3> QED
      BY <2>1
  <2>3. Good(f)
    <3> HIDE DEF Good, s
    <3> QED
      BY <2>2
  <2>4. FlattenSeq(ss) = f[n]
    BY <1>3 DEF FlattenSeq
  <2> HIDE DEF s, f, n
  <2>5. \A i \in 1 .. n : f[i] = Body(f, i)
    <3> HIDE DEF Body
    <3> QED
      BY <2>3
  <2> DEFINE T == {k \in Nat : k + 1 <= n => f[k + 1] = s[k + 1]}
  <2>6. 0 \in T
    <3>1. 1 \in 1 .. n \/ ~(0 + 1 <= n)
      BY <1>1
    <3>2. 1 \in 1 .. n => f[1] = ss[1] /\ s[1] = ss[1]
      BY <2>1, <2>5
    <3> QED
      BY <3>1, <3>2
  <2>7. ASSUME NEW k \in Nat, k \in T PROVE k + 1 \in T
    <3> SUFFICES ASSUME (k + 1) + 1 <= n PROVE f[(k + 1) + 1] = s[(k + 1) + 1]
      OBVIOUS
    <3> DEFINE i == (k + 1) + 1
    <3>1. i \in 1 .. n /\ i # 1 /\ i - 1 = k + 1 /\ k + 1 <= n
      BY <1>1
    <3>2. f[k + 1] = s[k + 1]
      BY <2>7, <3>1
    <3> HIDE DEF i
    <3>3. f[i] = f[i - 1] \o ss[i] /\ s[i] = s[i - 1] \o ss[i]
      BY <2>1, <2>5, <3>1
    <3>4. f[i] = s[i]
      BY <3>1, <3>2, <3>3
    <3> QED
      BY <3>4 DEF i
  <2>8. T = Nat
    <3> HIDE DEF T
    <3>1. T \in SUBSET Nat
      BY DEF T
    <3> QED
      BY <2>6, <2>7, <3>1, InductionOnSet
  <2>9. f[n] = s[n]
    <3>1. n - 1 \in T /\ (n - 1) + 1 = n
      <4>1. n - 1 \in Nat /\ (n - 1) + 1 = n
        BY <1>1, <1>3 DEF n
      <4> HIDE DEF T
      <4> QED
        BY <2>8, <4>1
    <3> QED
      BY <1>1, <3>1
  <2>10. s[n] = t[n]
    BY <1>1, <1>3 DEF s
  <2> QED
    BY <2>4, <2>9, <2>10 DEF n
<1> QED
  BY <1>2, <1>3

(* A recursion over sequences of cells has a solution.                      *)
LEMMA SeqRecursion ==
    \A b \in Seq(Nat), n \in Nat : \A f \in [1 .. n -> [Seq(Nat) -> Seq(Nat)]] :
        \E t \in [0 .. n -> Seq(Nat)] :
            t[0] = b /\ \A i \in 1 .. n : t[i] = f[i][t[i - 1]]
<1> DEFINE X == Seq(Nat)
<1> HIDE DEF X
<1>1. \A b \in X, n \in Nat : \A f \in [1 .. n -> [X -> X]] :
        \E t \in [0 .. n -> X] : t[0] = b /\ \A i \in 1 .. n : t[i] = f[i][t[i - 1]]
  BY Recursion
<1> QED
  BY <1>1 DEF X

(* FlattenSeq of one sequence more.                                         *)
LEMMA FlattenAppend ==
    ASSUME NEW ss \in Seq(Seq(Nat)), NEW s \in Seq(Nat)
    PROVE  /\ FlattenSeq(ss) \in Seq(Nat)
           /\ FlattenSeq(Append(ss, s)) = FlattenSeq(ss) \o s
<1> DEFINE X == Seq(Nat)
           n == Len(ss)
           long == Append(ss, s)
           f == [i \in 1 .. n + 1 |-> [x \in X |-> x \o long[i]]]
<1>1. /\ n \in Nat /\ long \in Seq(X) /\ Len(long) = n + 1 /\ long[n + 1] = s
      /\ \A i \in 1 .. n : long[i] = ss[i]
  OBVIOUS
<1> HIDE DEF n, long
<1>2. \A i \in 1 .. n + 1 : long[i] \in X
  BY <1>1
<1>3. \A x, y \in X : x \o y \in X
  OBVIOUS
<1>4. <<>> \in X
  OBVIOUS
<1> HIDE DEF X
<1>5. f \in [1 .. n + 1 -> [X -> X]]
  BY <1>2, <1>3
<1>6. PICK t \in [0 .. n + 1 -> X] :
        t[0] = <<>> /\ \A i \in 1 .. n + 1 : t[i] = f[i][t[i - 1]]
  <2>1. n + 1 \in Nat
    BY <1>1
  <2> DEFINE m == n + 1
  <2>2. m \in Nat /\ f \in [1 .. m -> [X -> X]]
    BY <1>5, <2>1
  <2> HIDE DEF f, m
  <2>3. \E t \in [0 .. m -> X] : t[0] = <<>> /\ \A i \in 1 .. m : t[i] = f[i][t[i - 1]]
    <3> DEFINE b == <<>>
    <3>1. b \in X
      BY <1>4
    <3> HIDE DEF b
    <3>2. \E t \in [0 .. m -> X] : t[0] = b /\ \A i \in 1 .. m : t[i] = f[i][t[i - 1]]
      BY <2>2, <3>1, SeqRecursion DEF X
    <3> QED
      BY <3>2 DEF b
  <2> QED
    BY <2>3 DEF m
<1>7. \A i \in 1 .. n + 1 : t[i] = t[i - 1] \o long[i]
  <2> SUFFICES ASSUME NEW i \in 1 .. n + 1 PROVE t[i] = t[i - 1] \o long[i]
    OBVIOUS
  <2>1. i - 1 \in 0 .. n + 1
    BY <1>1
  <2>2. t[i - 1] \in X
    BY <2>1
  <2>3. f[i][t[i - 1]] = t[i - 1] \o long[i]
    BY <2>2
  <2> QED
    BY <1>6, <2>3
<1>8. FlattenSeq(long) = t[n + 1]
  BY <1>1, <1>6, <1>7, FlattenIs, ZenonT(60) DEF X
<1> DEFINE u == [i \in 0 .. n |-> t[i]]
<1>9. u \in [0 .. n -> X] /\ u[0] = <<>> /\ u[n] = t[n] /\ t[n] \in X
  BY <1>1, <1>6
<1>10. \A i \in 1 .. n : u[i] = u[i - 1] \o ss[i]
  <2> SUFFICES ASSUME NEW i \in 1 .. n PROVE u[i] = u[i - 1] \o ss[i]
    OBVIOUS
  <2>1. i \in 1 .. n + 1 /\ i \in 0 .. n /\ i - 1 \in 0 .. n
    BY <1>1
  <2>2. u[i] = t[i] /\ u[i - 1] = t[i - 1]
    BY <2>1
  <2> HIDE DEF u
  <2> QED
    BY <1>1, <1>7, <2>1, <2>2
<1> HIDE DEF u
<1>11. FlattenSeq(ss) = u[n]
  BY <1>9, <1>10, FlattenIs DEF X, n
<1>12. t[n + 1] = t[n] \o s
  <2>1. n + 1 \in 1 .. n + 1 /\ (n + 1) - 1 = n
    BY <1>1
  <2> QED
    BY <1>1, <1>7, <2>1
<1> QED
  BY <1>8, <1>9, <1>11, <1>12 DEF X, long

(* Records written one behind the other; ser gives the cells of a record.   *)
Joined(ser, recs) == FlattenSeq([i \in DOMAIN recs |-> ser[recs[i]]])

(* A file of one record more.                                               *)
LEMMA JoinedAppend ==
    ASSUME NEW R, NEW ser \in [R -> Seq(Nat)], NEW recs \in Seq(R), NEW rec \in R
    PROVE  /\ Joined(ser, recs) \in Seq(Nat)
           /\ Joined(ser, Append(recs, rec)) = Joined(ser, recs) \o ser[rec]
<1> DEFINE Ser(r) == ser[r]
           n == Len(recs)
           long == Append(recs, rec)
           ss == [i \in DOMAIN recs |-> Ser(recs[i])]
           ll == [i \in DOMAIN long |-> Ser(long[i])]
<1>0. \A r \in R : Ser(r) \in Seq(Nat)
  OBVIOUS
<1>1. Joined(ser, recs) = FlattenSeq(ss) /\ Joined(ser, long) = FlattenSeq(ll)
  BY DEF Joined
<1> HIDE DEF Ser
<1>2. /\ n \in Nat /\ DOMAIN recs = 1 .. n /\ \A i \in 1 .. n : recs[i] \in R
      /\ DOMAIN long = 1 .. (n + 1) /\ long[n + 1] = rec
      /\ \A i \in 1 .. n : long[i] = recs[i]
  OBVIOUS
<1> HIDE DEF n, long
<1>3. ss \in Seq(Seq(Nat)) /\ Len(ss) = n /\ \A i \in 1 .. n : ss[i] = Ser(recs[i])
  <2> DEFINE S == Seq(Nat)
  <2>1. \A i \in 1 .. n : Ser(recs[i]) \in S
    BY <1>0, <1>2
  <2> HIDE DEF S
  <2>2. ss \in Seq(S) /\ Len(ss) = n
    <3>1. ss \in [1 .. n -> S]
      BY <1>2, <2>1
    <3>0. n \in Nat
      BY <1>2
    <3>2. \A f \in [1 .. n -> S] : f \in Seq(S) /\ Len(f) = n
      BY ONLY <3>0
    <3> QED
      BY ONLY <3>1, <3>2, Zenon
  <2> QED
    BY <1>2, <2>2 DEF S
<1>4. ll \in Seq(Seq(Nat)) /\ Len(ll) = n + 1
      /\ \A i \in 1 .. (n + 1) : ll[i] = Ser(long[i])
  <2> DEFINE S == Seq(Nat)
  <2>1. \A i \in 1 .. (n + 1) : i \in 1 .. n \/ i = n + 1
    BY <1>2
  <2>2. \A i \in 1 .. (n + 1) : Ser(long[i]) \in S
    BY <1>0, <1>2, <2>1
  <2> HIDE DEF S
  <2>3. ll \in Seq(S) /\ Len(ll) = n + 1
    BY ONLY <1>2, <2>2
  <2> QED
    BY <1>2, <2>3 DEF S
<1> DEFINE s == Ser(rec)
<1>5. s \in Seq(Nat)
  BY <1>0
<1> HIDE DEF ss, ll, s
<1>6. ll = Append(ss, s)
  <2> DEFINE S == Seq(Nat)
             as == Append(ss, s)
  <2>1. s \in S /\ ss \in Seq(S) /\ ll \in Seq(S)
    BY <1>3, <1>4, <1>5
  <2> HIDE DEF S
  <2>2. as \in Seq(S) /\ Len(as) = n + 1 /\ as[n + 1] = s /\ \A i \in 1 .. n : as[i] = ss[i]
    <3>1. \A x \in Seq(S), y \in S :
             /\ Append(x, y) \in Seq(S) /\ Len(Append(x, y)) = Len(x) + 1
             /\ Append(x, y)[Len(x) + 1] = y
             /\ \A i \in 1 .. Len(x) : Append(x, y)[i] = x[i]
      OBVIOUS
    <3>2. Len(ss) = n
      BY <1>3
    <3> QED
      BY ONLY <2>1, <3>1, <3>2, Zenon
  <2> HIDE DEF as
  <2>3. \A i \in 1 .. (n + 1) : i \in 1 .. n \/ i = n + 1
    BY <1>2
  <2>4. \A i \in 1 .. (n + 1) : ll[i] = as[i]
    <3> SUFFICES ASSUME NEW i \in 1 .. (n + 1) PROVE ll[i] = as[i]
      OBVIOUS
    <3>1. CASE i \in 1 .. n
      BY <1>2, <1>3, <1>4, <2>2, <3>1
    <3>2. CASE i = n + 1
      BY <1>2, <1>4, <2>2, <3>2 DEF s
    <3> QED
      BY <2>3, <3>1, <3>2
  <2>5. ll = as
    BY ONLY <1>4, <2>1, <2>2, <2>4, SeqEqual
  <2> QED
    BY <2>5 DEF as
<1> QED
  BY <1>1, <1>3, <1>5, <1>6, FlattenAppend DEF long, s, Ser

(* A file of no records is empty.                                           *)
LEMMA JoinedEmpty == \A ser : Joined(ser, <<>>) = <<>>
  BY DEF Joined, FlattenSeq

(* A file of records is cells.                                              *)
LEMMA JoinedType ==
    ASSUME NEW R, NEW ser \in [R -> Seq(Nat)], NEW recs \in Seq(R)
    PROVE  Joined(ser, recs) \in Seq(Nat)
<1>1. CASE \E rec : rec \in R
  BY <1>1, JoinedAppend
<1>2. CASE ~\E rec : rec \in R
  <2>1. recs = <<>>
    BY <1>2
  <2>2. <<>> \in Seq(Nat)
    OBVIOUS
  <2> QED
    BY <2>1, <2>2, JoinedEmpty, Zenon
<1> QED
  BY <1>1, <1>2

(* The file of the first i records, and where it ends.                      *)
JoinedTo(ser, recs, i) == Joined(ser, SubSeq(recs, 1, i))
JoinedEnd(ser, recs, i) == Len(JoinedTo(ser, recs, i))

(* A file grows record by record.                                           *)
LEMMA JoinedParts ==
    ASSUME NEW R, NEW ser \in [R -> Seq(Nat)], NEW recs \in Seq(R)
    PROVE  /\ JoinedTo(ser, recs, 0) = <<>> /\ JoinedTo(ser, recs, Len(recs)) = Joined(ser, recs)
           /\ \A i \in 0 .. Len(recs) : JoinedTo(ser, recs, i) \in Seq(Nat)
           /\ \A i \in 0 .. (Len(recs) - 1) :
                 JoinedTo(ser, recs, i + 1) = JoinedTo(ser, recs, i) \o ser[recs[i + 1]]
<1> DEFINE n == Len(recs)
<1>1. n \in Nat
  OBVIOUS
<1>2. JoinedTo(ser, recs, 0) = <<>>
  <2>1. SubSeq(recs, 1, 0) = <<>>
    OBVIOUS
  <2> QED
    BY <2>1, JoinedEmpty DEF JoinedTo
<1>3. JoinedTo(ser, recs, n) = Joined(ser, recs)
  <2>1. SubSeq(recs, 1, n) = recs
    OBVIOUS
  <2> QED
    BY <2>1 DEF JoinedTo
<1>4. \A i \in 0 .. n : SubSeq(recs, 1, i) \in Seq(R)
  OBVIOUS
<1>5. ASSUME NEW i \in 0 .. n PROVE JoinedTo(ser, recs, i) \in Seq(Nat)
  BY <1>4, JoinedType DEF JoinedTo
<1>6. ASSUME NEW i \in 0 .. (n - 1)
      PROVE  JoinedTo(ser, recs, i + 1) = JoinedTo(ser, recs, i) \o ser[recs[i + 1]]
  <2>1. i \in 0 .. n /\ i + 1 \in 1 .. n
    BY <1>1
  <2>2. recs[i + 1] \in R
    BY <2>1
  <2>3. SubSeq(recs, 1, i + 1) = Append(SubSeq(recs, 1, i), recs[i + 1])
    <3> DEFINE a == SubSeq(recs, 1, i)
               b == SubSeq(recs, 1, i + 1)
               e == recs[i + 1]
               c == Append(a, e)
    <3>1. a \in Seq(R) /\ Len(a) = i /\ \A j \in 1 .. i : a[j] = recs[j]
      BY <2>1
    <3>2. b \in Seq(R) /\ Len(b) = i + 1 /\ \A j \in 1 .. (i + 1) : b[j] = recs[j]
      BY <2>1
    <3>3. e \in R /\ e = recs[i + 1]
      BY <2>2
    <3> HIDE DEF a, b, e
    <3>4. c \in Seq(R) /\ Len(c) = i + 1 /\ c[i + 1] = e
          /\ \A j \in 1 .. i : c[j] = a[j]
      BY <1>1, <3>1, <3>3
    <3> HIDE DEF c
    <3>5. \A j \in 1 .. (i + 1) : j \in 1 .. i \/ j = i + 1
      BY <1>1
    <3>6. \A j \in 1 .. (i + 1) : b[j] = c[j]
      BY <3>1, <3>2, <3>3, <3>4, <3>5
    <3>7. b = c
      BY ONLY <3>2, <3>4, <3>6, SeqEqual
    <3> QED
      BY <3>7 DEF a, b, c, e
  <2> QED
    BY <1>4, <2>1, <2>2, <2>3, JoinedAppend DEF JoinedTo
<1> QED
  BY <1>2, <1>3, <1>5, <1>6

(* The records of a file lie one behind the other.                          *)
LEMMA JoinedPieces ==
    ASSUME NEW R, NEW ser \in [R -> Seq(Nat)], NEW recs \in Seq(R)
    PROVE  /\ JoinedEnd(ser, recs, 0) = 0 /\ JoinedEnd(ser, recs, Len(recs)) = Len(Joined(ser, recs))
           /\ \A i \in 0 .. Len(recs) :
                 /\ JoinedEnd(ser, recs, i) \in Nat /\ JoinedEnd(ser, recs, i) <= Len(Joined(ser, recs))
                 /\ HasAt(Joined(ser, recs), 0, JoinedTo(ser, recs, i))
           /\ \A i \in 0 .. (Len(recs) - 1) :
                 /\ HasAt(Joined(ser, recs), JoinedEnd(ser, recs, i), ser[recs[i + 1]])
                 /\ JoinedEnd(ser, recs, i + 1) = JoinedEnd(ser, recs, i) + Len(ser[recs[i + 1]])
<1> DEFINE n == Len(recs)
           file == Joined(ser, recs)
           F(i) == JoinedTo(ser, recs, i)
           s(i) == ser[recs[i + 1]]
           T == {k \in Nat : k <= n => HasAt(file, 0, F(n - k))}
<1>1. /\ n \in Nat /\ F(0) = <<>> /\ F(n) = file /\ \A i \in 0 .. n : F(i) \in Seq(Nat)
      /\ \A i \in 0 .. (n - 1) : F(i + 1) = F(i) \o s(i)
  <2>1. n \in Nat
    OBVIOUS
  <2>2. recs \in Seq(R) /\ ser \in [R -> Seq(Nat)]
    OBVIOUS
  <2> QED
    BY ONLY <2>1, <2>2, JoinedParts, Zenon
<1>2. \A i \in 0 .. (n - 1) : s(i) \in Seq(Nat) /\ i \in 0 .. n /\ i + 1 \in 0 .. n
  <2> SUFFICES ASSUME NEW i \in 0 .. (n - 1)
               PROVE  s(i) \in Seq(Nat) /\ i \in 0 .. n /\ i + 1 \in 0 .. n
    OBVIOUS
  <2>1. i + 1 \in 1 .. n /\ i \in 0 .. n /\ i + 1 \in 0 .. n
    BY <1>1
  <2>2. recs[i + 1] \in R
    BY <2>1
  <2> QED
    BY <2>1, <2>2
<1>3. file \in Seq(Nat)
  BY JoinedType
<1> HIDE DEF n, file, F, s
<1>4. 0 \in T
  <2>1. n - 0 = n /\ HasAt(file, 0, file)
    <3>1. n - 0 = n /\ Len(file) \in Nat
      BY <1>1, <1>3
    <3> QED
      BY <3>1 DEF HasAt
  <2> QED
    BY <1>1, <2>1
<1>5. ASSUME NEW k \in Nat, k \in T PROVE k + 1 \in T
  <2> SUFFICES ASSUME k + 1 <= n PROVE HasAt(file, 0, F(n - (k + 1)))
    OBVIOUS
  <2> DEFINE i == n - (k + 1)
  <2>1. i \in 0 .. (n - 1) /\ i + 1 = n - k /\ k <= n
    BY <1>1
  <2>2. HasAt(file, 0, F(i + 1))
    <3>1. HasAt(file, 0, F(n - k))
      BY <1>5, <2>1
    <3> QED
      BY <2>1, <3>1
  <2> HIDE DEF i
  <2>3. HasAt(file, 0, F(i) \o s(i)) /\ F(i) \in Seq(Nat) /\ s(i) \in Seq(Nat)
    BY <1>1, <1>2, <2>1, <2>2
  <2>4. HasAt(file, 0, F(i))
    BY <1>3, <2>3, HasParts
  <2> QED
    BY <2>4 DEF i
<1>6. T = Nat
  <2> HIDE DEF T
  <2>1. T \in SUBSET Nat
    BY DEF T
  <2> QED
    BY <1>4, <1>5, <2>1, InductionOnSet
<1>7. ASSUME NEW i \in 0 .. n
      PROVE  HasAt(file, 0, F(i)) /\ Len(F(i)) \in Nat /\ Len(F(i)) <= Len(file)
  <2>1. n - i \in Nat /\ n - i <= n /\ n - (n - i) = i
    BY <1>1
  <2>2. n - i \in T
    <3> HIDE DEF T
    <3> QED
      BY <1>6, <2>1
  <2>3. HasAt(file, 0, F(i))
    BY <2>1, <2>2
  <2>4. F(i) \in Seq(Nat)
    BY <1>1
  <2>5. Len(F(i)) \in Nat
    BY <2>4
  <2> QED
    BY <2>3, <2>5 DEF HasAt
<1>8. ASSUME NEW i \in 0 .. (n - 1)
      PROVE  HasAt(file, Len(F(i)), s(i)) /\ Len(F(i + 1)) = Len(F(i)) + Len(s(i))
  <2>1. HasAt(file, 0, F(i) \o s(i)) /\ F(i) \in Seq(Nat) /\ s(i) \in Seq(Nat)
        /\ F(i + 1) = F(i) \o s(i)
    BY <1>1, <1>2, <1>7
  <2> QED
    BY <1>3, <2>1, HasParts
<1>9. Len(F(0)) = 0 /\ Len(F(n)) = Len(file)
  BY <1>1
<1> QED
  BY <1>7, <1>8, <1>9 DEF JoinedEnd, F, n, file, s

(* The first cells of a file that holds x at its start and y behind it.     *)
LEMMA CutAfter ==
    ASSUME NEW file \in Seq(Nat), NEW x \in Seq(Nat), NEW y \in Seq(Nat),
           HasAt(file, 0, x), HasAt(file, Len(x), y), NEW k \in 0 .. Len(y)
    PROVE  SubSeq(file, 1, Len(x) + k) = x \o SubSeq(y, 1, k)
<1> DEFINE n == Len(x)
           m == Len(file)
           a == SubSeq(file, 1, n + k)
           z == SubSeq(y, 1, k)
           b == x \o z
<1>1. n \in Nat /\ m \in Nat /\ k \in Nat /\ Len(y) \in Nat /\ k <= Len(y)
  OBVIOUS
<1>2. /\ n + Len(y) <= m /\ \A j \in 1 .. n : file[0 + j] = x[j]
      /\ \A j \in 1 .. Len(y) : file[n + j] = y[j]
  BY DEF HasAt
<1>3. z \in Seq(Nat) /\ Len(z) = k /\ \A j \in 1 .. k : z[j] = y[j]
  BY <1>1
<1> HIDE DEF z, n, m
<1>4. n + k <= m /\ n + k \in Nat
  BY <1>1, <1>2
<1>5. a \in Seq(Nat) /\ Len(a) = n + k /\ \A j \in 1 .. (n + k) : a[j] = file[j]
  BY <1>1, <1>4 DEF m
<1>6. b \in Seq(Nat) /\ Len(b) = n + k
  BY <1>3, HasEnd DEF n
<1>7. \A j \in 1 .. (n + k) : a[j] = b[j]
  <2> SUFFICES ASSUME NEW j \in 1 .. (n + k) PROVE a[j] = b[j]
    OBVIOUS
  <2>1. a[j] = file[j]
    BY <1>5
  <2>2. CASE j <= n
    <3>1. b[j] = x[j]
      BY <1>1, <1>3, <2>2 DEF n
    <3>2. file[0 + j] = x[j] /\ 0 + j = j
      BY <1>1, <1>2, <2>2
    <3> QED
      BY <2>1, <3>1, <3>2
  <2>3. CASE ~(j <= n)
    <3>1. j - n \in 1 .. k /\ n + (j - n) = j /\ j - n \in 1 .. Len(y)
      BY <1>1, <2>3
    <3>2. \A i \in 1 .. k : b[n + i] = z[i]
      BY <1>1, <1>3 DEF n
    <3>3. b[n + (j - n)] = z[j - n]
      BY <3>1, <3>2
    <3>4. file[n + (j - n)] = y[j - n]
      BY <1>2, <3>1
    <3> QED
      BY <1>3, <2>1, <3>1, <3>3, <3>4
  <2> QED
    BY <2>2, <2>3
<1> HIDE DEF a, b
<1>8. a = b
  BY ONLY <1>5, <1>6, <1>7, SeqEqual
<1> QED
  BY <1>8 DEF a, b, z, n

(* Such a file cut anywhere is its whole records and less than one more.    *)
JoinedCut(ser, recs, cut, n, k, next) ==
    /\ Max({i \in 0 .. Len(recs) : JoinedEnd(ser, recs, i) <= cut}) = n
    /\ k < Len(ser[next]) /\ cut = JoinedEnd(ser, recs, n) + k
    /\ SubSeq(Joined(ser, recs), 1, cut)
         = JoinedTo(ser, recs, n) \o SubSeq(ser[next], 1, k)

(* A file cut anywhere is its whole records and less than one more.         *)
LEMMA JoinedCutIs ==
    ASSUME NEW R, NEW ser \in [R -> Seq(Nat)], NEW recs \in Seq(R), NEW other \in R,
           \A r \in R : Len(ser[r]) > 0, NEW cut \in 0 .. Len(Joined(ser, recs))
    PROVE  \E n \in 0 .. Len(recs), k \in Nat, next \in R :
              JoinedCut(ser, recs, cut, n, k, next)
<1> DEFINE file == Joined(ser, recs)
           m == Len(recs)
           e(i) == JoinedEnd(ser, recs, i)
           I == {i \in 0 .. m : e(i) <= cut}
           n == Max(I)
           k == cut - e(n)
           F(i) == JoinedTo(ser, recs, i)
<1>1. m \in Nat
  OBVIOUS
<1>2. file \in Seq(Nat) /\ Len(file) \in Nat /\ cut \in Nat /\ cut <= Len(file)
  <2>1. recs \in Seq(R) /\ ser \in [R -> Seq(Nat)]
    OBVIOUS
  <2>2. file \in Seq(Nat)
    BY ONLY <2>1, JoinedType, Zenon
  <2>3. cut \in 0 .. Len(file)
    OBVIOUS
  <2> HIDE DEF file
  <2> QED
    BY <2>2, <2>3
<1>3. /\ e(0) = 0 /\ e(m) = Len(file)
      /\ \A i \in 0 .. m : e(i) \in Nat /\ HasAt(file, 0, F(i))
      /\ \A i \in 0 .. (m - 1) :
            HasAt(file, e(i), ser[recs[i + 1]]) /\ e(i + 1) = e(i) + Len(ser[recs[i + 1]])
  <2>1. recs \in Seq(R) /\ ser \in [R -> Seq(Nat)]
    OBVIOUS
  <2> QED
    BY ONLY <2>1, JoinedPieces, Zenon
<1>4. \A i \in 0 .. m : F(i) \in Seq(Nat) /\ Len(F(i)) = e(i)
  BY JoinedParts DEF JoinedEnd
<1>5. \A r \in R : ser[r] \in Seq(Nat) /\ Len(ser[r]) \in Nat
  OBVIOUS
<1> HIDE DEF file, m, e, F
<1>7. n \in I /\ \A i \in I : i <= n
  <2>1. I \in SUBSET Nat /\ 0 \in I /\ \A i \in I : i <= m
    BY <1>1, <1>2, <1>3
  <2> HIDE DEF I
  <2>2. \E x \in I : \A y \in I : y <= x
    BY <1>1, <2>1, NatGreatest
  <2>3. \A x, y \in I : y <= x <=> x >= y
    BY <2>1
  <2>4. n \in I /\ \A y \in I : n >= y
    BY <2>2, <2>3 DEF Max
  <2> QED
    BY <2>3, <2>4
<1>8. n \in 0 .. m /\ e(n) <= cut
  BY <1>7
<1>9. \A i \in 0 .. m : e(i) <= cut => i <= n
  BY <1>7
<1>6. n = Max({i \in 0 .. m : e(i) <= cut})
  OBVIOUS
<1> HIDE DEF n, I
<1>10. k \in Nat /\ cut = e(n) + k /\ e(n) \in Nat
  BY <1>2, <1>3, <1>8
<1>11. F(n) \in Seq(Nat) /\ Len(F(n)) = e(n) /\ HasAt(file, 0, F(n))
  BY <1>3, <1>4, <1>8
<1> HIDE DEF k
<1>12. CASE n = m
  <2>1. k = 0
    BY <1>2, <1>3, <1>10, <1>12
  <2> DEFINE nil == <<>>
  <2>2. nil \in Seq(Nat) /\ Len(nil) = 0 /\ SubSeq(nil, 1, 0) = nil /\ 0 \in 0 .. Len(nil)
    OBVIOUS
  <2> HIDE DEF nil
  <2>3. HasAt(file, Len(F(n)), nil)
    <3>1. Len(F(n)) + 0 <= Len(file)
      BY <1>2, <1>3, <1>11, <1>12
    <3> QED
      BY <2>2, <3>1 DEF HasAt
  <2>4. SubSeq(file, 1, cut) = F(n) \o nil
    <3>1. SubSeq(file, 1, Len(F(n)) + 0) = F(n) \o SubSeq(nil, 1, 0)
      BY <1>2, <1>11, <2>2, <2>3, CutAfter
    <3>2. Len(F(n)) + 0 = cut
      BY <1>10, <1>11, <2>1
    <3> QED
      BY <2>2, <3>1, <3>2
  <2>5. SubSeq(ser[other], 1, k) = <<>>
    BY <1>5, <2>1
  <2>6. SubSeq(file, 1, cut) = F(n) \o SubSeq(ser[other], 1, k)
    BY <2>4, <2>5 DEF nil
  <2>7. k < Len(ser[other])
    BY <1>5, <2>1
  <2>8. JoinedCut(ser, recs, cut, n, k, other)
    BY <1>6, <1>10, <2>6, <2>7 DEF JoinedCut, file, m, e, F
  <2> QED
    BY <1>8, <1>10, <2>8 DEF m
<1>13. CASE n # m
  <2> DEFINE next == recs[n + 1]
             s == ser[next]
  <2>1. n \in 0 .. (m - 1) /\ n + 1 \in 0 .. m /\ n + 1 \in 1 .. m /\ ~(n + 1 <= n)
    BY <1>1, <1>8, <1>13
  <2>2. next \in R
    BY <2>1 DEF m
  <2>3. s \in Seq(Nat) /\ Len(s) \in Nat
    BY <1>5, <2>2
  <2>4. HasAt(file, e(n), s) /\ e(n + 1) = e(n) + Len(s)
    BY <1>3, <2>1
  <2>5. ~(e(n + 1) <= cut)
    BY <1>9, <2>1
  <2> HIDE DEF s, next
  <2>6. k < Len(s)
    BY <1>2, <1>3, <1>10, <2>3, <2>4, <2>5
  <2>7. SubSeq(file, 1, Len(F(n)) + k) = F(n) \o SubSeq(s, 1, k)
    <3>1. k \in 0 .. Len(s)
      BY <1>10, <2>3, <2>6
    <3>2. HasAt(file, Len(F(n)), s)
      BY <1>11, <2>4
    <3> QED
      BY <1>2, <1>11, <2>3, <3>1, <3>2, CutAfter
  <2>8. SubSeq(file, 1, cut) = F(n) \o SubSeq(ser[next], 1, k)
    BY <1>10, <1>11, <2>7 DEF s
  <2>9. JoinedCut(ser, recs, cut, n, k, next)
    BY <1>6, <1>10, <2>6, <2>8 DEF JoinedCut, file, m, e, F, s
  <2> QED
    BY <1>8, <1>10, <2>2, <2>9 DEF m
<1> QED
  BY <1>12, <1>13

(* The records of files.                                                    *)
KvRecords == {KvWalRecord(flags, kv) : flags \in Nat, kv \in KeyValues}

(* A record says its length and is read back from its cells.                *)
LEMMA RecordOf ==
    ASSUME NEW rec \in KvRecords
    PROVE  /\ serialize(rec) \in Seq(Nat) /\ rec.rec_len \in Nat
           /\ Len(serialize(rec)) = rec.rec_len /\ serialize(rec)[4] = rec.rec_len
           /\ rec.rec_len > 5 /\ deserialize(serialize(rec)) = <<rec>>
<1>1. PICK flags \in Nat, kv \in KeyValues : rec = KvWalRecord(flags, kv)
  BY DEF KvRecords
<1>2. rec.rec_len > KvHeader + KvCrc
  BY <1>1, RecordBytes
<1>3. KvHeader + KvCrc = 5
  BY DEF KvHeader, KvCrc
<1> QED
  BY <1>1, <1>2, <1>3, RecordBytes

(* A serialised record is not empty.                                        *)
LEMMA RecordCells ==
    \A rec \in KvRecords :
        serialize(rec) \in Seq(Nat) /\ Len(serialize(rec)) \in Nat /\ Len(serialize(rec)) > 0
<1> SUFFICES ASSUME NEW rec \in KvRecords
             PROVE  serialize(rec) \in Seq(Nat) /\ Len(serialize(rec)) \in Nat
                    /\ Len(serialize(rec)) > 0
  OBVIOUS
<1>1. /\ serialize(rec) \in Seq(Nat) /\ rec.rec_len \in Nat
      /\ Len(serialize(rec)) = rec.rec_len /\ rec.rec_len > 5
  BY ONLY rec \in KvRecords, RecordOf, Zenon
<1>2. Len(serialize(rec)) > 5 /\ Len(serialize(rec)) \in Nat
  BY ONLY <1>1, Zenon
<1>3. \A l \in Nat : l > 5 => l > 0
  OBVIOUS
<1> QED
  BY ONLY <1>1, <1>2, <1>3, Zenon

(* A file is its records one behind the other.                              *)
KvSer == [r \in KvRecords |-> serialize(r)]

(* KvSer is serialize as a function.                                        *)
LEMMA KvSerIs ==
    /\ KvSer \in [KvRecords -> Seq(Nat)]
    /\ \A r \in KvRecords : KvSer[r] = serialize(r) /\ Len(KvSer[r]) > 0
<1>1. \A r \in KvRecords : serialize(r) \in Seq(Nat) /\ Len(serialize(r)) > 0
  BY RecordCells, Zenon
<1>2. \A r \in KvRecords : KvSer[r] = serialize(r)
  BY DEF KvSer
<1>3. KvSer \in [KvRecords -> Seq(Nat)]
  BY <1>1 DEF KvSer
<1> QED
  BY <1>1, <1>2, <1>3

(* FileOf joins the serialised records.                                     *)
LEMMA FileIs ==
    ASSUME NEW recs \in Seq(KvRecords)
    PROVE  FileOf(recs) = Joined(KvSer, recs)
<1>1. \A i \in DOMAIN recs : recs[i] \in KvRecords
  OBVIOUS
<1>2. \A i \in DOMAIN recs : KvSer[recs[i]] = serialize(recs[i])
  BY <1>1, KvSerIs
<1>3. [i \in DOMAIN recs |-> KvSer[recs[i]]] = [i \in DOMAIN recs |-> serialize(recs[i])]
  BY <1>2, Zenon
<1> QED
  BY <1>3, Zenon DEF FileOf, Joined

(* A log of one record more.                                                *)
LEMMA FileAppend ==
    ASSUME NEW recs \in Seq(KvRecords), NEW rec \in KvRecords
    PROVE  /\ FileOf(recs) \in Seq(Nat)
           /\ FileOf(Append(recs, rec)) = FileOf(recs) \o serialize(rec)
<1>1. KvSer \in [KvRecords -> Seq(Nat)] /\ KvSer[rec] = serialize(rec)
  BY KvSerIs
<1>2. Append(recs, rec) \in Seq(KvRecords)
  OBVIOUS
<1>3. FileOf(recs) = Joined(KvSer, recs)
      /\ FileOf(Append(recs, rec)) = Joined(KvSer, Append(recs, rec))
  BY <1>2, FileIs
<1>4. recs \in Seq(KvRecords) /\ rec \in KvRecords
  OBVIOUS
<1>5. /\ Joined(KvSer, recs) \in Seq(Nat)
      /\ Joined(KvSer, Append(recs, rec)) = Joined(KvSer, recs) \o KvSer[rec]
  BY ONLY <1>1, <1>4, JoinedAppend, Zenon
<1> QED
  BY ONLY <1>1, <1>3, <1>5, Zenon

(* A log is cells.                                                          *)
LEMMA FileType ==
    ASSUME NEW recs \in Seq(KvRecords)
    PROVE  FileOf(recs) \in Seq(Nat)
<1>1. recs \in Seq(KvRecords) /\ KvSer \in [KvRecords -> Seq(Nat)]
  BY KvSerIs
<1>2. Joined(KvSer, recs) \in Seq(Nat)
  BY ONLY <1>1, JoinedType, Zenon
<1> QED
  BY <1>2, FileIs

(* The file of the first i records, and where it ends.                      *)
FirstOf(recs, i) == FileOf(SubSeq(recs, 1, i))
EndOf(recs, i) == Len(FirstOf(recs, i))

(* The first records of a log and where they end, as of any joined file.    *)
LEMMA FirstIs ==
    ASSUME NEW recs \in Seq(KvRecords), NEW i \in 0 .. Len(recs)
    PROVE  /\ FirstOf(recs, i) = JoinedTo(KvSer, recs, i)
           /\ EndOf(recs, i) = JoinedEnd(KvSer, recs, i)
<1>1. SubSeq(recs, 1, i) \in Seq(KvRecords)
  OBVIOUS
<1>2. FirstOf(recs, i) = JoinedTo(KvSer, recs, i)
  BY <1>1, FileIs DEF FirstOf, JoinedTo
<1> QED
  BY <1>2, Zenon DEF EndOf, JoinedEnd

(* The records of a log lie one behind the other.                           *)
LEMMA FilePieces ==
    ASSUME NEW recs \in Seq(KvRecords)
    PROVE  /\ EndOf(recs, 0) = 0 /\ EndOf(recs, Len(recs)) = Len(FileOf(recs))
           /\ \A i \in 0 .. Len(recs) :
                 /\ EndOf(recs, i) \in Nat /\ EndOf(recs, i) <= Len(FileOf(recs))
                 /\ HasAt(FileOf(recs), 0, FirstOf(recs, i))
           /\ \A i \in 0 .. (Len(recs) - 1) :
                 /\ HasAt(FileOf(recs), EndOf(recs, i), serialize(recs[i + 1]))
                 /\ EndOf(recs, i + 1) = EndOf(recs, i) + Len(serialize(recs[i + 1]))
<1> DEFINE n == Len(recs)
           j(i) == JoinedEnd(KvSer, recs, i)
<1>1. recs \in Seq(KvRecords) /\ KvSer \in [KvRecords -> Seq(Nat)]
  BY KvSerIs
<1>2. n \in Nat /\ FileOf(recs) = Joined(KvSer, recs)
  BY FileIs
<1>3. \A i \in 0 .. n : FirstOf(recs, i) = JoinedTo(KvSer, recs, i) /\ EndOf(recs, i) = j(i)
  BY FirstIs
<1>4. /\ j(0) = 0 /\ j(n) = Len(Joined(KvSer, recs))
      /\ \A i \in 0 .. n :
            /\ j(i) \in Nat /\ j(i) <= Len(Joined(KvSer, recs))
            /\ HasAt(Joined(KvSer, recs), 0, JoinedTo(KvSer, recs, i))
      /\ \A i \in 0 .. (n - 1) :
            /\ HasAt(Joined(KvSer, recs), j(i), KvSer[recs[i + 1]])
            /\ j(i + 1) = j(i) + Len(KvSer[recs[i + 1]])
  BY ONLY <1>1, JoinedPieces, Zenon
<1>5. \A i \in 0 .. (n - 1) :
         KvSer[recs[i + 1]] = serialize(recs[i + 1]) /\ i \in 0 .. n /\ i + 1 \in 0 .. n
  <2> SUFFICES ASSUME NEW i \in 0 .. (n - 1)
               PROVE  KvSer[recs[i + 1]] = serialize(recs[i + 1])
                      /\ i \in 0 .. n /\ i + 1 \in 0 .. n
    OBVIOUS
  <2>1. i + 1 \in 1 .. n /\ i \in 0 .. n /\ i + 1 \in 0 .. n
    BY <1>2
  <2>2. recs[i + 1] \in KvRecords
    BY <2>1
  <2> QED
    BY <2>1, <2>2, KvSerIs
<1>6. 0 \in 0 .. n /\ n \in 0 .. n
  BY <1>2
<1> QED
  BY ONLY <1>2, <1>3, <1>4, <1>5, <1>6, Zenon

(* The record at a place of a file, as the scan reads it.                   *)
RecAt(file, c) ==
    LET left == DropCells(file, c) IN
    IF left[4] > Len(left) THEN <<>> ELSE deserialize(SubSeq(left, 1, left[4]))

Ended(c) == [recs |-> <<>>, cur |-> c, ok |-> TRUE]

(* The equation of scan_kv_file at each position.                           *)
LEMMA ScanExists ==
    ASSUME NEW file \in Seq(Nat)
    PROVE  \A c \in 0 .. Len(file) : LET left == DropCells(file, c) IN
              ScanKv(file)[c] =
                 IF Len(left) < KvHeader THEN Ended(c)
                 ELSE IF left[4] < KvHeader + KvCrc
                 THEN [recs |-> <<>>, cur |-> c, ok |-> FALSE]
                 ELSE IF RecAt(file, c) = <<>> THEN Ended(c)
                 ELSE [ScanKv(file)[c + left[4]] EXCEPT !.recs = RecAt(file, c) \o @]
<1> DEFINE n == Len(file)
           left(c) == DropCells(file, c)
           rec(c) == RecAt(file, c)
           short(c) == Len(left(c)) < KvHeader
           bad(c) == left(c)[4] < KvHeader + KvCrc
           Failed(c) == [recs |-> <<>>, cur |-> c, ok |-> FALSE]
           more(x, c) == [x EXCEPT !.recs = rec(c) \o @]
           Body(t, c) == IF short(c) THEN Ended(c) ELSE IF bad(c) THEN Failed(c)
                         ELSE IF rec(c) = <<>> THEN Ended(c)
                         ELSE more(t[c + left(c)[4]], c)
           Good(t) == t = [c \in 0 .. n |-> Body(t, c)]
           stop(c) == short(c) \/ bad(c) \/ rec(c) = <<>>
           R == {rec(c)[1] : c \in 0 .. n}
           X == [recs : Seq(R), cur : 0 .. n, ok : BOOLEAN]
<1>1. n \in Nat
  OBVIOUS
<1>2. ASSUME NEW c \in 0 .. n, ~stop(c)
      PROVE  /\ c + left(c)[4] \in (c + 1) .. n /\ rec(c) \in Seq(R)
  <2>1. left(c) \in Seq(Nat) /\ Len(left(c)) = n - c
    BY DropDef
  <2>2. ~(Len(left(c)) < 4) /\ ~(left(c)[4] < 5) /\ rec(c) # <<>>
    BY <1>2 DEF KvHeader, KvCrc
  <2>3. rec(c) = IF left(c)[4] > Len(left(c)) THEN <<>>
                 ELSE deserialize(SubSeq(left(c), 1, left(c)[4]))
    BY DEF RecAt
  <2>4. rec(c)[1] \in R
    OBVIOUS
  <2>5. rec(c) = <<rec(c)[1]>>
    <3>1. \A d : deserialize(d) = <<>> \/ \E r : deserialize(d) = <<r>>
      BY DEF deserialize
    <3>2. PICK r : rec(c) = <<r>>
      <4> HIDE DEF rec, left
      <4> QED
        BY <2>2, <2>3, <3>1
    <3> HIDE DEF rec
    <3> QED
      BY <3>2
  <2> HIDE DEF left, rec, R
  <2>6. left(c)[4] \in Nat
    <3>1. 4 \in 1 .. Len(left(c))
      BY <1>1, <2>1, <2>2
    <3> QED
      BY <2>1, <3>1, SMTT(40)
  <2>7. c + left(c)[4] \in (c + 1) .. n
    <3> DEFINE y == left(c)[4]
               m == Len(left(c))
    <3>1. y \in Nat /\ m = n - c /\ ~(y < 5) /\ ~(y > m)
      BY <2>1, <2>2, <2>3, <2>6
    <3> HIDE DEF y, m
    <3>2. c + y \in (c + 1) .. n
      BY <1>1, <3>1
    <3> QED
      BY <3>2 DEF y
  <2>8. <<rec(c)[1]>> \in Seq(R)
    BY <2>4
  <2> QED
    BY <2>5, <2>7, <2>8
<1>3. ScanKv(file) = CHOOSE t : Good(t)
  BY DEF ScanKv, RecAt, Ended
<1> HIDE DEF left, rec, short, bad, n, R
<1>4. \A c \in 0 .. n : Ended(c) \in X /\ Failed(c) \in X
  <2>1. <<>> \in Seq(R)
    OBVIOUS
  <2> QED
    BY <2>1 DEF Ended
<1>5. ASSUME NEW c \in 0 .. n, ~stop(c), NEW x \in X PROVE more(x, c) \in X
  <2>1. x.recs \in Seq(R) /\ rec(c) \in Seq(R)
    BY <1>2, <1>5
  <2>2. rec(c) \o x.recs \in Seq(R)
    BY <2>1
  <2> QED
    BY <2>2
<1> HIDE DEF X, more, Failed
<1> DEFINE nx == [c \in 0 .. n |-> IF stop(c) THEN 0 ELSE c + left(c)[4]]
           base == [c \in 0 .. n |-> IF short(c) THEN Ended(c) ELSE IF bad(c) THEN Failed(c)
                                     ELSE Ended(c)]
           g == [c \in 0 .. n |-> [x \in X |-> IF stop(c) THEN x ELSE more(x, c)]]
<1>6. nx \in [0 .. n -> Nat]
  <2>1. \A c \in 0 .. n : ~stop(c) => c + left(c)[4] \in Nat
    <3>1. \A c \in 0 .. n : \A y \in (c + 1) .. n : y \in Nat
      BY <1>1
    <3> QED
      BY <1>2, <3>1
  <2> HIDE DEF stop
  <2> QED
    BY <2>1
<1>7. base \in [0 .. n -> X]
  BY <1>4
<1>8. g \in [0 .. n -> [X -> X]]
  <2> HIDE DEF stop
  <2> QED
    BY <1>5
<1>9. PICK t \in [0 .. n -> X] : LaterSolution(t, n, g, base, nx)
  <2> HIDE DEF nx, g, base
  <2> QED
    BY ONLY <1>1, <1>6, <1>7, <1>8, LaterRecursion, Zenon
<1>10. ASSUME NEW c \in 0 .. n PROVE t[c] = Body(t, c)
  <2>1. CASE stop(c)
    <3>1. nx[c] = 0 /\ ~(0 \in (c + 1) .. n)
      BY <2>1
    <3>2. t[c] = base[c]
      <4> HIDE DEF nx, g, base
      <4> QED
        BY <1>9, <3>1 DEF LaterSolution
    <3>3. base[c] = IF short(c) THEN Ended(c) ELSE IF bad(c) THEN Failed(c) ELSE Ended(c)
      OBVIOUS
    <3> HIDE DEF base
    <3> QED
      BY <2>1, <3>2, <3>3
  <2>2. CASE ~stop(c)
    <3> DEFINE y == c + left(c)[4]
    <3>1. nx[c] = y /\ y \in (c + 1) .. n
      BY <1>2, <2>2
    <3> HIDE DEF y
    <3>2. t[c] = g[c][t[y]]
      <4> HIDE DEF nx, g, base
      <4> QED
        BY <1>9, <3>1 DEF LaterSolution
    <3>3. t[y] \in X
      <4>1. y \in 0 .. n
        BY <1>1, <3>1
      <4> QED
        BY <4>1
    <3>4. g[c][t[y]] = more(t[y], c)
      <4> HIDE DEF stop
      <4> QED
        BY <2>2, <3>3
    <3>5. Body(t, c) = more(t[y], c)
      BY <2>2 DEF y
    <3> QED
      BY <3>2, <3>4, <3>5
  <2> QED
    BY <2>1, <2>2
<1>11. Good(ScanKv(file))
  <2>1. Good(t)
    <3> HIDE DEF Body
    <3> QED
      BY <1>10
  <2> HIDE DEF Good
  <2> QED
    BY <1>3, <2>1
<1>12. \A c \in 0 .. n : ScanKv(file)[c] = Body(ScanKv(file), c)
  <2> DEFINE s == ScanKv(file)
  <2>1. s = [c \in 0 .. n |-> Body(s, c)]
    BY <1>11
  <2> HIDE DEF s, Body
  <2>2. \A c \in 0 .. n : s[c] = Body(s, c)
    BY <2>1
  <2> QED
    BY <2>2 DEF s
<1> QED
  BY <1>12, Zenon DEF n, left, rec, short, bad, Failed, more

(* The equation of count_wal_records at each position.                      *)
LEMMA CountExists ==
    ASSUME NEW data \in Seq(Nat)
    PROVE  \A c \in 0 .. Len(data) :
              CountFrom(data)[c] =
                 IF \/ c + KvHeader + KvCrc > Len(data)
                    \/ data[c + 4] < KvHeader + KvCrc
                    \/ data[c + 4] > Len(data) - c
                 THEN 0 ELSE 1 + CountFrom(data)[c + data[c + 4]]
<1> DEFINE n == Len(data)
           stop(c) == \/ c + KvHeader + KvCrc > n \/ data[c + 4] < KvHeader + KvCrc
                      \/ data[c + 4] > n - c
           Body(t, c) == IF stop(c) THEN 0 ELSE 1 + t[c + data[c + 4]]
           Good(t) == t = [c \in 0 .. n |-> Body(t, c)]
           X == Nat
<1>1. n \in Nat /\ \A j \in 1 .. n : data[j] \in Nat
  OBVIOUS
<1>2. CountFrom(data) = CHOOSE t : Good(t)
  BY DEF CountFrom
<1> HIDE DEF n
<1>3. ASSUME NEW c \in 0 .. n, ~stop(c) PROVE c + data[c + 4] \in (c + 1) .. n
  <2>1. c + 4 \in 1 .. n
    BY <1>1, <1>3 DEF KvHeader, KvCrc
  <2> DEFINE y == data[c + 4]
  <2>2. y \in Nat /\ ~(y < 5) /\ ~(y > n - c)
    BY <1>1, <1>3, <2>1 DEF KvHeader, KvCrc
  <2> HIDE DEF y
  <2>3. c + y \in (c + 1) .. n
    BY <1>1, <2>2
  <2> QED
    BY <2>3 DEF y
<1> HIDE DEF stop
<1> DEFINE nx == [c \in 0 .. n |-> IF stop(c) THEN 0 ELSE c + data[c + 4]]
           base == [c \in 0 .. n |-> 0]
           g == [c \in 0 .. n |-> [x \in X |-> 1 + x]]
<1>4. nx \in [0 .. n -> Nat]
  <2>1. \A c \in 0 .. n : \A y \in (c + 1) .. n : y \in Nat
    BY <1>1
  <2> QED
    BY <1>3, <2>1
<1>5. base \in [0 .. n -> X] /\ g \in [0 .. n -> [X -> X]]
  OBVIOUS
<1>6. PICK t \in [0 .. n -> X] : LaterSolution(t, n, g, base, nx)
  <2> HIDE DEF nx, g, base, X
  <2> QED
    BY ONLY <1>1, <1>4, <1>5, LaterRecursion, Zenon
<1>7. ASSUME NEW c \in 0 .. n PROVE t[c] = Body(t, c)
  <2>1. CASE stop(c)
    <3>1. nx[c] = 0 /\ ~(0 \in (c + 1) .. n) /\ base[c] = 0
      BY <2>1
    <3>2. t[c] = base[c]
      <4> HIDE DEF nx, g, base
      <4> QED
        BY <1>6, <3>1 DEF LaterSolution
    <3> HIDE DEF base
    <3> QED
      BY <2>1, <3>1, <3>2
  <2>2. CASE ~stop(c)
    <3> DEFINE y == c + data[c + 4]
    <3>1. nx[c] = y /\ y \in (c + 1) .. n
      BY <1>3, <2>2
    <3> HIDE DEF y
    <3>2. t[c] = g[c][t[y]]
      <4> HIDE DEF nx, g, base
      <4> QED
        BY <1>6, <3>1 DEF LaterSolution
    <3>3. t[y] \in X
      <4>1. y \in 0 .. n
        BY <1>1, <3>1
      <4> QED
        BY <4>1
    <3>4. g[c][t[y]] = 1 + t[y]
      BY <3>3
    <3> QED
      BY <2>2, <3>2, <3>4 DEF y
  <2> QED
    BY <2>1, <2>2
<1>8. Good(CountFrom(data))
  <2>1. Good(t)
    <3> HIDE DEF Body
    <3> QED
      BY <1>7
  <2> HIDE DEF Good
  <2> QED
    BY <1>2, <2>1
<1>9. \A c \in 0 .. n : CountFrom(data)[c] = Body(CountFrom(data), c)
  <2> DEFINE s == CountFrom(data)
  <2>1. s = [c \in 0 .. n |-> Body(s, c)]
    BY <1>8
  <2> HIDE DEF s, Body
  <2>2. \A c \in 0 .. n : s[c] = Body(s, c)
    BY <2>1
  <2> QED
    BY <2>2 DEF s
<1> QED
  BY <1>9, Zenon DEF n, stop

(* Where a record lies in a file, the scan reads it and goes on behind it,  *)
(* and the count counts it.                                                 *)
LEMMA ScanStep ==
    ASSUME NEW file \in Seq(Nat), NEW c \in Nat, NEW rec \in KvRecords,
           HasAt(file, c, serialize(rec))
    PROVE  LET next == c + Len(serialize(rec)) IN
           /\ ScanKv(file)[c] = [ScanKv(file)[next] EXCEPT !.recs = <<rec>> \o @]
           /\ CountFrom(file)[c] = 1 + CountFrom(file)[next]
<1> DEFINE s == serialize(rec)
           m == Len(s)
           n == Len(file)
           left == DropCells(file, c)
<1>1. /\ s \in Seq(Nat) /\ m \in Nat /\ s[4] = m /\ m > 5 /\ deserialize(s) = <<rec>>
  BY RecordOf
<1>2. n \in Nat /\ c + m <= n /\ \A j \in 1 .. m : file[c + j] = s[j]
  BY DEF HasAt
<1> HIDE DEF s
<1>3. m = Len(s)
  OBVIOUS
<1> HIDE DEF m
<1>4. c \in 0 .. n /\ 4 \in 1 .. m
  BY <1>1, <1>2
<1>5. /\ left \in Seq(Nat) /\ Len(left) = n - c
      /\ \A j \in 1 .. (n - c) : left[j] = file[c + j]
  BY <1>4, DropDef
<1> HIDE DEF left
<1>6. \A j \in 1 .. m : left[j] = s[j]
  <2>1. \A j \in 1 .. m : j \in 1 .. (n - c)
    BY <1>1, <1>2
  <2> QED
    BY <1>2, <1>5, <2>1
<1>7. left[4] = m /\ file[c + 4] = m
  BY <1>1, <1>2, <1>4, <1>6
<1>8. /\ ~(Len(left) < KvHeader) /\ ~(m < KvHeader + KvCrc) /\ ~(m > Len(left))
      /\ ~(c + KvHeader + KvCrc > n) /\ ~(m > n - c)
  <2> HIDE DEF n
  <2> QED
    BY <1>1, <1>2, <1>5 DEF KvHeader, KvCrc
<1>9. SubSeq(left, 1, m) = s
  <2>1. HasAt(left, 0, s)
    <3>1. 0 + Len(s) <= Len(left) /\ \A j \in 1 .. Len(s) : 0 + j = j
      <4>1. m <= n - c
        BY <1>1, <1>2
      <4> QED
        BY <1>1, <1>3, <1>5, <4>1
    <3> QED
      BY <1>3, <1>6, <3>1 DEF HasAt
  <2>2. SubSeq(left, 0 + 1, 0 + Len(s)) = s
    BY <1>1, <1>5, <2>1, PieceDef
  <2> QED
    BY <1>1, <1>3, <2>2
<1>10. RecAt(file, c) = <<rec>>
  <2>1. RecAt(file, c) = IF left[4] > Len(left) THEN <<>>
                         ELSE deserialize(SubSeq(left, 1, left[4]))
    BY DEF RecAt, left
  <2> QED
    BY <1>1, <1>7, <1>8, <1>9, <2>1
<1>11. ScanKv(file)[c] = [ScanKv(file)[c + m] EXCEPT !.recs = <<rec>> \o @]
  <2>1. ScanKv(file)[c] =
           IF Len(left) < KvHeader THEN Ended(c)
           ELSE IF left[4] < KvHeader + KvCrc
           THEN [recs |-> <<>>, cur |-> c, ok |-> FALSE]
           ELSE IF RecAt(file, c) = <<>> THEN Ended(c)
           ELSE [ScanKv(file)[c + left[4]] EXCEPT !.recs = RecAt(file, c) \o @]
    BY <1>4, ScanExists, Zenon DEF left, n
  <2>2. RecAt(file, c) # <<>>
    BY <1>10
  <2> QED
    BY <1>7, <1>8, <1>10, <2>1, <2>2, Zenon
<1>12. CountFrom(file)[c] = 1 + CountFrom(file)[c + m]
  <2>1. CountFrom(file)[c] =
           IF \/ c + KvHeader + KvCrc > n
              \/ file[c + 4] < KvHeader + KvCrc
              \/ file[c + 4] > n - c
           THEN 0 ELSE 1 + CountFrom(file)[c + file[c + 4]]
    BY <1>4, CountExists, Zenon DEF n
  <2> HIDE DEF n
  <2> QED
    BY <1>7, <1>8, <2>1, Zenon
<1> QED
  BY <1>11, <1>12, Zenon DEF m, s

(* Where a file ends with less than a record, the scan and the count stop.  *)
LEMMA ScanStop ==
    ASSUME NEW file \in Seq(Nat), NEW c \in Nat, NEW rec \in KvRecords,
           NEW k \in 0 .. (Len(serialize(rec)) - 1), Len(file) = c + k,
           \A j \in 1 .. k : file[c + j] = serialize(rec)[j]
    PROVE  ScanKv(file)[c] = Ended(c) /\ CountFrom(file)[c] = 0
<1> DEFINE s == serialize(rec)
           m == Len(s)
           n == Len(file)
           left == DropCells(file, c)
<1>1. s \in Seq(Nat) /\ m \in Nat /\ s[4] = m /\ m > 5
  BY RecordOf
<1>2. n \in Nat /\ k \in Nat /\ k < m /\ n = c + k /\ \A j \in 1 .. k : file[c + j] = s[j]
  BY <1>1
<1> HIDE DEF s, m
<1>3. c \in 0 .. n /\ n - c = k
  <2> HIDE DEF n
  <2> QED
    BY <1>2
<1>4. /\ left \in Seq(Nat) /\ Len(left) = k /\ \A j \in 1 .. k : left[j] = file[c + j]
  BY <1>3, DropDef
<1> HIDE DEF left
<1>5. k >= 4 => left[4] = m /\ file[c + 4] = m
  <2>1. k >= 4 => 4 \in 1 .. k
    BY <1>2
  <2> QED
    BY <1>1, <1>2, <1>4, <2>1
<1>6. ScanKv(file)[c] = Ended(c)
  <2>1. ScanKv(file)[c] =
           IF Len(left) < KvHeader THEN Ended(c)
           ELSE IF left[4] < KvHeader + KvCrc
           THEN [recs |-> <<>>, cur |-> c, ok |-> FALSE]
           ELSE IF RecAt(file, c) = <<>> THEN Ended(c)
           ELSE [ScanKv(file)[c + left[4]] EXCEPT !.recs = RecAt(file, c) \o @]
    BY <1>3, ScanExists, Zenon DEF left, n
  <2>2. CASE k < 4
    <3>1. Len(left) < KvHeader
      BY <1>4, <2>2 DEF KvHeader
    <3> QED
      BY <2>1, <3>1, Zenon
  <2>3. CASE ~(k < 4)
    <3>1. left[4] = m /\ ~(Len(left) < KvHeader) /\ ~(m < KvHeader + KvCrc) /\ m > Len(left)
      BY <1>1, <1>2, <1>4, <1>5, <2>3 DEF KvHeader, KvCrc
    <3>2. RecAt(file, c) = <<>>
      BY <3>1 DEF RecAt, left
    <3> QED
      BY <2>1, <3>1, <3>2, Zenon
  <2> QED
    BY <2>2, <2>3
<1>7. CountFrom(file)[c] = 0
  <2>1. CountFrom(file)[c] =
           IF \/ c + KvHeader + KvCrc > n
              \/ file[c + 4] < KvHeader + KvCrc
              \/ file[c + 4] > n - c
           THEN 0 ELSE 1 + CountFrom(file)[c + file[c + 4]]
    BY <1>3, CountExists, Zenon DEF n
  <2> HIDE DEF n
  <2>2. c + KvHeader + KvCrc > n \/ file[c + 4] > n - c
    <3>1. CASE k < 4
      BY <1>2, <3>1 DEF KvHeader, KvCrc
    <3>2. CASE ~(k < 4)
      <4>1. file[c + 4] = m
        BY <1>2, <1>5, <3>2
      <4> QED
        BY <1>1, <1>2, <1>3, <4>1
    <3> QED
      BY <3>1, <3>2
  <2> QED
    BY <2>1, <2>2, Zenon
<1> QED
  BY <1>6, <1>7

MoreRecs(f, w) == [f EXCEPT !.recs = w \o @]

(* Records read first come first.                                           *)
LEMMA MoreRecsAre ==
    \A x, y, o, w : MoreRecs([recs |-> x, cur |-> y, ok |-> o], w)
                      = [recs |-> w \o x, cur |-> y, ok |-> o]
<1> SUFFICES ASSUME NEW x, NEW y, NEW o, NEW w
             PROVE  MoreRecs([recs |-> x, cur |-> y, ok |-> o], w)
                      = [recs |-> w \o x, cur |-> y, ok |-> o]
  OBVIOUS
<1> DEFINE f == [recs |-> x, cur |-> y, ok |-> o]
           v == w \o f.recs
<1>1. f.recs = x
  OBVIOUS
<1>2. v = w \o x
  BY ONLY <1>1
<1> HIDE DEF v
<1>0. f = [recs |-> x, cur |-> y, ok |-> o]
  OBVIOUS
<1> HIDE DEF f
<1>3. [f EXCEPT !.recs = v] = [recs |-> v, cur |-> y, ok |-> o]
  BY <1>0
<1>4. [f EXCEPT !.recs = v] = MoreRecs(f, w)
  BY ONLY TRUE DEF v, MoreRecs
<1>5. [recs |-> v, cur |-> y, ok |-> o] = [recs |-> w \o x, cur |-> y, ok |-> o]
  BY ONLY <1>2
<1>6. MoreRecs(f, w) = [recs |-> w \o x, cur |-> y, ok |-> o]
  BY ONLY <1>3, <1>4, <1>5
<1> QED
  BY ONLY <1>6 DEF f

(* The rest of a sequence, one element longer.                              *)
LEMMA SuffixStep ==
    ASSUME NEW S, NEW s \in Seq(S), NEW i \in 0 .. (Len(s) - 1)
    PROVE  /\ <<s[i + 1]>> \o SubSeq(s, (i + 1) + 1, Len(s)) = SubSeq(s, i + 1, Len(s))
<1> DEFINE n == Len(s)
           a == <<s[i + 1]>>
           b == SubSeq(s, (i + 1) + 1, n)
           c == SubSeq(s, i + 1, n)
<1>1. n \in Nat /\ i + 1 \in 1 .. n
  OBVIOUS
<1>2. a \in Seq(S) /\ Len(a) = 1 /\ a[1] = s[i + 1]
  BY <1>1
<1>3. b \in Seq(S) /\ Len(b) = n - (i + 1) /\ \A j \in 1 .. (n - (i + 1)) : b[j] = s[(i + 1) + j]
  <2>1. b = [j \in 1 .. (n - (i + 1)) |-> s[(i + 1) + j]]
    BY <1>1 DEF SubSeq
  <2>2. \A j \in 1 .. (n - (i + 1)) : (i + 1) + j \in 1 .. n
    BY <1>1
  <2>3. \A j \in 1 .. (n - (i + 1)) : s[(i + 1) + j] \in S
    BY <2>2
  <2>4. n - (i + 1) \in Nat
    BY <1>1
  <2> HIDE DEF b, n
  <2> QED
    BY <2>1, <2>3, <2>4
<1>4. c \in Seq(S) /\ Len(c) = n - i /\ \A j \in 1 .. (n - i) : c[j] = s[i + j]
  <2>1. c = [j \in 1 .. (n - i) |-> s[i + j]]
    BY <1>1 DEF SubSeq
  <2>2. \A j \in 1 .. (n - i) : i + j \in 1 .. n
    BY <1>1
  <2>3. \A j \in 1 .. (n - i) : s[i + j] \in S
    BY <2>2
  <2> DEFINE m == n - i
  <2>4. m \in Nat
    BY <1>1
  <2>5. c = [j \in 1 .. m |-> s[i + j]] /\ \A j \in 1 .. m : s[i + j] \in S
    BY <2>1, <2>3
  <2> HIDE DEF c, n, m
  <2>6. c \in Seq(S)
    BY <2>4, <2>5
  <2>7. Len(c) = m
    BY <2>4, <2>5
  <2>8. \A j \in 1 .. m : c[j] = s[i + j]
    BY <2>5
  <2> QED
    BY <2>6, <2>7, <2>8 DEF m
<1> HIDE DEF a, b, c
<1> DEFINE ab == a \o b
<1>5. /\ ab \in Seq(S) /\ Len(ab) = Len(a) + Len(b)
      /\ \A j \in 1 .. Len(a) : ab[j] = a[j]
      /\ \A j \in 1 .. Len(b) : ab[Len(a) + j] = b[j]
  <2>1. \A x, y \in Seq(S) :
           /\ x \o y \in Seq(S) /\ Len(x \o y) = Len(x) + Len(y)
           /\ \A j \in 1 .. Len(x) : (x \o y)[j] = x[j]
           /\ \A j \in 1 .. Len(y) : (x \o y)[Len(x) + j] = y[j]
    OBVIOUS
  <2> QED
    BY <1>2, <1>3, <2>1, Zenon
<1> HIDE DEF ab, n
<1>6. Len(ab) = n - i
  BY <1>1, <1>2, <1>3, <1>5
<1>7. \A j \in 1 .. (n - i) : ab[j] = c[j]
  <2> SUFFICES ASSUME NEW j \in 1 .. (n - i) PROVE ab[j] = c[j]
    OBVIOUS
  <2>1. CASE j = 1
    <3>1. ab[1] = a[1] /\ c[1] = s[i + 1]
      BY <1>2, <1>4, <1>5, <2>1
    <3> QED
      BY <1>2, <2>1, <3>1
  <2>2. CASE j # 1
    <3>1. j - 1 \in 1 .. (n - (i + 1)) /\ 1 + (j - 1) = j /\ (i + 1) + (j - 1) = i + j
      BY <1>1, <2>2
    <3>2. ab[1 + (j - 1)] = b[j - 1]
      BY <1>2, <1>3, <1>5, <3>1
    <3>3. b[j - 1] = s[(i + 1) + (j - 1)]
      BY <1>3, <3>1
    <3> QED
      BY <1>4, <3>1, <3>2, <3>3
  <2> QED
    BY <2>1, <2>2
<1>8. ab = c
  BY ONLY <1>4, <1>5, <1>6, <1>7, SeqEqual
<1> QED
  BY <1>8 DEF ab, a, b, c, n

(* A file of records with less than a record behind them gives back those   *)
(* records.                                                                 *)
LEMMA ScanOfFile ==
    ASSUME NEW recs \in Seq(KvRecords), NEW rec \in KvRecords,
           NEW k \in 0 .. (Len(serialize(rec)) - 1), NEW file,
           file = FileOf(recs) \o SubSeq(serialize(rec), 1, k)
    PROVE  /\ scan_kv_file(file, 0)
                 = [recs |-> recs, cur |-> Len(FileOf(recs)), ok |-> TRUE]
           /\ count_wal_records(file) = Len(recs)
<1> DEFINE n == Len(recs)
           whole == FileOf(recs)
           s == serialize(rec)
           tail == SubSeq(s, 1, k)
           e(i) == EndOf(recs, i)
           at(i) == serialize(recs[i + 1])
           Result(i) == [recs |-> SubSeq(recs, i + 1, n), cur |-> e(n), ok |-> TRUE]
           Holds(i) == ScanKv(file)[e(i)] = Result(i) /\ CountFrom(file)[e(i)] = n - i
           T == {d \in Nat : d <= n => Holds(n - d)}
<1>1. n \in Nat /\ whole \in Seq(Nat) /\ s \in Seq(Nat) /\ Len(s) \in Nat
  BY FileType, RecordOf
<1>2. tail \in Seq(Nat) /\ Len(tail) = k /\ k \in Nat /\ \A j \in 1 .. k : tail[j] = s[j]
  <2> HIDE DEF s
  <2> QED
    BY <1>1 DEF s
<1>3. /\ file \in Seq(Nat) /\ Len(file) = Len(whole) + k /\ HasAt(file, Len(whole), tail)
      /\ HasAt(whole, 0, whole)
  <2>1. file = whole \o tail
    OBVIOUS
  <2> HIDE DEF whole, tail
  <2>2. HasAt(whole, 0, whole)
    BY <1>1 DEF HasAt
  <2> QED
    BY <1>1, <1>2, <2>1, <2>2, HasEnd
<1>4. /\ e(0) = 0 /\ e(n) = Len(whole)
      /\ \A i \in 0 .. n : e(i) \in Nat
      /\ \A i \in 0 .. (n - 1) :
            HasAt(whole, e(i), at(i)) /\ e(i + 1) = e(i) + Len(at(i))
  BY FilePieces
<1>5. \A i \in 0 .. (n - 1) : recs[i + 1] \in KvRecords /\ at(i) \in Seq(Nat)
                              /\ i \in 0 .. n /\ i + 1 \in 0 .. n
  <2> SUFFICES ASSUME NEW i \in 0 .. (n - 1)
               PROVE  recs[i + 1] \in KvRecords /\ at(i) \in Seq(Nat)
                      /\ i \in 0 .. n /\ i + 1 \in 0 .. n
    OBVIOUS
  <2>1. i + 1 \in 1 .. n /\ i \in 0 .. n /\ i + 1 \in 0 .. n
    BY <1>1
  <2>2. recs[i + 1] \in KvRecords
    BY <2>1
  <2> QED
    BY <2>1, <2>2, RecordOf
<1>6. \A i \in 0 .. (n - 1) : HasAt(file, e(i), at(i))
  <2> SUFFICES ASSUME NEW i \in 0 .. (n - 1) PROVE HasAt(file, e(i), at(i))
    OBVIOUS
  <2>1. HasAt(whole, e(i), at(i)) /\ e(i) \in Nat /\ at(i) \in Seq(Nat)
    BY <1>4, <1>5
  <2>2. file = whole \o tail
    OBVIOUS
  <2> HIDE DEF whole, tail, e, at
  <2> QED
    BY <1>1, <1>2, <2>1, <2>2, HasMoreCells
<1>7. Holds(n)
  <2> DEFINE c == e(n)
  <2>1. c \in Nat /\ Len(file) = c + k
    BY <1>1, <1>3, <1>4
  <2>2. \A j \in 1 .. k : file[c + j] = s[j]
    <3>1. HasAt(file, c, tail)
      BY <1>3, <1>4
    <3> QED
      BY <1>2, <3>1 DEF HasAt
  <2>3. ScanKv(file)[c] = Ended(c) /\ CountFrom(file)[c] = 0
    BY <1>3, <2>1, <2>2, ScanStop
  <2>4. SubSeq(recs, n + 1, n) = <<>> /\ n - n = 0
    BY <1>1
  <2> QED
    BY <2>3, <2>4 DEF Ended
<1>8. ASSUME NEW i \in 0 .. (n - 1), Holds(i + 1) PROVE Holds(i)
  <2> DEFINE c == e(i)
             r == recs[i + 1]
             next == c + Len(serialize(r))
  <2>1. c \in Nat /\ r \in KvRecords /\ HasAt(file, c, serialize(r)) /\ next = e(i + 1)
    BY <1>4, <1>5, <1>6
  <2> HIDE DEF r
  <2>2. /\ ScanKv(file)[c] = [ScanKv(file)[next] EXCEPT !.recs = <<r>> \o @]
        /\ CountFrom(file)[c] = 1 + CountFrom(file)[next]
    BY <1>3, <2>1, ScanStep
  <2>3. ScanKv(file)[next] = Result(i + 1) /\ CountFrom(file)[next] = n - (i + 1)
    BY <1>8, <2>1
  <2> HIDE DEF next
  <2>4. <<r>> \o SubSeq(recs, (i + 1) + 1, n) = SubSeq(recs, i + 1, n)
    BY SuffixStep DEF r
  <2>5. ScanKv(file)[c] = [Result(i + 1) EXCEPT !.recs = <<r>> \o @]
    BY <2>2, <2>3
  <2>6. [Result(i + 1) EXCEPT !.recs = <<r>> \o @]
          = [recs |-> <<r>> \o SubSeq(recs, (i + 1) + 1, n), cur |-> e(n), ok |-> TRUE]
    <3>1. [Result(i + 1) EXCEPT !.recs = <<r>> \o @] = MoreRecs(Result(i + 1), <<r>>)
      BY ONLY TRUE DEF MoreRecs
    <3>2. MoreRecs(Result(i + 1), <<r>>)
            = [recs |-> <<r>> \o SubSeq(recs, (i + 1) + 1, n), cur |-> e(n), ok |-> TRUE]
      <4> DEFINE x == SubSeq(recs, (i + 1) + 1, n)
                 y == e(n)
                 w == <<r>>
      <4> HIDE DEF x, y, w
      <4>1. MoreRecs([recs |-> x, cur |-> y, ok |-> TRUE], w)
              = [recs |-> w \o x, cur |-> y, ok |-> TRUE]
        BY ONLY MoreRecsAre, ZenonT(60)
      <4> QED
        BY ONLY <4>1, Zenon DEF Result, x, y, w
    <3> QED
      BY ONLY <3>1, <3>2, Zenon
  <2>7. ScanKv(file)[c] = Result(i)
    BY <2>4, <2>5, <2>6
  <2>8. CountFrom(file)[c] = n - i
    <3>1. 1 + (n - (i + 1)) = n - i
      BY <1>1
    <3> QED
      BY <2>2, <2>3, <3>1
  <2> QED
    BY <2>7, <2>8
<1> HIDE DEF Holds
<1>9. 0 \in T
  <2>1. n - 0 = n
    BY <1>1
  <2> QED
    BY <1>7, <2>1
<1>10. ASSUME NEW d \in Nat, d \in T PROVE d + 1 \in T
  <2> SUFFICES ASSUME d + 1 <= n PROVE Holds(n - (d + 1))
    OBVIOUS
  <2> DEFINE i == n - (d + 1)
  <2>1. i \in 0 .. (n - 1) /\ i + 1 = n - d /\ d <= n
    BY <1>1
  <2>2. Holds(n - d)
    BY <1>10, <2>1
  <2> HIDE DEF i
  <2>3. Holds(i + 1)
    BY <2>1, <2>2
  <2>4. Holds(i)
    BY <1>8, <2>1, <2>3
  <2> QED
    BY <2>4 DEF i
<1>11. T = Nat
  <2> HIDE DEF T
  <2>1. T \in SUBSET Nat
    BY DEF T
  <2> QED
    BY <1>9, <1>10, <2>1, InductionOnSet
<1>12. Holds(0)
  <2>1. n \in T
    <3> HIDE DEF T
    <3> QED
      BY <1>1, <1>11
  <2>2. n <= n /\ n - n = 0
    BY <1>1
  <2> QED
    BY <2>1, <2>2
<1>13. /\ ScanKv(file)[0] = [recs |-> SubSeq(recs, 0 + 1, n), cur |-> e(n), ok |-> TRUE]
       /\ CountFrom(file)[0] = n - 0
  BY <1>4, <1>12 DEF Holds
<1>14. SubSeq(recs, 0 + 1, n) = recs /\ n - 0 = n
  OBVIOUS
<1> QED
  BY <1>4, <1>13, <1>14 DEF scan_kv_file, count_wal_records
-----------------------------------------------------------------------------
(* A file of records that was cut.                                          *)
LEMMA CreateRecord ==
    \A kv \in KeyValues : KvWalRecord(IS_CREATE, kv) \in KvRecords
<1> SUFFICES ASSUME NEW kv \in KeyValues PROVE KvWalRecord(IS_CREATE, kv) \in KvRecords
  OBVIOUS
<1>1. IS_CREATE \in Nat
  BY DEF IS_CREATE
<1>2. \E flags \in Nat, k \in KeyValues : KvWalRecord(IS_CREATE, kv) = KvWalRecord(flags, k)
  BY ONLY <1>1, kv \in KeyValues, Zenon
<1> QED
  BY <1>2 DEF KvRecords

(* One record for each key-value.                                           *)
LEMMA RecordsAre ==
    ASSUME NEW kvs \in Seq(KeyValues)
    PROVE  /\ RecordsOf(kvs) \in Seq(KvRecords) /\ Len(RecordsOf(kvs)) = Len(kvs)
           /\ \A i \in 1 .. Len(kvs) : RecordsOf(kvs)[i] = KvWalRecord(IS_CREATE, kvs[i])
<1> DEFINE n == Len(kvs)
           R(kv) == KvWalRecord(IS_CREATE, kv)
           s == [i \in 1 .. n |-> R(kvs[i])]
<1>1. n \in Nat /\ DOMAIN kvs = 1 .. n /\ \A i \in 1 .. n : kvs[i] \in KeyValues
  OBVIOUS
<1>2. RecordsOf(kvs) = s
  BY <1>1 DEF RecordsOf
<1>3. \A kv \in KeyValues : R(kv) \in KvRecords
  BY CreateRecord
<1> HIDE DEF R, n
<1>4. \A i \in 1 .. n : R(kvs[i]) \in KvRecords
  BY <1>1, <1>3
<1>5. s \in Seq(KvRecords) /\ Len(s) = n /\ \A i \in 1 .. n : s[i] = R(kvs[i])
  BY <1>1, <1>4
<1> QED
  BY <1>2, <1>5 DEF R, n

(* The records of the first key-values are the first records.               *)
LEMMA FirstRecords ==
    ASSUME NEW kvs \in Seq(KeyValues), NEW i \in 0 .. Len(kvs)
    PROVE  /\ RecordsOf(SubSeq(kvs, 1, i)) = SubSeq(RecordsOf(kvs), 1, i)
           /\ SubSeq(RecordsOf(kvs), 1, i) \in Seq(KvRecords)
           /\ Len(SubSeq(RecordsOf(kvs), 1, i)) = i
<1> DEFINE n == Len(kvs)
           recs == RecordsOf(kvs)
           part == SubSeq(kvs, 1, i)
           first == SubSeq(recs, 1, i)
<1>1. n \in Nat /\ i \in Nat /\ i <= n
  OBVIOUS
<1>2. part \in Seq(KeyValues) /\ Len(part) = i /\ \A j \in 1 .. i : part[j] = kvs[j]
  BY <1>1
<1>3. /\ recs \in Seq(KvRecords) /\ Len(recs) = n
      /\ \A j \in 1 .. n : recs[j] = KvWalRecord(IS_CREATE, kvs[j])
  BY RecordsAre
<1> HIDE DEF recs, n, part
<1>4. first \in Seq(KvRecords) /\ Len(first) = i /\ \A j \in 1 .. i : first[j] = recs[j]
  BY <1>1, <1>3
<1>5. /\ RecordsOf(part) \in Seq(KvRecords) /\ Len(RecordsOf(part)) = i
      /\ \A j \in 1 .. i : RecordsOf(part)[j] = KvWalRecord(IS_CREATE, part[j])
  BY <1>2, RecordsAre
<1> HIDE DEF first
<1>6. \A j \in 1 .. i : RecordsOf(part)[j] = first[j]
  <2> SUFFICES ASSUME NEW j \in 1 .. i PROVE RecordsOf(part)[j] = first[j]
    OBVIOUS
  <2>1. j \in 1 .. n
    BY <1>1
  <2> QED
    BY <1>2, <1>3, <1>4, <1>5, <2>1
<1>7. RecordsOf(part) = first
  BY ONLY <1>1, <1>4, <1>5, <1>6, SeqEqual
<1> QED
  BY <1>4, <1>7 DEF part, first, recs

(* A cut file is its whole records and less than one record more.           *)
CutAt(in, recs, n, k, next) ==
    /\ WholeRecords(in) = n /\ k < Len(serialize(next))
    /\ in.cut = EndOf(recs, n) + k
    /\ CutFile(in) = FirstOf(recs, n) \o SubSeq(serialize(next), 1, k)

(* A cut log is its whole records and less than one more.                   *)
LEMMA CutIs ==
    ASSUME NEW kvs \in Seq(KeyValues), NEW other \in KvRecords,
           NEW cut \in 0 .. Len(FileOf(RecordsOf(kvs))), NEW in,
           in.kvs = kvs, in.cut = cut
    PROVE  \E n \in 0 .. Len(kvs), k \in Nat, next \in KvRecords :
              CutAt(in, RecordsOf(kvs), n, k, next)
<1> DEFINE recs == RecordsOf(kvs)
           R == KvRecords
           ser == KvSer
           m == Len(kvs)
           e(i) == JoinedEnd(ser, recs, i)
<1>1. recs \in Seq(R) /\ Len(recs) = m
  BY RecordsAre
<1>2. FileOf(recs) = Joined(ser, recs)
  BY <1>1, FileIs
<1>3. cut \in 0 .. Len(Joined(ser, recs))
  BY <1>2
<1>4. ser \in [R -> Seq(Nat)] /\ \A r \in R : Len(ser[r]) > 0
  BY KvSerIs
<1>5. other \in R
  OBVIOUS
<1>6. PICK n \in 0 .. Len(recs), k \in Nat, next \in R :
         JoinedCut(ser, recs, cut, n, k, next)
  BY ONLY <1>1, <1>3, <1>4, <1>5, JoinedCutIs
<1>7. \A i \in 0 .. m : Len(FileOf(RecordsOf(SubSeq(kvs, 1, i)))) = e(i)
  <2> SUFFICES ASSUME NEW i \in 0 .. m
               PROVE  Len(FileOf(RecordsOf(SubSeq(kvs, 1, i)))) = e(i)
    OBVIOUS
  <2>1. RecordsOf(SubSeq(kvs, 1, i)) = SubSeq(recs, 1, i)
    BY FirstRecords
  <2>2. EndOf(recs, i) = e(i)
    BY <1>1, FirstIs
  <2> QED
    BY <2>1, <2>2, Zenon DEF EndOf, FirstOf
<1>8. {i \in 0 .. m : Len(FileOf(RecordsOf(SubSeq(kvs, 1, i)))) <= cut}
        = {i \in 0 .. Len(recs) : e(i) <= cut}
  BY <1>1, <1>7, Zenon
<1>9. WholeRecords(in) = n
  BY <1>6, <1>8, Zenon DEF WholeRecords, JoinedCut
<1>10. FirstOf(recs, n) = JoinedTo(ser, recs, n) /\ EndOf(recs, n) = e(n)
  BY <1>1, <1>6, FirstIs
<1>11. ser[next] = serialize(next)
  BY <1>6, KvSerIs
<1>12. CutFile(in) = SubSeq(Joined(ser, recs), 1, cut)
  BY <1>2, Zenon DEF CutFile
<1>13. CutAt(in, recs, n, k, next)
  BY <1>6, <1>9, <1>10, <1>11, <1>12, Zenon DEF CutAt, JoinedCut
<1> QED
  BY <1>1, <1>6, <1>13, Zenon

(* The fields of the input logs are of the code's types.                    *)
LEMMA ScanFieldsAre ==
    ASSUME NEW kvs \in SeqOf(ScanFields, 2)
    PROVE  kvs \in Seq(KeyValues)
<1>1. PICK i \in 0 .. 2 : kvs \in [1 .. i -> ScanFields]
  BY DEF SeqOf
<1>2. kvs \in Seq(ScanFields)
  BY <1>1
<1> QED
  BY <1>2, FieldsAssumption, SeqMonotonic

(* A file cut anywhere gives back exactly its whole records, by the scan    *)
(* and by the count of headers; and what is appended behind whole records   *)
(* is read (scan_kv_file, count_wal_records).                               *)
THEOREM ScanIsWhole == Spec => []ScanWhole
<1>1. InputOK => ScanWhole
  <2> SUFFICES ASSUME InputOK, input.kind = "file" PROVE ScanWhole
    BY DEF ScanWhole
  <2>1. PICK kvs \in SeqOf(ScanFields, 2), last \in ScanFields :
        \E c \in 0 .. Len(FileOf(RecordsOf(kvs))) :
           input = [kind |-> "file", kvs |-> kvs, later |-> last, cut |-> c]
    BY DEF InputOK
  <2>2. PICK cut \in 0 .. Len(FileOf(RecordsOf(kvs))) :
           input = [kind |-> "file", kvs |-> kvs, later |-> last, cut |-> cut]
    BY <2>1
  <2>3. input.kvs = kvs /\ input.later = last /\ input.cut = cut
    BY <2>2
  <2>4. kvs \in Seq(KeyValues)
    BY ScanFieldsAre
  <2> DEFINE later == KvWalRecord(IS_CREATE, last)
             recs == RecordsOf(kvs)
  <2>5. later \in KvRecords
    <3>1. last \in KeyValues
      BY FieldsAssumption
    <3> QED
      BY <3>1, CreateRecord
  <2> HIDE DEF later
  <2>0. PICK n \in 0 .. Len(kvs), k \in Nat, next \in KvRecords :
            CutAt(input, recs, n, k, next)
    <3>1. cut \in 0 .. Len(FileOf(RecordsOf(kvs)))
      BY <2>2
    <3> QED
      BY ONLY <2>3, <2>4, <2>5, <3>1, CutIs
  <2>6. /\ WholeRecords(input) = n /\ k < Len(serialize(next))
        /\ cut = EndOf(recs, n) + k
        /\ CutFile(input) = FirstOf(recs, n) \o SubSeq(serialize(next), 1, k)
    BY <2>3, <2>0 DEF CutAt
  <2> DEFINE whole == SubSeq(recs, 1, n)
             file == CutFile(input)
  <2>7. /\ RecordsOf(SubSeq(kvs, 1, n)) = whole /\ whole \in Seq(KvRecords)
        /\ Len(whole) = n /\ FirstOf(recs, n) = FileOf(whole)
    BY <2>4, FirstRecords DEF FirstOf
  <2>8. serialize(next) \in Seq(Nat) /\ serialize(later) \in Seq(Nat)
        /\ Len(serialize(next)) \in Nat /\ Len(serialize(later)) > 0
        /\ Len(serialize(later)) \in Nat
    BY <2>5, RecordCells
  <2>9. k \in 0 .. (Len(serialize(next)) - 1)
    BY <2>6, <2>8
  <2>10. file = FileOf(whole) \o SubSeq(serialize(next), 1, k)
    BY <2>6, <2>7
  <2> HIDE DEF whole, recs, file
  <2>11. /\ scan_kv_file(file, 0) = [recs |-> whole, cur |-> Len(FileOf(whole)), ok |-> TRUE]
         /\ count_wal_records(file) = n
    BY <2>7, <2>9, <2>10, ScanOfFile
  <2>12. scan_kv_file(file, 0).ok /\ scan_kv_file(file, 0).recs = whole
    <3> DEFINE scan == scan_kv_file(file, 0)
               yes == TRUE
               len == Len(FileOf(whole))
    <3> HIDE DEF scan, yes, len
    <3>1. scan = [recs |-> whole, cur |-> len, ok |-> yes]
      BY <2>11 DEF scan, yes, len
    <3>2. scan.recs = whole /\ scan.ok = yes
      BY ONLY <3>1
    <3> QED
      BY ONLY <3>2, Zenon DEF scan, yes
  <2>13. ASSUME CutBetween(input)
         PROVE  scan_kv_file(file \o serialize(later), 0).recs = Append(whole, later)
    <3>1. k = 0
      <4>1. Len(FileOf(whole)) = cut
        BY <2>3, <2>6, <2>7, <2>13 DEF CutBetween
      <4>2. EndOf(recs, n) = Len(FileOf(whole))
        BY <2>7 DEF EndOf
      <4>3. FileOf(whole) \in Seq(Nat)
        BY <2>7, FileType
      <4> QED
        BY <2>6, <4>1, <4>2, <4>3
    <3> DEFINE all == Append(whole, later)
    <3>2. FileOf(whole) \in Seq(Nat) /\ FileOf(all) = FileOf(whole) \o serialize(later)
          /\ FileOf(all) \in Seq(Nat) /\ all \in Seq(KvRecords)
      <4>1. all \in Seq(KvRecords)
        BY <2>5, <2>7
      <4> QED
        BY <2>5, <2>7, <4>1, FileAppend, FileType
    <3>3. SubSeq(serialize(next), 1, k) = <<>> /\ SubSeq(serialize(later), 1, 0) = <<>>
      BY <2>8, <3>1
    <3> HIDE DEF all
    <3>4. file = FileOf(whole)
      <4>1. \A x \in Seq(Nat) : x \o <<>> = x
        OBVIOUS
      <4> QED
        BY ONLY <2>10, <3>2, <3>3, <4>1, Zenon
    <3>5. file \o serialize(later) = FileOf(all) \o SubSeq(serialize(later), 1, 0)
      BY <3>2, <3>3, <3>4
    <3>6. 0 \in 0 .. (Len(serialize(later)) - 1)
      BY <2>8
    <3>7. scan_kv_file(file \o serialize(later), 0)
             = [recs |-> all, cur |-> Len(FileOf(all)), ok |-> TRUE]
      <4> DEFINE more == file \o serialize(later)
                 k0 == 0
      <4>1. more = FileOf(all) \o SubSeq(serialize(later), 1, k0)
            /\ k0 \in 0 .. (Len(serialize(later)) - 1) /\ all \in Seq(KvRecords)
        BY <3>2, <3>5, <3>6
      <4> HIDE DEF more, k0
      <4>2. scan_kv_file(more, 0) = [recs |-> all, cur |-> Len(FileOf(all)), ok |-> TRUE]
        BY ONLY <2>5, <4>1, ScanOfFile, ZenonT(60)
      <4> QED
        BY <4>2 DEF more
    <3>8. scan_kv_file(file \o serialize(later), 0).recs = all
      <4>1. \A x, y, z : [recs |-> x, cur |-> y, ok |-> z].recs = x
        OBVIOUS
      <4> QED
        BY ONLY <3>7, <4>1, Zenon
    <3> QED
      BY <3>8 DEF all
  <2> QED
    BY <2>3, <2>6, <2>7, <2>11, <2>12, <2>13, Zenon DEF ScanWhole, file, later
<1> QED
  BY <1>1, InputPicked, PTL

-----------------------------------------------------------------------------
(* Legacy records.                                                          *)
LegacyRecs ==
    {r \in [revision : Nat, flags : Nat, key : Seq(Nat), value : Seq(Nat),
            lease_id : Seq(Nat)] :
        Len(r.lease_id) = IF HasFlag(r.flags, HAS_LEASE) THEN 1 ELSE 0}

(* The fields of a legacy record.                                           *)
LEMMA LegacyFields ==
    ASSUME NEW r \in LegacyRecs
    PROVE  /\ r.revision \in Nat /\ r.flags \in Nat /\ r.key \in Seq(Nat)
           /\ r.value \in Seq(Nat) /\ r.lease_id \in Seq(Nat)
           /\ Len(r.lease_id) = IF HasFlag(r.flags, HAS_LEASE) THEN 1 ELSE 0
           /\ r = [revision |-> r.revision, flags |-> r.flags, key |-> r.key,
                   value |-> r.value, lease_id |-> r.lease_id]
  BY DEF LegacyRecs

Checked(r) == <<r.flags>> \o r.key \o r.value \o r.lease_id
LegacyHead(r) ==
    <<Magic, r.revision, Crc32c(Checked(r)), Len(r.key), Len(r.value)>>

(* Five numbers as cells.                                                   *)
LEMMA FiveCells ==
    \A a, b, c, d, e \in Nat :
        /\ <<a, b, c, d, e>> \in Seq(Nat) /\ Len(<<a, b, c, d, e>>) = 5
        /\ <<a, b, c, d, e>>[1] = a /\ <<a, b, c, d, e>>[2] = b /\ <<a, b, c, d, e>>[3] = c
        /\ <<a, b, c, d, e>>[4] = d /\ <<a, b, c, d, e>>[5] = e
  OBVIOUS

(* The cells of a legacy record: its header, then what the checksum covers. *)
LEMMA LegacyCells ==
    ASSUME NEW r \in LegacyRecs
    PROVE  /\ LegacySerialize(r) = LegacyHead(r) \o Checked(r)
           /\ LegacySerialize(r) \in Seq(Nat) /\ LegacyHead(r) \in Seq(Nat)
           /\ Checked(r) \in Seq(Nat) /\ Len(LegacyHead(r)) = 5
           /\ LegacyHead(r)[1] = Magic /\ LegacyHead(r)[2] = r.revision
           /\ LegacyHead(r)[3] = Crc32c(Checked(r)) /\ LegacyHead(r)[4] = Len(r.key)
           /\ LegacyHead(r)[5] = Len(r.value)
           /\ Len(Checked(r)) = 1 + Len(r.key) + Len(r.value) + Len(r.lease_id)
           /\ Checked(r)[1] = r.flags
           /\ Len(LegacySerialize(r)) = 6 + Len(r.key) + Len(r.value) + Len(r.lease_id)
           /\ Len(r.key) \in Nat /\ Len(r.value) \in Nat /\ Len(r.lease_id) \in Nat
<1> DEFINE f == <<r.flags>>
           k == r.key
           v == r.value
           l == r.lease_id
           fk == f \o k
           fkv == fk \o v
           ch == fkv \o l
           crc == Crc32c(ch)
           hd == <<Magic, r.revision, crc, Len(k), Len(v)>>
           s == hd \o ch
<1>1. /\ r.revision \in Nat /\ r.flags \in Nat /\ k \in Seq(Nat) /\ v \in Seq(Nat)
      /\ l \in Seq(Nat)
  BY LegacyFields
<1>2. f \in Seq(Nat) /\ Len(f) = 1 /\ f[1] = r.flags
  BY <1>1
<1>3. Len(k) \in Nat /\ Len(v) \in Nat /\ Len(l) \in Nat
  BY <1>1
<1>0. ch = Checked(r) /\ hd = LegacyHead(r) /\ s = LegacySerialize(r)
  BY DEF Checked, LegacyHead, LegacySerialize
<1> HIDE DEF f, k, v, l
<1>4. fk \in Seq(Nat) /\ Len(fk) = 1 + Len(k) /\ fk[1] = f[1]
  <2>1. /\ fk \in Seq(Nat) /\ Len(fk) = Len(f) + Len(k)
        /\ \A i \in 1 .. (Len(f) + Len(k)) : fk[i] = IF i <= Len(f) THEN f[i] ELSE k[i - Len(f)]
    BY ONLY <1>1, <1>2, CellAt, Zenon
  <2> HIDE DEF fk
  <2> QED
    BY <1>2, <1>3, <2>1
<1> HIDE DEF fk
<1>5. fkv \in Seq(Nat) /\ Len(fkv) = 1 + Len(k) + Len(v) /\ fkv[1] = fk[1]
  <2>1. /\ fkv \in Seq(Nat) /\ Len(fkv) = Len(fk) + Len(v)
        /\ \A i \in 1 .. (Len(fk) + Len(v)) :
              fkv[i] = IF i <= Len(fk) THEN fk[i] ELSE v[i - Len(fk)]
    BY ONLY <1>1, <1>4, CellAt, Zenon
  <2> HIDE DEF fkv
  <2> QED
    BY <1>3, <1>4, <2>1
<1> HIDE DEF fkv
<1>6. ch \in Seq(Nat) /\ Len(ch) = 1 + Len(k) + Len(v) + Len(l) /\ ch[1] = fkv[1]
  <2>1. /\ ch \in Seq(Nat) /\ Len(ch) = Len(fkv) + Len(l)
        /\ \A i \in 1 .. (Len(fkv) + Len(l)) :
              ch[i] = IF i <= Len(fkv) THEN fkv[i] ELSE l[i - Len(fkv)]
    BY ONLY <1>1, <1>5, CellAt, Zenon
  <2> HIDE DEF ch
  <2> QED
    BY <1>3, <1>5, <2>1
<1> HIDE DEF ch
<1>7. crc \in Nat /\ Magic \in Nat
  BY <1>6, CrcType, MagicAssumption
<1> HIDE DEF crc
<1>8. /\ hd \in Seq(Nat) /\ Len(hd) = 5 /\ hd[1] = Magic /\ hd[2] = r.revision
      /\ hd[3] = crc /\ hd[4] = Len(k) /\ hd[5] = Len(v)
  BY ONLY <1>1, <1>3, <1>7, FiveCells, Zenon
<1> HIDE DEF hd
<1>9. s \in Seq(Nat) /\ Len(s) = Len(hd) + Len(ch)
  BY ONLY <1>6, <1>8, CellAt, Zenon
<1> HIDE DEF s
<1>10. Len(s) = 6 + Len(k) + Len(v) + Len(l)
  BY ONLY <1>3, <1>6, <1>8, <1>9
<1> QED
  BY ONLY <1>0, <1>2, <1>3, <1>4, <1>5, <1>6, <1>8, <1>9, <1>10, Zenon DEF s, crc, k, v, l

(* Two joined parts that are there are each there.                          *)
LEMMA HasPartsAt ==
    ASSUME NEW w \in Seq(Nat), NEW p \in Nat, NEW a \in Seq(Nat), NEW b \in Seq(Nat),
           HasAt(w, p, a \o b)
    PROVE  HasAt(w, p, a) /\ HasAt(w, p + Len(a), b)
<1> DEFINE ab == a \o b
           la == Len(a)
           lb == Len(b)
<1>1. /\ ab \in Seq(Nat) /\ Len(ab) = la + lb /\ la \in Nat /\ lb \in Nat /\ Len(w) \in Nat
      /\ \A i \in 1 .. la : ab[i] = a[i]
      /\ \A i \in 1 .. lb : ab[la + i] = b[i]
  OBVIOUS
<1>2. p + Len(ab) <= Len(w) /\ \A j \in 1 .. Len(ab) : w[p + j] = ab[j]
  BY DEF HasAt
<1> HIDE DEF ab, la, lb
<1>3. ASSUME NEW j \in 1 .. la PROVE w[p + j] = a[j]
  <2>1. j \in 1 .. (la + lb)
    BY <1>1
  <2> QED
    BY <1>1, <1>2, <2>1
<1>4. ASSUME NEW j \in 1 .. lb PROVE w[(p + la) + j] = b[j]
  <2>1. la + j \in 1 .. (la + lb) /\ p + (la + j) = (p + la) + j
    BY <1>1
  <2>2. w[p + (la + j)] = ab[la + j]
    BY <1>1, <1>2, <2>1
  <2> QED
    BY <1>1, <2>1, <2>2
<1>5. p + la <= Len(w) /\ (p + la) + lb <= Len(w)
  BY <1>1, <1>2
<1> QED
  BY <1>3, <1>4, <1>5 DEF HasAt, la, lb

(* What the first cells of a legacy record announce.                        *)
LEMMA LegacyAnnounced ==
    ASSUME NEW buf \in Seq(Nat), NEW pos \in Nat, NEW r \in LegacyRecs,
           \A j \in 1 .. 6 : buf[pos + j] = LegacySerialize(r)[j]
    PROVE  /\ buf[pos + 1] = Magic /\ buf[pos + 2] = r.revision
           /\ buf[pos + 3] = Crc32c(Checked(r)) /\ buf[pos + 4] = Len(r.key)
           /\ buf[pos + 5] = Len(r.value) /\ LegacyFlags(buf, pos) = r.flags
           /\ PayloadEnd(buf, pos) = pos + 6 + Len(r.key) + Len(r.value)
           /\ LegacyEnd(buf, pos) = pos + Len(LegacySerialize(r))
<1> DEFINE s == LegacySerialize(r)
           hd == LegacyHead(r)
           ch == Checked(r)
           lk == Len(r.key)
           lv == Len(r.value)
           ll == Len(r.lease_id)
           lc == Len(ch)
           lh == Len(hd)
           ls == Len(s)
<1>1. /\ s = hd \o ch /\ hd \in Seq(Nat) /\ ch \in Seq(Nat) /\ lh = 5
      /\ hd[1] = Magic /\ hd[2] = r.revision /\ hd[3] = Crc32c(ch) /\ hd[4] = lk
      /\ hd[5] = lv /\ ch[1] = r.flags
      /\ ls = 6 + lk + lv + ll /\ lc = 1 + lk + lv + ll
      /\ lk \in Nat /\ lv \in Nat /\ ll \in Nat
  BY LegacyCells
<1>0. \A j \in 1 .. 6 : buf[pos + j] = s[j]
  OBVIOUS
<1> HIDE DEF s, hd, ch, lk, lv, ll, lc, lh, ls
<1>2. s[1] = hd[1] /\ s[2] = hd[2] /\ s[3] = hd[3] /\ s[4] = hd[4] /\ s[5] = hd[5]
      /\ s[6] = ch[1]
  <2>1. \A i \in 1 .. (lh + lc) : s[i] = IF i <= lh THEN hd[i] ELSE ch[i - lh]
    BY ONLY <1>1, CellAt, Zenon DEF lh, lc
  <2>0. lh = 5 /\ lc = 1 + lk + lv + ll /\ lk \in Nat /\ lv \in Nat /\ ll \in Nat
    BY <1>1, Zenon
  <2>2. lc \in Nat /\ lc >= 1 /\ lh = 5
    BY ONLY <2>0
  <2>3. \A i \in 1 .. 5 : i \in 1 .. (lh + lc) /\ i <= lh
    BY ONLY <2>2
  <2>4. 6 \in 1 .. (lh + lc) /\ ~(6 <= lh) /\ 6 - lh = 1
    BY ONLY <2>2
  <2>5. \A i \in 1 .. 5 : s[i] = hd[i]
    BY ONLY <2>1, <2>3
  <2>6. s[6] = ch[1]
    BY ONLY <2>1, <2>4
  <2> QED
    BY ONLY <2>5, <2>6
<1>3. /\ buf[pos + 1] = s[1] /\ buf[pos + 2] = s[2] /\ buf[pos + 3] = s[3]
      /\ buf[pos + 4] = s[4] /\ buf[pos + 5] = s[5] /\ buf[pos + 6] = s[6]
  BY <1>0
<1>4. LegacyFlags(buf, pos) = r.flags
  BY <1>1, <1>2, <1>3 DEF LegacyFlags
<1>5. PayloadEnd(buf, pos) = pos + 6 + lk + lv
  BY <1>1, <1>2, <1>3 DEF PayloadEnd, LegacyHeader
<1>6. ll = IF HasFlag(r.flags, HAS_LEASE) THEN 1 ELSE 0
  BY LegacyFields DEF ll
<1>7. LegacyEnd(buf, pos) = PayloadEnd(buf, pos) + ll
  BY ONLY <1>4, <1>6, Zenon DEF LegacyEnd
<1>8. LegacyEnd(buf, pos) = pos + ls
  <2>1. pos \in Nat /\ lk \in Nat /\ lv \in Nat /\ ll \in Nat /\ ls = 6 + lk + lv + ll
    BY <1>1
  <2>2. (pos + 6 + lk + lv) + ll = pos + ls
    BY ONLY <2>1
  <2> QED
    BY ONLY <1>5, <1>7, <2>2, Zenon
<1> QED
  BY ONLY <1>1, <1>2, <1>3, <1>4, <1>5, <1>8, Zenon DEF s, ch, lk, lv, ls

(* A legacy record that lies whole in a file is read from there.            *)
LEMMA LegacyRead ==
    ASSUME NEW buf \in Seq(Nat), NEW pos \in Nat, NEW r \in LegacyRecs,
           HasAt(buf, pos, LegacySerialize(r))
    PROVE  /\ pos + LegacyHeader <= Len(buf) /\ buf[pos + 1] = Magic
           /\ LegacyEnd(buf, pos) = pos + Len(LegacySerialize(r))
           /\ LegacyWhole(buf, pos) /\ LegacyChecks(buf, pos) /\ LegacyAt(buf, pos) = r
<1> DEFINE s == LegacySerialize(r)
           hd == LegacyHead(r)
           ch == Checked(r)
           f == <<r.flags>>
           k == r.key
           v == r.value
           l == r.lease_id
           lk == Len(k)
           lv == Len(v)
           ll == Len(l)
           q == pos + 5
<1>1. /\ s = hd \o ch /\ s \in Seq(Nat) /\ hd \in Seq(Nat) /\ ch \in Seq(Nat) /\ Len(hd) = 5
      /\ Len(s) = 6 + lk + lv + ll /\ Len(ch) = 1 + lk + lv + ll
      /\ lk \in Nat /\ lv \in Nat /\ ll \in Nat
  BY LegacyCells
<1>2. /\ r.revision \in Nat /\ r.flags \in Nat /\ k \in Seq(Nat) /\ v \in Seq(Nat)
      /\ l \in Seq(Nat)
      /\ r = [revision |-> r.revision, flags |-> r.flags, key |-> k, value |-> v,
              lease_id |-> l]
  BY LegacyFields
<1>3. ch = ((f \o k) \o v) \o l /\ f \in Seq(Nat) /\ Len(f) = 1
  BY <1>2 DEF Checked
<1>4. HasAt(buf, pos, s) /\ Len(buf) \in Nat
  OBVIOUS
<1> HIDE DEF s, hd, ch, f, k, v, l
<1>5. HasAt(buf, q, ch) /\ q \in Nat
  BY <1>1, <1>4, HasPartsAt
<1> HIDE DEF q
<1> DEFINE fk == f \o k
           fkv == fk \o v
<1>6. fk \in Seq(Nat) /\ Len(fk) = 1 + lk
  BY <1>2, <1>3, HasEnd
<1> HIDE DEF fk
<1>7. fkv \in Seq(Nat) /\ Len(fkv) = 1 + lk + lv
  BY <1>2, <1>6, HasEnd
<1>8. ch = fkv \o l
  BY <1>3 DEF fk
<1> HIDE DEF fkv
<1>9. HasAt(buf, q, fkv) /\ HasAt(buf, q + (1 + lk + lv), l)
  <2>1. HasAt(buf, q, fkv) /\ HasAt(buf, q + Len(fkv), l)
    BY <1>2, <1>5, <1>7, <1>8, HasPartsAt
  <2> QED
    BY ONLY <1>7, <2>1, Zenon
<1>10. HasAt(buf, q, fk) /\ HasAt(buf, q + (1 + lk), v)
  <2>1. HasAt(buf, q, fk) /\ HasAt(buf, q + Len(fk), v)
    BY <1>2, <1>5, <1>6, <1>9, HasPartsAt DEF fkv
  <2> QED
    BY ONLY <1>6, <2>1, Zenon
<1>11. HasAt(buf, q + 1, k)
  <2>1. HasAt(buf, q + Len(f), k)
    BY <1>2, <1>3, <1>5, <1>10, HasPartsAt DEF fk
  <2> QED
    BY ONLY <1>3, <2>1, Zenon
<1> DEFINE ls == Len(s)
           lc == Len(ch)
<1>21. ls = 6 + lk + lv + ll /\ lc = 1 + lk + lv + ll /\ lk \in Nat /\ lv \in Nat /\ ll \in Nat
  BY <1>1
<1> HIDE DEF lk, lv, ll, ls, lc
<1>22. q = pos + 5
  BY DEF q
<1>12. pos + ls <= Len(buf) /\ \A j \in 1 .. ls : buf[pos + j] = s[j]
  BY <1>4 DEF HasAt, ls
<1>13. \A j \in 1 .. 6 : buf[pos + j] = s[j]
  BY ONLY <1>12, <1>21
<1>14. /\ buf[pos + 1] = Magic /\ buf[pos + 2] = r.revision
       /\ buf[pos + 3] = Crc32c(ch) /\ buf[pos + 4] = lk
       /\ buf[pos + 5] = lv /\ LegacyFlags(buf, pos) = r.flags
       /\ PayloadEnd(buf, pos) = pos + 6 + lk + lv
       /\ LegacyEnd(buf, pos) = pos + ls
  BY <1>13, LegacyAnnounced DEF s, ch, lk, lv, k, v, ls
<1>15. LegacyWhole(buf, pos) /\ pos + LegacyHeader <= Len(buf)
  BY <1>4, <1>12, <1>14, <1>21 DEF LegacyWhole, LegacyHeader
<1>16. LegacyChecks(buf, pos)
  <2>1. SubSeq(buf, q + 1, q + lc) = ch
    BY <1>1, <1>5, PieceDef DEF lc
  <2>2. q + 1 = pos + 6 /\ q + lc = pos + ls
    BY <1>21, <1>22
  <2> QED
    BY <1>14, <2>1, <2>2 DEF LegacyChecks
<1>17. Cells(buf, pos + LegacyHeader, lk) = k
  <2> DEFINE p == q + 1
  <2>0. p \in Nat /\ p = pos + 6
    BY <1>5, <1>22
  <2>3. HasAt(buf, p, k)
    BY <1>11
  <2> HIDE DEF p
  <2>1. SubSeq(buf, p + 1, p + lk) = k
    BY <1>2, <2>0, <2>3, PieceDef DEF lk
  <2> QED
    BY <2>0, <2>1 DEF Cells, LegacyHeader
<1>18. Cells(buf, pos + LegacyHeader + lk, lv) = v
  <2> DEFINE p == q + (1 + lk)
  <2>0. p \in Nat /\ p = pos + 6 + lk
    BY <1>5, <1>21, <1>22
  <2>3. HasAt(buf, p, v)
    BY <1>10
  <2> HIDE DEF p
  <2>1. SubSeq(buf, p + 1, p + lv) = v
    BY <1>2, <2>0, <2>3, PieceDef DEF lv
  <2> QED
    BY <2>0, <2>1 DEF Cells, LegacyHeader
<1>19. SubSeq(buf, PayloadEnd(buf, pos) + 1, LegacyEnd(buf, pos)) = l
  <2> DEFINE p == q + (1 + lk + lv)
  <2>0. p \in Nat /\ p = pos + 6 + lk + lv /\ p + ll = pos + ls
    BY <1>5, <1>21, <1>22
  <2>3. HasAt(buf, p, l)
    BY <1>9
  <2> HIDE DEF p
  <2>1. SubSeq(buf, p + 1, p + ll) = l
    BY <1>2, <2>0, <2>3, PieceDef DEF ll
  <2> QED
    BY <1>14, <2>0, <2>1
<1>20. LegacyAt(buf, pos) = r
  <2>1. LegacyAt(buf, pos) = [revision |-> r.revision, flags |-> r.flags, key |-> k,
                              value |-> v, lease_id |-> l]
    BY ONLY <1>14, <1>17, <1>18, <1>19, Zenon DEF LegacyAt
  <2> QED
    BY <1>2, <2>1
<1> QED
  BY <1>14, <1>15, <1>16, <1>20 DEF s, ls

-----------------------------------------------------------------------------
(* The readers of a legacy log: a recursion that adds what it finds at a    *)
(* place to what it finds at a later one.                                   *)
Emits(t, n, stop, emit, nx) ==
    \A c \in 0 .. n : t[c] = IF stop[c] THEN <<>> ELSE emit[c] \o t[nx[c]]

(* A reader that emits records and goes on to later positions has a result. *)
LEMMA EmitRecursion ==
    ASSUME NEW n \in Nat, NEW R, NEW stop, NEW emit \in [0 .. n -> Seq(R)],
           NEW nx \in [0 .. n -> Nat],
           \A c \in 0 .. n : ~stop[c] => nx[c] \in (c + 1) .. n
    PROVE  \E t \in [0 .. n -> Seq(R)] : Emits(t, n, stop, emit, nx)
<1> DEFINE X == Seq(R)
           g == [c \in 0 .. n |-> [x \in X |-> emit[c] \o x]]
           base == [c \in 0 .. n |-> <<>>]
           ny == [c \in 0 .. n |-> IF stop[c] THEN 0 ELSE nx[c]]
<1>1. g \in [0 .. n -> [X -> X]]
  <2>1. \A c \in 0 .. n, x \in X : emit[c] \o x \in X
    OBVIOUS
  <2> HIDE DEF X
  <2> QED
    BY <2>1
<1>2. base \in [0 .. n -> X]
  OBVIOUS
<1>3. ny \in [0 .. n -> Nat]
  OBVIOUS
<1>4. PICK t \in [0 .. n -> X] : LaterSolution(t, n, g, base, ny)
  <2> HIDE DEF X, g, base, ny
  <2> QED
    BY <1>1, <1>2, <1>3, LaterRecursion
<1>5. ASSUME NEW c \in 0 .. n
      PROVE  t[c] = IF stop[c] THEN <<>> ELSE emit[c] \o t[nx[c]]
  <2>1. t[c] = IF ny[c] \in (c + 1) .. n THEN g[c][t[ny[c]]] ELSE base[c]
    <3> HIDE DEF g, base, ny
    <3> QED
      BY <1>4 DEF LaterSolution
  <2>2. CASE stop[c]
    <3>1. ny[c] = 0 /\ ~(0 \in (c + 1) .. n) /\ base[c] = <<>>
      BY <2>2
    <3> HIDE DEF g, base, ny
    <3> QED
      BY <2>1, <2>2, <3>1
  <2>3. CASE ~stop[c]
    <3>1. ny[c] = nx[c] /\ nx[c] \in (c + 1) .. n /\ nx[c] \in 0 .. n
      BY <2>3
    <3>2. t[nx[c]] \in X
      BY <3>1
    <3>3. g[c][t[nx[c]]] = emit[c] \o t[nx[c]]
      <4> HIDE DEF X
      <4> QED
        BY <3>2
    <3> HIDE DEF g, base, ny
    <3> QED
      BY <2>1, <2>3, <3>1, <3>3
  <2> QED
    BY <2>2, <2>3
<1> QED
  BY <1>5 DEF Emits

(* A header announces a later end.                                          *)
LEMMA LegacyEndLater ==
    ASSUME NEW buf \in Seq(Nat), NEW c \in 0 .. Len(buf), ~(c + LegacyHeader > Len(buf))
    PROVE  LegacyEnd(buf, c) \in Nat /\ LegacyEnd(buf, c) > c /\ c + 1 \in (c + 1) .. Len(buf)
<1> DEFINE n == Len(buf)
           x == buf[c + 4]
           y == buf[c + 5]
           z == IF HasFlag(LegacyFlags(buf, c), HAS_LEASE) THEN 1 ELSE 0
<1>1. n \in Nat /\ c \in Nat /\ c + 6 <= n
  BY DEF LegacyHeader
<1>2. c + 4 \in 1 .. n /\ c + 5 \in 1 .. n
  BY <1>1
<1>3. x \in Nat /\ y \in Nat /\ z \in Nat
  BY <1>2
<1>4. LegacyEnd(buf, c) = c + 6 + x + y + z
  BY DEF LegacyEnd, PayloadEnd, LegacyHeader
<1> HIDE DEF x, y, z, n
<1>5. c + 6 + x + y + z \in Nat /\ c + 6 + x + y + z > c /\ c + 1 \in (c + 1) .. n
  BY <1>1, <1>3
<1> QED
  BY <1>4, <1>5 DEF n

ReadStops(buf, c) ==
    \/ c + LegacyHeader > Len(buf)
    \/ buf[c + 1] # Magic
    \/ ~LegacyWhole(buf, c) \/ ~LegacyChecks(buf, c)

(* The equation of read_old_records at each position.                       *)
LEMMA ReadOldDef ==
    ASSUME NEW buf \in Seq(Nat)
    PROVE  \A c \in 0 .. Len(buf) :
              ReadOld(buf)[c] = IF ReadStops(buf, c) THEN <<>>
                                ELSE <<LegacyAt(buf, c)>> \o ReadOld(buf)[LegacyEnd(buf, c)]
<1> DEFINE n == Len(buf)
           R == {LegacyAt(buf, c) : c \in 0 .. n}
           stop == [c \in 0 .. n |-> ReadStops(buf, c)]
           emit == [c \in 0 .. n |-> <<LegacyAt(buf, c)>>]
           nx == [c \in 0 .. n |-> IF ReadStops(buf, c) THEN 0 ELSE LegacyEnd(buf, c)]
           Body(t, c) == IF ReadStops(buf, c) THEN <<>>
                         ELSE <<LegacyAt(buf, c)>> \o t[LegacyEnd(buf, c)]
           Good(t) == t = [c \in 0 .. n |-> Body(t, c)]
<1>1. n \in Nat
  OBVIOUS
<1>2. ReadOld(buf) = CHOOSE t : Good(t)
  BY DEF ReadOld, ReadStops
<1>3. emit \in [0 .. n -> Seq(R)]
  <2>1. \A c \in 0 .. n : LegacyAt(buf, c) \in R
    OBVIOUS
  <2> HIDE DEF R
  <2>2. \A c \in 0 .. n : <<LegacyAt(buf, c)>> \in Seq(R)
    BY <2>1
  <2> QED
    BY <2>2
<1>4. ASSUME NEW c \in 0 .. n, ~ReadStops(buf, c) PROVE LegacyEnd(buf, c) \in (c + 1) .. n
  <2>1. ~(c + LegacyHeader > Len(buf)) /\ LegacyEnd(buf, c) <= Len(buf)
    BY <1>4 DEF ReadStops, LegacyWhole
  <2>2. LegacyEnd(buf, c) \in Nat /\ LegacyEnd(buf, c) > c
    BY <2>1, LegacyEndLater
  <2> QED
    BY <1>1, <2>1, <2>2
<1>5. nx \in [0 .. n -> Nat]
  <2>1. \A c \in 0 .. n : ~ReadStops(buf, c) => LegacyEnd(buf, c) \in Nat
    BY <1>1, <1>4
  <2> QED
    BY <2>1
<1>6. \A c \in 0 .. n : ~stop[c] => nx[c] \in (c + 1) .. n
  BY <1>4
<1>7. PICK t \in [0 .. n -> Seq(R)] : Emits(t, n, stop, emit, nx)
  <2> HIDE DEF n, R, stop, emit, nx
  <2> QED
    BY <1>1, <1>3, <1>5, <1>6, EmitRecursion
<1>8. \A c \in 0 .. n : t[c] = Body(t, c)
  <2> SUFFICES ASSUME NEW c \in 0 .. n PROVE t[c] = Body(t, c)
    OBVIOUS
  <2>1. t[c] = IF stop[c] THEN <<>> ELSE emit[c] \o t[nx[c]]
    BY <1>7, Zenon DEF Emits
  <2>2. stop[c] = ReadStops(buf, c) /\ emit[c] = <<LegacyAt(buf, c)>>
    OBVIOUS
  <2>3. nx[c] = IF ReadStops(buf, c) THEN 0 ELSE LegacyEnd(buf, c)
    OBVIOUS
  <2> HIDE DEF stop, emit, nx
  <2> QED
    BY ONLY <2>1, <2>2, <2>3, Zenon DEF Body
<1>9. Good(t)
  <2> HIDE DEF Body
  <2> QED
    BY <1>8
<1>10. Good(ReadOld(buf))
  <2> HIDE DEF Good
  <2> QED
    BY <1>2, <1>9
<1>11. \A c \in 0 .. n : ReadOld(buf)[c] = Body(ReadOld(buf), c)
  <2> DEFINE s == ReadOld(buf)
  <2>1. s = [c \in 0 .. n |-> Body(s, c)]
    BY <1>10
  <2> HIDE DEF s, Body
  <2>2. \A c \in 0 .. n : s[c] = Body(s, c)
    BY <2>1
  <2> QED
    BY <2>2 DEF s
<1> QED
  BY <1>11

ScanStops(buf, c) ==
    c + LegacyHeader > Len(buf) \/ (buf[c + 1] = Magic /\ ~LegacyWhole(buf, c))
ScanFinds(buf, c) == buf[c + 1] = Magic /\ LegacyChecks(buf, c)
ScanNext(tool, buf, c) ==
    IF buf[c + 1] # Magic THEN c + 1
    ELSE IF LegacyChecks(buf, c) THEN LegacyEnd(buf, c) ELSE ResyncAt(tool, buf, c)

(* The equation of the tools' scan_wal at each position.                    *)
LEMMA ScanLegacyDef ==
    ASSUME NEW buf \in Seq(Nat), NEW tool
    PROVE  \A c \in 0 .. Len(buf) :
              ScanLegacy(tool, buf)[c] =
                 IF c + LegacyHeader > Len(buf) THEN <<>>
                 ELSE IF buf[c + 1] # Magic THEN ScanLegacy(tool, buf)[c + 1]
                 ELSE IF ~LegacyWhole(buf, c) THEN <<>>
                 ELSE IF ~LegacyChecks(buf, c)
                 THEN ScanLegacy(tool, buf)[ResyncAt(tool, buf, c)]
                 ELSE <<LegacyAt(buf, c)>> \o ScanLegacy(tool, buf)[LegacyEnd(buf, c)]
<1> DEFINE n == Len(buf)
           R == {LegacyAt(buf, c) : c \in 0 .. n}
           stop == [c \in 0 .. n |-> ScanStops(buf, c)]
           emit == [c \in 0 .. n |-> IF ScanFinds(buf, c) THEN <<LegacyAt(buf, c)>> ELSE <<>>]
           nx == [c \in 0 .. n |-> IF ScanStops(buf, c) THEN 0 ELSE ScanNext(tool, buf, c)]
           Body(t, c) == IF c + LegacyHeader > n THEN <<>>
                         ELSE IF buf[c + 1] # Magic THEN t[c + 1]
                         ELSE IF ~LegacyWhole(buf, c) THEN <<>>
                         ELSE IF ~LegacyChecks(buf, c) THEN t[ResyncAt(tool, buf, c)]
                         ELSE <<LegacyAt(buf, c)>> \o t[LegacyEnd(buf, c)]
           Good(t) == t = [c \in 0 .. n |-> Body(t, c)]
<1>1. n \in Nat
  OBVIOUS
<1>2. ScanLegacy(tool, buf) = CHOOSE t : Good(t)
  BY DEF ScanLegacy
<1>3. emit \in [0 .. n -> Seq(R)]
  <2>1. \A c \in 0 .. n : LegacyAt(buf, c) \in R
    OBVIOUS
  <2> HIDE DEF R
  <2>2. \A c \in 0 .. n : <<LegacyAt(buf, c)>> \in Seq(R) /\ <<>> \in Seq(R)
    BY <2>1
  <2> QED
    BY <2>2
<1>4. ASSUME NEW c \in 0 .. n, ~ScanStops(buf, c) PROVE ScanNext(tool, buf, c) \in (c + 1) .. n
  <2>1. ~(c + LegacyHeader > Len(buf)) /\ (buf[c + 1] = Magic => LegacyEnd(buf, c) <= Len(buf))
    BY <1>4 DEF ScanStops, LegacyWhole
  <2>2. LegacyEnd(buf, c) \in Nat /\ LegacyEnd(buf, c) > c /\ c + 1 \in (c + 1) .. n
    BY <2>1, LegacyEndLater
  <2>3. buf[c + 1] = Magic => LegacyEnd(buf, c) \in (c + 1) .. n
    BY <1>1, <2>1, <2>2
  <2> QED
    BY <2>2, <2>3 DEF ScanNext, ResyncAt
<1>5. nx \in [0 .. n -> Nat]
  <2>1. \A c \in 0 .. n : ~ScanStops(buf, c) => ScanNext(tool, buf, c) \in Nat
    BY <1>1, <1>4
  <2> QED
    BY <2>1
<1>6. \A c \in 0 .. n : ~stop[c] => nx[c] \in (c + 1) .. n
  BY <1>4
<1>7. PICK t \in [0 .. n -> Seq(R)] : Emits(t, n, stop, emit, nx)
  <2> HIDE DEF n, R, stop, emit, nx
  <2> QED
    BY <1>1, <1>3, <1>5, <1>6, EmitRecursion
<1>8. \A c \in 0 .. n : t[c] = Body(t, c)
  <2> SUFFICES ASSUME NEW c \in 0 .. n PROVE t[c] = Body(t, c)
    OBVIOUS
  <2>1. t[c] = IF stop[c] THEN <<>> ELSE emit[c] \o t[nx[c]]
    BY <1>7, Zenon DEF Emits
  <2>2. stop[c] = ScanStops(buf, c)
        /\ emit[c] = IF ScanFinds(buf, c) THEN <<LegacyAt(buf, c)>> ELSE <<>>
    OBVIOUS
  <2>3. nx[c] = IF ScanStops(buf, c) THEN 0 ELSE ScanNext(tool, buf, c)
    OBVIOUS
  <2>4. \A s \in Seq(R) : <<>> \o s = s
    <3> HIDE DEF R
    <3> QED
      OBVIOUS
  <2>5. ~ScanStops(buf, c) => t[ScanNext(tool, buf, c)] \in Seq(R)
    <3>1. \A x \in (c + 1) .. n : x \in 0 .. n
      BY <1>1
    <3> HIDE DEF R
    <3> QED
      BY <1>4, <3>1
  <2> HIDE DEF stop, emit, nx, n, R
  <2>6. CASE ScanStops(buf, c)
    BY ONLY <2>1, <2>2, <2>6, Zenon DEF Body, ScanStops, n
  <2>7. CASE ~ScanStops(buf, c) /\ ScanFinds(buf, c)
    <3>1. t[c] = <<LegacyAt(buf, c)>> \o t[ScanNext(tool, buf, c)]
      BY ONLY <2>1, <2>2, <2>3, <2>7, Zenon
    <3>2. ScanNext(tool, buf, c) = LegacyEnd(buf, c)
      BY ONLY <2>7, Zenon DEF ScanNext, ScanFinds
    <3> QED
      BY ONLY <2>7, <3>1, <3>2, Zenon DEF Body, ScanStops, ScanFinds, n
  <2>8. CASE ~ScanStops(buf, c) /\ ~ScanFinds(buf, c)
    <3>1. t[c] = <<>> \o t[ScanNext(tool, buf, c)]
      BY ONLY <2>1, <2>2, <2>3, <2>8, Zenon
    <3>2. t[c] = t[ScanNext(tool, buf, c)]
      BY ONLY <2>4, <2>5, <2>8, <3>1, Zenon
    <3>3. CASE buf[c + 1] # Magic
      <4>1. ScanNext(tool, buf, c) = c + 1
        BY ONLY <3>3, Zenon DEF ScanNext
      <4> QED
        BY ONLY <2>8, <3>2, <3>3, <4>1, Zenon DEF Body, ScanStops, n
    <3>4. CASE ~(buf[c + 1] # Magic)
      <4>1. ~LegacyChecks(buf, c)
        BY ONLY <2>8, <3>4, Zenon DEF ScanFinds
      <4>2. ScanNext(tool, buf, c) = ResyncAt(tool, buf, c)
        BY ONLY <3>4, <4>1, Zenon DEF ScanNext
      <4> QED
        BY ONLY <2>8, <3>2, <3>4, <4>1, <4>2, Zenon DEF Body, ScanStops, n
    <3> QED
      BY ONLY <3>3, <3>4, Zenon
  <2> QED
    BY <2>6, <2>7, <2>8, Zenon
<1>9. Good(t)
  <2> HIDE DEF Body
  <2> QED
    BY <1>8
<1>10. Good(ScanLegacy(tool, buf))
  <2> HIDE DEF Good
  <2> QED
    BY <1>2, <1>9
<1>11. \A c \in 0 .. n : ScanLegacy(tool, buf)[c] = Body(ScanLegacy(tool, buf), c)
  <2> DEFINE s == ScanLegacy(tool, buf)
  <2>1. s = [c \in 0 .. n |-> Body(s, c)]
    BY <1>10
  <2> HIDE DEF s, Body
  <2>2. \A c \in 0 .. n : s[c] = Body(s, c)
    BY <2>1
  <2> QED
    BY <2>2 DEF s
<1> QED
  BY <1>11

(* A reader that finds a whole record goes on behind it, and one that finds *)
(* less than a record stops.                                                *)
LegacyReader(t, buf) ==
    /\ \A c \in Nat, r \in LegacyRecs :
          HasAt(buf, c, LegacySerialize(r)) =>
             t[c] = <<r>> \o t[c + Len(LegacySerialize(r))]
    /\ \A c \in Nat, r \in LegacyRecs, k \in Nat :
          /\ Len(buf) = c + k /\ k < Len(LegacySerialize(r))
          /\ \A j \in 1 .. k : buf[c + j] = LegacySerialize(r)[j]
          => t[c] = <<>>

(* All four loops are legacy readers.                                       *)
LEMMA LegacyReaders ==
    ASSUME NEW buf \in Seq(Nat)
    PROVE  LegacyReader(ReadOld(buf), buf) /\ \A tool : LegacyReader(ScanLegacy(tool, buf), buf)
<1> DEFINE n == Len(buf)
           Ser(r) == LegacySerialize(r)
<1>1. n \in Nat
  OBVIOUS
<1>2. ASSUME NEW c \in Nat, NEW r \in LegacyRecs, HasAt(buf, c, Ser(r))
      PROVE  /\ c \in 0 .. n /\ ~(c + LegacyHeader > n) /\ buf[c + 1] = Magic
             /\ LegacyWhole(buf, c) /\ LegacyChecks(buf, c) /\ LegacyAt(buf, c) = r
             /\ LegacyEnd(buf, c) = c + Len(Ser(r))
  <2>1. /\ c + LegacyHeader <= n /\ buf[c + 1] = Magic /\ LegacyEnd(buf, c) = c + Len(Ser(r))
        /\ LegacyWhole(buf, c) /\ LegacyChecks(buf, c) /\ LegacyAt(buf, c) = r
    BY <1>2, LegacyRead
  <2>2. c \in 0 .. n /\ ~(c + LegacyHeader > n)
    BY <1>1, <2>1 DEF LegacyHeader
  <2> QED
    BY <2>1, <2>2
<1>3. ASSUME NEW c \in Nat, NEW r \in LegacyRecs, NEW k \in Nat, n = c + k, k < Len(Ser(r)),
             \A j \in 1 .. k : buf[c + j] = Ser(r)[j]
      PROVE  /\ c \in 0 .. n
             /\ c + LegacyHeader > n \/ (buf[c + 1] = Magic /\ ~LegacyWhole(buf, c))
  <2>1. CASE k < 6
    BY <1>1, <1>3, <2>1 DEF LegacyHeader
  <2>2. CASE ~(k < 6)
    <3>1. \A j \in 1 .. 6 : j \in 1 .. k
      BY <2>2
    <3>2. \A j \in 1 .. 6 : buf[c + j] = LegacySerialize(r)[j]
      BY <1>3, <3>1
    <3>3. buf[c + 1] = Magic /\ LegacyEnd(buf, c) = c + Len(Ser(r))
      BY <3>2, LegacyAnnounced
    <3>4. Len(Ser(r)) \in Nat
      BY LegacyCells
    <3> HIDE DEF Ser
    <3>5. ~(c + Len(Ser(r)) <= n) /\ c \in 0 .. n
      BY <1>1, <1>3, <3>4
    <3> QED
      BY <3>3, <3>5 DEF LegacyWhole
  <2> QED
    BY <2>1, <2>2
<1> HIDE DEF Ser
<1>4. LegacyReader(ReadOld(buf), buf)
  <2>1. ASSUME NEW c \in Nat, NEW r \in LegacyRecs, HasAt(buf, c, Ser(r))
        PROVE  ReadOld(buf)[c] = <<r>> \o ReadOld(buf)[c + Len(Ser(r))]
    <3>1. ReadOld(buf)[c] = IF ReadStops(buf, c) THEN <<>>
                            ELSE <<LegacyAt(buf, c)>> \o ReadOld(buf)[LegacyEnd(buf, c)]
      BY <1>2, <2>1, ReadOldDef
    <3>2. ~ReadStops(buf, c)
      BY <1>2, <2>1 DEF ReadStops
    <3> QED
      BY <1>2, <2>1, <3>1, <3>2
  <2>2. ASSUME NEW c \in Nat, NEW r \in LegacyRecs, NEW k \in Nat, n = c + k,
               k < Len(Ser(r)), \A j \in 1 .. k : buf[c + j] = Ser(r)[j]
        PROVE  ReadOld(buf)[c] = <<>>
    <3>1. c \in 0 .. n /\ ReadStops(buf, c)
      BY <1>3, <2>2 DEF ReadStops
    <3> QED
      BY <3>1, ReadOldDef
  <2> QED
    BY <2>1, <2>2, Zenon DEF LegacyReader, Ser, n
<1>5. ASSUME NEW tool PROVE LegacyReader(ScanLegacy(tool, buf), buf)
  <2> DEFINE t == ScanLegacy(tool, buf)
  <2>0. \A c \in 0 .. n :
              t[c] = IF c + LegacyHeader > n THEN <<>>
                     ELSE IF buf[c + 1] # Magic THEN t[c + 1]
                     ELSE IF ~LegacyWhole(buf, c) THEN <<>>
                     ELSE IF ~LegacyChecks(buf, c) THEN t[ResyncAt(tool, buf, c)]
                     ELSE <<LegacyAt(buf, c)>> \o t[LegacyEnd(buf, c)]
    BY ScanLegacyDef
  <2> HIDE DEF t
  <2>1. ASSUME NEW c \in Nat, NEW r \in LegacyRecs, HasAt(buf, c, Ser(r))
        PROVE  t[c] = <<r>> \o t[c + Len(Ser(r))]
    <3>1. /\ c \in 0 .. n /\ ~(c + LegacyHeader > n) /\ buf[c + 1] = Magic
          /\ LegacyWhole(buf, c) /\ LegacyChecks(buf, c) /\ LegacyAt(buf, c) = r
          /\ LegacyEnd(buf, c) = c + Len(Ser(r))
      BY <1>2, <2>1
    <3> QED
      BY ONLY <2>0, <3>1, Zenon
  <2>2. ASSUME NEW c \in Nat, NEW r \in LegacyRecs, NEW k \in Nat, n = c + k,
               k < Len(Ser(r)), \A j \in 1 .. k : buf[c + j] = Ser(r)[j]
        PROVE  t[c] = <<>>
    <3>1. /\ c \in 0 .. n
          /\ c + LegacyHeader > n \/ (buf[c + 1] = Magic /\ ~LegacyWhole(buf, c))
      BY <1>3, <2>2
    <3> QED
      BY ONLY <2>0, <3>1, Zenon
  <2> QED
    BY <2>1, <2>2, Zenon DEF LegacyReader, Ser, n, t
<1> QED
  BY <1>4, <1>5

-----------------------------------------------------------------------------
(* Every reader gives back the whole records of a legacy log.               *)
LegacySer == [r \in LegacyRecs |-> LegacySerialize(r)]

(* LegacySer is LegacySerialize as a function.                              *)
LEMMA LegacySerIs ==
    /\ LegacySer \in [LegacyRecs -> Seq(Nat)]
    /\ \A r \in LegacyRecs : LegacySer[r] = LegacySerialize(r) /\ Len(LegacySer[r]) > 0
<1>1. ASSUME NEW r \in LegacyRecs
      PROVE  LegacySerialize(r) \in Seq(Nat) /\ Len(LegacySerialize(r)) > 0
  <2>1. /\ LegacySerialize(r) \in Seq(Nat)
        /\ Len(LegacySerialize(r)) = 6 + Len(r.key) + Len(r.value) + Len(r.lease_id)
        /\ Len(r.key) \in Nat /\ Len(r.value) \in Nat /\ Len(r.lease_id) \in Nat
    BY LegacyCells
  <2>2. \A x, y, z \in Nat : 6 + x + y + z > 0
    OBVIOUS
  <2> QED
    BY ONLY <2>1, <2>2, Zenon
<1>2. \A r \in LegacyRecs : LegacySer[r] = LegacySerialize(r)
  BY DEF LegacySer
<1>3. LegacySer \in [LegacyRecs -> Seq(Nat)]
  BY <1>1 DEF LegacySer
<1> QED
  BY <1>1, <1>2, <1>3

(* A legacy log joins its serialised records.                               *)
LEMMA LegacyLogIs ==
    ASSUME NEW recs \in Seq(LegacyRecs)
    PROVE  LegacyLog(recs) = Joined(LegacySer, recs)
<1>1. \A i \in DOMAIN recs : recs[i] \in LegacyRecs
  OBVIOUS
<1>2. \A i \in DOMAIN recs : LegacySer[recs[i]] = LegacySerialize(recs[i])
  BY <1>1, LegacySerIs
<1>3. [i \in DOMAIN recs |-> LegacySer[recs[i]]] = [i \in DOMAIN recs |-> LegacySerialize(recs[i])]
  BY <1>2, Zenon
<1> QED
  BY <1>3, Zenon DEF LegacyLog, Joined

(* Of whole records and less than one more a legacy reader reads the whole  *)
(* ones.                                                                    *)
LEMMA LegacyWholeRead ==
    ASSUME NEW recs \in Seq(LegacyRecs), NEW rec \in LegacyRecs, NEW k \in Nat,
           k < Len(LegacySerialize(rec)), NEW log,
           log = LegacyLog(recs) \o SubSeq(LegacySerialize(rec), 1, k),
           NEW t, LegacyReader(t, log)
    PROVE  t[0] = recs
<1> DEFINE n == Len(recs)
           ser == LegacySer
           whole == Joined(ser, recs)
           s == LegacySerialize(rec)
           tail == SubSeq(s, 1, k)
           e(i) == JoinedEnd(ser, recs, i)
           at(i) == ser[recs[i + 1]]
           Holds(i) == t[e(i)] = SubSeq(recs, i + 1, n)
           T == {d \in Nat : d <= n => Holds(n - d)}
<1>0. ser \in [LegacyRecs -> Seq(Nat)] /\ recs \in Seq(LegacyRecs)
  BY LegacySerIs
<1>1. n \in Nat /\ whole \in Seq(Nat) /\ s \in Seq(Nat) /\ Len(s) \in Nat
  <2>1. whole \in Seq(Nat)
    BY ONLY <1>0, JoinedType, Zenon
  <2>2. s \in Seq(Nat)
    BY LegacyCells
  <2> HIDE DEF whole, s
  <2> QED
    BY <2>1, <2>2
<1>2. tail \in Seq(Nat) /\ Len(tail) = k /\ \A j \in 1 .. k : tail[j] = s[j]
  <2> HIDE DEF s
  <2> QED
    BY <1>1 DEF s
<1>20. log = whole \o tail
  BY LegacyLogIs
<1>3. /\ log \in Seq(Nat) /\ Len(log) = Len(whole) + k /\ HasAt(log, Len(whole), tail)
  <2> HIDE DEF whole, tail
  <2> QED
    BY <1>1, <1>2, <1>20, HasEnd
<1>4. /\ e(0) = 0 /\ e(n) = Len(whole)
      /\ \A i \in 0 .. n : e(i) \in Nat
      /\ \A i \in 0 .. (n - 1) :
            HasAt(whole, e(i), at(i)) /\ e(i + 1) = e(i) + Len(at(i))
  BY ONLY <1>0, JoinedPieces, Zenon
<1>5. \A i \in 0 .. (n - 1) : recs[i + 1] \in LegacyRecs /\ at(i) \in Seq(Nat)
                              /\ at(i) = LegacySerialize(recs[i + 1])
                              /\ i \in 0 .. n /\ i + 1 \in 0 .. n
  <2> SUFFICES ASSUME NEW i \in 0 .. (n - 1)
               PROVE  recs[i + 1] \in LegacyRecs /\ at(i) \in Seq(Nat)
                      /\ at(i) = LegacySerialize(recs[i + 1])
                      /\ i \in 0 .. n /\ i + 1 \in 0 .. n
    OBVIOUS
  <2>1. i + 1 \in 1 .. n /\ i \in 0 .. n /\ i + 1 \in 0 .. n
    BY <1>1
  <2>2. recs[i + 1] \in LegacyRecs
    BY <2>1
  <2>3. at(i) \in Seq(Nat) /\ at(i) = LegacySerialize(recs[i + 1])
    BY ONLY <1>0, <2>2, LegacySerIs
  <2> QED
    BY <2>1, <2>2, <2>3
<1>6. \A i \in 0 .. (n - 1) : HasAt(log, e(i), at(i))
  <2> SUFFICES ASSUME NEW i \in 0 .. (n - 1) PROVE HasAt(log, e(i), at(i))
    OBVIOUS
  <2>1. HasAt(whole, e(i), at(i)) /\ e(i) \in Nat /\ at(i) \in Seq(Nat)
    BY <1>4, <1>5
  <2> HIDE DEF whole, tail, e, at
  <2> QED
    BY <1>1, <1>2, <1>20, <2>1, HasMoreCells
<1> HIDE DEF whole, tail, e, at
<1>7. Holds(n)
  <2> DEFINE c == e(n)
  <2>1. c \in Nat /\ Len(log) = c + k
    BY <1>1, <1>3, <1>4
  <2>2. \A j \in 1 .. k : log[c + j] = s[j]
    <3>1. HasAt(log, c, tail)
      BY <1>3, <1>4
    <3> QED
      BY <1>2, <3>1 DEF HasAt
  <2> HIDE DEF c
  <2>3. t[c] = <<>>
    BY <2>1, <2>2 DEF LegacyReader
  <2>4. SubSeq(recs, n + 1, n) = <<>>
    BY <1>1
  <2> QED
    BY <2>3, <2>4 DEF c
<1>8. ASSUME NEW i \in 0 .. (n - 1), Holds(i + 1) PROVE Holds(i)
  <2> DEFINE c == e(i)
             r == recs[i + 1]
  <2>1. c \in Nat /\ r \in LegacyRecs /\ HasAt(log, c, LegacySerialize(r))
        /\ c + Len(LegacySerialize(r)) = e(i + 1)
    BY <1>4, <1>5, <1>6
  <2> HIDE DEF r, c
  <2>2. t[c] = <<r>> \o t[c + Len(LegacySerialize(r))]
    BY <2>1, Zenon DEF LegacyReader
  <2>3. <<r>> \o SubSeq(recs, (i + 1) + 1, n) = SubSeq(recs, i + 1, n)
    BY SuffixStep DEF r
  <2> QED
    BY <1>8, <2>1, <2>2, <2>3 DEF c
<1> HIDE DEF Holds
<1>9. 0 \in T
  <2>1. n - 0 = n
    BY <1>1
  <2> QED
    BY <1>7, <2>1
<1>10. ASSUME NEW d \in Nat, d \in T PROVE d + 1 \in T
  <2> SUFFICES ASSUME d + 1 <= n PROVE Holds(n - (d + 1))
    OBVIOUS
  <2> DEFINE i == n - (d + 1)
  <2>1. i \in 0 .. (n - 1) /\ i + 1 = n - d /\ d <= n
    BY <1>1
  <2>2. Holds(n - d)
    BY <1>10, <2>1
  <2> HIDE DEF i
  <2>3. Holds(i)
    BY <1>8, <2>1, <2>2
  <2> QED
    BY <2>3 DEF i
<1>11. T = Nat
  <2> HIDE DEF T
  <2>1. T \in SUBSET Nat
    BY DEF T
  <2> QED
    BY <1>9, <1>10, <2>1, InductionOnSet
<1>12. Holds(0)
  <2>1. n \in T
    <3> HIDE DEF T
    <3> QED
      BY <1>1, <1>11
  <2>2. n - n = 0 /\ n <= n
    BY <1>1
  <2> QED
    BY <2>1, <2>2
<1>13. SubSeq(recs, 0 + 1, n) = recs
  OBVIOUS
<1> QED
  BY <1>4, <1>12, <1>13 DEF Holds

-----------------------------------------------------------------------------
(* The legacy records of a history.                                         *)
LEMMA FlagsAre ==
    ASSUME NEW f \in {0, 1, 2, 4, 6}
    PROVE  /\ f \in Nat
           /\ HasFlag(f, HAS_LEASE) <=> f \in {4, 6}
           /\ HasFlag(f, DELETED) <=> f = 1
           /\ HasFlag(f, IS_CREATE) <=> f \in {2, 6}
  BY DEF HasFlag, HAS_LEASE, DELETED, IS_CREATE

LegacyFlag(h, i) ==
    LeaseFlag(h[i].lease)
    + IF h[i].deleted THEN DELETED
      ELSE IF Alive(TableAfter(SubSeq(h, 1, i - 1)), h[i].key) THEN 0 ELSE IS_CREATE

(* The fields of a legacy write.                                            *)
LEMMA LegacyWriteIs ==
    ASSUME NEW w \in LegacyWrites
    PROVE  /\ w.deleted \in BOOLEAN /\ w.key \in LegacyKeys /\ w.value \in Values
           /\ w.lease \in {0, 1} /\ (w.deleted => w.lease = 0)
<1>1. CASE \E k \in LegacyKeys, v \in Values, l \in {0, 1} :
              w = [deleted |-> FALSE, key |-> k, value |-> v, lease |-> l]
  <2>1. PICK k \in LegacyKeys, v \in Values, l \in {0, 1} :
              w = [deleted |-> FALSE, key |-> k, value |-> v, lease |-> l]
    BY <1>1
  <2> DEFINE no == FALSE
  <2> HIDE DEF no
  <2>2. w = [deleted |-> no, key |-> k, value |-> v, lease |-> l]
    BY <2>1 DEF no
  <2>3. w.deleted = no /\ w.key = k /\ w.value = v /\ w.lease = l
    BY ONLY <2>2
  <2> QED
    BY <2>1, <2>3, Zenon DEF no
<1>2. CASE \E k \in LegacyKeys :
              w = [deleted |-> TRUE, key |-> k, value |-> EmptyValue, lease |-> 0]
  <2>1. PICK k \in LegacyKeys :
              w = [deleted |-> TRUE, key |-> k, value |-> EmptyValue, lease |-> 0]
    BY <1>2
  <2> DEFINE yes == TRUE
  <2> HIDE DEF yes
  <2>2. w = [deleted |-> yes, key |-> k, value |-> EmptyValue, lease |-> 0]
    BY <2>1 DEF yes
  <2>3. w.deleted = yes /\ w.key = k /\ w.value = EmptyValue /\ w.lease = 0
    BY ONLY <2>2
  <2>4. 0 \in {0, 1} /\ EmptyValue \in Values
    BY ValuesAssumption
  <2> QED
    BY <2>1, <2>3, <2>4, Zenon DEF yes
<1> QED
  BY <1>1, <1>2 DEF LegacyWrites, Writes

(* The flags of a legacy record tell deletes and leases.                    *)
LEMMA LegacyFlagIs ==
    ASSUME NEW h \in Seq(LegacyWrites), NEW i \in 1 .. Len(h)
    PROVE  /\ LegacyFlag(h, i) \in {0, 1, 2, 4, 6}
           /\ LegacyFlag(h, i) = 1 <=> h[i].deleted
           /\ LegacyFlag(h, i) \in {4, 6} <=> h[i].lease # 0
<1> DEFINE w == h[i]
           a == Alive(TableAfter(SubSeq(h, 1, i - 1)), w.key)
           x == LeaseFlag(w.lease)
           y == IF w.deleted THEN DELETED ELSE IF a THEN 0 ELSE IS_CREATE
<1>1. w \in LegacyWrites
  OBVIOUS
<1>2. LegacyFlag(h, i) = x + y
  BY DEF LegacyFlag
<1> HIDE DEF w, a
<1>3. w.deleted \in BOOLEAN /\ w.lease \in {0, 1} /\ (w.deleted => w.lease = 0)
  BY <1>1, LegacyWriteIs
<1>4. (w.lease = 0 => x = 0) /\ (w.lease # 0 => x = 4)
  BY DEF LeaseFlag, HAS_LEASE
<1>5. (w.deleted => y = 1) /\ (~w.deleted => y \in {0, 2})
  BY DEF DELETED, IS_CREATE
<1> HIDE DEF x, y
<1>6. CASE w.deleted
  <2>1. x = 0 /\ y = 1
    BY <1>3, <1>4, <1>5, <1>6
  <2>2. x + y = 1
    BY <2>1
  <2> QED
    BY <1>2, <1>3, <1>6, <2>2 DEF w
<1>7. CASE ~w.deleted
  <2>1. y \in {0, 2}
    BY <1>5, <1>7
  <2>2. CASE w.lease = 0
    <3>1. x + y \in {0, 2}
      BY <1>4, <2>1, <2>2
    <3>2. x + y # 1 /\ x + y \notin {4, 6} /\ x + y \in {0, 1, 2, 4, 6}
      BY ONLY <3>1
    <3> QED
      BY <1>2, <1>7, <2>2, <3>2 DEF w
  <2>3. CASE w.lease # 0
    <3>1. x + y \in {4, 6}
      BY <1>4, <2>1, <2>3
    <3>2. x + y # 1 /\ x + y \in {0, 1, 2, 4, 6}
      BY ONLY <3>1
    <3> QED
      BY <1>2, <1>7, <2>3, <3>1, <3>2 DEF w
  <2> QED
    BY <2>2, <2>3
<1> QED
  BY <1>3, <1>6, <1>7

(* The legacy records of a history, one for each write.                     *)
LEMMA LegacyRecordsAre ==
    ASSUME NEW h \in Seq(LegacyWrites)
    PROVE  /\ LegacyRecords(h) \in Seq(LegacyRecs)
           /\ Len(LegacyRecords(h)) = Len(h)
           /\ \A i \in 1 .. Len(h) : LET r == LegacyRecords(h)[i] IN
                 /\ r.revision = i /\ r.flags = LegacyFlag(h, i)
                 /\ r.key = KeyBytes(h[i].key) /\ r.value = ValueBytes(h[i].value)
                 /\ r.lease_id = IF h[i].lease = 0 THEN <<>> ELSE <<h[i].lease>>
<1> DEFINE recs == LegacyRecords(h)
           lid(i) == IF h[i].lease = 0 THEN <<>> ELSE <<h[i].lease>>
           rec(i) == [revision |-> i, key |-> KeyBytes(h[i].key),
                      value |-> ValueBytes(h[i].value), lease_id |-> lid(i),
                      flags |-> LegacyFlag(h, i)]
<1>1. DOMAIN h = 1 .. Len(h) /\ Len(h) \in Nat
  OBVIOUS
<1>2. recs = [i \in 1 .. Len(h) |-> rec(i)]
  BY <1>1, Zenon DEF LegacyRecords, LegacyFlag
<1>3. ASSUME NEW i \in 1 .. Len(h)
      PROVE  /\ rec(i) \in LegacyRecs
             /\ rec(i).revision = i /\ rec(i).flags = LegacyFlag(h, i)
             /\ rec(i).key = KeyBytes(h[i].key) /\ rec(i).value = ValueBytes(h[i].value)
             /\ rec(i).lease_id = lid(i)
  <2> DEFINE kb == KeyBytes(h[i].key)
             vb == ValueBytes(h[i].value)
             f == LegacyFlag(h, i)
             l == lid(i)
  <2>1. h[i] \in LegacyWrites
    OBVIOUS
  <2>2. h[i].key \in LegacyKeys /\ h[i].value \in Values /\ h[i].lease \in {0, 1}
    BY <2>1, LegacyWriteIs
  <2>3. kb \in Seq(Nat)
    <3> DEFINE k == h[i].key
    <3>1. k \in Nat
      BY <2>2, LegacyAssumption, KeysAssumption
    <3> HIDE DEF k
    <3>2. <<k>> \in Seq(Nat)
      BY <3>1
    <3> QED
      BY <3>2, Zenon DEF KeyBytes, k
  <2>4. vb \in Seq(Nat)
    <3> DEFINE v == h[i].value
    <3>1. v \in Nat
      BY <2>2, OrderedValues
    <3> HIDE DEF v
    <3>2. <<>> \in Seq(Nat) /\ <<v>> \in Seq(Nat)
      BY <3>1
    <3> QED
      BY <3>2, Zenon DEF ValueBytes, v
  <2>5. l \in Seq(Nat) /\ Len(l) = IF h[i].lease = 0 THEN 0 ELSE 1
    BY <2>2
  <2>6. f \in {0, 1, 2, 4, 6} /\ (f \in {4, 6} <=> h[i].lease # 0)
    BY LegacyFlagIs, Zenon
  <2> HIDE DEF kb, vb, f, l
  <2>7. f \in Nat /\ (HasFlag(f, HAS_LEASE) <=> f \in {4, 6})
    BY <2>6, FlagsAre, Zenon
  <2>8. Len(l) = IF HasFlag(f, HAS_LEASE) THEN 1 ELSE 0
    BY <2>5, <2>6, <2>7
  <2> DEFINE r == [revision |-> i, key |-> kb, value |-> vb, lease_id |-> l, flags |-> f]
  <2>9. r \in LegacyRecs
    <3>1. r \in [revision : Nat, flags : Nat, key : Seq(Nat), value : Seq(Nat),
            lease_id : Seq(Nat)]
      BY <2>3, <2>4, <2>5, <2>7
    <3>2. r.lease_id = l /\ r.flags = f
      OBVIOUS
    <3> QED
      BY <3>1, <3>2, <2>8, Zenon DEF LegacyRecs
  <2>10. rec(i) = r
    BY Zenon DEF kb, vb, l, f
  <2>11. r.revision = i /\ r.flags = f /\ r.key = kb /\ r.value = vb /\ r.lease_id = l
    OBVIOUS
  <2> QED
    BY <2>9, <2>10, <2>11, Zenon DEF kb, vb, l, f
<1> HIDE DEF rec, recs
<1>4. recs \in Seq(LegacyRecs) /\ Len(recs) = Len(h)
  <2> DEFINE n == Len(h)
             R == LegacyRecs
  <2> HIDE DEF n, R
  <2>1. n \in Nat /\ recs = [i \in 1 .. n |-> rec(i)] /\ \A i \in 1 .. n : rec(i) \in R
    BY <1>1, <1>2, <1>3 DEF n, R
  <2>2. recs \in Seq(R) /\ Len(recs) = n
    BY ONLY <2>1
  <2> QED
    BY <2>2 DEF n, R
<1>5. \A i \in 1 .. Len(h) : recs[i] = rec(i)
  BY <1>2
<1> QED
  BY <1>3, <1>4, <1>5, Zenon DEF recs

(* Of a log without its tail every tool reads the whole records             *)
(* (wal_migrate, waldoctor, walverify, walrecover).                         *)
THEOREM CutLogsAreRead == Spec => []CutLogRead
<1>1. InputOK => CutLogRead
  <2> SUFFICES ASSUME InputOK, input.kind = "cut" PROVE CutLogRead
    BY DEF CutLogRead
  <2>1. PICK h \in [1 .. 2 -> LegacyWrites] :
          \E c \in 0 .. Len(LegacyLog(LegacyRecords(h))) :
             input = [kind |-> "cut", recs |-> LegacyRecords(h), cut |-> c]
    BY DEF InputOK
  <2> DEFINE recs == LegacyRecords(h)
             R == LegacyRecs
             ser == LegacySer
  <2>2. PICK cut \in 0 .. Len(LegacyLog(recs)) :
             input = [kind |-> "cut", recs |-> recs, cut |-> cut]
    BY <2>1
  <2>3. h \in Seq(LegacyWrites) /\ Len(h) = 2
    <3> DEFINE W == LegacyWrites
    <3> HIDE DEF W
    <3>1. h \in [1 .. 2 -> W]
      BY DEF W
    <3> DEFINE m == 2
    <3> HIDE DEF m
    <3>2. m \in Nat /\ h \in [1 .. m -> W]
      BY <3>1 DEF m
    <3>3. h \in Seq(W)
      BY ONLY <3>2
    <3>4. DOMAIN h = 1 .. m
      BY ONLY <3>2
    <3>5. Len(h) = m
      BY ONLY <3>2, <3>3, <3>4
    <3> QED
      BY <3>3, <3>5 DEF W, m
  <2>4. recs \in Seq(R) /\ Len(recs) = 2
    BY <2>3, LegacyRecordsAre
  <2> HIDE DEF recs
  <2>5. input.recs = recs /\ input.cut = cut
    BY <2>2
  <2>6. \A q \in Seq(R) : LegacyLog(q) = Joined(ser, q)
    BY LegacyLogIs DEF R
  <2>7. cut \in 0 .. Len(Joined(ser, recs))
    BY <2>2, <2>4, <2>6
  <2>8. ser \in [R -> Seq(Nat)] /\ \A r \in R : Len(ser[r]) > 0
    BY LegacySerIs DEF R
  <2> HIDE DEF R
  <2>9. recs[1] \in R
    <3>1. recs \in Seq(R) /\ 1 \in 1 .. Len(recs)
      BY <2>4
    <3>2. \A s \in Seq(R) : \A i \in 1 .. Len(s) : s[i] \in R
      OBVIOUS
    <3> QED
      BY ONLY <3>1, <3>2
  <2>10. PICK n \in 0 .. Len(recs), k \in Nat, next \in R :
            JoinedCut(ser, recs, cut, n, k, next)
    BY ONLY <2>4, <2>7, <2>8, <2>9, JoinedCutIs
  <2> DEFINE whole == SubSeq(recs, 1, n)
             log == SubSeq(LegacyLog(recs), 1, cut)
             ends(i) == Len(LegacyLog(SubSeq(recs, 1, i)))
  <2>11. \A i \in 0 .. Len(recs) : SubSeq(recs, 1, i) \in Seq(R)
    <3>1. \A s \in Seq(R) : \A i \in 0 .. Len(s) : SubSeq(s, 1, i) \in Seq(R)
      OBVIOUS
    <3> QED
      BY <2>4, <3>1, Zenon
  <2>12. \A i \in 0 .. Len(recs) : ends(i) = JoinedEnd(ser, recs, i)
    BY <2>6, <2>11, Zenon DEF JoinedEnd, JoinedTo
  <2>13. {i \in 0 .. Len(recs) : ends(i) <= cut}
           = {i \in 0 .. Len(recs) : JoinedEnd(ser, recs, i) <= cut}
    BY <2>12, Zenon
  <2>14. Max({i \in 0 .. Len(recs) : ends(i) <= cut}) = n
    BY <2>10, <2>13, Zenon DEF JoinedCut
  <2>15. LegacySerialize(next) = ser[next] /\ k < Len(LegacySerialize(next))
    BY <2>10, LegacySerIs, Zenon DEF JoinedCut, R
  <2>16. whole \in Seq(R) /\ LegacyLog(whole) = JoinedTo(ser, recs, n)
    BY <2>6, <2>11, Zenon DEF JoinedTo
  <2>17. log = LegacyLog(whole) \o SubSeq(LegacySerialize(next), 1, k)
    BY <2>10, <2>15, <2>16, <2>6, <2>4, Zenon DEF JoinedCut
  <2>18. log \in Seq(Nat)
    <3>1. LegacyLog(recs) \in Seq(Nat)
      BY ONLY <2>4, <2>6, <2>8, JoinedType, Zenon
    <3>2. cut \in 0 .. Len(LegacyLog(recs))
      BY <2>2
    <3> HIDE DEF recs
    <3> DEFINE L == LegacyLog(recs)
    <3> HIDE DEF L
    <3>3. L \in Seq(Nat) /\ cut \in 0 .. Len(L)
      BY <3>1, <3>2 DEF L
    <3>4. SubSeq(L, 1, cut) \in Seq(Nat)
      BY ONLY <3>3
    <3> QED
      BY <3>4 DEF L
  <2> HIDE DEF whole, log, ends
  <2>19. \A t : LegacyReader(t, log) => t[0] = whole
    <3> SUFFICES ASSUME NEW t, LegacyReader(t, log) PROVE t[0] = whole
      OBVIOUS
    <3>1. whole \in Seq(LegacyRecs) /\ next \in LegacyRecs /\ k \in Nat
      BY <2>10, <2>16, Zenon DEF R
    <3>2. \A q \in Seq(LegacyRecs), r \in LegacyRecs, j \in Nat : \A l, u :
             (/\ j < Len(LegacySerialize(r))
              /\ l = LegacyLog(q) \o SubSeq(LegacySerialize(r), 1, j)
              /\ LegacyReader(u, l)) => u[0] = q
      BY ONLY LegacyWholeRead, Zenon
    <3>3. k < Len(LegacySerialize(next))
      BY <2>15
    <3> QED
      BY ONLY <3>1, <2>17, <3>3, LegacyReader(t, log), <3>2, Zenon
  <2>20. LegacyReader(ReadOld(log), log) /\ \A tool : LegacyReader(ScanLegacy(tool, log), log)
    BY <2>18, LegacyReaders, Zenon
  <2>21. /\ read_old_records(log) = whole
         /\ waldoctor_scan(log) = whole
         /\ walverify_scan(log) = whole
         /\ walrecover_scan(log) = whole
    BY <2>19, <2>20, Zenon
      DEF read_old_records, waldoctor_scan, walverify_scan, walrecover_scan
  <2> QED
    BY <2>5, <2>14, <2>21, Zenon DEF CutLogRead, whole, log, ends
<1> QED
  BY <1>1, InputPicked, PTL

-----------------------------------------------------------------------------
(* The lifetimes of keys.  ks are the keys of the writes and D the places   *)
(* of the deletes; the first i writes count.                                *)
LifeTo(ks, D, i, k) ==
    {j \in 1 .. i : /\ ks[j] = k /\ j \notin D
                    /\ \A l \in (j + 1) .. i : ks[l] = k => l \notin D}

(* A write ends a lifetime, or is its next one, or is of another key.       *)
NextLife(ks, D, i, k, A, B) ==
    /\ A \in SUBSET (1 .. i)
    /\ ks[i + 1] # k => B = A
    /\ ks[i + 1] = k /\ i + 1 \in D => B = {}
    /\ ks[i + 1] = k /\ i + 1 \notin D => B = A \cup {i + 1}

(* The lifetime of a key after one write more.                              *)
LEMMA LifeStep ==
    \A ks, D, k : \A i \in Nat :
        NextLife(ks, D, i, k, LifeTo(ks, D, i, k), LifeTo(ks, D, i + 1, k))
<1> SUFFICES ASSUME NEW ks, NEW D, NEW k, NEW i \in Nat
             PROVE  NextLife(ks, D, i, k, LifeTo(ks, D, i, k), LifeTo(ks, D, i + 1, k))
  OBVIOUS
<1>1. LifeTo(ks, D, i, k) \subseteq 1 .. i
  BY DEF LifeTo
<1>2. /\ \A j \in 1 .. i : j \in 1 .. (i + 1) /\ i + 1 \in (j + 1) .. (i + 1)
      /\ \A j \in 1 .. (i + 1) : j \in 1 .. i \/ j = i + 1
      /\ i + 1 \in 1 .. (i + 1) /\ i + 1 \notin 1 .. i
      /\ \A j \in 1 .. i : \A l \in (j + 1) .. (i + 1) : l \in (j + 1) .. i \/ l = i + 1
      /\ \A j \in 1 .. i : \A l \in (j + 1) .. i : l \in (j + 1) .. (i + 1)
      /\ \A l \in ((i + 1) + 1) .. (i + 1) : FALSE
  OBVIOUS
<1>3. ASSUME ks[i + 1] # k PROVE LifeTo(ks, D, i + 1, k) = LifeTo(ks, D, i, k)
  BY ONLY <1>2, <1>3, Zenon DEF LifeTo
<1>4. ASSUME ks[i + 1] = k, i + 1 \in D PROVE LifeTo(ks, D, i + 1, k) = {}
  BY ONLY <1>2, <1>4, Zenon DEF LifeTo
<1>5. ASSUME ks[i + 1] = k, i + 1 \notin D
      PROVE  LifeTo(ks, D, i + 1, k) = LifeTo(ks, D, i, k) \cup {i + 1}
  BY ONLY <1>2, <1>5, Zenon DEF LifeTo
<1> QED
  BY <1>1, <1>3, <1>4, <1>5 DEF NextLife

(* Before all writes there is no lifetime.                                  *)
LEMMA LifeNone == \A ks, D, k : LifeTo(ks, D, 0, k) = {}
  BY DEF LifeTo

(* The least and the greatest member and the size of a lifetime.            *)
LEMMA MinMax ==
    ASSUME NEW i \in Nat, NEW L \in SUBSET (1 .. i)
    PROVE  /\ IsFiniteSet(L) /\ Cardinality(L) \in 0 .. i
           /\ L # {} => /\ Cardinality(L) >= 1
                        /\ Min(L) \in L /\ \A y \in L : Min(L) <= y
                        /\ Max(L) \in L /\ \A y \in L : y <= Max(L)
<1>1. IsFiniteSet(1 .. i) /\ Cardinality(1 .. i) = i
  BY FS_Interval
<1>2. IsFiniteSet(L) /\ Cardinality(L) <= i /\ Cardinality(L) \in Nat
  BY <1>1, FS_Subset, FS_CardinalityType
<1>3. L # {} => Cardinality(L) # 0
  BY <1>2, FS_EmptySet
<1>4. ASSUME L # {} PROVE Min(L) \in L /\ \A y \in L : Min(L) <= y
  <2>1. L \in SUBSET Nat
    OBVIOUS
  <2>2. \E x \in L : \A y \in L : x <= y
    BY <1>4, <2>1, NatLeast
  <2> QED
    BY <2>2 DEF Min
<1>5. ASSUME L # {} PROVE Max(L) \in L /\ \A y \in L : y <= Max(L)
  <2>1. L \in SUBSET Nat /\ \A x \in L : x <= i
    OBVIOUS
  <2>2. \E x \in L : \A y \in L : y <= x
    BY <1>5, <2>1, NatGreatest
  <2>3. \E x \in L : \A y \in L : x >= y
    BY <2>1, <2>2
  <2>4. Max(L) \in L /\ \A y \in L : Max(L) >= y
    BY <2>3 DEF Max
  <2> QED
    BY <2>1, <2>4
<1> QED
  BY <1>2, <1>3, <1>4, <1>5

(* Smallest, largest and number of a lifetime with one write more.          *)
LEMMA MinMaxGrow ==
    ASSUME NEW i \in Nat, NEW L \in SUBSET (1 .. i)
    PROVE  LET M == L \cup {i + 1} IN
           /\ M # {} /\ Max(M) = i + 1 /\ Cardinality(M) = Cardinality(L) + 1
           /\ Min(M) = IF L = {} THEN i + 1 ELSE Min(L)
<1> DEFINE M == L \cup {i + 1}
<1>1. i + 1 \in Nat /\ M \in SUBSET (1 .. (i + 1)) /\ M # {} /\ i + 1 \in M /\ i + 1 \notin L
  OBVIOUS
<1>2. /\ Min(M) \in M /\ \A y \in M : Min(M) <= y
      /\ Max(M) \in M /\ \A y \in M : y <= Max(M)
  BY <1>1, MinMax
<1>3. IsFiniteSet(L) /\ (L # {} => Min(L) \in L /\ \A y \in L : Min(L) <= y)
  BY MinMax
<1>4. Cardinality(M) = Cardinality(L) + 1
  BY <1>1, <1>3, FS_AddElement
<1>5. Max(M) = i + 1
  <2> DEFINE x == Max(M)
  <2> HIDE DEF x
  <2>1. x \in L \cup {i + 1} /\ i + 1 <= x
    BY <1>1, <1>2 DEF x
  <2>2. x = i + 1
    BY ONLY <2>1, i \in Nat, L \in SUBSET (1 .. i)
  <2> QED
    BY <2>2 DEF x
<1>6. ASSUME L = {} PROVE Min(M) = i + 1
  BY <1>2, <1>6
<1>7. ASSUME L # {} PROVE Min(M) = Min(L)
  <2> DEFINE x == Min(M)
             y == Min(L)
  <2>1. x \in M /\ y \in L /\ y \in M /\ x <= y /\ \A z \in L : y <= z
    BY <1>2, <1>3, <1>7
  <2> HIDE DEF x, y, M
  <2>2. x \in L \/ x = i + 1
    BY <2>1 DEF M
  <2>3. x \in Nat /\ y \in Nat /\ y <= i
    BY <2>1, <2>2
  <2>4. x \in L
    BY <2>1, <2>2, <2>3
  <2>5. y <= x
    BY <2>1, <2>4
  <2>6. x = y
    BY ONLY <2>1, <2>3, <2>5
  <2> QED
    BY <2>6 DEF x, y
<1> QED
  BY <1>1, <1>4, <1>5, <1>6, <1>7

(* A lifetime is the one that its last write left.                          *)
LEMMA LifeAtLast ==
    ASSUME NEW ks, NEW D, NEW i \in Nat, NEW k, LifeTo(ks, D, i, k) # {}
    PROVE  LET last == Max(LifeTo(ks, D, i, k)) IN
           /\ last \in 1 .. i /\ ks[last] = k /\ last \notin D
           /\ LifeTo(ks, D, last, k) = LifeTo(ks, D, i, k)
<1> DEFINE L == LifeTo(ks, D, i, k)
           x == Max(L)
<1>1. L \in SUBSET (1 .. i)
  BY LifeStep DEF NextLife
<1>2. x \in L /\ \A y \in L : y <= x
  BY <1>1, MinMax
<1>3. /\ x \in 1 .. i /\ ks[x] = k /\ x \notin D
      /\ \A l \in (x + 1) .. i : ks[l] = k => l \notin D
  <2> HIDE DEF x
  <2> QED
    BY <1>2 DEF LifeTo
<1>4. ASSUME NEW j \in L PROVE j \in LifeTo(ks, D, x, k)
  <2>1. j \in 1 .. i /\ ks[j] = k /\ j \notin D
        /\ \A l \in (j + 1) .. i : ks[l] = k => l \notin D
    BY DEF LifeTo
  <2>2. j <= x
    BY <1>2
  <2> HIDE DEF x, L
  <2>3. j \in 1 .. x /\ \A l \in (j + 1) .. x : l \in (j + 1) .. i
    BY <1>3, <2>1, <2>2
  <2> QED
    BY <2>1, <2>3 DEF LifeTo
<1>5. ASSUME NEW j \in LifeTo(ks, D, x, k) PROVE j \in L
  <2> HIDE DEF x
  <2>1. j \in 1 .. x /\ ks[j] = k /\ j \notin D
        /\ \A l \in (j + 1) .. x : ks[l] = k => l \notin D
    BY DEF LifeTo
  <2>2. j \in 1 .. i /\ \A l \in (j + 1) .. i : l \in (j + 1) .. x \/ l \in (x + 1) .. i
    BY <1>3, <2>1
  <2> QED
    BY <1>3, <2>1, <2>2 DEF LifeTo
<1> QED
  BY <1>3, <1>4, <1>5

(* Only the keys of the first i writes and which of them delete count.      *)
LEMMA LifeSame ==
    ASSUME NEW ks, NEW D, NEW ks2, NEW D2, NEW i \in Nat,
           \A j \in 1 .. i : ks[j] = ks2[j] /\ (j \in D <=> j \in D2)
    PROVE  \A k : LifeTo(ks, D, i, k) = LifeTo(ks2, D2, i, k)
<1>1. \A j \in 1 .. i : \A l \in (j + 1) .. i : l \in 1 .. i
  OBVIOUS
<1> QED
  BY ONLY <1>1, \A j \in 1 .. i : ks[j] = ks2[j] /\ (j \in D <=> j \in D2), Zenon DEF LifeTo

-----------------------------------------------------------------------------
(* The replay of a log and the lifetimes of its keys.                       *)
KeysOf(log) == [j \in DOMAIN log |-> log[j].key]
DeletesOf(log) == {j \in DOMAIN log : log[j].deleted}

(* The entry of a live key is that of the writes of its lifetime.           *)
EntryOf(log, L, e) ==
    /\ e.create_revision = log[Min(L)].mod_revision
    /\ e.mod_revision = log[Max(L)].mod_revision
    /\ e.version = Cardinality(L)
    /\ e.kv_bytes = [create_revision |-> log[Max(L)].create_revision,
                     version |-> log[Max(L)].version]
    /\ e.value = log[Max(L)].value
    /\ e.lease = log[Max(L)].lease
Shows(m, log, L, k) == (Alive(m, k) <=> L # {}) /\ (L # {} => EntryOf(log, L, m[k]))

(* A record leaves the other keys alone.                                    *)
LEMMA ReplayOther ==
    ASSUME NEW m \in Tables, NEW rec \in Record, NEW k \in Keys, rec.key # k
    PROVE  ApplyRecord(m, rec)[k] = m[k]
<1>1. CASE rec.deleted
  BY <1>1 DEF ApplyRecord, ApplyDelete, Tables
<1>2. CASE ~rec.deleted
  <2> DEFINE x == PutEntry(m, rec.key, rec.value, rec.lease, rec.mod_revision,
                     [create_revision |-> rec.create_revision, version |-> rec.version])
  <2>1. ApplyRecord(m, rec) = [m EXCEPT ![rec.key] = x]
    BY <1>2 DEF ApplyRecord
  <2> HIDE DEF x
  <2> QED
    BY <2>1 DEF Tables
<1> QED
  BY <1>1, <1>2

(* After the record of a delete the key is not alive.                       *)
LEMMA ReplayDelete ==
    ASSUME NEW m \in Tables, NEW rec \in Record, rec.deleted, rec.mod_revision # 0
    PROVE  ~Alive(ApplyRecord(m, rec), rec.key)
<1>1. rec.key \in Keys
  BY DEF Record
<1>2. ApplyRecord(m, rec) = ApplyDelete(m, rec.key, rec.mod_revision)
  BY DEF ApplyRecord
<1>3. CASE Alive(m, rec.key)
  <2>1. ApplyRecord(m, rec) = [m EXCEPT ![rec.key].delete_revision = rec.mod_revision]
    BY <1>2, <1>3 DEF ApplyDelete
  <2>2. ApplyRecord(m, rec)[rec.key].delete_revision = rec.mod_revision
    BY <1>1, <2>1 DEF Tables, KeyState
  <2> QED
    BY <2>2 DEF Alive
<1>4. CASE ~Alive(m, rec.key)
  BY <1>2, <1>4 DEF ApplyDelete
<1> QED
  BY <1>3, <1>4

(* After the record of a put the key is alive with that write.              *)
LEMMA ReplayPut ==
    ASSUME NEW m \in Tables, NEW rec \in Record, ~rec.deleted
    PROVE  LET e == ApplyRecord(m, rec)[rec.key] IN
           /\ Alive(ApplyRecord(m, rec), rec.key)
           /\ e.create_revision = IF Alive(m, rec.key) THEN m[rec.key].create_revision
                                  ELSE rec.mod_revision
           /\ e.mod_revision = rec.mod_revision
           /\ e.version = IF Alive(m, rec.key) THEN m[rec.key].version + 1 ELSE 1
           /\ e.kv_bytes = [create_revision |-> rec.create_revision, version |-> rec.version]
           /\ e.value = rec.value /\ e.lease = rec.lease
<1> DEFINE k == rec.key
           kv == [create_revision |-> rec.create_revision, version |-> rec.version]
           x == PutEntry(m, k, rec.value, rec.lease, rec.mod_revision, kv)
           m2 == ApplyRecord(m, rec)
<1>1. k \in Keys
  BY DEF Record
<1>2. m2 = [m EXCEPT ![k] = x]
  BY DEF ApplyRecord
<1>3. m2[k] = x
  <2> HIDE DEF x, k, m2
  <2> QED
    BY <1>1, <1>2 DEF Tables
<1>4. /\ x.create_revision = NextCreate(m, k, rec.mod_revision)
      /\ x.mod_revision = rec.mod_revision /\ x.version = NextVersion(m, k)
      /\ x.kv_bytes = kv /\ x.value = rec.value /\ x.lease = rec.lease
      /\ x.delete_revision = 0
  <2> HIDE DEF kv, k
  <2> QED
    BY DEF PutEntry
<1>5. NextVersion(m, k) # 0
  <2>1. m[k].version \in Nat
    BY <1>1 DEF Tables, KeyState
  <2>2. m[k].version + 1 # 0
    BY <2>1
  <2> QED
    BY <2>2 DEF NextVersion
<1>6. Alive(m2, k)
  <2> HIDE DEF x, k, m2
  <2> QED
    BY <1>3, <1>4, <1>5 DEF Alive, Present
<1> HIDE DEF x, m2
<1> QED
  BY <1>3, <1>4, <1>6, Zenon DEF NextCreate, NextVersion, m2

(* Replaying a log gives every key its lifetime in the log, record by       *)
(* record.                                                                  *)
LEMMA ReplayShows ==
    ASSUME NEW log \in Seq(Record), \A j \in 1 .. Len(log) : log[j].mod_revision # 0
    PROVE  \A i \in 0 .. Len(log) : \A k \in Keys :
              Shows(ReplaySteps(log)[i], log, LifeTo(KeysOf(log), DeletesOf(log), i, k), k)
<1> DEFINE n == Len(log)
           ks == KeysOf(log)
           D == DeletesOf(log)
           m(i) == ReplaySteps(log)[i]
           L(i, k) == LifeTo(ks, D, i, k)
           Ok(i) == m(i) \in Tables /\ \A k \in Keys : Shows(m(i), log, L(i, k), k)
           T == {i \in Nat : i <= n => Ok(i)}
<1>0. n \in Nat /\ DOMAIN log = 1 .. n /\ \A j \in 1 .. n : log[j] \in Record
  OBVIOUS
<1>1. /\ m(0) = EmptyTable
      /\ \A i \in 1 .. n : m(i) = ApplyRecord(m(i - 1), log[i])
  BY ReplayStepsDef
<1>2. \A j \in 1 .. n : ks[j] = log[j].key /\ (j \in D <=> log[j].deleted)
  BY <1>0 DEF KeysOf, DeletesOf
<1> HIDE DEF m, ks, D
<1>3. 0 \in T
  <2>1. m(0) \in Tables
    BY <1>1, EmptyTableType
  <2>2. ASSUME NEW k \in Keys PROVE Shows(m(0), log, L(0, k), k)
    <3>1. L(0, k) = {}
      BY LifeNone
    <3>2. ~Alive(m(0), k)
      BY <1>1 DEF EmptyTable, Alive, Present, Vacant
    <3> HIDE DEF L
    <3> QED
      BY <3>1, <3>2 DEF Shows
  <2> HIDE DEF L
  <2> QED
    BY <2>1, <2>2
<1>4. ASSUME NEW i \in Nat, i \in T PROVE i + 1 \in T
  <2> SUFFICES ASSUME i + 1 <= n PROVE Ok(i + 1)
    OBVIOUS
  <2> DEFINE r == log[i + 1]
             a == m(i)
             b == m(i + 1)
  <2>1. i + 1 \in 1 .. n /\ (i + 1) - 1 = i /\ i <= n
    BY <1>0
  <2>2. a \in Tables /\ \A k \in Keys : Shows(a, log, L(i, k), k)
    BY <1>4, <2>1
  <2>3. r \in Record /\ b = ApplyRecord(a, r) /\ ks[i + 1] = r.key
        /\ (i + 1 \in D <=> r.deleted) /\ r.mod_revision # 0
    BY <1>0, <1>1, <1>2, <2>1
  <2>4. b \in Tables
    BY <2>2, <2>3, ApplyRecordType
  <2>5. ASSUME NEW k \in Keys PROVE Shows(b, log, L(i + 1, k), k)
    <3>1. /\ L(i, k) \in SUBSET (1 .. i)
          /\ r.key # k => L(i + 1, k) = L(i, k)
          /\ r.key = k /\ r.deleted => L(i + 1, k) = {}
          /\ r.key = k /\ ~r.deleted => L(i + 1, k) = L(i, k) \cup {i + 1}
      <4>1. NextLife(ks, D, i, k, L(i, k), L(i + 1, k))
        BY LifeStep
      <4> HIDE DEF L, r
      <4> QED
        BY <2>3, <4>1 DEF NextLife
    <3> DEFINE A == L(i, k)
               B == L(i + 1, k)
    <3>2. Shows(a, log, A, k)
      BY <2>2
    <3> HIDE DEF L, r, a, b
    <3>3. CASE r.key # k
      <4>1. b[k] = a[k] /\ B = A
        BY <2>2, <2>3, <3>1, <3>3, ReplayOther
      <4>2. Alive(b, k) <=> Alive(a, k)
        BY <4>1 DEF Alive, Present
      <4> QED
        BY <3>2, <4>1, <4>2 DEF Shows
    <3>4. CASE r.key = k /\ r.deleted
      <4>1. ~Alive(b, k) /\ B = {}
        BY <2>2, <2>3, <3>1, <3>4, ReplayDelete
      <4> QED
        BY <4>1 DEF Shows
    <3>5. CASE r.key = k /\ ~r.deleted
      <4>1. /\ Alive(b, k)
            /\ b[k].create_revision = IF Alive(a, k) THEN a[k].create_revision
                                      ELSE r.mod_revision
            /\ b[k].mod_revision = r.mod_revision
            /\ b[k].version = IF Alive(a, k) THEN a[k].version + 1 ELSE 1
            /\ b[k].kv_bytes = [create_revision |-> r.create_revision,
                                version |-> r.version]
            /\ b[k].value = r.value /\ b[k].lease = r.lease
        BY <2>2, <2>3, <3>5, ReplayPut
      <4>2. B = A \cup {i + 1}
        BY <3>1, <3>5
      <4> HIDE DEF A, B
      <4>3. /\ B # {} /\ Max(B) = i + 1 /\ Cardinality(B) = Cardinality(A) + 1
            /\ Min(B) = IF A = {} THEN i + 1 ELSE Min(A)
        BY <3>1, <4>2, MinMaxGrow DEF A
      <4>4. A = {} => Cardinality(A) + 1 = 1
        BY FS_EmptySet
      <4>5. r = log[i + 1]
        BY DEF r
      <4>6. CASE A = {}
        <5>1. ~Alive(a, k)
          BY <3>2, <4>6 DEF Shows
        <5> QED
          BY <4>1, <4>3, <4>4, <4>5, <4>6, <5>1, Zenon DEF Shows, EntryOf, B
      <4>7. CASE A # {}
        <5>1. Alive(a, k) /\ EntryOf(log, A, a[k])
          BY <3>2, <4>7 DEF Shows
        <5> QED
          BY <4>1, <4>3, <4>5, <4>7, <5>1, Zenon DEF Shows, EntryOf, B
      <4> QED
        BY <4>6, <4>7
    <3> QED
      BY <3>3, <3>4, <3>5
  <2> HIDE DEF L
  <2> QED
    BY <2>4, <2>5
<1> HIDE DEF Ok
<1>5. T = Nat
  <2> HIDE DEF T
  <2>1. T \in SUBSET Nat
    BY DEF T
  <2> QED
    BY <1>3, <1>4, <2>1, InductionOnSet
<1>6. \A i \in 0 .. n : Ok(i)
  <2> HIDE DEF T
  <2>1. \A i \in 0 .. n : i \in T /\ i <= n
    BY <1>0, <1>5
  <2> QED
    BY <2>1 DEF T
<1> QED
  BY <1>6, Zenon DEF Ok, m, ks, D

-----------------------------------------------------------------------------
(* What the readers of the current format take from a record.               *)
LEMMA FitsSmall == \A v \in {0, 1}, n \in 1 .. RevGroups : Fits(v, n)
<1> SUFFICES ASSUME NEW v \in {0, 1} PROVE \A n \in 1 .. RevGroups : Fits(v, n)
  OBVIOUS
<1> DEFINE s == Shifted(v)
           T == {n \in Nat : n + 1 <= RevGroups => s[n + 1] = 0}
<1>1. v \in Nat /\ RevGroups \in Nat
  BY CodecAssumption
<1>2. s[0] = v /\ \A i \in 1 .. RevGroups : s[i] = s[i - 1] \div GroupBase
  BY <1>1, ShiftedDef
<1> HIDE DEF s
<1>3. v \div GroupBase = 0 /\ 0 \div GroupBase = 0
  <2>1. v < GroupBase /\ 0 < GroupBase
    BY CodecAssumption
  <2> QED
    BY <1>1, <2>1, DivMod
<1>4. 0 \in T
  <2>1. SUFFICES ASSUME 1 <= RevGroups PROVE s[1] = 0
    OBVIOUS
  <2>2. 1 \in 1 .. RevGroups /\ 1 - 1 = 0
    BY <1>1, <2>1
  <2> QED
    BY <1>2, <1>3, <2>2
<1>5. ASSUME NEW n \in Nat, n \in T PROVE n + 1 \in T
  <2>1. SUFFICES ASSUME (n + 1) + 1 <= RevGroups PROVE s[(n + 1) + 1] = 0
    OBVIOUS
  <2>2. (n + 1) + 1 \in 1 .. RevGroups /\ ((n + 1) + 1) - 1 = n + 1 /\ n + 1 <= RevGroups
    BY <1>1, <2>1
  <2>3. s[n + 1] = 0
    BY <1>5, <2>2
  <2> QED
    BY <1>2, <1>3, <2>2, <2>3
<1>6. T = Nat
  <2> HIDE DEF T
  <2>1. T \in SUBSET Nat
    BY DEF T
  <2> QED
    BY <1>4, <1>5, <2>1, InductionOnSet
<1>7. ASSUME NEW n \in 1 .. RevGroups PROVE s[n] = 0
  <2>1. n - 1 \in T /\ (n - 1) + 1 = n /\ (n - 1) + 1 <= RevGroups
    <3> HIDE DEF T
    <3> QED
      BY <1>1, <1>6
  <2> QED
    BY <2>1
<1> QED
  BY <1>1, <1>7 DEF Fits, s

(* The parts of a current record.                                           *)
LEMMA RecordParts ==
    ASSUME NEW f, NEW kv
    PROVE  LET rec == KvWalRecord(f, kv) IN
           /\ rec.flags = f /\ rec.kv_bytes = encode_kv(kv).bytes
           /\ rec.key_offset = encode_kv(kv).key_offset
           /\ rec.mod_rev_offset = encode_kv(kv).mod_rev_offset
<1> DEFINE e == encode_kv(kv)
           a == e.bytes
           b == e.key_offset
           c == e.mod_rev_offset
           l == KvHeader + Len(a) + KvCrc
           rec0 == [flags |-> f, kv_bytes |-> a, key_offset |-> b, mod_rev_offset |-> c,
                    rec_len |-> l, crc |-> 0]
           x == Crc32c(KvHeaderCells(rec0) \o rec0.kv_bytes)
<1>1. KvWalRecord(f, kv) = [rec0 EXCEPT !.crc = x]
  BY DEF KvWalRecord
<1> HIDE DEF a, b, c, l, x
<1>2. LET r == [rec0 EXCEPT !.crc = x] IN
        r.flags = f /\ r.kv_bytes = a /\ r.key_offset = b /\ r.mod_rev_offset = c
  OBVIOUS
<1> QED
  BY <1>1, <1>2 DEF a, b, c

(* Keys and values are their bytes.                                         *)
LEMMA BytesBack ==
    /\ \A k : KeyRank(KeyBytes(k)) = k
    /\ \A k, l : KeyBytes(k) = KeyBytes(l) => k = l
    /\ \A v \in Values : ValueOf(ValueBytes(v)) = v
<1>1. \A k : KeyRank(KeyBytes(k)) = k
  BY DEF KeyRank, KeyBytes
<1>2. ASSUME NEW v \in Values, NEW u \in Values, ValueBytes(u) = ValueBytes(v) PROVE u = v
  <2>1. Len(<<>>) = 0 /\ Len(<<u>>) = 1 /\ Len(<<v>>) = 1 /\ <<u>>[1] = u /\ <<v>>[1] = v
    OBVIOUS
  <2>2. <<>> # <<u>> /\ <<>> # <<v>>
    BY <2>1
  <2>3. <<u>> = <<v>> => u = v
    BY <2>1
  <2> QED
    BY <1>2, <2>2, <2>3, Zenon DEF ValueBytes
<1>3. ASSUME NEW v \in Values PROVE ValueOf(ValueBytes(v)) = v
  <2> DEFINE Good(u) == u \in Values /\ ValueBytes(u) = ValueBytes(v)
  <2>1. Good(v)
    OBVIOUS
  <2>2. ValueOf(ValueBytes(v)) = CHOOSE u : Good(u)
    BY DEF ValueOf
  <2>3. Good(CHOOSE u : Good(u))
    <3> HIDE DEF Good
    <3> QED
      BY <2>1
  <2> QED
    BY <1>2, <2>2, <2>3
<1> QED
  BY <1>1, <1>3

Taken(f, kv, k, v, r, s) ==
    /\ r \in Record
    /\ (r.deleted <=> HasFlag(f, DELETED)) /\ r.key = k /\ r.value = v
    /\ r.create_revision = kv.create_revision /\ r.mod_revision = kv.mod_revision
    /\ r.version = kv.version /\ r.lease = kv.lease
    /\ s.flags = f /\ s.key = kv.key /\ s.revision = kv.mod_revision

(* What the store and the verifier take from a record are the fields        *)
(* encoded.                                                                 *)
LEMMA RecordTaken ==
    ASSUME NEW f \in Nat, NEW kv \in KeyValues, NEW k \in Keys, NEW v \in Values,
           kv.key = KeyBytes(k), kv.value = ValueBytes(v), NEW w, w = KvWalRecord(f, kv)
    PROVE  Taken(f, kv, k, v, AsRecord(w, KeyValueDecode(w.kv_bytes)[1]), AsSeen(w))
<1> DEFINE rec == KvWalRecord(f, kv)
           e == encode_kv(kv)
           a == e.bytes
           b == e.key_offset
           c == e.mod_rev_offset
           r == AsRecord(rec, KeyValueDecode(rec.kv_bytes)[1])
           fields == <<kv.key, kv.create_revision, kv.mod_revision, kv.version, kv.value>>
           all == Append(fields, kv.lease)
<1>1. rec.flags = f /\ rec.kv_bytes = a /\ rec.key_offset = b /\ rec.mod_rev_offset = c
  BY RecordParts
<1>3. Len(kv.key) = 1
  BY DEF KeyBytes
<1>4. Len(kv.key) + LenGroups + RevGroups + 3 < OffsetLimit
  BY <1>3, LegacyAssumption, CodecAssumption
<1>5. /\ KeyValueDecode(a) = <<all>> /\ read_key_from_kv(a, b) = <<kv.key>>
      /\ read_mod_revision_from_kv(a, c) = <<kv.mod_revision>>
  BY <1>4, CodecOf, Zenon
<1>6. /\ kv.create_revision \in Nat /\ kv.mod_revision \in Nat /\ kv.version \in Nat
      /\ kv.lease \in Nat
  BY DEF KeyValues
<1>7. /\ all[2] = kv.create_revision /\ all[4] = kv.version /\ all[5] = kv.value
      /\ all[6] = kv.lease
  <2> DEFINE x1 == kv.key
             x2 == kv.create_revision
             x3 == kv.mod_revision
             x4 == kv.version
             x5 == kv.value
             x6 == kv.lease
  <2> HIDE DEF x1, x2, x3, x4, x5, x6
  <2>1. LET z == Append(<<x1, x2, x3, x4, x5>>, x6) IN
          z[2] = x2 /\ z[4] = x4 /\ z[5] = x5 /\ z[6] = x6
    OBVIOUS
  <2> QED
    BY <2>1 DEF x1, x2, x3, x4, x5, x6
<1> HIDE DEF rec, a, b, c, all
<1>8. /\ KeyValueDecode(rec.kv_bytes)[1] = all
      /\ read_key_from_kv(rec.kv_bytes, rec.key_offset)[1] = kv.key
      /\ read_mod_revision_from_kv(rec.kv_bytes, rec.mod_rev_offset)[1] = kv.mod_revision
  BY <1>1, <1>5
<1>9. KeyRank(kv.key) = k /\ ValueOf(kv.value) = v
  BY BytesBack
<1> DEFINE d == HasFlag(f, DELETED)
           x1 == kv.create_revision
           x2 == kv.mod_revision
           x3 == kv.version
           x4 == kv.lease
<1>10. r = [deleted |-> d, key |-> k, mod_revision |-> x2, create_revision |-> x1,
            version |-> x3, value |-> v, lease |-> x4]
  BY <1>1, <1>7, <1>8, <1>9, Zenon DEF AsRecord
<1>11. d \in BOOLEAN
  BY DEF HasFlag
<1> HIDE DEF d, x1, x2, x3, x4, r
<1>12. r \in Record
  BY <1>6, <1>10, <1>11 DEF Record, x1, x2, x3, x4
<1>13. /\ r.key = k /\ r.value = v /\ r.create_revision = x1 /\ r.mod_revision = x2
       /\ r.version = x3 /\ r.lease = x4
  BY <1>10
<1>14. r.deleted <=> d
  BY <1>10, <1>11
<1>15. /\ AsSeen(rec).flags = f /\ AsSeen(rec).key = kv.key
       /\ AsSeen(rec).revision = x2
  BY <1>1, <1>8 DEF AsSeen, x2
<1> QED
  BY <1>12, <1>13, <1>14, <1>15, Zenon DEF d, x1, x2, x3, x4, r, rec, Taken

-----------------------------------------------------------------------------
(* The tools go through the records in order.                               *)
(* The steps of the migration.                                               *)
LEMMA MigrateStepsExist ==
    ASSUME NEW records, NEW n \in Nat
    PROVE  \E t : t = [i \in 0 .. n |->
                        IF i = 0 THEN [st |-> <<>>, out |-> <<>>] ELSE MigrateOne(t[i - 1], records[i])]
<1> DEFINE Step(t, i) == IF i = 0 THEN [st |-> <<>>, out |-> <<>>] ELSE MigrateOne(t[i - 1], records[i])
           T == {k \in Nat : \E t : t = [i \in 0 .. k |-> Step(t, i)]}
<1>1. 0 \in T
  <2> DEFINE u == [i \in 0 .. 0 |-> [st |-> <<>>, out |-> <<>>]]
  <2>1. u = [i \in 0 .. 0 |-> Step(u, i)]
    OBVIOUS
  <2> QED
    BY <2>1
<1>2. ASSUME NEW k \in Nat, k \in T PROVE k + 1 \in T
  <2>1. PICK t : t = [i \in 0 .. k |-> Step(t, i)]
    BY <1>2
  <2> DEFINE u == [i \in 0 .. k + 1 |->
                      IF i = k + 1 THEN MigrateOne(t[k], records[k + 1]) ELSE t[i]]
  <2>2. ASSUME NEW i \in 0 .. k + 1 PROVE u[i] = Step(u, i)
    <3>1. CASE i = k + 1
      <4>1. u[i] = MigrateOne(t[k], records[k + 1]) /\ u[i - 1] = t[k] /\ i # 0
        BY <3>1
      <4> QED
        BY <3>1, <4>1
    <3>2. CASE i # k + 1
      <4>1. i \in 0 .. k /\ u[i] = t[i] /\ (i # 0 => i - 1 \in 0 .. k + 1 /\ u[i - 1] = t[i - 1])
        BY <3>2
      <4>2. t[i] = Step(t, i)
        BY <2>1, <4>1
      <4> QED
        BY <4>1, <4>2
    <3> QED
      BY <3>1, <3>2
  <2>3. u = [i \in 0 .. k + 1 |-> Step(u, i)]
    BY <2>2
  <2>4. \E t1 : t1 = [i \in 0 .. k + 1 |-> Step(t1, i)]
    <3> HIDE DEF u, Step
    <3> QED
      BY <2>3
  <2> QED
    BY <2>4
<1>3. T = Nat
  <2> HIDE DEF T
  <2>1. T \in SUBSET Nat
    BY DEF T
  <2> QED
    BY <1>1, <1>2, <2>1, InductionOnSet
<1> QED
  BY <1>3

(* The equations of MigrateSteps.                                           *)
LEMMA MigrateStepsDef ==
    ASSUME NEW records, Len(records) \in Nat
    PROVE  /\ MigrateSteps(records)[0] = [st |-> <<>>, out |-> <<>>]
           /\ \A i \in 1 .. Len(records) :
                 MigrateSteps(records)[i] = MigrateOne(MigrateSteps(records)[i - 1], records[i])
<1> DEFINE Good(t) == t = [i \in 0 .. Len(records) |->
                       IF i = 0 THEN [st |-> <<>>, out |-> <<>>] ELSE MigrateOne(t[i - 1], records[i])]
<1>1. \E t : Good(t)
  BY MigrateStepsExist
<1>2. MigrateSteps(records) = CHOOSE t : Good(t)
  BY DEF MigrateSteps
<1>3. Good(MigrateSteps(records))
  BY <1>1, <1>2
<1> QED
  BY <1>3

(* The steps of a rebuild.                                                   *)
LEMMA RebuildStepsExist ==
    ASSUME NEW records, NEW n \in Nat
    PROVE  \E t : t = [i \in 0 .. n |->
                        IF i = 0 THEN <<>> ELSE Rebuild(t[i - 1], records[i])]
<1> DEFINE Step(t, i) == IF i = 0 THEN <<>> ELSE Rebuild(t[i - 1], records[i])
           T == {k \in Nat : \E t : t = [i \in 0 .. k |-> Step(t, i)]}
<1>1. 0 \in T
  <2> DEFINE u == [i \in 0 .. 0 |-> <<>>]
  <2>1. u = [i \in 0 .. 0 |-> Step(u, i)]
    OBVIOUS
  <2> QED
    BY <2>1
<1>2. ASSUME NEW k \in Nat, k \in T PROVE k + 1 \in T
  <2>1. PICK t : t = [i \in 0 .. k |-> Step(t, i)]
    BY <1>2
  <2> DEFINE u == [i \in 0 .. k + 1 |->
                      IF i = k + 1 THEN Rebuild(t[k], records[k + 1]) ELSE t[i]]
  <2>2. ASSUME NEW i \in 0 .. k + 1 PROVE u[i] = Step(u, i)
    <3>1. CASE i = k + 1
      <4>1. u[i] = Rebuild(t[k], records[k + 1]) /\ u[i - 1] = t[k] /\ i # 0
        BY <3>1
      <4> QED
        BY <3>1, <4>1
    <3>2. CASE i # k + 1
      <4>1. i \in 0 .. k /\ u[i] = t[i] /\ (i # 0 => i - 1 \in 0 .. k + 1 /\ u[i - 1] = t[i - 1])
        BY <3>2
      <4>2. t[i] = Step(t, i)
        BY <2>1, <4>1
      <4> QED
        BY <4>1, <4>2
    <3> QED
      BY <3>1, <3>2
  <2>3. u = [i \in 0 .. k + 1 |-> Step(u, i)]
    BY <2>2
  <2>4. \E t1 : t1 = [i \in 0 .. k + 1 |-> Step(t1, i)]
    <3> HIDE DEF u, Step
    <3> QED
      BY <2>3
  <2> QED
    BY <2>4
<1>3. T = Nat
  <2> HIDE DEF T
  <2>1. T \in SUBSET Nat
    BY DEF T
  <2> QED
    BY <1>1, <1>2, <2>1, InductionOnSet
<1> QED
  BY <1>3

(* The equations of RebuildSteps.                                           *)
LEMMA RebuildStepsDef ==
    ASSUME NEW records, Len(records) \in Nat
    PROVE  /\ RebuildSteps(records)[0] = <<>>
           /\ \A i \in 1 .. Len(records) :
                 RebuildSteps(records)[i] = Rebuild(RebuildSteps(records)[i - 1], records[i])
<1> DEFINE Good(t) == t = [i \in 0 .. Len(records) |->
                       IF i = 0 THEN <<>> ELSE Rebuild(t[i - 1], records[i])]
<1>1. \E t : Good(t)
  BY RebuildStepsExist
<1>2. RebuildSteps(records) = CHOOSE t : Good(t)
  BY DEF RebuildSteps
<1>3. Good(RebuildSteps(records))
  BY <1>1, <1>2
<1> QED
  BY <1>3

-----------------------------------------------------------------------------
(* A map of live keys has the keys with a lifetime.                         *)
Covers(st, ks, D, i) ==
    \A b : b \in DOMAIN st <=> \E k \in LegacyKeys : b = KeyBytes(k) /\ LifeTo(ks, D, i, k) # {}

(* Removing and inserting change one key.                                   *)
LEMMA MapSteps ==
    ASSUME NEW st, NEW key, NEW x
    PROVE  /\ \A b : b \in DOMAIN Removed(st, key) <=> b \in DOMAIN st /\ b # key
           /\ \A b \in DOMAIN st : b # key => Removed(st, key)[b] = st[b]
           /\ \A b : b \in DOMAIN Inserted(st, key, x) <=> b \in DOMAIN st \/ b = key
           /\ \A b \in DOMAIN st : b # key => Inserted(st, key, x)[b] = st[b]
           /\ Inserted(st, key, x)[key] = x
  BY DEF Removed, Inserted

(* A map that covers the lifetimes does after one record more.              *)
LEMMA CoversStep ==
    ASSUME NEW st, NEW ks, NEW D, NEW i \in Nat, Covers(st, ks, D, i),
           ks[i + 1] \in LegacyKeys, NEW x
    PROVE  /\ i + 1 \in D => Covers(Removed(st, KeyBytes(ks[i + 1])), ks, D, i + 1)
           /\ i + 1 \notin D => Covers(Inserted(st, KeyBytes(ks[i + 1]), x), ks, D, i + 1)
<1> DEFINE y == ks[i + 1]
           key == KeyBytes(y)
           A(k) == LifeTo(ks, D, i, k)
           B(k) == LifeTo(ks, D, i + 1, k)
<1>1. \A k : NextLife(ks, D, i, k, A(k), B(k))
  BY LifeStep
<1>2. \A b : b \in DOMAIN st <=> \E k \in LegacyKeys : b = KeyBytes(k) /\ A(k) # {}
  BY DEF Covers
<1>3. \A k : k # y => B(k) = A(k)
  <2> HIDE DEF A, B
  <2> QED
    BY <1>1 DEF NextLife
<1>4. (i + 1 \in D => B(y) = {}) /\ (i + 1 \notin D => B(y) # {})
  <2> HIDE DEF A, B
  <2> QED
    BY <1>1 DEF NextLife
<1>5. \A k, l : KeyBytes(k) = KeyBytes(l) => k = l
  BY BytesBack
<1>6. /\ \A b : b \in DOMAIN Removed(st, key) <=> b \in DOMAIN st /\ b # key
      /\ \A b : b \in DOMAIN Inserted(st, key, x) <=> b \in DOMAIN st \/ b = key
  BY MapSteps
<1> HIDE DEF A, B, y
<1>7. y \in LegacyKeys
  BY DEF y
<1>8. i + 1 \in D => \A b : b \in DOMAIN Removed(st, key) <=>
                        \E k \in LegacyKeys : b = KeyBytes(k) /\ B(k) # {}
  BY <1>2, <1>3, <1>4, <1>5, <1>6
<1>9. i + 1 \notin D => \A b : b \in DOMAIN Inserted(st, key, x) <=>
                           \E k \in LegacyKeys : b = KeyBytes(k) /\ B(k) # {}
  BY <1>2, <1>3, <1>4, <1>5, <1>6, <1>7
<1> QED
  BY <1>8, <1>9 DEF Covers, B, y

-----------------------------------------------------------------------------
(* The state a tool rebuilds.                                               *)
RanksOf(recs) == [j \in DOMAIN recs |-> KeyRank(recs[j].key)]
Dels(recs) == {j \in DOMAIN recs : HasFlag(recs[j].flags, DELETED)}
LifeOf(recs, i, k) == LifeTo(RanksOf(recs), Dels(recs), i, k)

(* Records of keys of the instance.                                         *)
Keyed(recs) ==
    /\ Len(recs) \in Nat /\ DOMAIN recs = 1 .. Len(recs)
    /\ \A j \in 1 .. Len(recs) : \E k \in LegacyKeys : recs[j].key = KeyBytes(k)

(* Records with legacy keys, by the ranks of their keys.                    *)
LEMMA KeyedIs ==
    ASSUME NEW recs, Keyed(recs)
    PROVE  \A j \in 1 .. Len(recs) :
              /\ RanksOf(recs)[j] \in LegacyKeys /\ recs[j].key = KeyBytes(RanksOf(recs)[j])
              /\ j \in Dels(recs) <=> HasFlag(recs[j].flags, DELETED)
<1> SUFFICES ASSUME NEW j \in 1 .. Len(recs)
             PROVE  /\ RanksOf(recs)[j] \in LegacyKeys /\ recs[j].key = KeyBytes(RanksOf(recs)[j])
                    /\ j \in Dels(recs) <=> HasFlag(recs[j].flags, DELETED)
  OBVIOUS
<1>1. j \in DOMAIN recs /\ \E k \in LegacyKeys : recs[j].key = KeyBytes(k)
  BY DEF Keyed
<1>2. RanksOf(recs)[j] = KeyRank(recs[j].key)
  BY <1>1 DEF RanksOf
<1>3. j \in Dels(recs) <=> HasFlag(recs[j].flags, DELETED)
  BY <1>1 DEF Dels
<1> QED
  BY <1>1, <1>2, <1>3, BytesBack

(* Only the first put of a lifetime is flagged as a creation.               *)
Creates(recs) ==
    \A j \in 1 .. Len(recs) :
        HasFlag(recs[j].flags, IS_CREATE) /\ j \notin Dels(recs)
        => LifeOf(recs, j - 1, RanksOf(recs)[j]) = {}

Rebuilt(recs, L, e) ==
    /\ e = [value |-> e.value, mod_revision |-> e.mod_revision,
            create_revision |-> e.create_revision, version |-> e.version]
    /\ e.value = recs[Max(L)].value /\ e.mod_revision = recs[Max(L)].revision
    /\ e.version = Cardinality(L)
    /\ Creates(recs) => e.create_revision = recs[Min(L)].revision

(* The entry a put leaves.                                                  *)
Entered(st, rec, e) ==
    /\ e = [value |-> e.value, mod_revision |-> e.mod_revision,
            create_revision |-> e.create_revision, version |-> e.version]
    /\ e.value = rec.value /\ e.mod_revision = rec.revision
    /\ e.create_revision = IF rec.key \notin DOMAIN st \/ HasFlag(rec.flags, IS_CREATE)
                           THEN rec.revision ELSE st[rec.key].create_revision
    /\ e.version = IF rec.key \notin DOMAIN st THEN 1 ELSE st[rec.key].version + 1

(* Rebuilding from a put enters that key.                                   *)
LEMMA RebuildPut ==
    ASSUME NEW st, NEW rec, ~HasFlag(rec.flags, DELETED)
    PROVE  \E e : Rebuild(st, rec) = Inserted(st, rec.key, e) /\ Entered(st, rec, e)
<1> DEFINE a == rec.value
           b == rec.revision
           c == IF rec.key \notin DOMAIN st \/ HasFlag(rec.flags, IS_CREATE)
                THEN rec.revision ELSE st[rec.key].create_revision
           d == IF rec.key \notin DOMAIN st THEN 1 ELSE st[rec.key].version + 1
           e == [value |-> a, mod_revision |-> b, create_revision |-> c, version |-> d]
<1>1. Rebuild(st, rec) = Inserted(st, rec.key, e)
  BY Zenon DEF Rebuild
<1> HIDE DEF a, b, c, d
<1>2. /\ e.value = a /\ e.mod_revision = b /\ e.create_revision = c /\ e.version = d
      /\ e = [value |-> e.value, mod_revision |-> e.mod_revision,
              create_revision |-> e.create_revision, version |-> e.version]
  OBVIOUS
<1> HIDE DEF e
<1>3. Entered(st, rec, e)
  BY <1>2, Zenon DEF a, b, c, d, Entered
<1> QED
  BY <1>1, <1>3

(* The rebuilt state describes the lifetimes, record by record.             *)
LEMMA RebuildIs ==
    ASSUME NEW recs, Keyed(recs)
    PROVE  \A i \in 0 .. Len(recs) :
              /\ Covers(RebuildSteps(recs)[i], RanksOf(recs), Dels(recs), i)
              /\ \A k \in LegacyKeys : LifeOf(recs, i, k) # {} =>
                    Rebuilt(recs, LifeOf(recs, i, k), RebuildSteps(recs)[i][KeyBytes(k)])
<1> DEFINE n == Len(recs)
           ks == RanksOf(recs)
           D == Dels(recs)
           s(i) == RebuildSteps(recs)[i]
           L(i, k) == LifeTo(ks, D, i, k)
           Ok(i) == /\ Covers(s(i), ks, D, i)
                    /\ \A k \in LegacyKeys : L(i, k) # {} =>
                          Rebuilt(recs, L(i, k), s(i)[KeyBytes(k)])
           T == {i \in Nat : i <= n => Ok(i)}
<1>0. n \in Nat
  BY DEF Keyed
<1>1. s(0) = <<>> /\ \A i \in 1 .. n : s(i) = Rebuild(s(i - 1), recs[i])
  BY <1>0, RebuildStepsDef
<1>2. \A j \in 1 .. n : /\ ks[j] \in LegacyKeys /\ recs[j].key = KeyBytes(ks[j])
                        /\ j \in D <=> HasFlag(recs[j].flags, DELETED)
  BY KeyedIs
<1>20. Creates(recs) => \A j \in 1 .. n :
          HasFlag(recs[j].flags, IS_CREATE) /\ j \notin D => L(j - 1, ks[j]) = {}
  BY DEF Creates, LifeOf
<1> HIDE DEF s, ks, D
<1>3. 0 \in T
  <2>1. \A k : L(0, k) = {}
    BY LifeNone
  <2>2. DOMAIN s(0) = {}
    BY <1>1
  <2>3. Covers(s(0), ks, D, 0)
    BY <2>1, <2>2 DEF Covers
  <2> QED
    BY <2>1, <2>3
<1>4. ASSUME NEW i \in Nat, i \in T PROVE i + 1 \in T
  <2> SUFFICES ASSUME i + 1 <= n PROVE Ok(i + 1)
    OBVIOUS
  <2> DEFINE r == recs[i + 1]
             a == s(i)
             b == s(i + 1)
             y == ks[i + 1]
             A(k) == L(i, k)
             B(k) == L(i + 1, k)
  <2>1. i + 1 \in 1 .. n /\ (i + 1) - 1 = i /\ i <= n
    BY <1>0
  <2>2. /\ Covers(a, ks, D, i)
        /\ \A k \in LegacyKeys : A(k) # {} => Rebuilt(recs, A(k), a[KeyBytes(k)])
    BY <1>4, <2>1
  <2>3. /\ b = Rebuild(a, r) /\ y \in LegacyKeys /\ r.key = KeyBytes(y)
        /\ (i + 1 \in D <=> HasFlag(r.flags, DELETED))
    BY <1>1, <1>2, <2>1
  <2>4. \A k : NextLife(ks, D, i, k, A(k), B(k))
    BY LifeStep
  <2>5. \A k, l : KeyBytes(k) = KeyBytes(l) => k = l
    BY BytesBack
  <2>6. Creates(recs) => (HasFlag(r.flags, IS_CREATE) /\ i + 1 \notin D => A(y) = {})
    BY <1>20, <2>1
  <2>7. \A k \in LegacyKeys : KeyBytes(k) \in DOMAIN a <=> A(k) # {}
    <3> HIDE DEF a
    <3> QED
      BY <2>2, <2>5 DEF Covers
  <2> HIDE DEF L, r, a, b
  <2>8. \A k : k # y => B(k) = A(k)
    <3> HIDE DEF A, B
    <3> QED
      BY <2>4 DEF NextLife, y
  <2>9. CASE i + 1 \in D
    <3>1. b = Removed(a, KeyBytes(y))
      BY <2>3, <2>9 DEF Rebuild
    <3>2. Covers(b, ks, D, i + 1)
      BY <2>2, <2>3, <2>9, <3>1, CoversStep
    <3>3. B(y) = {}
      <4> HIDE DEF A, B
      <4> QED
        BY <2>4, <2>9 DEF NextLife, y
    <3>4. ASSUME NEW k \in LegacyKeys, B(k) # {}
          PROVE  Rebuilt(recs, B(k), b[KeyBytes(k)])
      <4> HIDE DEF y, A, B
      <4>1. k # y /\ B(k) = A(k)
        BY <2>8, <3>3, <3>4
      <4>2. KeyBytes(k) \in DOMAIN a /\ KeyBytes(k) # KeyBytes(y)
        BY <2>5, <2>7, <3>4, <4>1
      <4>3. b[KeyBytes(k)] = a[KeyBytes(k)]
        BY <3>1, <4>2, MapSteps, ZenonT(60)
      <4> QED
        BY <2>2, <3>4, <4>1, <4>3
    <3> QED
      BY <3>2, <3>4 DEF b
  <2>10. CASE i + 1 \notin D
    <3>1. PICK e : b = Inserted(a, KeyBytes(y), e) /\ Entered(a, r, e)
      BY <2>3, <2>10, RebuildPut
    <3>2. Covers(b, ks, D, i + 1)
      BY <2>2, <2>3, <2>10, <3>1, CoversStep
    <3>3. A(y) \in SUBSET (1 .. i) /\ B(y) = A(y) \cup {i + 1}
      <4> HIDE DEF A, B
      <4> QED
        BY <2>4, <2>10 DEF NextLife, y
    <3>4. Rebuilt(recs, B(y), e)
      <4> DEFINE P == A(y)
                 Q == B(y)
      <4>1. P \in SUBSET (1 .. i) /\ Q = P \cup {i + 1}
        BY <3>3
      <4>2. r.key \in DOMAIN a <=> P # {}
        BY <2>3, <2>7
      <4>3. P # {} => Rebuilt(recs, P, a[r.key])
        BY <2>2, <2>3
      <4>4. Creates(recs) => (HasFlag(r.flags, IS_CREATE) => P = {})
        BY <2>6, <2>10
      <4> HIDE DEF P, Q
      <4>5. /\ Max(Q) = i + 1 /\ Cardinality(Q) = Cardinality(P) + 1
            /\ Min(Q) = IF P = {} THEN i + 1 ELSE Min(P)
        BY <4>1, MinMaxGrow
      <4>6. P = {} => Cardinality(P) + 1 = 1
        BY FS_EmptySet
      <4>7. r = recs[i + 1]
        BY DEF r
      <4>8. Rebuilt(recs, Q, e)
        <5>0. /\ e = [value |-> e.value, mod_revision |-> e.mod_revision,
                      create_revision |-> e.create_revision, version |-> e.version]
              /\ e.value = recs[Max(Q)].value /\ e.mod_revision = recs[Max(Q)].revision
          BY <3>1, <4>5, <4>7 DEF Entered
        <5>1. CASE P = {}
          <6>1. e.version = 1 /\ e.create_revision = r.revision
            BY <3>1, <4>2, <5>1 DEF Entered
          <6> QED
            BY <5>0, <6>1, <4>5, <4>6, <4>7, <5>1 DEF Rebuilt
        <5>2. CASE P # {}
          <6>1. /\ e.version = a[r.key].version + 1
                /\ Creates(recs) => e.create_revision = a[r.key].create_revision
            BY <3>1, <4>2, <4>4, <5>2 DEF Entered
          <6>2. /\ a[r.key].version = Cardinality(P)
                /\ Creates(recs) => a[r.key].create_revision = recs[Min(P)].revision
            BY <4>3, <5>2 DEF Rebuilt
          <6> QED
            BY <5>0, <6>1, <6>2, <4>5, <5>2 DEF Rebuilt
        <5> QED
          BY <5>1, <5>2
      <4> QED
        BY <4>8 DEF Q
    <3>5. ASSUME NEW k \in LegacyKeys, B(k) # {}
          PROVE  Rebuilt(recs, B(k), b[KeyBytes(k)])
      <4> HIDE DEF y, A, B
      <4>1. CASE k = y
        <5>1. b[KeyBytes(k)] = e
          BY <3>1, <4>1, MapSteps
        <5> QED
          BY <3>4, <4>1, <5>1
      <4>2. CASE k # y
        <5>1. B(k) = A(k)
          BY <2>8, <4>2
        <5>2. KeyBytes(k) \in DOMAIN a /\ KeyBytes(k) # KeyBytes(y)
          BY <2>5, <2>7, <3>5, <4>2, <5>1
        <5>3. b[KeyBytes(k)] = a[KeyBytes(k)]
          BY <3>1, <5>2, MapSteps
        <5> QED
          BY <2>2, <3>5, <5>1, <5>3
      <4> QED
        BY <4>1, <4>2
    <3> QED
      BY <3>2, <3>5 DEF b
  <2> QED
    BY <2>9, <2>10
<1> HIDE DEF Ok
<1>5. T = Nat
  <2> HIDE DEF T
  <2>1. T \in SUBSET Nat
    BY DEF T
  <2> QED
    BY <1>3, <1>4, <2>1, InductionOnSet
<1>6. \A i \in 0 .. n : Ok(i)
  <2> HIDE DEF T
  <2>1. \A i \in 0 .. n : i \in T /\ i <= n
    BY <1>0, <1>5
  <2> QED
    BY <2>1 DEF T
<1> QED
  BY <1>6, Zenon DEF Ok, s, ks, D, LifeOf

-----------------------------------------------------------------------------
(* The legacy records of the instance: one of its keys and of its values,   *)
(* with a revision.                                                         *)
SoundRecs ==
    {r \in LegacyRecs : /\ r.revision \in 1 .. MaxLegacy /\ r.flags \in {0, 1, 2, 4, 6}
                        /\ r.lease_id \in {<<>>, <<1>>}
                        /\ \E k \in LegacyKeys : r.key = KeyBytes(k)
                        /\ \E v \in Values : r.value = ValueBytes(v)}

(* They are keyed, and no key is put so often that a version does not fit.  *)
Sound(recs) ==
    /\ recs \in Seq(SoundRecs)
    /\ \A i \in 0 .. Len(recs) : \A k \in LegacyKeys :
          Cardinality(LifeOf(recs, i, k)) <= MaxLegacy

(* Sound records are legacy records with legacy keys.                       *)
LEMMA SoundIs ==
    ASSUME NEW recs, Sound(recs)
    PROVE  Keyed(recs) /\ recs \in Seq(LegacyRecs) /\ \A j \in 1 .. Len(recs) : recs[j] \in SoundRecs
<1> DEFINE S == SoundRecs
           W == LegacyRecs
<1>1. recs \in Seq(S) /\ S \subseteq W
  BY DEF Sound, SoundRecs
<1> HIDE DEF S, W
<1>2. recs \in Seq(W) /\ Len(recs) \in Nat /\ DOMAIN recs = 1 .. Len(recs)
      /\ \A j \in 1 .. Len(recs) : recs[j] \in S
  BY <1>1, SeqMonotonic
<1>3. \A j \in 1 .. Len(recs) : \E k \in LegacyKeys : recs[j].key = KeyBytes(k)
  <2>1. \A r \in S : \E k \in LegacyKeys : r.key = KeyBytes(k)
    BY DEF S, SoundRecs
  <2> QED
    BY <1>2, <2>1
<1> QED
  BY <1>2, <1>3 DEF Keyed, S, W

(* The numbers and values of a sound record.                                *)
LEMMA SoundFields ==
    ASSUME NEW r \in SoundRecs
    PROVE  /\ r.revision \in 1 .. MaxLegacy /\ LeaseOf(r) \in {0, 1}
           /\ \E v \in Values : r.value = ValueBytes(v)
           /\ MaxLegacy \in Nat /\ 1 <= MaxLegacy
<1>1. MaxLegacy \in Nat
  BY BoundsAssumption
<1>2. /\ r.revision \in 1 .. MaxLegacy /\ r.lease_id \in {<<>>, <<1>>} /\ r \in LegacyRecs
      /\ \E v \in Values : r.value = ValueBytes(v)
  BY DEF SoundRecs
<1>3. 1 <= MaxLegacy
  <2> DEFINE x == r.revision
  <2> HIDE DEF x
  <2>1. x \in 1 .. MaxLegacy
    BY <1>2 DEF x
  <2> QED
    BY <1>1, <2>1
<1>4. LeaseOf(r) \in {0, 1}
  <2>1. CASE HasFlag(r.flags, HAS_LEASE)
    <3>1. Len(r.lease_id) = 1
      BY <1>2, <2>1 DEF LegacyRecs
    <3>2. Len(<<>>) = 0 /\ <<1>>[1] = 1
      OBVIOUS
    <3>3. r.lease_id[1] = 1
      BY <1>2, <3>1, <3>2
    <3> QED
      BY <2>1, <3>3 DEF LeaseOf
  <2>2. CASE ~HasFlag(r.flags, HAS_LEASE)
    BY <2>2 DEF LeaseOf
  <2> QED
    BY <2>1, <2>2
<1> QED
  BY <1>1, <1>2, <1>3, <1>4

(* What the migration knows of a live key.                                  *)
KnownFrom(recs, L) ==
    [create_revision |-> recs[Min(L)].revision, version |-> Cardinality(L),
     value |-> recs[Max(L)].value, lease |-> LeaseOf(recs[Max(L)])]
Sane(x) ==
    /\ x.create_revision \in 0 .. MaxLegacy /\ x.version \in 0 .. MaxLegacy
    /\ x.lease \in {0, 1} /\ \E v \in Values : x.value = ValueBytes(v)

(* What is known of an unknown key fits the format.                         *)
LEMMA UnknownSane == Sane(Unknown)
<1>1. <<>> = ValueBytes(EmptyValue) /\ EmptyValue \in Values
  BY ValuesAssumption DEF ValueBytes
<1>2. 0 \in 0 .. MaxLegacy
  BY BoundsAssumption
<1>3. /\ Unknown.create_revision = 0 /\ Unknown.version = 0 /\ Unknown.value = <<>>
      /\ Unknown.lease = 0
  BY DEF Unknown
<1> QED
  BY <1>1, <1>2, <1>3 DEF Sane

(* What is known of a key with a lifetime fits the format, and is           *)
(* something.                                                               *)
LEMMA KnownSane ==
    ASSUME NEW recs, Sound(recs), NEW i \in 0 .. Len(recs), NEW k \in LegacyKeys,
           LifeOf(recs, i, k) # {}
    PROVE  LET x == KnownFrom(recs, LifeOf(recs, i, k)) IN Sane(x) /\ x # Unknown
<1> DEFINE L == LifeOf(recs, i, k)
           x == KnownFrom(recs, L)
           a == recs[Min(L)].revision
           b == Cardinality(L)
           c == recs[Max(L)].value
           d == LeaseOf(recs[Max(L)])
<1>0. Len(recs) \in Nat /\ i \in Nat /\ i <= Len(recs) /\ \A j \in 1 .. Len(recs) : recs[j] \in SoundRecs
  BY SoundIs DEF Keyed
<1>1. L \in SUBSET (1 .. i)
  BY <1>0, LifeStep DEF LifeOf, NextLife
<1>2. /\ Min(L) \in 1 .. i /\ Max(L) \in 1 .. i /\ b >= 1 /\ b \in Nat
  BY <1>0, <1>1, MinMax
<1>3. b <= MaxLegacy
  BY DEF Sound
<1>4. recs[Min(L)] \in SoundRecs /\ recs[Max(L)] \in SoundRecs
  <2> HIDE DEF L
  <2> QED
    BY <1>0, <1>2
<1>5. /\ a \in 1 .. MaxLegacy /\ d \in {0, 1} /\ MaxLegacy \in Nat
      /\ \E v \in Values : c = ValueBytes(v)
  BY <1>4, SoundFields
<1> HIDE DEF L
<1>6. x = [create_revision |-> a, version |-> b, value |-> c, lease |-> d]
  BY DEF KnownFrom
<1> HIDE DEF a, b, c, d, x
<1>7. x.create_revision = a /\ x.version = b /\ x.value = c /\ x.lease = d
  BY <1>6
<1>8. x # Unknown
  BY <1>2, <1>7 DEF Unknown
<1>9. a \in 0 .. MaxLegacy /\ b \in 0 .. MaxLegacy
  BY <1>2, <1>3, <1>5
<1> QED
  BY <1>5, <1>7, <1>8, <1>9 DEF Sane, x, L

(* The record written for what is known.                                    *)
KvOf(rec, x) ==
    [key |-> rec.key, value |-> x.value, create_revision |-> x.create_revision,
     mod_revision |-> rec.revision, version |-> x.version, lease |-> x.lease]
FlagOf(rec, x) ==
    (IF HasFlag(rec.flags, DELETED) THEN DELETED ELSE IS_CREATE) + LeaseFlag(x.lease)

(* The fields of a migrated record fit the format.                          *)
LEMMA KvOfIs ==
    ASSUME NEW rec \in SoundRecs, NEW x, Sane(x)
    PROVE  /\ KvOf(rec, x) \in KeyValues /\ FlagOf(rec, x) \in Nat
           /\ HasFlag(FlagOf(rec, x), DELETED) <=> HasFlag(rec.flags, DELETED)
           /\ KvOf(rec, x).key = rec.key /\ KvOf(rec, x).value = x.value
           /\ KvOf(rec, x).create_revision = x.create_revision
           /\ KvOf(rec, x).mod_revision = rec.revision
           /\ KvOf(rec, x).version = x.version /\ KvOf(rec, x).lease = x.lease
<1> DEFINE a == rec.key
           b == x.value
           c == x.create_revision
           d == rec.revision
           v == x.version
           l == x.lease
           kv == [key |-> a, value |-> b, create_revision |-> c, mod_revision |-> d,
                  version |-> v, lease |-> l]
           f == FlagOf(rec, x)
<1>1. KvOf(rec, x) = kv
  BY DEF KvOf
<1>2. d \in 1 .. MaxLegacy /\ MaxLegacy \in Nat
  BY SoundFields
<1>3. \A n \in 0 .. MaxLegacy : n \in Nat /\ Fits(n, RevGroups)
  BY LegacyAssumption, <1>2
<1>4. c \in 0 .. MaxLegacy /\ d \in 0 .. MaxLegacy /\ v \in 0 .. MaxLegacy /\ l \in {0, 1}
  BY <1>2 DEF Sane
<1>5. /\ Fits(0, LenGroups) /\ Fits(1, LenGroups) /\ Fits(0, RevGroups) /\ Fits(1, RevGroups)
  <2>1. LenGroups \in 1 .. RevGroups /\ RevGroups \in 1 .. RevGroups
    BY CodecAssumption
  <2> QED
    BY <2>1, FitsSmall
<1>6. a \in Seq(Nat) /\ Len(a) = 1
  <2>1. PICK k \in LegacyKeys : a = KeyBytes(k)
    BY DEF SoundRecs
  <2>2. k \in Nat
    BY LegacyAssumption, KeysAssumption
  <2>3. <<k>> \in Seq(Nat) /\ Len(<<k>>) = 1
    BY <2>2
  <2> QED
    BY <2>1, <2>3 DEF KeyBytes
<1>7. b \in Seq(Nat) /\ Len(b) \in {0, 1}
  <2>1. PICK u \in Values : b = ValueBytes(u)
    BY DEF Sane
  <2>2. u \in Nat
    BY OrderedValues
  <2>3. <<u>> \in Seq(Nat) /\ Len(<<u>>) = 1 /\ <<>> \in Seq(Nat) /\ Len(<<>>) = 0
    BY <2>2
  <2> QED
    BY <2>1, <2>3 DEF ValueBytes
<1>8. f \in Nat /\ (HasFlag(f, DELETED) <=> HasFlag(rec.flags, DELETED))
  <2> DEFINE y == LeaseFlag(l)
             del == HasFlag(rec.flags, DELETED)
  <2>1. y \in {0, 4}
    BY DEF LeaseFlag, HAS_LEASE
  <2>2. f = (IF del THEN 1 ELSE 2) + y
    BY DEF FlagOf, DELETED, IS_CREATE
  <2> HIDE DEF y, del, f
  <2>3. CASE del
    <3>1. f \in {1, 5}
      BY <2>1, <2>2, <2>3
    <3>2. HasFlag(f, DELETED)
      BY <3>1 DEF HasFlag, DELETED
    <3> QED
      BY <2>3, <3>1, <3>2 DEF del
  <2>4. CASE ~del
    <3>1. f \in {2, 6}
      BY <2>1, <2>2, <2>4
    <3>2. ~HasFlag(f, DELETED)
      BY <3>1 DEF HasFlag, DELETED
    <3> QED
      BY <2>4, <3>1, <3>2 DEF del
  <2> QED
    BY <2>3, <2>4
<1> HIDE DEF a, b, c, d, v, l
<1>9. /\ kv.key = a /\ kv.value = b /\ kv.create_revision = c /\ kv.mod_revision = d
      /\ kv.version = v /\ kv.lease = l
  OBVIOUS
<1>10. kv \in [key : Seq(Nat), value : Seq(Nat), create_revision : Nat,
             mod_revision : Nat, version : Nat, lease : Nat]
  BY <1>3, <1>4, <1>6, <1>7
<1>11. /\ Fits(Len(a), LenGroups) /\ Fits(Len(b), LenGroups) /\ Fits(c, RevGroups)
       /\ Fits(d, RevGroups) /\ Fits(v, RevGroups) /\ Fits(l, RevGroups)
  BY <1>3, <1>4, <1>5, <1>6, <1>7
<1> HIDE DEF kv
<1>12. kv \in KeyValues
  BY <1>9, <1>10, <1>11, Zenon DEF KeyValues
<1> QED
  BY <1>1, <1>8, <1>9, <1>12, Zenon DEF a, b, c, d, v, l, f

-----------------------------------------------------------------------------
(* What the migration writes.                                               *)
PrevOf(st, rec) == IF rec.key \in DOMAIN st THEN st[rec.key] ELSE Unknown
NowKnown(st, rec) ==
    IF HasFlag(rec.flags, DELETED) THEN PrevOf(st, rec)
    ELSE [create_revision |-> IF PrevOf(st, rec) = Unknown THEN rec.revision
                              ELSE PrevOf(st, rec).create_revision,
          version |-> PrevOf(st, rec).version + 1, value |-> rec.value,
          lease |-> LeaseOf(rec)]
Written(rec, x) == KvWalRecord(FlagOf(rec, x), KvOf(rec, x))

(* One step of migrate: the map and the record written.                     *)
LEMMA MigrateOneIs ==
    ASSUME NEW acc, NEW rec
    PROVE  LET x == NowKnown(acc.st, rec) IN
           /\ MigrateOne(acc, rec).st = IF HasFlag(rec.flags, DELETED)
                                        THEN Removed(acc.st, rec.key)
                                        ELSE Inserted(acc.st, rec.key, x)
           /\ MigrateOne(acc, rec).out = Append(acc.out, Written(rec, x))
<1> DEFINE x == NowKnown(acc.st, rec)
           a == IF HasFlag(rec.flags, DELETED) THEN Removed(acc.st, rec.key)
                ELSE Inserted(acc.st, rec.key, x)
           b == Append(acc.out, Written(rec, x))
<1>1. MigrateOne(acc, rec) = [st |-> a, out |-> b]
  BY Zenon DEF MigrateOne, NowKnown, PrevOf, Written, FlagOf, KvOf
<1> HIDE DEF a, b
<1>2. [st |-> a, out |-> b].st = a /\ [st |-> a, out |-> b].out = b
  OBVIOUS
<1> QED
  BY <1>1, <1>2 DEF a, b

(* The record for the j-th legacy record; x is what was known by then.      *)
MigratedAs(recs, j, x, w) ==
    /\ w = Written(recs[j], x) /\ Sane(x)
    /\ j \notin Dels(recs) => x = KnownFrom(recs, LifeOf(recs, j, RanksOf(recs)[j]))
                              /\ Max(LifeOf(recs, j, RanksOf(recs)[j])) = j

(* migrate writes one record for each legacy record, with its lifetime's    *)
(* stamps.                                                                  *)
LEMMA MigrateIs ==
    ASSUME NEW recs, Sound(recs)
    PROVE  LET out == MigrateSteps(recs)[Len(recs)].out IN
           /\ out \in Seq(KvRecords) /\ Len(out) = Len(recs)
           /\ \A j \in 1 .. Len(recs) : \E x : MigratedAs(recs, j, x, out[j])
<1> DEFINE n == Len(recs)
           ks == RanksOf(recs)
           D == Dels(recs)
           s(i) == MigrateSteps(recs)[i].st
           o(i) == MigrateSteps(recs)[i].out
           L(i, k) == LifeTo(ks, D, i, k)
           Ok(i) == /\ Covers(s(i), ks, D, i)
                    /\ \A k \in LegacyKeys : L(i, k) # {} =>
                          s(i)[KeyBytes(k)] = KnownFrom(recs, L(i, k))
                    /\ o(i) \in Seq(KvRecords) /\ Len(o(i)) = i
                    /\ \A j \in 1 .. i : \E x : MigratedAs(recs, j, x, o(i)[j])
           T == {i \in Nat : i <= n => Ok(i)}
<1>0. Keyed(recs) /\ n \in Nat /\ \A j \in 1 .. n : recs[j] \in SoundRecs
  BY SoundIs DEF Keyed
<1>1. /\ s(0) = <<>> /\ o(0) = <<>>
      /\ \A i \in 1 .. n :
            /\ s(i) = IF HasFlag(recs[i].flags, DELETED) THEN Removed(s(i - 1), recs[i].key)
                      ELSE Inserted(s(i - 1), recs[i].key, NowKnown(s(i - 1), recs[i]))
            /\ o(i) = Append(o(i - 1), Written(recs[i], NowKnown(s(i - 1), recs[i])))
  <2>1. /\ MigrateSteps(recs)[0] = [st |-> <<>>, out |-> <<>>]
        /\ \A i \in 1 .. n : MigrateSteps(recs)[i] = MigrateOne(MigrateSteps(recs)[i - 1], recs[i])
    BY <1>0, MigrateStepsDef
  <2> DEFINE empty == <<>>
  <2> HIDE DEF empty
  <2>2. [st |-> empty, out |-> empty].st = empty /\ [st |-> empty, out |-> empty].out = empty
    OBVIOUS
  <2>3. ASSUME NEW i \in 1 .. n
        PROVE  /\ s(i) = IF HasFlag(recs[i].flags, DELETED) THEN Removed(s(i - 1), recs[i].key)
                         ELSE Inserted(s(i - 1), recs[i].key, NowKnown(s(i - 1), recs[i]))
               /\ o(i) = Append(o(i - 1), Written(recs[i], NowKnown(s(i - 1), recs[i])))
    <3> DEFINE prev == MigrateSteps(recs)[i - 1]
    <3>1. MigrateSteps(recs)[i] = MigrateOne(prev, recs[i])
      BY <2>1
    <3> HIDE DEF prev
    <3>2. /\ MigrateOne(prev, recs[i]).st = IF HasFlag(recs[i].flags, DELETED)
                                        THEN Removed(prev.st, recs[i].key)
                                        ELSE Inserted(prev.st, recs[i].key, NowKnown(prev.st, recs[i]))
          /\ MigrateOne(prev, recs[i]).out = Append(prev.out, Written(recs[i], NowKnown(prev.st, recs[i])))
      BY ONLY MigrateOneIs, Zenon
    <3> QED
      BY <3>1, <3>2, Zenon DEF prev
  <2>4. s(0) = empty /\ o(0) = empty
    BY <2>1, <2>2 DEF empty
  <2> QED
    BY <2>3, <2>4, Zenon DEF empty
<1>2. \A j \in 1 .. n : /\ ks[j] \in LegacyKeys /\ recs[j].key = KeyBytes(ks[j])
                        /\ j \in D <=> HasFlag(recs[j].flags, DELETED)
  BY <1>0, KeyedIs
<1>3. \A i \in 0 .. n : \A k \in LegacyKeys : L(i, k) # {} =>
         Sane(KnownFrom(recs, L(i, k))) /\ KnownFrom(recs, L(i, k)) # Unknown
  BY KnownSane DEF LifeOf
<1> HIDE DEF s, o
<1>4. 0 \in T
  <2>1. \A k : L(0, k) = {}
    BY LifeNone
  <2>2. DOMAIN s(0) = {}
    BY <1>1
  <2>3. Covers(s(0), ks, D, 0)
    BY <2>1, <2>2 DEF Covers
  <2>4. o(0) \in Seq(KvRecords) /\ Len(o(0)) = 0
    <3> DEFINE S == KvRecords
    <3> HIDE DEF S
    <3>1. <<>> \in Seq(S) /\ Len(<<>>) = 0
      OBVIOUS
    <3> QED
      BY <1>1, <3>1 DEF S
  <2> QED
    BY <2>1, <2>3, <2>4
<1>5. ASSUME NEW i \in Nat, i \in T PROVE i + 1 \in T
  <2> SUFFICES ASSUME i + 1 <= n PROVE Ok(i + 1)
    OBVIOUS
  <2> DEFINE r == recs[i + 1]
             a == s(i)
             b == s(i + 1)
             y == ks[i + 1]
             A(k) == L(i, k)
             B(k) == L(i + 1, k)
             p == PrevOf(a, r)
             x == NowKnown(a, r)
  <2>1. i + 1 \in 1 .. n /\ (i + 1) - 1 = i /\ i <= n /\ i \in 0 .. n /\ i + 1 \in 0 .. n
    BY <1>0
  <2>2. /\ Covers(a, ks, D, i)
        /\ \A k \in LegacyKeys : A(k) # {} => a[KeyBytes(k)] = KnownFrom(recs, A(k))
        /\ o(i) \in Seq(KvRecords) /\ Len(o(i)) = i
        /\ \A j \in 1 .. i : \E z : MigratedAs(recs, j, z, o(i)[j])
    BY <1>5, <2>1
  <2>3. /\ b = IF i + 1 \in D THEN Removed(a, r.key) ELSE Inserted(a, r.key, x)
        /\ o(i + 1) = Append(o(i), Written(r, x))
        /\ y \in LegacyKeys /\ r.key = KeyBytes(y) /\ r \in SoundRecs
        /\ (i + 1 \in D <=> HasFlag(r.flags, DELETED))
    BY <1>0, <1>1, <1>2, <2>1
  <2>4. \A k : NextLife(ks, D, i, k, A(k), B(k))
    BY LifeStep
  <2>5. \A k, l : KeyBytes(k) = KeyBytes(l) => k = l
    BY BytesBack
  <2>6. \A k \in LegacyKeys : KeyBytes(k) \in DOMAIN a <=> A(k) # {}
    <3> HIDE DEF a
    <3> QED
      BY <2>2, <2>5 DEF Covers
  <2>7. \A k \in LegacyKeys :
          /\ A(k) # {} => Sane(KnownFrom(recs, A(k))) /\ KnownFrom(recs, A(k)) # Unknown
          /\ B(k) # {} => Sane(KnownFrom(recs, B(k)))
    BY <1>3, <2>1
  <2> HIDE DEF L, r, a, b, ks, D
  <2>8. p = IF A(y) # {} THEN KnownFrom(recs, A(y)) ELSE Unknown
    BY <2>2, <2>3, <2>6 DEF PrevOf
  <2>9. Sane(p)
    BY <2>3, <2>7, <2>8, UnknownSane
  <2>10. /\ A(y) \in SUBSET (1 .. i) /\ \A k : k # y => B(k) = A(k)
         /\ i + 1 \in D => B(y) = {}
         /\ i + 1 \notin D => B(y) = A(y) \cup {i + 1}
    <3> HIDE DEF A, B
    <3> QED
      BY <2>4 DEF NextLife, y
  <2>11. i + 1 \notin D => x = KnownFrom(recs, B(y)) /\ Max(B(y)) = i + 1 /\ B(y) # {}
    <3> SUFFICES ASSUME i + 1 \notin D
                 PROVE  x = KnownFrom(recs, B(y)) /\ Max(B(y)) = i + 1 /\ B(y) # {}
      OBVIOUS
    <3> DEFINE P == A(y)
               Q == B(y)
               c == IF p = Unknown THEN r.revision ELSE p.create_revision
               e == p.version + 1
    <3>1. P \in SUBSET (1 .. i) /\ Q = P \cup {i + 1}
      BY <2>10
    <3>2. p = IF P # {} THEN KnownFrom(recs, P) ELSE Unknown
      BY <2>8
    <3>3. P # {} => KnownFrom(recs, P) # Unknown
      BY <2>3, <2>7
    <3>4. x = [create_revision |-> c, version |-> e, value |-> r.value, lease |-> LeaseOf(r)]
      BY <2>3 DEF NowKnown
    <3> HIDE DEF P, Q, p, x
    <3>5. /\ Q # {} /\ Max(Q) = i + 1 /\ Cardinality(Q) = Cardinality(P) + 1
          /\ Min(Q) = IF P = {} THEN i + 1 ELSE Min(P)
      BY <3>1, MinMaxGrow
    <3>6. r = recs[i + 1]
      BY DEF r
    <3>7. c = recs[Min(Q)].revision /\ e = Cardinality(Q)
      <4>1. CASE P = {}
        <5>1. p = Unknown /\ Cardinality(P) = 0
          BY <3>2, <4>1, FS_EmptySet
        <5>2. p.version = 0
          BY <5>1 DEF Unknown
        <5> QED
          BY <3>5, <3>6, <4>1, <5>1, <5>2
      <4>2. CASE P # {}
        <5>1. p # Unknown /\ p = KnownFrom(recs, P)
          BY <3>2, <3>3, <4>2
        <5>2. p.create_revision = recs[Min(P)].revision /\ p.version = Cardinality(P)
          BY <5>1 DEF KnownFrom
        <5> QED
          BY <3>5, <4>2, <5>1, <5>2
      <4> QED
        BY <4>1, <4>2
    <3>8. x = KnownFrom(recs, Q)
      BY <3>4, <3>5, <3>6, <3>7, Zenon DEF KnownFrom
    <3> QED
      BY <3>5, <3>8 DEF Q
  <2>12. Sane(x)
    <3>1. CASE i + 1 \in D
      BY <2>3, <2>9, <3>1 DEF NowKnown
    <3>2. CASE i + 1 \notin D
      BY <2>3, <2>7, <2>11, <3>2
    <3> QED
      BY <3>1, <3>2
  <2>13. MigratedAs(recs, i + 1, x, Written(r, x))
    <3>1. i + 1 \notin D => /\ x = KnownFrom(recs, LifeOf(recs, i + 1, y))
                            /\ Max(LifeOf(recs, i + 1, y)) = i + 1
      BY <2>11 DEF LifeOf, L, ks, D
    <3> HIDE DEF x
    <3> QED
      BY <2>12, <3>1 DEF MigratedAs, r, D, ks, y
  <2>14. Written(r, x) \in KvRecords
    <3> HIDE DEF x
    <3>1. KvOf(r, x) \in KeyValues /\ FlagOf(r, x) \in Nat
      BY <2>3, <2>12, KvOfIs
    <3>2. \E g \in Nat, z \in KeyValues : Written(r, x) = KvWalRecord(g, z)
      BY <3>1, Zenon DEF Written
    <3> QED
      BY <3>2 DEF KvRecords
  <2>15. /\ o(i + 1) \in Seq(KvRecords) /\ Len(o(i + 1)) = i + 1
         /\ \A j \in 1 .. (i + 1) : \E z : MigratedAs(recs, j, z, o(i + 1)[j])
    <3> DEFINE w == Written(r, x)
    <3> HIDE DEF w, x
    <3>1. o(i) \in Seq(KvRecords) /\ Len(o(i)) = i /\ w \in KvRecords /\ o(i + 1) = Append(o(i), w)
      BY <2>2, <2>3, <2>14 DEF w
    <3>2. /\ o(i + 1) \in Seq(KvRecords) /\ Len(o(i + 1)) = i + 1 /\ o(i + 1)[i + 1] = w
          /\ \A j \in 1 .. i : o(i + 1)[j] = o(i)[j]
      BY ONLY <3>1, i \in Nat
    <3>3. \A j \in 1 .. (i + 1) : j \in 1 .. i \/ j = i + 1
      OBVIOUS
    <3>4. MigratedAs(recs, i + 1, x, w)
      BY <2>13 DEF w
    <3> QED
      BY <2>2, <3>2, <3>3, <3>4
  <2>16. Covers(b, ks, D, i + 1)
    <3> HIDE DEF x
    <3> QED
      BY <2>2, <2>3, CoversStep
  <2>17. ASSUME NEW k \in LegacyKeys, B(k) # {}
         PROVE  b[KeyBytes(k)] = KnownFrom(recs, B(k))
    <3> HIDE DEF A, B, x, y, p
    <3>1. CASE k = y
      <4>1. i + 1 \notin D
        BY <2>10, <2>17, <3>1
      <4>2. b[KeyBytes(k)] = x
        BY <2>3, <3>1, <4>1, MapSteps
      <4> QED
        BY <2>11, <3>1, <4>1, <4>2
    <3>2. CASE k # y
      <4>1. B(k) = A(k)
        BY <2>10, <3>2
      <4>2. KeyBytes(k) \in DOMAIN a /\ KeyBytes(k) # r.key
        BY <2>3, <2>5, <2>6, <2>17, <3>2, <4>1
      <4>3. b[KeyBytes(k)] = a[KeyBytes(k)]
        <5>1. /\ Removed(a, r.key)[KeyBytes(k)] = a[KeyBytes(k)]
              /\ Inserted(a, r.key, x)[KeyBytes(k)] = a[KeyBytes(k)]
          BY <4>2, MapSteps
        <5> QED
          BY <2>3, <5>1
      <4> QED
        BY <2>2, <2>17, <4>1, <4>3
    <3> QED
      BY <3>1, <3>2
  <2> QED
    BY <2>15, <2>16, <2>17 DEF b
<1> HIDE DEF Ok
<1>6. T = Nat
  <2> HIDE DEF T
  <2>1. T \in SUBSET Nat
    BY DEF T
  <2> QED
    BY <1>4, <1>5, <2>1, InductionOnSet
<1>7. Ok(n)
  <2> HIDE DEF T
  <2>1. n \in T /\ n <= n
    BY <1>0, <1>6
  <2> QED
    BY <2>1 DEF T
<1> QED
  BY <1>7, Zenon DEF Ok, o

-----------------------------------------------------------------------------
(* Opening and verifying what the migration wrote.                          *)
LEMMA SomeRecord == \E rec : rec \in KvRecords
<1> DEFINE kv == [key |-> <<>>, value |-> <<>>, create_revision |-> 0, mod_revision |-> 0,
                  version |-> 0, lease |-> 0]
<1>1. Fits(0, LenGroups) /\ Fits(0, RevGroups)
  <2>1. LenGroups \in 1 .. RevGroups /\ RevGroups \in 1 .. RevGroups
    BY CodecAssumption
  <2> QED
    BY <2>1, FitsSmall
<1>2. <<>> \in Seq(Nat) /\ Len(<<>>) = 0 /\ 0 \in Nat
  OBVIOUS
<1>3. kv \in [key : Seq(Nat), value : Seq(Nat), create_revision : Nat,
              mod_revision : Nat, version : Nat, lease : Nat]
  BY <1>2
<1>4. /\ kv.key = <<>> /\ kv.value = <<>> /\ kv.create_revision = 0 /\ kv.mod_revision = 0
      /\ kv.version = 0 /\ kv.lease = 0
  OBVIOUS
<1> HIDE DEF kv
<1>5. kv \in KeyValues
  BY <1>1, <1>2, <1>3, <1>4 DEF KeyValues
<1>6. \E g \in Nat, z \in KeyValues : KvWalRecord(0, kv) = KvWalRecord(g, z)
  BY ONLY <1>2, <1>5, Zenon
<1>7. KvWalRecord(0, kv) \in KvRecords
  BY <1>6 DEF KvRecords
<1> QED
  BY <1>7

(* All records of an uncut log are read.                                    *)
LEMMA WholeFile ==
    ASSUME NEW recs \in Seq(KvRecords)
    PROVE  scan_kv_file(FileOf(recs), 0).recs = recs
<1>1. PICK rec : rec \in KvRecords
  BY SomeRecord
<1> DEFINE s == serialize(rec)
           file == FileOf(recs)
           l == Len(file)
<1>2. s \in Seq(Nat) /\ Len(s) \in Nat /\ Len(s) > 0 /\ file \in Seq(Nat)
  BY <1>1, RecordCells, FileType
<1> HIDE DEF s, file, l
<1>3. file = file \o SubSeq(s, 1, 0) /\ 0 \in 0 .. (Len(s) - 1)
  BY <1>2
<1>4. scan_kv_file(file, 0) = [recs |-> recs, cur |-> l, ok |-> TRUE]
  <2> DEFINE k0 == 0
  <2>1. file = FileOf(recs) \o SubSeq(serialize(rec), 1, k0)
        /\ k0 \in 0 .. (Len(serialize(rec)) - 1)
    BY <1>3 DEF s, file
  <2> HIDE DEF k0
  <2>2. scan_kv_file(file, 0) = [recs |-> recs, cur |-> Len(FileOf(recs)), ok |-> TRUE]
    BY ONLY recs \in Seq(KvRecords), <1>1, <2>1, ScanOfFile, ZenonT(60)
  <2> QED
    BY <2>2 DEF l, file
<1>5. [recs |-> recs, cur |-> l, ok |-> TRUE].recs = recs
  OBVIOUS
<1> QED
  BY <1>4, <1>5 DEF file

(* The record of the j-th legacy record, as it is read.                     *)
ReadAs(recs, j, r) ==
    /\ r \in Record /\ (r.deleted <=> j \in Dels(recs)) /\ r.key = RanksOf(recs)[j]
    /\ r.mod_revision = recs[j].revision /\ r.mod_revision # 0
    /\ j \notin Dels(recs) =>
          /\ ValueBytes(r.value) = recs[j].value
          /\ r.lease = LeaseOf(recs[j])
          /\ r.create_revision = recs[Min(LifeOf(recs, j, RanksOf(recs)[j]))].revision
          /\ r.version = Cardinality(LifeOf(recs, j, RanksOf(recs)[j]))
SeenAs(recs, j, s) ==
    /\ s.key = recs[j].key /\ s.revision = recs[j].revision
    /\ HasFlag(s.flags, DELETED) <=> j \in Dels(recs)

(* A migrated record as the store and as the verifier read it.              *)
LEMMA MigratedRead ==
    ASSUME NEW recs, Sound(recs), NEW j \in 1 .. Len(recs), NEW x, NEW w,
           MigratedAs(recs, j, x, w)
    PROVE  /\ ReadAs(recs, j, AsRecord(w, KeyValueDecode(w.kv_bytes)[1]))
           /\ SeenAs(recs, j, AsSeen(w))
<1> DEFINE rec == recs[j]
           k == RanksOf(recs)[j]
           f == FlagOf(rec, x)
           kv == KvOf(rec, x)
           L == LifeOf(recs, j, k)
           r == AsRecord(w, KeyValueDecode(w.kv_bytes)[1])
           s == AsSeen(w)
<1>1. /\ w = KvWalRecord(f, kv) /\ Sane(x)
      /\ j \notin Dels(recs) => x = KnownFrom(recs, L) /\ Max(L) = j
  BY DEF MigratedAs, Written
<1>2. rec \in SoundRecs /\ Keyed(recs)
  BY SoundIs
<1>3. k \in LegacyKeys /\ rec.key = KeyBytes(k) /\ (j \in Dels(recs) <=> HasFlag(rec.flags, DELETED))
  BY <1>2, KeyedIs
<1>4. k \in Keys
  BY <1>3, LegacyAssumption
<1>5. rec.revision \in 1 .. MaxLegacy /\ MaxLegacy \in Nat
  BY <1>2, SoundFields
<1>6. PICK v \in Values : x.value = ValueBytes(v)
  BY <1>1 DEF Sane
<1> HIDE DEF rec, k, f, kv, L
<1>7. /\ kv \in KeyValues /\ f \in Nat
      /\ HasFlag(f, DELETED) <=> HasFlag(rec.flags, DELETED)
      /\ kv.key = rec.key /\ kv.value = x.value /\ kv.create_revision = x.create_revision
      /\ kv.mod_revision = rec.revision /\ kv.version = x.version /\ kv.lease = x.lease
  BY <1>1, <1>2, KvOfIs DEF f, kv
<1>8. kv.key = KeyBytes(k) /\ kv.value = ValueBytes(v)
  BY <1>3, <1>6, <1>7
<1>9. /\ r \in Record
      /\ (r.deleted <=> HasFlag(f, DELETED)) /\ r.key = k /\ r.value = v
      /\ r.create_revision = kv.create_revision /\ r.mod_revision = kv.mod_revision
      /\ r.version = kv.version /\ r.lease = kv.lease
      /\ s.flags = f /\ s.key = kv.key /\ s.revision = kv.mod_revision
  <2>1. Taken(f, kv, k, v, r, s)
    BY ONLY <1>1, <1>4, v \in Values, <1>7, <1>8, RecordTaken, Zenon
  <2> HIDE DEF r, s
  <2> QED
    BY <2>1, Zenon DEF Taken
<1>10. rec.revision # 0
  <2> DEFINE y == rec.revision
  <2> HIDE DEF y
  <2>1. y \in 1 .. MaxLegacy
    BY <1>5 DEF y
  <2>2. y # 0
    BY <1>5, <2>1
  <2> QED
    BY <2>2 DEF y
<1> HIDE DEF r, s
<1>11. ASSUME j \notin Dels(recs)
       PROVE  /\ ValueBytes(r.value) = rec.value /\ r.lease = LeaseOf(rec)
              /\ r.create_revision = recs[Min(L)].revision /\ r.version = Cardinality(L)
  <2>1. x = KnownFrom(recs, L) /\ Max(L) = j
    BY <1>1, <1>11
  <2>2. /\ x.create_revision = recs[Min(L)].revision /\ x.version = Cardinality(L)
        /\ x.value = recs[Max(L)].value /\ x.lease = LeaseOf(recs[Max(L)])
    BY <2>1 DEF KnownFrom
  <2> QED
    BY <1>6, <1>7, <1>9, <2>1, <2>2 DEF rec
<1>12. ReadAs(recs, j, r)
  BY <1>3, <1>7, <1>9, <1>10, <1>11, Zenon DEF ReadAs, rec, k, L
<1>13. SeenAs(recs, j, s)
  BY <1>3, <1>7, <1>9, Zenon DEF SeenAs, rec
<1> QED
  BY <1>12, <1>13 DEF r, s

(* The opened table shows the lifetimes of the legacy log.                  *)
OpenedAs(recs, L, e) ==
    /\ e.create_revision = recs[Min(L)].revision /\ e.mod_revision = recs[Max(L)].revision
    /\ e.version = Cardinality(L)
    /\ e.kv_bytes = [create_revision |-> recs[Min(L)].revision, version |-> Cardinality(L)]
    /\ e.value \in Values /\ ValueBytes(e.value) = recs[Max(L)].value
    /\ e.lease = LeaseOf(recs[Max(L)])

(* Opening a migrated log gives every key its lifetime in the legacy log.   *)
LEMMA OpenMigrated ==
    ASSUME NEW recs, Sound(recs)
    PROVE  \A k \in Keys : LET m == OpenFile(migrate(recs))
                               L == LifeOf(recs, Len(recs), k) IN
              (Alive(m, k) <=> L # {}) /\ (L # {} => OpenedAs(recs, L, m[k]))
<1> DEFINE n == Len(recs)
           out == MigrateSteps(recs)[n].out
           R(w) == AsRecord(w, KeyValueDecode(w.kv_bytes)[1])
           log == [i \in DOMAIN out |-> R(out[i])]
           m == OpenFile(migrate(recs))
           ks == RanksOf(recs)
           D == Dels(recs)
<1>1. /\ out \in Seq(KvRecords) /\ Len(out) = n
      /\ \A j \in 1 .. n : \E x : MigratedAs(recs, j, x, out[j])
  BY MigrateIs
<1>2. n \in Nat /\ Keyed(recs)
  BY SoundIs DEF Keyed
<1>3. DOMAIN out = 1 .. n
  <2> HIDE DEF out
  <2> QED
    BY <1>1
<1>4. m = Replay(log)
  <2>1. migrate(recs) = FileOf(out)
    BY DEF migrate
  <2>2. scan_kv_file(FileOf(out), 0).recs = out
    BY <1>1, WholeFile
  <2> QED
    BY <2>1, <2>2, Zenon DEF OpenFile, ReplayAll
<1>5. \A j \in 1 .. n : ReadAs(recs, j, R(out[j]))
  BY <1>1, MigratedRead
<1> HIDE DEF out, R
<1>6. log = [i \in 1 .. n |-> R(out[i])] /\ \A j \in 1 .. n : R(out[j]) \in Record
  BY <1>3, <1>5 DEF ReadAs
<1>7. log \in Seq(Record) /\ Len(log) = n /\ DOMAIN log = 1 .. n /\ \A j \in 1 .. n : log[j] = R(out[j])
  <2> DEFINE S == Record
  <2> HIDE DEF S, log, n
  <2>1. n \in Nat /\ log = [i \in 1 .. n |-> R(out[i])] /\ \A j \in 1 .. n : R(out[j]) \in S
    BY <1>2, <1>6 DEF S
  <2>2. log \in Seq(S) /\ Len(log) = n /\ DOMAIN log = 1 .. n /\ \A j \in 1 .. n : log[j] = R(out[j])
    BY ONLY <2>1
  <2> QED
    BY <2>2 DEF S
<1>8. \A j \in 1 .. n : ReadAs(recs, j, log[j])
  BY <1>5, <1>7
<1> HIDE DEF log, ks, D
<1>9. \A j \in 1 .. n : KeysOf(log)[j] = ks[j] /\ (j \in DeletesOf(log) <=> j \in D)
  BY <1>7, <1>8 DEF KeysOf, DeletesOf, ReadAs, ks, D
<1>10. \A k : LifeTo(KeysOf(log), DeletesOf(log), n, k) = LifeTo(ks, D, n, k)
  BY <1>2, <1>9, LifeSame
<1>11. \A j \in 1 .. Len(log) : log[j].mod_revision # 0
  BY <1>7, <1>8 DEF ReadAs
<1>12. \A k \in Keys : Shows(m, log, LifeTo(ks, D, n, k), k)
  <2>1. n \in 0 .. Len(log) /\ m = ReplaySteps(log)[n]
    BY <1>2, <1>4, <1>7 DEF Replay
  <2> HIDE DEF m, n
  <2> QED
    BY <2>1, <1>7, <1>10, <1>11, ReplayShows
<1> SUFFICES ASSUME NEW k \in Keys
             PROVE  LET L == LifeOf(recs, n, k) IN
                    (Alive(m, k) <=> L # {}) /\ (L # {} => OpenedAs(recs, L, m[k]))
  BY DEF n, m
<1> DEFINE L == LifeOf(recs, n, k)
<1>13. L = LifeTo(ks, D, n, k)
  BY DEF LifeOf, ks, D
<1> HIDE DEF m, L
<1>14. Shows(m, log, L, k)
  BY <1>12, <1>13
<1>15. ASSUME L # {} PROVE OpenedAs(recs, L, m[k])
  <2> DEFINE last == Max(L)
  <2>1. last \in 1 .. n /\ ks[last] = k /\ last \notin D /\ LifeTo(ks, D, last, k) = L
    BY <1>2, <1>13, <1>15, LifeAtLast
  <2>2. ReadAs(recs, last, log[last])
    BY <1>8, <2>1
  <2>3. Min(L) \in 1 .. n
    <3>1. L \in SUBSET (1 .. n)
      BY <1>2, <1>13, LifeStep DEF NextLife
    <3> QED
      BY <1>2, <1>15, <3>1, MinMax
  <2>4. log[Min(L)].mod_revision = recs[Min(L)].revision
    BY <1>8, <2>3 DEF ReadAs
  <2> DEFINE lr == log[last]
  <2>5. /\ LifeOf(recs, last, RanksOf(recs)[last]) = L /\ last \notin Dels(recs)
    BY <2>1 DEF LifeOf, ks, D
  <2>6. /\ lr.mod_revision = recs[last].revision
        /\ ValueBytes(lr.value) = recs[last].value /\ lr.value \in Values
        /\ lr.lease = LeaseOf(recs[last])
        /\ lr.create_revision = recs[Min(L)].revision
        /\ lr.version = Cardinality(L)
    BY <2>2, <2>5 DEF ReadAs, Record
  <2>7. EntryOf(log, L, m[k])
    BY <1>14, <1>15 DEF Shows
  <2> HIDE DEF last
  <2>8. last = Max(L)
    BY DEF last
  <2> QED
    BY <2>4, <2>6, <2>7, <2>8, Zenon DEF EntryOf, OpenedAs
<1> QED
  BY <1>14, <1>15 DEF Shows, L

-----------------------------------------------------------------------------
(* Legacy logs of histories.                                                *)

(* Every tool reads a whole log.                                            *)
LEMMA LegacyLogRead ==
    ASSUME NEW recs \in Seq(LegacyRecs)
    PROVE  LET log == LegacyLog(recs) IN
           /\ read_old_records(log) = recs /\ waldoctor_scan(log) = recs
           /\ walverify_scan(log) = recs /\ walrecover_scan(log) = recs
<1> DEFINE log == LegacyLog(recs)
           rec == [revision |-> 0, flags |-> 0, key |-> <<>>, value |-> <<>>,
                   lease_id |-> <<>>]
           s == LegacySerialize(rec)
<1>1. rec \in LegacyRecs
  <2>1. <<>> \in Seq(Nat) /\ Len(<<>>) = 0 /\ 0 \in Nat
    OBVIOUS
  <2>2. rec \in [revision : Nat, flags : Nat, key : Seq(Nat), value : Seq(Nat),
                 lease_id : Seq(Nat)]
    BY <2>1
  <2>3. rec.lease_id = <<>> /\ rec.flags = 0
    OBVIOUS
  <2>4. ~HasFlag(0, HAS_LEASE)
    BY FlagsAre
  <2> HIDE DEF rec
  <2> QED
    BY <2>1, <2>2, <2>3, <2>4 DEF LegacyRecs
<1> HIDE DEF rec
<1>2. s \in Seq(Nat) /\ Len(s) > 0 /\ LegacySer \in [LegacyRecs -> Seq(Nat)]
  BY <1>1, LegacySerIs
<1>3. log \in Seq(Nat)
  <2>1. Joined(LegacySer, recs) \in Seq(Nat)
    BY ONLY <1>2, recs \in Seq(LegacyRecs), JoinedType, Zenon
  <2> QED
    BY <2>1, LegacyLogIs
<1> HIDE DEF s, log
<1>4. log = log \o SubSeq(s, 1, 0) /\ 0 < Len(s) /\ 0 \in Nat
  BY <1>2, <1>3
<1>5. \A t : LegacyReader(t, log) => t[0] = recs
  <2> SUFFICES ASSUME NEW t, LegacyReader(t, log) PROVE t[0] = recs
    OBVIOUS
  <2>1. \A q \in Seq(LegacyRecs), r \in LegacyRecs, j \in Nat : \A l, u :
           (/\ j < Len(LegacySerialize(r))
            /\ l = LegacyLog(q) \o SubSeq(LegacySerialize(r), 1, j)
            /\ LegacyReader(u, l)) => u[0] = q
    BY ONLY LegacyWholeRead, Zenon
  <2> DEFINE k0 == 0
  <2>2. k0 \in Nat /\ k0 < Len(LegacySerialize(rec))
        /\ log = LegacyLog(recs) \o SubSeq(LegacySerialize(rec), 1, k0)
    BY <1>4 DEF s, log
  <2> HIDE DEF k0
  <2>3. t[0] = recs
    BY ONLY recs \in Seq(LegacyRecs), <1>1, <2>1, <2>2, LegacyReader(t, log), Zenon
  <2> QED
    BY <2>3
<1>6. LegacyReader(ReadOld(log), log) /\ \A tool : LegacyReader(ScanLegacy(tool, log), log)
  BY <1>3, LegacyReaders, Zenon
<1> QED
  BY <1>5, <1>6, Zenon
    DEF read_old_records, waldoctor_scan, walverify_scan, walrecover_scan, log

(* The records of a history are sound and have its lifetimes.               *)
LEMMA HistoryRecord ==
    ASSUME NEW h \in Seq(LegacyWrites), Len(h) <= MaxLegacy, NEW j \in 1 .. Len(h)
    PROVE  LET r == LegacyRecords(h)[j] IN
           /\ r \in SoundRecs /\ r.revision = j /\ r.key = KeyBytes(h[j].key)
           /\ r.value = ValueBytes(h[j].value) /\ LeaseOf(r) = h[j].lease
           /\ HasFlag(r.flags, DELETED) <=> h[j].deleted
           /\ HasFlag(r.flags, IS_CREATE) /\ ~h[j].deleted =>
                 ~Alive(TableAfter(SubSeq(h, 1, j - 1)), h[j].key)
           /\ h[j].key \in LegacyKeys /\ h[j].value \in Values
<1> DEFINE recs == LegacyRecords(h)
           r == recs[j]
           f == LegacyFlag(h, j)
           w == h[j]
           lid == IF w.lease = 0 THEN <<>> ELSE <<w.lease>>
           alive == Alive(TableAfter(SubSeq(h, 1, j - 1)), w.key)
<1>1. recs \in Seq(LegacyRecs) /\ Len(recs) = Len(h)
  BY LegacyRecordsAre
<1>2. /\ r.revision = j /\ r.flags = f /\ r.key = KeyBytes(w.key)
      /\ r.value = ValueBytes(w.value) /\ r.lease_id = lid
  BY LegacyRecordsAre, Zenon
<1>3. w \in LegacyWrites
  OBVIOUS
<1>4. /\ w.deleted \in BOOLEAN /\ w.key \in LegacyKeys /\ w.value \in Values
      /\ w.lease \in {0, 1}
  BY <1>3, LegacyWriteIs
<1>5. f \in {0, 1, 2, 4, 6} /\ (f = 1 <=> w.deleted) /\ (f \in {4, 6} <=> w.lease # 0)
  BY LegacyFlagIs, Zenon
<1>6. r \in LegacyRecs
  <2> HIDE DEF recs
  <2> QED
    BY <1>1
<1>7. f \in {2, 6} /\ ~w.deleted => ~alive
  <2> SUFFICES ASSUME ~w.deleted, alive PROVE f \notin {2, 6}
    OBVIOUS
  <2>1. f = LeaseFlag(w.lease) + 0
    BY DEF LegacyFlag
  <2>2. LeaseFlag(w.lease) \in {0, 4}
    BY DEF LeaseFlag, HAS_LEASE
  <2> HIDE DEF f
  <2> QED
    BY <2>1, <2>2
<1> HIDE DEF r, f, w, alive
<1>8. /\ HasFlag(f, HAS_LEASE) <=> f \in {4, 6}
      /\ HasFlag(f, DELETED) <=> f = 1
      /\ HasFlag(f, IS_CREATE) <=> f \in {2, 6}
  BY <1>5, FlagsAre, Zenon
<1>9. lid \in {<<>>, <<1>>}
  BY <1>4
<1>10. LeaseOf(r) = w.lease
  <2>1. CASE w.lease = 0
    BY <1>2, <1>5, <1>8, <2>1 DEF LeaseOf
  <2>2. CASE w.lease # 0
    <3>1. lid = <<w.lease>> /\ HasFlag(r.flags, HAS_LEASE)
      BY <1>2, <1>5, <1>8, <2>2
    <3>2. <<w.lease>>[1] = w.lease
      OBVIOUS
    <3> QED
      BY <1>2, <3>1, <3>2 DEF LeaseOf
  <2> QED
    BY <2>1, <2>2
<1>11. j \in 1 .. MaxLegacy
  BY BoundsAssumption
<1>12. r \in SoundRecs
  BY <1>2, <1>4, <1>5, <1>6, <1>9, <1>11 DEF SoundRecs
<1> QED
  BY <1>2, <1>4, <1>5, <1>7, <1>8, <1>10, <1>12, Zenon DEF r, w, alive

(* The records of a history are sound and have its lifetimes.               *)
LEMMA HistorySound ==
    ASSUME NEW h \in Seq(LegacyWrites), Len(h) <= MaxLegacy
    PROVE  /\ Sound(LegacyRecords(h)) /\ Len(LegacyRecords(h)) = Len(h)
           /\ \A k : LifeOf(LegacyRecords(h), Len(h), k) = Lifetime(h, k)
           /\ \A k : Lifetime(h, k) \in SUBSET (1 .. Len(h))
<1> DEFINE recs == LegacyRecords(h)
           n == Len(h)
<1>1. n \in Nat /\ Len(recs) = n /\ recs \in Seq(LegacyRecs) /\ DOMAIN h = 1 .. n
  BY LegacyRecordsAre
<1>2. \A j \in 1 .. n :
         /\ recs[j] \in SoundRecs /\ recs[j].key = KeyBytes(h[j].key)
         /\ HasFlag(recs[j].flags, DELETED) <=> h[j].deleted
  BY HistoryRecord, Zenon
<1> HIDE DEF recs
<1>3. recs \in Seq(SoundRecs) /\ DOMAIN recs = 1 .. n
  <2> DEFINE S == SoundRecs
  <2> HIDE DEF S, n
  <2>1. n \in Nat /\ Len(recs) = n /\ recs \in Seq(LegacyRecs) /\ \A j \in 1 .. n : recs[j] \in S
    BY <1>1, <1>2 DEF S
  <2>2. recs = [j \in 1 .. n |-> recs[j]] /\ DOMAIN recs = 1 .. n
    BY ONLY <2>1
  <2>3. recs \in Seq(S)
    BY ONLY <2>1, <2>2
  <2> QED
    BY <2>2, <2>3 DEF S
<1>4. ASSUME NEW i \in 0 .. n, NEW k PROVE Cardinality(LifeOf(recs, i, k)) <= MaxLegacy
  <2>1. LifeOf(recs, i, k) \in SUBSET (1 .. i) /\ i \in Nat
    BY <1>1, LifeStep DEF LifeOf, NextLife
  <2>2. Cardinality(LifeOf(recs, i, k)) \in 0 .. i
    BY <2>1, MinMax
  <2> QED
    BY <1>1, <2>2, BoundsAssumption
<1>5. Sound(recs)
  BY <1>1, <1>3, <1>4 DEF Sound
<1>6. \A j \in 1 .. n : RanksOf(recs)[j] = h[j].key /\ (j \in Dels(recs) <=> h[j].deleted)
  BY <1>2, <1>3, BytesBack DEF RanksOf, Dels
<1>7. ASSUME NEW k PROVE LifeOf(recs, n, k) = Lifetime(h, k)
  <2>1. \A j \in 1 .. n : \A l \in (j + 1) .. n : l \in 1 .. n
    BY <1>1
  <2> QED
    BY ONLY <1>1, <1>6, <2>1, Zenon DEF LifeOf, LifeTo, Lifetime, n
<1>8. ASSUME NEW k PROVE Lifetime(h, k) \in SUBSET (1 .. n)
  BY <1>1 DEF Lifetime
<1> QED
  BY <1>1, <1>5, <1>7, <1>8 DEF recs

(* Opening a migrated log gives the state the legacy history describes      *)
(* (wal_migrate, then Store::open).                                         *)
THEOREM MigrationIsFaithful == Spec => []MigrationFaithful
<1>1. InputOK => MigrationFaithful
  <2> SUFFICES ASSUME InputOK, input.kind = "legacy" PROVE MigrationFaithful
    BY DEF MigrationFaithful
  <2>1. PICK h \in SeqOf(LegacyWrites, MaxLegacy) :
          input = [kind |-> "legacy", history |-> h, log |-> LegacyLog(LegacyRecords(h))]
    BY DEF InputOK
  <2> DEFINE recs == LegacyRecords(h)
             n == Len(h)
             m == OpenFile(migrate(recs))
  <2>2. h \in Seq(LegacyWrites) /\ n <= MaxLegacy
    <3>1. LegacyKeys \in SUBSET Keys /\ {0, 1} \in SUBSET Nat /\ MaxLegacy \in Nat
      BY LegacyAssumption, BoundsAssumption
    <3> QED
      BY <3>1, HistoriesAre DEF LegacyWrites
  <2>3. /\ Sound(recs) /\ Len(recs) = n /\ recs \in Seq(LegacyRecs)
        /\ \A k : LifeOf(recs, n, k) = Lifetime(h, k)
        /\ \A k : Lifetime(h, k) \in SUBSET (1 .. n)
    BY <2>2, HistorySound, LegacyRecordsAre
  <2>4. \A j \in 1 .. n :
          /\ recs[j].revision = j /\ recs[j].value = ValueBytes(h[j].value)
          /\ LeaseOf(recs[j]) = h[j].lease /\ h[j].value \in Values
    BY <2>2, HistoryRecord, Zenon
  <2>5. input.history = h /\ input.log = LegacyLog(recs)
    BY <2>1
  <2>6. read_old_records(LegacyLog(recs)) = recs
    BY <2>3, LegacyLogRead
  <2>7. \A k \in Keys : LET L == Lifetime(h, k) IN
          (Alive(m, k) <=> L # {}) /\ (L # {} => OpenedAs(recs, L, m[k]))
    BY <2>3, OpenMigrated
  <2>8. n \in Nat
    BY <2>2
  <2> HIDE DEF recs, m
  <2>9. ASSUME NEW k \in Keys, Lifetime(h, k) # {}
        PROVE  LET life == Lifetime(h, k) IN
               /\ m[k].create_revision = Min(life)
               /\ m[k].mod_revision = Max(life)
               /\ m[k].version = Cardinality(life)
               /\ m[k].kv_bytes = [create_revision |-> Min(life),
                                   version |-> Cardinality(life)]
               /\ m[k].value = h[Max(life)].value
               /\ m[k].lease = h[Max(life)].lease
    <3> DEFINE L == Lifetime(h, k)
               e == m[k]
    <3>1. L # {} /\ L \in SUBSET (1 .. n) /\ OpenedAs(recs, L, e)
      BY <2>3, <2>7, <2>9
    <3> HIDE DEF L, e
    <3>2. Min(L) \in 1 .. n /\ Max(L) \in 1 .. n
      BY <2>8, <3>1, MinMax
    <3>3. /\ recs[Min(L)].revision = Min(L) /\ recs[Max(L)].revision = Max(L)
          /\ recs[Max(L)].value = ValueBytes(h[Max(L)].value)
          /\ LeaseOf(recs[Max(L)]) = h[Max(L)].lease /\ h[Max(L)].value \in Values
      BY <2>4, <3>2
    <3>4. e.value = h[Max(L)].value
      <4>1. e.value \in Values /\ ValueBytes(e.value) = ValueBytes(h[Max(L)].value)
        BY <3>1, <3>3 DEF OpenedAs
      <4> QED
        BY <3>3, <4>1, BytesBack
    <3> QED
      BY <3>1, <3>3, <3>4, Zenon DEF OpenedAs, L, e
  <2>10. Describes(h, m)
    BY <2>7, <2>9, Zenon DEF Describes
  <2> QED
    BY <2>5, <2>6, <2>10 DEF MigrationFaithful, m
<1> QED
  BY <1>1, InputPicked, PTL

-----------------------------------------------------------------------------
(* The table of a history has the keys with a lifetime.                     *)
HistKeys(h) == [j \in DOMAIN h |-> h[j].key]
HistDels(h) == {j \in DOMAIN h : h[j].deleted}

(* After a commit a written key is alive unless it was deleted.             *)
LEMMA CommitLives ==
    ASSUME NEW m \in Tables, NEW w \in Write, NEW rev \in Nat, rev # 0
    PROVE  \A k \in Keys : Alive(Commit(m, w, rev), k) <=>
              IF w.key = k THEN ~w.deleted ELSE Alive(m, k)
<1> SUFFICES ASSUME NEW k \in Keys
             PROVE  Alive(Commit(m, w, rev), k) <=>
                       IF w.key = k THEN ~w.deleted ELSE Alive(m, k)
  OBVIOUS
<1> DEFINE y == w.key
<1>1. y \in Keys /\ w.value \in Values /\ w.lease \in Nat /\ w.deleted \in BOOLEAN
  BY DEF Write
<1>2. CASE w.deleted
  <2>1. Commit(m, w, rev) = IF Alive(m, y) THEN [m EXCEPT ![y].delete_revision = rev] ELSE m
    BY <1>2 DEF Commit, ApplyDelete
  <2>2. CASE Alive(m, y)
    <3> DEFINE m2 == [m EXCEPT ![y].delete_revision = rev]
    <3>1. /\ m2[y].delete_revision = rev /\ \A z \in Keys : z # y => m2[z] = m[z]
      BY <1>1 DEF Tables, KeyState
    <3>2. Commit(m, w, rev) = m2
      BY <2>1, <2>2
    <3> HIDE DEF m2
    <3> QED
      BY <1>2, <3>1, <3>2 DEF Alive, Present
  <2>3. CASE ~Alive(m, y)
    BY <1>2, <2>1, <2>3
  <2> QED
    BY <2>2, <2>3
<1>3. CASE ~w.deleted
  <2> DEFINE kv == [create_revision |-> NextCreate(m, y, rev), version |-> NextVersion(m, y)]
             x == PutEntry(m, y, w.value, w.lease, rev, kv)
             m2 == [m EXCEPT ![y] = x]
  <2>1. Commit(m, w, rev) = m2
    BY <1>3 DEF Commit, ApplyPut
  <2>2. x.version = NextVersion(m, y) /\ x.delete_revision = 0
    <3> HIDE DEF kv, y
    <3> QED
      BY DEF PutEntry
  <2>3. NextVersion(m, y) # 0
    <3>1. m[y].version \in Nat
      BY <1>1 DEF Tables, KeyState
    <3>2. m[y].version + 1 # 0
      BY <3>1
    <3> QED
      BY <3>2 DEF NextVersion
  <2> HIDE DEF x
  <2>4. m2[y] = x /\ \A z \in Keys : z # y => m2[z] = m[z]
    <3> HIDE DEF y
    <3> QED
      BY <1>1 DEF Tables
  <2> HIDE DEF m2
  <2> QED
    BY <1>3, <2>1, <2>2, <2>3, <2>4 DEF Alive, Present
<1> QED
  BY <1>1, <1>2, <1>3

(* A commit leaves the other keys alone and gives a put key its new entry.  *)
LEMMA CommitEntry ==
    ASSUME NEW m \in Tables, NEW w \in Write, NEW rev \in Nat
    PROVE  LET b == Commit(m, w, rev) IN
           /\ \A k \in Keys : k # w.key => b[k] = m[k]
           /\ ~w.deleted =>
                 /\ b[w.key].create_revision = IF Alive(m, w.key) THEN m[w.key].create_revision
                                               ELSE rev
                 /\ b[w.key].mod_revision = rev
                 /\ b[w.key].version = IF Alive(m, w.key) THEN m[w.key].version + 1 ELSE 1
                 /\ b[w.key].value = w.value /\ b[w.key].lease = w.lease
<1> DEFINE y == w.key
           b == Commit(m, w, rev)
<1>1. y \in Keys
  BY DEF Write
<1>2. CASE w.deleted
  <2>1. b = IF Alive(m, y) THEN [m EXCEPT ![y].delete_revision = rev] ELSE m
    BY <1>2 DEF Commit, ApplyDelete
  <2> QED
    BY <1>2, <2>1 DEF Tables
<1>3. CASE ~w.deleted
  <2> DEFINE kv == [create_revision |-> NextCreate(m, y, rev), version |-> NextVersion(m, y)]
             x == PutEntry(m, y, w.value, w.lease, rev, kv)
  <2>1. b = [m EXCEPT ![y] = x]
    BY <1>3 DEF Commit, ApplyPut
  <2>2. /\ x.create_revision = NextCreate(m, y, rev) /\ x.mod_revision = rev
        /\ x.version = NextVersion(m, y) /\ x.value = w.value /\ x.lease = w.lease
    <3> HIDE DEF kv, y
    <3> QED
      BY DEF PutEntry
  <2> HIDE DEF x
  <2>3. b[y] = x /\ \A z \in Keys : z # y => b[z] = m[z]
    <3> HIDE DEF y, b
    <3> QED
      BY <1>1, <2>1 DEF Tables
  <2> HIDE DEF b
  <2> QED
    BY <2>2, <2>3, Zenon DEF NextCreate, NextVersion, b
<1> QED
  BY <1>2, <1>3

(* The entry of a live key is that of the writes of its lifetime.           *)
WrittenAs(h, L, e) ==
    /\ e.create_revision = Min(L) /\ e.mod_revision = Max(L) /\ e.version = Cardinality(L)
    /\ e.value = h[Max(L)].value /\ e.lease = h[Max(L)].lease
Keeps(m, h, L, k) == (Alive(m, k) <=> L # {}) /\ (L # {} => WrittenAs(h, L, m[k]))

(* After a history the keys with a lifetime are alive, with its writes.     *)
LEMMA TableKeeps ==
    ASSUME NEW h \in Seq(Write)
    PROVE  \A k \in Keys :
              Keeps(TableAfter(h), h, LifeTo(HistKeys(h), HistDels(h), Len(h), k), k)
<1> DEFINE n == Len(h)
           ks == HistKeys(h)
           D == HistDels(h)
           m(i) == TableSteps(h)[i]
           L(i, k) == LifeTo(ks, D, i, k)
           Ok(i) == Consistent(m(i)) /\ \A k \in Keys : Keeps(m(i), h, L(i, k), k)
           T == {i \in Nat : i <= n => Ok(i)}
<1>0. n \in Nat /\ DOMAIN h = 1 .. n /\ \A j \in 1 .. n : h[j] \in Write
  OBVIOUS
<1>1. m(0) = EmptyTable /\ \A i \in 1 .. n : m(i) = Commit(m(i - 1), h[i], i)
  BY TableStepsDef
<1>2. \A j \in 1 .. n : ks[j] = h[j].key /\ (j \in D <=> h[j].deleted)
  BY <1>0 DEF HistKeys, HistDels
<1> HIDE DEF m, ks, D
<1>3. 0 \in T
  <2>0. Consistent(EmptyTable)
    BY EmptyTableType DEF Consistent, EmptyTable, Alive, Present, Vacant
  <2>1. Consistent(m(0))
    BY <1>1, <2>0
  <2>2. \A k \in Keys : ~Alive(m(0), k)
    BY <1>1 DEF EmptyTable, Alive, Present, Vacant
  <2>3. \A k : L(0, k) = {}
    BY LifeNone
  <2> HIDE DEF L
  <2>4. \A k \in Keys : Keeps(m(0), h, L(0, k), k)
    BY <2>2, <2>3 DEF Keeps
  <2> QED
    BY <2>1, <2>4
<1>4. ASSUME NEW i \in Nat, i \in T PROVE i + 1 \in T
  <2> SUFFICES ASSUME i + 1 <= n PROVE Ok(i + 1)
    OBVIOUS
  <2> DEFINE w == h[i + 1]
             a == m(i)
             b == m(i + 1)
  <2>1. i + 1 \in 1 .. n /\ (i + 1) - 1 = i /\ i <= n /\ i + 1 \in Nat /\ i + 1 # 0
    BY <1>0
  <2>2. Consistent(a) /\ \A k \in Keys : Keeps(a, h, L(i, k), k)
    BY <1>4, <2>1
  <2>3. w \in Write /\ b = Commit(a, w, i + 1) /\ ks[i + 1] = w.key
        /\ (i + 1 \in D <=> w.deleted)
    BY <1>0, <1>1, <1>2, <2>1
  <2>4. a \in Tables
    BY <2>2 DEF Consistent
  <2>5. Consistent(b)
    BY <2>1, <2>2, <2>3, CommitConsistent
  <2>6. ASSUME NEW k \in Keys PROVE Keeps(b, h, L(i + 1, k), k)
    <3> DEFINE A == L(i, k)
               B == L(i + 1, k)
    <3>1. /\ A \in SUBSET (1 .. i)
          /\ w.key # k => B = A
          /\ w.key = k /\ w.deleted => B = {}
          /\ w.key = k /\ ~w.deleted => B = A \cup {i + 1}
      <4>1. NextLife(ks, D, i, k, A, B)
        BY LifeStep
      <4> HIDE DEF A, B, w
      <4> QED
        BY <2>3, <4>1 DEF NextLife
    <3>2. Keeps(a, h, A, k)
      BY <2>2
    <3> HIDE DEF L, A, B, w, a, b
    <3>3. Alive(b, k) <=> IF w.key = k THEN ~w.deleted ELSE Alive(a, k)
      BY <2>1, <2>3, <2>4, CommitLives
    <3>4. CASE w.key # k
      <4>1. b[k] = a[k] /\ B = A
        BY <2>1, <2>3, <2>4, <3>1, <3>4, CommitEntry
      <4> QED
        BY <3>2, <3>3, <3>4, <4>1 DEF Keeps, B
    <3>5. CASE w.key = k /\ w.deleted
      <4>1. ~Alive(b, k) /\ B = {}
        BY <3>1, <3>3, <3>5
      <4> QED
        BY <4>1 DEF Keeps, B
    <3>6. CASE w.key = k /\ ~w.deleted
      <4>1. /\ Alive(b, k)
            /\ b[k].create_revision = IF Alive(a, k) THEN a[k].create_revision ELSE i + 1
            /\ b[k].mod_revision = i + 1
            /\ b[k].version = IF Alive(a, k) THEN a[k].version + 1 ELSE 1
            /\ b[k].value = w.value /\ b[k].lease = w.lease
        BY <2>1, <2>3, <2>4, <3>3, <3>6, CommitEntry
      <4>2. B = A \cup {i + 1}
        BY <3>1, <3>6
      <4>3. /\ B # {} /\ Max(B) = i + 1 /\ Cardinality(B) = Cardinality(A) + 1
            /\ Min(B) = IF A = {} THEN i + 1 ELSE Min(A)
        BY <3>1, <4>2, MinMaxGrow
      <4>4. A = {} => Cardinality(A) + 1 = 1
        BY FS_EmptySet
      <4>5. w = h[i + 1]
        BY DEF w
      <4>6. CASE A = {}
        <5>1. ~Alive(a, k)
          BY <3>2, <4>6 DEF Keeps
        <5>2. WrittenAs(h, B, b[k])
          BY <4>1, <4>3, <4>4, <4>5, <4>6, <5>1, Zenon DEF WrittenAs
        <5> QED
          BY <4>1, <4>3, <5>2 DEF Keeps, B
      <4>7. CASE A # {}
        <5>1. Alive(a, k) /\ WrittenAs(h, A, a[k])
          BY <3>2, <4>7 DEF Keeps
        <5>2. WrittenAs(h, B, b[k])
          BY <4>1, <4>3, <4>5, <4>7, <5>1, Zenon DEF WrittenAs
        <5> QED
          BY <4>1, <4>3, <5>2 DEF Keeps, B
      <4> QED
        BY <4>6, <4>7
    <3> QED
      BY <3>4, <3>5, <3>6
  <2> HIDE DEF L
  <2> QED
    BY <2>5, <2>6 DEF b
<1> HIDE DEF Ok
<1>5. T = Nat
  <2> HIDE DEF T
  <2>1. T \in SUBSET Nat
    BY DEF T
  <2> QED
    BY <1>3, <1>4, <2>1, InductionOnSet
<1>6. Ok(n)
  <2> HIDE DEF T
  <2>1. n \in T /\ n <= n
    BY <1>0, <1>5
  <2> QED
    BY <2>1 DEF T
<1> QED
  BY <1>6, Zenon DEF Ok, m, ks, D, TableAfter

(* After a history the keys with a lifetime are alive.                      *)
LEMMA TableLives ==
    ASSUME NEW h \in Seq(Write)
    PROVE  \A k \in Keys : Alive(TableAfter(h), k) <=>
              LifeTo(HistKeys(h), HistDels(h), Len(h), k) # {}
  BY TableKeeps DEF Keeps

-----------------------------------------------------------------------------
(* Compares.                                                                *)

(* A compared field is the one the history gives the key.                   *)
LEMMA CompareFieldFound ==
    ASSUME NEW h, NEW m, NEW k, NEW t \in 0 .. 4, Keeps(m, h, Lifetime(h, k), k)
    PROVE  CompareField(m, k, t) = Found(h, k, t)
<1> DEFINE L == Lifetime(h, k)
<1>1. CASE L = {}
  <2>1. ~Alive(m, k)
    BY <1>1 DEF Keeps
  <2>2. CompareField(m, k, t) = Absent(t)
    BY <2>1 DEF CompareField, Absent
  <2>3. Found(h, k, t) = Absent(t)
    BY <1>1 DEF Found
  <2> QED
    BY <2>2, <2>3
<1>2. CASE L # {}
  <2> DEFINE e == m[k]
  <2>1. Alive(m, k) /\ WrittenAs(h, L, e)
    BY <1>2 DEF Keeps
  <2>2. CompareField(m, k, t) =
          <<e.version, e.create_revision, e.mod_revision, e.value, e.lease>>[t + 1]
    BY <2>1 DEF CompareField
  <2>3. Found(h, k, t) = CASE t = 1 -> Min(L)
                           [] t = 2 -> Max(L)
                           [] t = 3 -> h[Max(L)].value
                           [] t = 4 -> h[Max(L)].lease
                           [] OTHER -> Cardinality(L)
    BY <1>2 DEF Found
  <2>4. t = 0 \/ t = 1 \/ t = 2 \/ t = 3 \/ t = 4
    OBVIOUS
  <2> HIDE DEF L, e
  <2>5. CASE t = 0
    BY <2>1, <2>2, <2>3, <2>5 DEF WrittenAs
  <2>6. CASE t = 1
    BY <2>1, <2>2, <2>3, <2>6 DEF WrittenAs
  <2>7. CASE t = 2
    BY <2>1, <2>2, <2>3, <2>7 DEF WrittenAs
  <2>8. CASE t = 3
    BY <2>1, <2>2, <2>3, <2>8 DEF WrittenAs
  <2>9. CASE t = 4
    BY <2>1, <2>2, <2>3, <2>9 DEF WrittenAs
  <2> QED
    BY <2>4, <2>5, <2>6, <2>7, <2>8, <2>9
<1> QED
  BY <1>1, <1>2

(* After every history of puts and deletes, for every set of keys and       *)
(* values, a compare is answered from the writes of the key's current       *)
(* lifetime alone (eval_compare).                                           *)
THEOREM ComparesAreExact == Spec => []CompareExact
<1>1. InputOK => CompareExact
  <2> SUFFICES ASSUME InputOK, input.kind = "legacy", NEW cmp \in Compares
               PROVE  eval_compare(TableAfter(input.history), cmp)
                         <=> CompareHolds(input.history, cmp)
    BY DEF CompareExact
  <2>1. PICK h \in SeqOf(LegacyWrites, MaxLegacy) :
          input = [kind |-> "legacy", history |-> h, log |-> LegacyLog(LegacyRecords(h))]
    BY DEF InputOK
  <2> DEFINE m == TableAfter(h)
             k == cmp.key
             t == target_from_i32(cmp.target)
             x == Found(h, k, t)
             e == IF cmp.union = t THEN cmp.expected ELSE Absent(t)
  <2>2. h \in Seq(Write) /\ input.history = h
    <3>1. LegacyKeys \in SUBSET Keys /\ {0, 1} \in SUBSET Nat /\ MaxLegacy \in Nat
      BY LegacyAssumption, BoundsAssumption
    <3>2. h \in Seq(Write)
      BY <3>1, HistoriesAre DEF LegacyWrites
    <3> QED
      BY <2>1, <3>2
  <2>3. k \in Keys /\ t \in 0 .. 4 /\ t = (IF cmp.target > 4 THEN 0 ELSE cmp.target)
        /\ cmp.result \in 0 .. 4
    BY LegacyAssumption DEF Compares, target_from_i32
  <2>4. Lifetime(h, k) = LifeTo(HistKeys(h), HistDels(h), Len(h), k)
    <3> DEFINE n == Len(h)
    <3>1. DOMAIN h = 1 .. n /\ \A j \in 1 .. n : \A l \in (j + 1) .. n : l \in 1 .. n
      BY <2>2
    <3>2. \A j \in 1 .. n : HistKeys(h)[j] = h[j].key /\ (j \in HistDels(h) <=> h[j].deleted)
      BY <3>1 DEF HistKeys, HistDels
    <3> QED
      BY ONLY <3>1, <3>2, Zenon DEF LifeTo, Lifetime, n
  <2>5. Keeps(m, h, Lifetime(h, k), k)
    BY <2>2, <2>3, <2>4, TableKeeps
  <2>6. CompareField(m, k, t) = x
    BY <2>3, <2>5, CompareFieldFound
  <2>7. eval_compare(m, cmp) = CmpOrd(result_from_i32(cmp.result), x, e)
    BY <2>6 DEF eval_compare, Absent
  <2>8. CompareHolds(h, cmp) = CASE cmp.result = 1 -> x > e
                                 [] cmp.result = 2 -> x < e
                                 [] cmp.result = 3 -> x # e
                                 [] OTHER          -> x = e
    <3> HIDE DEF t
    <3> QED
      BY <2>3 DEF CompareHolds
  <2> HIDE DEF m, x, e
  <2>9. CmpOrd(result_from_i32(cmp.result), x, e) <=>
           CASE cmp.result = 1 -> x > e
             [] cmp.result = 2 -> x < e
             [] cmp.result = 3 -> x # e
             [] OTHER          -> x = e
    <3>1. cmp.result = 0 \/ cmp.result = 1 \/ cmp.result = 2 \/ cmp.result = 3
          \/ cmp.result = 4
      BY <2>3
    <3> QED
      BY <3>1 DEF CmpOrd, result_from_i32, Equal, Greater, Less, NotEqual
  <2> QED
    BY <2>2, <2>7, <2>8, <2>9 DEF m
<1> QED
  BY <1>1, InputPicked, PTL

-----------------------------------------------------------------------------
(* Its log flags the first put of every lifetime, and no other.             *)
LEMMA HistoryCreates ==
    ASSUME NEW h \in Seq(LegacyWrites), h \in Seq(Write), Len(h) <= MaxLegacy
    PROVE  Creates(LegacyRecords(h))
<1> DEFINE recs == LegacyRecords(h)
           n == Len(h)
<1>1. n \in Nat /\ Len(recs) = n /\ recs \in Seq(LegacyRecs)
  BY LegacyRecordsAre
<1>2. DOMAIN h = 1 .. n /\ DOMAIN recs = 1 .. n
  <2> HIDE DEF recs
  <2> QED
    BY <1>1
<1>3. \A j \in 1 .. n :
         /\ recs[j].key = KeyBytes(h[j].key) /\ h[j].key \in LegacyKeys
         /\ HasFlag(recs[j].flags, DELETED) <=> h[j].deleted
         /\ HasFlag(recs[j].flags, IS_CREATE) /\ ~h[j].deleted =>
               ~Alive(TableAfter(SubSeq(h, 1, j - 1)), h[j].key)
  BY HistoryRecord, Zenon
<1> HIDE DEF recs
<1>4. \A j \in 1 .. n : RanksOf(recs)[j] = h[j].key /\ (j \in Dels(recs) <=> h[j].deleted)
  BY <1>2, <1>3, BytesBack DEF RanksOf, Dels
<1>5. ASSUME NEW j \in 1 .. n, HasFlag(recs[j].flags, IS_CREATE), j \notin Dels(recs)
      PROVE  LifeOf(recs, j - 1, RanksOf(recs)[j]) = {}
  <2> DEFINE g == SubSeq(h, 1, j - 1)
             i == j - 1
             y == h[j].key
  <2>1. i \in Nat /\ i <= n /\ g \in Seq(Write) /\ Len(g) = i /\ DOMAIN g = 1 .. i
        /\ \A l \in 1 .. i : g[l] = h[l] /\ l \in 1 .. n
    BY <1>1
  <2>2. ~Alive(TableAfter(g), y) /\ y \in Keys
    BY <1>3, <1>4, <1>5, LegacyAssumption
  <2> HIDE DEF g, i
  <2>3. LifeTo(HistKeys(g), HistDels(g), i, y) = {}
    BY <2>1, <2>2, TableLives
  <2>4. \A l \in 1 .. i : HistKeys(g)[l] = RanksOf(recs)[l] /\ (l \in HistDels(g) <=> l \in Dels(recs))
    BY <1>4, <2>1 DEF HistKeys, HistDels
  <2>5. LifeTo(HistKeys(g), HistDels(g), i, y) = LifeTo(RanksOf(recs), Dels(recs), i, y)
    BY <2>1, <2>4, LifeSame
  <2> QED
    BY <1>4, <2>3, <2>5 DEF LifeOf, i
<1> QED
  BY <1>1, <1>5 DEF Creates, recs

-----------------------------------------------------------------------------
(* The verifier of the new format rebuilds the lifetimes of the legacy log. *)
LEMMA VerifyMigrated ==
    ASSUME NEW recs, Sound(recs)
    PROVE  LET new == VerifyNew(migrate(recs))
               L(k) == LifeOf(recs, Len(recs), k) IN
           /\ Covers(new, RanksOf(recs), Dels(recs), Len(recs))
           /\ \A k \in LegacyKeys : L(k) # {} =>
                 /\ new[KeyBytes(k)].mod_revision = recs[Max(L(k))].revision
                 /\ new[KeyBytes(k)].version = Cardinality(L(k))
<1> DEFINE n == Len(recs)
           out == MigrateSteps(recs)[n].out
           seen == [i \in DOMAIN out |-> AsSeen(out[i])]
           new == VerifyNew(migrate(recs))
           L(k) == LifeOf(recs, n, k)
<1>1. /\ out \in Seq(KvRecords) /\ Len(out) = n
      /\ \A j \in 1 .. n : \E x : MigratedAs(recs, j, x, out[j])
  BY MigrateIs
<1>2. n \in Nat /\ Keyed(recs)
  BY SoundIs DEF Keyed
<1>3. DOMAIN out = 1 .. n
  <2> HIDE DEF out
  <2> QED
    BY <1>1
<1>4. new = reconstruct_state(seen)
  <2>1. migrate(recs) = FileOf(out)
    BY DEF migrate
  <2>2. scan_kv_file(FileOf(out), 0).recs = out
    BY <1>1, WholeFile
  <2> QED
    BY <2>1, <2>2, Zenon DEF VerifyNew, VerifyAll
<1>5. \A j \in 1 .. n : SeenAs(recs, j, AsSeen(out[j]))
  BY <1>1, MigratedRead
<1> HIDE DEF out
<1>6. /\ Len(seen) = n /\ DOMAIN seen = 1 .. n /\ \A j \in 1 .. n : SeenAs(recs, j, seen[j])
  BY <1>2, <1>3, <1>5
<1> HIDE DEF seen, new
<1>7. Keyed(seen)
  BY <1>2, <1>6 DEF Keyed, SeenAs
<1>8. \A j \in 1 .. n : /\ RanksOf(seen)[j] = RanksOf(recs)[j]
                        /\ j \in Dels(seen) <=> j \in Dels(recs)
  BY <1>2, <1>6 DEF RanksOf, Dels, SeenAs, Keyed
<1>9. \A k : LifeTo(RanksOf(seen), Dels(seen), n, k) = LifeTo(RanksOf(recs), Dels(recs), n, k)
  BY <1>2, <1>8, LifeSame
<1>10. /\ Covers(new, RanksOf(seen), Dels(seen), n)
       /\ \A k \in LegacyKeys : LifeOf(seen, n, k) # {} =>
             Rebuilt(seen, LifeOf(seen, n, k), new[KeyBytes(k)])
  <2>1. n \in 0 .. Len(seen) /\ new = RebuildSteps(seen)[n]
    BY <1>2, <1>4, <1>6 DEF reconstruct_state
  <2> HIDE DEF n
  <2> QED
    BY <1>7, <2>1, RebuildIs
<1>11. \A k : LifeOf(seen, n, k) = L(k)
  BY <1>9 DEF LifeOf
<1>12. Covers(new, RanksOf(recs), Dels(recs), n)
  BY <1>9, <1>10, Zenon DEF Covers
<1>13. ASSUME NEW k \in LegacyKeys, L(k) # {}
       PROVE  /\ new[KeyBytes(k)].mod_revision = recs[Max(L(k))].revision
              /\ new[KeyBytes(k)].version = Cardinality(L(k))
  <2> DEFINE A == L(k)
  <2>1. Rebuilt(seen, A, new[KeyBytes(k)])
    BY <1>10, <1>11, <1>13
  <2>2. A \in SUBSET (1 .. n)
    BY <1>2, LifeStep DEF LifeOf, NextLife
  <2>3. Max(A) \in 1 .. n
    BY <1>2, <1>13, <2>2, MinMax
  <2> HIDE DEF A
  <2>4. seen[Max(A)].revision = recs[Max(A)].revision
    BY <1>6, <2>3 DEF SeenAs
  <2> QED
    BY <2>1, <2>4 DEF Rebuilt, A
<1> QED
  BY <1>12, <1>13 DEF new

-----------------------------------------------------------------------------
(* The log walrecover writes for the history h, from the state st it        *)
(* rebuilt.                                                                 *)
Live(h) == {k \in LegacyKeys : Lifetime(h, k) # {}}
RecoveredSeq(h, st) ==
    [i \in 1 .. Cardinality(Live(h)) |-> RecoveredRecord(st, KeyBytes(InOrder(Live(h))[i]))]

(* st has the live keys, with their last value and revision.                *)
HasLive(h, st) ==
    /\ \A b : b \in DOMAIN st <=> \E k \in Live(h) : b = KeyBytes(k)
    /\ \A k \in Live(h) : LET e == st[KeyBytes(k)] IN
          /\ e.value = ValueBytes(h[Max(Lifetime(h, k))].value)
          /\ e.mod_revision = Max(Lifetime(h, k))

(* walrecover writes one record for each live key, in key order.            *)
LEMMA RecoveredLog ==
    ASSUME NEW h \in Seq(LegacyWrites), Len(h) <= MaxLegacy, NEW st, HasLive(h, st)
    PROVE  /\ write_wal(st) = LegacyLog(RecoveredSeq(h, st))
           /\ RecoveredSeq(h, st) \in Seq(SoundRecs)
           /\ Len(RecoveredSeq(h, st)) = Cardinality(Live(h))
           /\ \A i \in 1 .. Cardinality(Live(h)) :
                 LET k == InOrder(Live(h))[i]
                     r == RecoveredSeq(h, st)[i] IN
                 /\ k \in Live(h) /\ r.key = KeyBytes(k) /\ ~HasFlag(r.flags, DELETED)
                 /\ r.value = st[KeyBytes(k)].value
                 /\ r.revision = st[KeyBytes(k)].mod_revision
<1> DEFINE live == Live(h)
           c == Cardinality(live)
           ord == InOrder(live)
           rr == RecoveredSeq(h, st)
           rec(i) == RecoveredRecord(st, KeyBytes(ord[i]))
<1>1. live \in SUBSET Keys /\ live \subseteq LegacyKeys
  BY LegacyAssumption DEF Live
<1>2. c \in Nat /\ ord \in [1 .. c -> live]
  BY <1>1, InOrderDef
<1>3. {KeyRank(b) : b \in DOMAIN st} = live
  <2>1. \A b : b \in DOMAIN st <=> \E k \in live : b = KeyBytes(k)
    BY DEF HasLive
  <2> HIDE DEF live
  <2> QED
    BY <2>1, BytesBack
<1>4. \A i \in 1 .. c : ord[i] \in live
  <2> HIDE DEF ord, live, c
  <2> QED
    BY <1>2
<1>5. ASSUME NEW i \in 1 .. c
      PROVE  LET k == ord[i] IN
             /\ rec(i) \in SoundRecs /\ rec(i).key = KeyBytes(k)
             /\ ~HasFlag(rec(i).flags, DELETED)
             /\ rec(i).value = st[KeyBytes(k)].value
             /\ rec(i).revision = st[KeyBytes(k)].mod_revision
  <2> DEFINE k == ord[i]
             b == KeyBytes(k)
             v == st[b].value
             r == st[b].mod_revision
             L == Lifetime(h, k)
             f == 2
             l == <<>>
             x == [revision |-> r, flags |-> f, key |-> b, value |-> v, lease_id |-> l]
  <2>1. k \in live /\ k \in LegacyKeys /\ L # {}
    BY <1>4 DEF Live
  <2>2. v = ValueBytes(h[Max(L)].value) /\ r = Max(L)
    BY <2>1 DEF HasLive
  <2>3. rec(i) = x
    BY DEF RecoveredRecord, IS_CREATE
  <2>4. L \in SUBSET (1 .. Len(h)) /\ Len(h) \in Nat
    BY HistorySound
  <2>5. Max(L) \in 1 .. Len(h)
    BY <2>1, <2>4, MinMax
  <2>6. h[Max(L)].value \in Values
    BY <2>5, HistoryRecord
  <2> HIDE DEF L, k
  <2>7. r \in 1 .. MaxLegacy /\ r \in Nat
    BY <2>2, <2>4, <2>5, BoundsAssumption
  <2>8. b \in Seq(Nat)
    <3>1. k \in Nat
      BY <2>1, LegacyAssumption, KeysAssumption
    <3>2. <<k>> \in Seq(Nat)
      BY <3>1
    <3> QED
      BY <3>2 DEF KeyBytes
  <2>9. v \in Seq(Nat)
    <3> DEFINE u == h[Max(L)].value
    <3>1. u \in Nat
      BY <2>6, OrderedValues
    <3> HIDE DEF u
    <3>2. <<u>> \in Seq(Nat) /\ <<>> \in Seq(Nat)
      BY <3>1
    <3>3. ValueBytes(u) \in Seq(Nat)
      BY <3>2, Zenon DEF ValueBytes
    <3> QED
      BY <2>2, <3>3 DEF u
  <2>10. l \in Seq(Nat) /\ Len(l) = 0
    OBVIOUS
  <2>11. f \in {0, 1, 2, 4, 6} /\ f \in Nat
    OBVIOUS
  <2>12. ~HasFlag(f, HAS_LEASE) /\ ~HasFlag(f, DELETED)
    BY FlagsAre
  <2>13. \E key \in LegacyKeys : b = KeyBytes(key)
    BY <2>1
  <2>14. \E u \in Values : v = ValueBytes(u)
    BY <2>2, <2>6
  <2>15. l \in {<<>>, <<1>>}
    OBVIOUS
  <2> HIDE DEF f, l, b, v, r
  <2>16. x.revision = r /\ x.flags = f /\ x.key = b /\ x.value = v /\ x.lease_id = l
    OBVIOUS
  <2>17. x \in [revision : Nat, flags : Nat, key : Seq(Nat), value : Seq(Nat),
                lease_id : Seq(Nat)]
    BY <2>7, <2>8, <2>9, <2>10, <2>11
  <2> HIDE DEF x
  <2>18. x \in LegacyRecs
    BY <2>10, <2>12, <2>16, <2>17 DEF LegacyRecs
  <2>19. x \in SoundRecs
    BY <2>7, <2>11, <2>13, <2>14, <2>15, <2>16, <2>18, Zenon DEF SoundRecs
  <2> QED
    BY <2>3, <2>12, <2>16, <2>19 DEF b, v, r, k
<1>6. rr = [i \in 1 .. c |-> rec(i)]
  BY DEF RecoveredSeq
<1> HIDE DEF rec, live, ord, c, rr
<1>7. /\ rr \in Seq(SoundRecs) /\ Len(rr) = c /\ DOMAIN rr = 1 .. c
      /\ \A i \in 1 .. c : rr[i] = rec(i)
  <2> DEFINE S == SoundRecs
  <2> HIDE DEF S
  <2>1. c \in Nat /\ rr = [i \in 1 .. c |-> rec(i)] /\ \A i \in 1 .. c : rec(i) \in S
    BY <1>2, <1>5, <1>6 DEF S
  <2>2. rr \in Seq(S) /\ Len(rr) = c /\ DOMAIN rr = 1 .. c /\ \A i \in 1 .. c : rr[i] = rec(i)
    BY ONLY <2>1
  <2> QED
    BY <2>2 DEF S
<1>8. write_wal(st) = LegacyLog(rr)
  <2>1. DOMAIN ord = 1 .. c
    BY <1>2
  <2>2. write_wal(st) = FlattenSeq([i \in 1 .. c |-> LegacySerialize(rec(i))])
    BY <1>3, <2>1, Zenon DEF write_wal, ord, rec
  <2>3. [i \in 1 .. c |-> LegacySerialize(rec(i))] = [i \in DOMAIN rr |-> LegacySerialize(rr[i])]
    BY <1>7
  <2> QED
    BY <2>2, <2>3, Zenon DEF LegacyLog
<1> QED
  BY <1>4, <1>5, <1>7, <1>8, Zenon DEF live, ord, c, rr

(* Every live key has one record there.                                     *)
LEMMA RecoveredLives ==
    ASSUME NEW h \in Seq(LegacyWrites), Len(h) <= MaxLegacy, NEW st, HasLive(h, st)
    PROVE  LET rr == RecoveredSeq(h, st)
               c == Cardinality(Live(h)) IN
           /\ Sound(rr)
           /\ \A k : LifeOf(rr, c, k) # {} <=> k \in Live(h)
           /\ \A k \in Live(h) :
                 /\ rr[Max(LifeOf(rr, c, k))].value = st[KeyBytes(k)].value
                 /\ rr[Max(LifeOf(rr, c, k))].revision = st[KeyBytes(k)].mod_revision
<1> DEFINE live == Live(h)
           c == Cardinality(live)
           ord == InOrder(live)
           rr == RecoveredSeq(h, st)
           ks == RanksOf(rr)
           D == Dels(rr)
<1>1. /\ rr \in Seq(SoundRecs) /\ Len(rr) = c
      /\ \A i \in 1 .. c :
            /\ ord[i] \in live /\ rr[i].key = KeyBytes(ord[i]) /\ ~HasFlag(rr[i].flags, DELETED)
            /\ rr[i].value = st[KeyBytes(ord[i])].value
            /\ rr[i].revision = st[KeyBytes(ord[i])].mod_revision
  BY RecoveredLog, Zenon
<1>2. live \in SUBSET Keys /\ live \subseteq LegacyKeys
  BY LegacyAssumption DEF Live
<1>3. /\ c \in Nat /\ ord \in [1 .. c -> live]
      /\ \A i, j \in 1 .. c : i < j => ord[i] < ord[j]
      /\ \A k \in live : \E i \in 1 .. c : ord[i] = k
  BY <1>2, InOrderDef
<1>4. \A i, j \in 1 .. c : ord[i] = ord[j] => i = j
  <2> HIDE DEF ord, live, c
  <2>1. \A i \in 1 .. c : ord[i] \in Nat
    BY <1>2, <1>3, KeysAssumption
  <2>2. \A i, j \in 1 .. c : i = j \/ i < j \/ j < i
    BY <1>3
  <2>3. \A x, y \in Nat : x < y => x # y
    OBVIOUS
  <2> QED
    BY <1>3, <2>1, <2>2, <2>3
<1>5. DOMAIN rr = 1 .. c
  <2> HIDE DEF rr, c
  <2> QED
    BY <1>1
<1>6. \A i \in 1 .. c : ks[i] = ord[i] /\ i \notin D
  <2> HIDE DEF rr, ord, live, c
  <2> QED
    BY <1>1, <1>5, BytesBack DEF RanksOf, Dels
<1> HIDE DEF rr, ord, live, c, ks, D
<1>7. \A i \in 0 .. c : \A j, k : j \in LifeTo(ks, D, i, k) <=> j \in 1 .. i /\ ks[j] = k
  <2> SUFFICES ASSUME NEW i \in 0 .. c, NEW k
               PROVE  \A j : j \in LifeTo(ks, D, i, k) <=> j \in 1 .. i /\ ks[j] = k
    OBVIOUS
  <2>1. \A j \in 1 .. i : j \in 1 .. c /\ \A l \in (j + 1) .. i : l \in 1 .. c
    BY <1>3
  <2> QED
    BY <1>6, <2>1 DEF LifeTo
<1>8. ASSUME NEW i \in 0 .. c, NEW k \in LegacyKeys
      PROVE  Cardinality(LifeTo(ks, D, i, k)) <= MaxLegacy
  <2> DEFINE L == LifeTo(ks, D, i, k)
  <2>1. CASE L = {}
    <3>1. Cardinality(L) = 0
      BY <2>1, FS_EmptySet
    <3> QED
      BY <3>1, BoundsAssumption
  <2>2. CASE L # {}
    <3>1. PICK j : j \in L
      BY <2>2
    <3>2. \A x \in L : x \in 1 .. c /\ ks[x] = k
      BY <1>3, <1>7
    <3> HIDE DEF L
    <3>3. \A x \in L : x = j
      BY <1>4, <1>6, <3>1, <3>2
    <3>4. L = {j}
      BY <3>1, <3>3
    <3>5. Cardinality(L) = 1
      BY <3>4, FS_Singleton
    <3>6. rr[j] \in SoundRecs
      <4>1. j \in 1 .. c
        BY <3>1, <3>2
      <4> QED
        BY <1>1, <4>1
    <3>7. 1 <= MaxLegacy
      BY <3>6, SoundFields
    <3> QED
      BY <3>5, <3>7 DEF L
  <2> QED
    BY <2>1, <2>2
<1>9. Sound(rr)
  BY <1>1, <1>8 DEF Sound, LifeOf, ks, D
<1>10. ASSUME NEW k PROVE LifeTo(ks, D, c, k) # {} <=> k \in live
  <2>1. c \in 0 .. c
    BY <1>3
  <2>2. \A j : j \in LifeTo(ks, D, c, k) <=> j \in 1 .. c /\ ks[j] = k
    BY <1>7, <2>1
  <2> QED
    BY <1>1, <1>3, <1>6, <2>2
<1>11. ASSUME NEW k \in live
       PROVE  LET last == Max(LifeTo(ks, D, c, k)) IN
              /\ rr[last].value = st[KeyBytes(k)].value
              /\ rr[last].revision = st[KeyBytes(k)].mod_revision
  <2> DEFINE last == Max(LifeTo(ks, D, c, k))
  <2>1. LifeTo(ks, D, c, k) # {}
    BY <1>10
  <2>2. last \in 1 .. c /\ ks[last] = k
    BY <1>3, <2>1, LifeAtLast
  <2> HIDE DEF last
  <2>3. ord[last] = k
    BY <1>6, <2>2
  <2> QED
    BY <1>1, <2>2, <2>3 DEF last
<1> QED
  BY <1>9, <1>10, <1>11, Zenon DEF LifeOf, live, c, rr, ks, D

(* The tools rebuild the same state from a legacy log; the verifier of the  *)
(* new format agrees on the migrated log except for create_revision; and a  *)
(* log written by walrecover, migrated and opened, has the same keys with   *)
(* the same values and revisions (waldoctor, walverify, walverify_new,      *)
(* walrecover).                                                             *)
THEOREM RecoveryKeeps == Spec => []RecoveryKeepsData
<1>1. InputOK => RecoveryKeepsData
  <2> SUFFICES ASSUME InputOK, input.kind = "legacy" PROVE RecoveryKeepsData
    BY DEF RecoveryKeepsData
  <2>1. PICK h \in SeqOf(LegacyWrites, MaxLegacy) :
          input = [kind |-> "legacy", history |-> h, log |-> LegacyLog(LegacyRecords(h))]
    BY DEF InputOK
  <2> DEFINE recs == LegacyRecords(h)
             n == Len(h)
             log == LegacyLog(recs)
             st == reconstruct_state(recs)
             new == VerifyNew(migrate(recs))
             rr == RecoveredSeq(h, st)
             c == Cardinality(Live(h))
             again == OpenFile(migrate(rr))
             life(k) == Lifetime(h, k)
  <2>2. h \in Seq(LegacyWrites) /\ h \in Seq(Write) /\ n <= MaxLegacy /\ n \in Nat
    <3>1. LegacyKeys \in SUBSET Keys /\ {0, 1} \in SUBSET Nat /\ MaxLegacy \in Nat
      BY LegacyAssumption, BoundsAssumption
    <3> QED
      BY <3>1, HistoriesAre DEF LegacyWrites
  <2>3. /\ Sound(recs) /\ Len(recs) = n /\ recs \in Seq(LegacyRecs)
        /\ \A k : LifeOf(recs, n, k) = life(k)
        /\ \A k : life(k) \in SUBSET (1 .. n)
    BY <2>2, HistorySound, LegacyRecordsAre
  <2>4. \A j \in 1 .. n :
          /\ recs[j].revision = j /\ recs[j].value = ValueBytes(h[j].value)
          /\ h[j].value \in Values /\ h[j].key \in LegacyKeys
    BY <2>2, HistoryRecord, Zenon
  <2>5. input.history = h /\ input.log = log
    BY <2>1
  <2>6. /\ read_old_records(log) = recs /\ waldoctor_scan(log) = recs
        /\ walverify_scan(log) = recs /\ walrecover_scan(log) = recs
    BY <2>3, LegacyLogRead
  <2>7. Keyed(recs) /\ Creates(recs)
    BY <2>2, <2>3, SoundIs, HistoryCreates
  <2>8. /\ Covers(st, RanksOf(recs), Dels(recs), n)
        /\ \A k \in LegacyKeys : life(k) # {} => Rebuilt(recs, life(k), st[KeyBytes(k)])
    <3>1. n \in 0 .. Len(recs) /\ st = RebuildSteps(recs)[n]
      BY <2>2, <2>3 DEF reconstruct_state
    <3> HIDE DEF recs, st, n, life
    <3> QED
      BY <2>3, <2>7, <3>1, RebuildIs
  <2>9. /\ Covers(new, RanksOf(recs), Dels(recs), n)
        /\ \A k \in LegacyKeys : life(k) # {} =>
              /\ new[KeyBytes(k)].mod_revision = recs[Max(life(k))].revision
              /\ new[KeyBytes(k)].version = Cardinality(life(k))
    <3> HIDE DEF recs, n, life
    <3> QED
      BY <2>3, VerifyMigrated, Zenon
  <2>10. \A k \in LegacyKeys : life(k) # {} => Min(life(k)) \in 1 .. n /\ Max(life(k)) \in 1 .. n
    <3> SUFFICES ASSUME NEW k \in LegacyKeys, life(k) # {}
                 PROVE  Min(life(k)) \in 1 .. n /\ Max(life(k)) \in 1 .. n
      OBVIOUS
    <3> DEFINE L == life(k)
    <3>1. L \in SUBSET (1 .. n) /\ L # {} /\ n \in Nat
      BY <2>2, <2>3
    <3> HIDE DEF L
    <3>2. Min(L) \in 1 .. n /\ Max(L) \in 1 .. n
      BY <3>1, MinMax
    <3> QED
      BY <3>2 DEF L
  <2>11. \A k : life(k) # {} => k \in LegacyKeys
    <3> SUFFICES ASSUME NEW k, life(k) # {} PROVE k \in LegacyKeys
      OBVIOUS
    <3>1. PICK j : j \in life(k)
      OBVIOUS
    <3>2. j \in 1 .. n /\ h[j].key = k
      BY <2>3, <3>1 DEF Lifetime
    <3> QED
      BY <2>4, <3>2
  <2> HIDE DEF recs, st, new, life, log
  <2>12. \A b : b \in DOMAIN st <=> \E k \in LegacyKeys : b = KeyBytes(k) /\ life(k) # {}
    BY <2>3, <2>8 DEF Covers, LifeOf
  <2>13. \A b : b \in DOMAIN new <=> \E k \in LegacyKeys : b = KeyBytes(k) /\ life(k) # {}
    BY <2>3, <2>9 DEF Covers, LifeOf
  <2>14. ASSUME NEW k \in LegacyKeys, life(k) # {}
         PROVE  LET L == life(k) IN
                /\ st[KeyBytes(k)] = [value |-> ValueBytes(h[Max(L)].value),
                        mod_revision |-> Max(L), create_revision |-> Min(L),
                        version |-> Cardinality(L)]
                /\ st[KeyBytes(k)].value = ValueBytes(h[Max(L)].value)
                /\ st[KeyBytes(k)].mod_revision = Max(L)
                /\ h[Max(L)].value \in Values
    <3> DEFINE L == life(k)
               e == st[KeyBytes(k)]
    <3>1. Rebuilt(recs, L, e) /\ Min(L) \in 1 .. n /\ Max(L) \in 1 .. n
      BY <2>8, <2>10, <2>14
    <3> HIDE DEF L, e
    <3>2. /\ recs[Min(L)].revision = Min(L) /\ recs[Max(L)].revision = Max(L)
          /\ recs[Max(L)].value = ValueBytes(h[Max(L)].value) /\ h[Max(L)].value \in Values
      BY <2>4, <3>1
    <3>3. /\ e = [value |-> e.value, mod_revision |-> e.mod_revision,
                  create_revision |-> e.create_revision, version |-> e.version]
          /\ e.value = ValueBytes(h[Max(L)].value) /\ e.mod_revision = Max(L)
          /\ e.create_revision = Min(L) /\ e.version = Cardinality(L)
      BY <2>7, <3>1, <3>2 DEF Rebuilt
    <3> QED
      BY <3>2, <3>3, Zenon DEF L, e
  <2>15. HasLive(h, st)
    <3>1. \A k : k \in Live(h) <=> k \in LegacyKeys /\ life(k) # {}
      BY DEF Live, life
    <3>2. \A b : b \in DOMAIN st <=> \E k \in Live(h) : b = KeyBytes(k)
      BY <2>12, <3>1
    <3>3. \A k \in Live(h) : /\ st[KeyBytes(k)].value = ValueBytes(h[Max(life(k))].value)
                             /\ st[KeyBytes(k)].mod_revision = Max(life(k))
      BY <2>14, <3>1
    <3> QED
      BY <3>2, <3>3 DEF HasLive, life
  <2>16. /\ walrecover(log) = LegacyLog(rr) /\ rr \in Seq(SoundRecs) /\ Len(rr) = c
    <3>1. write_wal(st) = LegacyLog(rr) /\ rr \in Seq(SoundRecs) /\ Len(rr) = c
      BY <2>2, <2>15, RecoveredLog
    <3> QED
      BY <2>6, <3>1 DEF walrecover, st
  <2>17. /\ Sound(rr)
         /\ \A k : LifeOf(rr, c, k) # {} <=> k \in Live(h)
         /\ \A k \in Live(h) :
               /\ rr[Max(LifeOf(rr, c, k))].value = st[KeyBytes(k)].value
               /\ rr[Max(LifeOf(rr, c, k))].revision = st[KeyBytes(k)].mod_revision
    BY <2>2, <2>15, RecoveredLives
  <2>18. read_old_records(walrecover(log)) = rr
    <3>1. rr \in Seq(LegacyRecs)
      BY <2>17, SoundIs
    <3> QED
      BY <2>16, <3>1, LegacyLogRead
  <2>19. \A k \in Keys : LET L == LifeOf(rr, c, k) IN
          (Alive(again, k) <=> L # {}) /\ (L # {} => OpenedAs(rr, L, again[k]))
    BY <2>16, <2>17, OpenMigrated
  <2> HIDE DEF rr, c, again
  <2>20. ASSUME NEW k \in Keys
         PROVE  /\ Alive(again, k) <=> life(k) # {}
                /\ KeyBytes(k) \in DOMAIN st <=> life(k) # {}
                /\ life(k) # {} =>
                      /\ st[KeyBytes(k)] = [value |-> ValueBytes(h[Max(life(k))].value),
                              mod_revision |-> Max(life(k)), create_revision |-> Min(life(k)),
                              version |-> Cardinality(life(k))]
                      /\ new[KeyBytes(k)].mod_revision = Max(life(k))
                      /\ new[KeyBytes(k)].version = Cardinality(life(k))
                      /\ again[k].value = h[Max(life(k))].value
                      /\ again[k].mod_revision = Max(life(k))
    <3>1. k \in Live(h) <=> life(k) # {}
      BY <2>11 DEF Live, life
    <3>2. Alive(again, k) <=> life(k) # {}
      BY <2>17, <2>19, <3>1
    <3>3. KeyBytes(k) \in DOMAIN st <=> life(k) # {}
      BY <2>11, <2>12, BytesBack
    <3>4. ASSUME life(k) # {}
          PROVE  /\ new[KeyBytes(k)].mod_revision = Max(life(k))
                 /\ new[KeyBytes(k)].version = Cardinality(life(k))
      <4>1. k \in LegacyKeys
        BY <2>11, <3>4
      <4>2. recs[Max(life(k))].revision = Max(life(k))
        BY <2>4, <2>10, <3>4, <4>1
      <4> QED
        BY <2>9, <3>4, <4>1, <4>2
    <3>5. ASSUME life(k) # {}
          PROVE  again[k].value = h[Max(life(k))].value /\ again[k].mod_revision = Max(life(k))
      <4> DEFINE L == LifeOf(rr, c, k)
                 e == again[k]
      <4>1. k \in LegacyKeys /\ k \in Live(h)
        BY <2>11, <3>1, <3>5
      <4>2. OpenedAs(rr, L, e)
        BY <2>17, <2>19, <4>1
      <4>3. rr[Max(L)].value = st[KeyBytes(k)].value /\ rr[Max(L)].revision = st[KeyBytes(k)].mod_revision
        BY <2>17, <4>1
      <4>4. /\ st[KeyBytes(k)].value = ValueBytes(h[Max(life(k))].value)
            /\ st[KeyBytes(k)].mod_revision = Max(life(k)) /\ h[Max(life(k))].value \in Values
        BY <2>14, <3>5, <4>1
      <4> HIDE DEF L, e
      <4>5. /\ e.value \in Values /\ ValueBytes(e.value) = ValueBytes(h[Max(life(k))].value)
            /\ e.mod_revision = Max(life(k))
        BY <4>2, <4>3, <4>4 DEF OpenedAs
      <4>6. e.value = h[Max(life(k))].value
        BY <4>4, <4>5, BytesBack
      <4> QED
        BY <4>5, <4>6 DEF e
    <3> QED
      BY <2>11, <2>14, <3>2, <3>3, <3>4, <3>5, Zenon
  <2>21. DOMAIN new = DOMAIN st
    BY <2>12, <2>13
  <2>22. SameData(h, st, new, again)
    BY <2>20, <2>21, Zenon DEF SameData, life
  <2>23. waldoctor(log) = st /\ walverify(log) = st
    BY <2>6 DEF waldoctor, walverify, st
  <2> QED
    BY <2>5, <2>6, <2>18, <2>22, <2>23, Zenon DEF RecoveryKeepsData, new, again
<1> QED
  BY <1>1, InputPicked, PTL

=============================================================================
