----------------------------- MODULE NatProofs -----------------------------
(***************************************************************************)
(* Induction and recursion for the other proofs.  A claim about numbers or *)
(* sequences is given as the set of those for which it holds; that every   *)
(* set of numbers has a least member makes induction out of it.            *)
(***************************************************************************)
EXTENDS Naturals, SequenceTheorems, WellFoundedInduction, TLAPS

(* Every set of natural numbers that is not empty has a least member.       *)
LEMMA NatLeast ==
    ASSUME NEW T \in SUBSET Nat, T # {}
    PROVE  \E x \in T : \A y \in T : x <= y
<1> DEFINE R == {p \in Nat \X Nat : p[1] < p[2]}
<1>1. IsWellFoundedOn(OpToRel(<, Nat), Nat)
  BY NatLessThanWellFounded
<1>2. R = OpToRel(<, Nat)
  BY DEF OpToRel
<1>3. IsWellFoundedOn(R, Nat)
  BY <1>1, <1>2
<1> HIDE DEF R
<1>4. PICK x \in T : \A y \in T : ~ (<<y, x>> \in R)
  BY <1>3, WFMin
<1>5. ASSUME NEW y \in T PROVE x <= y
  <2>1. x \in Nat /\ y \in Nat /\ <<y, x>> \notin R
    BY <1>4
  <2>2. <<y, x>> \in Nat \X Nat
    BY <2>1
  <2>3. ~(y < x)
    BY <2>1, <2>2 DEF R
  <2> QED
    BY <2>1, <2>3
<1> QED
  BY <1>5

(* A nonempty bounded set of naturals has a greatest element.               *)
LEMMA NatGreatest ==
    ASSUME NEW T \in SUBSET Nat, T # {}, NEW n \in Nat, \A x \in T : x <= n
    PROVE  \E x \in T : \A y \in T : y <= x
<1> DEFINE D == {d \in Nat : n - d \in T}
<1>1. PICK t \in T : TRUE
  OBVIOUS
<1>2. n - t \in D
  BY <1>1
<1>3. PICK d \in D : \A y \in D : d <= y
  BY <1>2, NatLeast
<1>4. ASSUME NEW y \in T PROVE y <= n - d
  <2>1. n - y \in D
    OBVIOUS
  <2> QED
    BY <1>3, <2>1
<1> QED
  BY <1>3, <1>4

(* Induction, for a claim that is given as the set of the numbers for which *)
(* it holds.                                                                *)
LEMMA InductionOnSet ==
    ASSUME NEW T \in SUBSET Nat, 0 \in T, \A n \in Nat : n \in T => n + 1 \in T
    PROVE  T = Nat
<1>1. SUFFICES ASSUME Nat \ T # {} PROVE FALSE
  OBVIOUS
<1>2. PICK x \in Nat \ T : \A y \in Nat \ T : x <= y
  BY <1>1, NatLeast
<1>3. x # 0 /\ x - 1 \in Nat
  BY <1>2
<1>4. x - 1 \in T
  BY <1>2, <1>3
<1> QED
  BY <1>2, <1>3, <1>4

(* The same for sequences: a set of sequences that has the empty one and    *)
(* every extension of its members by an element has them all.               *)
LEMMA InductionOnSeq ==
    ASSUME NEW E, NEW T \in SUBSET Seq(E), <<>> \in T,
           \A s \in T : \A e \in E : Append(s, e) \in T
    PROVE  T = Seq(E)
<1> DEFINE N == {n \in Nat : \A s \in Seq(E) : Len(s) = n => s \in T}
<1>1. 0 \in N
  <2>1. ASSUME NEW s \in Seq(E), Len(s) = 0 PROVE s = <<>>
    BY <2>1
  <2> QED
    BY <2>1
<1>2. ASSUME NEW n \in Nat, n \in N PROVE n + 1 \in N
  <2>1. ASSUME NEW s \in Seq(E), Len(s) = n + 1 PROVE s \in T
    <3> DEFINE h == SubSeq(s, 1, n)
               e == s[n + 1]
    <3>1. h \in Seq(E) /\ Len(h) = n /\ e \in E
      BY <2>1
    <3>2. s = Append(h, e)
      <4>1. Append(h, e) \in Seq(E) /\ Len(Append(h, e)) = n + 1
        <5> HIDE DEF h, e
        <5> QED
          BY <3>1
      <4>2. ASSUME NEW i \in 1 .. n + 1 PROVE s[i] = Append(h, e)[i]
        <5>1. \A j \in 1 .. n : h[j] = s[j]
          <6>1. \A t \in Seq(E) : \A m \in 0 .. Len(t) : \A j \in 1 .. m : SubSeq(t, 1, m)[j] = t[j]
            OBVIOUS
          <6>2. n \in 0 .. Len(s)
            BY <2>1
          <6> QED
            BY <6>1, <6>2
        <5>2. e = s[n + 1]
          OBVIOUS
        <5> HIDE DEF h, e
        <5>3. Append(h, e)[n + 1] = e /\ \A j \in 1 .. n : Append(h, e)[j] = h[j]
          BY <3>1
        <5>4. i \in 1 .. n \/ i = n + 1
          OBVIOUS
        <5> QED
          BY <5>1, <5>2, <5>3, <5>4
      <4> HIDE DEF h, e
      <4> QED
        BY <2>1, <4>1, <4>2, SeqEqual
    <3>3. h \in T
      BY <1>2, <3>1
    <3> HIDE DEF h, e
    <3> QED
      BY <3>1, <3>2, <3>3
  <2> QED
    BY <2>1
<1> HIDE DEF N
<1>3. N = Nat
  <2>1. N \in SUBSET Nat
    BY DEF N
  <2> QED
    BY <1>1, <1>2, <2>1, InductionOnSet
<1>4. ASSUME NEW s \in Seq(E) PROVE s \in T
  <2>1. Len(s) \in Nat
    OBVIOUS
  <2> QED
    BY <1>3, <2>1 DEF N
<1> QED
  BY <1>4

(* A recursion over 1 .. n has a solution.                                  *)
LEMMA Recursion ==
    ASSUME NEW X
    PROVE  \A b \in X, n \in Nat : \A f \in [1 .. n -> [X -> X]] :
              \E t \in [0 .. n -> X] : t[0] = b /\ \A i \in 1 .. n : t[i] = f[i][t[i - 1]]
<1> SUFFICES ASSUME NEW b \in X, NEW n \in Nat, NEW f \in [1 .. n -> [X -> X]]
             PROVE  \E t \in [0 .. n -> X] :
                        t[0] = b /\ \A i \in 1 .. n : t[i] = f[i][t[i - 1]]
  OBVIOUS
<1> DEFINE Solves(t, m) == t[0] = b /\ \A i \in 1 .. m : t[i] = f[i][t[i - 1]]
           T == {m \in Nat : m <= n => \E t \in [0 .. m -> X] : Solves(t, m)}
<1>1. 0 \in T
  <2>1. [i \in 0 .. 0 |-> b] \in [0 .. 0 -> X] /\ Solves([i \in 0 .. 0 |-> b], 0)
    OBVIOUS
  <2> HIDE DEF Solves
  <2> QED
    BY <2>1
<1>2. ASSUME NEW m \in Nat, m \in T PROVE m + 1 \in T
  <2>1. SUFFICES ASSUME m + 1 <= n PROVE \E t \in [0 .. m + 1 -> X] : Solves(t, m + 1)
    OBVIOUS
  <2>2. PICK t \in [0 .. m -> X] : Solves(t, m)
    BY <1>2, <2>1
  <2> DEFINE u == [i \in 0 .. m + 1 |-> IF i <= m THEN t[i] ELSE f[m + 1][t[m]]]
  <2>3. f[m + 1][t[m]] \in X
    BY <2>1
  <2>4. u \in [0 .. m + 1 -> X]
    BY <2>3
  <2>5. u[0] = b
    BY <2>2
  <2>6. ASSUME NEW i \in 1 .. m + 1 PROVE u[i] = f[i][u[i - 1]]
    <3>1. CASE i <= m
      <4>1. i \in 1 .. m /\ i - 1 \in 0 .. m /\ u[i] = t[i] /\ u[i - 1] = t[i - 1]
        BY <3>1
      <4> QED
        BY <2>2, <4>1
    <3>2. CASE i = m + 1
      <4>1. u[m + 1] = f[m + 1][t[m]] /\ u[m] = t[m] /\ i - 1 = m
        BY <3>2
      <4> HIDE DEF u
      <4> QED
        BY <3>2, <4>1
    <3> QED
      BY <3>1, <3>2
  <2> QED
    BY <2>4, <2>5, <2>6
<1> HIDE DEF T
<1>3. T = Nat
  <2>1. T \in SUBSET Nat
    BY DEF T
  <2> QED
    BY <1>1, <1>2, <2>1, InductionOnSet
<1> QED
  BY <1>3 DEF T
=============================================================================
