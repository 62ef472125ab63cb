------------------------- MODULE LeaseExpiryProofs -------------------------
(***************************************************************************)
(* Proofs about LeaseExpiry, for every set of leases and of TTLs:          *)
(*                                                                         *)
(*   TypeOK            is inductive by itself;                             *)
(*   ClientLeaseHolds  with PromiseInv, which also speaks of the answers   *)
(*                     the client has not read;                            *)
(*   LeaseSafety       step by step: each action of LeaseExpiry is one of  *)
(*                     LeaseSpec or leaves the table alone.                *)
(*                                                                         *)
(* That a lease which has run out does go, and that a stream task ends,    *)
(* rest on fairness and are left to TLC.                                   *)
(***************************************************************************)
EXTENDS LeaseExpiry, NatProofs

-----------------------------------------------------------------------------
(* The operators on the lease table.                                        *)

(* A granted or renewed lease has its full time, the others keep theirs.    *)
LEMMA StoreType ==
    ASSUME TypeOK, NEW id \in LeaseIds, NEW t \in MinTtl .. MaxTtl
    PROVE  /\ DOMAIN Store(id, t) = Held \cup {id}
           /\ Store(id, t) \in [Held \cup {id} -> Lease]
           /\ Store(id, t)[id] = [ttl |-> t, left |-> t]
           /\ \A i \in Held \ {id} : Store(id, t)[i] = leases[i]
           /\ \A i \in Held \cup {id} : Store(id, t)[i].left <= Store(id, t)[i].ttl
<1>1. [ttl |-> t, left |-> t] \in Lease
  BY TtlAssumption DEF Lease
<1> QED
  BY <1>1 DEF TypeOK, Store, Held

(* Removing leases leaves the others as they are.                           *)
LEMMA RemoveType ==
    ASSUME TypeOK, NEW ids
    PROVE  /\ DOMAIN Remove(ids) = Held \ ids
           /\ Remove(ids) \in [Held \ ids -> Lease]
           /\ \A i \in Held \ ids : Remove(ids)[i] = leases[i]
BY DEF TypeOK, Remove, Held

(* The TTL that is granted is within the limits.                            *)
LEMMA GrantedTtl ==
    ASSUME NEW t \in Ttls, t <= MaxTtl
    PROVE  CheckLeaseTtl(t) \in MinTtl .. MaxTtl
BY TtlAssumption DEF CheckLeaseTtl

(* What the client trusts stays a time within the longest TTL.              *)
LEMMA TrustsType ==
    ASSUME TypeOK, NEW id, NEW t \in 0 .. MaxTtl, Trusts(id, t)
    PROVE  trust' \in [Watched -> 0 .. MaxTtl]
BY DEF TypeOK, Trusts

(* Ending promises keeps their types.                                       *)
LEMMA DistrustsType ==
    ASSUME TypeOK, NEW ids, Distrusts(ids)
    PROVE  trust' \in [Watched -> 0 .. MaxTtl] /\ void' \subseteq Watched
BY TtlAssumption DEF TypeOK, Distrusts

(* An answer that is on its way grows older and stays an answer.            *)
LEMMA AgedType ==
    ASSUME NEW a \in Answers
    PROVE  /\ Aged(a) \in Answers
           /\ Aged(a).ok = a.ok /\ Aged(a).id = a.id
           /\ Aged(a).left = Sooner(a.left)
BY TtlAssumption DEF Answers, Aged, Sooner

-----------------------------------------------------------------------------
(* Type correctness.                                                        *)

(* Every step keeps the type invariant.                                     *)
LEMMA TypeStep == TypeOK /\ [Next]_vars => TypeOK'
<1> SUFFICES ASSUME TypeOK, [Next]_vars PROVE TypeOK'
  OBVIOUS
<1> USE DEF vars, table, expiry, stream
<1>1. ASSUME NEW id \in LeaseIds, NEW t \in Ttls, LeaseGrant(id, t) PROVE TypeOK'
  <2>1. CheckLeaseTtl(t) \in MinTtl .. MaxTtl /\ CheckLeaseTtl(t) \in 0 .. MaxTtl
    BY <1>1, GrantedTtl, TtlAssumption DEF LeaseGrant
  <2>2. trust' \in [Watched -> 0 .. MaxTtl]
    BY <1>1, <2>1, TrustsType DEF LeaseGrant
  <2> HIDE DEF Trusts, CheckLeaseTtl
  <2>3. Held' = Held \cup {id} /\ leases' = Store(id, CheckLeaseTtl(t))
    BY <1>1, <2>1, StoreType DEF LeaseGrant, Held
  <2>4. permit' \in BOOLEAN
    BY <1>1 DEF LeaseGrant, NotifyOne
  <2>5. /\ Held' \subseteq LeaseIds /\ leases' \in [Held' -> Lease]
        /\ \A i \in Held' : leases'[i].left <= leases'[i].ttl
    BY <2>1, <2>3, StoreType DEF TypeOK
  <2> QED
    BY <1>1, <2>2, <2>4, <2>5 DEF LeaseGrant, TypeOK
<1>2. ASSUME NEW id \in LeaseIds, LeaseRevoke(id) PROVE TypeOK'
  <2>1. Held' = Held \ {id} /\ leases' = Remove({id})
    BY <1>2, RemoveType DEF LeaseRevoke, Held
  <2>2. trust' \in [Watched -> 0 .. MaxTtl] /\ void' \subseteq Watched
    BY <1>2, DistrustsType DEF LeaseRevoke
  <2>3. keyed' \subseteq LeaseIds
    BY <1>2 DEF LeaseRevoke, DeleteKeysForLease, TypeOK
  <2>4. permit' \in BOOLEAN
    BY <1>2 DEF LeaseRevoke, NotifyOne
  <2>5. /\ Held' \subseteq LeaseIds /\ leases' \in [Held' -> Lease]
        /\ \A i \in Held' : leases'[i].left <= leases'[i].ttl
    BY <2>1, RemoveType DEF TypeOK
  <2> QED
    BY <1>2, <2>2, <2>3, <2>4, <2>5 DEF LeaseRevoke, TypeOK
<1>3. ASSUME NEW id \in LeaseIds, LeaseTimeToLive(id) PROVE TypeOK'
  <2>1. leases[id].left \in 0 .. MaxTtl
    BY <1>3 DEF LeaseTimeToLive, TypeOK, Lease
  <2>2. trust' \in [Watched -> 0 .. MaxTtl]
    BY <1>3, <2>1, TrustsType DEF LeaseTimeToLive
  <2> QED
    BY <1>3, <2>2 DEF LeaseTimeToLive, TypeOK, Held
<1>4. ASSUME NEW id \in LeaseIds, Attach(id) \/ Detach(id) PROVE TypeOK'
  BY <1>4 DEF Attach, Detach, TypeOK, Held
<1>5. ASSUME NEW id \in Watched, ClientSends(id) PROVE TypeOK'
  BY <1>5 DEF ClientSends, TypeOK, Held
<1>6. CASE ExpiryPlan
  <2> DEFINE S == {leases[id].left : id \in Held}
  <2>1. S \subseteq 0 .. MaxTtl
    BY DEF TypeOK, Lease
  <2>2. sleep' \in 0 .. MaxTtl \cup {Forever}
    <3>1. CASE Held = {}
      BY <1>6, <3>1 DEF ExpiryPlan
    <3>2. CASE Held # {}
      <4>1. S \in SUBSET Nat /\ S # {}
        BY <2>1, <3>2
      <4>2. Min(S) \in S
        <5> HIDE DEF S
        <5> QED
          BY <4>1, NatLeast DEF Min
      <4> QED
        BY <1>6, <2>1, <3>2, <4>2 DEF ExpiryPlan
    <3> QED
      BY <3>1, <3>2
  <2> QED
    BY <1>6, <2>2 DEF ExpiryPlan, TypeOK, Held
<1>7. CASE ExpirySelect \/ ExpiryTimer \/ ExpiryNotified
  <2>1. permit' \in BOOLEAN
    BY <1>7 DEF ExpirySelect, ExpiryTimer, ExpiryNotified, TypeOK
  <2> QED
    BY <1>7, <2>1 DEF ExpirySelect, ExpiryTimer, ExpiryNotified, TypeOK, Held
<1>8. CASE ExpirySweep
  <2>1. Held' = Held \ Due /\ leases' = Remove(Due)
    BY <1>8, RemoveType DEF ExpirySweep, Held
  <2>2. keyed' \subseteq LeaseIds
    BY <1>8 DEF ExpirySweep, DeleteKeysForLease, TypeOK
  <2>3. permit' \in BOOLEAN
    BY <1>8 DEF ExpirySweep, NotifyOne, TypeOK
  <2>4. /\ Held' \subseteq LeaseIds /\ leases' \in [Held' -> Lease]
        /\ \A i \in Held' : leases'[i].left <= leases'[i].ttl
    BY <2>1, RemoveType DEF TypeOK
  <2> QED
    BY <1>8, <2>2, <2>3, <2>4 DEF ExpirySweep, TypeOK
<1>9. CASE Connect \/ StreamEnds
  <2>1. task' \in BOOLEAN /\ client' \in BOOLEAN /\ (client' => task')
    <3>1. CASE Connect
      BY <3>1 DEF Connect
    <3>2. CASE StreamEnds
      <4>1. task' = FALSE /\ client' = client /\ ~client /\ client \in BOOLEAN
        BY <3>2 DEF StreamEnds, TypeOK
      <4> QED
        BY <4>1
    <3> QED
      BY <1>9, <3>1, <3>2
  <2> QED
    BY <1>9, <2>1 DEF Connect, StreamEnds, TypeOK, Held
<1>10. CASE LeaseKeepAlive
  <2> DEFINE id == Head(inbox)
  <2>1. id \in Watched /\ id \in LeaseIds /\ inbox' \in Seq(Watched)
    BY <1>10, TtlAssumption DEF LeaseKeepAlive, TypeOK
  <2>2. CASE id \in Held
    <3>1. leases[id].ttl \in MinTtl .. MaxTtl /\ leases[id].ttl \in 0 .. MaxTtl
      BY <2>2, TtlAssumption DEF TypeOK, Lease
    <3>2. Held' = Held \cup {id} /\ leases' = Store(id, leases[id].ttl)
      BY <1>10, <2>1, <2>2, <3>1, StoreType DEF LeaseKeepAlive, Renewed, Held
    <3>3. reply' \in Answers
      <4>1. reply' = [ok |-> TRUE, id |-> id, left |-> leases[id].ttl]
        BY <1>10, <2>2 DEF LeaseKeepAlive
      <4> QED
        BY <2>1, <3>1, <4>1 DEF Answers
    <3>4. permit' \in BOOLEAN
      BY <1>10, <2>2 DEF LeaseKeepAlive, NotifyOne
    <3> HIDE DEF id
    <3> QED
      BY <1>10, <2>1, <2>2, <3>1, <3>2, <3>3, <3>4, StoreType
      DEF LeaseKeepAlive, TypeOK, id
  <2>3. CASE id \notin Held
    <3>1. reply' \in Answers
      <4>1. reply' = [ok |-> FALSE, id |-> id, left |-> 0]
        BY <1>10, <2>3 DEF LeaseKeepAlive
      <4> QED
        BY <2>1, <4>1, TtlAssumption DEF Answers
    <3> QED
      BY <1>10, <2>1, <2>3, <3>1 DEF LeaseKeepAlive, TypeOK, Held
  <2> QED
    BY <2>2, <2>3
<1>11. CASE StreamSends
  <2>1. reply \in Answers /\ reply.ok \in BOOLEAN
    BY <1>11 DEF StreamSends, TypeOK, Answers
  <2>2. outbox' \in Seq(Answers) /\ Len(outbox') <= ChannelCap
    <3>1. \/ outbox' = outbox
          \/ Len(outbox) < ChannelCap /\ outbox' = Append(outbox, reply)
      BY <1>11 DEF StreamSends
    <3>2. outbox \in Seq(Answers) /\ Len(outbox) <= ChannelCap /\ ChannelCap \in Nat
      BY TtlAssumption DEF TypeOK
    <3>3. Append(outbox, reply) \in Seq(Answers)
          /\ Len(Append(outbox, reply)) = Len(outbox) + 1 /\ Len(outbox) \in Nat
      BY <2>1, <3>2
    <3> QED
      BY <3>1, <3>2, <3>3
  <2>3. task' \in BOOLEAN /\ (client' => task')
    BY <1>11, <2>1 DEF StreamSends, TypeOK
  <2> QED
    BY <1>11, <2>2, <2>3 DEF StreamSends, TypeOK, Held
<1>12. ASSUME Hangup PROVE /\ client' \in BOOLEAN /\ ~client'
                           /\ inbox' \in Seq(Watched)
                           /\ outbox' \in Seq(Answers) /\ Len(outbox') <= ChannelCap
  <2>1. client' = FALSE /\ outbox' = <<>>
    BY <1>12 DEF Hangup
  <2>2. inbox' \in Seq(Watched)
    BY <1>12 DEF Hangup, TypeOK
  <2>3. outbox' \in Seq(Answers) /\ Len(outbox') <= ChannelCap
    BY <2>1, TtlAssumption
  <2> QED
    BY <2>1, <2>2, <2>3
<1>13. CASE ClientLeaves
  BY <1>12, <1>13 DEF ClientLeaves, TypeOK, Held
<1>14. CASE ClientReads
  <2> DEFINE a == Head(outbox)
  <2>1. a \in Answers
    BY <1>14 DEF ClientReads, TypeOK
  <2>2. CASE a.ok
    <3>1. a.left \in 0 .. MaxTtl
      BY <2>1 DEF Answers
    <3>2. trust' \in [Watched -> 0 .. MaxTtl]
      BY <1>14, <2>2, <3>1, TrustsType DEF ClientReads
    <3>3. outbox' \in Seq(Answers) /\ Len(outbox') <= ChannelCap
      <4>1. outbox # <<>> /\ outbox' = Tail(outbox)
        BY <1>14, <2>2 DEF ClientReads
      <4> QED
        BY <4>1, TtlAssumption DEF TypeOK
    <3> QED
      BY <1>14, <2>2, <3>2, <3>3 DEF ClientReads, TypeOK, Held
  <2>3. CASE ~a.ok
    BY <1>12, <1>14, <2>3 DEF ClientReads, TypeOK, Held
  <2> QED
    BY <2>2, <2>3
<1>15. CASE Restart
  <2>1. trust' \in [Watched -> 0 .. MaxTtl] /\ void' \subseteq Watched
    BY <1>15, DistrustsType DEF Restart
  <2>2. [ttl |-> RestoreTtl, left |-> RestoreTtl] \in Lease
    BY TtlAssumption DEF Lease
  <2>3. Held' = keyed /\ leases' \in [Held' -> Lease]
    BY <1>15, <2>2 DEF Restart, Held
  <2>4. \A id \in Held' : leases'[id].left <= leases'[id].ttl
    BY <1>15, TtlAssumption DEF Restart, Held
  <2>5. /\ permit' \in BOOLEAN /\ task' \in BOOLEAN /\ client' \in BOOLEAN
        /\ (client' => task')
    BY <1>15 DEF Restart
  <2> QED
    BY <1>15, <2>1, <2>3, <2>4, <2>5, TtlAssumption DEF Restart, TypeOK
<1>16. CASE Tick
  <2>1. Held' = Held
    BY <1>16 DEF Tick, Held
  <2>2. \A id \in Held : /\ leases'[id] \in Lease
                         /\ leases'[id].left <= leases'[id].ttl
    BY <1>16, TtlAssumption DEF Tick, TypeOK, Lease, Sooner, Held
  <2>3. leases' \in [Held -> Lease]
    BY <1>16, <2>1, <2>2 DEF Tick, Held
  <2>4. sleep' \in 0 .. MaxTtl \cup {Forever}
    BY <1>16, TtlAssumption DEF Tick, TypeOK, Sooner
  <2>5. trust' \in [Watched -> 0 .. MaxTtl]
    BY <1>16, TtlAssumption DEF Tick, TypeOK, Sooner
  <2>6. reply' \in Answers \cup {None}
    BY <1>16, AgedType DEF Tick, TypeOK
  <2>7. outbox' \in Seq(Answers) /\ Len(outbox') = Len(outbox)
    <3>1. \A i \in 1 .. Len(outbox) : Aged(outbox[i]) \in Answers
      BY AgedType DEF TypeOK
    <3>2. DOMAIN outbox = 1 .. Len(outbox) /\ Len(outbox) \in Nat
      BY DEF TypeOK
    <3>3. outbox' = [i \in 1 .. Len(outbox) |-> Aged(outbox[i])]
      BY <1>16, <3>2 DEF Tick
    <3> HIDE DEF Aged
    <3> QED
      BY <3>1, <3>2, <3>3
  <2> QED
    BY <1>16, <2>1, <2>2, <2>3, <2>4, <2>5, <2>6, <2>7 DEF Tick, TypeOK
<1>17. CASE UNCHANGED vars
  BY <1>17 DEF TypeOK, Held
<1> QED
  BY <1>1, <1>2, <1>3, <1>4, <1>5, <1>6, <1>7, <1>8, <1>9, <1>10, <1>11, <1>13,
     <1>14, <1>15, <1>16, <1>17
  DEF Next, ServeGrant, ServeRevoke, ServeTimeToLive, Refused

(* Every variable of the lease table, the expiry task and the stream keeps  *)
(* its type; in particular no lease has more left than its TTL, and the     *)
(* channel of a stream never holds more than its capacity.                  *)
THEOREM TypeCorrect == Spec => []TypeOK
<1>1. ASSUME Init PROVE TypeOK
  <2>1. permit \in BOOLEAN /\ task \in BOOLEAN /\ client \in BOOLEAN /\ (client => task)
    BY <1>1 DEF Init
  <2> QED
    BY <1>1, <2>1, TtlAssumption DEF Init, TypeOK, NoLeases, Held
<1> QED
  BY <1>1, TypeStep, PTL DEF Spec

-----------------------------------------------------------------------------
(* A client has a lease for as long as it was told.                         *)

(* The step takes nothing away from the lease id.                           *)
Kept(id) ==
    id \in Held /\ leases[id].left > 0
        => id \in Held' /\ leases[id].left <= leases'[id].left

(* What is on its way to a client are answers.                              *)
LEMMA OnTheWayType == ASSUME TypeOK PROVE OnTheWay \subseteq Answers
<1>1. reply # None => reply \in Answers
  BY DEF TypeOK
<1>2. \A i \in 1 .. Len(outbox) : outbox[i] \in Answers
  BY DEF TypeOK
<1> QED
  BY <1>1, <1>2 DEF OnTheWay

(* Answers stay true in a step that makes none and that takes away only     *)
(* from leases the client is told nothing about.                            *)
LEMMA AnswersKept ==
    ASSUME TypeOK, TypeOK', PromiseInv, void \subseteq void',
           OnTheWay' \subseteq OnTheWay, \A id \in Watched \ void' : Kept(id)
    PROVE  (\A a \in OnTheWay : AnswerHolds(a))'
<1>1. SUFFICES ASSUME NEW a \in OnTheWay', a.ok, a.id \notin void', a.left > 0
               PROVE  a.id \in Held' /\ a.left <= leases'[a.id].left
  BY DEF AnswerHolds
<1>2. a \in OnTheWay /\ a \in Answers
  BY <1>1, OnTheWayType
<1>3. a.id \in Watched \ void' /\ a.id \notin void /\ a.left \in Nat
  BY <1>1, <1>2 DEF Answers
<1>4. a.id \in Held /\ a.left <= leases[a.id].left
  BY <1>1, <1>2, <1>3 DEF PromiseInv, AnswerHolds
<1>5. leases[a.id].left \in Nat /\ (a.id \in Held' => leases'[a.id].left \in Nat)
  BY <1>4 DEF TypeOK, Lease
<1>6. Kept(a.id)
  BY <1>3
<1> QED
  BY <1>1, <1>3, <1>4, <1>5, <1>6 DEF Kept

(* So does what the client trusts, in a step that adds nothing to it.       *)
LEMMA TrustKept ==
    ASSUME TypeOK, TypeOK', PromiseInv,
           \A id \in Watched : trust'[id] > 0 => trust'[id] = trust[id] /\ Kept(id)
    PROVE  ClientLeaseHolds'
<1>1. SUFFICES ASSUME NEW id \in Watched, trust'[id] > 0
               PROVE  id \in Held' /\ trust'[id] <= leases'[id].left
  BY DEF ClientLeaseHolds
<1>2. trust'[id] = trust[id] /\ Kept(id) /\ trust[id] \in Nat
  BY <1>1 DEF TypeOK
<1>3. id \in Held /\ trust[id] <= leases[id].left
  BY <1>1, <1>2 DEF PromiseInv, ClientLeaseHolds
<1>4. leases[id].left \in Nat /\ (id \in Held' => leases'[id].left \in Nat)
  BY <1>3 DEF TypeOK, Lease
<1> QED
  BY <1>1, <1>2, <1>3, <1>4 DEF Kept

(* An answer of so long is right when the lease has that much left.         *)
LEMMA TrustsHolds ==
    ASSUME TypeOK, TypeOK', PromiseInv, NEW id, NEW t \in Nat, Trusts(id, t),
           id \in Watched /\ id \notin void /\ t > 0
               => id \in Held' /\ t <= leases'[id].left,
           \A i \in Watched : Kept(i)
    PROVE  ClientLeaseHolds'
<1>1. CASE id \in Watched /\ id \notin void /\ t > trust[id]
  <2>1. trust' = [trust EXCEPT ![id] = t]
    BY <1>1 DEF Trusts
  <2>2. trust \in [Watched -> Nat]
    BY DEF TypeOK
  <2>3. t > 0
    BY <1>1, <2>2
  <2>4. SUFFICES ASSUME NEW i \in Watched, trust'[i] > 0
                 PROVE  i \in Held' /\ trust'[i] <= leases'[i].left
    BY DEF ClientLeaseHolds
  <2>5. CASE i = id
    BY <1>1, <2>1, <2>2, <2>3, <2>5
  <2>6. CASE i # id
    <3>1. trust'[i] = trust[i] /\ Kept(i) /\ trust[i] \in Nat
      BY <2>1, <2>2, <2>6
    <3>2. i \in Held /\ trust[i] <= leases[i].left
      BY <2>4, <3>1 DEF PromiseInv, ClientLeaseHolds
    <3>3. leases[i].left \in Nat /\ (i \in Held' => leases'[i].left \in Nat)
      BY <3>2 DEF TypeOK, Lease
    <3> QED
      BY <2>4, <3>1, <3>2, <3>3 DEF Kept
  <2> QED
    BY <2>5, <2>6
<1>2. CASE ~(id \in Watched /\ id \notin void /\ t > trust[id])
  <2>1. trust' = trust
    BY <1>2 DEF Trusts
  <2> QED
    BY <2>1, TrustKept
<1> QED
  BY <1>1, <1>2

(* A step that touches neither the table nor the answers.                   *)
LEMMA NothingTaken ==
    ASSUME TypeOK, TypeOK', PromiseInv, UNCHANGED <<leases, trust, void>>,
           OnTheWay' \subseteq OnTheWay
    PROVE  PromiseInv'
<1>1. \A id \in Watched : Kept(id)
  BY DEF Kept, Held, TypeOK, Lease
<1>2. ClientLeaseHolds'
  BY <1>1, TrustKept
<1>3. (\A a \in OnTheWay : AnswerHolds(a))'
  BY <1>1, AnswersKept
<1> QED
  BY <1>2, <1>3 DEF PromiseInv

(* Every step keeps the invariant of the promised deadlines.                *)
LEMMA PromiseStep ==
    ASSUME TypeOK, TypeOK', PromiseInv, [Next]_vars
    PROVE  PromiseInv'
<1> USE DEF vars, table, expiry, stream
<1>1. ASSUME NEW id \in LeaseIds, NEW t \in Ttls, LeaseGrant(id, t) PROVE PromiseInv'
  <2>1. CheckLeaseTtl(t) \in MinTtl .. MaxTtl /\ CheckLeaseTtl(t) \in Nat
    BY <1>1, GrantedTtl, TtlAssumption DEF LeaseGrant
  <2> HIDE DEF CheckLeaseTtl
  <2>2. /\ Held' = Held \cup {id} /\ leases'[id].left = CheckLeaseTtl(t)
        /\ \A i \in Held : leases'[i] = leases[i]
    <3>1. leases' = Store(id, CheckLeaseTtl(t)) /\ id \notin Held
      BY <1>1 DEF LeaseGrant
    <3>2. leases'[id] = [ttl |-> CheckLeaseTtl(t), left |-> CheckLeaseTtl(t)]
      BY <2>1, <3>1, StoreType
    <3>3. DOMAIN leases' = Held \cup {id}
      BY <2>1, <3>1, StoreType
    <3>4. \A i \in Held \ {id} : leases'[i] = leases[i]
      BY <3>1 DEF Store
    <3> QED
      BY <3>1, <3>2, <3>3, <3>4 DEF Held
  <2>3. \A i \in Watched : Kept(i)
    BY <2>2 DEF Kept, TypeOK, Lease
  <2>4. ClientLeaseHolds'
    BY <1>1, <2>1, <2>2, <2>3, TrustsHolds DEF LeaseGrant
  <2>5. OnTheWay' = OnTheWay /\ void' = void
    BY <1>1 DEF LeaseGrant, OnTheWay
  <2> QED
    BY <2>3, <2>4, <2>5, AnswersKept DEF PromiseInv
<1>2. ASSUME NEW id \in LeaseIds, LeaseRevoke(id) PROVE PromiseInv'
  <2>1. Held' = Held \ {id} /\ \A i \in Held' : leases'[i] = leases[i]
    <3>1. leases' = Remove({id})
      BY <1>2 DEF LeaseRevoke
    <3>2. DOMAIN Remove({id}) = Held \ {id} /\ \A i \in Held \ {id} : Remove({id})[i] = leases[i]
      BY RemoveType
    <3> QED
      BY <3>1, <3>2 DEF Held
  <2>2. /\ void' = void \cup ({id} \cap Watched)
        /\ trust' = [i \in Watched |-> IF i \in {id} THEN 0 ELSE trust[i]]
    BY <1>2 DEF LeaseRevoke, Distrusts
  <2>3. \A i \in Watched \ {id} : Kept(i) /\ trust'[i] = trust[i]
    BY <2>1, <2>2 DEF Kept, TypeOK, Lease
  <2>4. \A i \in Watched : trust'[i] > 0 => trust'[i] = trust[i] /\ Kept(i)
    BY <2>2, <2>3
  <2>5. ClientLeaseHolds'
    BY <2>4, TrustKept
  <2>6. OnTheWay' = OnTheWay /\ void \subseteq void' /\ \A i \in Watched \ void' : Kept(i)
    BY <1>2, <2>2, <2>3 DEF LeaseRevoke, OnTheWay
  <2> QED
    BY <2>5, <2>6, AnswersKept DEF PromiseInv
<1>3. ASSUME NEW id \in LeaseIds, LeaseTimeToLive(id) PROVE PromiseInv'
  <2>1. leases' = leases /\ Held' = Held /\ void' = void /\ OnTheWay' = OnTheWay
    BY <1>3 DEF LeaseTimeToLive, Held, OnTheWay
  <2>2. \A i \in Watched : Kept(i)
    BY <2>1 DEF Kept, TypeOK, Lease
  <2>3. id \in Held /\ leases[id].left \in Nat /\ Trusts(id, leases[id].left)
    BY <1>3 DEF LeaseTimeToLive, TypeOK, Lease
  <2>4. ClientLeaseHolds'
    BY <2>1, <2>2, <2>3, TrustsHolds
  <2> QED
    BY <2>1, <2>2, <2>4, AnswersKept DEF PromiseInv
<1>4. ASSUME NEW id \in LeaseIds, Attach(id) \/ Detach(id) PROVE PromiseInv'
  BY <1>4, NothingTaken DEF Attach, Detach, OnTheWay
<1>5. ASSUME NEW id \in Watched, ClientSends(id) PROVE PromiseInv'
  BY <1>5, NothingTaken DEF ClientSends, OnTheWay
<1>6. CASE ExpiryPlan \/ ExpirySelect \/ ExpiryTimer \/ ExpiryNotified
  BY <1>6, NothingTaken
  DEF ExpiryPlan, ExpirySelect, ExpiryTimer, ExpiryNotified, OnTheWay
<1>7. CASE ExpirySweep
  <2>1. Held' = Held \ Due /\ \A i \in Held' : leases'[i] = leases[i]
    BY <1>7, RemoveType DEF ExpirySweep, Held
  <2>2. \A i \in Watched : Kept(i)
    BY <2>1 DEF Kept, Due, TypeOK, Lease
  <2>3. OnTheWay' = OnTheWay /\ void' = void /\ trust' = trust
    BY <1>7 DEF ExpirySweep, OnTheWay
  <2> QED
    BY <2>2, <2>3, TrustKept, AnswersKept DEF PromiseInv
<1>8. CASE Connect \/ StreamEnds
  BY <1>8, NothingTaken DEF Connect, StreamEnds, OnTheWay
<1>9. CASE LeaseKeepAlive
  <2> DEFINE id == Head(inbox)
  <2>1. id \in LeaseIds /\ void' = void /\ trust' = trust /\ outbox' = outbox
    BY <1>9, TtlAssumption DEF LeaseKeepAlive, TypeOK
  <2>2. CASE id \in Held
    <3>1. leases[id].ttl \in MinTtl .. MaxTtl /\ leases[id].left <= leases[id].ttl
          /\ leases[id].left \in Nat
      BY <2>2 DEF TypeOK, Lease
    <3>2. /\ Held' = Held /\ leases'[id].left = leases[id].ttl
          /\ \A i \in Held \ {id} : leases'[i] = leases[i]
      <4>1. leases' = Store(id, leases[id].ttl)
        BY <1>9, <2>2 DEF LeaseKeepAlive, Renewed
      <4> HIDE DEF id
      <4>2. leases'[id] = [ttl |-> leases[id].ttl, left |-> leases[id].ttl]
        BY <2>1, <3>1, <4>1, StoreType
      <4>3. DOMAIN leases' = Held \cup {id}
        BY <2>1, <3>1, <4>1, StoreType
      <4>4. \A i \in Held \ {id} : leases'[i] = leases[i]
        BY <4>1 DEF Store
      <4> QED
        BY <2>2, <4>2, <4>3, <4>4 DEF Held
    <3>3. \A i \in Watched : Kept(i)
      <4> HIDE DEF id
      <4>1. \A i \in Held : leases[i].left \in Nat
        BY DEF TypeOK, Lease
      <4> QED
        BY <3>1, <3>2, <4>1 DEF Kept
    <3>4. reply' = [ok |-> TRUE, id |-> id, left |-> leases[id].ttl]
      BY <1>9, <2>2 DEF LeaseKeepAlive
    <3>5. ClientLeaseHolds'
      BY <2>1, <3>3, TrustKept
    <3>6. \A a \in OnTheWay' : a \in OnTheWay \/ a = reply'
      BY <2>1 DEF OnTheWay
    <3>7. SUFFICES ASSUME NEW a \in OnTheWay', a.ok, a.id \notin void', a.left > 0
                   PROVE  a.id \in Held' /\ a.left <= leases'[a.id].left
      BY <3>5 DEF AnswerHolds, PromiseInv
    <3>8. CASE a = reply'
      <4>1. a.id = id /\ a.left = leases[id].ttl
        BY <3>4, <3>8
      <4> HIDE DEF id
      <4> QED
        BY <2>2, <3>1, <3>2, <4>1, TtlAssumption
    <3>9. CASE a \in OnTheWay
      <4>1. a \in Answers
        BY <3>9, OnTheWayType
      <4>2. a.id \in Watched /\ a.left \in Nat
        BY <4>1 DEF Answers
      <4>3. a.id \in Held /\ a.left <= leases[a.id].left
        BY <2>1, <3>7, <3>9 DEF PromiseInv, AnswerHolds
      <4>4. leases[a.id].left \in Nat /\ (a.id \in Held' => leases'[a.id].left \in Nat)
        BY <4>3 DEF TypeOK, Lease
      <4>5. Kept(a.id)
        BY <3>3, <4>2
      <4> QED
        BY <3>7, <4>2, <4>3, <4>4, <4>5 DEF Kept
    <3> QED
      BY <3>6, <3>7, <3>8, <3>9
  <2>3. CASE id \notin Held
    <3>1. reply' = [ok |-> FALSE, id |-> id, left |-> 0] /\ leases' = leases /\ Held' = Held
      BY <1>9, <2>3 DEF LeaseKeepAlive, Held
    <3>2. \A i \in Watched : Kept(i)
      BY <3>1 DEF Kept, TypeOK, Lease
    <3>3. ClientLeaseHolds'
      BY <2>1, <3>2, TrustKept
    <3>4. \A a \in OnTheWay' : a \in OnTheWay \/ a = reply'
      BY <2>1 DEF OnTheWay
    <3>5. ~reply'.ok
      BY <3>1
    <3> QED
      BY <2>1, <3>1, <3>3, <3>4, <3>5 DEF PromiseInv, AnswerHolds
  <2> QED
    BY <2>2, <2>3
<1>10. CASE StreamSends
  <2>1. outbox' = outbox \/ outbox' = Append(outbox, reply)
    BY <1>10 DEF StreamSends
  <2>2. \A i \in 1 .. Len(outbox') :
            outbox'[i] = reply \/ (i \in 1 .. Len(outbox) /\ outbox'[i] = outbox[i])
    <3>1. outbox \in Seq(Answers) /\ reply \in Answers
      BY <1>10 DEF StreamSends, TypeOK
    <3>2. CASE outbox' = Append(outbox, reply)
      BY <3>1, <3>2
    <3>3. CASE outbox' = outbox
      BY <3>3
    <3> QED
      BY <2>1, <3>2, <3>3
  <2>3. OnTheWay' \subseteq OnTheWay
    BY <1>10, <2>2 DEF StreamSends, OnTheWay
  <2> QED
    BY <1>10, <2>3, NothingTaken DEF StreamSends
<1>11. ASSUME Hangup, reply' = reply PROVE OnTheWay' \subseteq OnTheWay
  <2>1. outbox' = <<>>
    BY <1>11 DEF Hangup
  <2>2. 1 .. Len(outbox') = {}
    BY <2>1
  <2> QED
    BY <1>11, <2>2 DEF OnTheWay
<1>12. CASE ClientLeaves
  BY <1>11, <1>12, NothingTaken DEF ClientLeaves
<1>13. CASE ClientReads
  <2> DEFINE a == Head(outbox)
  <2>1. a \in OnTheWay /\ a \in Answers /\ a.left \in Nat
    <3>1. 1 \in 1 .. Len(outbox) /\ a = outbox[1]
      BY <1>13 DEF ClientReads, TypeOK
    <3>2. a \in OnTheWay
      BY <3>1 DEF OnTheWay
    <3> QED
      BY <3>2, OnTheWayType DEF Answers
  <2>2. leases' = leases /\ Held' = Held /\ void' = void /\ reply' = reply
    BY <1>13 DEF ClientReads, Held
  <2>3. CASE a.ok
    <3>1. Trusts(a.id, a.left) /\ outbox # <<>> /\ outbox' = Tail(outbox)
      BY <1>13, <2>3 DEF ClientReads
    <3>2. \A i \in 1 .. Len(outbox') :
              i + 1 \in 1 .. Len(outbox) /\ outbox'[i] = outbox[i + 1]
      BY <3>1 DEF TypeOK
    <3>3. OnTheWay' \subseteq OnTheWay
      BY <2>2, <3>2 DEF OnTheWay
    <3>4. \A i \in Watched : Kept(i)
      BY <2>2 DEF Kept, TypeOK, Lease
    <3>5. a.id \notin void /\ a.left > 0 => a.id \in Held' /\ a.left <= leases'[a.id].left
      BY <2>1, <2>2, <2>3 DEF PromiseInv, AnswerHolds
    <3>6. ClientLeaseHolds'
      BY <2>1, <3>1, <3>4, <3>5, TrustsHolds
    <3> QED
      BY <2>2, <3>3, <3>4, <3>6, AnswersKept DEF PromiseInv
  <2>4. CASE ~a.ok
    BY <1>11, <1>13, <2>2, <2>4, NothingTaken DEF ClientReads
  <2> QED
    BY <2>3, <2>4
<1>14. CASE Restart
  <2> DEFINE ids == {i \in Watched : trust[i] > RestoredAs(i)}
  <2>1. trust' = [i \in Watched |-> IF i \in ids THEN 0 ELSE trust[i]]
    BY <1>14 DEF Restart, Distrusts
  <2>2. Held' = keyed /\ \A i \in keyed : leases'[i].left = RestoreTtl
    BY <1>14 DEF Restart, Held
  <2>3. ASSUME NEW i \in Watched, trust'[i] > 0
        PROVE  i \in Held' /\ trust'[i] <= leases'[i].left
    <3>1. trust[i] \in Nat /\ i \notin ids /\ trust'[i] = trust[i]
      BY <2>1, <2>3 DEF TypeOK
    <3>2. ~(trust[i] > RestoredAs(i))
      BY <3>1
    <3>3. i \in keyed /\ trust[i] <= RestoreTtl
      BY <2>3, <3>1, <3>2, TtlAssumption DEF RestoredAs
    <3> QED
      BY <2>2, <3>1, <3>3
  <2>4. OnTheWay' = {}
    <3>1. reply' = None /\ outbox' = <<>>
      BY <1>14 DEF Restart
    <3>2. 1 .. Len(outbox') = {}
      BY <3>1
    <3> QED
      BY <3>1, <3>2 DEF OnTheWay
  <2> QED
    BY <2>3, <2>4 DEF PromiseInv, ClientLeaseHolds
<1>15. CASE Tick
  <2>1. Held' = Held /\ \A i \in Held : leases'[i].left = Sooner(leases[i].left)
    BY <1>15 DEF Tick, Held, TypeOK, Lease
  <2>2. \A i \in Held : leases[i].left \in Nat
    BY DEF TypeOK, Lease
  <2>3. ClientLeaseHolds'
    <3>1. \A i \in Watched : trust'[i] = Sooner(trust[i]) /\ trust[i] \in Nat
      BY <1>15 DEF Tick, TypeOK
    <3> QED
      BY <2>1, <2>2, <3>1 DEF PromiseInv, ClientLeaseHolds, Sooner
  <2>4. ASSUME NEW b \in OnTheWay, AnswerHolds(b)
        PROVE  Aged(b).ok /\ Aged(b).id \notin void' /\ Aged(b).left > 0
                   => Aged(b).id \in Held' /\ Aged(b).left <= leases'[Aged(b).id].left
    <3>1. b \in Answers /\ b.left \in Nat
      BY OnTheWayType DEF Answers
    <3>2. Aged(b).ok = b.ok /\ Aged(b).id = b.id /\ Aged(b).left = Sooner(b.left)
      BY <3>1, AgedType
    <3>3. void' = void
      BY <1>15 DEF Tick
    <3> HIDE DEF Aged
    <3> QED
      BY <2>1, <2>2, <2>4, <3>1, <3>2, <3>3 DEF AnswerHolds, Sooner
  <2>5. ASSUME NEW a \in OnTheWay' PROVE \E b \in OnTheWay : a = Aged(b)
    <3>1. CASE a = reply' /\ a # None
      BY <1>15, <3>1 DEF Tick, OnTheWay
    <3>2. ASSUME NEW i \in 1 .. Len(outbox'), a = outbox'[i]
          PROVE  \E b \in OnTheWay : a = Aged(b)
      <4>1. DOMAIN outbox = 1 .. Len(outbox) /\ DOMAIN outbox' = 1 .. Len(outbox')
        BY DEF TypeOK
      <4>2. outbox' = [j \in DOMAIN outbox |-> Aged(outbox[j])]
        BY <1>15 DEF Tick
      <4>3. i \in 1 .. Len(outbox) /\ a = Aged(outbox[i])
        BY <3>2, <4>1, <4>2
      <4> QED
        BY <4>3 DEF OnTheWay
    <3> QED
      BY <2>5, <3>1, <3>2 DEF OnTheWay
  <2> QED
    BY <2>3, <2>4, <2>5 DEF PromiseInv, AnswerHolds
<1>16. CASE UNCHANGED vars
  BY <1>16, NothingTaken DEF OnTheWay
<1> QED
  BY <1>1, <1>2, <1>3, <1>4, <1>5, <1>6, <1>7, <1>8, <1>9, <1>10, <1>12, <1>13,
     <1>14, <1>15, <1>16
  DEF Next, ServeGrant, ServeRevoke, ServeTimeToLive, Refused

(* A client that was told that it has a lease for so long has it for so     *)
(* long, in every interleaving of grants, renewals, revocations, the expiry *)
(* task, the stream's answers and restarts.                                 *)
THEOREM ClientLeasesHold == Spec => []ClientLeaseHolds
<1>1. ASSUME Init PROVE PromiseInv
  <2>1. 1 .. Len(outbox) = {} /\ reply = None
    BY <1>1 DEF Init
  <2> QED
    BY <1>1, <2>1 DEF Init, PromiseInv, ClientLeaseHolds, OnTheWay
<1>2. TypeOK /\ TypeOK' /\ PromiseInv /\ [Next]_vars => PromiseInv'
  BY PromiseStep
<1>3. PromiseInv => ClientLeaseHolds
  BY DEF PromiseInv
<1> QED
  BY <1>1, <1>2, <1>3, TypeCorrect, PTL DEF Spec

-----------------------------------------------------------------------------
(* The lease table implements LeaseSpec.                                    *)

(* What is left of the table once some leases are gone.                     *)
LEMMA RemoveForgets ==
    ASSUME TypeOK, NEW ids \in SUBSET Held, leases' = Remove(ids)
    PROVE  LeaseTable!Forget(ids)
<1>1. Held' = Held \ ids /\ \A i \in Held \ ids : leases'[i] = leases[i]
  BY DEF Remove, Held
<1>2. TtlOf' = [i \in LeaseIds |-> IF i \in ids THEN 0 ELSE TtlOf[i]]
  BY <1>1 DEF TtlOf
<1>3. LeftOf' = [i \in LeaseIds |-> IF i \in ids THEN 0 ELSE LeftOf[i]]
  BY <1>1 DEF LeftOf
<1> QED
  BY <1>1, <1>2, <1>3 DEF LeaseTable!Forget

(* Every step is one of the abstract lease table, or leaves it alone.       *)
LEMMA TableStep ==
    ASSUME TypeOK, [Next]_vars
    PROVE  [LeaseTable!Next]_(LeaseTable!avars)
<1> USE DEF vars, table, expiry, stream
<1>0. ASSUME leases' = leases PROVE UNCHANGED LeaseTable!avars
  BY <1>0 DEF LeaseTable!avars, Held, TtlOf, LeftOf
<1>1. ASSUME NEW id \in LeaseIds, NEW t \in Ttls, LeaseGrant(id, t)
      PROVE  LeaseTable!Next
  <2> DEFINE c == CheckLeaseTtl(t)
  <2>1. c \in MinTtl .. MaxTtl /\ id \notin Held /\ leases' = Store(id, c)
    BY <1>1, GrantedTtl DEF LeaseGrant
  <2> HIDE DEF c
  <2>2. Held' = Held \cup {id} /\ \A i \in Held \ {id} : leases'[i] = leases[i]
    BY <2>1 DEF Store, Held
  <2>3. leases'[id].ttl = c /\ leases'[id].left = c
    BY <2>1 DEF Store
  <2>4. TtlOf' = [TtlOf EXCEPT ![id] = c] /\ LeftOf' = [LeftOf EXCEPT ![id] = c]
    BY <2>1, <2>2, <2>3 DEF TtlOf, LeftOf
  <2>5. LeaseTable!Grant(id, c)
    BY <2>1, <2>2, <2>4 DEF LeaseTable!Grant
  <2> QED
    BY <2>1, <2>5 DEF LeaseTable!Next
<1>2. ASSUME NEW id \in LeaseIds, LeaseRevoke(id) PROVE LeaseTable!Next
  <2>1. id \in Held /\ LeaseTable!Forget({id})
    BY <1>2, RemoveForgets DEF LeaseRevoke
  <2> QED
    BY <2>1 DEF LeaseTable!Next, LeaseTable!Revoke
<1>3. CASE ExpirySweep
  <2>1. LeaseTable!Forget(Due)
    BY <1>3, RemoveForgets DEF ExpirySweep, Due
  <2>2. Due \subseteq LeaseTable!Due /\ Due \in SUBSET LeaseIds
    BY DEF Due, LeaseTable!Due, LeftOf, TypeOK
  <2>3. CASE Due = {}
    <3>1. leases' = leases
      BY <1>3, <2>3 DEF ExpirySweep, Remove, Held, TypeOK
    <3> QED
      BY <1>0, <3>1
  <2>4. CASE Due # {}
    BY <2>1, <2>2, <2>4 DEF LeaseTable!Next, LeaseTable!Expire
  <2> QED
    BY <2>3, <2>4
<1>4. CASE LeaseKeepAlive
  <2> DEFINE id == Head(inbox)
  <2>1. id \in LeaseIds
    BY <1>4, TtlAssumption DEF LeaseKeepAlive, TypeOK
  <2>2. CASE id \in Held
    <3>1. leases' = Store(id, leases[id].ttl)
      BY <1>4, <2>2 DEF LeaseKeepAlive, Renewed
    <3> HIDE DEF id
    <3>2. Held' = Held /\ \A i \in Held \ {id} : leases'[i] = leases[i]
      BY <2>2, <3>1 DEF Store, Held
    <3>3. leases'[id].ttl = leases[id].ttl /\ leases'[id].left = leases[id].ttl
      BY <3>1 DEF Store
    <3>4. TtlOf' = TtlOf /\ LeftOf' = [LeftOf EXCEPT ![id] = TtlOf[id]]
      BY <2>1, <2>2, <3>2, <3>3 DEF TtlOf, LeftOf
    <3>5. LeaseTable!Renew(id)
      BY <2>2, <3>2, <3>4 DEF LeaseTable!Renew
    <3> QED
      BY <2>1, <3>5 DEF LeaseTable!Next
  <2>3. CASE id \notin Held
    BY <1>0, <1>4, <2>3 DEF LeaseKeepAlive
  <2> QED
    BY <2>2, <2>3
<1>5. CASE Restart
  <2>1. leases' = [id \in keyed |-> [ttl |-> RestoreTtl, left |-> RestoreTtl]]
    BY <1>5 DEF Restart
  <2>2. Held' = keyed /\ keyed \in SUBSET LeaseIds
    BY <2>1 DEF Held, TypeOK
  <2>3. TtlOf' = [id \in LeaseIds |-> IF id \in keyed THEN RestoreTtl ELSE 0]
    BY <2>1, <2>2 DEF TtlOf
  <2>4. LeftOf' = [id \in LeaseIds |-> IF id \in keyed THEN RestoreTtl ELSE 0]
    BY <2>1, <2>2 DEF LeftOf
  <2>5. LeaseTable!Restart(keyed)
    BY <2>2, <2>3, <2>4 DEF LeaseTable!Restart
  <2> QED
    BY <2>2, <2>5 DEF LeaseTable!Next
<1>6. CASE Tick
  <2>1. Held' = Held
    BY <1>6 DEF Tick, Held
  <2>2. \A id \in Held : /\ leases'[id].ttl = leases[id].ttl
                         /\ leases'[id].left = Sooner(leases[id].left)
    BY <1>6 DEF Tick, TypeOK, Lease
  <2>3. TtlOf' = TtlOf
    BY <2>1, <2>2 DEF TtlOf
  <2>4. LeftOf' = [id \in LeaseIds |-> IF LeftOf[id] = 0 THEN 0 ELSE LeftOf[id] - 1]
    BY <2>1, <2>2 DEF LeftOf, Sooner
  <2>5. LeaseTable!Tick
    BY <2>1, <2>3, <2>4 DEF LeaseTable!Tick
  <2> QED
    BY <2>5 DEF LeaseTable!Next
<1>7. CASE \/ \E id \in LeaseIds : LeaseTimeToLive(id) \/ Attach(id) \/ Detach(id)
           \/ \E id \in Watched : ClientSends(id)
           \/ ExpiryPlan \/ ExpirySelect \/ ExpiryTimer \/ ExpiryNotified
           \/ Connect \/ StreamSends \/ StreamEnds \/ ClientLeaves \/ ClientReads
           \/ UNCHANGED vars
  <2>1. leases' = leases
    BY <1>7 DEF LeaseTimeToLive, Attach, Detach, ClientSends, ExpiryPlan, ExpirySelect,
                ExpiryTimer, ExpiryNotified, Connect, StreamSends, StreamEnds,
                ClientLeaves, ClientReads
  <2> QED
    BY <1>0, <2>1
<1> QED
  BY <1>1, <1>2, <1>3, <1>4, <1>5, <1>6, <1>7
  DEF Next, ServeGrant, ServeRevoke, ServeTimeToLive, Refused

(* The table goes through the steps that LeaseSpec allows and no others: a  *)
(* lease appears only by a grant within the limits or a restart, is renewed *)
(* to its own TTL, and goes only when it is revoked, lost by a restart, or  *)
(* swept after its time has run out.                                        *)
THEOREM LeaseTableRefines == Spec => LeaseSafety
<1>1. Init => LeaseTable!Init
  BY DEF Init, NoLeases, LeaseTable!Init, Held, TtlOf, LeftOf
<1>2. TypeOK /\ [Next]_vars => [LeaseTable!Next]_(LeaseTable!avars)
  BY TableStep
<1> QED
  BY <1>1, <1>2, TypeCorrect, PTL DEF Spec, LeaseSafety, LeaseTable!Safety
=============================================================================
