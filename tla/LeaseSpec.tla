----------------------------- MODULE LeaseSpec -----------------------------
(***************************************************************************)
(* What a lease promises: it is there from its grant until it is revoked,  *)
(* or until its time has run out and was not renewed; once it has run out  *)
(* it does go away.  Time is what is left of each lease.  A restart of the *)
(* server may forget a lease and gives the others a time of its own.       *)
(***************************************************************************)
EXTENDS Naturals

CONSTANTS
    LeaseIds,     \* the leases of the instance
    MinTtl,       \* the shortest time that is granted
    MaxTtl,       \* the longest
    RestoreTtl    \* the time a lease has after a restart

VARIABLES
    held,         \* the leases that exist
    ttl,          \* the time each was granted, 0 if it does not exist
    left          \* what is left of it

avars == <<held, ttl, left>>

Init == held = {} /\ ttl = [id \in LeaseIds |-> 0] /\ left = [id \in LeaseIds |-> 0]

Due == {id \in held : left[id] = 0}

Grant(id, t) ==
    /\ id \notin held
    /\ held' = held \cup {id}
    /\ ttl' = [ttl EXCEPT ![id] = t] /\ left' = [left EXCEPT ![id] = t]

Renew(id) ==
    /\ id \in held
    /\ left' = [left EXCEPT ![id] = ttl[id]]
    /\ UNCHANGED <<held, ttl>>

Forget(ids) ==
    /\ held' = held \ ids
    /\ ttl' = [id \in LeaseIds |-> IF id \in ids THEN 0 ELSE ttl[id]]
    /\ left' = [id \in LeaseIds |-> IF id \in ids THEN 0 ELSE left[id]]

Revoke(id) == id \in held /\ Forget({id})

Expire(ids) == ids # {} /\ ids \subseteq Due /\ Forget(ids)

Tick ==
    /\ left' = [id \in LeaseIds |-> IF left[id] = 0 THEN 0 ELSE left[id] - 1]
    /\ UNCHANGED <<held, ttl>>

Restart(ids) ==
    /\ held' = ids
    /\ ttl' = [id \in LeaseIds |-> IF id \in ids THEN RestoreTtl ELSE 0]
    /\ left' = ttl'

Next ==
    \/ \E id \in LeaseIds : Renew(id) \/ Revoke(id) \/ \E t \in MinTtl .. MaxTtl : Grant(id, t)
    \/ \E ids \in SUBSET LeaseIds : Expire(ids) \/ Restart(ids)
    \/ Tick

(* A lease that has run out does not stay.                                  *)
Expiry == \A id \in LeaseIds : (id \in Due) ~> (id \notin Due)

Safety == Init /\ [][Next]_avars
Spec == Safety /\ Expiry
=============================================================================
