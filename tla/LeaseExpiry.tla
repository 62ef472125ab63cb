---------------------------- MODULE LeaseExpiry ----------------------------
(***************************************************************************)
(* Leases in time: the lease operations of storage/store.rs, the expiry    *)
(* task of storage/background.rs and the lease service of server/lease.rs  *)
(* with its keep-alive stream.                                             *)
(*                                                                         *)
(* Instants are kept as the time that is left until them, so that the      *)
(* model is finite and runs for ever: `left` of a lease is expires_at minus *)
(* now, `sleep` is what is left of the timer of the task, `left` of an     *)
(* answer is the TTL in it minus its age.  A tick may fall between any two *)
(* steps; one unit is a second.                                            *)
(*                                                                         *)
(* The deletes of a lease's keys are records of the log (module KvStore);  *)
(* here `keyed` says which leases have live keys, which is what a restart  *)
(* rebuilds the lease table from.                                          *)
(***************************************************************************)
EXTENDS Integers, Sequences, FiniteSetsExt

CONSTANTS
    LeaseIds,      \* the ids of the instance
    Watched,       \* those that the client of the stream keeps alive
    Ttls,          \* the TTLs a client may ask for
    MinTtl,        \* LEASE_MIN_TTL
    MaxTtl,        \* LEASE_MAX_TTL
    RestoreTtl,    \* default_ttl of Store::open
    Forever,       \* Duration::MAX
    ChannelCap,    \* capacity of the channel of a keep-alive stream
    MaxInFlight    \* bound: requests on their way to the server

ASSUME TtlAssumption ==
    /\ Watched \subseteq LeaseIds /\ Ttls \subseteq Int /\ Forever \notin Int
    /\ MinTtl \in Nat \ {0} /\ MaxTtl \in Nat /\ RestoreTtl \in MinTtl .. MaxTtl
    /\ ChannelCap \in Nat \ {0} /\ MaxInFlight \in Nat

VARIABLES
    leases,        \* StoreState.leases: id -> [ttl, left]
    keyed,         \* the leases some live key is attached to
    permit,        \* expiry_notify holds a notification
    pc, sleep,     \* the expiry task and its sleep_dur
    \* a keep-alive stream: is its task running, is its client there, the
    \* requests on their way, the answer being sent, the channel
    task, client, inbox, reply, outbox,
    \* history: how long the client may count on each lease; the leases for
    \* which it may not (revoked, or not restored as they were by a restart)
    trust, void

table == <<leases, keyed>>
expiry == <<pc, sleep>>
stream == <<task, client, inbox, reply, outbox>>
vars == <<table, permit, expiry, stream, trust, void>>

None == <<>>
NoLeases == [id \in {} |-> None]
Held == DOMAIN leases
Due == {id \in Held : leases[id].left = 0}

Init ==
    /\ leases = NoLeases /\ keyed = {} /\ permit = FALSE
    /\ pc = "plan" /\ sleep = Forever
    /\ task = FALSE /\ client = FALSE /\ inbox = <<>> /\ reply = None /\ outbox = <<>>
    /\ trust = [id \in Watched |-> 0] /\ void = {}

-----------------------------------------------------------------------------
(* The lease table.                                                         *)

(* Mutant: short TTLs are taken as they are.                                *)
CheckLeaseTtlAny(t) == t

(* The TTL that is granted for the one that is asked for.                   *)
CheckLeaseTtl(t) == IF t < MinTtl THEN MinTtl ELSE t

Store(id, t) == [i \in Held \cup {id} |-> IF i = id THEN [ttl |-> t, left |-> t] ELSE leases[i]]
Remove(ids) == [i \in Held \ ids |-> leases[i]]

(* Mutant: only a task that is waiting is woken (notify_waiters).           *)
NotifyOneWaiters == permit' = (permit \/ pc = "wait")

(* tokio's Notify keeps one notification until somebody waits for it.       *)
NotifyOne == permit' = TRUE

(* The client may count on a lease for so long.                             *)
Trusts(id, t) ==
    trust' = IF id \in Watched /\ id \notin void /\ t > trust[id]
             THEN [trust EXCEPT ![id] = t] ELSE trust

(* From now on the client is promised nothing about the leases ids.         *)
Distrusts(ids) ==
    /\ void' = void \cup (ids \cap Watched)
    /\ trust' = [id \in Watched |-> IF id \in ids THEN 0 ELSE trust[id]]

LeaseGrant(id, t) ==
    /\ t <= MaxTtl /\ id \notin Held
    /\ leases' = Store(id, CheckLeaseTtl(t))
    /\ NotifyOne
    /\ Trusts(id, CheckLeaseTtl(t))
    /\ UNCHANGED <<keyed, expiry, stream, void>>

(* delete_keys_for_lease of each of the leases ids; a failed append is      *)
(* logged, or returned, and the keys stay.                                  *)
DeleteKeysForLease(ids) ==
    \E failed \in SUBSET (ids \cap keyed) : keyed' = keyed \ (ids \ failed)

LeaseRevoke(id) ==
    /\ id \in Held
    /\ leases' = Remove({id})
    /\ NotifyOne
    /\ DeleteKeysForLease({id})
    /\ Distrusts({id})
    /\ UNCHANGED <<expiry, stream>>

(* Mutant: the deadline is not moved.                                       *)
RenewedNot(id) == leases

(* The table after lease_keep_alive: the full TTL again, also for a lease   *)
(* that has run out and is still there.                                     *)
Renewed(id) == Store(id, leases[id].ttl)

(* The time left is reported; -1, and nothing to count on, without a lease. *)
LeaseTimeToLive(id) ==
    /\ id \in Held
    /\ Trusts(id, leases[id].left)
    /\ UNCHANGED <<table, permit, expiry, stream, void>>

(* A put with a lease needs the lease; an overwrite, a delete or a put      *)
(* with another lease takes its last key away.                              *)
Attach(id) ==
    /\ id \in Held /\ keyed' = keyed \cup {id}
    /\ UNCHANGED <<leases, permit, expiry, stream, trust, void>>

Detach(id) ==
    /\ id \in keyed /\ keyed' = keyed \ {id}
    /\ UNCHANGED <<leases, permit, expiry, stream, trust, void>>

-----------------------------------------------------------------------------
(* The unary calls of the service pass on the answer or the error, which    *)
(* leaves everything as it is.                                              *)
Refused == UNCHANGED vars

ServeGrant(id, t) ==
    \/ LeaseGrant(id, t)
    \/ (t > MaxTtl \/ id \in Held) /\ Refused

ServeRevoke(id) ==
    \/ LeaseRevoke(id)
    \/ id \notin Held /\ Refused

ServeTimeToLive(id) ==
    \/ LeaseTimeToLive(id)
    \/ id \notin Held /\ Refused

-----------------------------------------------------------------------------
(* start_expiry_task.                                                       *)

(* Under the read lock: the time until the earliest deadline.               *)
ExpiryPlan ==
    /\ pc = "plan"
    /\ sleep' = IF Held = {} THEN Forever ELSE Min({leases[id].left : id \in Held})
    /\ pc' = "select"
    /\ UNCHANGED <<table, permit, stream, trust, void>>

(* The timer starts now, some time after sleep_dur was computed.            *)
ExpirySelect ==
    /\ pc = "select" /\ pc' = "wait"
    /\ UNCHANGED <<table, permit, sleep, stream, trust, void>>

ExpiryTimer ==
    /\ pc = "wait" /\ sleep = 0
    /\ pc' = "sweep" /\ sleep' = Forever
    /\ UNCHANGED <<table, permit, stream, trust, void>>

ExpiryNotified ==
    /\ pc = "wait" /\ permit
    /\ permit' = FALSE
    /\ pc' = "sweep" /\ sleep' = Forever
    /\ UNCHANGED <<table, stream, trust, void>>

(* Under the write lock: all leases that are due go, whatever was planned.  *)
(* If there were any the task notifies itself before it plans again; nobody *)
(* else takes a notification, so that this is part of the step.             *)
ExpirySweep ==
    /\ pc = "sweep" /\ pc' = "plan"
    /\ leases' = Remove(Due)
    /\ DeleteKeysForLease(Due)
    /\ IF Due = {} THEN UNCHANGED permit ELSE NotifyOne
    /\ UNCHANGED <<sleep, stream, trust, void>>

-----------------------------------------------------------------------------
(* The keep-alive stream.                                                   *)

Connect ==
    /\ ~task /\ ~client
    /\ task' = TRUE /\ client' = TRUE
    /\ UNCHANGED <<table, permit, expiry, inbox, reply, outbox, trust, void>>

ClientSends(id) ==
    /\ client /\ Len(inbox) < MaxInFlight
    /\ inbox' = Append(inbox, id)
    /\ UNCHANGED <<table, permit, expiry, task, client, reply, outbox, trust, void>>

(* A request is read and carried out; the answer is still to be sent.       *)
LeaseKeepAlive ==
    /\ task /\ reply = None /\ inbox # <<>>
    /\ LET id == Head(inbox) IN
       IF id \in Held
       THEN /\ leases' = Renewed(id)
            /\ NotifyOne
            /\ reply' = [ok |-> TRUE, id |-> id, left |-> leases[id].ttl]
       ELSE /\ UNCHANGED <<leases, permit>>
            /\ reply' = [ok |-> FALSE, id |-> id, left |-> 0]
    /\ inbox' = Tail(inbox)
    /\ UNCHANGED <<keyed, expiry, task, client, outbox, trust, void>>

(* The send waits for room in the channel, and fails if the receiver is     *)
(* gone: that ends the task, but not if it was an error that was sent.      *)
StreamSends ==
    /\ reply # None
    /\ IF client
       THEN Len(outbox) < ChannelCap /\ outbox' = Append(outbox, reply) /\ UNCHANGED task
       ELSE task' = ~reply.ok /\ UNCHANGED outbox
    /\ reply' = None
    /\ UNCHANGED <<table, permit, expiry, client, inbox, trust, void>>

(* Mutant: the end of the requests is not the end of the task.              *)
StreamEndsNever == ~client /\ UNCHANGED vars

(* No more requests.                                                        *)
StreamEnds ==
    /\ task /\ reply = None /\ inbox = <<>> /\ ~client
    /\ task' = FALSE
    /\ UNCHANGED <<table, permit, expiry, client, inbox, reply, outbox, trust, void>>

(* The client leaves; some of what it sent may not arrive any more.         *)
Hangup ==
    /\ client' = FALSE /\ outbox' = <<>>
    /\ \E n \in 0 .. Len(inbox) : inbox' = SubSeq(inbox, 1, n)

ClientLeaves ==
    /\ client /\ Hangup
    /\ UNCHANGED <<table, permit, expiry, task, reply, trust, void>>

(* An error is the last thing a stream of answers carries.                  *)
ClientReads ==
    /\ client /\ outbox # <<>>
    /\ LET a == Head(outbox) IN
       IF a.ok
       THEN Trusts(a.id, a.left) /\ outbox' = Tail(outbox) /\ UNCHANGED <<client, inbox>>
       ELSE Hangup /\ UNCHANGED trust
    /\ UNCHANGED <<table, permit, expiry, task, reply, void>>

-----------------------------------------------------------------------------
(* The server is killed and started again: leases come back for the keys    *)
(* that are attached to one, all with the same TTL.                         *)
RestoredAs(id) == IF id \in keyed THEN RestoreTtl ELSE 0

Restart ==
    /\ leases' = [id \in keyed |-> [ttl |-> RestoreTtl, left |-> RestoreTtl]]
    /\ Distrusts({id \in Watched : trust[id] > RestoredAs(id)})
    /\ permit' = FALSE /\ pc' = "plan" /\ sleep' = Forever
    /\ task' = FALSE /\ client' = FALSE
    /\ inbox' = <<>> /\ reply' = None /\ outbox' = <<>>
    /\ UNCHANGED keyed

-----------------------------------------------------------------------------
Sooner(n) == IF n = 0 THEN 0 ELSE n - 1
Aged(a) == [a EXCEPT !.left = Sooner(@)]

Tick ==
    /\ leases' = [id \in Held |-> [leases[id] EXCEPT !.left = Sooner(@)]]
    /\ sleep' = IF pc = "wait" /\ sleep # Forever THEN Sooner(sleep) ELSE sleep
    /\ trust' = [id \in Watched |-> Sooner(trust[id])]
    /\ outbox' = [i \in DOMAIN outbox |-> Aged(outbox[i])]
    /\ reply' = IF reply = None THEN None ELSE Aged(reply)
    /\ UNCHANGED <<keyed, inbox, permit, pc, task, client, void>>

Next ==
    \/ \E id \in LeaseIds :
          \/ \E t \in Ttls : ServeGrant(id, t)
          \/ ServeRevoke(id) \/ ServeTimeToLive(id)
          \/ Attach(id) \/ Detach(id)
    \/ \E id \in Watched : ClientSends(id)
    \/ ExpiryPlan \/ ExpirySelect \/ ExpiryTimer \/ ExpiryNotified
    \/ ExpirySweep
    \/ Connect \/ LeaseKeepAlive \/ StreamSends \/ StreamEnds
    \/ ClientLeaves \/ ClientReads
    \/ Restart
    \/ Tick

(* Time passes, and the runtime runs the two tasks.                         *)
Fairness ==
    /\ WF_vars(Tick)
    /\ WF_vars(ExpiryPlan) /\ WF_vars(ExpirySelect) /\ WF_vars(ExpiryTimer)
    /\ WF_vars(ExpiryNotified) /\ WF_vars(ExpirySweep)
    /\ WF_vars(LeaseKeepAlive) /\ WF_vars(StreamSends) /\ WF_vars(StreamEnds)

Spec == Init /\ [][Next]_vars /\ Fairness

-----------------------------------------------------------------------------
(* Properties.                                                              *)

Lease == [ttl: MinTtl .. MaxTtl, left: 0 .. MaxTtl]
Answers == [ok: BOOLEAN, id: Watched, left: 0 .. MaxTtl]

(* Every variable has its type; what is left of a lease is within its TTL.  *)
TypeOK ==
    /\ Held \subseteq LeaseIds /\ leases \in [Held -> Lease]
    /\ \A id \in Held : leases[id].left <= leases[id].ttl
    /\ keyed \subseteq LeaseIds /\ permit \in BOOLEAN
    /\ pc \in {"plan", "select", "wait", "sweep"} /\ sleep \in 0 .. MaxTtl \cup {Forever}
    /\ task \in BOOLEAN /\ client \in BOOLEAN /\ (client => task)
    /\ inbox \in Seq(Watched) /\ reply \in Answers \cup {None}
    /\ outbox \in Seq(Answers) /\ Len(outbox) <= ChannelCap
    /\ trust \in [Watched -> 0 .. MaxTtl] /\ void \subseteq Watched

(* A client that was told that it has a lease for so long does have it for  *)
(* so long, counted from when the answer was made: the expiry task never    *)
(* takes a lease away on the strength of a deadline that was moved          *)
(* meanwhile, however late the answers arrive.  A restart keeps this,       *)
(* "conservative so nothing expires prematurely" (store.rs), for leases     *)
(* with keys and a TTL within the default.                                  *)
ClientLeaseHolds ==
    \A id \in Watched : trust[id] > 0 => id \in Held /\ trust[id] <= leases[id].left

(* For its proof: the same of the answers that are still on their way.      *)
OnTheWay == ({reply} \ {None}) \cup {outbox[i] : i \in 1 .. Len(outbox)}
AnswerHolds(a) ==
    a.ok /\ a.id \notin void /\ a.left > 0
        => a.id \in Held /\ a.left <= leases[a.id].left
PromiseInv == ClientLeaseHolds /\ \A a \in OnTheWay : AnswerHolds(a)

(* The task of a keep-alive stream ends once its client is gone.            *)
StreamTaskEnds == ~client ~> ~task

(* LeaseSpec is what the lease table, its expiry task and its service       *)
(* implement: leases go only when revoked, restarted or run out, and one    *)
(* that has run out goes in the end, although the task sleeps on a plan     *)
(* that grants, renewals and revocations overtake.                          *)
TtlOf == [id \in LeaseIds |-> IF id \in Held THEN leases[id].ttl ELSE 0]
LeftOf == [id \in LeaseIds |-> IF id \in Held THEN leases[id].left ELSE 0]
LeaseTable == INSTANCE LeaseSpec WITH held <- Held, ttl <- TtlOf, left <- LeftOf

LeaseContract == LeaseTable!Spec

(* What the proofs show of it: every step is one of the table or leaves the *)
(* table as it is.                                                          *)
LeaseSafety == LeaseTable!Safety
=============================================================================
