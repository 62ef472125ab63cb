------------------------------ MODULE WatchHub ------------------------------
(***************************************************************************)
(* The watch service: server/watch.rs (stream tasks, the global loop that  *)
(* batches creates, the two replay phases, the forwarders) and the         *)
(* registry of storage/watcher.rs, with the writers and the compaction of  *)
(* the log that run between its steps.                                     *)
(*                                                                         *)
(* A create request is known by its number, in order of arrival.  Its      *)
(* state: "queued" to the global loop, in its "batch", "answered" by it,   *)
(* "open" once its stream has sent `created` and started the forwarder     *)
(* ("ticking" while that sends a progress notification), "ended".          *)
(* Filters are left out, prev_kv is always asked for, and the channel to   *)
(* the client (4096 slots) never fills up.                                 *)
(***************************************************************************)
EXTENDS KeyLog

CONSTANTS
    Streams,          \* client streams
    Bounds,           \* the sets of keys a range bound can denote
    WatchIds,         \* watch ids in create requests; 0 is "choose for me"
    MaxGap,           \* how far in the future a start may be (10 000)
    MaxRev,           \* bound: revisions
    MaxCreates,       \* bound: create requests
    MaxRequests,      \* bound: cancels, progress requests, ticks, disconnects
    MaxCompactions    \* bound: runs of compact_wal

ASSUME RequestsAssumption == WatchIds \subseteq Nat /\ Bounds \subseteq SUBSET Keys
ASSUME BoundsAssumption == MaxGap \in Nat /\ MaxRev \in Nat

VARIABLES
    keys, next_rev, compact_rev, wal,   \* StoreState and the log
    registry,                           \* state.watchers, as request numbers
    creates,                            \* the create requests
    queue,                              \* of each, event_tx ... event_rx
    next_watch_id,                      \* NEXT_WATCH_ID
    awaits,                             \* the create a stream task awaits, or 0
    up,                                 \* streams whose client is there
    loop, cp, prev_kv,                  \* locals of the global loop
    gc,                                 \* compact_wal before its swap
    requests, compactions,
    \* history: got is what was sent for a create, progress the revision of
    \* the last progress response of a stream, events all events, floor and
    \* epoch the last snapshot in the log and how many there were; hurt are
    \* the creates whose replay met a compacted log, early the ones whose
    \* start was still to come
    got, progress, events, floor, epoch, hurt, early

store == <<keys, next_rev, wal, events>>
hub == <<loop, cp, prev_kv, hurt, early>>
collector == <<gc, compactions, floor, epoch>>
clients == <<awaits, up, next_watch_id, requests, progress>>
vars == <<store, compact_rev, registry, creates, queue, got, hub, collector, clients>>

current_revision == next_rev - 1
NoGc == [on |-> FALSE, recs |-> <<>>, mark |-> 0, rev |-> 0]
NoCp == [rev |-> 0, off |-> 0, epoch |-> 0]
NoPrev == [k \in Keys |-> 0]

(* prev is the mod_revision of the previous version, 0 if there is none.    *)
Events == [rev: Nat, key: Keys, deleted: BOOLEAN, prev: Nat]
Event(rec, prev) ==
    [rev |-> rec.mod_revision, key |-> rec.key, deleted |-> rec.deleted, prev |-> prev]

(* The members of a sequence that are in a set, in their order.             *)
AmongSteps(s, S) ==
    LET found[i \in 0 .. Len(s)] ==
            IF i = 0 THEN <<>>
            ELSE IF s[i] \in S THEN Append(found[i - 1], s[i]) ELSE found[i - 1]
    IN  found
Among(s, S) == AmongSteps(s, S)[Len(s)]

Are(states) == {c \in DOMAIN creates : creates[c].state \in states}

-----------------------------------------------------------------------------
Init ==
    /\ keys = EmptyTable /\ next_rev = 1 /\ compact_rev = 0 /\ wal = <<>>
    /\ registry = {} /\ creates = <<>> /\ queue = <<>> /\ next_watch_id = 1
    /\ awaits = [s \in Streams |-> 0] /\ up = Streams
    /\ loop = "collect" /\ cp = NoCp /\ prev_kv = NoPrev
    /\ gc = NoGc /\ requests = 0 /\ compactions = 0
    /\ got = <<>> /\ progress = [s \in Streams |-> 0]
    /\ events = <<>> /\ floor = 0 /\ epoch = 0 /\ hurt = {} /\ early = {}

-----------------------------------------------------------------------------
(* Writers.  notify_watchers puts the event into the queue of every         *)
(* registered watcher that wants it, under the write lock of the write.     *)

Wants(c, e) == e.key \in creates[c].bound
Since(c) == {e \in Events : e.rev >= creates[c].start}
Wanted(c) == {e \in Events : Wants(c, e)}

(* A send to a queue whose receiver is gone fails and is only logged.       *)
Deliver(new) ==
    queue' = [c \in DOMAIN queue |->
        IF c \in DOMAIN new /\ creates[c].state # "ended"
        THEN queue[c] \o new[c] ELSE queue[c]]

NotifyWatchers(e) ==
    Deliver([c \in {w \in registry : e \in Wanted(w) \cap Since(w)} |-> <<e>>])

Committed(rec, table) ==
    LET e == Event(rec, IF Alive(keys, rec.key) THEN keys[rec.key].mod_revision ELSE 0) IN
    /\ next_rev <= MaxRev /\ next_rev' = next_rev + 1
    /\ wal' = Append(wal, rec) /\ keys' = table
    /\ events' = Append(events, e)
    /\ NotifyWatchers(e)
    /\ UNCHANGED <<compact_rev, registry, creates, got, hub, collector, clients>>

Put(k) ==
    Committed(PutRecord(keys, k, EmptyValue, 0, next_rev),
              ApplyPut(keys, k, EmptyValue, 0, next_rev))

Delete(k) ==
    /\ Alive(keys, k)
    /\ Committed(DeleteRecord(keys, k, next_rev), ApplyDelete(keys, k, next_rev))

Compact(rev) ==
    /\ rev <= current_revision
    /\ rev > compact_rev
    /\ compact_rev' = rev
    /\ UNCHANGED <<store, registry, creates, queue, got, hub, collector, clients>>

CompactSnapshot ==
    /\ ~gc.on
    /\ compactions < MaxCompactions /\ compactions' = compactions + 1
    /\ gc' = [on |-> TRUE, recs |-> SnapshotRecords(keys), mark |-> Len(wal),
              rev |-> current_revision]
    /\ UNCHANGED <<store, compact_rev, registry, creates, queue, got, hub, floor,
                   epoch, clients>>

CompactSwap ==
    /\ gc.on
    /\ wal' = gc.recs \o SubSeq(wal, gc.mark + 1, Len(wal))
    /\ gc' = NoGc /\ floor' = gc.rev /\ epoch' = epoch + 1
    /\ UNCHANGED <<keys, next_rev, events, compact_rev, registry, creates, queue,
                   got, hub, compactions, clients>>

-----------------------------------------------------------------------------
(* The task of a stream reads one request at a time.                        *)

Reads(s) == s \in up /\ awaits[s] = 0

(* No start_revision is "now", the moment the request is read.              *)
ResolveStart(requested) ==
    IF requested = 0 THEN current_revision + 1 ELSE requested

(* The id and the start are settled, the request goes to the global loop    *)
(* and the task waits for the reply.                                        *)
CreateRequest(s, id, bound, requested) ==
    /\ Reads(s)
    /\ Len(creates) < MaxCreates
    /\ creates' = Append(creates,
          [stream |-> s, id |-> IF id = 0 THEN next_watch_id ELSE id, bound |-> bound,
           start |-> ResolveStart(requested), state |-> "queued", created |-> FALSE])
    /\ next_watch_id' = IF id = 0 THEN next_watch_id + 1 ELSE next_watch_id
    /\ queue' = Append(queue, <<>>) /\ got' = Append(got, <<>>)
    /\ awaits' = [awaits EXCEPT ![s] = Len(creates) + 1]
    /\ UNCHANGED <<store, compact_rev, registry, hub, collector, up, requests, progress>>

Request == requests < MaxRequests /\ requests' = requests + 1

(* cancel_watcher drops the registrations with the id, of any stream.       *)
CancelWatcher(id) == registry' = {c \in registry : creates[c].id # id}

CancelRequest(s, id) ==
    /\ Reads(s) /\ Request
    /\ CancelWatcher(id)
    /\ UNCHANGED <<store, compact_rev, creates, queue, got, hub, collector, awaits,
                   up, next_watch_id, progress>>

(* Answered at once, from the revision of the store.                        *)
ProgressRequest(s) ==
    /\ Reads(s) /\ Request
    /\ progress' = [progress EXCEPT ![s] = current_revision]
    /\ UNCHANGED <<store, compact_rev, registry, creates, queue, got, hub,
                   collector, awaits, up, next_watch_id>>

(* The client goes away; a waiting task finds out when it sends.            *)
Disconnect(s) ==
    /\ s \in up /\ Request
    /\ up' = up \ {s}
    /\ UNCHANGED <<store, compact_rev, registry, creates, queue, got, hub,
                   collector, awaits, next_watch_id, progress>>

(* The reply arrives and is sent on; then the forwarder is started, which   *)
(* ends at once if the watch was refused.  If the client is gone the task   *)
(* ends, and with it the receiver of the queue; the registration stays.     *)
TakeReply(s) ==
    /\ awaits[s] # 0 /\ creates[awaits[s]].state = "answered"
    /\ LET c == awaits[s] IN
       IF s \in up /\ creates[c].created
       THEN creates' = [creates EXCEPT ![c].state = "open"] /\ UNCHANGED queue
       ELSE /\ creates' = [creates EXCEPT ![c].state = "ended"]
            /\ queue' = [queue EXCEPT ![c] = <<>>]
    /\ awaits' = [awaits EXCEPT ![s] = 0]
    /\ UNCHANGED <<store, compact_rev, registry, got, hub, collector, up,
                   next_watch_id, requests, progress>>

-----------------------------------------------------------------------------
(* Forwarders.                                                              *)

(* The client is gone: cancel the id and end.                               *)
Dropped(c) ==
    /\ CancelWatcher(creates[c].id)
    /\ creates' = [creates EXCEPT ![c].state = "ended"]
    /\ queue' = [queue EXCEPT ![c] = <<>>]

Forward(c) ==
    /\ creates[c].state = "open" /\ queue[c] # <<>>
    /\ IF creates[c].stream \in up
       THEN /\ got' = [got EXCEPT ![c] = Append(@, Head(queue[c]))]
            /\ queue' = [queue EXCEPT ![c] = Tail(@)]
            /\ UNCHANGED <<registry, creates>>
       ELSE Dropped(c) /\ UNCHANGED got
    /\ UNCHANGED <<store, compact_rev, hub, collector, clients>>

(* No sender is left and the queue is empty.                                *)
ForwarderEnds(c) ==
    /\ creates[c].state = "open" /\ queue[c] = <<>> /\ c \notin registry
    /\ creates' = [creates EXCEPT ![c].state = "ended"]
    /\ UNCHANGED <<store, compact_rev, registry, queue, got, hub, collector, clients>>

(* progress_notify: the tick is taken when no event is waiting, then the    *)
(* revision is read and sent.                                               *)
Tick(c) ==
    /\ creates[c].state = "open" /\ queue[c] = <<>>
    /\ Request
    /\ creates' = [creates EXCEPT ![c].state = "ticking"]
    /\ UNCHANGED <<store, compact_rev, registry, queue, got, hub, collector,
                   awaits, up, next_watch_id, progress>>

TickSend(c) ==
    /\ creates[c].state = "ticking"
    /\ IF creates[c].stream \in up
       THEN /\ creates' = [creates EXCEPT ![c].state = "open"]
            /\ progress' = [progress EXCEPT ![creates[c].stream] = current_revision]
            /\ UNCHANGED <<registry, queue>>
       ELSE Dropped(c) /\ UNCHANGED progress
    /\ UNCHANGED <<store, compact_rev, got, hub, collector, awaits, up,
                   next_watch_id, requests>>

-----------------------------------------------------------------------------
(* The global loop.                                                         *)

(* The 50ms are over: what is queued makes the batch; current_checkpoint.   *)
Checkpoint ==
    /\ loop = "collect" /\ Are({"queued"}) # {}
    /\ creates' = [c \in DOMAIN creates |->
          IF creates[c].state = "queued" THEN [creates[c] EXCEPT !.state = "batch"]
          ELSE creates[c]]
    /\ cp' = [rev |-> current_revision, off |-> Len(wal), epoch |-> epoch]
    /\ loop' = "screen"
    /\ UNCHANGED <<store, compact_rev, registry, queue, got, prev_kv, hurt, early,
                   collector, clients>>

(* Replies to the creates of a set; created says which of the two replies.  *)
Answered(cs, created) ==
    [c \in DOMAIN creates |->
        IF c \in cs THEN [creates[c] EXCEPT !.state = "answered", !.created = created]
        ELSE creates[c]]

Compacted(c) == creates[c].start > 0 /\ creates[c].start < compact_rev
TooLarge(c) == creates[c].start > current_revision + MaxGap
(* Mutant: only the registry is searched, not the batch.                    *)
DuplicateRegistered(c, active) == \E d \in registry : creates[d].id = creates[c].id

DuplicateId(c, active) ==
    \/ \E d \in registry : creates[d].id = creates[c].id
    \/ \E d \in active : d < c /\ creates[d].id = creates[c].id

(* Mutant: a create at a compacted or too large revision gets no reply.     *)
RefusedSilent(cs, active) == {c \in active : DuplicateId(c, active)}

(* The creates that are answered with a refusal.                            *)
Refused(cs, active) == {c \in cs : c \notin active \/ DuplicateId(c, active)}

Screen ==
    /\ loop = "screen"
    /\ LET cs == Are({"batch"})
           active == {c \in cs : ~Compacted(c) /\ ~TooLarge(c)}
           kept == {c \in active : ~DuplicateId(c, active)} IN
         /\ creates' = Answered(Refused(cs, active), FALSE)
         /\ IF kept = {}
            THEN loop' = "collect" /\ cp' = NoCp
            ELSE loop' = "phase1" /\ UNCHANGED cp
    /\ UNCHANGED <<store, compact_rev, registry, queue, got, prev_kv, hurt, early,
                   collector, clients>>

(* What a scan makes of records: their events, and the previous versions.   *)
AfterEvent(prev, e) == [prev EXCEPT ![e.key] = IF e.deleted THEN 0 ELSE e.rev]

ScanRecord(a, rec) ==
    LET e == Event(rec, a.prev[rec.key])
    IN  [evts |-> Append(a.evts, e), prev |-> AfterEvent(a.prev, e)]

ScanSteps(recs, prev) ==
    LET scan[i \in 0 .. Len(recs)] ==
            IF i = 0 THEN [evts |-> <<>>, prev |-> prev]
            ELSE ScanRecord(scan[i - 1], recs[i])
    IN  scan
Scanned(recs, prev) == ScanSteps(recs, prev)[Len(recs)]

(* Phase 1, no lock: the log up to the checkpoint.                          *)
Phase1 ==
    /\ loop = "phase1"
    /\ \E scan \in {Scanned(Among(wal, {rec \in Record : rec.mod_revision <= cp.rev}), NoPrev)} :
         /\ Deliver([c \in Are({"batch"}) |-> Among(scan.evts, Wanted(c) \cap Since(c))])
         /\ prev_kv' = scan.prev
    /\ hurt' = hurt \cup {c \in Are({"batch"}) : creates[c].start <= floor}
    /\ loop' = "phase2"
    /\ UNCHANGED <<store, compact_rev, registry, creates, got, cp, early, collector,
                   clients>>

(* Where the scan from the byte offset of the checkpoint starts.  In a log  *)
(* that was replaced since, the offset may be past the end or inside of a   *)
(* record: any suffix, or nothing, may be read.                             *)
Offsets == IF cp.epoch = epoch THEN {cp.off} ELSE 0 .. Len(wal)

(* Mutant: there is no catch-up.                                            *)
CatchUpNothing(off) == <<>>

CatchUp(off) ==
    Among(SubSeq(wal, off + 1, Len(wal)), {rec \in Record : rec.mod_revision > cp.rev})

(* Phase 2, under the write lock: catch up, whatever the start, register,   *)
(* and reply.                                                               *)
Phase2 ==
    /\ loop = "phase2"
    /\ \E off \in Offsets : \E scan \in {Scanned(CatchUp(off), prev_kv)} :
         Deliver([c \in Are({"batch"}) |-> Among(scan.evts, Wanted(c))])
    /\ registry' = registry \cup Are({"batch"})
    /\ creates' = Answered(Are({"batch"}), TRUE)
    /\ early' = early \cup {c \in Are({"batch"}) : creates[c].start > cp.rev + 1}
    /\ hurt' = IF cp.epoch = epoch THEN hurt ELSE hurt \cup Are({"batch"})
    /\ loop' = "collect" /\ cp' = NoCp /\ prev_kv' = NoPrev
    /\ UNCHANGED <<store, compact_rev, got, collector, clients>>

-----------------------------------------------------------------------------
Next ==
    \/ \E k \in Keys : Put(k) \/ Delete(k)
    \/ \E rev \in 1 .. current_revision : Compact(rev)
    \/ CompactSnapshot \/ CompactSwap
    \/ \E s \in Streams :
          \/ \E id \in WatchIds, bound \in Bounds, requested \in 0 .. MaxRev :
                CreateRequest(s, id, bound, requested)
          \/ \E c \in DOMAIN creates : CancelRequest(s, creates[c].id)
          \/ ProgressRequest(s) \/ Disconnect(s) \/ TakeReply(s)
    \/ \E c \in DOMAIN creates : Forward(c) \/ ForwarderEnds(c) \/ Tick(c) \/ TickSend(c)
    \/ Checkpoint \/ Screen \/ Phase1 \/ Phase2

Spec == Init /\ [][Next]_vars

(* The task of the global loop is scheduled.                                *)
FairSpec ==
    Spec /\ WF_vars(Checkpoint \/ Screen \/ Phase1 \/ Phase2)

-----------------------------------------------------------------------------
(* Properties.                                                              *)

Creates ==
    [stream: Streams, id: Nat, bound: Bounds, start: Nat, created: BOOLEAN,
     state: {"queued", "batch", "answered", "open", "ticking", "ended"}]

TypeOK ==
    /\ keys \in Tables /\ next_rev \in 1 .. MaxRev + 1 /\ compact_rev \in Nat
    /\ wal \in Seq(Record) /\ events \in Seq(Events)
    /\ creates \in Seq(Creates)
    /\ queue \in [DOMAIN creates -> Seq(Events)] /\ got \in [DOMAIN creates -> Seq(Events)]
    /\ registry \subseteq DOMAIN creates
    /\ hurt \subseteq DOMAIN creates /\ early \subseteq DOMAIN creates
    /\ next_watch_id \in Nat /\ up \subseteq Streams
    /\ awaits \in [Streams -> {0} \cup DOMAIN creates] /\ progress \in [Streams -> Nat]
    /\ loop \in {"collect", "screen", "phase1", "phase2"}
    /\ cp \in [rev: Nat, off: Nat, epoch: Nat] /\ prev_kv \in [Keys -> Nat]
    /\ gc \in [on: BOOLEAN, recs: Seq(Record), mark: Nat, rev: Nat]
    /\ requests \in Nat /\ compactions \in Nat /\ floor \in Nat /\ epoch \in Nat

(* What the client of a create has got and will get so far, and what it     *)
(* asked for.                                                               *)
Delivered(c) == got[c] \o queue[c]
Asked(c) == Among(events, Wanted(c) \cap Since(c))

(* Every registered watcher gets every event from its start revision on,    *)
(* once and in order, each with its true previous version, however writes   *)
(* fall between the checkpoint, the two phases and the registration.  Only  *)
(* a compaction of the log that removed events it needs, or moved the log   *)
(* under its replay, spoils this; and a watcher whose start is still to     *)
(* come may get earlier events of the catch-up on top.                      *)
WatchExact ==
    \A c \in registry \ hurt : creates[c].state # "ended" =>
        /\ Among(Delivered(c), Since(c)) = Asked(c)
        /\ c \notin early => Delivered(c) = Asked(c)

(* Two registrations never share an id, although a batch is screened before *)
(* it is registered: events are told apart, and cancelled, by the id alone. *)
UniqueIds ==
    \A c, d \in registry : creates[c].id = creates[d].id => c = d

(* Why: past the screening the batch and the registry have no id in common, *)
(* and no id occurs twice in the batch.                                     *)
IdsInv ==
    /\ UniqueIds
    /\ loop \in {"phase1", "phase2"} =>
          \A c, d \in registry \cup Are({"batch"}) : creates[c].id = creates[d].id => c = d

(* Every create is answered, refused ones too: its stream task waits for    *)
(* the answer and reads no other request before.  Were one dropped without  *)
(* an answer, the task would return and end the stream with all its watches.*)
CreateAnswered ==
    \A c \in 1 .. MaxCreates :
        (c \in Are({"queued"})) ~> (c \in Are({"answered", "open", "ticking", "ended"}))

(* rpc.proto, ResponseHeader: after a progress response "All future events  *)
(* received in this stream are guaranteed to have a higher revision number  *)
(* than the header.revision number".                                        *)
ProgressTruthful ==
    \A c \in Are({"open", "ticking"}) : creates[c].stream \in up =>
        \A i \in DOMAIN queue[c] : queue[c][i].rev > progress[creates[c].stream]
=============================================================================
