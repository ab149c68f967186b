---------------------------- MODULE QueueManager ----------------------------
(***************************************************************************)
(* One QueueManager (pelicanq-core/src/queue.rs) as a state machine.  Every *)
(* caller holds the manager's mutex for a whole call, so a call is one     *)
(* action; what can still fall between two of its writes is a crash.       *)
(*                                                                         *)
(* The manager never flushes sled.  sled writes its log in order and syncs *)
(* it in the background, so a crash leaves some prefix of the writes made  *)
(* since the last sync: disk is the set of stores those prefixes give.     *)
(* Each action adds the store after each of its writes.  A call that       *)
(* returns before its first write (an unknown queue, a queue declared      *)
(* twice, a duplicate, a full store, an empty queue, an unknown tag) is a  *)
(* stuttering step.                                                        *)
(***************************************************************************)
EXTENDS QueueStore

CONSTANTS
  MaxBytes,      \* the max_bytes argument of open, or None
  Priorities,    \* priorities publishers use
  DeliverAts,    \* deliver_at values publishers use
  ClientStamps,  \* timestamps set by clients (gRPC) rather than the server
  MaxTime, MaxPublished, MaxId, MaxCrashes, MaxUnsynced  \* bounds

ASSUME ManagerAssumption ==
  /\ MaxBytes \in OptNat
  /\ Priorities \subseteq Nat
  /\ DeliverAts \subseteq Int \cup {None}
  /\ ClientStamps \subseteq Int
  /\ MaxTime \in Nat /\ MaxPublished \in Nat /\ MaxId \in Nat
  /\ MaxCrashes \in Nat /\ MaxUnsynced \in Nat

VARIABLES
  db,             \* the store as the running manager sees it
  disk,           \* the stores a crash may leave behind
  nextId,         \* sled's id generator: ids below nextId have been handed out
  current_bytes,  \* the manager's byte counter
  now             \* Message::now_ms()

(* History, read by the properties only *)
VARIABLES
  published,  \* how many publishes returned Stored; also the next uid
  crashes,    \* how many crashes there were
  safe,       \* the messages some sync found in the store
  acked,      \* the messages whose ack returned Ok
  expired,    \* the messages apply_retention removed
  handed,     \* the (queue, tag, uid) consume returned
  accepted    \* the keyed publishes that returned Stored since the last crash

history == <<published, crashes, safe, acked, expired, handed, accepted>>
vars == <<db, disk, nextId, current_bytes, now, history>>

Uids(E) == {e.msg.uid : e \in E}

Init ==
  /\ db = EmptyStore
  /\ disk = {EmptyStore}
  /\ nextId = 0
  /\ current_bytes = 0
  /\ now = 0
  /\ published = 0 /\ crashes = 0
  /\ safe = {} /\ acked = {} /\ expired = {} /\ handed = {} /\ accepted = {}

-----------------------------------------------------------------------------
\* An operation that leaves the writes W, in some order, with result s last.
\* MaxUnsynced bounds how many stores may be waiting for a sync.
Write(s, W) ==
  /\ Cardinality(disk) <= MaxUnsynced
  /\ db' = s
  /\ disk' = disk \cup W \cup {s}

\* generate_id, n times.
GenerateIds(n) ==
  /\ nextId + n <= MaxId
  /\ nextId' = nextId + n

Declare(q, policy) ==
  /\ q \notin db.queues
  /\ LET s1 == DeclareMeta(db, q)
     IN  Write(DeclareRetention(s1, q, policy), {s1})
  /\ UNCHANGED <<nextId, current_bytes, now, history>>

\* The message a front end builds.
NewMessage(p, at, key, ts) ==
  [uid |-> published, priority |-> p, deliver_at |-> at, dedup_key |-> key,
   timestamp |-> ts, delivery_attempts |-> 0]

\* Mutation: the limit is checked without the message to be stored.
FitsBefore == MaxBytes # None => current_bytes <= MaxBytes

Fits == MaxBytes # None => current_bytes + MsgLen <= MaxBytes

\* Mutation: the dedup record is written first.
PublishRecordsFirst(q, p, at, key, ts) ==
  LET m  == NewMessage(p, at, key, ts)
      s1 == RecordDedupKey(db, q, m, now)
  IN  /\ published < MaxPublished
      /\ q \in db.queues
      /\ ~IsDuplicate(db, q, m, now)
      /\ Fits
      /\ GenerateIds(1)
      /\ Write(InsertAll(s1, {PublishEntry(q, m, nextId, now)}), {s1})
      /\ current_bytes' = current_bytes + MsgLen
      /\ published' = published + 1
      /\ UNCHANGED <<now, crashes, safe, acked, expired, handed, accepted>>

Publish(q, p, at, key, ts) ==
  LET m  == NewMessage(p, at, key, ts)
      s1 == InsertAll(db, {PublishEntry(q, m, nextId, now)})
  IN  /\ published < MaxPublished
      /\ q \in db.queues
      /\ ~IsDuplicate(db, q, m, now)
      /\ Fits
      /\ GenerateIds(1)
      /\ Write(RecordDedupKey(s1, q, m, now), {s1})
      /\ current_bytes' = current_bytes + MsgLen
      /\ published' = published + 1
      /\ accepted' = IF key = None THEN accepted
                     ELSE accepted \cup {[queue |-> q, key |-> key, at |-> now,
                                          uid |-> m.uid]}
      /\ UNCHANGED <<now, crashes, safe, acked, expired, handed>>

Consume(q) ==
  /\ q \in db.queues
  /\ \E e \in In(db, "main", q) :
       /\ IsFirst(e, In(db, "main", q))
       /\ Write(ConsumeEntry(db, e), {})
       /\ handed' = handed \cup {[queue |-> q, tag |-> e.id, uid |-> e.msg.uid]}
  /\ UNCHANGED <<nextId, current_bytes, now,
                 published, crashes, safe, acked, expired, accepted>>

\* Mutation: the counter is not decremented.
SubNothing(a, b) == a

SaturatingSub(a, b) == IF a < b THEN 0 ELSE a - b

Ack(q, tag) ==
  /\ q \in db.queues
  /\ \E e \in In(db, "inflight", q) :
       /\ e.id = tag
       /\ Write(RemoveAll(db, {e}), {})
       /\ acked' = acked \cup {e.msg.uid}
  /\ current_bytes' = SaturatingSub(current_bytes, MsgLen)
  /\ UNCHANGED <<nextId, now, published, crashes, safe, expired, handed, accepted>>

Nack(q, tag) ==
  /\ q \in db.queues
  /\ GenerateIds(1)
  /\ \E e \in In(db, "inflight", q) :
       /\ e.id = tag
       /\ Write(NackEntry(db, e, nextId), {})
  /\ UNCHANGED <<current_bytes, now, history>>

\* A nack whose tag is not in flight has generated an id when it fails.
NackInvalidTag(q, tag) ==
  /\ q \in db.queues
  /\ \A e \in In(db, "inflight", q) : e.id # tag
  /\ GenerateIds(1)
  /\ UNCHANGED <<db, disk, current_bytes, now, history>>

PromoteScheduled(q) ==
  LET S == Due(db, q, now)
  IN  /\ q \in db.queues
      /\ S # {}
      /\ GenerateIds(Cardinality(S))
      /\ Write(Promote(db, S, S, nextId),
               {Promote(db, S, {e \in S : Rank(e, S) < n}, nextId) :
                  n \in 0..Cardinality(S)})
      /\ UNCHANGED <<current_bytes, now, history>>

ApplyRetention(q) ==
  LET D == Expired(db, q, now) \cup Excess(db, q, now)
  IN  /\ q \in db.queues
      /\ D # {}
      /\ Write(RemoveAll(db, D),
               {RemoveAll(db, P) : P \in RetentionProgress(db, q, now)})
      /\ current_bytes' = RecalculatedBytes(RemoveAll(db, D))
      /\ expired' = expired \cup Uids(D)
      /\ UNCHANGED <<nextId, now, published, crashes, safe, acked, handed, accepted>>

-----------------------------------------------------------------------------
\* sled's flusher thread.
Sync ==
  /\ disk' = {db}
  /\ safe' = safe \cup Uids(db.msgs)
  /\ UNCHANGED <<db, nextId, current_bytes, now,
                 published, crashes, acked, expired, handed, accepted>>

\* A crash, then QueueManager::open on what it left: recalculate_bytes, then
\* recover_inflight.  A crash inside open leaves one of the stores of its
\* progress, so it is this action twice.
Restart ==
  /\ crashes < MaxCrashes
  /\ \E s \in disk :
       LET I == Inflight(s)
       IN  /\ db' = Recover(s, I, I, nextId)
           /\ disk' = {Recover(s, p[1], p[2], nextId) : p \in RecoveryProgress(s)}
           /\ nextId' = nextId + Cardinality(I)
           /\ current_bytes' = RecalculatedBytes(s)
  /\ crashes' = crashes + 1
  /\ accepted' = {}
  /\ UNCHANGED <<now, published, safe, acked, expired, handed>>

Tick ==
  /\ now < MaxTime
  /\ now' = now + 1
  /\ UNCHANGED <<db, disk, nextId, current_bytes, history>>

Next ==
  \/ \E q \in Queues :
       \/ \E policy \in Policies : Declare(q, policy)
       \/ \E p \in Priorities, at \in DeliverAts, key \in DedupKeys \cup {None},
             ts \in {now} \cup ClientStamps : Publish(q, p, at, key, ts)
       \/ Consume(q)
       \/ \E tag \in 0..(nextId - 1) :
            Ack(q, tag) \/ Nack(q, tag) \/ NackInvalidTag(q, tag)
       \/ PromoteScheduled(q)
       \/ ApplyRetention(q)
  \/ Sync
  \/ Restart
  \/ Tick

Spec == Init /\ [][Next]_vars

-----------------------------------------------------------------------------
(* Properties *)

\* The variables have their types, and the running store is among those that
\* a crash may leave (nothing the manager sees is ahead of its own log).
TypeOK ==
  /\ db \in Store
  /\ disk \subseteq Store /\ db \in disk
  /\ nextId \in Nat /\ current_bytes \in Nat /\ now \in Nat
  /\ published \in Nat /\ crashes \in Nat
  /\ safe \subseteq Nat /\ acked \subseteq Nat /\ expired \subseteq Nat
  /\ handed \subseteq [queue : Queues, tag : Nat, uid : Nat]
  /\ accepted \subseteq [queue : Queues, key : DedupKeys, at : Nat, uid : Nat]

\* At-least-once: once a sync has covered a message, no interleaving of calls
\* and crashes, not even a crash halfway through recover_inflight or
\* promote_scheduled, leaves a store without it, unless it was acked or
\* removed by apply_retention.
NoLossOnceSynced ==
  \A s \in disk : safe \ (acked \cup expired) \subseteq Uids(s.msgs)

\* A delivery tag names one message for ever: if the tag consume handed out is
\* in flight, now or after any crash, it is the same message, so a late ack
\* or nack never settles another one.
TagNamesOneMessage ==
  \A s \in disk, h \in handed : \A e \in In(s, "inflight", h.queue) :
    e.id = h.tag => e.msg.uid = h.uid

NoSecondCopy ==
  crashes' = crashes =>
    \A u \in 0..(published - 1) :
      Cardinality({e \in db'.msgs : e.msg.uid = u})
        <= Cardinality({e \in db.msgs : e.msg.uid = u})

\* Only a restart redelivers: no call makes a second copy of a message or
\* brings back one that was acked or expired.
OnlyRestartDuplicates == [][NoSecondCopy]_vars

\* A publish is never answered Deduplicated on the strength of a message that
\* is not there: whatever a crash leaves, each dedup record belongs to a
\* message that is stored too, or was acked or expired.
DedupBacked ==
  \A s \in disk : \A d \in s.dedup :
    d.by \in Uids(s.msgs) \cup acked \cup expired

\* Between crashes, two publishes with one key are accepted by a queue only
\* if the dedup window lies between them.
DedupWindow ==
  \A a, b \in accepted :
    LET w == PolicyOf(db, a.queue).dedup_window_secs
    IN  (a.queue = b.queue /\ a.key = b.key /\ a.uid < b.uid /\ w # None)
          => b.at - a.at >= w * MsPerSec

\* The byte counter never under-reports the stored messages, and exceeds
\* them by at most the dedup records (which publish does not count and
\* recalculate_bytes does), so the saturating subtraction of ack never
\* saturates.
BytesTracked ==
  LET stored == MsgLen * Cardinality(db.msgs)
  IN  /\ stored <= current_bytes
      /\ current_bytes <= stored + DedupLen * Cardinality(db.dedup)

PublishFits ==
  published' > published /\ MaxBytes # None =>
    MsgLen * Cardinality(db'.msgs) <= MaxBytes

\* A publish never takes the stored messages over max_bytes, whatever crashes
\* and retention have done to the byte counter before.
LimitRespected == [][PublishFits]_vars

\* The ready messages of q that its policy does not hold too old.
Young(q) ==
  LET age == PolicyOf(db, q).max_age_secs
  IN  {e \in In(db, "main", q) :
         age # None => now - e.msg.timestamp < age * MsPerSec}

RetainsExactly ==
  expired' # expired =>
    \A q \in {e.queue : e \in db.msgs \ db'.msgs} :
      LET max  == PolicyOf(db, q).max_messages
          left == In(db', "main", q)
      IN  /\ left \subseteq Young(q)
          /\ Cardinality(left) =
               IF max # None /\ max < Cardinality(Young(q))
                 THEN max ELSE Cardinality(Young(q))

\* apply_retention leaves of a queue's ready messages none that is too old, and
\* of the others as many as max_messages allows, no fewer.
RetentionExact == [][RetainsExactly]_vars

\* A scheduled message is not in the main tree, in flight or dead-lettered
\* before its time, whatever a crash leaves.
NeverEarly ==
  \A s \in disk : \A e \in s.msgs :
    e.tree # "scheduled" /\ e.msg.deliver_at # None => e.msg.deliver_at <= now

\* A message leaves circulation on exactly its max_delivery_attempts-th nack:
\* while it can still be delivered it has been nacked fewer times, and in the
\* dlq exactly that many.
DeadLetteredOnTime ==
  \A s \in disk : \A e \in s.msgs :
    LET max == PolicyOf(s, e.queue).max_delivery_attempts
    IN  IF e.tree = "dlq"
          THEN max # None /\ e.msg.delivery_attempts = max
          ELSE (max # None /\ max > 0) => e.msg.delivery_attempts < max

\* Not scheduled and not handed out before.
Fresh(e) == e.msg.deliver_at = None /\ \A h \in handed : h.uid # e.msg.uid

Level(e) == IF e.msg.priority > 9 THEN 9 ELSE e.msg.priority

TakesFirst ==
  handed' # handed =>
    \A e \in db.msgs \ db'.msgs : e.tree = "main" =>
      \A f \in In(db', "main", e.queue) :
        /\ Level(f) <= Level(e)
        /\ Level(f) = Level(e) /\ Fresh(e) /\ Fresh(f)
             => e.msg.uid < f.msg.uid

\* consume takes the highest priority first and, among fresh messages of one
\* priority, the one published first, also across crashes.
PriorityThenFifo == [][TakesFirst]_vars
=============================================================================
