-------------------------------- MODULE Flock --------------------------------
(***************************************************************************)
(* A Flock: nodes that apply one replicated log of queue operations, each   *)
(* to a QueueManager of its own (pelicanq-raft/src/lib.rs and               *)
(* state_machine.rs), from the first start of the cluster                   *)
(* (pelicanqd/src/main.rs) on, and the front-end handlers that submit the   *)
(* operations (pelicanqd/src/api.rs and grpc/queue_service.rs).             *)
(*                                                                          *)
(* openraft is external.  It is taken at its word: log is the sequence of   *)
(* committed entries, every node applies it in order at its own pace, a     *)
(* write is answered by the leader that took it, once this node has applied *)
(* it, or not at all.  A node keeps what it has applied when it stops       *)
(* (module RaftStore has the crashes where it does not).                    *)
(*                                                                          *)
(* What is not replicated is the point: each node takes ids, and so         *)
(* delivery tags, from its own database, decides duplicates by its own      *)
(* clock, and runs recover_inflight when it opens its store.                *)
(***************************************************************************)
EXTENDS QueueStore, Sequences, FiniteSetsExt

CONSTANTS
  Nodes,      \* node ids; the smallest one bootstraps the cluster
  Q,          \* the queue
  PublishSizes, ConsumeSizes,   \* the sizes of batches clients use; 1 for none
  IdGap,      \* how far sled moves its id generator when a database is opened
  MaxLog, MaxUids, MaxPending, MaxLag, MaxTime,   \* bounds
  MaxFaults   \* bound on the stops and elections

ASSUME FlockAssumption ==
  /\ Nodes \subseteq Nat /\ Nodes # {}
  /\ Q \in Queues
  /\ PublishSizes \cup ConsumeSizes \cup {IdGap} \subseteq Nat \ {0}
  /\ IdGap > MaxLog * (MaxUids + 1)   \* no node reaches the ids of its next start
  /\ {MaxLog, MaxUids, MaxPending, MaxLag, MaxTime, MaxFaults} \subseteq Nat

VARIABLES
  node,         \* node[n]: the state of node n
  log,          \* the committed operations
  leader,       \* the node that takes writes
  since,        \* the length of the log when it became the leader
  initialized   \* raft.initialize has succeeded

(* History, read by the properties and the bounds only *)
VARIABLES
  confirmed,  \* the messages whose publish was answered Stored
  handed,     \* the deliveries that clients have received: [tag, uid, at],
              \* at being the log index of the consume
  acked,      \* the messages that clients have acked
  restarted,  \* the nodes that were started again
  faults,     \* how often a node stopped or was elected
  stillborn   \* TRUE if the first start of the first node was cut short

cluster == <<log, leader, since, initialized>>
hist == <<confirmed, handed, acked, restarted, faults, stillborn>>
vars == <<node, cluster, hist>>

Lowest == CHOOSE n \in Nodes : \A k \in Nodes : n <= k

Uids(E) == {e.msg.uid : e \in E}

NewNode ==
  [phase |-> "down", fresh |-> TRUE, store |-> EmptyStore, nextId |-> 0, applied |-> 0,
   clock |-> 0]   \* the latest Message::now_ms()

Init ==
  /\ node = [n \in Nodes |-> NewNode]
  /\ log = <<>> /\ leader = Lowest /\ since = 0 /\ initialized = FALSE
  /\ confirmed = {} /\ handed = {} /\ acked = {} /\ restarted = {}
  /\ faults = 0 /\ stillborn = FALSE

-----------------------------------------------------------------------------
(* apply_operation.  A replica is [store, nextId]; the operators also gather *)
(* what is returned: the messages stored and the deliveries.                 *)

\* DeclareQueue of a queue that exists changes nothing.
DeclareOp(r, q, policy) ==
  IF q \in r.store.queues THEN r
  ELSE [r EXCEPT !.store = DeclareRetention(DeclareMeta(@, q), q, policy)]

\* The messages of a batch that publish stores: neither the store nor an
\* earlier message of the batch has the key in an open window.
Stored(s, q, msgs, t) ==
  LET w == PolicyOf(s, q).dedup_window_secs
      Repeats(i) == /\ w # None /\ w > 0
                    /\ msgs[i].dedup_key # None
                    /\ \E j \in 1..(i - 1) : msgs[j].dedup_key = msgs[i].dedup_key
  IN  {i \in DOMAIN msgs : ~IsDuplicate(s, q, msgs[i], t) /\ ~Repeats(i)}

\* record_dedup_key for the messages M, which have different keys.
RecordDedupKeys(s, q, M, t) ==
  LET K == {m \in M : m.dedup_key # None}
  IN  IF PolicyOf(s, q).dedup_window_secs = None THEN s
      ELSE [s EXCEPT !.dedup =
              {d \in @ : ~(d.queue = q /\ \E m \in K : d.key = m.dedup_key)}
                \cup {[queue |-> q, key |-> m.dedup_key, at |-> t, by |-> m.uid] : m \in K}]

\* Publish and PublishBatch: one publish per message, in order.  Without a
\* byte limit, which a Flock node has not, the one error is an unknown queue.
PublishOp(r, q, msgs, t) ==
  LET S       == Stored(r.store, q, msgs, t)
      Id(i)   == r.nextId + Cardinality({j \in S : j < i})
      Last(i) == \A j \in S : j > i => msgs[j].dedup_key # msgs[i].dedup_key
  IN  IF q \notin r.store.queues THEN r
      ELSE [r EXCEPT
              !.store = RecordDedupKeys(
                InsertAll(@, {PublishEntry(q, msgs[i], Id(i), t) : i \in S}),
                q, {msgs[i] : i \in {k \in S : Last(k)}}, t),
              !.nextId = @ + Cardinality(S),
              !.stored = {msgs[i].uid : i \in S}]

\* Mutation: the messages stay in the queue.
ConsumeOpKeeps(r, q, max) ==
  LET main  == In(r.store, "main", q)
      First == {e \in main : Rank(e, main) < max}
  IN  [r EXCEPT !.store = InsertAll(@, {Entry("inflight", q, 0, e.id, e.msg) : e \in First}),
                !.out = {[tag |-> e.id, uid |-> e.msg.uid] : e \in First}]

\* Consume and ConsumeBatch: up to max times consume, each of which moves the
\* first entry of the main tree.
ConsumeOp(r, q, max) ==
  LET main  == In(r.store, "main", q)
      First == {e \in main : Rank(e, main) < max}
  IN  [r EXCEPT !.store = InsertAll(RemoveAll(@, First),
                                    {Entry("inflight", q, 0, e.id, e.msg) : e \in First}),
                !.out = {[tag |-> e.id, uid |-> e.msg.uid] : e \in First}]

AckOp(r, q, tag) ==
  [r EXCEPT !.store = RemoveAll(@, {e \in In(@, "inflight", q) : e.id = tag})]

\* A nack with an unknown tag has taken an id when it fails.
NackOp(r, q, tag) ==
  LET E == {e \in In(r.store, "inflight", q) : e.id = tag}
  IN  IF q \notin r.store.queues THEN r
      ELSE [r EXCEPT !.nextId = @ + 1,
                     !.store = IF E = {} THEN @
                               ELSE NackEntry(@, CHOOSE e \in E : TRUE, r.nextId)]

\* Nothing in the daemon submits ApplyRetention or PromoteScheduled.
ApplyOperation(n, op, now) ==
  LET r == [store |-> node[n].store, nextId |-> node[n].nextId, stored |-> {}, out |-> {}]
  IN  CASE op.type = "declare" -> DeclareOp(r, Q, op.policy)
        [] op.type = "publish" -> PublishOp(r, Q, op.msgs, now)
        [] op.type = "consume" -> ConsumeOp(r, Q, op.max)
        [] op.type = "ack"     -> AckOp(r, Q, op.tag)
        [] op.type = "nack"    -> NackOp(r, Q, op.tag)

Keys(op) == IF op.type = "publish" THEN {op.msgs[i].dedup_key : i \in DOMAIN op.msgs} \ {None}
            ELSE {}

\* Node n applies its next entry, at a time of its own clock (read only
\* for a dedup key).  If it took the write as the leader it is now, client_write
\* returns the response to the handler.
Apply(n) == \E now \in node[n].clock..MaxTime :
  /\ node[n].phase = "up"
  /\ node[n].applied < Len(log)
  /\ LET i      == node[n].applied + 1
         r      == ApplyOperation(n, log[i], now)
         reply  == n = leader /\ i > since
     IN  /\ Keys(log[i]) = {} => now = node[n].clock
         /\ node' = [node EXCEPT ![n].store = r.store, ![n].nextId = r.nextId,
                                 ![n].applied = i, ![n].clock = now]
         /\ confirmed' = IF reply THEN confirmed \cup r.stored ELSE confirmed
         /\ handed' = IF reply
                         THEN handed \cup {[tag |-> d.tag, uid |-> d.uid, at |-> i] : d \in r.out}
                         ELSE handed
  /\ UNCHANGED <<cluster, acked, restarted, faults, stillborn>>

-----------------------------------------------------------------------------
(* The handlers: a write is submitted to the leader, which commits it with a *)
(* majority of the nodes.  Any other node answers NotLeader and does nothing.*)

MajorityUp == 2 * Cardinality({n \in Nodes : node[n].phase = "up"}) > Cardinality(Nodes)

Submit(op) ==
  /\ initialized
  /\ node[leader].phase = "up"
  /\ MajorityUp
  /\ Len(log) < MaxLog
  /\ Len(log) - Max({since, node[leader].applied}) < MaxPending
  /\ \A n \in Nodes : node[n].phase = "up" => Len(log) - node[n].applied < MaxLag
  /\ log' = Append(log, op)
  /\ UNCHANGED <<node, leader, since, initialized>>

DeclareQueue(policy) ==
  /\ Submit([type |-> "declare", policy |-> policy])
  /\ UNCHANGED hist

UidsIn(op) == IF op.type = "publish" THEN {op.msgs[i].uid : i \in DOMAIN op.msgs} ELSE {}
Submitted == UNION {UidsIn(log[i]) : i \in DOMAIN log}

\* publish and publish_batch.  The messages of a batch have the same key.
PublishBatch(size, key) ==
  /\ Cardinality(Submitted) + size <= MaxUids
  /\ Submit([type |-> "publish",
             msgs |-> [i \in 1..size |->
                         [uid |-> Cardinality(Submitted) + i - 1, priority |-> 0,
                          deliver_at |-> None, dedup_key |-> key, timestamp |-> 0,
                          delivery_attempts |-> 0]]])
  /\ UNCHANGED hist

\* consume, consume_batch, and a poll of a stream or an MQTT subscription.
ConsumeBatch(max) == Submit([type |-> "consume", max |-> max]) /\ UNCHANGED hist

\* A client acks or nacks what it received, at whatever node leads by now.
Ack(d) ==
  /\ Submit([type |-> "ack", tag |-> d.tag])
  /\ acked' = acked \cup {d.uid}
  /\ UNCHANGED <<confirmed, handed, restarted, faults, stillborn>>

Nack(d) == Submit([type |-> "nack", tag |-> d.tag]) /\ UNCHANGED hist

-----------------------------------------------------------------------------
(* Starting, stopping, electing *)

\* Mutation: the generator goes on where it was.
ReopenedSame(id) == id

\* sled's id generator after a database was closed and opened: the start of the
\* next range, unless nothing was taken from the last one.
Reopened(id) == IF id % IdGap = 0 /\ id > 0 THEN id ELSE id + IdGap - (id % IdGap)

\* Mutation: is_fresh is computed after start_node has made the directory.
IsFreshAfterStart(n) == FALSE

\* main: is there no Raft state directory yet?
IsFresh(n) == node[n].fresh

\* main up to start_node: RaftStore::open opens the QueueManager, which
\* recovers what was in flight, and makes the Raft directory.
Start(n) ==
  /\ node[n].phase = "down"
  /\ LET s    == node[n].store
         I    == Inflight(s)
         base == IF node[n].fresh THEN 0 ELSE Reopened(node[n].nextId)
     IN  node' = [node EXCEPT ![n].phase = IF n = Lowest /\ IsFresh(n)
                                             THEN "starting" ELSE "up",
                              ![n].fresh = FALSE,
                              ![n].store = Recover(s, I, I, base),
                              ![n].nextId = base + Cardinality(I)]
  /\ restarted' = IF node[n].fresh THEN restarted ELSE restarted \cup {n}
  /\ UNCHANGED <<cluster, confirmed, handed, acked, faults, stillborn>>

\* The rest of the first start of the lowest node.
Initialize(n) ==
  /\ node[n].phase = "starting"
  /\ node' = [node EXCEPT ![n].phase = "up"]
  /\ initialized' = TRUE
  /\ UNCHANGED <<log, leader, since, hist>>

\* A node stops.
Stop(n) ==
  /\ faults < MaxFaults
  /\ node[n].phase # "down"
  /\ node' = [node EXCEPT ![n].phase = "down"]
  /\ faults' = faults + 1
  /\ stillborn' = (stillborn \/ node[n].phase = "starting")
  /\ UNCHANGED <<cluster, confirmed, handed, acked, restarted>>

\* Another node leads.  Writes that the old leader had not answered are
\* answered with an error, whether they are in the log or not.
Elect(n) ==
  /\ initialized /\ MajorityUp
  /\ faults < MaxFaults
  /\ node[n].phase = "up"
  /\ leader # n
  /\ leader' = n /\ since' = Len(log)
  /\ faults' = faults + 1
  /\ UNCHANGED <<node, log, initialized, confirmed, handed, acked, restarted, stillborn>>

\* The queue is declared first; before that, every other operation fails.
Next ==
  \/ log = <<>> /\ \E policy \in Policies : DeclareQueue(policy)
  \/ /\ log # <<>>
     /\ \/ \E size \in PublishSizes, key \in DedupKeys \cup {None} : PublishBatch(size, key)
        \/ \E max \in ConsumeSizes : ConsumeBatch(max)
  \/ \E d \in handed : Ack(d) \/ Nack(d)
  \/ \E n \in Nodes : Apply(n) \/ Start(n) \/ Initialize(n) \/ Stop(n) \/ Elect(n)

Spec == Init /\ [][Next]_vars

-----------------------------------------------------------------------------
(* Properties *)

TypeOK ==
  /\ node \in [Nodes -> [phase : {"down", "starting", "up"}, fresh : BOOLEAN,
                         store : Store, nextId : Nat, applied : 0..MaxLog,
                         clock : 0..MaxTime]]
  /\ leader \in Nodes /\ since \in 0..MaxLog /\ initialized \in BOOLEAN
  /\ UNION {confirmed, acked} \subseteq Nat
  /\ handed \subseteq [tag : Nat, uid : Nat, at : 1..MaxLog]
  /\ restarted \subseteq Nodes /\ faults \in Nat /\ stillborn \in BOOLEAN

\* "Every queue is replicated across all nodes": a message whose publish was
\* confirmed, and that no client has acked, is in the store of every node
\* that has applied its publish.
ReplicatedEverywhere ==
  \A uid \in confirmed \ acked, n \in Nodes :
    (\E i \in 1..node[n].applied : uid \in UidsIn(log[i])) => uid \in Uids(node[n].store.msgs)

\* Every dedup window that began is still open on every node.
WindowsOpen ==
  \A p \in Policies, n \in Nodes :
    p.dedup_window_secs # None => node[n].clock < p.dedup_window_secs * MsPerSec

\* As long as one node at most was ever restarted and no dedup window has
\* passed, no replica loses a message, whoever leads and however far the
\* others lag: an ack never removes another message from some replica than
\* from the leader's.
ReplicatedIfSteady ==
  Cardinality(restarted) <= 1 /\ WindowsOpen => ReplicatedEverywhere

\* A message is delivered once, also when the leader changes between a
\* consume and its reply, as long as nobody nacks, no node is restarted and no
\* dedup window has passed.
DeliveredOnce ==
  (restarted = {} /\ WindowsOpen /\ \A i \in DOMAIN log : log[i].type # "nack") =>
    \A d, e \in handed : d.uid = e.uid => d = e

\* Once the first node is up the cluster has been initialized, in whatever
\* order nodes start, stop and start again, unless this node was stopped
\* during its first start: then the Raft directory is there, and nobody ever
\* initializes.
ComesToLife == node[Lowest].phase = "up" => initialized \/ stillborn
=============================================================================
