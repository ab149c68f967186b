------------------------------ MODULE QueueStore ------------------------------
(***************************************************************************)
(* The persistent contents of a QueueManager and what each of its          *)
(* operations writes (pelicanq-core/src/queue.rs).                         *)
(*                                                                         *)
(* A store is the contents of the sled database:                           *)
(*   queues     the keys of the tree __meta__queues                        *)
(*   retention  the tree __meta__retention, None where it has no entry     *)
(*   msgs       the entries of every queue's main, inflight, scheduled and *)
(*              dlq trees, each tagged with its tree and queue             *)
(*   dedup      the entries of every queue's dedup tree                    *)
(* A sled tree iterates in byte order of its keys.  Every key here is      *)
(* big-endian, so the order is the numeric order of the pair (hi, id):     *)
(*   main, dlq  hi = 9 - priority    (encode_key)                          *)
(*   scheduled  hi = deliver_at      (encode_scheduled_key)                *)
(*   inflight   hi = 0, id = the delivery tag                              *)
(* The operators take a store and return the store after one atomic sled   *)
(* write (an insert, a remove, or a transaction), so that the modules that *)
(* use them decide where a crash may fall.                                 *)
(* The operators under a comment that starts with "Mutation" are not part  *)
(* of the model: each is the definition after it with a plausible slip,    *)
(* which a property of some run must notice.                               *)
(***************************************************************************)
EXTENDS Integers, FiniteSets

CONSTANTS
  Queues,      \* queue names
  Policies,    \* the retention policies queues are declared with
  DedupKeys,   \* deduplication keys
  None,        \* Rust's Option::None
  MsPerSec,    \* milliseconds in a second: 1000 in the code
  MsgLen,      \* length of a serialized message
  DedupLen     \* length of a dedup record: 8 in the code

OptNat == Nat \cup {None}

PolicyType == [max_age_secs : OptNat, max_messages : OptNat,
               max_delivery_attempts : OptNat, dedup_window_secs : OptNat]

ASSUME StoreAssumption ==
  /\ None \notin Int
  /\ None \notin DedupKeys
  /\ None \notin Policies
  /\ Policies \subseteq PolicyType
  /\ MsPerSec \in Nat \ {0}
  /\ MsgLen \in Nat \ {0}
  /\ DedupLen \in Nat

\* RetentionPolicy::default()
DefaultPolicy ==
  [max_age_secs |-> None, max_messages |-> None,
   max_delivery_attempts |-> None, dedup_window_secs |-> None]

Trees == {"main", "inflight", "scheduled", "dlq"}

\* A message; uid stands for its payload and headers.
Message == [uid : Nat, priority : Nat, deliver_at : Int \cup {None},
            dedup_key : DedupKeys \cup {None}, timestamp : Int,
            delivery_attempts : Nat]

EntryType == [tree : Trees, queue : Queues, hi : Int, id : Nat, msg : Message]

\* The value of a dedup record is its time; "by", the message that wrote it,
\* is kept for the properties only.
DedupRecord == [queue : Queues, key : DedupKeys, at : Int, by : Nat]

Store == [queues : SUBSET Queues, retention : [Queues -> Policies \cup {None}],
          msgs : SUBSET EntryType, dedup : SUBSET DedupRecord]

EmptyStore == [queues |-> {}, retention |-> [q \in Queues |-> None],
               msgs |-> {}, dedup |-> {}]

-----------------------------------------------------------------------------
(* Keys, iteration order and the tree primitives *)

\* Mutation: the priority byte is not inverted.
KeyByteNotInverted(priority) == IF priority > 9 THEN 9 ELSE priority

\* The priority byte of encode_key.
KeyByte(priority) == 9 - (IF priority > 9 THEN 9 ELSE priority)

Entry(t, q, hi, id, m) ==
  [tree |-> t, queue |-> q, hi |-> hi, id |-> id, msg |-> m]

SameKey(e, f) ==
  e.tree = f.tree /\ e.queue = f.queue /\ e.hi = f.hi /\ e.id = f.id

Precedes(e, f) == e.hi < f.hi \/ (e.hi = f.hi /\ e.id < f.id)

\* How many entries of S an iteration yields before e.
Rank(e, S) == Cardinality({f \in S : Precedes(f, e)})

IsFirst(e, S) == e \in S /\ \A f \in S : ~Precedes(f, e)

In(s, t, q) == {e \in s.msgs : e.tree = t /\ e.queue = q}

\* Tree::insert replaces the value under an existing key.
InsertAll(s, E) ==
  [s EXCEPT !.msgs = {e \in @ : \A f \in E : ~SameKey(e, f)} \cup E]

RemoveAll(s, E) == [s EXCEPT !.msgs = @ \ E]

PolicyOf(s, q) ==
  IF s.retention[q] = None THEN DefaultPolicy ELSE s.retention[q]

\* Mutation: the in-flight trees are forgotten.
RecalculatedWithoutInflight(s) ==
  MsgLen * Cardinality({e \in s.msgs : e.tree # "inflight"})
    + DedupLen * Cardinality(s.dedup)

\* recalculate_bytes: the values in all trees of the declared queues.
RecalculatedBytes(s) ==
  MsgLen * Cardinality({e \in s.msgs : e.queue \in s.queues})
    + DedupLen * Cardinality({d \in s.dedup : d.queue \in s.queues})

-----------------------------------------------------------------------------
(* declare_queue_with_retention: two inserts *)

DeclareMeta(s, q) == [s EXCEPT !.queues = @ \cup {q}]

DeclareRetention(s, q, policy) == [s EXCEPT !.retention[q] = policy]

-----------------------------------------------------------------------------
(* publish: the dedup check, the message insert, then the dedup insert *)

\* Mutation: the window is taken for milliseconds.
IsDuplicateInMillis(s, q, m, now) ==
  LET w == PolicyOf(s, q).dedup_window_secs
  IN  /\ w # None /\ w > 0
      /\ m.dedup_key # None
      /\ \E d \in s.dedup : d.queue = q /\ d.key = m.dedup_key /\ d.at > now - w

IsDuplicate(s, q, m, now) ==
  LET w == PolicyOf(s, q).dedup_window_secs
  IN  /\ w # None /\ w > 0
      /\ m.dedup_key # None
      /\ \E d \in s.dedup : /\ d.queue = q /\ d.key = m.dedup_key
                            /\ d.at > now - w * MsPerSec

PublishEntry(q, m, id, now) ==
  IF m.deliver_at # None /\ m.deliver_at > now
    THEN Entry("scheduled", q, m.deliver_at, id, m)
    ELSE Entry("main", q, KeyByte(m.priority), id, m)

RecordDedupKey(s, q, m, now) ==
  IF PolicyOf(s, q).dedup_window_secs = None \/ m.dedup_key = None
    THEN s
    ELSE [s EXCEPT !.dedup =
            {d \in @ : ~(d.queue = q /\ d.key = m.dedup_key)}
              \cup {[queue |-> q, key |-> m.dedup_key, at |-> now, by |-> m.uid]}]

-----------------------------------------------------------------------------
(* consume, ack, nack: one transaction or remove each *)

\* Mutation: the message stays in the main tree.
ConsumeWithoutRemove(s, e) ==
  InsertAll(s, {Entry("inflight", e.queue, 0, e.id, e.msg)})

ConsumeEntry(s, e) ==
  InsertAll(RemoveAll(s, {e}), {Entry("inflight", e.queue, 0, e.id, e.msg)})

\* Mutation: one attempt too many.
NackTreeLate(policy, attempts) ==
  IF /\ policy.max_delivery_attempts # None
     /\ policy.max_delivery_attempts > 0
     /\ attempts > policy.max_delivery_attempts
    THEN "dlq" ELSE "main"

NackTree(policy, attempts) ==
  IF /\ policy.max_delivery_attempts # None
     /\ policy.max_delivery_attempts > 0
     /\ attempts >= policy.max_delivery_attempts
    THEN "dlq" ELSE "main"

\* Mutation: the attempts are counted down.
NackCountsDown(s, e, id) ==
  LET m == [e.msg EXCEPT !.delivery_attempts = @ - 1]
  IN  InsertAll(RemoveAll(s, {e}),
                {Entry("main", e.queue, KeyByte(m.priority), id, m)})

\* Mutation: the message keeps its id.
NackKeepsTag(s, e, id) ==
  LET m == [e.msg EXCEPT !.delivery_attempts = @ + 1]
      t == NackTree(PolicyOf(s, e.queue), m.delivery_attempts)
  IN  InsertAll(RemoveAll(s, {e}), {Entry(t, e.queue, KeyByte(m.priority), e.id, m)})

NackEntry(s, e, id) ==
  LET m == [e.msg EXCEPT !.delivery_attempts = @ + 1]
      t == NackTree(PolicyOf(s, e.queue), m.delivery_attempts)
  IN  InsertAll(RemoveAll(s, {e}), {Entry(t, e.queue, KeyByte(m.priority), id, m)})

-----------------------------------------------------------------------------
(* promote_scheduled: one transaction per due message, in key order *)

\* Mutation: the bound of the key range is one millisecond off.
DueTooSoon(s, q, now) == {e \in In(s, "scheduled", q) : e.hi <= now + 1}

Due(s, q, now) == {e \in In(s, "scheduled", q) : e.hi <= now}

\* Mutation: ids start again from 0.
RequeuedFromZero(e, S, base) ==
  Entry("main", e.queue, KeyByte(e.msg.priority), Rank(e, S), e.msg)

\* The main-tree entry that replaces e of S, ids being generated in key order.
Requeued(e, S, base) ==
  Entry("main", e.queue, KeyByte(e.msg.priority), base + Rank(e, S), e.msg)

\* Mutation: the due entries are removed before the first is inserted.
PromoteRemovesFirst(s, S, D, base) ==
  InsertAll(RemoveAll(s, S), {Requeued(e, S, base) : e \in D})

\* Mutation: the scheduled entry is kept.
PromoteCopies(s, S, D, base) == InsertAll(s, {Requeued(e, S, base) : e \in D})

\* The store once the entries D of S have been promoted.
Promote(s, S, D, base) ==
  InsertAll(RemoveAll(s, D), {Requeued(e, S, base) : e \in D})

-----------------------------------------------------------------------------
(* recover_inflight: copies a queue's in-flight entries, then removes them *)

Inflight(s) == {e \in s.msgs : e.tree = "inflight" /\ e.queue \in s.queues}

\* The store once the entries C have been copied and those of R removed.  Only
\* the order of the new ids within a queue is visible, so the ids of several
\* queues are taken in tag order.
Recover(s, C, R, base) ==
  RemoveAll(InsertAll(s, {Requeued(e, Inflight(s), base) : e \in C}), R)

\* Mutation: the entries are removed before they are copied.
RecoveryRemovesFirst(s) ==
  LET I == Inflight(s) IN {<<{}, {}>>, <<{}, I>>, <<I, I>>}

\* How far recover_inflight may have got: C copied, R removed.  It takes one
\* queue at a time, copies in tag order, and removes in tag order once the
\* last copy is made.
RecoveryProgress(s) ==
  LET I == Inflight(s)
      Of(q) == {e \in I : e.queue = q}
  IN  {p \in (SUBSET I) \X (SUBSET I) :
         /\ \A k \in 1..2 : \A e \in p[k], f \in I :
              e.queue = f.queue /\ Precedes(f, e) => f \in p[k]
         /\ \A e \in p[2] : Of(e.queue) \subseteq p[1]
         /\ \A e, f \in p[1] : \/ e.queue = f.queue
                               \/ Of(e.queue) \subseteq p[2]
                               \/ Of(f.queue) \subseteq p[2]}

-----------------------------------------------------------------------------
(* apply_retention: the expired entries go first, then the first entries in *)
(* key order beyond max_messages; one remove each                           *)

Expired(s, q, now) ==
  LET age == PolicyOf(s, q).max_age_secs
  IN  {e \in In(s, "main", q) :
         age # None /\ now - e.msg.timestamp >= age * MsPerSec}

\* Mutation: the excess is counted before the expired entries are gone.
ExcessStale(s, q, now) ==
  LET all  == In(s, "main", q)
      rest == all \ Expired(s, q, now)
      max  == PolicyOf(s, q).max_messages
  IN  {e \in rest : max # None /\ Rank(e, rest) < Cardinality(all) - max}

Excess(s, q, now) ==
  LET rest == In(s, "main", q) \ Expired(s, q, now)
      max  == PolicyOf(s, q).max_messages
  IN  {e \in rest : max # None /\ Rank(e, rest) < Cardinality(rest) - max}

\* The sets of entries removed after each remove of the two loops.
RetentionProgress(s, q, now) ==
  LET X == Expired(s, q, now)
      Y == Excess(s, q, now)
      Prefixes(S) == {{e \in S : Rank(e, S) < n} : n \in 0..Cardinality(S)}
  IN  Prefixes(X) \cup {X \cup P : P \in Prefixes(Y)}
=============================================================================
