---------------------------- MODULE QueueSnapshot ----------------------------
(***************************************************************************)
(* Snapshots of a QueueManager (pelicanq-core/src/snapshot.rs) as a Flock  *)
(* uses them: a node exports its queues, a node that has just joined       *)
(* restores them into a freshly opened manager and then takes over, so     *)
(* that the clients of the first node continue with the second.            *)
(*                                                                         *)
(* A snapshot lists, per queue, the messages of each tree in iteration     *)
(* order and, for in-flight ones, their tags.  Here it is the set of the   *)
(* exported entries: their keys give that order, and are otherwise used    *)
(* only for the in-flight tree.                                            *)
(***************************************************************************)
EXTENDS QueueManager

CONSTANT MaxFailovers  \* bound

ASSUME SnapshotAssumption == MaxFailovers \in Nat

VARIABLE failovers  \* how often a new node took over

svars == <<vars, failovers>>

\* export_snapshot.  The dedup trees are left out.
ExportSnapshot(s) ==
  [queues |-> s.queues,
   policy |-> [q \in s.queues |-> PolicyOf(s, q)],
   msgs   |-> {e \in s.msgs : e.queue \in s.queues}]

\* The queues of a snapshot are a BTreeMap: they come in one fixed order.
QueueOrder ==
  CHOOSE f \in [Queues -> 1..Cardinality(Queues)] :
    \A q, r \in Queues : f[q] = f[r] => q = r

TreeOrder == [main |-> 1, scheduled |-> 2, inflight |-> 3, dlq |-> 4]

\* The order in which restore_from_snapshot writes the entries of a snapshot.
RestoredBefore(e, f) ==
  \/ QueueOrder[e.queue] < QueueOrder[f.queue]
  \/ e.queue = f.queue /\ TreeOrder[e.tree] < TreeOrder[f.tree]
  \/ e.queue = f.queue /\ e.tree = f.tree /\ Precedes(e, f)

\* How many ids are generated for the entries of S before e.
IdsBefore(e, S) ==
  Cardinality({f \in S : f.tree # "inflight" /\ RestoredBefore(f, e)})

\* Mutation: the messages are written in the reverse order.
RestoredReversed(e, S, base) ==
  Entry(e.tree, e.queue, e.hi,
        IF e.tree = "inflight" THEN e.id ELSE base + Cardinality(S) - IdsBefore(e, S),
        e.msg)

\* Mutation: a message counts as never delivered.
RestoredAsNew(e, S, base) ==
  Entry(e.tree, e.queue, e.hi,
        IF e.tree = "inflight" THEN e.id ELSE base + IdsBefore(e, S),
        [e.msg EXCEPT !.delivery_attempts = 0])

\* The entry written for e: an in-flight message keeps its tag, every other
\* one gets a new id.  A scheduled message always has a deliver_at.
Restored(e, S, base) ==
  Entry(e.tree, e.queue,
        CASE e.tree = "inflight"  -> 0
          [] e.tree = "scheduled" -> e.msg.deliver_at
          [] OTHER                -> KeyByte(e.msg.priority),
        IF e.tree = "inflight" THEN e.id ELSE base + IdsBefore(e, S),
        e.msg)

\* The store once the queues D and the policies of the queues P are declared
\* and the entries E written.
RestoreSome(s, snap, D, P, E, base) ==
  InsertAll([s EXCEPT
               !.queues = @ \cup D,
               !.retention = [q \in Queues |-> IF q \in P THEN snap.policy[q] ELSE @[q]]],
            {Restored(e, snap.msgs, base) : e \in E})

RestoreFromSnapshot(s, snap, base) ==
  RestoreSome(s, snap, snap.queues, snap.queues, snap.msgs, base)

\* The stores after each write of restore_from_snapshot.
RestoreProgress(s, snap, base) ==
  LET Before(q) == {r \in snap.queues : QueueOrder[r] < QueueOrder[q]}
      Upto(q)   == Before(q) \cup {q}
      Of(Q)     == {e \in snap.msgs : e.queue \in Q}
      Written(e) == {f \in snap.msgs : f = e \/ RestoredBefore(f, e)}
  IN  {s}
      \cup {RestoreSome(s, snap, Upto(q), Before(q), Of(Before(q)), base) :
              q \in snap.queues}
      \cup {RestoreSome(s, snap, Upto(q), Upto(q), Of(Before(q)), base) :
              q \in snap.queues}
      \cup {RestoreSome(s, snap, Upto(e.queue), Upto(e.queue), Written(e), base) :
              e \in snap.msgs}

\* The new node has generated no ids yet.  Nothing it stores is synced, and it
\* has no dedup records, so the history of the dedup window starts again.
Failover ==
  LET snap == ExportSnapshot(db)
  IN  /\ failovers < MaxFailovers
      /\ db' = RestoreFromSnapshot(EmptyStore, snap, 0)
      /\ disk' = RestoreProgress(EmptyStore, snap, 0)
      /\ nextId' = Cardinality({e \in snap.msgs : e.tree # "inflight"})
      /\ current_bytes' = RecalculatedBytes(db')
      /\ safe' = {} /\ accepted' = {}
      /\ failovers' = failovers + 1
      /\ UNCHANGED <<now, published, crashes, acked, expired, handed>>

SnapInit == Init /\ failovers = 0

SnapNext == (Next /\ UNCHANGED failovers) \/ Failover

SnapSpec == SnapInit /\ [][SnapNext]_svars

-----------------------------------------------------------------------------
\* Export and restore between them lose and double nothing: each queue has its
\* policy, each tree the same messages as often as before, and the in-flight
\* ones their tags, whatever crashes and nacks made of the queues before.
RestoredWhole ==
  [][failovers' # failovers =>
       /\ \A q \in db.queues : q \in db'.queues /\ PolicyOf(db', q) = PolicyOf(db, q)
       /\ \A q \in Queues, t \in Trees : \A m \in {e.msg : e \in In(db, t, q)} :
            Cardinality({e \in In(db', t, q) : e.msg = m})
              = Cardinality({e \in In(db, t, q) : e.msg = m})
       /\ Cardinality(db'.msgs) = Cardinality(db.msgs)
       /\ \A q \in Queues : In(db, "inflight", q) = In(db', "inflight", q)]_svars
=============================================================================
