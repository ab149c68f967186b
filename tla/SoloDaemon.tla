----------------------------- MODULE SoloDaemon -----------------------------
(***************************************************************************)
(* pelicanqd in Solo mode: a QueueManager behind a mutex, driven by the     *)
(* HTTP, gRPC and MQTT front ends.  The front ends reach declare, publish,  *)
(* consume, ack and nack, one at a time or in batches that repeat them;     *)
(* nothing in the daemon calls promote_scheduled or apply_retention.        *)
(***************************************************************************)
EXTENDS QueueManager

\* One tick of a subscription poller (MQTT) or of a consume stream (gRPC).
Poll(q) == Consume(q)

DaemonNext ==
  \/ \E q \in Queues :
       \/ \E policy \in Policies : Declare(q, policy)
       \/ \E p \in Priorities, at \in DeliverAts, key \in DedupKeys \cup {None},
             ts \in {now} \cup ClientStamps : Publish(q, p, at, key, ts)
       \/ Poll(q)
       \/ \E tag \in 0..(nextId - 1) :
            Ack(q, tag) \/ Nack(q, tag) \/ NackInvalidTag(q, tag)
  \/ Sync
  \/ Restart
  \/ Tick

\* A poller's 100 ms interval, sled's flusher thread and the clock keep going.
\* Clients are not assumed to ack, nack or publish.
DaemonSpec ==
  /\ Init /\ [][DaemonNext]_vars
  /\ \A q \in Queues : WF_vars(Poll(q))
  /\ WF_vars(Sync)
  /\ WF_vars(Tick)

-----------------------------------------------------------------------------
Stored(u, trees) == \E e \in db.msgs : e.msg.uid = u /\ e.tree \in trees

\* A ready message eventually leaves the main tree: the pollers hand it out
\* however often crashes and nacks put it, or others before it, back.
ReadyIsHandedOut ==
  \A u \in 0..(MaxPublished - 1) : Stored(u, {"main"}) ~> ~Stored(u, {"main"})

\* "promoted to the main queue when their time arrives": a due message
\* eventually leaves the scheduled tree.
DueIsPromoted ==
  \A u \in 0..(MaxPublished - 1) :
    (\E e \in db.msgs : e.msg.uid = u /\ e.tree = "scheduled" /\ e.hi <= now)
      ~> ~Stored(u, {"scheduled"})
=============================================================================
