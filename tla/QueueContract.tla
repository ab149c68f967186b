---------------------------- MODULE QueueContract ----------------------------
(***************************************************************************)
(* How the state of a QueueManager is read as a state of DeliveryContract:  *)
(* the tree an entry is in is the place of its copy.                        *)
(***************************************************************************)
EXTENDS QueueManager

PlaceOf(tree) ==
  CASE tree = "scheduled" -> "scheduled"
    [] tree = "main"      -> "ready"
    [] tree = "inflight"  -> "unacked"
    [] tree = "dlq"       -> "dead"

CopyOf(e) == [place |-> PlaceOf(e.tree), queue |-> e.queue, id |-> e.id, uid |-> e.msg.uid]

CopiesOf(E) == {CopyOf(e) : e \in E}

Contract == INSTANCE DeliveryContract WITH
  copies  <- CopiesOf(db.msgs),
  stored  <- 0..(published - 1),
  safe    <- safe,
  settled <- acked \cup expired,
  handed  <- handed,
  epoch   <- crashes

\* The manager implements the contract: every call, sync and crash is a step
\* the contract allows, or leaves what the contract speaks of unchanged.
ImplementsContract == Contract!ContractSpec
=============================================================================
