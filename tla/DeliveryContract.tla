-------------------------- MODULE DeliveryContract --------------------------
(***************************************************************************)
(* What a queue engine promises to whoever publishes to it and consumes     *)
(* from it, whatever trees, keys and writes it is made of.  A stored        *)
(* message is a copy somewhere on its way:                                  *)
(*   scheduled --> ready <--> unacked --> (settled)                         *)
(*                              |                                           *)
(*                              v                                           *)
(*                             dead                                         *)
(* QueueManager implements this specification (see Contract in module       *)
(* QueueContract).  The front ends (MqttConnection, ConsumeStream) are        *)
(* modelled on top of it and see nothing else of the engine.                *)
(*                                                                          *)
(* The contract has no clock, no priorities and no policies: it allows any  *)
(* ready copy to be delivered next and any copy to be released or dead-     *)
(* lettered.                                                                *)
(***************************************************************************)
EXTENDS Integers

VARIABLES
  copies,   \* the stored copies: [place, queue, id, uid]
  stored,   \* the messages that were accepted
  safe,     \* the messages that no crash can take away any more
  settled,  \* the messages that were acked or expired
  handed,   \* the deliveries made: [queue, tag, uid]
  epoch     \* how often the engine was restarted

contractVars == <<copies, stored, safe, settled, handed, epoch>>

UidsOf(C) == {c.uid : c \in C}

At(place) == {c \in copies : c.place = place}

\* An id that no copy has and that was never a delivery tag.
Fresh(id) == (\A c \in copies : c.id # id) /\ (\A h \in handed : h.tag # id)

ContractInit ==
  /\ copies = {} /\ stored = {} /\ safe = {} /\ settled = {} /\ handed = {}
  /\ epoch = 0

-----------------------------------------------------------------------------
(* A publish that returns Stored. *)
Accept(c) ==
  /\ c.place \in {"ready", "scheduled"}
  /\ c.uid \notin stored
  /\ Fresh(c.id)
  /\ copies' = copies \cup {c}
  /\ stored' = stored \cup {c.uid}
  /\ UNCHANGED <<safe, settled, handed, epoch>>

(* A consume that returns a message: its id becomes the delivery tag. *)
Deliver(c) ==
  /\ c \in At("ready")
  /\ copies' = (copies \ {c}) \cup {[c EXCEPT !.place = "unacked"]}
  /\ handed' = handed \cup {[queue |-> c.queue, tag |-> c.id, uid |-> c.uid]}
  /\ UNCHANGED <<stored, safe, settled, epoch>>

(* An ack that returns Ok. *)
Settle(c) ==
  /\ c \in At("unacked")
  /\ copies' = copies \ {c}
  /\ settled' = settled \cup {c.uid}
  /\ UNCHANGED <<stored, safe, handed, epoch>>

(* A nack that returns Ok: d replaces c, under a fresh id. *)
Return(c, d) ==
  /\ c \in At("unacked")
  /\ d.place \in {"ready", "dead"} /\ d.queue = c.queue /\ d.uid = c.uid
  /\ Fresh(d.id)
  /\ copies' = (copies \ {c}) \cup {d}
  /\ UNCHANGED <<stored, safe, settled, handed, epoch>>

(* Scheduled copies S become the ready copies R, one for one. *)
Release(S, R) ==
  /\ S \subseteq At("scheduled")
  /\ \A d \in R : d.place = "ready" /\ Fresh(d.id)
  /\ \A c \in S : \E d \in R : d.uid = c.uid /\ d.queue = c.queue
  /\ \A d \in R : \E c \in S : d.uid = c.uid /\ d.queue = c.queue
  /\ \A d, e \in R : d.id = e.id => d = e
  /\ copies' = (copies \ S) \cup R
  /\ UNCHANGED <<stored, safe, settled, handed, epoch>>

(* Ready copies E are dropped by retention. *)
Expire(E) ==
  /\ E \subseteq At("ready")
  /\ copies' = copies \ E
  /\ settled' = settled \cup UidsOf(E)
  /\ UNCHANGED <<stored, safe, handed, epoch>>

(* What is stored has reached the disk. *)
Persist ==
  /\ safe' = safe \cup UidsOf(copies)
  /\ UNCHANGED <<copies, stored, settled, handed, epoch>>

(* A crash and a restart.  Unacked messages are ready again; messages that  *)
(* were not persisted may be gone, settled ones may be back, and a message  *)
(* may have more copies than before; but a persisted message that was not   *)
(* settled is there, nothing is there that was not accepted, and no id that *)
(* was a delivery tag now names another message.                            *)
Crash ==
  /\ \A c \in copies' : c.place # "unacked"
  /\ safe \ settled \subseteq UidsOf(copies')
  /\ UidsOf(copies') \subseteq stored
  /\ \A c \in copies', h \in handed : c.id = h.tag => c.uid = h.uid
  /\ \A c, d \in copies' : c.id = d.id => c = d
  /\ epoch' = epoch + 1
  /\ UNCHANGED <<stored, safe, settled, handed>>

ContractNext ==
  \/ \E c \in copies' \ copies : Accept(c)
  \/ \E c \in copies : Deliver(c) \/ Settle(c)
  \/ \E c \in copies : \E d \in copies' \ copies : Return(c, d)
  \/ Release(copies \ copies', copies' \ copies)
  \/ Expire(copies \ copies')
  \/ Persist
  \/ Crash

ContractSpec == ContractInit /\ [][ContractNext]_contractVars
=============================================================================
