---------------------------- MODULE ConsumeStream ----------------------------
(***************************************************************************)
(* The streaming consume of the gRPC service (consume_stream in             *)
(* pelicanqd/src/grpc/queue_service.rs) on top of a queue engine that keeps *)
(* DeliveryContract, with the clients at the other end.                     *)
(*                                                                          *)
(* A stream has one task.  Each turn of its loop makes a select! over the   *)
(* next message of the client and a new 100 ms sleep.  What has arrived     *)
(* when the turn begins wins over the sleep, which has just been created    *)
(* (phase "loop"); after that, whichever is first does (phase "waiting").   *)
(* A delivery goes through a bounded channel, and the task handles nothing  *)
(* else while the channel is full (phase "sending").                        *)
(*                                                                          *)
(* A client is sequential: it takes a delivery, then sends its answer, and  *)
(* can do neither when it must wait for the other side.  After a hang-up it *)
(* may answer again on a new stream what it cannot know to be settled.      *)
(***************************************************************************)
EXTENDS DeliveryContract, Sequences

CONSTANTS
  Streams,       \* streams, each with its client
  Q,             \* the queue they consume from
  ChannelCap,    \* room in the channel: 64 in the code
  InboundCap,    \* how many messages of a client HTTP/2 lets wait
  MaxMessages, MaxChatter, MaxOpens,   \* bounds
  MaxRenewals    \* bound on nacks and restarts, which give out fresh ids

ASSUME StreamAssumption ==
  /\ ChannelCap \in Nat \ {0} /\ InboundCap \in Nat \ {0}
  /\ {MaxMessages, MaxChatter, MaxOpens, MaxRenewals} \subseteq Nat

VARIABLES
  issued,  \* how many ids the engine has taken from its generator
  st       \* st[s]: the task of stream s and its client

(* History, read by the properties and the bounds only *)
VARIABLES
  nacks, chatter, opens,   \* how often each was done; a close counts as an open
  received,  \* the messages that some client has received
  acked,     \* the messages that some client has acked
  stranded   \* the tags that a hang-up or an ignored answer left in flight

hist == <<nacks, chatter, opens, received, acked, stranded>>
engine == <<contractVars, issued>>
vars == <<engine, st, hist>>

Delivery == [queue : {Q}, tag : Nat, uid : Nat]

\* ConsumeStreamAck; at most one element in each set.
StreamAck == [queue : BOOLEAN, ack : SUBSET Delivery, nack : SUBSET Delivery]

Stream ==
  [phase   : {"ended", "loop", "waiting", "sending", "failing"},
   bound   : BOOLEAN,              \* queue.is_some()
   hand    : SUBSET Delivery,      \* what tx.send waits with
   channel : Seq(SUBSET Delivery), \* {} stands for an Err(status)
   inbound : Seq(StreamAck),
   closed  : BOOLEAN,              \* the client will send nothing more
   hungup  : BOOLEAN,              \* the client is gone
   owes    : SUBSET Delivery,      \* received by the client, to be answered
   sent    : SUBSET Delivery]      \* answered on this stream

Ended ==
  [phase |-> "ended", bound |-> FALSE, hand |-> {}, channel |-> <<>>, inbound |-> <<>>,
   closed |-> FALSE, hungup |-> TRUE, owes |-> {}, sent |-> {}]

Init ==
  /\ ContractInit /\ issued = 0
  /\ st = [s \in Streams |-> Ended]
  /\ nacks = 0 /\ chatter = 0 /\ opens = 0
  /\ received = {} /\ acked = {} /\ stranded = {}

Tags(D) == {d.tag : d \in D}

\* Mutation: the newest id is given out again.
NextIdAgain == issued - 1

\* The id that generate_id returns.
NextId == issued

-----------------------------------------------------------------------------
(* The clients *)

\* Somebody publishes.
Published ==
  /\ \E u \in 0..(MaxMessages - 1) :
       /\ u \notin stored
       /\ \A v \in 0..(u - 1) : v \in stored
       /\ Accept([place |-> "ready", queue |-> Q, id |-> NextId, uid |-> u])
  /\ issued' = issued + 1
  /\ UNCHANGED <<st, hist>>

\* The client opens a stream; it keeps what it still has to answer.
ClientOpens(s) ==
  /\ st[s].phase = "ended" /\ st[s].hungup
  /\ opens < MaxOpens
  /\ st' = [st EXCEPT ![s] = [Ended EXCEPT !.phase = "loop", !.hungup = FALSE,
                                           !.owes = st[s].owes]]
  /\ opens' = opens + 1
  /\ UNCHANGED <<engine, nacks, chatter, received, acked, stranded>>

\* The client has room for another message to the server.
CanSend(s) == ~st[s].hungup /\ ~st[s].closed /\ Len(st[s].inbound) < InboundCap

\* A message without a tag: the one that names the queue, or none at all.  A
\* client that owes an answer sends this first.
ClientNames(s, names) ==
  /\ CanSend(s)
  /\ st[s].owes = {}
  /\ chatter < MaxChatter
  /\ st' = [st EXCEPT ![s].inbound =
              Append(@, [queue |-> names, ack |-> {}, nack |-> {}])]
  /\ chatter' = chatter + 1
  /\ UNCHANGED <<engine, nacks, opens, received, acked, stranded>>

ClientAcks(s, d, names) ==
  /\ CanSend(s)
  /\ d \in st[s].owes
  /\ st' = [st EXCEPT ![s].owes = @ \ {d}, ![s].sent = @ \cup {d},
              ![s].inbound = Append(@, [queue |-> names, ack |-> {d}, nack |-> {}])]
  /\ acked' = acked \cup {d.uid}
  /\ UNCHANGED <<engine, nacks, chatter, opens, received, stranded>>

ClientNacks(s, d, names) ==
  /\ CanSend(s)
  /\ d \in st[s].owes
  /\ nacks + epoch < MaxRenewals
  /\ st' = [st EXCEPT ![s].owes = @ \ {d}, ![s].sent = @ \cup {d},
              ![s].inbound = Append(@, [queue |-> names, ack |-> {}, nack |-> {d}])]
  /\ nacks' = nacks + 1
  /\ UNCHANGED <<engine, chatter, opens, received, acked, stranded>>

\* The client closes its side of the stream and goes on reading.
ClientCloses(s) ==
  /\ ~st[s].hungup /\ ~st[s].closed
  /\ opens < MaxOpens
  /\ st' = [st EXCEPT ![s].closed = TRUE]
  /\ opens' = opens + 1
  /\ UNCHANGED <<engine, nacks, chatter, received, acked, stranded>>

\* The client takes the next item.  An Err or the end of the items ends the
\* stream for it, and it cannot know which of its answers were handled.
ClientReceives(s) ==
  /\ ~st[s].hungup
  /\ ~st[s].closed => st[s].owes = {}
  /\ st[s].channel = <<>> => st[s].phase = "ended"
  /\ LET ended == st[s].channel = <<>>
         item  == IF ended THEN {} ELSE Head(st[s].channel)
     IN  /\ st' = [st EXCEPT ![s].channel = IF ended THEN @ ELSE Tail(@),
                             ![s].hungup = (item = {}),
                             ![s].owes = @ \cup IF item = {} THEN st[s].sent ELSE item]
         /\ received' = received \cup {d.uid : d \in item}
  /\ UNCHANGED <<engine, nacks, chatter, opens, acked, stranded>>

\* The deliveries in a channel, and those that messages of a client answer.
Carried(channel) == UNION {channel[i] : i \in DOMAIN channel}
Answered(inbound) == UNION {inbound[i].ack \cup inbound[i].nack : i \in DOMAIN inbound}

\* The client hangs up: the channel is closed, and of its messages the
\* server still reads some.  It will answer again (keep), or forget.
ClientHangsUp(s, keep, n) ==
  /\ ~st[s].hungup
  /\ LET doubt == st[s].owes \cup st[s].sent
     IN  /\ st' = [st EXCEPT ![s].hungup = TRUE, ![s].channel = <<>>,
                             ![s].inbound = SubSeq(@, 1, n),
                             ![s].owes = IF keep THEN doubt ELSE {},
                             ![s].sent = {}]
         /\ stranded' = stranded \cup Tags(Carried(st[s].channel))
                          \cup IF keep THEN {} ELSE Tags(doubt)
  /\ UNCHANGED <<engine, nacks, chatter, opens, received, acked>>

-----------------------------------------------------------------------------
(* The task *)

\* The task returns; what it holds, it drops.
Returns(s) ==
  /\ st' = [st EXCEPT ![s].phase = "ended", ![s].hand = {}, ![s].inbound = <<>>]
  /\ stranded' = stranded \cup Tags(st[s].hand)
  /\ UNCHANGED <<nacks, chatter, opens, received, acked>>

\* The loop goes on after a message was taken.
Continues(s, phase) ==
  /\ st' = [st EXCEPT ![s].phase = phase, ![s].inbound = Tail(@)]
  /\ UNCHANGED hist

Takes(s) == st[s].phase \in {"loop", "waiting"} /\ st[s].inbound # <<>>

\* The first message names the queue, and nothing else in it is looked at.
ReceiveFirst(s) ==
  /\ Takes(s) /\ ~st[s].bound
  /\ LET m == Head(st[s].inbound)
     IN  /\ st' = [st EXCEPT ![s].phase = IF m.queue THEN "loop" ELSE "failing",
                             ![s].bound = m.queue, ![s].inbound = Tail(@)]
         /\ stranded' = stranded \cup Tags(m.ack \cup m.nack)
  /\ UNCHANGED <<engine, nacks, chatter, opens, received, acked>>

\* handle_ack: an unknown tag is an error, which ends the stream.
ReceiveAck(s) ==
  /\ Takes(s) /\ st[s].bound
  /\ Head(st[s].inbound).ack # {}
  /\ LET known == {m \in At("unacked") : m.id \in Tags(Head(st[s].inbound).ack)}
     IN  IF known # {}
           THEN (\E m \in known : Settle(m)) /\ UNCHANGED issued /\ Continues(s, "loop")
           ELSE UNCHANGED engine /\ Continues(s, "failing")

\* Mutation: the message of an unwanted delivery is settled.
ReceiveNackSettles(s) ==
  /\ Takes(s) /\ st[s].bound
  /\ Head(st[s].inbound).ack = {} /\ Head(st[s].inbound).nack # {}
  /\ LET known == {m \in At("unacked") : m.id \in Tags(Head(st[s].inbound).nack)}
     IN  IF known # {}
           THEN (\E m \in known : Settle(m)) /\ UNCHANGED issued /\ Continues(s, "loop")
           ELSE UNCHANGED engine /\ Continues(s, "failing")

\* handle_nack: the message is ready again, or in the dead-letter queue.
ReceiveNack(s) ==
  /\ Takes(s) /\ st[s].bound
  /\ Head(st[s].inbound).ack = {} /\ Head(st[s].inbound).nack # {}
  /\ LET known == {m \in At("unacked") : m.id \in Tags(Head(st[s].inbound).nack)}
     IN  IF known # {}
           THEN /\ \E m \in known, place \in {"ready", "dead"} :
                     Return(m, [m EXCEPT !.place = place, !.id = NextId])
                /\ issued' = issued + 1
                /\ Continues(s, "loop")
           ELSE UNCHANGED engine /\ Continues(s, "failing")

\* A message without a tag changes nothing.
ReceiveNeither(s) ==
  /\ Takes(s) /\ st[s].bound
  /\ Head(st[s].inbound).ack = {} /\ Head(st[s].inbound).nack = {}
  /\ Continues(s, "loop")
  /\ UNCHANGED engine

\* inbound_stream.next() is at its end, or broken.  What is in the channel
\* stays there.
InboundEnds(s) ==
  /\ st[s].phase \in {"loop", "waiting"}
  /\ st[s].inbound = <<>> /\ (st[s].hungup \/ st[s].closed)
  /\ Returns(s)
  /\ UNCHANGED engine

\* Nothing is there: the task waits for a message or for the sleep.
Waits(s) ==
  /\ st[s].phase = "loop" /\ st[s].inbound = <<>>
  /\ ~st[s].hungup /\ ~st[s].closed
  /\ st' = [st EXCEPT ![s].phase = "waiting"]
  /\ UNCHANGED <<engine, hist>>

\* The sleep is over: the task polls the queue, if it knows it.
Polls(s) ==
  IF st[s].bound /\ At("ready") # {}
    THEN \E m \in At("ready") :
           /\ Deliver(m) /\ UNCHANGED issued
           /\ st' = [st EXCEPT ![s].phase = "sending",
                       ![s].hand = {[queue |-> Q, tag |-> m.id, uid |-> m.uid]}]
    ELSE st' = [st EXCEPT ![s].phase = "loop"] /\ UNCHANGED engine

\* Mutation: an interval made once, outside the loop, fires before the
\* messages that have arrived are read.
SleepEndsEarly(s) ==
  /\ st[s].phase \in {"loop", "waiting"}
  /\ Polls(s)
  /\ UNCHANGED hist

SleepEnds(s) ==
  /\ st[s].phase = "waiting"
  /\ Polls(s)
  /\ UNCHANGED hist

\* Mutation: a delivery that finds the channel full is dropped.
SendsOrDrops(s) ==
  /\ st[s].phase = "sending" /\ ~st[s].hungup
  /\ st' = [st EXCEPT ![s].phase = "loop", ![s].hand = {},
       ![s].channel = IF Len(@) < ChannelCap THEN Append(@, st[s].hand) ELSE @]
  /\ UNCHANGED <<engine, hist>>

\* tx.send(..).await gets a place in the channel.
Sends(s) ==
  /\ st[s].phase = "sending" /\ ~st[s].hungup
  /\ Len(st[s].channel) < ChannelCap
  /\ st' = [st EXCEPT ![s].phase = "loop", ![s].hand = {},
                      ![s].channel = Append(@, st[s].hand)]
  /\ UNCHANGED <<engine, hist>>

\* The error goes into the channel, and the task returns.
SendsError(s) ==
  /\ st[s].phase = "failing" /\ ~st[s].hungup
  /\ Len(st[s].channel) < ChannelCap
  /\ st' = [st EXCEPT ![s].phase = "ended", ![s].inbound = <<>>,
                      ![s].channel = Append(@, {})]
  /\ UNCHANGED <<engine, hist>>

\* Mutation: a task that waits for room does not notice the hang-up.
SendFailsNever(s) ==
  /\ st[s].phase = "failing" /\ st[s].hungup
  /\ Returns(s)
  /\ UNCHANGED engine

\* The receiver is gone: tx.send fails.
SendFails(s) ==
  /\ st[s].phase \in {"sending", "failing"} /\ st[s].hungup
  /\ Returns(s)
  /\ UNCHANGED engine

Receives(s) ==
  ReceiveFirst(s) \/ ReceiveAck(s) \/ ReceiveNack(s) \/ ReceiveNeither(s) \/ InboundEnds(s)

TaskNext(s) == Receives(s) \/ Waits(s) \/ SleepEnds(s) \/ Sends(s) \/ SendsError(s) \/ SendFails(s)

\* The daemon restarts.  Unacked messages are ready again under fresh ids.
Restart ==
  /\ nacks + epoch < MaxRenewals
  /\ epoch' = epoch + 1
  /\ issued' = issued + MaxMessages
  /\ copies' = {IF m.place = "unacked"
                  THEN [m EXCEPT !.place = "ready", !.id = NextId + m.uid] ELSE m : m \in copies}
  /\ st' = [s \in Streams |-> [Ended EXCEPT !.owes = st[s].owes \cup st[s].sent]]
  /\ stranded' = {}
  /\ UNCHANGED <<stored, safe, settled, handed, nacks, chatter, opens, received, acked>>

ClientNext(s) ==
  \/ ClientOpens(s)
  \/ \E names \in {FALSE, ~st[s].bound} :   \* a second queue name is not looked at
       \/ ClientNames(s, names)
       \/ \E d \in st[s].owes : ClientAcks(s, d, names) \/ ClientNacks(s, d, names)
  \/ ClientReceives(s) \/ ClientCloses(s)
  \/ \E keep \in BOOLEAN, n \in 0..Len(st[s].inbound) : ClientHangsUp(s, keep, n)

Next == Published \/ Restart \/ \E s \in Streams : ClientNext(s) \/ TaskNext(s)

\* The task goes on whenever it can (the runtime schedules it, its sleep
\* ends); a client that has not hung up takes what arrives and acks it.  It
\* owes nothing else.
Fairness ==
  \A s \in Streams :
    /\ WF_vars(TaskNext(s))
    /\ WF_vars(ClientReceives(s) \/ \E d \in st[s].owes : ClientAcks(s, d, FALSE))

Spec == Init /\ [][Next]_vars /\ Fairness

-----------------------------------------------------------------------------
(* Properties *)

TypeOK ==
  /\ copies \subseteq [place : {"ready", "unacked", "dead"}, queue : {Q}, id : Nat, uid : Nat]
  /\ st \in [Streams -> Stream]
  /\ {nacks, chatter, opens, epoch, issued} \subseteq Nat
  /\ UNION {stored, settled, received, acked, stranded} \subseteq Nat
  /\ handed \subseteq Delivery /\ safe = {}

\* Where an unsettled delivery can be.  Once the task has ended, the client's
\* answers are in doubt.
Held(s) ==
  st[s].hand \cup Carried(st[s].channel) \cup st[s].owes \cup Answered(st[s].inbound)
    \cup IF st[s].phase = "ended" THEN st[s].sent ELSE {}

\* Every message in flight is somewhere between the engine and a client that
\* will answer it, in the task, the channel, the client or its messages to
\* the server, unless a hang-up or the first message of a stream left it
\* behind: no phase of the task loses a delivery or an answer.
Accounted ==
  \A m \in At("unacked") :
    m.id \in stranded \/ \E s \in Streams : m.id \in Tags(Held(s))

\* A message is settled only if a client has acked this very message, however
\* often answers are repeated on other streams, late, or after a restart.
SettledWasAcked == settled \subseteq acked

\* A stream that names its queue and stays open delivers: in the end every
\* message was received by a client, is in the dead-letter queue, or was left
\* behind.  The task that waits for room in the channel and the client that
\* waits for room to answer never wait for each other.
OpenStreamDelivers ==
  \A s \in Streams :
    <>[](st[s].bound /\ ~st[s].hungup) =>
      []<>(\A m \in copies : m.place = "dead" \/ m.uid \in received \/ m.id \in stranded)

\* The task of a client that has hung up or closed its side returns, in
\* whatever phase it is.  (Until then the client cannot open a new stream.)
HangUpEndsTask ==
  \A s \in Streams : []<>(st[s].hungup \/ st[s].closed => st[s].phase = "ended")
=============================================================================
