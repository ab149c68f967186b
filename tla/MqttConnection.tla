--------------------------- MODULE MqttConnection ---------------------------
(***************************************************************************)
(* MQTT connections (pelicanqd/src/mqtt/handler.rs) on top of a queue       *)
(* engine that keeps DeliveryContract.                                      *)
(*                                                                          *)
(* A connection has a reader of client packets, one poller task per         *)
(* subscribed queue, a bounded channel from the pollers to the connection,  *)
(* and a table of the packet ids that wait for a PUBACK.  A poller that has *)
(* consumed a message holds it until the channel has room.  The pollers,    *)
(* the connection loop and the client interleave freely.                    *)
(*                                                                          *)
(* Packets travel in order from the client (wire).  A PUBLISH to the client *)
(* is received when it is written; what a broken connection loses on the    *)
(* way, the client merely never answers.  PINGREQ and the packets that the  *)
(* handler ignores change nothing and are left out.                         *)
(***************************************************************************)
EXTENDS DeliveryContract, Sequences, FiniteSets

CONSTANTS
  Queues,       \* topics, that is queue names
  Conns,        \* connections
  ChannelCap,   \* room in the channel: 256 in the code
  PkidMod,      \* packet ids are modulo this: 2^16 in the code
  MaxMessages, MaxWire, MaxConnects, MaxRestarts  \* bounds

ASSUME ConnectionAssumption ==
  /\ ChannelCap \in Nat \ {0} /\ PkidMod \in Nat \ {0}
  /\ {MaxMessages, MaxWire, MaxConnects, MaxRestarts} \subseteq Nat

VARIABLES
  conn   \* conn[c]: the state of connection c and of its client

(* History, read by the properties only *)
VARIABLES
  offered,    \* how many messages clients have published; also the next uid
  connects,   \* how many connections were opened
  got,        \* the messages written to some client
  processed,  \* the messages some client has answered with a PUBACK
  stranded,   \* the tags that an abort or a close left in flight
  reused      \* TRUE once a packet id was taken while it was in the table

hist == <<offered, connects, got, processed, stranded, reused>>
vars == <<contractVars, conn, hist>>

\* What the engine returned to a poller.
Delivery == [queue : Queues, tag : Nat, uid : Nat]
Numbered == [pkid : 0..(PkidMod - 1), d : Delivery]

Packet ==
  [type : {"connect"}]
    \cup [type : {"publish"}, queue : Queues, uid : Nat]
    \cup [type : {"subscribe"}, filters : SUBSET Queues]
    \cup [type : {"unsubscribe"}, topics : SUBSET Queues]
    \cup [type : {"puback"}, pkid : 0..(PkidMod - 1)]

Connection ==
  [link      : {"closed", "new", "up"},  \* "new": waits for CONNECT
   pollers   : SUBSET Queues,     \* subscriptions: the queues with a poller
   hand      : SUBSET Delivery,   \* consumed by a poller, not sent yet
   channel   : Seq(Delivery),
   inflight  : SUBSET Numbered,
   next_pkid : 0..(PkidMod - 1),
   wire      : Seq(Packet),       \* from the client, not handled yet
   client    : SUBSET Numbered]   \* PUBLISHes the client has to answer

Closed ==
  [link |-> "closed", pollers |-> {}, hand |-> {}, channel |-> <<>>, inflight |-> {},
   next_pkid |-> 1 % PkidMod, wire |-> <<>>, client |-> {}]

\* The id of message u: fresh, and fresh again after every restart.
IdOf(u) == epoch * MaxMessages + u

Init ==
  /\ ContractInit
  /\ conn = [c \in Conns |-> Closed]
  /\ offered = 0 /\ connects = 0
  /\ got = {} /\ processed = {} /\ stranded = {} /\ reused = FALSE

-----------------------------------------------------------------------------
(* The client *)

\* listen accepts a connection and spawns handle_connection.
Accepted(c) ==
  /\ conn[c].link = "closed"
  /\ connects < MaxConnects
  /\ conn' = [conn EXCEPT ![c].link = "new"]
  /\ connects' = connects + 1
  /\ UNCHANGED <<contractVars, offered, got, processed, stranded, reused>>

Wire(c, packet) == Append(conn[c].wire, packet)

HasRoom(c) == conn[c].link # "closed" /\ Len(conn[c].wire) < MaxWire

\* The client sends a packet that does not concern a delivery.
ClientSends(c, packet) ==
  /\ HasRoom(c)
  /\ conn' = [conn EXCEPT ![c].wire = Wire(c, packet)]
  /\ UNCHANGED <<contractVars, hist>>

ClientPublishes(c, q) ==
  /\ HasRoom(c)
  /\ offered < MaxMessages
  /\ conn' = [conn EXCEPT ![c].wire =
                Wire(c, [type |-> "publish", queue |-> q, uid |-> offered])]
  /\ offered' = offered + 1
  /\ UNCHANGED <<contractVars, connects, got, processed, stranded, reused>>

\* The client has processed x and answers it.
ClientPubAcks(c, x) ==
  /\ HasRoom(c)
  /\ x \in conn[c].client
  /\ conn' = [conn EXCEPT ![c].client = @ \ {x},
                          ![c].wire = Wire(c, [type |-> "puback", pkid |-> x.pkid])]
  /\ processed' = processed \cup {x.d.uid}
  /\ UNCHANGED <<contractVars, offered, connects, got, stranded, reused>>

-----------------------------------------------------------------------------
(* handle_client_packet *)

Tags(D) == {d.tag : d \in D}

Receives(c, type) ==
  /\ conn[c].link = "up" /\ conn[c].wire # <<>>
  /\ Head(conn[c].wire).type = type

\* What connection c consumed and neither acked nor gave back.
HeldBy(c) ==
  conn[c].hand \cup {conn[c].channel[i] : i \in DOMAIN conn[c].channel}
    \cup {x.d : x \in conn[c].inflight}

\* handle_connection returns: the pollers are aborted, channel and table
\* are dropped.
Closes(c) ==
  /\ conn' = [conn EXCEPT ![c] = Closed]
  /\ stranded' = stranded \cup Tags(HeldBy(c))
  /\ UNCHANGED <<contractVars, offered, connects, got, processed, reused>>

\* The first packet: CONNECT, answered with CONNACK, or the end.
HandleFirst(c) ==
  /\ conn[c].link = "new" /\ conn[c].wire # <<>>
  /\ IF Head(conn[c].wire).type = "connect"
       THEN /\ conn' = [conn EXCEPT ![c].link = "up", ![c].wire = Tail(@)]
            /\ UNCHANGED <<contractVars, hist>>
       ELSE Closes(c)

\* The engine may refuse the message (the store is full, this node is not the
\* leader).
HandlePublish(c) ==
  /\ Receives(c, "publish")
  /\ LET p == Head(conn[c].wire)
     IN  \/ Accept([place |-> "ready", queue |-> p.queue, id |-> IdOf(p.uid),
                    uid |-> p.uid])
         \/ UNCHANGED contractVars
  /\ conn' = [conn EXCEPT ![c].wire = Tail(@)]
  /\ UNCHANGED hist

\* A queue that has a poller keeps it.  (A filter with a wildcard is answered
\* with a failure and starts none.)
HandleSubscribe(c) ==
  /\ Receives(c, "subscribe")
  /\ conn' = [conn EXCEPT ![c].pollers = @ \cup Head(conn[c].wire).filters,
                          ![c].wire = Tail(@)]
  /\ UNCHANGED <<contractVars, hist>>

\* The pollers are aborted with what they hold; what is in the channel stays.
HandleUnsubscribe(c) ==
  /\ Receives(c, "unsubscribe")
  /\ LET topics == Head(conn[c].wire).topics
         lost   == {d \in conn[c].hand : d.queue \in topics}
     IN  /\ conn' = [conn EXCEPT ![c].pollers = @ \ topics, ![c].hand = @ \ lost,
                                 ![c].wire = Tail(@)]
         /\ stranded' = stranded \cup Tags(lost)
  /\ UNCHANGED <<contractVars, offered, connects, got, processed, reused>>

\* Mutation: the PUBACK is taken for the oldest entry of the table.
HandlePubAckOldest(c) ==
  /\ Receives(c, "puback")
  /\ \E x \in conn[c].inflight :
       /\ \A y \in conn[c].inflight : x.d.tag <= y.d.tag
       /\ \E m \in At("unacked") : m.id = x.d.tag /\ Settle(m)
       /\ conn' = [conn EXCEPT ![c].inflight = @ \ {x}, ![c].wire = Tail(@)]
  /\ UNCHANGED hist

\* An unknown packet id is ignored; an ack that the engine refuses is logged.
HandlePubAck(c) ==
  /\ Receives(c, "puback")
  /\ LET x == {y \in conn[c].inflight : y.pkid = Head(conn[c].wire).pkid}
         m == {k \in At("unacked") : k.id \in {y.d.tag : y \in x}}
     IN  /\ IF m = {} THEN UNCHANGED contractVars ELSE \E k \in m : Settle(k)
         /\ conn' = [conn EXCEPT ![c].inflight = @ \ x, ![c].wire = Tail(@)]
  /\ UNCHANGED hist

HandlePacket(c) ==
  \/ HandleFirst(c) \/ HandlePublish(c) \/ HandleSubscribe(c)
  \/ HandleUnsubscribe(c) \/ HandlePubAck(c)

\* DISCONNECT, the end of the stream, a read error or a write error.
Breaks(c) == conn[c].link # "closed" /\ Closes(c)

-----------------------------------------------------------------------------
(* subscription_poller and the outgoing side of the connection *)

\* A tick of the poller of q finds a message.
PollerConsumes(c, q) ==
  /\ q \in conn[c].pollers
  /\ \A d \in conn[c].hand : d.queue # q
  /\ \E m \in At("ready") :
       /\ m.queue = q
       /\ Deliver(m)
       /\ conn' = [conn EXCEPT ![c].hand =
                     @ \cup {[queue |-> q, tag |-> m.id, uid |-> m.uid]}]
  /\ UNCHANGED hist

\* Mutation: a message that finds the channel full is dropped.
PollerSendsOrDrops(c, q) ==
  /\ \E d \in conn[c].hand :
       /\ d.queue = q
       /\ conn' = [conn EXCEPT ![c].hand = @ \ {d},
                     ![c].channel = IF Len(@) < ChannelCap THEN Append(@, d) ELSE @]
  /\ UNCHANGED <<contractVars, hist>>

\* Mutation: the last place in the channel is never used.
PollerSendsShort(c, q) ==
  /\ \E d \in conn[c].hand :
       /\ d.queue = q
       /\ Len(conn[c].channel) < ChannelCap - 1
       /\ conn' = [conn EXCEPT ![c].hand = @ \ {d}, ![c].channel = Append(@, d)]
  /\ UNCHANGED <<contractVars, hist>>

\* tx.send waits until the channel has room.
PollerSends(c, q) ==
  /\ \E d \in conn[c].hand :
       /\ d.queue = q
       /\ Len(conn[c].channel) < ChannelCap
       /\ conn' = [conn EXCEPT ![c].hand = @ \ {d}, ![c].channel = Append(@, d)]
  /\ UNCHANGED <<contractVars, hist>>

\* Mutation: the packet id does not wrap.
NextPkidUnwrapped(pkid) == pkid + 1

NextPkid(pkid) == (pkid + 1) % PkidMod

\* The connection takes a message from the channel, numbers it, enters it in
\* the table (over an older entry with this packet id) and writes it.
Outgoing(c) ==
  /\ conn[c].link = "up" /\ conn[c].channel # <<>>
  /\ LET pkid == conn[c].next_pkid
         x    == [pkid |-> pkid, d |-> Head(conn[c].channel)]
         old  == {y \in conn[c].inflight : y.pkid = pkid}
     IN  /\ conn' = [conn EXCEPT ![c].channel = Tail(@),
                                 ![c].next_pkid = NextPkid(pkid),
                                 ![c].inflight = (@ \ old) \cup {x},
                                 ![c].client = @ \cup {x}]
         /\ got' = got \cup {x.d.uid}
         /\ stranded' = stranded \cup {y.d.tag : y \in old}
         /\ reused' = (reused \/ old # {})
  /\ UNCHANGED <<contractVars, offered, connects, processed>>

\* The daemon restarts: connections are gone, recover_inflight makes unacked
\* messages ready under fresh ids.
Restart ==
  /\ epoch < MaxRestarts
  /\ conn' = [c \in Conns |-> Closed]
  /\ epoch' = epoch + 1
  /\ copies' = {[m EXCEPT !.place = "ready", !.id = (epoch + 1) * MaxMessages + m.uid] :
                  m \in copies}
  /\ stranded' = {}
  /\ UNCHANGED <<stored, safe, settled, handed, offered, connects, got, processed, reused>>

-----------------------------------------------------------------------------
ClientNext(c) ==
  \/ Accepted(c)
  \/ /\ conn[c].link = "new" /\ conn[c].wire = <<>>
     /\ ClientSends(c, [type |-> "connect"])
  \/ \E F \in SUBSET Queues \ {{}} : ClientSends(c, [type |-> "subscribe", filters |-> F])
  \/ \E T \in SUBSET Queues \ {{}} : ClientSends(c, [type |-> "unsubscribe", topics |-> T])
  \/ \E q \in Queues : ClientPublishes(c, q)
  \/ \E x \in conn[c].client : ClientPubAcks(c, x)

ServerNext(c) ==
  \/ HandlePacket(c)
  \/ Breaks(c)
  \/ \E q \in Queues : PollerConsumes(c, q) \/ PollerSends(c, q)
  \/ Outgoing(c)

Next == Restart \/ \E c \in Conns : ClientNext(c) \/ ServerNext(c)

\* The poller's interval keeps ticking, a send completes when there is room,
\* and select! takes a message from the channel however many packets arrive,
\* since it polls its branches in random order.  Clients owe nothing.
Fairness ==
  \A c \in Conns :
    /\ WF_vars(Outgoing(c))
    /\ \A q \in Queues : WF_vars(PollerConsumes(c, q)) /\ WF_vars(PollerSends(c, q))

Spec == Init /\ [][Next]_vars /\ Fairness

-----------------------------------------------------------------------------
(* Properties *)

TypeOK ==
  /\ copies \subseteq [place : {"ready", "unacked"}, queue : Queues, id : Nat, uid : Nat]
  /\ conn \in [Conns -> Connection]
  /\ offered \in Nat /\ connects \in Nat /\ epoch \in Nat
  /\ UNION {stored, settled, got, processed, stranded} \subseteq Nat
  /\ handed \subseteq Delivery /\ safe = {} /\ reused \in BOOLEAN

\* The places of connection c that hold a delivery with this tag: hands of
\* pollers, places in the channel and entries of the table.
Places(c, tag) ==
  {<<c, "hand", d>> : d \in {d \in conn[c].hand : d.tag = tag}}
    \cup {<<c, "channel", i>> :
            i \in {i \in DOMAIN conn[c].channel : conn[c].channel[i].tag = tag}}
    \cup {<<c, "table", x>> : x \in {x \in conn[c].inflight : x.d.tag = tag}}

\* Every message that is in flight in the engine is in exactly one hand: a
\* poller's, the channel's or the table's, of one connection; unless an
\* abort, a close or a reused packet id left it behind.  And every hand holds
\* messages that are in flight, so the ack that a PUBACK leads to succeeds.
OneHolder ==
  /\ \A m \in At("unacked") :
       Cardinality(UNION {Places(c, m.id) : c \in Conns})
         = IF m.id \in stranded THEN 0 ELSE 1
  /\ \A c \in Conns : Tags(HeldBy(c)) \subseteq {m.id : m \in At("unacked")}

\* A message is acked in the engine only after a client has processed this
\* very message, as long as no packet id was reused before it was answered:
\* pollers, channel, table and late PUBACKs never mix two messages up.
AckedWasProcessed == reused \/ settled \subseteq processed

\* While some connection stays subscribed to a queue, whatever the others do,
\* every message of the queue has in the end been written to a client (the
\* clients publish MaxMessages in all), unless an abort or a close caught it
\* on its way: a poller that waits for room in the channel and the connection
\* loop never wait for each other.
ReadyReachesClient ==
  \A c \in Conns, q \in Queues :
    <>[](q \in conn[c].pollers) =>
      []<>(\A m \in copies : m.queue = q => m.uid \in got \/ m.id \in stranded)
=============================================================================
