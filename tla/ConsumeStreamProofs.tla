------------------------- MODULE ConsumeStreamProofs -------------------------
(***************************************************************************)
(* What a stream does with deliveries and answers, proved for any number of *)
(* streams, any room in the channels and any number of messages, hang-ups,  *)
(* restarts and repeated answers.                                           *)
(***************************************************************************)
EXTENDS ConsumeStream, SequenceTheorems, TLAPS

\* The engine: an id belongs to one copy and, as a tag, to one message.
EngineInv ==
  /\ stored \subseteq 0..(MaxMessages - 1)
  /\ \A c \in copies : c.uid \in stored /\ c.id < issued
  /\ \A c, d \in copies : c.uid = d.uid => c = d
  /\ \A c, d \in copies : c.id = d.id => c = d
  /\ \A h \in handed : h.tag < issued
  /\ \A c \in copies, h \in handed : c.id = h.tag => c.uid = h.uid
  /\ \A g, h \in handed : g.tag = h.tag => g.uid = h.uid

\* Clients and tasks hold only what was handed out, and an ack on its way
\* was sent.
Genuine(r) ==
  /\ r.hand \cup Carried(r.channel) \cup r.owes \cup r.sent \cup Answered(r.inbound)
       \subseteq handed
  /\ \A i \in DOMAIN r.inbound : \A d \in r.inbound[i].ack : d.uid \in acked

\* A message of a client answers one delivery at most.
OneAnswer(m) ==
  /\ \A d, e \in m.ack \cup m.nack : d = e
  /\ m.ack = {} \/ m.nack = {}

\* The phases of a task: only one that is sending holds a delivery, an Err is
\* the last item of a task that has ended, and what the task has not read of
\* the answers the client has not forgotten, or it is left behind.
Phases(r) ==
  /\ r.hand # {} <=> r.phase = "sending"
  /\ \A i \in DOMAIN r.channel : r.channel[i] = {} => i = Len(r.channel) /\ r.phase = "ended"
  /\ \A i \in DOMAIN r.inbound : OneAnswer(r.inbound[i])
  /\ ~r.hungup => Answered(r.inbound) \subseteq r.sent
  /\ r.hungup => /\ r.channel = <<>> /\ r.sent \subseteq r.owes
                 /\ Tags(Answered(r.inbound)) \subseteq stranded \cup Tags(r.owes)

StreamInv == \A s \in Streams : Genuine(st[s]) /\ Phases(st[s])

IndInv == TypeOK /\ EngineInv /\ StreamInv /\ SettledWasAcked /\ Accounted

-----------------------------------------------------------------------------
(* Sequences *)

\* What one more item adds to a channel.
LEMMA AppendCarried ==
  ASSUME NEW T, NEW c \in Seq(SUBSET T), NEW x \in SUBSET T
  PROVE  Carried(Append(c, x)) = Carried(c) \cup x
<1>1. \A i \in DOMAIN c : Append(c, x)[i] = c[i] /\ i \in DOMAIN Append(c, x)
  OBVIOUS
<1>2. Append(c, x)[Len(c) + 1] = x /\ Len(c) + 1 \in DOMAIN Append(c, x)
  OBVIOUS
<1>3. \A i \in DOMAIN Append(c, x) : i \in DOMAIN c \/ i = Len(c) + 1
  OBVIOUS
<1> QED
  BY <1>1, <1>2, <1>3, Zenon DEF Carried

\* What the first item takes out of a channel.
LEMMA TailCarried ==
  ASSUME NEW T, NEW c \in Seq(SUBSET T), c # <<>>
  PROVE  Carried(c) = Head(c) \cup Carried(Tail(c))
<1>1. \A i \in DOMAIN Tail(c) : Tail(c)[i] = c[i + 1] /\ i + 1 \in DOMAIN c
  OBVIOUS
<1>2. Head(c) = c[1] /\ 1 \in DOMAIN c
  OBVIOUS
<1>3. \A i \in DOMAIN c : i = 1 \/ (i - 1 \in DOMAIN Tail(c) /\ c[i] = Tail(c)[i - 1])
  OBVIOUS
<1> QED
  BY <1>1, <1>2, <1>3, ZenonT(60) DEF Carried

\* The messages on their way with one more.
LEMMA AppendItems ==
  ASSUME NEW q \in Seq(StreamAck), NEW m \in StreamAck
  PROVE  \A i \in DOMAIN Append(q, m) :
           Append(q, m)[i] = m \/ (i \in DOMAIN q /\ Append(q, m)[i] = q[i])
  OBVIOUS

\* The messages on their way without the first.
LEMMA TailItems ==
  ASSUME NEW q \in Seq(StreamAck), q # <<>>
  PROVE  /\ Tail(q) \in Seq(StreamAck) /\ Head(q) \in StreamAck /\ 1 \in DOMAIN q /\ Head(q) = q[1]
         /\ \A i \in DOMAIN Tail(q) : i + 1 \in DOMAIN q /\ Tail(q)[i] = q[i + 1]
  OBVIOUS

\* What it means to be answered.
LEMMA InAnswered ==
  ASSUME NEW q, NEW d
  PROVE  d \in Answered(q) <=> \E i \in DOMAIN q : d \in q[i].ack \/ d \in q[i].nack
BY Zenon DEF Answered

\* What one more message answers.
LEMMA AppendAnswered ==
  ASSUME NEW q \in Seq(StreamAck), NEW m \in StreamAck
  PROVE  Answered(Append(q, m)) = Answered(q) \cup m.ack \cup m.nack
<1>1. \A i \in DOMAIN q : Append(q, m)[i] = q[i] /\ i \in DOMAIN Append(q, m)
  OBVIOUS
<1>2. Append(q, m)[Len(q) + 1] = m /\ Len(q) + 1 \in DOMAIN Append(q, m)
  OBVIOUS
<1>3. \A i \in DOMAIN Append(q, m) : i \in DOMAIN q \/ i = Len(q) + 1
  OBVIOUS
<1>4. ASSUME NEW d
      PROVE  d \in Answered(Append(q, m)) <=> d \in Answered(q) \cup m.ack \cup m.nack
  BY <1>1, <1>2, <1>3, InAnswered, ZenonT(60)
<1> QED
  BY <1>4

\* What the first message answers, and what the others do.
LEMMA TailAnswered ==
  ASSUME NEW q \in Seq(StreamAck), q # <<>>
  PROVE  Answered(q) = Head(q).ack \cup Head(q).nack \cup Answered(Tail(q))
<1>1. \A i \in DOMAIN Tail(q) : Tail(q)[i] = q[i + 1] /\ i + 1 \in DOMAIN q
  OBVIOUS
<1>2. Head(q) = q[1] /\ 1 \in DOMAIN q
  OBVIOUS
<1>3. \A i \in DOMAIN q : i = 1 \/ (i - 1 \in DOMAIN Tail(q) /\ q[i] = Tail(q)[i - 1])
  OBVIOUS
<1>4. ASSUME NEW d, d \in Answered(q)
      PROVE  d \in Head(q).ack \cup Head(q).nack \cup Answered(Tail(q))
  <2>1. PICK i \in DOMAIN q : d \in q[i].ack \/ d \in q[i].nack
    BY <1>4, InAnswered, Zenon
  <2> QED
    BY <1>2, <1>3, <2>1, InAnswered, Zenon
<1>5. ASSUME NEW d, d \in Head(q).ack \cup Head(q).nack \cup Answered(Tail(q))
      PROVE  d \in Answered(q)
  BY <1>1, <1>2, <1>5, InAnswered, ZenonT(60)
<1> QED
  BY <1>4, <1>5

\* Of a client that has hung up some first messages are read.
LEMMA SomeAnswered ==
  ASSUME NEW q \in Seq(StreamAck), NEW n \in 0..Len(q)
  PROVE  /\ SubSeq(q, 1, n) \in Seq(StreamAck)
         /\ \A i \in DOMAIN SubSeq(q, 1, n) : i \in DOMAIN q /\ SubSeq(q, 1, n)[i] = q[i]
         /\ Answered(SubSeq(q, 1, n)) \subseteq Answered(q)
<1>1. SubSeq(q, 1, n) \in Seq(StreamAck)
  OBVIOUS
<1>2. \A i \in DOMAIN SubSeq(q, 1, n) : i \in DOMAIN q /\ SubSeq(q, 1, n)[i] = q[i]
  OBVIOUS
<1> QED
  BY <1>1, <1>2, Zenon DEF Answered

\* A channel or an inbound side that is empty holds nothing.
LEMMA NothingCarried ==
  /\ Carried(<<>>) = {} /\ Answered(<<>>) = {} /\ DOMAIN <<>> = {}
  /\ <<>> \in Seq(SUBSET Delivery) /\ <<>> \in Seq(StreamAck)
BY DEF Carried, Answered

-----------------------------------------------------------------------------
(* What the steps of one stream have in common *)

\* A step of stream s leaves the other streams as they were.
LEMMA OthersKeep ==
  ASSUME StreamInv, NEW s \in Streams,
         \A t \in Streams \ {s} : st'[t] = st[t],
         handed \subseteq handed', acked \subseteq acked', stranded \subseteq stranded',
         Genuine(st[s])', Phases(st[s])'
  PROVE  StreamInv'
<1> SUFFICES ASSUME NEW t \in Streams \ {s}
             PROVE  Genuine(st[t])' /\ Phases(st[t])'
  BY Zenon DEF StreamInv
<1>1. Genuine(st[t]) /\ Phases(st[t]) /\ st'[t] = st[t]
  BY Zenon DEF StreamInv
<1>2. Genuine(st[t])'
  BY <1>1, Zenon DEF Genuine
<1>3. Phases(st[t])'
  <2>1. /\ ~st'[t].hungup => Answered(st'[t].inbound) \subseteq st'[t].sent
        /\ st'[t].hungup =>
             /\ st'[t].channel = <<>> /\ st'[t].sent \subseteq st'[t].owes
             /\ Tags(Answered(st'[t].inbound)) \subseteq stranded' \cup Tags(st'[t].owes)
    BY <1>1, Zenon DEF Phases
  <2> QED
    BY <1>1, <2>1, Zenon DEF Phases
<1> QED
  BY <1>2, <1>3

\* What is in flight stays accounted for if stream s gives up none of it.
LEMMA AccountedStep ==
  ASSUME Accounted, NEW s \in Streams,
         \A t \in Streams \ {s} : st'[t] = st[t],
         stranded \subseteq stranded',
         \A m \in At("unacked")' : m \in At("unacked") \/ m.id \in Tags(Held(s)'),
         \A m \in At("unacked")' :
           m.id \in Tags(Held(s)) => m.id \in stranded' \cup Tags(Held(s)')
  PROVE  Accounted'
<1> SUFFICES ASSUME NEW m \in At("unacked")',
                    m.id \notin stranded', m.id \notin Tags(Held(s)')
             PROVE  \E t \in Streams : m.id \in Tags(Held(t)')
  BY Zenon DEF Accounted, Tags
<1>1. m \in At("unacked") /\ m.id \notin stranded /\ m.id \notin Tags(Held(s))
  BY Zenon
<1>2. PICK t \in Streams : m.id \in Tags(Held(t))
  BY <1>1, Zenon DEF Accounted
<1>3. st'[t] = st[t]
  BY <1>1, <1>2
<1>4. Held(t)' = Held(t)
  BY <1>3, Zenon DEF Held
<1> QED
  BY <1>2, <1>4, Zenon

\* A step that the engine takes no part in.
LEMMA LocalStep ==
  ASSUME IndInv, NEW s \in Streams, UNCHANGED engine, TypeOK',
         \A t \in Streams \ {s} : st'[t] = st[t],
         acked \subseteq acked', stranded \subseteq stranded',
         Genuine(st[s])', Phases(st[s])',
         Tags(Held(s)) \subseteq stranded' \cup Tags(Held(s)')
  PROVE  IndInv'
<1>1. UNCHANGED contractVars /\ UNCHANGED issued
  BY DEF engine
<1>2. copies' = copies /\ stored' = stored /\ settled' = settled /\ handed' = handed
  BY <1>1 DEF contractVars
<1>3. EngineInv'
  BY <1>1, <1>2 DEF IndInv, EngineInv
<1>4. StreamInv'
  BY <1>2, OthersKeep, Zenon DEF IndInv
<1>5. SettledWasAcked'
  BY <1>2 DEF IndInv, SettledWasAcked
<1>6. Accounted'
  <2>1. At("unacked")' = At("unacked")
    BY <1>2 DEF At
  <2> QED
    BY <2>1, AccountedStep, Zenon DEF IndInv
<1> QED
  BY <1>3, <1>4, <1>5, <1>6 DEF IndInv

\* The types, one by one.
LEMMA Types ==
  ASSUME TypeOK
  PROVE  /\ \A s \in Streams : st[s] \in Stream
         /\ nacks \in Nat /\ chatter \in Nat /\ opens \in Nat /\ epoch \in Nat /\ issued \in Nat
         /\ stored \subseteq Nat /\ settled \subseteq Nat /\ received \subseteq Nat
         /\ acked \subseteq Nat /\ stranded \subseteq Nat
         /\ handed \subseteq Delivery
<1>1. \A s \in Streams : st[s] \in Stream
  BY DEF TypeOK
<1>2. nacks \in Nat /\ chatter \in Nat /\ opens \in Nat /\ epoch \in Nat /\ issued \in Nat
  BY Zenon DEF TypeOK
<1>3. UNION {stored, settled, received, acked, stranded} \subseteq Nat /\ handed \subseteq Delivery
  BY Zenon DEF TypeOK
<1>4. /\ stored \subseteq Nat /\ settled \subseteq Nat /\ received \subseteq Nat
      /\ acked \subseteq Nat /\ stranded \subseteq Nat
  BY <1>3
<1> QED
  BY <1>1, <1>2, <1>3, <1>4

\* The tags and the messages of deliveries are numbers.
LEMMA DeliveryTypes ==
  ASSUME NEW D \in SUBSET Delivery
  PROVE  Tags(D) \subseteq Nat /\ {d.uid : d \in D} \subseteq Nat
BY DEF Delivery, Tags

\* The types after a step that the engine takes no part in.
LEMMA TypeLocal ==
  ASSUME TypeOK, UNCHANGED engine, st' \in [Streams -> Stream],
         nacks' \in Nat, chatter' \in Nat, opens' \in Nat,
         received' \subseteq Nat, acked' \subseteq Nat, stranded' \subseteq Nat
  PROVE  TypeOK'
<1>1. /\ copies' = copies /\ stored' = stored /\ settled' = settled /\ handed' = handed
      /\ safe' = safe /\ epoch' = epoch /\ issued' = issued
  BY DEF engine, contractVars
<1>2. UNION {stored', settled', received', acked', stranded'} \subseteq Nat
  BY <1>1, Types
<1>3. {nacks', chatter', opens', epoch', issued'} \subseteq Nat
  BY <1>1, Types
<1> QED
  BY <1>1, <1>2, <1>3, Zenon DEF TypeOK

-----------------------------------------------------------------------------
(* The steps of a client *)

\* Closing the sending side leaves the deliveries where they are.
LEMMA ClientClosesStep ==
  ASSUME IndInv, NEW s \in Streams, ClientCloses(s)
  PROVE  IndInv'
<1> USE DEF IndInv
<1>1. st[s] \in Stream /\ st' = [st EXCEPT ![s].closed = TRUE] /\ DOMAIN st = Streams
  BY Types DEF ClientCloses, TypeOK
<1>2. st'[s] = [st[s] EXCEPT !.closed = TRUE] /\ \A t \in Streams \ {s} : st'[t] = st[t]
  BY <1>1
<1>3. /\ st'[s].phase = st[s].phase /\ st'[s].hand = st[s].hand
      /\ st'[s].channel = st[s].channel /\ st'[s].inbound = st[s].inbound
      /\ st'[s].hungup = st[s].hungup /\ st'[s].owes = st[s].owes
      /\ st'[s].sent = st[s].sent
  BY <1>1, <1>2 DEF Stream
<1>4. st' \in [Streams -> Stream]
  BY <1>1 DEF TypeOK, Stream
<1>5. /\ UNCHANGED engine /\ UNCHANGED <<nacks, chatter, received, acked, stranded>>
      /\ opens' = opens + 1 /\ handed' = handed
  BY DEF ClientCloses, engine, contractVars
<1>6. TypeOK'
  BY <1>4, <1>5, Types, TypeLocal
<1>7. Genuine(st[s])' /\ Phases(st[s])'
  <2>1. Genuine(st[s]) /\ Phases(st[s])
    BY DEF StreamInv
  <2>2. Genuine(st[s])'
    BY <1>3, <1>5, <2>1 DEF Genuine
  <2>3. Phases(st[s])'
    BY <1>3, <1>5, <2>1, Zenon DEF Phases
  <2> QED
    BY <2>2, <2>3
<1>8. Held(s)' = Held(s)
  BY <1>3, Zenon DEF Held
<1> QED
  BY <1>2, <1>5, <1>6, <1>7, <1>8, LocalStep

\* A message of the client that answers some of what it owes.
LEMMA ClientSendsStep ==
  ASSUME IndInv, NEW s \in Streams, UNCHANGED engine, ~st[s].hungup,
         NEW m \in StreamAck, OneAnswer(m), m.ack \cup m.nack \subseteq st[s].owes,
         \A d \in m.ack : d.uid \in acked',
         st' = [st EXCEPT ![s].owes = @ \ (m.ack \cup m.nack),
                          ![s].sent = @ \cup (m.ack \cup m.nack),
                          ![s].inbound = Append(@, m)],
         nacks' \in Nat, chatter' \in Nat, opens' = opens, received' = received,
         acked \subseteq acked', acked' \subseteq Nat, stranded' = stranded
  PROVE  IndInv'
<1> USE DEF IndInv
<1> DEFINE A == m.ack \cup m.nack
<1>1. st[s] \in Stream /\ DOMAIN st = Streams
  BY Types DEF TypeOK
<1>2. /\ st'[s] = [st[s] EXCEPT !.owes = @ \ A, !.sent = @ \cup A, !.inbound = Append(@, m)]
      /\ \A t \in Streams \ {s} : st'[t] = st[t]
  BY <1>1
<1>3. /\ st'[s].phase = st[s].phase /\ st'[s].hand = st[s].hand
      /\ st'[s].channel = st[s].channel /\ st'[s].inbound = Append(st[s].inbound, m)
      /\ st'[s].hungup = st[s].hungup /\ st'[s].owes = st[s].owes \ A
      /\ st'[s].sent = st[s].sent \cup A
  BY <1>1, <1>2 DEF Stream
<1>4. st[s].inbound \in Seq(StreamAck) /\ A \subseteq Delivery
  BY <1>1 DEF Stream, StreamAck
<1>5. st' \in [Streams -> Stream]
  <2>1. st'[s] \in Stream
    BY <1>1, <1>2, <1>4 DEF Stream
  <2> QED
    BY <1>1, <2>1 DEF TypeOK
<1>6. TypeOK'
  BY <1>5, Types, TypeLocal
<1>7. handed' = handed
  BY DEF engine, contractVars
<1>8. Answered(st'[s].inbound) = Answered(st[s].inbound) \cup A
  <2>1. Answered(Append(st[s].inbound, m)) = Answered(st[s].inbound) \cup m.ack \cup m.nack
    BY <1>4, AppendAnswered, Zenon
  <2> QED
    BY <1>3, <2>1
<1>9. \A i \in DOMAIN st'[s].inbound :
        st'[s].inbound[i] = m \/ (i \in DOMAIN st[s].inbound /\ st'[s].inbound[i] = st[s].inbound[i])
  <2>1. \A i \in DOMAIN Append(st[s].inbound, m) :
          \/ Append(st[s].inbound, m)[i] = m
          \/ i \in DOMAIN st[s].inbound /\ Append(st[s].inbound, m)[i] = st[s].inbound[i]
    BY <1>4, AppendItems, Zenon
  <2> QED
    BY <1>3, <2>1, Zenon
<1>10. Genuine(st[s]) /\ Phases(st[s])
  BY DEF StreamInv
<1>11. Genuine(st[s])'
  <2>1. st'[s].hand \cup Carried(st'[s].channel) \cup st'[s].owes \cup st'[s].sent
          \cup Answered(st'[s].inbound) \subseteq handed'
    BY <1>3, <1>7, <1>8, <1>10 DEF Genuine
  <2>2. \A i \in DOMAIN st'[s].inbound : \A d \in st'[s].inbound[i].ack : d.uid \in acked'
    BY <1>9, <1>10, Zenon DEF Genuine
  <2> QED
    BY <2>1, <2>2 DEF Genuine
<1>12. Phases(st[s])'
  <2>1. \A i \in DOMAIN st'[s].inbound : OneAnswer(st'[s].inbound[i])
    BY <1>9, <1>10, Zenon DEF Phases
  <2>2. Answered(st'[s].inbound) \subseteq st'[s].sent
    BY <1>3, <1>8, <1>10 DEF Phases
  <2> QED
    BY <1>3, <1>10, <2>1, <2>2, Zenon DEF Phases
<1>13. Held(s) \subseteq Held(s)'
  BY <1>3, <1>8 DEF Held
<1>14. Tags(Held(s)) \subseteq stranded' \cup Tags(Held(s)')
  BY <1>13 DEF Tags
<1> QED
  BY <1>2, <1>6, <1>11, <1>12, <1>14, LocalStep

\* A message without a tag answers nothing.
LEMMA ClientNamesStep ==
  ASSUME IndInv, NEW s \in Streams, NEW names \in BOOLEAN, ClientNames(s, names)
  PROVE  IndInv'
<1> DEFINE m == [queue |-> names, ack |-> {}, nack |-> {}]
<1>1. m \in StreamAck /\ OneAnswer(m) /\ m.ack = {} /\ m.nack = {}
  BY DEF StreamAck, OneAnswer
<1>2. st[s] \in Stream /\ st \in [Streams -> Stream]
  BY Types DEF IndInv, TypeOK
<1>3. st' = [st EXCEPT ![s].owes = @ \ (m.ack \cup m.nack),
                       ![s].sent = @ \cup (m.ack \cup m.nack),
                       ![s].inbound = Append(@, m)]
  <2>1. [st[s] EXCEPT !.inbound = Append(@, m)]
          = [st[s] EXCEPT !.owes = @ \ (m.ack \cup m.nack),
                          !.sent = @ \cup (m.ack \cup m.nack),
                          !.inbound = Append(@, m)]
    BY <1>1, <1>2 DEF Stream
  <2> QED
    BY <1>2, <2>1 DEF ClientNames
<1>4. /\ UNCHANGED engine /\ ~st[s].hungup
      /\ nacks' \in Nat /\ chatter' \in Nat /\ opens' = opens /\ received' = received
      /\ acked \subseteq acked' /\ acked' \subseteq Nat /\ stranded' = stranded
  BY Types DEF ClientNames, CanSend, IndInv
<1> HIDE DEF m
<1> QED
  BY <1>1, <1>3, <1>4, ClientSendsStep

\* An ack goes from the client's debts into its messages.
LEMMA ClientAcksStep ==
  ASSUME IndInv, NEW s \in Streams, NEW names \in BOOLEAN, NEW d, ClientAcks(s, d, names)
  PROVE  IndInv'
<1> DEFINE m == [queue |-> names, ack |-> {d}, nack |-> {}]
<1>1. st[s] \in Stream /\ st \in [Streams -> Stream] /\ d \in st[s].owes /\ d \in Delivery
  BY Types DEF IndInv, TypeOK, ClientAcks, Stream
<1>2. m \in StreamAck /\ OneAnswer(m) /\ m.ack \cup m.nack = {d} /\ m.ack = {d}
  BY <1>1 DEF StreamAck, OneAnswer
<1>3. st' = [st EXCEPT ![s].owes = @ \ (m.ack \cup m.nack),
                       ![s].sent = @ \cup (m.ack \cup m.nack),
                       ![s].inbound = Append(@, m)]
  BY <1>2 DEF ClientAcks
<1>4. /\ UNCHANGED engine /\ ~st[s].hungup
      /\ nacks' \in Nat /\ chatter' \in Nat /\ opens' = opens /\ received' = received
      /\ acked' = acked \cup {d.uid} /\ acked' \subseteq Nat /\ stranded' = stranded
  BY <1>1, Types DEF ClientAcks, CanSend, IndInv, Delivery
<1> HIDE DEF m
<1> QED
  BY <1>1, <1>2, <1>3, <1>4, ClientSendsStep

\* A nack goes from the client's debts into its messages.
LEMMA ClientNacksStep ==
  ASSUME IndInv, NEW s \in Streams, NEW names \in BOOLEAN, NEW d, ClientNacks(s, d, names)
  PROVE  IndInv'
<1> DEFINE m == [queue |-> names, ack |-> {}, nack |-> {d}]
<1>1. st[s] \in Stream /\ st \in [Streams -> Stream] /\ d \in st[s].owes /\ d \in Delivery
  BY Types DEF IndInv, TypeOK, ClientNacks, Stream
<1>2. m \in StreamAck /\ OneAnswer(m) /\ m.ack \cup m.nack = {d} /\ m.ack = {}
  BY <1>1 DEF StreamAck, OneAnswer
<1>3. st' = [st EXCEPT ![s].owes = @ \ (m.ack \cup m.nack),
                       ![s].sent = @ \cup (m.ack \cup m.nack),
                       ![s].inbound = Append(@, m)]
  BY <1>2 DEF ClientNacks
<1>4. /\ UNCHANGED engine /\ ~st[s].hungup
      /\ nacks' \in Nat /\ chatter' \in Nat /\ opens' = opens /\ received' = received
      /\ acked' = acked /\ acked' \subseteq Nat /\ stranded' = stranded
  BY Types DEF ClientNacks, CanSend, IndInv
<1> HIDE DEF m
<1> QED
  BY <1>1, <1>2, <1>3, <1>4, ClientSendsStep

\* A new stream begins empty, with the old debts of its client.
LEMMA ClientOpensStep ==
  ASSUME IndInv, NEW s \in Streams, ClientOpens(s)
  PROVE  IndInv'
<1> USE DEF IndInv
<1>1. st[s] \in Stream /\ st \in [Streams -> Stream] /\ st[s].owes \subseteq Delivery
  BY Types DEF TypeOK, Stream
<1>2. /\ st'[s] = [Ended EXCEPT !.phase = "loop", !.hungup = FALSE, !.owes = st[s].owes]
      /\ \A t \in Streams \ {s} : st'[t] = st[t]
  BY <1>1 DEF ClientOpens
<1>3. /\ st'[s].phase = "loop" /\ st'[s].hand = {} /\ st'[s].channel = <<>>
      /\ st'[s].inbound = <<>> /\ ~st'[s].hungup /\ st'[s].owes = st[s].owes
      /\ st'[s].sent = {}
  BY <1>2 DEF Ended
<1>4. st' \in [Streams -> Stream]
  <2>1. st'[s] \in Stream
    <3> DEFINE o == st[s].owes
    <3>1. o \in SUBSET Delivery /\ st'[s] = [Ended EXCEPT !.phase = "loop", !.hungup = FALSE, !.owes = o]
      BY <1>1, <1>2
    <3> HIDE DEF o
    <3> QED
      BY <3>1, NothingCarried DEF Stream, Ended
  <2> QED
    BY <1>1, <2>1 DEF ClientOpens
<1>5. /\ UNCHANGED engine /\ UNCHANGED <<nacks, chatter, received, acked, stranded>>
      /\ opens' = opens + 1 /\ handed' = handed
      /\ st[s].phase = "ended" /\ st[s].hungup
  BY DEF ClientOpens, engine, contractVars
<1>6. TypeOK'
  BY <1>4, <1>5, Types, TypeLocal
<1>7. Genuine(st[s]) /\ Phases(st[s])
  BY DEF StreamInv
<1>8. Genuine(st[s])'
  BY <1>3, <1>5, <1>7, NothingCarried DEF Genuine
<1>9. Phases(st[s])'
  BY <1>3, NothingCarried DEF Phases
<1>10. Tags(Held(s)) \subseteq stranded' \cup Tags(Held(s)')
  <2>1. /\ st[s].hand = {} /\ Carried(st[s].channel) = {} /\ st[s].sent \subseteq st[s].owes
        /\ Tags(Answered(st[s].inbound)) \subseteq stranded \cup Tags(st[s].owes)
    BY <1>5, <1>7, NothingCarried DEF Phases
  <2>2. Held(s) = st[s].owes \cup Answered(st[s].inbound)
    BY <1>5, <2>1 DEF Held
  <2>3. Held(s)' = st[s].owes
    BY <1>3, NothingCarried DEF Held
  <2> QED
    BY <1>5, <2>1, <2>2, <2>3 DEF Tags
<1> QED
  BY <1>2, <1>5, <1>6, <1>8, <1>9, <1>10, LocalStep

\* What a hang-up takes out of the stream is owed again, or left behind.
LEMMA ClientHangsUpStep ==
  ASSUME IndInv, NEW s \in Streams, NEW keep \in BOOLEAN, NEW n \in 0..Len(st[s].inbound),
         ClientHangsUp(s, keep, n)
  PROVE  IndInv'
<1> USE DEF IndInv
<1> DEFINE doubt == st[s].owes \cup st[s].sent
           q     == st[s].inbound
<1>1. /\ st[s] \in Stream /\ st \in [Streams -> Stream] /\ doubt \subseteq Delivery
      /\ q \in Seq(StreamAck)
  BY Types DEF TypeOK, Stream
<1>2. /\ st'[s] = [st[s] EXCEPT !.hungup = TRUE, !.channel = <<>>, !.inbound = SubSeq(@, 1, n),
                                !.owes = IF keep THEN doubt ELSE {}, !.sent = {}]
      /\ \A t \in Streams \ {s} : st'[t] = st[t]
  BY <1>1 DEF ClientHangsUp
<1>3. /\ st'[s].phase = st[s].phase /\ st'[s].hand = st[s].hand /\ st'[s].channel = <<>>
      /\ st'[s].inbound = SubSeq(q, 1, n) /\ st'[s].hungup
      /\ st'[s].owes = (IF keep THEN doubt ELSE {}) /\ st'[s].sent = {}
  BY <1>1, <1>2 DEF Stream
<1>4. /\ SubSeq(q, 1, n) \in Seq(StreamAck)
      /\ \A i \in DOMAIN SubSeq(q, 1, n) : i \in DOMAIN q /\ SubSeq(q, 1, n)[i] = q[i]
      /\ Answered(SubSeq(q, 1, n)) \subseteq Answered(q)
  BY <1>1, SomeAnswered
<1>5. st' \in [Streams -> Stream]
  <2>1. st'[s] \in Stream
    <3> DEFINE o == IF keep THEN doubt ELSE {}
               i == SubSeq(q, 1, n)
    <3>1. /\ o \in SUBSET Delivery /\ i \in Seq(StreamAck)
          /\ st'[s] = [st[s] EXCEPT !.hungup = TRUE, !.channel = <<>>, !.inbound = i,
                                    !.owes = o, !.sent = {}]
      BY <1>1, <1>2, <1>4
    <3> HIDE DEF o, i
    <3> QED
      BY <1>1, <3>1, NothingCarried DEF Stream
  <2> QED
    BY <1>1, <2>1 DEF ClientHangsUp
<1>6. /\ UNCHANGED engine /\ UNCHANGED <<nacks, chatter, opens, received, acked>>
      /\ stranded' = stranded \cup Tags(Carried(st[s].channel))
                       \cup IF keep THEN {} ELSE Tags(doubt)
      /\ handed' = handed /\ ~st[s].hungup
  BY DEF ClientHangsUp, engine, contractVars
<1>7. Genuine(st[s]) /\ Phases(st[s])
  BY DEF StreamInv
<1>8. TypeOK'
  <2>1. Carried(st[s].channel) \subseteq Delivery
    BY <1>7, Types DEF Genuine
  <2>2. stranded' \subseteq Nat
    BY <1>1, <1>6, <2>1, Types, DeliveryTypes
  <2> QED
    BY <1>5, <1>6, <2>2, Types, TypeLocal
<1> HIDE DEF q
<1>9. Genuine(st[s])'
  <2>1. st'[s].hand \cup Carried(st'[s].channel) \cup st'[s].owes \cup st'[s].sent
          \cup Answered(st'[s].inbound) \subseteq handed'
    BY <1>3, <1>4, <1>6, <1>7, NothingCarried DEF Genuine, q
  <2>2. \A i \in DOMAIN st'[s].inbound : \A d \in st'[s].inbound[i].ack : d.uid \in acked'
    BY <1>3, <1>4, <1>6, <1>7 DEF Genuine, q
  <2> QED
    BY <2>1, <2>2 DEF Genuine
<1>10. Answered(q) \subseteq doubt
  BY <1>6, <1>7 DEF Phases, q
<1>11. Tags(doubt) \subseteq stranded' \cup Tags(st'[s].owes)
  BY <1>3, <1>6 DEF Tags
<1>12. Phases(st[s])'
  <2>1. \A i \in DOMAIN st'[s].inbound : OneAnswer(st'[s].inbound[i])
    BY <1>3, <1>4, <1>7, Zenon DEF Phases, q
  <2>2. Tags(Answered(st'[s].inbound)) \subseteq stranded' \cup Tags(st'[s].owes)
    BY <1>3, <1>4, <1>10, <1>11 DEF Tags
  <2> QED
    BY <1>3, <1>7, <2>1, <2>2, NothingCarried, Zenon DEF Phases
<1>13. Tags(Held(s)) \subseteq stranded' \cup Tags(Held(s)')
  <2>1. Held(s) \subseteq st[s].hand \cup Carried(st[s].channel) \cup doubt
    BY <1>10 DEF Held, q
  <2>2. st[s].hand \cup st'[s].owes \subseteq Held(s)'
    BY <1>3 DEF Held
  <2>3. Tags(Carried(st[s].channel)) \subseteq stranded'
    BY <1>6
  <2> HIDE DEF doubt
  <2> QED
    BY <1>11, <2>1, <2>2, <2>3 DEF Tags
<1> QED
  BY <1>2, <1>6, <1>8, <1>9, <1>12, <1>13, LocalStep

\* The client takes a delivery out of the channel, or learns of the end.
LEMMA ClientReceivesStep ==
  ASSUME IndInv, NEW s \in Streams, ClientReceives(s)
  PROVE  IndInv'
<1> USE DEF IndInv
<1> DEFINE c     == st[s].channel
           ended == c = <<>>
           item  == IF ended THEN {} ELSE Head(c)
           gain  == IF item = {} THEN st[s].sent ELSE item
           rest  == IF ended THEN c ELSE Tail(c)
<1>1. /\ st[s] \in Stream /\ st \in [Streams -> Stream]
      /\ c \in Seq(SUBSET Delivery) /\ st[s].sent \subseteq Delivery
  BY Types DEF TypeOK, Stream
<1>2. Genuine(st[s]) /\ Phases(st[s])
  BY DEF StreamInv
<1>3. /\ rest \in Seq(SUBSET Delivery) /\ item \in SUBSET Delivery /\ gain \in SUBSET Delivery
      /\ Carried(c) = item \cup Carried(rest)
  <2>1. CASE ended
    BY <1>1, <2>1
  <2>2. CASE ~ended
    <3>1. Tail(c) \in Seq(SUBSET Delivery) /\ Head(c) \in SUBSET Delivery
      BY <1>1, <2>2
    <3>2. Carried(c) = Head(c) \cup Carried(Tail(c))
      BY <1>1, <2>2, TailCarried, Zenon
    <3> QED
      BY <1>1, <2>2, <3>1, <3>2
  <2> QED
    BY <2>1, <2>2
<1>4. /\ st'[s] = [st[s] EXCEPT !.channel = rest, !.hungup = (item = {}),
                                !.owes = @ \cup gain]
      /\ \A t \in Streams \ {s} : st'[t] = st[t]
      /\ st' \in [Streams -> Stream]
  <2> HIDE DEF c, gain
  <2>1. st' = [st EXCEPT ![s].channel = rest, ![s].hungup = (item = {}),
                         ![s].owes = @ \cup gain]
    BY DEF ClientReceives, c, gain
  <2> HIDE DEF rest, item
  <2>2. /\ st'[s] = [st[s] EXCEPT !.channel = rest, !.hungup = (item = {}),
                                  !.owes = @ \cup gain]
        /\ \A t \in Streams \ {s} : st'[t] = st[t]
    BY <1>1, <2>1
  <2>3. st'[s] \in Stream
    <3> DEFINE o == st[s].owes \cup gain
               h == item = {}
    <3>1. o \in SUBSET Delivery /\ h \in BOOLEAN
      BY <1>1, <1>3 DEF Stream
    <3>2. st'[s] = [st[s] EXCEPT !.channel = rest, !.hungup = h, !.owes = o]
      BY <2>2
    <3> HIDE DEF o, h
    <3> QED
      BY <1>1, <1>3, <3>1, <3>2 DEF Stream
  <2> QED
    BY <1>1, <2>1, <2>2, <2>3
<1>5. /\ UNCHANGED engine /\ UNCHANGED <<nacks, chatter, opens, acked, stranded>>
      /\ received' = received \cup {d.uid : d \in item} /\ handed' = handed
      /\ ~st[s].hungup /\ (ended => st[s].phase = "ended")
  BY DEF ClientReceives, engine, contractVars
<1>6. item = {} => rest = <<>>
  <2>1. CASE ended
    BY <2>1
  <2>2. CASE ~ended /\ item = {}
    <3>1. 1 \in DOMAIN c /\ c[1] = {}
      BY <1>1, <2>2
    <3>2. 1 = Len(c)
      BY <1>2, <3>1, Zenon DEF Phases
    <3>3. Tail(c) = <<>>
      <4> HIDE DEF c
      <4>1. Tail(c) \in Seq(SUBSET Delivery) /\ Len(Tail(c)) = 0
        BY <1>1, <2>2, <3>2
      <4> QED
        BY <4>1, EmptySeq
    <3> QED
      BY <2>2, <3>3
  <2> QED
    BY <2>1, <2>2
<1>7. \A i \in DOMAIN rest : rest[i] = {} => i = Len(rest) /\ st[s].phase = "ended"
  <2>1. CASE ended
    BY <1>1, <2>1
  <2>2. CASE ~ended
    <3> SUFFICES ASSUME NEW i \in DOMAIN Tail(c), Tail(c)[i] = {}
                 PROVE  i = Len(Tail(c)) /\ st[s].phase = "ended"
      BY <2>2
    <3>1. i + 1 \in DOMAIN c /\ c[i + 1] = {} /\ i \in Nat
      BY <1>1, <2>2
    <3>2. i + 1 = Len(c) /\ st[s].phase = "ended"
      BY <1>2, <3>1, Zenon DEF Phases
    <3> QED
      BY <1>1, <2>2, <3>1, <3>2
  <2> QED
    BY <2>1, <2>2
<1> HIDE DEF c, item, gain, rest, ended
<1>8. /\ st'[s].phase = st[s].phase /\ st'[s].hand = st[s].hand /\ st'[s].channel = rest
      /\ st'[s].inbound = st[s].inbound /\ st'[s].hungup = (item = {})
      /\ st'[s].owes = st[s].owes \cup gain /\ st'[s].sent = st[s].sent
  BY <1>1, <1>4 DEF Stream
<1>9. TypeOK'
  <2>1. received' \subseteq Nat
    BY <1>3, <1>5, Types, DeliveryTypes
  <2> QED
    BY <1>4, <1>5, <2>1, Types, TypeLocal
<1>10. item \subseteq handed /\ Carried(rest) \subseteq handed /\ gain \subseteq handed
  BY <1>2, <1>3 DEF Genuine, c, gain
<1>11. Genuine(st[s])'
  BY <1>2, <1>5, <1>8, <1>10 DEF Genuine
<1>12. Answered(st[s].inbound) \subseteq st[s].sent
  BY <1>2, <1>5 DEF Phases
<1>13. Phases(st[s])'
  <2>1. CASE item = {}
    <3>1. st[s].sent \subseteq st'[s].owes
      BY <1>8, <2>1 DEF gain
    <3>2. Tags(Answered(st'[s].inbound)) \subseteq stranded' \cup Tags(st'[s].owes)
      BY <1>8, <1>12, <3>1 DEF Tags
    <3> QED
      BY <1>2, <1>6, <1>7, <1>8, <2>1, <3>1, <3>2, Zenon DEF Phases
  <2>2. CASE item # {}
    BY <1>2, <1>7, <1>8, <1>12, <2>2, Zenon DEF Phases
  <2> QED
    BY <2>1, <2>2
<1>14. Held(s) \subseteq Held(s)'
  <2>1. Carried(st[s].channel) \subseteq Carried(rest) \cup gain
    BY <1>3 DEF c, gain
  <2> QED
    BY <1>8, <2>1 DEF Held
<1> QED
  BY <1>4, <1>5, <1>9, <1>11, <1>13, <1>14, LocalStep DEF Tags

-----------------------------------------------------------------------------
(* The steps of a task that do not reach the engine *)

\* A turn of the loop that finds nothing.
LEMMA WaitsStep ==
  ASSUME IndInv, NEW s \in Streams, NEW p \in {"loop", "waiting"},
         st[s].phase \in {"loop", "waiting"},
         st' = [st EXCEPT ![s].phase = p], UNCHANGED <<engine, hist>>
  PROVE  IndInv'
<1> USE DEF IndInv
<1>1. st[s] \in Stream /\ st \in [Streams -> Stream]
  BY Types DEF TypeOK
<1>2. st'[s] = [st[s] EXCEPT !.phase = p] /\ \A t \in Streams \ {s} : st'[t] = st[t]
  BY <1>1
<1>3. /\ st'[s].phase = p /\ st'[s].hand = st[s].hand
      /\ st'[s].channel = st[s].channel /\ st'[s].inbound = st[s].inbound
      /\ st'[s].hungup = st[s].hungup /\ st'[s].owes = st[s].owes
      /\ st'[s].sent = st[s].sent
  BY <1>1, <1>2 DEF Stream
<1>4. st' \in [Streams -> Stream]
  BY <1>1 DEF Stream
<1>5. UNCHANGED <<nacks, chatter, opens, received, acked, stranded, handed>>
  BY DEF hist, engine, contractVars
<1>6. TypeOK'
  BY <1>4, <1>5, Types, TypeLocal
<1>7. Genuine(st[s]) /\ Phases(st[s])
  BY DEF StreamInv
<1>8. Genuine(st[s])'
  BY <1>3, <1>5, <1>7 DEF Genuine
<1>9. Phases(st[s])'
  <2>1. st[s].hand = {} /\ \A i \in DOMAIN st[s].channel : st[s].channel[i] # {}
    BY <1>7 DEF Phases
  <2> QED
    BY <1>3, <1>5, <1>7, <2>1 DEF Phases
<1>10. Held(s)' = Held(s)
  BY <1>3 DEF Held
<1> QED
  BY <1>2, <1>5, <1>6, <1>8, <1>9, <1>10, LocalStep

\* A delivery goes from the hand of its task into the channel.
LEMMA SendsStep ==
  ASSUME IndInv, NEW s \in Streams, Sends(s)
  PROVE  IndInv'
<1> USE DEF IndInv
<1> DEFINE c == st[s].channel
           h == st[s].hand
<1>1. /\ st[s] \in Stream /\ st \in [Streams -> Stream]
      /\ c \in Seq(SUBSET Delivery) /\ h \in SUBSET Delivery
  BY Types DEF TypeOK, Stream
<1>2. /\ st'[s] = [st[s] EXCEPT !.phase = "loop", !.hand = {}, !.channel = Append(c, h)]
      /\ \A t \in Streams \ {s} : st'[t] = st[t]
  BY <1>1 DEF Sends
<1>3. /\ st'[s].phase = "loop" /\ st'[s].hand = {} /\ st'[s].channel = Append(c, h)
      /\ st'[s].inbound = st[s].inbound /\ st'[s].hungup = st[s].hungup
      /\ st'[s].owes = st[s].owes /\ st'[s].sent = st[s].sent
  BY <1>1, <1>2 DEF Stream
<1>4. Append(c, h) \in Seq(SUBSET Delivery) /\ Carried(Append(c, h)) = Carried(c) \cup h
  BY <1>1, AppendCarried
<1>5. st' \in [Streams -> Stream]
  <2>1. st'[s] \in Stream
    BY <1>1, <1>2, <1>4 DEF Stream
  <2> QED
    BY <1>1, <2>1 DEF Sends
<1>6. /\ UNCHANGED engine /\ UNCHANGED <<nacks, chatter, opens, received, acked, stranded, handed>>
      /\ st[s].phase = "sending" /\ ~st[s].hungup
  BY DEF Sends, hist, engine, contractVars
<1>7. TypeOK'
  BY <1>5, <1>6, Types, TypeLocal
<1>8. Genuine(st[s]) /\ Phases(st[s])
  BY DEF StreamInv
<1>9. \A i \in DOMAIN Append(c, h) : Append(c, h)[i] # {}
  <2>1. h # {} /\ \A i \in DOMAIN c : c[i] # {}
    BY <1>6, <1>8 DEF Phases
  <2> HIDE DEF c, h
  <2> QED
    BY <1>1, <2>1
<1> HIDE DEF c, h
<1>10. Genuine(st[s])'
  BY <1>3, <1>4, <1>6, <1>8 DEF Genuine, c, h
<1>11. Phases(st[s])'
  BY <1>3, <1>6, <1>8, <1>9, Zenon DEF Phases
<1>12. Held(s) \subseteq Held(s)'
  BY <1>3, <1>4, <1>6 DEF Held, c, h
<1> QED
  BY <1>2, <1>6, <1>7, <1>10, <1>11, <1>12, LocalStep DEF Tags

\* After an Err the unread answers are in doubt, and so still held.
LEMMA SendsErrorStep ==
  ASSUME IndInv, NEW s \in Streams, SendsError(s)
  PROVE  IndInv'
<1> USE DEF IndInv
<1> DEFINE c == st[s].channel
<1>1. /\ st[s] \in Stream /\ st \in [Streams -> Stream] /\ c \in Seq(SUBSET Delivery)
  BY Types DEF TypeOK, Stream
<1>2. /\ st'[s] = [st[s] EXCEPT !.phase = "ended", !.inbound = <<>>, !.channel = Append(c, {})]
      /\ \A t \in Streams \ {s} : st'[t] = st[t]
  BY <1>1 DEF SendsError
<1>3. /\ st'[s].phase = "ended" /\ st'[s].hand = st[s].hand
      /\ st'[s].channel = Append(c, {}) /\ st'[s].inbound = <<>>
      /\ st'[s].hungup = st[s].hungup /\ st'[s].owes = st[s].owes
      /\ st'[s].sent = st[s].sent
  BY <1>1, <1>2 DEF Stream
<1>4. /\ Append(c, {}) \in Seq(SUBSET Delivery) /\ Carried(Append(c, {})) = Carried(c)
  <2>1. {} \in SUBSET Delivery
    OBVIOUS
  <2> HIDE DEF c
  <2>2. Carried(Append(c, {})) = Carried(c) \cup {}
    BY <1>1, <2>1, AppendCarried, Zenon
  <2> QED
    BY <1>1, <2>1, <2>2
<1>5. st' \in [Streams -> Stream]
  <2>1. st'[s] \in Stream
    BY <1>1, <1>2, <1>4, NothingCarried DEF Stream
  <2> QED
    BY <1>1, <2>1 DEF SendsError
<1>6. /\ UNCHANGED engine /\ UNCHANGED <<nacks, chatter, opens, received, acked, stranded, handed>>
      /\ st[s].phase = "failing" /\ ~st[s].hungup
  BY DEF SendsError, hist, engine, contractVars
<1>7. TypeOK'
  BY <1>5, <1>6, Types, TypeLocal
<1>8. Genuine(st[s]) /\ Phases(st[s])
  BY DEF StreamInv
<1>9. st[s].hand = {} /\ \A i \in DOMAIN c : c[i] # {}
  BY <1>6, <1>8 DEF Phases
<1> HIDE DEF c
<1>10. \A i \in DOMAIN Append(c, {}) : Append(c, {})[i] = {} => i = Len(Append(c, {}))
  BY <1>1, <1>9
<1>11. Genuine(st[s])'
  BY <1>3, <1>4, <1>6, <1>8, NothingCarried DEF Genuine, c
<1>12. Phases(st[s])'
  <2>1. st'[s].hand = {} /\ Answered(st'[s].inbound) = {} /\ DOMAIN st'[s].inbound = {}
    BY <1>3, <1>9, NothingCarried
  <2> QED
    BY <1>3, <1>6, <1>10, <2>1, Zenon DEF Phases
<1>13. Held(s) \subseteq Held(s)'
  <2>1. Answered(st[s].inbound) \subseteq st[s].sent
    BY <1>6, <1>8 DEF Phases
  <2> QED
    BY <1>3, <1>4, <1>6, <2>1 DEF Held, c
<1> QED
  BY <1>2, <1>6, <1>7, <1>11, <1>12, <1>13, LocalStep DEF Tags

\* The task returns: nobody waits for the answers it has not read.
LEMMA ReturnsStep ==
  ASSUME IndInv, NEW s \in Streams, Returns(s), UNCHANGED engine,
         st[s].phase # "ended", st[s].inbound = <<>> \/ st[s].hungup
  PROVE  IndInv'
<1> USE DEF IndInv
<1>1. st[s] \in Stream /\ st \in [Streams -> Stream] /\ st[s].hand \in SUBSET Delivery
  BY Types DEF TypeOK, Stream
<1>2. /\ st'[s] = [st[s] EXCEPT !.phase = "ended", !.hand = {}, !.inbound = <<>>]
      /\ \A t \in Streams \ {s} : st'[t] = st[t]
  BY <1>1 DEF Returns
<1>3. /\ st'[s].phase = "ended" /\ st'[s].hand = {} /\ st'[s].channel = st[s].channel
      /\ st'[s].inbound = <<>> /\ st'[s].hungup = st[s].hungup
      /\ st'[s].owes = st[s].owes /\ st'[s].sent = st[s].sent
  BY <1>1, <1>2 DEF Stream
<1>4. st' \in [Streams -> Stream]
  <2>1. st'[s] \in Stream
    BY <1>1, <1>2, NothingCarried DEF Stream
  <2> QED
    BY <1>1, <2>1 DEF Returns
<1>5. /\ UNCHANGED <<nacks, chatter, opens, received, acked, handed>>
      /\ stranded' = stranded \cup Tags(st[s].hand)
  BY DEF Returns, engine, contractVars
<1>6. TypeOK'
  <2>1. stranded' \subseteq Nat
    BY <1>1, <1>5, Types, DeliveryTypes
  <2> QED
    BY <1>4, <1>5, <2>1, Types, TypeLocal
<1>7. Genuine(st[s]) /\ Phases(st[s])
  BY DEF StreamInv
<1>8. Genuine(st[s])'
  BY <1>3, <1>5, <1>7, NothingCarried DEF Genuine
<1>9. Phases(st[s])'
  <2>1. Answered(st'[s].inbound) = {} /\ DOMAIN st'[s].inbound = {} /\ Tags({}) = {}
    BY <1>3, NothingCarried DEF Tags
  <2>2. \A i \in DOMAIN st'[s].channel :
          st'[s].channel[i] = {} => i = Len(st'[s].channel) /\ st'[s].phase = "ended"
    BY <1>3, <1>7, Zenon DEF Phases
  <2>3. st'[s].hungup => st'[s].channel = <<>> /\ st'[s].sent \subseteq st'[s].owes
    BY <1>3, <1>7, Zenon DEF Phases
  <2> QED
    BY <1>3, <2>1, <2>2, <2>3 DEF Phases
<1>10. Tags(Held(s)) \subseteq stranded' \cup Tags(Held(s)')
  <2>1. Tags(Answered(st[s].inbound)) \subseteq stranded \cup Tags(st[s].owes)
    BY <1>7, NothingCarried DEF Phases, Tags
  <2>2. Held(s) \subseteq st[s].hand \cup Carried(st[s].channel) \cup st[s].owes
                            \cup Answered(st[s].inbound)
    BY DEF Held
  <2>3. Carried(st[s].channel) \cup st[s].owes \subseteq Held(s)'
    BY <1>3 DEF Held
  <2> QED
    BY <1>5, <2>1, <2>2, <2>3 DEF Tags
<1> QED
  BY <1>2, <1>5, <1>6, <1>8, <1>9, <1>10, LocalStep

\* The task has taken the first message of the client.
LEMMA Taken ==
  ASSUME IndInv, NEW s \in Streams, Takes(s), handed \subseteq handed', acked' = acked,
         stranded \subseteq stranded', st' \in [Streams -> Stream],
         st'[s].phase \in {"loop", "failing"}, st'[s].inbound = Tail(st[s].inbound),
         st'[s].hand = st[s].hand, st'[s].channel = st[s].channel,
         st'[s].hungup = st[s].hungup, st'[s].owes = st[s].owes, st'[s].sent = st[s].sent
  PROVE  /\ Genuine(st[s])' /\ Phases(st[s])'
         /\ Held(s) \subseteq Held(s)' \cup Head(st[s].inbound).ack \cup Head(st[s].inbound).nack
         /\ Head(st[s].inbound) \in StreamAck /\ OneAnswer(Head(st[s].inbound))
         /\ Head(st[s].inbound).ack \cup Head(st[s].inbound).nack \subseteq handed
         /\ \A d \in Head(st[s].inbound).ack : d.uid \in acked
<1> USE DEF IndInv
<1> DEFINE q == st[s].inbound
<1>1. q \in Seq(StreamAck) /\ q # <<>> /\ st[s].phase \in {"loop", "waiting"}
  BY Types DEF Takes, Stream
<1>2. Genuine(st[s]) /\ Phases(st[s])
  BY DEF StreamInv
<1> HIDE DEF q
<1>3. /\ Tail(q) \in Seq(StreamAck) /\ Head(q) \in StreamAck /\ 1 \in DOMAIN q /\ Head(q) = q[1]
      /\ \A i \in DOMAIN Tail(q) : i + 1 \in DOMAIN q /\ Tail(q)[i] = q[i + 1]
  BY <1>1, TailItems
<1>4. Answered(q) = Head(q).ack \cup Head(q).nack \cup Answered(Tail(q))
  BY <1>1, TailAnswered
<1>5. /\ \A i \in DOMAIN q : OneAnswer(q[i])
      /\ \A i \in DOMAIN q : \A d \in q[i].ack : d.uid \in acked
  BY <1>2, Zenon DEF Genuine, Phases, q
<1>6. /\ \A i \in DOMAIN Tail(q) : OneAnswer(Tail(q)[i])
      /\ \A i \in DOMAIN Tail(q) : \A d \in Tail(q)[i].ack : d.uid \in acked
  BY <1>3, <1>5, Zenon
<1>7. Genuine(st[s])'
  <2>1. st'[s].hand \cup Carried(st'[s].channel) \cup st'[s].owes \cup st'[s].sent
          \cup Answered(st'[s].inbound) \subseteq handed'
    BY <1>2, <1>4 DEF Genuine, q
  <2>2. \A i \in DOMAIN st'[s].inbound : \A d \in st'[s].inbound[i].ack : d.uid \in acked'
    BY <1>6, Zenon DEF q
  <2> QED
    BY <2>1, <2>2 DEF Genuine
<1>8. Phases(st[s])'
  <2>1. \A i \in DOMAIN st'[s].inbound : OneAnswer(st'[s].inbound[i])
    BY <1>6, Zenon DEF q
  <2>2. st'[s].hand = {} /\ \A i \in DOMAIN st'[s].channel : st'[s].channel[i] # {}
    BY <1>1, <1>2 DEF Phases
  <2>3. ~st'[s].hungup => Answered(st'[s].inbound) \subseteq st'[s].sent
    BY <1>2, <1>4 DEF Phases, q
  <2>4. st'[s].hungup =>
          /\ st'[s].channel = <<>> /\ st'[s].sent \subseteq st'[s].owes
          /\ Tags(Answered(st'[s].inbound)) \subseteq stranded' \cup Tags(st'[s].owes)
    BY <1>2, <1>4 DEF Phases, Tags, q
  <2> QED
    BY <2>1, <2>2, <2>3, <2>4 DEF Phases
<1>9. Held(s) \subseteq Held(s)' \cup Head(q).ack \cup Head(q).nack
  BY <1>1, <1>4 DEF Held, q
<1>10. Head(q).ack \cup Head(q).nack \subseteq handed
  BY <1>2, <1>4 DEF Genuine, q
<1>11. OneAnswer(Head(q)) /\ \A d \in Head(q).ack : d.uid \in acked
  BY <1>3, <1>5
<1> QED
  BY <1>3, <1>7, <1>8, <1>9, <1>10, <1>11 DEF q

\* The fields after Continues.
LEMMA ContinuesFields ==
  ASSUME TypeOK, NEW s \in Streams, Takes(s), NEW p \in {"loop", "failing"}, Continues(s, p)
  PROVE  /\ st' \in [Streams -> Stream] /\ \A t \in Streams \ {s} : st'[t] = st[t]
         /\ st'[s].phase = p /\ st'[s].inbound = Tail(st[s].inbound)
         /\ st'[s].hand = st[s].hand /\ st'[s].channel = st[s].channel
         /\ st'[s].hungup = st[s].hungup /\ st'[s].owes = st[s].owes
         /\ st'[s].sent = st[s].sent
         /\ UNCHANGED <<nacks, chatter, opens, received, acked, stranded>>
<1>1. st[s] \in Stream /\ st \in [Streams -> Stream]
  BY Types DEF TypeOK
<1>2. Tail(st[s].inbound) \in Seq(StreamAck)
  BY <1>1, TailItems DEF Takes, Stream
<1>3. /\ st'[s] = [st[s] EXCEPT !.phase = p, !.inbound = Tail(st[s].inbound)]
      /\ \A t \in Streams \ {s} : st'[t] = st[t]
  BY <1>1 DEF Continues
<1>4. st'[s] \in Stream
  BY <1>1, <1>2, <1>3 DEF Stream
<1>5. st' \in [Streams -> Stream]
  BY <1>1, <1>4 DEF Continues
<1>6. /\ st'[s].phase = p /\ st'[s].inbound = Tail(st[s].inbound)
      /\ st'[s].hand = st[s].hand /\ st'[s].channel = st[s].channel
      /\ st'[s].hungup = st[s].hungup /\ st'[s].owes = st[s].owes
      /\ st'[s].sent = st[s].sent
  BY <1>1, <1>3 DEF Stream
<1> QED
  BY <1>3, <1>5, <1>6 DEF Continues, hist

\* The answer in the first message of a stream is left behind.
LEMMA ReceiveFirstStep ==
  ASSUME IndInv, NEW s \in Streams, ReceiveFirst(s)
  PROVE  IndInv'
<1> USE DEF IndInv
<1> DEFINE m == Head(st[s].inbound)
<1>1. st[s] \in Stream /\ st \in [Streams -> Stream] /\ Takes(s)
  BY Types DEF TypeOK, ReceiveFirst
<1>2. Tail(st[s].inbound) \in Seq(StreamAck) /\ m \in StreamAck /\ m.queue \in BOOLEAN
  BY <1>1, TailItems DEF Takes, Stream, StreamAck
<1>3. /\ st'[s] = [st[s] EXCEPT !.phase = IF m.queue THEN "loop" ELSE "failing",
                                !.bound = m.queue, !.inbound = Tail(st[s].inbound)]
      /\ \A t \in Streams \ {s} : st'[t] = st[t]
  BY <1>1 DEF ReceiveFirst
<1>4. st' \in [Streams -> Stream]
  <2>1. st'[s] \in Stream
    <3> DEFINE i == Tail(st[s].inbound)
    <3>1. \/ st'[s] = [st[s] EXCEPT !.phase = "loop", !.bound = TRUE, !.inbound = i]
          \/ st'[s] = [st[s] EXCEPT !.phase = "failing", !.bound = FALSE, !.inbound = i]
      BY <1>2, <1>3, Zenon
    <3>2. st[s] \in Stream /\ i \in Seq(StreamAck)
      BY <1>1, <1>2
    <3> HIDE DEF i
    <3> QED
      BY <3>1, <3>2 DEF Stream
  <2> QED
    BY <1>1, <2>1 DEF ReceiveFirst
<1>5. /\ UNCHANGED engine /\ UNCHANGED <<nacks, chatter, opens, received, acked, handed>>
      /\ stranded' = stranded \cup Tags(m.ack \cup m.nack)
  BY DEF ReceiveFirst, engine, contractVars
<1> HIDE DEF m
<1>6. /\ st'[s].phase \in {"loop", "failing"} /\ st'[s].inbound = Tail(st[s].inbound)
      /\ st'[s].hand = st[s].hand /\ st'[s].channel = st[s].channel
      /\ st'[s].hungup = st[s].hungup /\ st'[s].owes = st[s].owes
      /\ st'[s].sent = st[s].sent
  BY <1>1, <1>3 DEF Stream
<1>7. /\ Genuine(st[s])' /\ Phases(st[s])'
      /\ Held(s) \subseteq Held(s)' \cup m.ack \cup m.nack
  BY <1>1, <1>4, <1>5, <1>6, Taken DEF m
<1>8. TypeOK'
  <2>1. stranded' \subseteq Nat
    BY <1>2, <1>5, Types, DeliveryTypes DEF StreamAck
  <2> QED
    BY <1>4, <1>5, <2>1, Types, TypeLocal
<1>9. Tags(Held(s)) \subseteq stranded' \cup Tags(Held(s)')
  BY <1>5, <1>7 DEF Tags
<1> QED
  BY <1>3, <1>5, <1>7, <1>8, <1>9, LocalStep

\* Reading a message without a tag.
LEMMA ReceiveNeitherStep ==
  ASSUME IndInv, NEW s \in Streams, ReceiveNeither(s)
  PROVE  IndInv'
<1> USE DEF IndInv
<1>1. /\ Takes(s) /\ Continues(s, "loop") /\ UNCHANGED engine
      /\ Head(st[s].inbound).ack = {} /\ Head(st[s].inbound).nack = {}
  BY DEF ReceiveNeither
<1>2. /\ st' \in [Streams -> Stream] /\ \A t \in Streams \ {s} : st'[t] = st[t]
      /\ st'[s].phase = "loop" /\ st'[s].inbound = Tail(st[s].inbound)
      /\ st'[s].hand = st[s].hand /\ st'[s].channel = st[s].channel
      /\ st'[s].hungup = st[s].hungup /\ st'[s].owes = st[s].owes
      /\ st'[s].sent = st[s].sent
      /\ UNCHANGED <<nacks, chatter, opens, received, acked, stranded>>
  BY <1>1, ContinuesFields
<1>3. handed' = handed
  BY <1>1 DEF engine, contractVars
<1>4. Genuine(st[s])' /\ Phases(st[s])' /\ Held(s) \subseteq Held(s)'
  BY <1>1, <1>2, <1>3, Taken
<1>5. TypeOK'
  BY <1>1, <1>2, Types, TypeLocal
<1>6. Tags(Held(s)) \subseteq stranded' \cup Tags(Held(s)')
  BY <1>4 DEF Tags
<1> QED
  BY <1>1, <1>2, <1>4, <1>5, <1>6, LocalStep

\* The answer to a delivery that is not in flight any more.
LEMMA RefusedStep ==
  ASSUME IndInv, NEW s \in Streams, Takes(s), Continues(s, "failing"), UNCHANGED engine,
         NEW d, Head(st[s].inbound).ack \cup Head(st[s].inbound).nack = {d},
         \A m \in At("unacked") : m.id # d.tag
  PROVE  IndInv'
<1> USE DEF IndInv
<1>1. /\ st' \in [Streams -> Stream] /\ \A t \in Streams \ {s} : st'[t] = st[t]
      /\ st'[s].phase = "failing" /\ st'[s].inbound = Tail(st[s].inbound)
      /\ st'[s].hand = st[s].hand /\ st'[s].channel = st[s].channel
      /\ st'[s].hungup = st[s].hungup /\ st'[s].owes = st[s].owes
      /\ st'[s].sent = st[s].sent
      /\ UNCHANGED <<nacks, chatter, opens, received, acked, stranded>>
  BY ContinuesFields
<1>2. /\ copies' = copies /\ stored' = stored /\ settled' = settled /\ handed' = handed
      /\ issued' = issued
  BY DEF engine, contractVars
<1>3. Genuine(st[s])' /\ Phases(st[s])' /\ Held(s) \subseteq Held(s)' \cup {d}
  BY <1>1, <1>2, Taken
<1>4. TypeOK'
  BY <1>1, Types, TypeLocal
<1>5. EngineInv' /\ SettledWasAcked'
  BY <1>1, <1>2 DEF EngineInv, SettledWasAcked
<1>6. StreamInv'
  BY <1>1, <1>2, <1>3, OthersKeep, Zenon
<1>7. Accounted'
  <2>1. At("unacked")' = At("unacked")
    BY <1>2 DEF At
  <2>2. \A m \in At("unacked")' :
           m.id \in Tags(Held(s)) => m.id \in stranded' \cup Tags(Held(s)')
    BY <1>3, <2>1 DEF Tags
  <2> QED
    BY <1>1, <2>1, <2>2, AccountedStep
<1> QED
  BY <1>4, <1>5, <1>6, <1>7

-----------------------------------------------------------------------------
(* The steps in which the engine takes part *)

Copy == [place : {"ready", "unacked", "dead"}, queue : {Q}, id : Nat, uid : Nat]

\* The types after a step of the engine.
LEMMA TypeEngine ==
  ASSUME TypeOK, st' \in [Streams -> Stream], UNCHANGED <<nacks, chatter, opens, received, acked>>,
         copies' \subseteq Copy, stored' \subseteq Nat, settled' \subseteq Nat,
         handed' \subseteq Delivery, stranded' \subseteq Nat, safe' = safe,
         epoch' \in Nat, issued' \in Nat
  PROVE  TypeOK'
<1>1. UNION {stored', settled', received', acked', stranded'} \subseteq Nat
  BY Types
<1>2. {nacks', chatter', opens', epoch', issued'} \subseteq Nat
  BY Types
<1>3. safe' = {}
  BY DEF TypeOK
<1> QED
  BY <1>1, <1>2, <1>3, Zenon DEF TypeOK, Copy

\* The next message of a client answers one delivery at most.
LEMMA HeadAnswersOne ==
  ASSUME IndInv, NEW s \in Streams, Takes(s)
  PROVE  OneAnswer(Head(st[s].inbound))
<1> USE DEF IndInv
<1>1. st[s].inbound \in Seq(StreamAck) /\ st[s].inbound # <<>>
  BY Types DEF Takes, Stream
<1>2. 1 \in DOMAIN st[s].inbound /\ Head(st[s].inbound) = st[s].inbound[1]
  BY <1>1, TailItems
<1> QED
  BY <1>2 DEF StreamInv, Phases

\* The copy that an answer names is the one that was handed out.
LEMMA AnsweredCopy ==
  ASSUME IndInv, NEW h \in handed, NEW m \in At("unacked"), m.id = h.tag
  PROVE  m.uid = h.uid /\ \A c \in copies : c.id = h.tag => c = m
<1>1. m \in copies
  BY DEF At
<1> QED
  BY <1>1 DEF IndInv, EngineInv

\* Acking a delivery settles its message, once.
LEMMA SettlesStep ==
  ASSUME IndInv, NEW s \in Streams, Takes(s), Continues(s, "loop"), UNCHANGED issued,
         Head(st[s].inbound).ack # {},
         NEW m \in At("unacked"), m.id \in Tags(Head(st[s].inbound).ack), Settle(m)
  PROVE  IndInv'
<1> USE DEF IndInv
<1>1. /\ st' \in [Streams -> Stream] /\ \A t \in Streams \ {s} : st'[t] = st[t]
      /\ st'[s].phase = "loop" /\ st'[s].inbound = Tail(st[s].inbound)
      /\ st'[s].hand = st[s].hand /\ st'[s].channel = st[s].channel
      /\ st'[s].hungup = st[s].hungup /\ st'[s].owes = st[s].owes
      /\ st'[s].sent = st[s].sent
      /\ UNCHANGED <<nacks, chatter, opens, received, acked, stranded>>
  BY ContinuesFields
<1>2. /\ copies' = copies \ {m} /\ settled' = settled \cup {m.uid}
      /\ UNCHANGED <<stored, safe, handed, epoch, issued>>
  BY DEF Settle
<1>3. /\ Genuine(st[s])' /\ Phases(st[s])'
      /\ Held(s) \subseteq Held(s)' \cup Head(st[s].inbound).ack \cup Head(st[s].inbound).nack
      /\ OneAnswer(Head(st[s].inbound))
      /\ Head(st[s].inbound).ack \subseteq handed
      /\ \A d \in Head(st[s].inbound).ack : d.uid \in acked
  BY <1>1, <1>2, Taken
<1>4. PICK d \in Head(st[s].inbound).ack : d.tag = m.id
  BY DEF Tags
<1>5. m.uid = d.uid /\ (\A c \in copies : c.id = m.id => c = m) /\ m \in copies
  BY <1>3, <1>4, AnsweredCopy DEF At
<1>6. \A e \in Head(st[s].inbound).ack \cup Head(st[s].inbound).nack : e = d
  BY <1>3, <1>4 DEF OneAnswer
<1>7. TypeOK'
  <2>1. copies \subseteq Copy /\ m.uid \in Nat
    BY <1>5 DEF TypeOK, Copy
  <2>2. copies' \subseteq Copy /\ settled' \subseteq Nat
    BY <1>2, <2>1, Types
  <2> QED
    BY <1>1, <1>2, <2>2, Types, TypeEngine
<1>8. EngineInv'
  <2>1. copies' \subseteq copies /\ stored' = stored /\ handed' = handed /\ issued' = issued
    BY <1>2
  <2>2. \A a \in copies' : a.uid \in stored' /\ a.id < issued'
    <3>1. \A a \in copies : a.uid \in stored /\ a.id < issued
      BY Zenon DEF EngineInv
    <3> QED
      BY <2>1, <3>1, Zenon
  <2>3. \A a, b \in copies' : (a.uid = b.uid => a = b) /\ (a.id = b.id => a = b)
    BY <2>1 DEF EngineInv
  <2>4. \A a \in copies', h \in handed' : a.id = h.tag => a.uid = h.uid
    BY <2>1 DEF EngineInv
  <2>5. /\ stored' \subseteq 0..(MaxMessages - 1) /\ \A h \in handed' : h.tag < issued'
        /\ \A g, h \in handed' : g.tag = h.tag => g.uid = h.uid
    BY <2>1 DEF EngineInv
  <2> QED
    BY <2>2, <2>3, <2>4, <2>5 DEF EngineInv
<1>9. SettledWasAcked'
  BY <1>1, <1>2, <1>3, <1>5 DEF SettledWasAcked
<1>10. StreamInv'
  BY <1>1, <1>2, <1>3, OthersKeep, Zenon
<1>11. Accounted'
  <2>1. \A c \in At("unacked")' : c \in At("unacked") /\ c.id # m.id
    BY <1>2, <1>5 DEF At
  <2>2. \A h \in Held(s) : h \in Held(s)' \/ h = d
    BY <1>3, <1>6
  <2>3. \A c \in At("unacked")' :
           c.id \in Tags(Held(s)) => c.id \in stranded' \cup Tags(Held(s)')
    BY <1>4, <2>1, <2>2 DEF Tags
  <2> QED
    BY <1>1, <2>1, <2>3, AccountedStep
<1> QED
  BY <1>7, <1>8, <1>9, <1>10, <1>11

\* handle_ack, with a known tag and with an unknown one.
LEMMA ReceiveAckStep ==
  ASSUME IndInv, NEW s \in Streams, ReceiveAck(s)
  PROVE  IndInv'
<1> USE DEF IndInv
<1> DEFINE a == Head(st[s].inbound).ack
           known == {m \in At("unacked") : m.id \in Tags(a)}
<1>1. Takes(s) /\ a # {}
  BY DEF ReceiveAck
<1>2. CASE known # {}
  <2>1. PICK m \in known : Settle(m)
    BY <1>2 DEF ReceiveAck
  <2>2. UNCHANGED issued /\ Continues(s, "loop")
    BY <1>2 DEF ReceiveAck
  <2> QED
    BY <1>1, <2>1, <2>2, SettlesStep
<1>3. CASE known = {}
  <2>1. UNCHANGED engine /\ Continues(s, "failing")
    BY <1>3 DEF ReceiveAck
  <2>2. PICK d : d \in a
    BY <1>1
  <2>3. OneAnswer(Head(st[s].inbound))
    BY <1>1, HeadAnswersOne
  <2>4. Head(st[s].inbound).ack \cup Head(st[s].inbound).nack = {d}
    BY <2>2, <2>3 DEF OneAnswer
  <2>5. \A m \in At("unacked") : m.id # d.tag
    BY <1>3, <2>2 DEF Tags
  <2> QED
    BY <1>1, <2>1, <2>4, <2>5, RefusedStep
<1> QED
  BY <1>2, <1>3

\* Nacking a delivery puts its message back, under an id of its own.
LEMMA PutsBackStep ==
  ASSUME IndInv, NEW s \in Streams, Takes(s), Continues(s, "loop"), issued' = issued + 1,
         Head(st[s].inbound).ack = {},
         NEW m \in At("unacked"), m.id \in Tags(Head(st[s].inbound).nack),
         NEW place \in {"ready", "dead"}, Return(m, [m EXCEPT !.place = place, !.id = NextId])
  PROVE  IndInv'
<1> USE DEF IndInv
<1> DEFINE n == [m EXCEPT !.place = place, !.id = NextId]
<1>1. /\ st' \in [Streams -> Stream] /\ \A t \in Streams \ {s} : st'[t] = st[t]
      /\ st'[s].phase = "loop" /\ st'[s].inbound = Tail(st[s].inbound)
      /\ st'[s].hand = st[s].hand /\ st'[s].channel = st[s].channel
      /\ st'[s].hungup = st[s].hungup /\ st'[s].owes = st[s].owes
      /\ st'[s].sent = st[s].sent
      /\ UNCHANGED <<nacks, chatter, opens, received, acked, stranded>>
  BY ContinuesFields
<1>2. copies' = (copies \ {m}) \cup {n} /\ UNCHANGED <<stored, safe, settled, handed, epoch>>
  BY DEF Return
<1>3. /\ Genuine(st[s])' /\ Phases(st[s])'
      /\ Held(s) \subseteq Held(s)' \cup Head(st[s].inbound).ack \cup Head(st[s].inbound).nack
      /\ OneAnswer(Head(st[s].inbound))
      /\ Head(st[s].inbound).nack \subseteq handed
  BY <1>1, <1>2, Taken
<1>4. PICK d \in Head(st[s].inbound).nack : d.tag = m.id
  BY DEF Tags
<1>5. (\A c \in copies : c.id = m.id => c = m) /\ m \in copies
  BY <1>3, <1>4, AnsweredCopy DEF At
<1>6. \A e \in Head(st[s].inbound).ack \cup Head(st[s].inbound).nack : e = d
  BY <1>3, <1>4 DEF OneAnswer
<1>7. issued \in Nat /\ copies \subseteq Copy /\ m \in Copy
  BY <1>5, Types DEF TypeOK, Copy
<1>8. n \in Copy /\ n.uid = m.uid /\ n.id = issued /\ n.place # "unacked"
  BY <1>7 DEF Copy, NextId
<1> HIDE DEF n
<1>9. TypeOK'
  <2>1. copies' \subseteq Copy /\ issued' \in Nat
    BY <1>2, <1>7, <1>8
  <2> QED
    BY <1>1, <1>2, <2>1, Types, TypeEngine
<1>10. EngineInv'
  <2>1. \A c \in copies : c.id \in Nat /\ c.id < issued /\ c.uid \in stored
    BY <1>7 DEF EngineInv, Copy
  <2>2. \A h \in handed : h.tag \in Nat /\ h.tag < issued
    BY Types DEF EngineInv, Delivery
  <2>3. \A c \in copies' : c.uid \in stored' /\ c.id < issued'
    BY <1>2, <1>5, <1>7, <1>8, <2>1
  <2>4. \A c, e \in copies' : c.uid = e.uid => c = e
    BY <1>2, <1>5, <1>8 DEF EngineInv
  <2>5. \A c, e \in copies' : c.id = e.id => c = e
    BY <1>2, <1>7, <1>8, <2>1 DEF EngineInv
  <2>6. \A h \in handed' : h.tag < issued'
    BY <1>2, <1>7, <2>2
  <2>7. \A c \in copies', h \in handed' : c.id = h.tag => c.uid = h.uid
    BY <1>2, <1>7, <1>8, <2>2 DEF EngineInv
  <2> QED
    BY <1>2, <2>3, <2>4, <2>5, <2>6, <2>7 DEF EngineInv
<1>11. SettledWasAcked'
  BY <1>1, <1>2 DEF SettledWasAcked
<1>12. StreamInv'
  BY <1>1, <1>2, <1>3, OthersKeep, Zenon
<1>13. Accounted'
  <2>1. \A c \in At("unacked")' : c \in At("unacked") /\ c.id # m.id
    BY <1>2, <1>5, <1>8 DEF At
  <2>2. \A h \in Held(s) : h \in Held(s)' \/ h = d
    BY <1>3, <1>6
  <2>3. \A c \in At("unacked")' :
           c.id \in Tags(Held(s)) => c.id \in stranded' \cup Tags(Held(s)')
    BY <1>4, <2>1, <2>2 DEF Tags
  <2> QED
    BY <1>1, <2>1, <2>3, AccountedStep
<1> QED
  BY <1>9, <1>10, <1>11, <1>12, <1>13

\* handle_nack, with a known tag and with an unknown one.
LEMMA ReceiveNackStep ==
  ASSUME IndInv, NEW s \in Streams, ReceiveNack(s)
  PROVE  IndInv'
<1> USE DEF IndInv
<1> DEFINE a == Head(st[s].inbound).nack
           known == {m \in At("unacked") : m.id \in Tags(a)}
<1>1. Takes(s) /\ Head(st[s].inbound).ack = {} /\ a # {}
  BY DEF ReceiveNack
<1>2. CASE known # {}
  <2>1. PICK m \in known, place \in {"ready", "dead"} :
               Return(m, [m EXCEPT !.place = place, !.id = NextId])
    BY <1>2 DEF ReceiveNack
  <2>2. issued' = issued + 1 /\ Continues(s, "loop")
    BY <1>2 DEF ReceiveNack
  <2> QED
    BY <1>1, <2>1, <2>2, PutsBackStep
<1>3. CASE known = {}
  <2>1. UNCHANGED engine /\ Continues(s, "failing")
    BY <1>3 DEF ReceiveNack
  <2>2. PICK d : d \in a
    BY <1>1
  <2>3. OneAnswer(Head(st[s].inbound))
    BY <1>1, HeadAnswersOne
  <2>4. Head(st[s].inbound).ack \cup Head(st[s].inbound).nack = {d}
    BY <2>2, <2>3 DEF OneAnswer
  <2>5. \A m \in At("unacked") : m.id # d.tag
    BY <1>3, <2>2 DEF Tags
  <2> QED
    BY <1>1, <2>1, <2>4, <2>5, RefusedStep
<1> QED
  BY <1>2, <1>3

\* A poll that finds a message puts it in the hand of its task.
LEMMA DeliversStep ==
  ASSUME IndInv, NEW s \in Streams, st[s].phase = "waiting",
         NEW m \in At("ready"), Deliver(m), UNCHANGED <<issued, hist>>,
         st' = [st EXCEPT ![s].phase = "sending",
                          ![s].hand = {[queue |-> Q, tag |-> m.id, uid |-> m.uid]}]
  PROVE  IndInv'
<1> USE DEF IndInv
<1> DEFINE d == [queue |-> Q, tag |-> m.id, uid |-> m.uid]
           n == [m EXCEPT !.place = "unacked"]
<1>1. st[s] \in Stream /\ st \in [Streams -> Stream]
  BY Types DEF TypeOK
<1>2. /\ st'[s] = [st[s] EXCEPT !.phase = "sending", !.hand = {d}]
      /\ \A t \in Streams \ {s} : st'[t] = st[t]
  BY <1>1
<1>3. m \in copies /\ copies \subseteq Copy /\ m \in Copy /\ m.place = "ready"
  BY DEF At, TypeOK, Copy
<1>4. d \in Delivery /\ d.tag = m.id /\ d.uid = m.uid /\ m.queue = Q
  BY <1>3 DEF Delivery, Copy
<1>5. n \in Copy /\ n.uid = m.uid /\ n.id = m.id /\ n.place = "unacked"
  BY <1>3 DEF Copy
<1>6. /\ copies' = (copies \ {m}) \cup {n} /\ handed' = handed \cup {d}
      /\ UNCHANGED <<stored, safe, settled, epoch, issued>>
      /\ UNCHANGED <<nacks, chatter, opens, received, acked, stranded>>
  BY <1>4 DEF Deliver, hist
<1> HIDE DEF d, n
<1>7. /\ st'[s].phase = "sending" /\ st'[s].hand = {d}
      /\ st'[s].channel = st[s].channel /\ st'[s].inbound = st[s].inbound
      /\ st'[s].hungup = st[s].hungup /\ st'[s].owes = st[s].owes
      /\ st'[s].sent = st[s].sent
  BY <1>1, <1>2 DEF Stream
<1>8. TypeOK'
  <2>1. st'[s] \in Stream
    <3> DEFINE h == {d}
    <3>1. h \in SUBSET Delivery /\ st'[s] = [st[s] EXCEPT !.phase = "sending", !.hand = h]
      BY <1>2, <1>4
    <3> HIDE DEF h
    <3> QED
      BY <1>1, <3>1 DEF Stream
  <2>2. st' \in [Streams -> Stream]
    BY <1>1, <2>1
  <2>3. copies' \subseteq Copy /\ handed' \subseteq Delivery
    BY <1>3, <1>4, <1>5, <1>6, Types
  <2> QED
    BY <1>6, <2>2, <2>3, Types, TypeEngine
<1>9. EngineInv'
  <2>1. \A c \in copies' : c.uid \in stored' /\ c.id < issued'
    BY <1>3, <1>5, <1>6 DEF EngineInv
  <2>2. \A c, e \in copies' : c.uid = e.uid => c = e
    BY <1>3, <1>5, <1>6 DEF EngineInv
  <2>3. \A c, e \in copies' : c.id = e.id => c = e
    BY <1>3, <1>5, <1>6 DEF EngineInv
  <2>4. \A h \in handed' : h.tag < issued'
    BY <1>3, <1>4, <1>6 DEF EngineInv
  <2>5. \A c \in copies', h \in handed' : c.id = h.tag => c.uid = h.uid
    BY <1>3, <1>4, <1>5, <1>6 DEF EngineInv
  <2>6. \A g, h \in handed' : g.tag = h.tag => g.uid = h.uid
    BY <1>3, <1>4, <1>6 DEF EngineInv
  <2> QED
    BY <1>6, <2>1, <2>2, <2>3, <2>4, <2>5, <2>6 DEF EngineInv
<1>10. SettledWasAcked'
  BY <1>6 DEF SettledWasAcked
<1>11. Genuine(st[s]) /\ Phases(st[s])
  BY DEF StreamInv
<1>12. Genuine(st[s])'
  BY <1>6, <1>7, <1>11 DEF Genuine
<1>13. Phases(st[s])'
  <2>1. \A i \in DOMAIN st[s].channel : st[s].channel[i] # {}
    BY <1>11 DEF Phases
  <2>2. st'[s].hand # {}
    BY <1>7
  <2> QED
    BY <1>6, <1>7, <1>11, <2>1, <2>2, Zenon DEF Phases
<1>14. StreamInv'
  <2>1. handed \subseteq handed'
    BY <1>6
  <2> QED
    BY <1>2, <1>6, <1>12, <1>13, <2>1, OthersKeep, Zenon
<1>15. Accounted'
  <2>1. st[s].hand = {}
    BY <1>11 DEF Phases
  <2>2. Held(s) \subseteq Held(s)' /\ d \in Held(s)'
    BY <1>7, <2>1 DEF Held
  <2>3. \A c \in At("unacked")' : c \in At("unacked") \/ c.id \in Tags(Held(s)')
    BY <1>4, <1>5, <1>6, <2>2 DEF At, Tags
  <2>4. \A c \in At("unacked")' :
           c.id \in Tags(Held(s)) => c.id \in stranded' \cup Tags(Held(s)')
    BY <2>2 DEF Tags
  <2> QED
    BY <1>2, <1>6, <2>3, <2>4, AccountedStep
<1> QED
  BY <1>8, <1>9, <1>10, <1>14, <1>15

\* The poll after the sleep, with a message and without one.
LEMMA SleepEndsStep ==
  ASSUME IndInv, NEW s \in Streams, SleepEnds(s)
  PROVE  IndInv'
<1>1. CASE st[s].bound /\ At("ready") # {}
  <2>1. PICK m \in At("ready") :
           /\ Deliver(m) /\ UNCHANGED issued
           /\ st' = [st EXCEPT ![s].phase = "sending",
                       ![s].hand = {[queue |-> Q, tag |-> m.id, uid |-> m.uid]}]
    BY <1>1 DEF SleepEnds, Polls
  <2> QED
    BY <2>1, DeliversStep DEF SleepEnds
<1>2. CASE ~(st[s].bound /\ At("ready") # {})
  BY <1>2, WaitsStep DEF SleepEnds, Polls
<1> QED
  BY <1>1, <1>2

\* A publish adds a copy under an id that nothing has.
LEMMA PublishedStep ==
  ASSUME IndInv, Published
  PROVE  IndInv'
<1> USE DEF IndInv
<1>1. PICK u \in 0..(MaxMessages - 1) :
         /\ u \notin stored
         /\ Accept([place |-> "ready", queue |-> Q, id |-> NextId, uid |-> u])
  BY DEF Published
<1> DEFINE n == [place |-> "ready", queue |-> Q, id |-> NextId, uid |-> u]
<1>2. issued \in Nat /\ copies \subseteq Copy /\ stored \subseteq Nat /\ u \in Nat
  <2>1. copies \subseteq Copy
    BY Zenon DEF TypeOK, Copy
  <2>2. u \in Nat
    BY <1>1, StreamAssumption
  <2> QED
    BY <2>1, <2>2, Types
<1>3. n \in Copy /\ n.uid = u /\ n.id = issued /\ n.place = "ready"
  BY <1>2 DEF Copy, NextId
<1>4. /\ copies' = copies \cup {n} /\ stored' = stored \cup {u} /\ issued' = issued + 1
      /\ UNCHANGED <<safe, settled, handed, epoch>>
      /\ UNCHANGED <<st, nacks, chatter, opens, received, acked, stranded>>
  BY <1>1 DEF Published, Accept, hist
<1> HIDE DEF n
<1>5. TypeOK'
  <2>1. copies' \subseteq Copy /\ stored' \subseteq Nat /\ issued' \in Nat
    BY <1>2, <1>3, <1>4
  <2>2. st' \in [Streams -> Stream]
    BY <1>4 DEF TypeOK
  <2> QED
    BY <1>4, <2>1, <2>2, Types, TypeEngine
<1>6. EngineInv'
  <2>1. \A c \in copies : c.id \in Nat /\ c.id < issued /\ c.uid \in stored
    BY <1>2 DEF EngineInv, Copy
  <2>2. \A h \in handed : h.tag \in Nat /\ h.tag < issued
    BY Types DEF EngineInv, Delivery
  <2>3. stored' \subseteq 0..(MaxMessages - 1)
    BY <1>1, <1>4 DEF EngineInv
  <2>4. \A c \in copies' : c.uid \in stored' /\ c.id < issued'
    BY <1>2, <1>3, <1>4, <2>1
  <2>5. \A c, e \in copies' : c.uid = e.uid => c = e
    BY <1>1, <1>3, <1>4, <2>1 DEF EngineInv
  <2>6. \A c, e \in copies' : c.id = e.id => c = e
    BY <1>2, <1>3, <1>4, <2>1 DEF EngineInv
  <2>7. \A h \in handed' : h.tag < issued'
    BY <1>2, <1>4, <2>2
  <2>8. \A c \in copies', h \in handed' : c.id = h.tag => c.uid = h.uid
    BY <1>2, <1>3, <1>4, <2>2, SMTT(60) DEF EngineInv
  <2> QED
    BY <1>4, <2>3, <2>4, <2>5, <2>6, <2>7, <2>8 DEF EngineInv
<1>7. StreamInv' /\ SettledWasAcked'
  <2>1. SettledWasAcked'
    BY <1>4 DEF SettledWasAcked
  <2>2. StreamInv'
    BY <1>4, Zenon DEF StreamInv, Genuine, Phases
  <2> QED
    BY <2>1, <2>2
<1>8. Accounted'
  <2>1. At("unacked")' = At("unacked")
    BY <1>3, <1>4 DEF At
  <2>2. \A s \in Streams : Held(s)' = Held(s)
    BY <1>4 DEF Held
  <2> QED
    BY <1>4, <2>1, <2>2 DEF Accounted
<1> QED
  BY <1>5, <1>6, <1>7, <1>8

\* A copy after a restart.
Renewed(m) ==
  IF m.place = "unacked" THEN [m EXCEPT !.place = "ready", !.id = NextId + m.uid] ELSE m

\* After a restart nothing is in flight, and no old tag names a copy of another message.
LEMMA RestartStep ==
  ASSUME IndInv, Restart
  PROVE  IndInv'
<1> USE DEF IndInv
<1>1. /\ copies' = {Renewed(m) : m \in copies} /\ issued' = issued + MaxMessages
      /\ epoch' = epoch + 1 /\ stranded' = {}
      /\ st' = [s \in Streams |-> [Ended EXCEPT !.owes = st[s].owes \cup st[s].sent]]
      /\ UNCHANGED <<stored, safe, settled, handed>>
      /\ UNCHANGED <<nacks, chatter, opens, received, acked>>
  BY DEF Restart, Renewed
<1>2. /\ issued \in Nat /\ epoch \in Nat /\ MaxMessages \in Nat
      /\ copies \subseteq Copy /\ stored \subseteq 0..(MaxMessages - 1)
  BY Types, StreamAssumption DEF TypeOK, Copy, EngineInv
<1>3. \A m \in copies : m.id < issued /\ m.uid \in 0..(MaxMessages - 1) /\ m.uid \in stored
  BY <1>2 DEF EngineInv
<1>4. \A m \in copies :
         /\ Renewed(m) \in Copy /\ Renewed(m).uid = m.uid /\ Renewed(m).place # "unacked"
         /\ \/ Renewed(m).id = issued + m.uid
            \/ Renewed(m).id = m.id
  <2> SUFFICES ASSUME NEW m \in copies
               PROVE  /\ Renewed(m) \in Copy /\ Renewed(m).uid = m.uid
                      /\ Renewed(m).place # "unacked"
                      /\ \/ Renewed(m).id = issued + m.uid
                         \/ Renewed(m).id = m.id
    OBVIOUS
  <2>1. m \in Copy /\ issued + m.uid \in Nat
    BY <1>2 DEF Copy
  <2>2. CASE m.place = "unacked"
    <3>1. Renewed(m) = [m EXCEPT !.place = "ready", !.id = issued + m.uid]
      BY <2>2 DEF Renewed, NextId
    <3> QED
      BY <2>1, <3>1 DEF Copy
  <2>3. CASE m.place # "unacked"
    BY <2>1, <2>3 DEF Renewed
  <2> QED
    BY <2>2, <2>3
<1>5. /\ \A s \in Streams : st'[s] \in Stream
      /\ \A s \in Streams :
           /\ st'[s].phase = "ended" /\ st'[s].hand = {} /\ st'[s].channel = <<>>
           /\ st'[s].inbound = <<>> /\ st'[s].hungup
           /\ st'[s].owes = st[s].owes \cup st[s].sent /\ st'[s].sent = {}
  <2> SUFFICES ASSUME NEW s \in Streams
               PROVE  /\ st'[s] \in Stream
                      /\ st'[s].phase = "ended" /\ st'[s].hand = {} /\ st'[s].channel = <<>>
                      /\ st'[s].inbound = <<>> /\ st'[s].hungup
                      /\ st'[s].owes = st[s].owes \cup st[s].sent /\ st'[s].sent = {}
    OBVIOUS
  <2> DEFINE o == st[s].owes \cup st[s].sent
  <2>1. o \in SUBSET Delivery
    BY Types DEF Stream
  <2>2. st'[s] = [Ended EXCEPT !.owes = o]
    BY <1>1
  <2> HIDE DEF o
  <2>3. st'[s] \in Stream
    BY <2>1, <2>2, NothingCarried DEF Stream, Ended
  <2> QED
    BY <2>2, <2>3 DEF Ended, o
<1>6. TypeOK'
  <2>1. copies' \subseteq Copy /\ issued' \in Nat /\ epoch' \in Nat /\ stranded' \subseteq Nat
    BY <1>1, <1>2, <1>4
  <2>2. st' \in [Streams -> Stream]
    BY <1>1, <1>5
  <2> QED
    BY <1>1, <2>1, <2>2, Types, TypeEngine
<1>7. EngineInv'
  <2>1. \A m \in copies : m.id \in Nat
    BY <1>2 DEF Copy
  <2>2. \A h \in handed : h.tag \in Nat /\ h.tag < issued
    BY Types DEF EngineInv, Delivery
  <2>3. \A c \in copies' : c.uid \in stored' /\ c.id < issued'
    BY <1>1, <1>2, <1>3, <1>4, <2>1
  <2>4. \A c, e \in copies' : c.uid = e.uid => c = e
    BY <1>1, <1>4 DEF EngineInv
  <2>5. \A c, e \in copies' : c.id = e.id => c = e
    <3> SUFFICES ASSUME NEW a \in copies, NEW b \in copies, Renewed(a).id = Renewed(b).id
                 PROVE  a.uid = b.uid
      BY <1>1 DEF EngineInv
    <3> QED
      BY <1>2, <1>3, <1>4, <2>1, SMTT(60) DEF EngineInv
  <2>6. \A h \in handed' : h.tag < issued'
    BY <1>1, <1>2, <2>2
  <2>7. \A c \in copies', h \in handed' : c.id = h.tag => c.uid = h.uid
    <3> SUFFICES ASSUME NEW a \in copies, NEW h \in handed, Renewed(a).id = h.tag
                 PROVE  Renewed(a).uid = h.uid
      BY <1>1
    <3> QED
      BY <1>2, <1>3, <1>4, <2>1, <2>2, SMTT(60) DEF EngineInv
  <2> QED
    BY <1>1, <2>3, <2>4, <2>5, <2>6, <2>7 DEF EngineInv
<1>8. SettledWasAcked'
  BY <1>1 DEF SettledWasAcked
<1>9. StreamInv'
  <2> SUFFICES ASSUME NEW s \in Streams
               PROVE  Genuine(st[s])' /\ Phases(st[s])'
    BY DEF StreamInv
  <2>1. Genuine(st[s])
    BY DEF StreamInv
  <2>2. Genuine(st[s])'
    BY <1>1, <1>5, <2>1, NothingCarried DEF Genuine
  <2>3. Phases(st[s])'
    BY <1>5, NothingCarried DEF Phases, Tags
  <2> QED
    BY <2>2, <2>3
<1>10. Accounted'
  BY <1>1, <1>4 DEF Accounted, At
<1> QED
  BY <1>6, <1>7, <1>8, <1>9, <1>10

-----------------------------------------------------------------------------
(* The invariant, and what it is for *)

\* The invariant holds when nothing was published yet.
LEMMA Initially ==
  ASSUME Init
  PROVE  IndInv
<1>1. /\ copies = {} /\ stored = {} /\ safe = {} /\ settled = {} /\ handed = {} /\ epoch = 0
      /\ issued = 0 /\ st = [s \in Streams |-> Ended] /\ nacks = 0 /\ chatter = 0 /\ opens = 0
      /\ received = {} /\ acked = {} /\ stranded = {}
  BY DEF Init, ContractInit
<1>2. Ended \in Stream
  BY NothingCarried DEF Ended, Stream
<1>3. TypeOK
  <2>1. st \in [Streams -> Stream]
    BY <1>1, <1>2
  <2>2. {nacks, chatter, opens, epoch, issued} \subseteq Nat
    BY <1>1
  <2>3. UNION {stored, settled, received, acked, stranded} \subseteq Nat
    BY <1>1
  <2> QED
    BY <1>1, <2>1, <2>2, <2>3 DEF TypeOK
<1>4. EngineInv /\ SettledWasAcked /\ Accounted
  BY <1>1 DEF EngineInv, SettledWasAcked, Accounted, At
<1>5. StreamInv
  <2> SUFFICES ASSUME NEW s \in Streams
               PROVE  Genuine(st[s]) /\ Phases(st[s])
    BY DEF StreamInv
  <2>1. /\ st[s].phase = "ended" /\ st[s].hand = {} /\ st[s].channel = <<>>
        /\ st[s].inbound = <<>> /\ st[s].hungup /\ st[s].owes = {} /\ st[s].sent = {}
    BY <1>1 DEF Ended
  <2> QED
    BY <2>1, NothingCarried DEF Genuine, Phases, Tags
<1> QED
  BY <1>3, <1>4, <1>5 DEF IndInv

\* Every step of a client keeps the invariant.
LEMMA ClientStep ==
  ASSUME IndInv, NEW s \in Streams, ClientNext(s)
  PROVE  IndInv'
<1>1. CASE ClientOpens(s)
  BY <1>1, ClientOpensStep
<1>2. ASSUME NEW names \in {FALSE, ~st[s].bound},
             \/ ClientNames(s, names)
             \/ \E d \in st[s].owes : ClientAcks(s, d, names) \/ ClientNacks(s, d, names)
      PROVE  IndInv'
  <2>1. names \in BOOLEAN
    OBVIOUS
  <2>2. CASE ClientNames(s, names)
    BY <2>1, <2>2, ClientNamesStep
  <2>3. ASSUME NEW d \in st[s].owes, ClientAcks(s, d, names)
        PROVE  IndInv'
    BY <2>1, <2>3, ClientAcksStep
  <2>4. ASSUME NEW d \in st[s].owes, ClientNacks(s, d, names)
        PROVE  IndInv'
    BY <2>1, <2>4, ClientNacksStep
  <2> QED
    BY <1>2, <2>2, <2>3, <2>4
<1>3. CASE ClientReceives(s)
  BY <1>3, ClientReceivesStep
<1>4. CASE ClientCloses(s)
  BY <1>4, ClientClosesStep
<1>5. ASSUME NEW keep \in BOOLEAN, NEW n \in 0..Len(st[s].inbound), ClientHangsUp(s, keep, n)
      PROVE  IndInv'
  BY <1>5, ClientHangsUpStep
<1> QED
  BY <1>1, <1>2, <1>3, <1>4, <1>5, Zenon DEF ClientNext

\* Every step of a task keeps the invariant.
LEMMA TaskStep ==
  ASSUME IndInv, NEW s \in Streams, TaskNext(s)
  PROVE  IndInv'
<1>1. CASE Receives(s)
  <2>1. CASE InboundEnds(s)
    BY <2>1, ReturnsStep DEF InboundEnds
  <2> QED
    BY <1>1, <2>1, ReceiveFirstStep, ReceiveAckStep, ReceiveNackStep, ReceiveNeitherStep
    DEF Receives
<1>2. CASE Waits(s)
  BY <1>2, WaitsStep DEF Waits
<1>3. CASE SendFails(s)
  BY <1>3, ReturnsStep DEF SendFails
<1> QED
  BY <1>1, <1>2, <1>3, SleepEndsStep, SendsStep, SendsErrorStep DEF TaskNext

\* Every step, and every step of something else, keeps the invariant.
LEMMA EveryStep ==
  ASSUME IndInv, [Next]_vars
  PROVE  IndInv'
<1>1. CASE UNCHANGED vars
  <2>1. /\ UNCHANGED <<copies, stored, safe, settled, handed, epoch, issued, st>>
        /\ UNCHANGED <<nacks, chatter, opens, received, acked, stranded>>
    BY <1>1 DEF vars, engine, contractVars, hist
  <2>2. TypeOK' /\ EngineInv' /\ SettledWasAcked'
    BY <2>1 DEF IndInv, TypeOK, EngineInv, SettledWasAcked
  <2>3. StreamInv'
    BY <2>1, Zenon DEF IndInv, StreamInv, Genuine, Phases
  <2>4. Accounted'
    BY <2>1 DEF IndInv, Accounted, At, Held
  <2> QED
    BY <2>2, <2>3, <2>4 DEF IndInv
<1>2. CASE Next
  BY <1>2, PublishedStep, RestartStep, ClientStep, TaskStep DEF Next
<1> QED
  BY <1>1, <1>2

\* The invariant holds in every behaviour.
THEOREM Invariance == Spec => []IndInv
BY Initially, EveryStep, PTL DEF Spec

\* The state of the streams keeps its types (TypeOK).
THEOREM StreamTypes == Spec => []TypeOK
<1>1. IndInv => TypeOK
  BY DEF IndInv
<1> QED
  BY <1>1, Invariance, PTL

\* handle_ack settles nothing that no client has acked: whatever answers are
\* repeated on new streams, late or after a restart, whoever sends them, a tag
\* never reaches another message (SettledWasAcked).
THEOREM SettledOnlyByItsAck == Spec => []SettledWasAcked
<1>1. IndInv => SettledWasAcked
  BY DEF IndInv
<1> QED
  BY <1>1, Invariance, PTL

\* consume_stream loses no delivery and no answer in any phase of its loop:
\* what is in flight is held by somebody who will settle it, or was left
\* behind by a hang-up or by the first message of a stream (Accounted).
THEOREM NothingGoesAstray == Spec => []Accounted
<1>1. IndInv => Accounted
  BY DEF IndInv
<1> QED
  BY <1>1, Invariance, PTL
=============================================================================
