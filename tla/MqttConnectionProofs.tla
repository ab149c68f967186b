------------------------ MODULE MqttConnectionProofs ------------------------
(***************************************************************************)
(* Which message a PUBACK settles, proved for any number of connections and *)
(* queues, any room in the channel and any range of packet ids.             *)
(***************************************************************************)
EXTENDS MqttConnection, SequenceTheorems, FiniteSetTheorems, TLAPS

\* Between two restarts the tag of a delivery names its message.
Names(d) == d.tag = IdOf(d.uid)

NamedIn(r) ==
  /\ \A d \in r.hand : Names(d)
  /\ \A i \in DOMAIN r.channel : Names(r.channel[i])
  /\ \A x \in r.inflight : Names(x.d)

\* While no packet id was reused, a PUBACK on its way stands for the one entry
\* of the table with its packet id, which the client has processed; what the
\* client has still to answer is in the table and has no PUBACK on its way.
Answered(wire, inflight, client, done) ==
  \A i \in DOMAIN wire : wire[i].type = "puback" =>
    /\ \E x \in inflight : x.pkid = wire[i].pkid /\ x.d.uid \in done
    /\ \A x \in client : x.pkid # wire[i].pkid
    /\ \A j \in DOMAIN wire :
         wire[j].type = "puback" /\ wire[j].pkid = wire[i].pkid => i = j

\* The entries of the table with another packet id.
Others(inflight, pkid) == {x \in inflight : x.pkid # pkid}

OneEntry(inflight) == \A x, y \in inflight : x.pkid = y.pkid => x = y

Numbering(r) ==
  /\ OneEntry(r.inflight) /\ r.client \subseteq r.inflight
  /\ Answered(r.wire, r.inflight, r.client, processed)

CopiesNamed == \A m \in copies : m.id = IdOf(m.uid)

ConnInv == \A c \in Conns : NamedIn(conn[c]) /\ (reused \/ Numbering(conn[c]))

IndInv == TypeOK /\ CopiesNamed /\ ConnInv /\ AckedWasProcessed

-----------------------------------------------------------------------------
(* Types, sequences and ids *)

Copy == [place : {"ready", "unacked"}, queue : Queues, id : Nat, uid : Nat]

\* The parts of TypeOK, for citing them one by one.
LEMMA Types ==
  ASSUME TypeOK
  PROVE  /\ \A c \in Conns : conn[c] \in Connection
         /\ conn \in [Conns -> Connection] /\ copies \subseteq Copy
         /\ offered \in Nat /\ connects \in Nat /\ epoch \in Nat
         /\ stored \subseteq Nat /\ settled \subseteq Nat /\ got \subseteq Nat
         /\ processed \subseteq Nat /\ stranded \subseteq Nat
         /\ handed \subseteq Delivery /\ safe = {} /\ reused \in BOOLEAN
<1>1. \A c \in Conns : conn[c] \in Connection
  BY DEF TypeOK
<1>2. /\ conn \in [Conns -> Connection] /\ copies \subseteq Copy
      /\ offered \in Nat /\ connects \in Nat /\ epoch \in Nat
      /\ UNION {stored, settled, got, processed, stranded} \subseteq Nat
      /\ handed \subseteq Delivery /\ safe = {} /\ reused \in BOOLEAN
  BY Zenon DEF TypeOK, Copy
<1>3. /\ stored \subseteq Nat /\ settled \subseteq Nat /\ got \subseteq Nat
      /\ processed \subseteq Nat /\ stranded \subseteq Nat
  BY <1>2
<1> QED
  BY <1>1, <1>2, <1>3

\* The fields of a connection.
LEMMA Fields ==
  ASSUME TypeOK, NEW c \in Conns
  PROVE  /\ conn[c].pollers \in SUBSET Queues /\ conn[c].hand \in SUBSET Delivery
         /\ conn[c].channel \in Seq(Delivery) /\ conn[c].inflight \in SUBSET Numbered
         /\ conn[c].next_pkid \in 0..(PkidMod - 1)
         /\ conn[c].wire \in Seq(Packet) /\ conn[c].client \in SUBSET Numbered
BY Types DEF Connection

\* TypeOK, put together again.
LEMMA TypesHold ==
  ASSUME conn' \in [Conns -> Connection], copies' \subseteq Copy,
         offered' \in Nat, connects' \in Nat, epoch' \in Nat,
         stored' \subseteq Nat, settled' \subseteq Nat, got' \subseteq Nat,
         processed' \subseteq Nat, stranded' \subseteq Nat,
         handed' \subseteq Delivery, safe' = {}, reused' \in BOOLEAN
  PROVE  TypeOK'
<1>1. UNION {stored', settled', got', processed', stranded'} \subseteq Nat
  OBVIOUS
<1> QED
  BY <1>1, Zenon DEF TypeOK, Copy

\* A product of numbers.
LEMMA ProductNat ==
  ASSUME NEW a \in Nat, NEW b \in Nat
  PROVE  a * b \in Nat
OBVIOUS

\* The ids of messages are numbers, and different messages have different ids.
LEMMA Ids ==
  ASSUME TypeOK
  PROVE  /\ \A u \in Nat : IdOf(u) \in Nat
         /\ \A u, v \in Nat : IdOf(u) = IdOf(v) => u = v
<1> DEFINE N == epoch * MaxMessages
<1>1. N \in Nat
  BY Types, ProductNat, ConnectionAssumption
<1>2. \A u : IdOf(u) = N + u
  BY DEF IdOf
<1> HIDE DEF N
<1> QED
  BY <1>1, <1>2

\* What is left of the wire, or of a channel, without its first item.
LEMMA TailFacts ==
  ASSUME NEW T, NEW w \in Seq(T), w # <<>>
  PROVE  /\ Tail(w) \in Seq(T) /\ Head(w) \in T /\ 1 \in DOMAIN w /\ Head(w) = w[1]
         /\ \A i \in DOMAIN Tail(w) : i + 1 \in DOMAIN w /\ Tail(w)[i] = w[i + 1] /\ i + 1 # 1
         /\ \A i, j \in DOMAIN Tail(w) : i + 1 = j + 1 => i = j
OBVIOUS

\* The wire, or a channel, with one more item.
LEMMA AppendFacts ==
  ASSUME NEW T, NEW w \in Seq(T), NEW p \in T
  PROVE  /\ Append(w, p) \in Seq(T)
         /\ \A i \in DOMAIN Append(w, p) :
              \/ i \in DOMAIN w /\ Append(w, p)[i] = w[i]
              \/ i = Len(w) + 1 /\ Append(w, p)[i] = p
<1>1. Append(w, p) \in Seq(T) /\ DOMAIN Append(w, p) = 1..(Len(w) + 1) /\ DOMAIN w = 1..Len(w)
  OBVIOUS
<1>2. \A i \in 1..Len(w) : Append(w, p)[i] = w[i]
  OBVIOUS
<1>3. Append(w, p)[Len(w) + 1] = p
  OBVIOUS
<1>4. Len(w) \in Nat
  OBVIOUS
<1>5. \A i \in 1..(Len(w) + 1) : i \in 1..Len(w) \/ i = Len(w) + 1
  BY <1>4
<1>6. \A i \in 1..(Len(w) + 1) :
        \/ i \in 1..Len(w) /\ Append(w, p)[i] = w[i]
        \/ i = Len(w) + 1 /\ Append(w, p)[i] = p
  <2> TAKE i \in 1..(Len(w) + 1)
  <2>1. CASE i \in 1..Len(w)
    BY <2>1, <1>2, Zenon
  <2>2. CASE i = Len(w) + 1
    BY <2>2, <1>3, Zenon
  <2> QED
    BY <2>1, <2>2, <1>5, Zenon
<1> QED
  BY <1>1, <1>6, Zenon

\* Nothing, as a sequence.
LEMMA NothingFacts == <<>> \in Seq(Delivery) /\ <<>> \in Seq(Packet) /\ DOMAIN <<>> = {}
OBVIOUS

\* What clients have processed only grows.
LEMMA MoreDone ==
  ASSUME NEW w, NEW I, NEW C, NEW P, NEW Q, P \subseteq Q, Answered(w, I, C, P)
  PROVE  Answered(w, I, C, Q)
BY Zenon DEF Answered

\* The wire without its first packet.
LEMMA TailAnswered ==
  ASSUME NEW w \in Seq(Packet), w # <<>>, NEW I, NEW C, NEW P, Answered(w, I, C, P)
  PROVE  Answered(Tail(w), I, C, P)
<1> DEFINE v == Tail(w)
<1>1. \A i \in DOMAIN v : i + 1 \in DOMAIN w /\ v[i] = w[i + 1]
  BY TailFacts
<1>2. \A i, j \in DOMAIN v : i + 1 = j + 1 => i = j
  BY TailFacts
<1> HIDE DEF v
<1>3. ASSUME NEW i \in DOMAIN v, v[i].type = "puback"
      PROVE  /\ \E x \in I : x.pkid = v[i].pkid /\ x.d.uid \in P
             /\ \A x \in C : x.pkid # v[i].pkid
             /\ \A j \in DOMAIN v : v[j].type = "puback" /\ v[j].pkid = v[i].pkid => i = j
  <2>1. i + 1 \in DOMAIN w /\ v[i] = w[i + 1]
    BY <1>1
  <2>2. /\ \E x \in I : x.pkid = v[i].pkid /\ x.d.uid \in P
        /\ \A x \in C : x.pkid # v[i].pkid
    BY <2>1, <1>3, Zenon DEF Answered
  <2>3. ASSUME NEW j \in DOMAIN v, v[j].type = "puback", v[j].pkid = v[i].pkid PROVE i = j
    <3>1. j + 1 \in DOMAIN w /\ v[j] = w[j + 1]
      BY <1>1
    <3>2. i + 1 = j + 1
      BY <2>1, <2>3, <3>1, <1>3, Zenon DEF Answered
    <3> QED
      BY <3>2, <1>2, Zenon
  <2> QED
    BY <2>2, <2>3
<1>4. Answered(v, I, C, P)
  BY <1>3, Zenon DEF Answered
<1> QED
  BY <1>4 DEF v

\* The wire with one more packet that is no PUBACK.
LEMMA AppendAnswered ==
  ASSUME NEW w \in Seq(Packet), NEW p \in Packet, p.type # "puback", NEW I, NEW C, NEW P,
         Answered(w, I, C, P)
  PROVE  Answered(Append(w, p), I, C, P)
<1> DEFINE v == Append(w, p)
<1>1. \A i \in DOMAIN v : (i \in DOMAIN w /\ v[i] = w[i]) \/ v[i] = p
  BY AppendFacts
<1> HIDE DEF v
<1>2. Answered(v, I, C, P)
  BY <1>1, Zenon DEF Answered
<1> QED
  BY <1>2 DEF v

\* The wire with the PUBACK of x, which the client has processed.
LEMMA PubAckAnswered ==
  ASSUME NEW w \in Seq(Packet), NEW p \in Packet, p.type = "puback", NEW I, NEW C, NEW P,
         Answered(w, I, C, P), OneEntry(I), C \subseteq I, NEW x \in C, p.pkid = x.pkid
  PROVE  Answered(Append(w, p), I, C \ {x}, P \cup {x.d.uid})
<1> DEFINE v == Append(w, p)
           n == Len(w) + 1
           D == P \cup {x.d.uid}
<1>1. \A i \in DOMAIN v : (i \in DOMAIN w /\ v[i] = w[i]) \/ (i = n /\ v[i] = p)
  BY AppendFacts
<1>2. x \in I /\ x.d.uid \in D /\ P \subseteq D
  OBVIOUS
<1> HIDE DEF v, n, D
<1>3. ASSUME NEW y \in C, y.pkid = x.pkid PROVE y = x
  BY <1>3, Zenon DEF OneEntry
<1>4. \A i \in DOMAIN w : w[i].type = "puback" => w[i].pkid # p.pkid
  BY Zenon DEF Answered
<1>5. ASSUME NEW i \in DOMAIN v, v[i].type = "puback"
      PROVE  /\ \E y \in I : y.pkid = v[i].pkid /\ y.d.uid \in D
             /\ \A y \in C \ {x} : y.pkid # v[i].pkid
             /\ \A j \in DOMAIN v : v[j].type = "puback" /\ v[j].pkid = v[i].pkid => i = j
  <2>1. CASE i \in DOMAIN w /\ v[i] = w[i]
    <3>1. \E y \in I : y.pkid = v[i].pkid /\ y.d.uid \in D
      BY <2>1, <1>5, <1>2, Zenon DEF Answered
    <3>2. \A y \in C \ {x} : y.pkid # v[i].pkid
      BY <2>1, <1>5, Zenon DEF Answered
    <3>3. \A j \in DOMAIN v : v[j].type = "puback" /\ v[j].pkid = v[i].pkid => i = j
      BY <2>1, <1>1, <1>4, <1>5, Zenon DEF Answered
    <3> QED
      BY <3>1, <3>2, <3>3
  <2>2. CASE i = n /\ v[i] = p
    BY <2>2, <1>1, <1>2, <1>3, <1>4, <1>5, Zenon
  <2> QED
    BY <2>1, <2>2, <1>1, <1>5
<1>6. Answered(v, I, C \ {x}, D)
  BY <1>5, Zenon DEF Answered
<1> QED
  BY <1>6 DEF v, D

\* A PUBACK is handled: its entry leaves the table.
LEMMA HandledAnswered ==
  ASSUME NEW w \in Seq(Packet), w # <<>>, Head(w).type = "puback", NEW I, NEW C, NEW P,
         Answered(w, I, C, P), C \subseteq I
  PROVE  /\ Answered(Tail(w), Others(I, Head(w).pkid), C, P)
         /\ C \subseteq Others(I, Head(w).pkid)
<1> DEFINE v == Tail(w)
           J == Others(I, Head(w).pkid)
<1>1. \A i \in DOMAIN v : i + 1 \in DOMAIN w /\ v[i] = w[i + 1] /\ i + 1 # 1
  BY TailFacts
<1>2. 1 \in DOMAIN w /\ Head(w) = w[1]
  BY TailFacts
<1>3. \A y \in I : y.pkid # Head(w).pkid => y \in J
  BY DEF Others
<1> HIDE DEF v, J
<1>4. \A i \in DOMAIN v : v[i].type = "puback" => v[i].pkid # Head(w).pkid
  BY <1>1, <1>2, Zenon DEF Answered
<1>5. \A y \in C : y.pkid # Head(w).pkid
  BY <1>2, Zenon DEF Answered
<1>6. Answered(v, I, C, P)
  BY TailAnswered DEF v
<1>7. Answered(v, J, C, P)
  BY <1>3, <1>4, <1>6, Zenon DEF Answered
<1>8. C \subseteq J
  BY <1>3, <1>5
<1> QED
  BY <1>7, <1>8 DEF v, J

\* A message is numbered with a packet id that is not in the table.
LEMMA NumberedAnswered ==
  ASSUME NEW w, NEW I, NEW C, NEW P, Answered(w, I, C, P), OneEntry(I), C \subseteq I,
         NEW x, \A y \in I : y.pkid # x.pkid
  PROVE  /\ Answered(w, I \cup {x}, C \cup {x}, P) /\ OneEntry(I \cup {x})
         /\ C \cup {x} \subseteq I \cup {x}
<1>1. Answered(w, I \cup {x}, C \cup {x}, P)
  BY Zenon DEF Answered
<1>2. OneEntry(I \cup {x})
  BY Zenon DEF OneEntry
<1> QED
  BY <1>1, <1>2

-----------------------------------------------------------------------------
(* What a step of one connection has to show *)

\* A step of connection c keeps ConnInv when what it makes of c does.
LEMMA LocalStep ==
  ASSUME IndInv, NEW c \in Conns,
         \A b \in Conns \ {c} : conn'[b] = conn[b],
         NamedIn(conn[c])', reused' \/ Numbering(conn[c])',
         epoch' = epoch, processed \subseteq processed', reused => reused'
  PROVE  ConnInv'
<1> SUFFICES ASSUME NEW b \in Conns, b # c
             PROVE  NamedIn(conn[b])' /\ (reused' \/ Numbering(conn[b])')
  BY DEF ConnInv
<1>1. conn'[b] = conn[b]
  OBVIOUS
<1>2. NamedIn(conn[b]) /\ (reused \/ Numbering(conn[b]))
  BY DEF IndInv, ConnInv
<1>3. NamedIn(conn[b])'
  BY <1>1, <1>2, Zenon DEF NamedIn, Names, IdOf
<1>4. ASSUME Numbering(conn[b]) PROVE Numbering(conn[b])'
  BY <1>1, <1>4, MoreDone, Zenon DEF Numbering
<1> QED
  BY <1>2, <1>3, <1>4

\* A step of connection c that leaves the engine alone.
LEMMA QuietStep ==
  ASSUME IndInv, NEW c \in Conns, UNCHANGED contractVars,
         conn' \in [Conns -> Connection], \A b \in Conns \ {c} : conn'[b] = conn[b],
         NamedIn(conn[c])', reused' \/ Numbering(conn[c])',
         offered' \in Nat, connects' \in Nat, got' \subseteq Nat,
         processed \subseteq processed', processed' \subseteq Nat,
         stranded' \subseteq Nat, reused' \in BOOLEAN, reused => reused'
  PROVE  IndInv'
<1>1. TypeOK'
  BY Types, TypesHold DEF IndInv, contractVars
<1>2. CopiesNamed'
  BY Zenon DEF IndInv, CopiesNamed, contractVars, IdOf
<1>3. ConnInv'
  BY LocalStep DEF contractVars
<1>4. AckedWasProcessed'
  BY DEF IndInv, AckedWasProcessed, contractVars
<1> QED
  BY <1>1, <1>2, <1>3, <1>4 DEF IndInv

\* A step of connection c that calls the engine.
LEMMA EngineStep ==
  ASSUME IndInv, NEW c \in Conns, UNCHANGED hist, UNCHANGED <<safe, epoch>>,
         conn' \in [Conns -> Connection], \A b \in Conns \ {c} : conn'[b] = conn[b],
         NamedIn(conn[c])', reused' \/ Numbering(conn[c])',
         copies' \subseteq Copy, \A m \in copies' : m.id = IdOf(m.uid),
         stored' \subseteq Nat, settled' \subseteq Nat, handed' \subseteq Delivery,
         reused \/ settled' \subseteq processed
  PROVE  IndInv'
<1>1. TypeOK'
  BY Types, TypesHold DEF IndInv, hist
<1>2. CopiesNamed'
  BY Zenon DEF CopiesNamed, IdOf
<1>3. ConnInv'
  BY LocalStep DEF hist
<1>4. AckedWasProcessed'
  BY DEF AckedWasProcessed, hist
<1> QED
  BY <1>1, <1>2, <1>3, <1>4 DEF IndInv

\* What the invariant says of connection c, and the fields of c.
LEMMA Of ==
  ASSUME IndInv, NEW c \in Conns
  PROVE  NamedIn(conn[c]) /\ (reused \/ Numbering(conn[c])) /\ TypeOK /\ conn[c] \in Connection
BY Types DEF IndInv, ConnInv

\* The same deliveries, or fewer, are named.
LEMMA StillNamed ==
  ASSUME NEW c \in Conns, NamedIn(conn[c]), epoch' = epoch,
         conn'[c].hand \subseteq conn[c].hand, conn'[c].channel = conn[c].channel,
         conn'[c].inflight \subseteq conn[c].inflight
  PROVE  NamedIn(conn[c])'
BY Zenon DEF NamedIn, Names, IdOf

\* A packet leaves the wire.
LEMMA WireShrinks ==
  ASSUME IndInv, NEW c \in Conns, conn[c].wire # <<>>, processed' = processed, reused' = reused,
         conn'[c].wire = Tail(conn[c].wire),
         conn'[c].inflight = conn[c].inflight, conn'[c].client = conn[c].client
  PROVE  reused' \/ Numbering(conn[c])'
<1> SUFFICES ASSUME Numbering(conn[c]) PROVE Numbering(conn[c])'
  BY Of
<1>1. conn[c].wire \in Seq(Packet)
  BY Fields DEF IndInv
<1>2. Answered(Tail(conn[c].wire), conn[c].inflight, conn[c].client, processed)
  BY <1>1, TailAnswered, Zenon DEF Numbering
<1> QED
  BY <1>2, Zenon DEF Numbering

\* A packet other than a PUBACK is put on the wire.
LEMMA WireGrows ==
  ASSUME IndInv, NEW c \in Conns, NEW p \in Packet, p.type # "puback",
         processed' = processed, reused' = reused,
         conn'[c].wire = Append(conn[c].wire, p),
         conn'[c].inflight = conn[c].inflight, conn'[c].client = conn[c].client
  PROVE  reused' \/ Numbering(conn[c])'
<1> SUFFICES ASSUME Numbering(conn[c]) PROVE Numbering(conn[c])'
  BY Of
<1>1. conn[c].wire \in Seq(Packet)
  BY Fields DEF IndInv
<1>2. Answered(Append(conn[c].wire, p), conn[c].inflight, conn[c].client, processed)
  BY <1>1, AppendAnswered, Zenon DEF Numbering
<1> QED
  BY <1>2, Zenon DEF Numbering

-----------------------------------------------------------------------------
(* The steps of the client *)

\* listen accepts a connection.
LEMMA AcceptedStep ==
  ASSUME IndInv, NEW c \in Conns, Accepted(c)
  PROVE  IndInv'
<1> DEFINE r == conn[c]
<1>1. conn' = [conn EXCEPT ![c] = [r EXCEPT !.link = "new"]]
  BY DEF Accepted
<1>2. r \in Connection /\ NamedIn(r) /\ (reused \/ Numbering(r))
  BY Of
<1>3. [r EXCEPT !.link = "new"] \in Connection
  BY <1>2 DEF Connection
<1>4. /\ conn' \in [Conns -> Connection] /\ conn'[c] = [r EXCEPT !.link = "new"]
      /\ \A b \in Conns \ {c} : conn'[b] = conn[b]
  BY <1>1, <1>3, Types DEF IndInv
<1>5. /\ conn'[c].hand = r.hand /\ conn'[c].channel = r.channel /\ conn'[c].wire = r.wire
      /\ conn'[c].inflight = r.inflight /\ conn'[c].client = r.client
  BY <1>2, <1>4 DEF Connection
<1>6. UNCHANGED <<contractVars, offered, got, processed, stranded, reused>>
  BY DEF Accepted
<1>7. NamedIn(conn[c])'
  BY <1>2, <1>5, <1>6, StillNamed DEF contractVars
<1>8. reused' \/ Numbering(conn[c])'
  BY <1>2, <1>5, <1>6, Zenon DEF Numbering
<1>9. connects' \in Nat
  BY Types DEF IndInv, Accepted
<1> QED
  BY <1>4, <1>6, <1>7, <1>8, <1>9, Types, QuietStep DEF IndInv

\* A packet that is no PUBACK is put on the wire.
LEMMA PacketStep ==
  ASSUME IndInv, NEW c \in Conns, NEW p \in Packet, p.type # "puback",
         conn' = [conn EXCEPT ![c].wire = Wire(c, p)], offered' \in Nat,
         UNCHANGED <<contractVars, connects, got, processed, stranded, reused>>
  PROVE  IndInv'
<1> DEFINE r == conn[c]
           w == Append(r.wire, p)
<1>1. conn' = [conn EXCEPT ![c] = [r EXCEPT !.wire = w]]
  BY DEF Wire
<1>2. r \in Connection /\ NamedIn(r) /\ (reused \/ Numbering(r))
  BY Of
<1>3. w \in Seq(Packet)
  BY Fields, AppendFacts DEF IndInv
<1> HIDE DEF w
<1>4. [r EXCEPT !.wire = w] \in Connection
  BY <1>2, <1>3 DEF Connection
<1>5. /\ conn' \in [Conns -> Connection] /\ conn'[c] = [r EXCEPT !.wire = w]
      /\ \A b \in Conns \ {c} : conn'[b] = conn[b]
  BY <1>1, <1>4, Types DEF IndInv
<1>6. /\ conn'[c].hand = r.hand /\ conn'[c].channel = r.channel /\ conn'[c].wire = w
      /\ conn'[c].inflight = r.inflight /\ conn'[c].client = r.client
  BY <1>2, <1>5 DEF Connection
<1>7. NamedIn(conn[c])'
  BY <1>2, <1>6, StillNamed DEF contractVars
<1>8. reused' \/ Numbering(conn[c])'
  BY <1>6, WireGrows DEF w
<1> QED
  BY <1>5, <1>7, <1>8, Types, QuietStep DEF IndInv

\* The client sends a packet that does not concern a delivery.
LEMMA SendsStep ==
  ASSUME IndInv, NEW c \in Conns, NEW p \in Packet, p.type # "puback", ClientSends(c, p)
  PROVE  IndInv'
BY PacketStep, Types DEF ClientSends, hist, IndInv

\* The client publishes.
LEMMA PublishesStep ==
  ASSUME IndInv, NEW c \in Conns, NEW q \in Queues, ClientPublishes(c, q)
  PROVE  IndInv'
<1> DEFINE p == [type |-> "publish", queue |-> q, uid |-> offered]
<1>1. offered \in Nat /\ offered' \in Nat
  BY Types DEF IndInv, ClientPublishes
<1>2. p \in Packet /\ p.type # "puback"
  BY <1>1 DEF Packet
<1> QED
  BY <1>1, <1>2, PacketStep DEF ClientPublishes

\* The client has processed x and answers it.
LEMMA PubAcksStep ==
  ASSUME IndInv, NEW c \in Conns, NEW x \in conn[c].client, ClientPubAcks(c, x)
  PROVE  IndInv'
<1> DEFINE r == conn[c]
           p == [type |-> "puback", pkid |-> x.pkid]
           w == Append(r.wire, p)
           C == r.client \ {x}
<1>1. conn' = [conn EXCEPT ![c] = [r EXCEPT !.client = C, !.wire = w]]
  BY DEF ClientPubAcks, Wire
<1>2. r \in Connection /\ NamedIn(r) /\ (reused \/ Numbering(r))
  BY Of
<1>3. x \in Numbered /\ C \subseteq Numbered
  BY Fields DEF IndInv
<1>4. p \in Packet /\ p.type = "puback" /\ p.pkid = x.pkid /\ x.d.uid \in Nat
  BY <1>3 DEF Packet, Numbered, Delivery
<1>5. r.wire \in Seq(Packet)
  BY Fields DEF IndInv
<1>6. w \in Seq(Packet)
  BY <1>4, <1>5, AppendFacts
<1>7. ASSUME Numbering(r)
      PROVE  Answered(w, r.inflight, C, processed \cup {x.d.uid})
  <2> HIDE DEF p
  <2> QED
    BY <1>4, <1>5, <1>7, PubAckAnswered, Zenon DEF Numbering
<1>8. C \subseteq r.client
  OBVIOUS
<1> HIDE DEF w, C
<1>9. [r EXCEPT !.client = C, !.wire = w] \in Connection
  BY <1>2, <1>3, <1>6 DEF Connection
<1>10. /\ conn' \in [Conns -> Connection] /\ conn'[c] = [r EXCEPT !.client = C, !.wire = w]
       /\ \A b \in Conns \ {c} : conn'[b] = conn[b]
  BY <1>1, <1>9, Types DEF IndInv
<1>11. /\ conn'[c].hand = r.hand /\ conn'[c].channel = r.channel /\ conn'[c].wire = w
       /\ conn'[c].inflight = r.inflight /\ conn'[c].client = C
  BY <1>2, <1>10 DEF Connection
<1>12. /\ UNCHANGED <<contractVars, offered, connects, got, stranded, reused>>
       /\ processed' = processed \cup {x.d.uid}
  BY DEF ClientPubAcks
<1>13. NamedIn(conn[c])'
  BY <1>2, <1>11, <1>12, StillNamed DEF contractVars
<1>14. reused' \/ Numbering(conn[c])'
  BY <1>2, <1>7, <1>8, <1>11, <1>12, Zenon DEF Numbering
<1>15. processed \subseteq processed' /\ processed' \subseteq Nat
  BY <1>4, <1>12, Types DEF IndInv
<1> QED
  BY <1>10, <1>12, <1>13, <1>14, <1>15, Types, QuietStep DEF IndInv

-----------------------------------------------------------------------------
(* The steps of the connection *)

\* A closed connection.
LEMMA ClosedFacts == /\ Closed \in Connection /\ NamedIn(Closed) /\ Numbering(Closed)
                     /\ NamedIn(Closed)' /\ Numbering(Closed)'
<1>1. 1 % PkidMod \in 0..(PkidMod - 1)
  BY ConnectionAssumption
<1>2. /\ Closed.hand = {} /\ Closed.channel = <<>> /\ Closed.inflight = {}
      /\ Closed.wire = <<>> /\ Closed.client = {}
  BY DEF Closed
<1>3. Closed \in Connection
  BY <1>1, NothingFacts DEF Closed, Connection
<1>4. NamedIn(Closed) /\ NamedIn(Closed)'
  BY <1>2, NothingFacts DEF NamedIn
<1>5. Numbering(Closed) /\ Numbering(Closed)'
  BY <1>2, NothingFacts DEF Numbering, Answered, OneEntry
<1> QED
  BY <1>3, <1>4, <1>5

\* handle_connection returns.
LEMMA ClosesStep ==
  ASSUME IndInv, NEW c \in Conns, Closes(c)
  PROVE  IndInv'
<1>1. /\ conn' \in [Conns -> Connection] /\ conn'[c] = Closed
      /\ \A b \in Conns \ {c} : conn'[b] = conn[b]
  BY ClosedFacts, Types DEF IndInv, Closes
<1>2. HeldBy(c) \subseteq Delivery
  <2>1. {conn[c].channel[i] : i \in DOMAIN conn[c].channel} \subseteq Delivery
    BY Fields DEF IndInv
  <2>2. {x.d : x \in conn[c].inflight} \subseteq Delivery
    BY Fields DEF IndInv, Numbered
  <2>3. conn[c].hand \subseteq Delivery
    BY Fields DEF IndInv
  <2> QED
    BY <2>1, <2>2, <2>3 DEF HeldBy
<1>3. Tags(HeldBy(c)) \subseteq Nat
  BY <1>2 DEF Tags, Delivery
<1>4. stranded' \subseteq Nat
  BY <1>3, Types DEF IndInv, Closes
<1>5. NamedIn(conn[c])' /\ Numbering(conn[c])'
  BY <1>1, ClosedFacts, Zenon DEF NamedIn, Numbering, Names, IdOf
<1>6. UNCHANGED <<contractVars, offered, connects, got, processed, reused>>
  BY DEF Closes
<1> QED
  BY <1>1, <1>4, <1>5, <1>6, Types, QuietStep DEF IndInv

\* A packet that is no PUBACK is taken from the wire; r is what it makes of
\* the connection.
LEMMA TakesStep ==
  ASSUME IndInv, NEW c \in Conns, NEW r \in Connection, conn[c].wire # <<>>,
         conn' = [conn EXCEPT ![c] = r], r.wire = Tail(conn[c].wire),
         r.hand \subseteq conn[c].hand, r.channel = conn[c].channel,
         r.inflight = conn[c].inflight, r.client = conn[c].client,
         UNCHANGED <<contractVars, offered, connects, got, processed, reused>>,
         stranded' \subseteq Nat
  PROVE  IndInv'
<1>1. /\ conn' \in [Conns -> Connection] /\ conn'[c] = r
      /\ \A b \in Conns \ {c} : conn'[b] = conn[b]
  BY Types DEF IndInv
<1>2. NamedIn(conn[c])'
  BY <1>1, Of, StillNamed DEF contractVars
<1>3. reused' \/ Numbering(conn[c])'
  BY <1>1, WireShrinks
<1> QED
  BY <1>1, <1>2, <1>3, Types, QuietStep DEF IndInv

\* The first packet.
LEMMA FirstStep ==
  ASSUME IndInv, NEW c \in Conns, HandleFirst(c)
  PROVE  IndInv'
<1>1. CASE Closes(c)
  BY <1>1, ClosesStep
<1>2. CASE /\ conn' = [conn EXCEPT ![c].link = "up", ![c].wire = Tail(@)]
           /\ UNCHANGED <<contractVars, hist>>
  <2> DEFINE w == Tail(conn[c].wire)
             r == [conn[c] EXCEPT !.link = "up", !.wire = w]
  <2>1. conn[c].wire # <<>> /\ conn[c] \in Connection
    BY Of DEF HandleFirst
  <2>2. w \in Seq(Packet)
    BY <2>1, Fields, TailFacts DEF IndInv
  <2>3. conn' = [conn EXCEPT ![c] = r]
    BY <1>2
  <2> HIDE DEF w
  <2>4. /\ r \in Connection /\ r.wire = w /\ r.hand = conn[c].hand
        /\ r.channel = conn[c].channel /\ r.inflight = conn[c].inflight
        /\ r.client = conn[c].client
    BY <2>1, <2>2 DEF Connection
  <2> HIDE DEF r
  <2>5. r.wire = Tail(conn[c].wire)
    BY <2>4 DEF w
  <2> QED
    BY <1>2, <2>1, <2>3, <2>4, <2>5, TakesStep, Types DEF hist, IndInv
<1> QED
  BY <1>1, <1>2 DEF HandleFirst

\* SUBSCRIBE.
LEMMA SubscribeStep ==
  ASSUME IndInv, NEW c \in Conns, HandleSubscribe(c)
  PROVE  IndInv'
<1> DEFINE w == Tail(conn[c].wire)
           S == conn[c].pollers \cup Head(conn[c].wire).filters
           r == [conn[c] EXCEPT !.pollers = S, !.wire = w]
<1>1. conn[c].wire # <<>> /\ conn[c] \in Connection
  BY Of DEF HandleSubscribe, Receives
<1>2. w \in Seq(Packet) /\ Head(conn[c].wire) \in Packet
  BY <1>1, Fields, TailFacts DEF IndInv
<1>3. Head(conn[c].wire).filters \subseteq Queues
  <2>1. Head(conn[c].wire).type = "subscribe"
    BY DEF HandleSubscribe, Receives
  <2> QED
    BY <1>2, <2>1 DEF Packet
<1>4. S \subseteq Queues
  BY <1>3, Fields DEF IndInv
<1>5. conn' = [conn EXCEPT ![c] = r]
  BY DEF HandleSubscribe
<1> HIDE DEF w, S
<1>6. /\ r \in Connection /\ r.wire = w /\ r.hand = conn[c].hand
      /\ r.channel = conn[c].channel /\ r.inflight = conn[c].inflight
      /\ r.client = conn[c].client
  BY <1>1, <1>2, <1>4 DEF Connection
<1> HIDE DEF r
<1>7. r.wire = Tail(conn[c].wire)
  BY <1>6 DEF w
<1>8. UNCHANGED <<contractVars, hist>>
  BY DEF HandleSubscribe
<1> QED
  BY <1>1, <1>5, <1>6, <1>7, <1>8, TakesStep, Types DEF hist, IndInv

\* UNSUBSCRIBE.
LEMMA UnsubscribeStep ==
  ASSUME IndInv, NEW c \in Conns, HandleUnsubscribe(c)
  PROVE  IndInv'
<1> DEFINE w == Tail(conn[c].wire)
           T == Head(conn[c].wire).topics
           L == {d \in conn[c].hand : d.queue \in T}
           S == conn[c].pollers \ T
           H == conn[c].hand \ L
           r == [conn[c] EXCEPT !.pollers = S, !.hand = H, !.wire = w]
<1>1. conn[c].wire # <<>> /\ conn[c] \in Connection
  BY Of DEF HandleUnsubscribe, Receives
<1>2. w \in Seq(Packet)
  BY <1>1, Fields, TailFacts DEF IndInv
<1>3. S \subseteq Queues /\ H \subseteq conn[c].hand /\ L \subseteq Delivery /\ H \subseteq Delivery
  BY Fields DEF IndInv
<1>4. conn' = [conn EXCEPT ![c] = r]
  BY DEF HandleUnsubscribe
<1>5. stranded' = stranded \cup Tags(L)
  BY DEF HandleUnsubscribe
<1> HIDE DEF w, S, H, L
<1>6. stranded' \subseteq Nat
  BY <1>3, <1>5, Types DEF IndInv, Tags, Delivery
<1>7. /\ r \in Connection /\ r.wire = w /\ r.hand = H
      /\ r.channel = conn[c].channel /\ r.inflight = conn[c].inflight
      /\ r.client = conn[c].client
  BY <1>1, <1>2, <1>3 DEF Connection
<1> HIDE DEF r
<1>8. r.wire = Tail(conn[c].wire)
  BY <1>7 DEF w
<1>9. UNCHANGED <<contractVars, offered, connects, got, processed, reused>>
  BY DEF HandleUnsubscribe
<1> QED
  BY <1>1, <1>3, <1>4, <1>6, <1>7, <1>8, <1>9, TakesStep

\* PUBLISH, stored or refused.
LEMMA PublishStep ==
  ASSUME IndInv, NEW c \in Conns, HandlePublish(c)
  PROVE  IndInv'
<1> DEFINE p == Head(conn[c].wire)
           w == Tail(conn[c].wire)
           r == [conn[c] EXCEPT !.wire = w]
           m == [place |-> "ready", queue |-> p.queue, id |-> IdOf(p.uid), uid |-> p.uid]
<1>1. conn[c].wire # <<>> /\ conn[c] \in Connection /\ p.type = "publish"
  BY Of DEF HandlePublish, Receives
<1>2. w \in Seq(Packet) /\ p \in Packet
  BY <1>1, Fields, TailFacts DEF IndInv
<1>3. p.queue \in Queues /\ p.uid \in Nat
  BY <1>1, <1>2 DEF Packet
<1>4. m \in Copy /\ m.id = IdOf(m.uid)
  <2>1. IdOf(p.uid) \in Nat
    BY <1>3, Ids DEF IndInv
  <2> QED
    BY <1>3, <2>1 DEF Copy
<1>5. conn' = [conn EXCEPT ![c] = r] /\ UNCHANGED hist
  BY DEF HandlePublish
<1>6. Accept(m) \/ UNCHANGED contractVars
  BY Zenon DEF HandlePublish
<1> HIDE DEF p, w
<1>7. /\ r \in Connection /\ r.wire = w /\ r.hand = conn[c].hand
      /\ r.channel = conn[c].channel /\ r.inflight = conn[c].inflight
      /\ r.client = conn[c].client
  BY <1>1, <1>2 DEF Connection
<1> HIDE DEF r
<1>8. r.wire = Tail(conn[c].wire)
  BY <1>7 DEF w
<1>9. CASE UNCHANGED contractVars
  BY <1>1, <1>5, <1>7, <1>8, <1>9, TakesStep, Types DEF hist, IndInv
<1>10. CASE Accept(m)
  <2>1. m.uid \in Nat
    BY <1>4 DEF Copy
  <2> HIDE DEF m
  <2>2. /\ copies' = copies \cup {m} /\ stored' = stored \cup {m.uid}
        /\ UNCHANGED <<safe, settled, handed, epoch>>
    BY <1>10 DEF Accept
  <2>3. /\ conn' \in [Conns -> Connection] /\ conn'[c] = r
        /\ \A b \in Conns \ {c} : conn'[b] = conn[b]
    BY <1>5, <1>7, Types DEF IndInv
  <2>4. NamedIn(conn[c])'
    BY <1>7, <2>2, <2>3, Of, StillNamed
  <2>5. reused' \/ Numbering(conn[c])'
    BY <1>1, <1>5, <1>7, <1>8, <2>3, WireShrinks DEF hist
  <2>6. copies' \subseteq Copy /\ stored' \subseteq Nat
    BY <1>4, <2>1, <2>2, Types DEF IndInv
  <2>7. \A k \in copies' : k.id = IdOf(k.uid)
    BY <1>4, <2>2, Zenon DEF IndInv, CopiesNamed
  <2>8. /\ settled' \subseteq Nat /\ handed' \subseteq Delivery
        /\ (reused \/ settled' \subseteq processed)
    BY <2>2, Types DEF IndInv, AckedWasProcessed
  <2> QED
    BY <1>5, <2>2, <2>3, <2>4, <2>5, <2>6, <2>7, <2>8, EngineStep
<1> QED
  BY <1>6, <1>9, <1>10

\* PUBACK: the message that it settles is one that the client has processed.
LEMMA PubAckStep ==
  ASSUME IndInv, NEW c \in Conns, HandlePubAck(c)
  PROVE  IndInv'
<1> DEFINE w == Tail(conn[c].wire)
           I == conn[c].inflight
           X == {y \in I : y.pkid = Head(conn[c].wire).pkid}
           J == I \ X
           M == {k \in At("unacked") : k.id \in {y.d.tag : y \in X}}
           r == [conn[c] EXCEPT !.inflight = J, !.wire = w]
<1>1. /\ conn[c].wire # <<>> /\ conn[c] \in Connection /\ Head(conn[c].wire).type = "puback"
      /\ NamedIn(conn[c]) /\ (reused \/ Numbering(conn[c]))
  BY Of DEF HandlePubAck, Receives
<1>2. conn[c].wire \in Seq(Packet) /\ w \in Seq(Packet)
  BY <1>1, Fields, TailFacts DEF IndInv
<1>3. J \subseteq Numbered /\ J \subseteq I /\ I \subseteq Numbered
  BY Fields DEF IndInv
<1>4. conn' = [conn EXCEPT ![c] = r] /\ UNCHANGED hist
  BY DEF HandlePubAck
<1>5. UNCHANGED contractVars \/ \E k \in M : Settle(k)
  BY Zenon DEF HandlePubAck
<1>6. ASSUME Numbering(conn[c])
      PROVE  /\ Answered(w, J, conn[c].client, processed) /\ conn[c].client \subseteq J
             /\ OneEntry(J)
             /\ \A y \in X : y.d.uid \in processed
  <2>1. Answered(conn[c].wire, I, conn[c].client, processed) /\ conn[c].client \subseteq I
        /\ OneEntry(I)
    BY <1>6, Zenon DEF Numbering
  <2>2. Answered(w, J, conn[c].client, processed) /\ conn[c].client \subseteq J
    <3> DEFINE W == conn[c].wire
               C == conn[c].client
    <3>1. /\ W \in Seq(Packet) /\ W # <<>> /\ Head(W).type = "puback"
          /\ Answered(W, I, C, processed) /\ C \subseteq I
      BY <1>1, <1>2, <2>1
    <3>2. J = Others(I, Head(W).pkid) /\ w = Tail(W)
      BY DEF Others
    <3> HIDE DEF W, C, I, X, J, M, r, w
    <3>3. /\ Answered(Tail(W), Others(I, Head(W).pkid), C, processed)
          /\ C \subseteq Others(I, Head(W).pkid)
      BY <3>1, HandledAnswered, Zenon
    <3>4. Answered(w, J, C, processed) /\ C \subseteq J
      BY <3>2, <3>3, Zenon
    <3> QED
      BY <3>4 DEF C
  <2>3. OneEntry(J)
    BY <1>3, <2>1, Zenon DEF OneEntry
  <2>4. 1 \in DOMAIN conn[c].wire /\ Head(conn[c].wire) = conn[c].wire[1]
    BY <1>1, <1>2, TailFacts
  <2>5. PICK z \in I : z.pkid = Head(conn[c].wire).pkid /\ z.d.uid \in processed
    BY <1>1, <2>1, <2>4, Zenon DEF Answered
  <2>6. \A y \in X : y = z
    BY <2>1, <2>5, Zenon DEF OneEntry
  <2> QED
    BY <2>2, <2>3, <2>5, <2>6
<1> HIDE DEF w, J
<1>7. /\ r \in Connection /\ r.wire = w /\ r.hand = conn[c].hand
      /\ r.channel = conn[c].channel /\ r.inflight = J
      /\ r.client = conn[c].client
  BY <1>1, <1>2, <1>3 DEF Connection
<1> HIDE DEF r
<1>8. /\ conn' \in [Conns -> Connection] /\ conn'[c] = r
      /\ \A b \in Conns \ {c} : conn'[b] = conn[b]
  BY <1>4, <1>7, Types DEF IndInv
<1>9. reused' \/ Numbering(conn[c])'
  BY <1>1, <1>4, <1>6, <1>7, <1>8, Zenon DEF Numbering, hist
<1>10. CASE UNCHANGED contractVars
  <2>1. NamedIn(conn[c])'
    BY <1>1, <1>3, <1>7, <1>8, <1>10, StillNamed DEF contractVars
  <2> QED
    BY <1>4, <1>8, <1>9, <1>10, <2>1, Types, QuietStep DEF hist, IndInv
<1>11. CASE \E k \in M : Settle(k)
  <2>1. PICK k \in M : Settle(k)
    BY <1>11
  <2>2. /\ k \in copies /\ copies' = copies \ {k} /\ settled' = settled \cup {k.uid}
        /\ UNCHANGED <<stored, safe, handed, epoch>>
    BY <2>1 DEF Settle, At
  <2>3. NamedIn(conn[c])'
    BY <1>1, <1>3, <1>7, <1>8, <2>2, StillNamed
  <2>4. k.uid \in Nat /\ copies' \subseteq Copy
    BY <2>2, Types DEF IndInv, Copy
  <2>5. PICK y \in X : k.id = y.d.tag
    OBVIOUS
  <2>6. k.id = IdOf(k.uid) /\ y.d.tag = IdOf(y.d.uid)
    BY <1>1, <2>2, Zenon DEF IndInv, CopiesNamed, NamedIn, Names
  <2>7. y.d.uid \in Nat
    BY <1>3 DEF Numbered, Delivery
  <2>8. k.uid = y.d.uid
    BY <2>4, <2>5, <2>6, <2>7, Ids, Zenon DEF IndInv
  <2>9. reused \/ settled' \subseteq processed
    BY <1>1, <1>6, <2>2, <2>8 DEF IndInv, AckedWasProcessed
  <2>10. \A m \in copies' : m.id = IdOf(m.uid)
    BY <2>2, Zenon DEF IndInv, CopiesNamed
  <2>11. settled' \subseteq Nat /\ stored' \subseteq Nat /\ handed' \subseteq Delivery
    BY <2>2, <2>4, Types DEF IndInv
  <2> QED
    BY <1>4, <1>8, <1>9, <2>2, <2>3, <2>4, <2>9, <2>10, <2>11, EngineStep
<1> QED
  BY <1>5, <1>10, <1>11

-----------------------------------------------------------------------------
(* The pollers, the outgoing side and the restart *)

\* A poller consumes a message and has it in hand.
LEMMA ConsumesStep ==
  ASSUME IndInv, NEW c \in Conns, NEW q \in Queues, PollerConsumes(c, q)
  PROVE  IndInv'
<1>1. PICK m \in At("ready") :
        /\ m.queue = q /\ Deliver(m)
        /\ conn' = [conn EXCEPT ![c].hand =
                      @ \cup {[queue |-> q, tag |-> m.id, uid |-> m.uid]}]
  BY DEF PollerConsumes
<1> DEFINE d == [queue |-> q, tag |-> m.id, uid |-> m.uid]
           u == [m EXCEPT !.place = "unacked"]
           H == conn[c].hand \cup {d}
           r == [conn[c] EXCEPT !.hand = H]
<1>2. m \in copies /\ m \in Copy /\ m.id = IdOf(m.uid)
  BY Types DEF At, IndInv, CopiesNamed
<1>3. d \in Delivery /\ Names(d)
  BY <1>2 DEF Copy, Delivery, Names
<1>4. u \in Copy /\ u.id = IdOf(u.uid)
  BY <1>2 DEF Copy
<1>5. H \subseteq Delivery
  BY <1>3, Fields DEF IndInv
<1>6. conn' = [conn EXCEPT ![c] = r] /\ UNCHANGED hist
  BY <1>1 DEF PollerConsumes
<1>7. /\ copies' = (copies \ {m}) \cup {u} /\ handed' = handed \cup {d}
      /\ UNCHANGED <<stored, safe, settled, epoch>>
  BY <1>1 DEF Deliver
<1>8. conn[c] \in Connection /\ NamedIn(conn[c]) /\ (reused \/ Numbering(conn[c]))
  BY Of
<1> HIDE DEF d, u, H
<1>9. /\ r \in Connection /\ r.wire = conn[c].wire /\ r.hand = H
      /\ r.channel = conn[c].channel /\ r.inflight = conn[c].inflight
      /\ r.client = conn[c].client
  BY <1>5, <1>8 DEF Connection
<1> HIDE DEF r
<1>10. /\ conn' \in [Conns -> Connection] /\ conn'[c] = r
       /\ \A b \in Conns \ {c} : conn'[b] = conn[b]
  BY <1>6, <1>9, Types DEF IndInv
<1>11. NamedIn(conn[c])'
  <2>1. \A e \in H : Names(e)
    BY <1>3, <1>8 DEF H, NamedIn
  <2> QED
    BY <1>7, <1>8, <1>9, <1>10, <2>1, Zenon DEF NamedIn, Names, IdOf
<1>12. reused' \/ Numbering(conn[c])'
  BY <1>6, <1>8, <1>9, <1>10, Zenon DEF Numbering, hist
<1>13. copies' \subseteq Copy /\ handed' \subseteq Delivery
  BY <1>3, <1>4, <1>7, Types DEF IndInv
<1>14. \A k \in copies' : k.id = IdOf(k.uid)
  BY <1>4, <1>7, Zenon DEF IndInv, CopiesNamed
<1>15. stored' \subseteq Nat /\ settled' \subseteq Nat /\ (reused \/ settled' \subseteq processed)
  BY <1>7, Types DEF IndInv, AckedWasProcessed
<1> QED
  BY <1>6, <1>7, <1>10, <1>11, <1>12, <1>13, <1>14, <1>15, EngineStep

\* A poller's message goes into the channel.
LEMMA PollerSendsStep ==
  ASSUME IndInv, NEW c \in Conns, NEW q \in Queues, PollerSends(c, q)
  PROVE  IndInv'
<1>1. PICK d \in conn[c].hand :
        conn' = [conn EXCEPT ![c].hand = @ \ {d}, ![c].channel = Append(@, d)]
  BY DEF PollerSends
<1> DEFINE H == conn[c].hand \ {d}
           v == Append(conn[c].channel, d)
           r == [conn[c] EXCEPT !.hand = H, !.channel = v]
<1>2. conn[c] \in Connection /\ NamedIn(conn[c]) /\ (reused \/ Numbering(conn[c]))
  BY Of
<1>3. conn[c].channel \in Seq(Delivery) /\ d \in Delivery /\ H \subseteq Delivery
  BY Fields DEF IndInv
<1>4. v \in Seq(Delivery)
  BY <1>3, AppendFacts
<1>5. \A i \in DOMAIN v : (i \in DOMAIN conn[c].channel /\ v[i] = conn[c].channel[i]) \/ v[i] = d
  BY <1>3, AppendFacts
<1>6. conn' = [conn EXCEPT ![c] = r] /\ UNCHANGED <<contractVars, hist>>
  BY <1>1 DEF PollerSends
<1>7. H \subseteq conn[c].hand
  OBVIOUS
<1> HIDE DEF H, v
<1>8. /\ r \in Connection /\ r.wire = conn[c].wire /\ r.hand = H
      /\ r.channel = v /\ r.inflight = conn[c].inflight /\ r.client = conn[c].client
  BY <1>2, <1>3, <1>4 DEF Connection
<1> HIDE DEF r
<1>9. /\ conn' \in [Conns -> Connection] /\ conn'[c] = r
      /\ \A b \in Conns \ {c} : conn'[b] = conn[b]
  BY <1>6, <1>8, Types DEF IndInv
<1>10. NamedIn(conn[c])'
  <2>1. \A i \in DOMAIN v : Names(v[i])
    BY <1>2, <1>5, Zenon DEF NamedIn
  <2>2. epoch' = epoch
    BY <1>6 DEF contractVars
  <2> QED
    BY <1>2, <1>7, <1>8, <1>9, <2>1, <2>2, Zenon DEF NamedIn, Names, IdOf
<1>11. reused' \/ Numbering(conn[c])'
  BY <1>2, <1>6, <1>8, <1>9, Zenon DEF Numbering, hist
<1> QED
  BY <1>6, <1>9, <1>10, <1>11, Types, QuietStep DEF hist, IndInv

\* The connection numbers a message and writes it.
LEMMA OutgoingStep ==
  ASSUME IndInv, NEW c \in Conns, Outgoing(c)
  PROVE  IndInv'
<1> DEFINE n == conn[c].next_pkid
           d == Head(conn[c].channel)
           x == [pkid |-> n, d |-> d]
           I == conn[c].inflight
           old == {y \in I : y.pkid = n}
           v == Tail(conn[c].channel)
           J == (I \ old) \cup {x}
           C == conn[c].client \cup {x}
           k == NextPkid(n)
           r == [conn[c] EXCEPT !.channel = v, !.next_pkid = k, !.inflight = J, !.client = C]
<1>1. /\ conn[c].channel # <<>> /\ conn[c] \in Connection
      /\ NamedIn(conn[c]) /\ (reused \/ Numbering(conn[c]))
  BY Of DEF Outgoing
<1>2. conn[c].channel \in Seq(Delivery) /\ n \in 0..(PkidMod - 1)
  BY Fields DEF IndInv
<1>3. d \in Delivery /\ v \in Seq(Delivery) /\ Names(d) /\ \A i \in DOMAIN v : Names(v[i])
  <2>1. d \in Delivery /\ v \in Seq(Delivery)
    BY <1>1, <1>2, TailFacts
  <2>2. 1 \in DOMAIN conn[c].channel /\ d = conn[c].channel[1]
    BY <1>1, <1>2, TailFacts
  <2>3. \A i \in DOMAIN v : i + 1 \in DOMAIN conn[c].channel /\ v[i] = conn[c].channel[i + 1]
    BY <1>1, <1>2, TailFacts
  <2> HIDE DEF d, v
  <2> QED
    BY <1>1, <2>1, <2>2, <2>3, Zenon DEF NamedIn
<1>4. k \in 0..(PkidMod - 1)
  BY <1>2, ConnectionAssumption DEF NextPkid
<1>5. /\ conn' = [conn EXCEPT ![c] = r] /\ got' = got \cup {x.d.uid}
      /\ stranded' = stranded \cup {y.d.tag : y \in old} /\ reused' = (reused \/ old # {})
      /\ UNCHANGED <<contractVars, offered, connects, processed>>
  BY DEF Outgoing
<1> HIDE DEF d, v, k
<1>6. x \in Numbered /\ x.d = d /\ x.pkid = n /\ x.d.uid \in Nat
  BY <1>2, <1>3 DEF Numbered, Delivery
<1>7. J \subseteq Numbered /\ C \subseteq Numbered /\ old \subseteq Numbered
  BY <1>6, Fields DEF IndInv
<1>8. got' \subseteq Nat /\ stranded' \subseteq Nat
  BY <1>5, <1>6, <1>7, Types DEF IndInv, Numbered, Delivery
<1>9. \A y \in J : Names(y.d)
  BY <1>1, <1>3, <1>6 DEF NamedIn
<1>10. ASSUME Numbering(conn[c]), old = {}
       PROVE  /\ Answered(conn[c].wire, J, C, processed) /\ OneEntry(J) /\ C \subseteq J
  <2>1. J = I \cup {x} /\ \A y \in I : y.pkid # x.pkid
    BY <1>10, <1>6
  <2>2. Answered(conn[c].wire, I, conn[c].client, processed) /\ OneEntry(I)
        /\ conn[c].client \subseteq I
    BY <1>10, Zenon DEF Numbering
  <2> HIDE DEF x, I, J
  <2> QED
    BY <2>1, <2>2, NumberedAnswered
<1> HIDE DEF x, I, J, C, old
<1>11. /\ r \in Connection /\ r.wire = conn[c].wire /\ r.hand = conn[c].hand
       /\ r.channel = v /\ r.inflight = J /\ r.client = C
  BY <1>1, <1>3, <1>4, <1>7 DEF Connection
<1> HIDE DEF r
<1>12. /\ conn' \in [Conns -> Connection] /\ conn'[c] = r
       /\ \A b \in Conns \ {c} : conn'[b] = conn[b]
  BY <1>5, <1>11, Types DEF IndInv
<1>13. NamedIn(conn[c])'
  <2>1. epoch' = epoch
    BY <1>5 DEF contractVars
  <2> QED
    BY <1>1, <1>3, <1>9, <1>11, <1>12, <2>1, Zenon DEF NamedIn, Names, IdOf
<1>14. reused' \/ Numbering(conn[c])'
  BY <1>1, <1>5, <1>10, <1>11, <1>12, Zenon DEF Numbering
<1>15. reused' \in BOOLEAN /\ (reused => reused')
  BY <1>5, Zenon
<1> QED
  BY <1>5, <1>8, <1>12, <1>13, <1>14, <1>15, Types, QuietStep DEF IndInv

\* The daemon restarts.
LEMMA RestartStep ==
  ASSUME IndInv, Restart
  PROVE  IndInv'
<1> DEFINE N == (epoch + 1) * MaxMessages
<1>1. N \in Nat /\ epoch' \in Nat
  <2>1. epoch + 1 \in Nat /\ MaxMessages \in Nat
    BY Types, ConnectionAssumption DEF IndInv
  <2>2. N \in Nat
    BY <2>1, ProductNat, Zenon
  <2> QED
    BY <2>1, <2>2 DEF Restart
<1>2. /\ copies' = {[m EXCEPT !.place = "ready", !.id = N + m.uid] : m \in copies}
      /\ UNCHANGED <<stored, safe, settled, handed, offered, connects, got, processed, reused>>
      /\ stranded' = {} /\ conn' = [c \in Conns |-> Closed]
  BY DEF Restart
<1>3. \A u : IdOf(u)' = N + u
  BY DEF IdOf, Restart
<1> HIDE DEF N
<1>4. \A k \in copies' : k \in Copy /\ k.id = N + k.uid
  <2> TAKE k \in copies'
  <2>1. PICK m \in copies : k = [m EXCEPT !.place = "ready", !.id = N + m.uid]
    BY <1>2
  <2>2. m \in Copy
    BY Types DEF IndInv
  <2>3. m.uid \in Nat /\ m.queue \in Queues
    BY <2>2 DEF Copy
  <2>4. N + m.uid \in Nat
    BY <1>1, <2>3
  <2> DEFINE i == N + m.uid
  <2>5. k = [m EXCEPT !.place = "ready", !.id = i] /\ i \in Nat
    BY <2>1, <2>4
  <2>6. i = N + m.uid
    OBVIOUS
  <2> HIDE DEF i
  <2>7. k \in Copy /\ k.id = i /\ k.uid = m.uid
    BY <2>2, <2>5 DEF Copy
  <2> QED
    BY <2>6, <2>7
<1>5. conn' \in [Conns -> Connection] /\ \A c \in Conns : conn'[c] = Closed
  BY <1>2, ClosedFacts
<1>6. TypeOK'
  BY <1>1, <1>2, <1>4, <1>5, Types, TypesHold DEF IndInv
<1>7. CopiesNamed'
  BY <1>3, <1>4, Zenon DEF CopiesNamed
<1>8. ConnInv'
  <2> SUFFICES ASSUME NEW c \in Conns PROVE NamedIn(conn[c])' /\ Numbering(conn[c])'
    BY DEF ConnInv
  <2> QED
    BY <1>5, ClosedFacts, Zenon DEF NamedIn, Numbering, Names, IdOf
<1>9. AckedWasProcessed'
  BY <1>2 DEF IndInv, AckedWasProcessed
<1> QED
  BY <1>6, <1>7, <1>8, <1>9 DEF IndInv

-----------------------------------------------------------------------------
(* Who holds a message *)

HandTags(r) == {d.tag : d \in r.hand}
ChannelTags(r) == {r.channel[i].tag : i \in DOMAIN r.channel}
TableTags(r) == {x.d.tag : x \in r.inflight}

\* The tags that a connection in state r holds.
TagsOf(r) == HandTags(r) \cup ChannelTags(r) \cup TableTags(r)

\* A connection in state r holds no tag twice and uses no packet id twice.
Apart(r) ==
  /\ \A d, e \in r.hand : d.tag = e.tag => d = e
  /\ \A i, j \in DOMAIN r.channel : r.channel[i].tag = r.channel[j].tag => i = j
  /\ \A x, y \in r.inflight : x.d.tag = y.d.tag => x = y
  /\ OneEntry(r.inflight)
  /\ \A t \in HandTags(r) : t \notin ChannelTags(r) /\ t \notin TableTags(r)
  /\ \A t \in ChannelTags(r) : t \notin TableTags(r)

\* The tags in flight in the engine.
Waiting == {m.id : m \in At("unacked")}

\* One copy of a message at most is stored.
Single ==
  /\ \A m, n \in copies : m.uid = n.uid => m = n
  /\ \A m \in copies : m.uid \in stored

\* What is in flight is held by one connection or stranded, and nothing else
\* is.
Accounted ==
  /\ \A b, c \in Conns : \A t \in TagsOf(conn[b]) : t \in TagsOf(conn[c]) => b = c
  /\ \A c \in Conns : \A t \in TagsOf(conn[c]) : t \in Waiting /\ t \notin stranded
  /\ \A t \in stranded : t \in Waiting
  /\ \A t \in Waiting : t \in stranded \/ \E c \in Conns : t \in TagsOf(conn[c])

HoldInv == Single /\ (\A c \in Conns : Apart(conn[c])) /\ Accounted

\* HeldBy, by tags.
LEMMA HeldTags ==
  ASSUME NEW c \in Conns
  PROVE  Tags(HeldBy(c)) = TagsOf(conn[c])
<1> DEFINE D == {conn[c].channel[i] : i \in DOMAIN conn[c].channel}
           X == {x.d : x \in conn[c].inflight}
<1>1. Tags(conn[c].hand) = HandTags(conn[c])
  BY Zenon DEF Tags, HandTags
<1>2. Tags(D) = ChannelTags(conn[c])
  BY DEF Tags, ChannelTags
<1>3. Tags(X) = TableTags(conn[c])
  BY DEF Tags, TableTags
<1>4. HeldBy(c) = conn[c].hand \cup D \cup X
  BY DEF HeldBy
<1> HIDE DEF D, X
<1>5. Tags(conn[c].hand \cup D \cup X) = Tags(conn[c].hand) \cup Tags(D) \cup Tags(X)
  BY DEF Tags
<1> QED
  BY <1>1, <1>2, <1>3, <1>4, <1>5, Zenon DEF TagsOf

\* What a connection holds is decided by its hands, channel and table.
LEMMA SameHeld ==
  ASSUME NEW r, NEW s, r.hand = s.hand, r.channel = s.channel, r.inflight = s.inflight,
         Apart(s)
  PROVE  Apart(r) /\ TagsOf(r) = TagsOf(s)
<1>1. HandTags(r) = HandTags(s) /\ ChannelTags(r) = ChannelTags(s) /\ TableTags(r) = TableTags(s)
  BY Zenon DEF HandTags, ChannelTags, TableTags
<1> QED
  BY <1>1, Zenon DEF Apart, TagsOf

\* A step of connection c after which L is stranded.
LEMMA Stranding ==
  ASSUME HoldInv, NEW c \in Conns, NEW L, \A b \in Conns \ {c} : conn'[b] = conn[b],
         Single', Waiting' = Waiting, stranded' = stranded \cup L,
         L \subseteq TagsOf(conn[c]), TagsOf(conn'[c]) = TagsOf(conn[c]) \ L, Apart(conn'[c])
  PROVE  HoldInv'
<1>1. \A b \in Conns : TagsOf(conn'[b]) \subseteq TagsOf(conn[b])
  <2> TAKE b \in Conns
  <2>1. CASE b = c
    BY <2>1, Zenon
  <2>2. CASE b # c
    BY <2>2, Zenon
  <2> QED
    BY <2>1, <2>2
<1>2. \A b \in Conns : Apart(conn'[b])
  BY Zenon DEF HoldInv
<1>3. Accounted
  BY DEF HoldInv
<1>4. \A a, b \in Conns : \A t \in TagsOf(conn'[a]) : t \in TagsOf(conn'[b]) => a = b
  BY <1>1, <1>3, Zenon DEF Accounted
<1>5. \A b \in Conns : \A t \in TagsOf(conn'[b]) : t \in Waiting' /\ t \notin stranded'
  <2> TAKE b \in Conns
  <2> TAKE t \in TagsOf(conn'[b])
  <2>1. t \in Waiting /\ t \notin stranded
    BY <1>1, <1>3, Zenon DEF Accounted
  <2>2. t \notin L
    <3>1. CASE b = c
      BY <3>1
    <3>2. CASE b # c
      BY <1>1, <1>3, <3>2, Zenon DEF Accounted
    <3> QED
      BY <3>1, <3>2
  <2> QED
    BY <2>1, <2>2
<1>6. \A t \in stranded' : t \in Waiting'
  BY <1>3, Zenon DEF Accounted
<1>7. \A t \in Waiting' : t \in stranded' \/ \E b \in Conns : t \in TagsOf(conn'[b])
  <2> TAKE t \in Waiting'
  <2>1. SUFFICES ASSUME t \notin stranded, t \notin L
                 PROVE  \E b \in Conns : t \in TagsOf(conn'[b])
    BY Zenon
  <2>2. PICK b \in Conns : t \in TagsOf(conn[b])
    BY <1>3, <2>1, Zenon DEF Accounted
  <2>3. t \in TagsOf(conn'[b])
    <3>1. CASE b = c
      BY <2>1, <2>2, <3>1, Zenon
    <3>2. CASE b # c
      BY <2>2, <3>2, Zenon
    <3> QED
      BY <3>1, <3>2
  <2> QED
    BY <2>3
<1> QED
  BY <1>2, <1>4, <1>5, <1>6, <1>7, Zenon DEF HoldInv, Accounted

\* A step that moves no delivery and neither hands out nor settles a message.
LEMMA NothingMoves ==
  ASSUME HoldInv, stranded' = stranded, Single', Waiting' = Waiting,
         \A b \in Conns : /\ conn'[b].hand = conn[b].hand /\ conn'[b].channel = conn[b].channel
                          /\ conn'[b].inflight = conn[b].inflight
  PROVE  HoldInv'
<1>1. \A b \in Conns : Apart(conn'[b]) /\ TagsOf(conn'[b]) = TagsOf(conn[b])
  BY SameHeld, Zenon DEF HoldInv
<1>2. Accounted'
  BY <1>1, Zenon DEF HoldInv, Accounted
<1> QED
  BY <1>1, <1>2, Zenon DEF HoldInv

\* A step of connection c that takes a message with tag t from the engine.
LEMMA Taking ==
  ASSUME HoldInv, NEW c \in Conns, NEW t, \A b \in Conns \ {c} : conn'[b] = conn[b],
         Single', t \notin Waiting, Waiting' = Waiting \cup {t}, stranded' = stranded,
         TagsOf(conn'[c]) = TagsOf(conn[c]) \cup {t}, Apart(conn'[c])
  PROVE  HoldInv'
<1>1. \A b \in Conns : Apart(conn'[b])
  BY Zenon DEF HoldInv
<1>2. Accounted
  BY DEF HoldInv
<1>3. /\ t \notin stranded
      /\ \A b \in Conns : t \notin TagsOf(conn[b])
  BY <1>2, Zenon DEF Accounted
<1>4. \A b \in Conns : \A u : u \in TagsOf(conn'[b]) => u \in TagsOf(conn[b]) \/ (b = c /\ u = t)
  <2> TAKE b \in Conns
  <2> TAKE u
  <2>1. CASE b = c
    BY <2>1, Zenon
  <2>2. CASE b # c
    BY <2>2, Zenon
  <2> QED
    BY <2>1, <2>2
<1>5. \A b \in Conns : TagsOf(conn[b]) \subseteq TagsOf(conn'[b])
  <2> TAKE b \in Conns
  <2>1. CASE b = c
    BY <2>1, Zenon
  <2>2. CASE b # c
    BY <2>2, Zenon
  <2> QED
    BY <2>1, <2>2
<1>6. \A a, b \in Conns : \A u \in TagsOf(conn'[a]) : u \in TagsOf(conn'[b]) => a = b
  <2> TAKE a, b \in Conns
  <2> TAKE u \in TagsOf(conn'[a])
  <2> HAVE u \in TagsOf(conn'[b])
  <2>1. CASE u = t
    <3>1. a = c
      BY <1>3, <1>4, <2>1, Zenon
    <3>2. b = c
      BY <1>3, <1>4, <2>1, Zenon
    <3> QED
      BY <3>1, <3>2
  <2>2. CASE u # t
    <3>1. u \in TagsOf(conn[a])
      BY <1>4, <2>2, Zenon
    <3>2. u \in TagsOf(conn[b])
      BY <1>4, <2>2, Zenon
    <3> QED
      BY <1>2, <3>1, <3>2, Zenon DEF Accounted
  <2> QED
    BY <2>1, <2>2
<1>7. \A b \in Conns : \A u \in TagsOf(conn'[b]) : u \in Waiting' /\ u \notin stranded'
  BY <1>2, <1>3, <1>4, Zenon DEF Accounted
<1>8. \A u \in stranded' : u \in Waiting'
  BY <1>2, Zenon DEF Accounted
<1>9. \A u \in Waiting' : u \in stranded' \/ \E b \in Conns : u \in TagsOf(conn'[b])
  <2> TAKE u \in Waiting'
  <2>1. CASE u = t
    BY <2>1, Zenon
  <2>2. CASE u \in Waiting
    BY <2>2, <1>2, <1>5, Zenon DEF Accounted
  <2> QED
    BY <2>1, <2>2
<1> QED
  BY <1>1, <1>6, <1>7, <1>8, <1>9, Zenon DEF HoldInv, Accounted

\* A step of connection c that settles the message with tag t, which it holds.
LEMMA Settling ==
  ASSUME HoldInv, NEW c \in Conns, NEW t, \A b \in Conns \ {c} : conn'[b] = conn[b],
         Single', t \in TagsOf(conn[c]), Waiting' = Waiting \ {t}, stranded' = stranded,
         TagsOf(conn'[c]) = TagsOf(conn[c]) \ {t}, Apart(conn'[c])
  PROVE  HoldInv'
<1>1. \A b \in Conns : Apart(conn'[b])
  BY Zenon DEF HoldInv
<1>2. Accounted
  BY DEF HoldInv
<1>3. /\ t \notin stranded
      /\ \A b \in Conns : t \in TagsOf(conn[b]) => b = c
  BY <1>2, Zenon DEF Accounted
<1>4. \A b \in Conns : \A u : u \in TagsOf(conn'[b]) <=> u \in TagsOf(conn[b]) /\ u # t
  <2> TAKE b \in Conns
  <2> TAKE u
  <2>1. CASE b = c
    BY <2>1, Zenon
  <2>2. CASE b # c
    BY <1>3, <2>2, Zenon
  <2> QED
    BY <2>1, <2>2
<1>5. \A a, b \in Conns : \A u \in TagsOf(conn'[a]) : u \in TagsOf(conn'[b]) => a = b
  BY <1>2, <1>4, Zenon DEF Accounted
<1>6. \A b \in Conns : \A u \in TagsOf(conn'[b]) : u \in Waiting' /\ u \notin stranded'
  BY <1>2, <1>4, Zenon DEF Accounted
<1>7. \A u \in stranded' : u \in Waiting'
  BY <1>2, <1>3, Zenon DEF Accounted
<1>8. \A u \in Waiting' : u \in stranded' \/ \E b \in Conns : u \in TagsOf(conn'[b])
  BY <1>2, <1>4, Zenon DEF Accounted
<1> QED
  BY <1>1, <1>5, <1>6, <1>7, <1>8, Zenon DEF HoldInv, Accounted

\* A step that only changes links, wires, subscriptions and what clients have
\* still to answer.
LEMMA QuietHeld ==
  ASSUME HoldInv, NEW c \in Conns, NEW r, conn \in [Conns -> Connection],
         conn' = [conn EXCEPT ![c] = r], r.hand = conn[c].hand,
         r.channel = conn[c].channel, r.inflight = conn[c].inflight,
         stranded' = stranded, Single', Waiting' = Waiting
  PROVE  HoldInv'
<1>1. conn'[c] = r /\ \A b \in Conns \ {c} : conn'[b] = conn[b]
  OBVIOUS
<1>2. \A b \in Conns : /\ conn'[b].hand = conn[b].hand /\ conn'[b].channel = conn[b].channel
                       /\ conn'[b].inflight = conn[b].inflight
  BY <1>1, Zenon
<1> QED
  BY <1>2, NothingMoves

\* The engine is left alone.
LEMMA EngineAlone ==
  ASSUME HoldInv, UNCHANGED contractVars
  PROVE  Single' /\ Waiting' = Waiting
<1>1. copies' = copies /\ stored' = stored
  BY DEF contractVars
<1> QED
  BY <1>1, Zenon DEF HoldInv, Single, Waiting, At

\* The steps of a client move no delivery.
LEMMA ClientHolds ==
  ASSUME IndInv, HoldInv, NEW c \in Conns, ClientNext(c)
  PROVE  HoldInv'
<1>1. conn[c] \in Connection /\ conn \in [Conns -> Connection]
  BY Types DEF IndInv
<1>2. ASSUME UNCHANGED <<contractVars, stranded>>, NEW r, conn' = [conn EXCEPT ![c] = r],
             r.hand = conn[c].hand, r.channel = conn[c].channel, r.inflight = conn[c].inflight
      PROVE  HoldInv'
  BY <1>1, <1>2, QuietHeld, EngineAlone
<1>3. CASE Accepted(c)
  <2> DEFINE r == [conn[c] EXCEPT !.link = "new"]
  <2>1. conn' = [conn EXCEPT ![c] = r] /\ UNCHANGED <<contractVars, stranded>>
    BY <1>3 DEF Accepted
  <2>2. r.hand = conn[c].hand /\ r.channel = conn[c].channel /\ r.inflight = conn[c].inflight
    BY <1>1 DEF Connection
  <2> QED
    BY <1>2, <2>1, <2>2
<1>4. ASSUME NEW w, UNCHANGED <<contractVars, stranded>>,
             conn' = [conn EXCEPT ![c].wire = w]
      PROVE  HoldInv'
  <2> DEFINE r == [conn[c] EXCEPT !.wire = w]
  <2>1. conn' = [conn EXCEPT ![c] = r]
    BY <1>4
  <2>2. r.hand = conn[c].hand /\ r.channel = conn[c].channel /\ r.inflight = conn[c].inflight
    BY <1>1 DEF Connection
  <2> QED
    BY <1>2, <1>4, <2>1, <2>2
<1>5. ASSUME NEW p, ClientSends(c, p) PROVE HoldInv'
  BY <1>4, <1>5 DEF ClientSends, hist
<1>6. ASSUME NEW q \in Queues, ClientPublishes(c, q) PROVE HoldInv'
  BY <1>4, <1>6 DEF ClientPublishes
<1>7. ASSUME NEW x \in conn[c].client, ClientPubAcks(c, x) PROVE HoldInv'
  <2> DEFINE w == Wire(c, [type |-> "puback", pkid |-> x.pkid])
             C == conn[c].client \ {x}
             r == [conn[c] EXCEPT !.client = C, !.wire = w]
  <2>1. conn' = [conn EXCEPT ![c] = r] /\ UNCHANGED <<contractVars, stranded>>
    BY <1>7 DEF ClientPubAcks
  <2> HIDE DEF w, C
  <2>2. r.hand = conn[c].hand /\ r.channel = conn[c].channel /\ r.inflight = conn[c].inflight
    BY <1>1 DEF Connection
  <2> QED
    BY <1>2, <2>1, <2>2
<1> QED
  BY <1>3, <1>5, <1>6, <1>7, Zenon DEF ClientNext

\* A closed connection holds nothing.
LEMMA ClosedHolds == Apart(Closed) /\ TagsOf(Closed) = {}
<1>1. Closed.hand = {} /\ Closed.channel = <<>> /\ Closed.inflight = {}
  BY DEF Closed
<1>2. HandTags(Closed) = {} /\ ChannelTags(Closed) = {} /\ TableTags(Closed) = {}
  BY <1>1, NothingFacts DEF HandTags, ChannelTags, TableTags
<1> QED
  BY <1>1, <1>2, NothingFacts DEF Apart, TagsOf, OneEntry

\* What a connection held when it closes is stranded.
LEMMA ClosesHolds ==
  ASSUME IndInv, HoldInv, NEW c \in Conns, Closes(c)
  PROVE  HoldInv'
<1>1. conn'[c] = Closed /\ \A b \in Conns \ {c} : conn'[b] = conn[b]
  BY Types DEF IndInv, Closes
<1>2. stranded' = stranded \cup TagsOf(conn[c]) /\ UNCHANGED contractVars
  BY HeldTags, Zenon DEF Closes
<1>3. TagsOf(conn'[c]) = TagsOf(conn[c]) \ TagsOf(conn[c]) /\ Apart(conn'[c])
  BY <1>1, ClosedHolds
<1> QED
  BY <1>1, <1>2, <1>3, EngineAlone, Stranding

\* The first packet and SUBSCRIBE move no delivery, unless the connection is
\* closed.
LEMMA FirstHolds ==
  ASSUME IndInv, HoldInv, NEW c \in Conns, HandleFirst(c) \/ HandleSubscribe(c)
  PROVE  HoldInv'
<1>1. conn[c] \in Connection /\ conn \in [Conns -> Connection]
  BY Types DEF IndInv
<1>2. CASE HandleFirst(c) /\ ~Closes(c)
  <2> DEFINE w == Tail(conn[c].wire)
             r == [conn[c] EXCEPT !.link = "up", !.wire = w]
  <2>1. conn' = [conn EXCEPT ![c] = r] /\ UNCHANGED <<contractVars, stranded>>
    BY <1>2 DEF HandleFirst, hist
  <2> HIDE DEF w
  <2>2. r.hand = conn[c].hand /\ r.channel = conn[c].channel /\ r.inflight = conn[c].inflight
    BY <1>1 DEF Connection
  <2> QED
    BY <1>1, <2>1, <2>2, QuietHeld, EngineAlone
<1>3. CASE HandleSubscribe(c)
  <2> DEFINE w == Tail(conn[c].wire)
             S == conn[c].pollers \cup Head(conn[c].wire).filters
             r == [conn[c] EXCEPT !.pollers = S, !.wire = w]
  <2>1. conn' = [conn EXCEPT ![c] = r] /\ UNCHANGED <<contractVars, stranded>>
    BY <1>3 DEF HandleSubscribe, hist
  <2> HIDE DEF w, S
  <2>2. r.hand = conn[c].hand /\ r.channel = conn[c].channel /\ r.inflight = conn[c].inflight
    BY <1>1 DEF Connection
  <2> QED
    BY <1>1, <2>1, <2>2, QuietHeld, EngineAlone
<1> QED
  BY <1>2, <1>3, ClosesHolds

\* What the hands of the aborted pollers held is stranded.
LEMMA UnsubscribeHolds ==
  ASSUME IndInv, HoldInv, NEW c \in Conns, HandleUnsubscribe(c)
  PROVE  HoldInv'
<1> DEFINE w == Tail(conn[c].wire)
           T == Head(conn[c].wire).topics
           L == {d \in conn[c].hand : d.queue \in T}
           S == conn[c].pollers \ T
           H == conn[c].hand \ L
           r == [conn[c] EXCEPT !.pollers = S, !.hand = H, !.wire = w]
<1>1. conn[c] \in Connection /\ conn \in [Conns -> Connection]
  BY Types DEF IndInv
<1>2. /\ conn' = [conn EXCEPT ![c] = r] /\ stranded' = stranded \cup Tags(L)
      /\ UNCHANGED contractVars
  BY DEF HandleUnsubscribe
<1>3. L \subseteq conn[c].hand
  OBVIOUS
<1> HIDE DEF w, S, T, L
<1>4. r.hand = H /\ r.channel = conn[c].channel /\ r.inflight = conn[c].inflight
  BY <1>1 DEF Connection
<1>5. conn'[c] = r /\ \A b \in Conns \ {c} : conn'[b] = conn[b]
  BY <1>1, <1>2
<1> HIDE DEF r
<1>6. Apart(conn[c])
  BY DEF HoldInv
<1>7. Tags(L) \subseteq HandTags(conn[c]) /\ HandTags(r) = HandTags(conn[c]) \ Tags(L)
  <2>1. \A d, e \in conn[c].hand : d.tag = e.tag => d = e
    BY <1>6, Zenon DEF Apart
  <2> QED
    BY <1>3, <1>4, <2>1 DEF HandTags, Tags
<1>8. ChannelTags(r) = ChannelTags(conn[c]) /\ TableTags(r) = TableTags(conn[c])
  BY <1>4, Zenon DEF ChannelTags, TableTags
<1>9. Apart(r)
  <2>1. H \subseteq conn[c].hand
    OBVIOUS
  <2>2. HandTags(r) \subseteq HandTags(conn[c])
    BY <1>7
  <2> QED
    BY <1>4, <1>6, <1>8, <2>1, <2>2, Zenon DEF Apart
<1>10. Tags(L) \subseteq TagsOf(conn[c]) /\ TagsOf(r) = TagsOf(conn[c]) \ Tags(L)
  <2>1. \A t \in HandTags(conn[c]) : t \notin ChannelTags(conn[c]) /\ t \notin TableTags(conn[c])
    BY <1>6, Zenon DEF Apart
  <2> QED
    BY <1>7, <1>8, <2>1 DEF TagsOf
<1> QED
  BY <1>2, <1>5, <1>9, <1>10, EngineAlone, Stranding

\* Two copies have two ids.
LEMMA IdsApart ==
  ASSUME IndInv, HoldInv, NEW m \in copies, NEW n \in copies, m.id = n.id
  PROVE  m = n
<1>1. m.uid \in Nat /\ n.uid \in Nat
  BY Types DEF IndInv, Copy
<1>2. m.id = IdOf(m.uid) /\ n.id = IdOf(n.uid)
  BY Zenon DEF IndInv, CopiesNamed
<1>3. m.uid = n.uid
  BY <1>1, <1>2, Ids, Zenon DEF IndInv
<1> QED
  BY <1>3, Zenon DEF HoldInv, Single

\* PUBLISH: what the engine stores is in flight nowhere.
LEMMA PublishHolds ==
  ASSUME IndInv, HoldInv, NEW c \in Conns, HandlePublish(c)
  PROVE  HoldInv'
<1> DEFINE p == Head(conn[c].wire)
           w == Tail(conn[c].wire)
           r == [conn[c] EXCEPT !.wire = w]
           m == [place |-> "ready", queue |-> p.queue, id |-> IdOf(p.uid), uid |-> p.uid]
<1>1. conn[c] \in Connection /\ conn \in [Conns -> Connection]
  BY Types DEF IndInv
<1>2. conn' = [conn EXCEPT ![c] = r] /\ stranded' = stranded
  BY DEF HandlePublish, hist
<1>3. Accept(m) \/ UNCHANGED contractVars
  BY Zenon DEF HandlePublish
<1>4. m.place = "ready"
  OBVIOUS
<1> HIDE DEF p, w, m
<1>5. r.hand = conn[c].hand /\ r.channel = conn[c].channel /\ r.inflight = conn[c].inflight
  BY <1>1 DEF Connection
<1>6. ASSUME Accept(m) PROVE Single' /\ Waiting' = Waiting
  <2>1. copies' = copies \cup {m} /\ stored' = stored \cup {m.uid} /\ m.uid \notin stored
    BY <1>6, Zenon DEF Accept
  <2>2. Single'
    BY <2>1, Zenon DEF HoldInv, Single
  <2>3. Waiting' = Waiting
    BY <1>4, <2>1 DEF Waiting, At
  <2> QED
    BY <2>2, <2>3
<1> QED
  BY <1>1, <1>2, <1>3, <1>5, <1>6, EngineAlone, QuietHeld

\* PUBACK: the entry of the table goes, and with it the message it names.
LEMMA PubAckHolds ==
  ASSUME IndInv, HoldInv, NEW c \in Conns, HandlePubAck(c)
  PROVE  HoldInv'
<1> DEFINE w == Tail(conn[c].wire)
           I == conn[c].inflight
           X == {y \in I : y.pkid = Head(conn[c].wire).pkid}
           J == I \ X
           M == {k \in At("unacked") : k.id \in {y.d.tag : y \in X}}
           r == [conn[c] EXCEPT !.inflight = J, !.wire = w]
<1>1. conn[c] \in Connection /\ conn \in [Conns -> Connection]
  BY Types DEF IndInv
<1>2. conn' = [conn EXCEPT ![c] = r] /\ stranded' = stranded
  BY DEF HandlePubAck, hist
<1>3. IF M = {} THEN UNCHANGED contractVars ELSE \E k \in M : Settle(k)
  BY Zenon DEF HandlePubAck
<1>4. \A x, y \in X : x \in I /\ x.pkid = y.pkid
  BY Zenon
<1> HIDE DEF w, J
<1>5. r.hand = conn[c].hand /\ r.channel = conn[c].channel /\ r.inflight = J
  BY <1>1 DEF Connection
<1>6. conn'[c] = r /\ \A b \in Conns \ {c} : conn'[b] = conn[b]
  BY <1>1, <1>2
<1>7. Apart(conn[c])
  BY DEF HoldInv
<1>8. CASE X = {}
  <2>1. M = {} /\ J = I
    BY <1>8 DEF J
  <2> QED
    BY <1>1, <1>2, <1>3, <1>5, <2>1, EngineAlone, QuietHeld
<1>9. CASE X # {}
  <2>1. PICK y \in X : TRUE
    BY <1>9
  <2>2. X = {y}
    BY <1>4, <1>7, <2>1 DEF Apart, OneEntry
  <2>3. y \in I
    BY <1>4, <2>1, Zenon
  <2> HIDE DEF X
  <2>4. y.d.tag \in TableTags(conn[c])
    BY <2>3, Zenon DEF TableTags
  <2>5. y.d.tag \in Waiting /\ y.d.tag \in TagsOf(conn[c])
    BY <2>4, Zenon DEF TagsOf, HoldInv, Accounted
  <2>6. PICK n \in At("unacked") : n.id = y.d.tag
    BY <2>5, Zenon DEF Waiting
  <2>7. n \in M
    BY <2>1, <2>6, Zenon
  <2>8. PICK k \in M : Settle(k)
    BY <1>3, <2>7, Zenon
  <2>9. k.id = y.d.tag /\ k \in copies
    BY <2>2, <2>8 DEF At
  <2>10. copies' = copies \ {k} /\ stored' = stored
    BY <2>8 DEF Settle
  <2> HIDE DEF M
  <2>11. Single'
    BY <2>10, Zenon DEF HoldInv, Single
  <2>12. Waiting' = Waiting \ {y.d.tag}
    <3>1. \A m \in copies : m.id = k.id => m = k
      BY <2>9, IdsApart, Zenon
    <3> QED
      BY <2>9, <2>10, <3>1 DEF Waiting, At
  <2>13. TableTags(r) = TableTags(conn[c]) \ {y.d.tag}
    <3>1. \A x \in I : x.d.tag = y.d.tag => x = y
      BY <1>7, <2>3, Zenon DEF Apart
    <3>2. J = I \ {y}
      BY <2>2 DEF J
    <3> QED
      BY <1>5, <3>1, <3>2 DEF TableTags
  <2>14. HandTags(r) = HandTags(conn[c]) /\ ChannelTags(r) = ChannelTags(conn[c])
    BY <1>5, Zenon DEF ChannelTags, HandTags
  <2>15. Apart(r)
    <3>1. J \subseteq I
      BY DEF J
    <3>2. TableTags(r) \subseteq TableTags(conn[c])
      BY <2>13
    <3> QED
      BY <1>5, <1>7, <2>14, <3>1, <3>2, Zenon DEF Apart, OneEntry
  <2>16. TagsOf(r) = TagsOf(conn[c]) \ {y.d.tag}
    <3>1. /\ \A t \in HandTags(conn[c]) : t \notin TableTags(conn[c])
          /\ \A t \in ChannelTags(conn[c]) : t \notin TableTags(conn[c])
      BY <1>7, Zenon DEF Apart
    <3> QED
      BY <2>4, <2>13, <2>14, <3>1 DEF TagsOf
  <2> QED
    BY <1>2, <1>6, <2>5, <2>11, <2>12, <2>15, <2>16, Settling
<1> QED
  BY <1>8, <1>9

\* A poller takes a message: its tag was in flight nowhere.
LEMMA ConsumesHolds ==
  ASSUME IndInv, HoldInv, NEW c \in Conns, NEW q \in Queues, PollerConsumes(c, q)
  PROVE  HoldInv'
<1>1. PICK m \in At("ready") :
        /\ Deliver(m)
        /\ conn' = [conn EXCEPT ![c].hand =
                      @ \cup {[queue |-> q, tag |-> m.id, uid |-> m.uid]}]
  BY DEF PollerConsumes
<1> DEFINE d == [queue |-> q, tag |-> m.id, uid |-> m.uid]
           u == [m EXCEPT !.place = "unacked"]
           H == conn[c].hand \cup {d}
           r == [conn[c] EXCEPT !.hand = H]
<1>2. conn[c] \in Connection /\ conn \in [Conns -> Connection]
  BY Types DEF IndInv
<1>3. conn' = [conn EXCEPT ![c] = r] /\ stranded' = stranded
  BY <1>1 DEF PollerConsumes, hist
<1>4. copies' = (copies \ {m}) \cup {u} /\ stored' = stored
  BY <1>1 DEF Deliver
<1>5. m \in copies /\ m.place = "ready" /\ m \in Copy
  BY Types DEF At, IndInv
<1>6. u.place = "unacked" /\ u.id = m.id /\ u.uid = m.uid /\ d.tag = m.id
  BY <1>5 DEF Copy
<1> HIDE DEF d, u
<1>7. r.hand = H /\ r.channel = conn[c].channel /\ r.inflight = conn[c].inflight
  BY <1>2 DEF Connection
<1>8. conn'[c] = r /\ \A b \in Conns \ {c} : conn'[b] = conn[b]
  BY <1>2, <1>3
<1> HIDE DEF r
<1>9. \A n \in copies : n.id = m.id => n = m
  BY <1>5, IdsApart, Zenon
<1>10. m.id \notin Waiting
  <2>1. \A n \in At("unacked") : n \in copies /\ n.place # "ready"
    BY DEF At
  <2> QED
    BY <1>5, <1>9, <2>1, Zenon DEF Waiting
<1>11. Waiting' = Waiting \cup {m.id}
  BY <1>4, <1>5, <1>6, <1>9 DEF Waiting, At
<1>12. Single'
  <2>1. \A n \in copies' : (n \in copies /\ n # m) \/ n = u
    BY <1>4
  <2>2. Single
    BY DEF HoldInv
  <2>3. \A n \in copies' : n.uid \in stored'
    BY <1>4, <1>5, <1>6, <2>1, <2>2, Zenon DEF Single
  <2>4. \A n, k \in copies' : n.uid = k.uid => n = k
    BY <1>5, <1>6, <2>1, <2>2, Zenon DEF Single
  <2> QED
    BY <2>3, <2>4, Zenon DEF Single
<1>13. Apart(conn[c]) /\ m.id \notin TagsOf(conn[c])
  BY <1>10, Zenon DEF HoldInv, Accounted
<1>14. m.id \notin HandTags(conn[c]) /\ m.id \notin ChannelTags(conn[c]) /\ m.id \notin TableTags(conn[c])
  BY <1>13 DEF TagsOf
<1>15. /\ HandTags(r) = HandTags(conn[c]) \cup {m.id}
       /\ ChannelTags(r) = ChannelTags(conn[c]) /\ TableTags(r) = TableTags(conn[c])
  <2>1. HandTags(r) = HandTags(conn[c]) \cup {m.id}
    BY <1>6, <1>7 DEF HandTags
  <2> QED
    BY <1>7, <2>1, Zenon DEF ChannelTags, TableTags
<1>16. TagsOf(r) = TagsOf(conn[c]) \cup {m.id}
  BY <1>15 DEF TagsOf
<1>17. Apart(r)
  <2>1. \A e \in conn[c].hand : e.tag # d.tag
    BY <1>6, <1>14, Zenon DEF HandTags
  <2>2. \A e \in r.hand : e \in conn[c].hand \/ e = d
    BY <1>7
  <2>3. \A e, f \in r.hand : e.tag = f.tag => e = f
    BY <1>13, <2>1, <2>2, Zenon DEF Apart
  <2>4. \A t \in HandTags(r) : t \notin ChannelTags(r) /\ t \notin TableTags(r)
    BY <1>13, <1>14, <1>15 DEF Apart
  <2>5. \A t \in ChannelTags(r) : t \notin TableTags(r)
    BY <1>13, <1>15, Zenon DEF Apart
  <2>6. /\ \A i, j \in DOMAIN r.channel : r.channel[i].tag = r.channel[j].tag => i = j
        /\ \A x, y \in r.inflight : x.d.tag = y.d.tag => x = y
        /\ OneEntry(r.inflight)
    BY <1>7, <1>13, Zenon DEF Apart
  <2> QED
    BY <2>3, <2>4, <2>5, <2>6, Zenon DEF Apart
<1> QED
  BY <1>3, <1>8, <1>10, <1>11, <1>12, <1>16, <1>17, Taking

\* A delivery goes from a hand into the channel.
LEMMA SendsHolds ==
  ASSUME IndInv, HoldInv, NEW c \in Conns, NEW q \in Queues, PollerSends(c, q)
  PROVE  HoldInv'
<1>1. PICK d \in conn[c].hand :
        conn' = [conn EXCEPT ![c].hand = @ \ {d}, ![c].channel = Append(@, d)]
  BY DEF PollerSends
<1> DEFINE ch == conn[c].channel
           H == conn[c].hand \ {d}
           v == Append(ch, d)
           r == [conn[c] EXCEPT !.hand = H, !.channel = v]
<1>2. conn[c] \in Connection /\ conn \in [Conns -> Connection]
  BY Types DEF IndInv
<1>3. conn' = [conn EXCEPT ![c] = r] /\ UNCHANGED <<contractVars, stranded>>
  BY <1>1 DEF PollerSends, hist
<1>4. /\ \A i \in DOMAIN v : (i \in DOMAIN ch /\ v[i] = ch[i]) \/ (i = Len(ch) + 1 /\ v[i] = d)
      /\ \A i \in DOMAIN ch : i \in DOMAIN v /\ v[i] = ch[i]
      /\ Len(ch) + 1 \in DOMAIN v /\ v[Len(ch) + 1] = d
  <2>1. ch \in Seq(Delivery) /\ d \in Delivery
    BY Fields DEF IndInv
  <2>2. \A i \in DOMAIN v : (i \in DOMAIN ch /\ v[i] = ch[i]) \/ (i = Len(ch) + 1 /\ v[i] = d)
    BY <2>1, AppendFacts
  <2> HIDE DEF ch
  <2>3. /\ \A i \in DOMAIN ch : i \in DOMAIN v /\ v[i] = ch[i]
        /\ Len(ch) + 1 \in DOMAIN v /\ v[Len(ch) + 1] = d
    BY <2>1
  <2> QED
    BY <2>2, <2>3
<1> HIDE DEF v
<1>5. r.hand = H /\ r.channel = v /\ r.inflight = conn[c].inflight
  BY <1>2 DEF Connection
<1>6. conn'[c] = r /\ \A b \in Conns \ {c} : conn'[b] = conn[b]
  BY <1>2, <1>3
<1> HIDE DEF r
<1>7. Apart(conn[c])
  BY DEF HoldInv
<1>8. d.tag \in HandTags(conn[c]) /\ HandTags(r) = HandTags(conn[c]) \ {d.tag}
  <2>1. \A e, f \in conn[c].hand : e.tag = f.tag => e = f
    BY <1>7, Zenon DEF Apart
  <2> QED
    BY <1>1, <1>5, <2>1 DEF HandTags
<1>9. ChannelTags(r) = ChannelTags(conn[c]) \cup {d.tag}
  <2>1. \A t \in ChannelTags(r) : t \in ChannelTags(conn[c]) \cup {d.tag}
    BY <1>4, <1>5, Zenon DEF ChannelTags
  <2>2. \A t \in ChannelTags(conn[c]) : t \in ChannelTags(r)
    BY <1>4, <1>5, Zenon DEF ChannelTags
  <2>3. d.tag \in ChannelTags(r)
    BY <1>4, <1>5, Zenon DEF ChannelTags
  <2> QED
    BY <2>1, <2>2, <2>3
<1>10. TableTags(r) = TableTags(conn[c])
  BY <1>5, Zenon DEF TableTags
<1>11. d.tag \notin ChannelTags(conn[c]) /\ d.tag \notin TableTags(conn[c])
  BY <1>7, <1>8, Zenon DEF Apart
<1>12. TagsOf(r) = TagsOf(conn[c]) \ {}
  BY <1>8, <1>9, <1>10 DEF TagsOf
<1>13. Apart(r)
  <2>1. \A i \in DOMAIN ch : ch[i].tag # d.tag
    BY <1>11, Zenon DEF ChannelTags
  <2>2. \A i, j \in DOMAIN ch : ch[i].tag = ch[j].tag => i = j
    BY <1>7, Zenon DEF Apart
  <2> HIDE DEF ch
  <2>3. \A i, j \in DOMAIN v : v[i].tag = v[j].tag => i = j
    BY <1>4, <2>1, <2>2, Zenon
  <2>4. H \subseteq conn[c].hand
    OBVIOUS
  <2>5. \A t \in HandTags(r) : t \notin ChannelTags(r) /\ t \notin TableTags(r)
    BY <1>7, <1>8, <1>9, <1>10 DEF Apart
  <2>6. \A t \in ChannelTags(r) : t \notin TableTags(r)
    BY <1>7, <1>9, <1>10, <1>11 DEF Apart
  <2>7. /\ \A x, y \in r.inflight : x.d.tag = y.d.tag => x = y
        /\ OneEntry(r.inflight) /\ \A e, f \in r.hand : e.tag = f.tag => e = f
    BY <1>5, <1>7, <2>4, Zenon DEF Apart
  <2> QED
    BY <1>5, <2>3, <2>5, <2>6, <2>7, Zenon DEF Apart
<1>14. {} \subseteq TagsOf(conn[c]) /\ stranded' = stranded \cup {}
  BY <1>3
<1> QED
  BY <1>3, <1>6, <1>12, <1>13, <1>14, EngineAlone, Stranding

\* A delivery goes from the channel into the table; the entry that had its
\* packet id is stranded.
LEMMA OutgoingHolds ==
  ASSUME IndInv, HoldInv, NEW c \in Conns, Outgoing(c)
  PROVE  HoldInv'
<1> DEFINE ch == conn[c].channel
           n == conn[c].next_pkid
           d == Head(ch)
           x == [pkid |-> n, d |-> d]
           I == conn[c].inflight
           old == {y \in I : y.pkid = n}
           L == {y.d.tag : y \in old}
           v == Tail(ch)
           J == (I \ old) \cup {x}
           C == conn[c].client \cup {x}
           k == NextPkid(n)
           r == [conn[c] EXCEPT !.channel = v, !.next_pkid = k, !.inflight = J, !.client = C]
<1>1. ch # <<>> /\ conn[c] \in Connection /\ conn \in [Conns -> Connection]
  BY Types DEF Outgoing, IndInv
<1>2. /\ conn' = [conn EXCEPT ![c] = r] /\ stranded' = stranded \cup L
      /\ UNCHANGED contractVars
  BY DEF Outgoing
<1>3. /\ 1 \in DOMAIN ch /\ d = ch[1]
      /\ \A i \in DOMAIN v : i + 1 \in DOMAIN ch /\ v[i] = ch[i + 1] /\ i + 1 # 1
      /\ \A i, j \in DOMAIN v : i + 1 = j + 1 => i = j
  BY <1>1, Fields, TailFacts DEF IndInv
<1>4. \A i \in DOMAIN ch : i = 1 \/ \E j \in DOMAIN v : v[j] = ch[i]
  <2>1. ch \in Seq(Delivery)
    BY Fields DEF IndInv
  <2> HIDE DEF ch
  <2>2. DOMAIN ch = 1..Len(ch) /\ DOMAIN v = 1..(Len(ch) - 1) /\ Len(ch) \in Nat
    BY <1>1, <2>1
  <2>3. \A i \in DOMAIN ch : i = 1 \/ (i - 1 \in DOMAIN v /\ (i - 1) + 1 = i)
    BY <2>2
  <2> TAKE i \in DOMAIN ch
  <2>4. SUFFICES ASSUME i # 1 PROVE \E j \in DOMAIN v : v[j] = ch[i]
    OBVIOUS
  <2>5. i - 1 \in DOMAIN v /\ (i - 1) + 1 = i
    BY <2>3, <2>4, Zenon
  <2>6. v[i - 1] = ch[(i - 1) + 1]
    BY <1>3, <2>5, Zenon
  <2>7. v[i - 1] = ch[i]
    BY <2>5, <2>6
  <2> QED
    BY <2>5, <2>7, Zenon
<1>5. x.pkid = n /\ x.d = d
  OBVIOUS
<1>6. \A y \in J : (y \in I /\ y.pkid # n) \/ y = x
  OBVIOUS
<1> HIDE DEF v, k, d, x, C, J
<1>7. r.hand = conn[c].hand /\ r.channel = v /\ r.inflight = J
  BY <1>1 DEF Connection
<1>8. conn'[c] = r /\ \A b \in Conns \ {c} : conn'[b] = conn[b]
  BY <1>1, <1>2
<1> HIDE DEF r
<1>9. Apart(conn[c])
  BY DEF HoldInv
<1>10. HandTags(r) = HandTags(conn[c])
  BY <1>7, Zenon DEF HandTags
<1>11. d.tag \in ChannelTags(conn[c]) /\ d.tag \notin TableTags(conn[c]) /\ d.tag \notin HandTags(conn[c])
  <2>1. d.tag \in ChannelTags(conn[c])
    BY <1>3, Zenon DEF ChannelTags
  <2> QED
    BY <1>9, <2>1, Zenon DEF Apart
<1>12. \A i, j \in DOMAIN ch : ch[i].tag = ch[j].tag => i = j
  BY <1>9, Zenon DEF Apart
<1>13. ChannelTags(r) = ChannelTags(conn[c]) \ {d.tag}
  <2>1. \A t \in ChannelTags(r) : t \in ChannelTags(conn[c]) /\ t # d.tag
    <3> TAKE t \in ChannelTags(r)
    <3>1. PICK i \in DOMAIN v : t = v[i].tag
      BY <1>7, Zenon DEF ChannelTags
    <3>2. i + 1 \in DOMAIN ch /\ t = ch[i + 1].tag /\ i + 1 # 1
      BY <1>3, <3>1, Zenon
    <3>3. t # ch[1].tag
      BY <1>3, <1>12, <3>2, Zenon
    <3>4. t \in ChannelTags(conn[c])
      BY <3>2, Zenon DEF ChannelTags
    <3> QED
      BY <1>3, <3>3, <3>4, Zenon
  <2>2. \A t \in ChannelTags(conn[c]) : t # d.tag => t \in ChannelTags(r)
    <3> TAKE t \in ChannelTags(conn[c])
    <3> HAVE t # d.tag
    <3>1. PICK i \in DOMAIN ch : t = ch[i].tag
      BY Zenon DEF ChannelTags
    <3>2. i # 1
      BY <1>3, <3>1, Zenon
    <3>3. PICK j \in DOMAIN v : v[j] = ch[i]
      BY <1>4, <3>2, Zenon
    <3>4. t = v[j].tag
      BY <3>1, <3>3, Zenon
    <3> QED
      BY <1>7, <3>4, Zenon DEF ChannelTags
  <2> QED
    BY <2>1, <2>2
<1>14. \A y, z \in I : y.d.tag = z.d.tag => y = z
  BY <1>9, Zenon DEF Apart
<1>15. L \subseteq TableTags(conn[c]) /\ d.tag \notin L
  BY <1>11 DEF TableTags
<1>16. TableTags(r) = (TableTags(conn[c]) \ L) \cup {d.tag}
  <2>1. J = (I \ old) \cup {x}
    BY DEF J
  <2>2. {y.d.tag : y \in I \ old} = {y.d.tag : y \in I} \ L
    BY <1>14
  <2>3. {y.d.tag : y \in J} = {y.d.tag : y \in I \ old} \cup {x.d.tag}
    BY <2>1
  <2> QED
    BY <1>5, <1>7, <2>2, <2>3 DEF TableTags
<1>17. L \subseteq TagsOf(conn[c]) /\ TagsOf(r) = TagsOf(conn[c]) \ L
  <2>1. \A t \in L : t \notin HandTags(conn[c]) /\ t \notin ChannelTags(conn[c])
    BY <1>9, <1>15, Zenon DEF Apart
  <2> HIDE DEF L
  <2> QED
    BY <1>10, <1>11, <1>13, <1>15, <1>16, <2>1 DEF TagsOf
<1>18. Apart(r)
  <2>1. \A i, j \in DOMAIN v : v[i].tag = v[j].tag => i = j
    <3> TAKE i, j \in DOMAIN v
    <3> HAVE v[i].tag = v[j].tag
    <3>1. /\ i + 1 \in DOMAIN ch /\ v[i] = ch[i + 1]
          /\ j + 1 \in DOMAIN ch /\ v[j] = ch[j + 1]
      BY <1>3, Zenon
    <3>2. ch[i + 1].tag = ch[j + 1].tag
      BY <3>1, Zenon
    <3>3. i + 1 = j + 1
      BY <1>12, <3>1, <3>2, Zenon
    <3> QED
      BY <1>3, <3>3, Zenon
  <2>2. \A y \in I : y.d.tag # x.d.tag
    BY <1>5, <1>11, Zenon DEF TableTags
  <2>3. \A y, z \in J : y.d.tag = z.d.tag => y = z
    BY <1>6, <1>14, <2>2, Zenon
  <2>4. OneEntry(J)
    BY <1>5, <1>6, <1>9, Zenon DEF Apart, OneEntry
  <2>5. \A t \in HandTags(r) : t \notin ChannelTags(r) /\ t \notin TableTags(r)
    BY <1>9, <1>10, <1>11, <1>13, <1>16 DEF Apart
  <2>6. \A t \in ChannelTags(r) : t \notin TableTags(r)
    BY <1>9, <1>13, <1>16 DEF Apart
  <2>7. \A e, f \in r.hand : e.tag = f.tag => e = f
    BY <1>7, <1>9, Zenon DEF Apart
  <2> QED
    BY <1>7, <2>1, <2>3, <2>4, <2>5, <2>6, <2>7, Zenon DEF Apart
<1> HIDE DEF L
<1> QED
  BY <1>2, <1>8, <1>17, <1>18, EngineAlone, Stranding

\* After a restart nothing is in flight and nothing is held.
LEMMA RestartHolds ==
  ASSUME IndInv, HoldInv, Restart
  PROVE  HoldInv'
<1>1. \A c \in Conns : Apart(conn'[c]) /\ TagsOf(conn'[c]) = {}
  BY ClosedHolds DEF Restart
<1>2. stranded' = {} /\ stored' = stored
  BY DEF Restart
<1>3. \A k \in copies' : /\ k.place = "ready"
                         /\ \E m \in copies : /\ k.uid = m.uid
                                              /\ k = [m EXCEPT !.place = "ready",
                                                        !.id = (epoch + 1) * MaxMessages + m.uid]
  <2> TAKE k \in copies'
  <2>1. PICK m \in copies : k = [m EXCEPT !.place = "ready",
                                    !.id = (epoch + 1) * MaxMessages + m.uid]
    BY DEF Restart
  <2> DEFINE i == (epoch + 1) * MaxMessages + m.uid
  <2>2. m \in Copy /\ k = [m EXCEPT !.place = "ready", !.id = i]
    BY <2>1, Types DEF IndInv
  <2> HIDE DEF i
  <2>3. k.place = "ready" /\ k.uid = m.uid
    BY <2>2 DEF Copy
  <2> QED
    BY <2>1, <2>3, Zenon
<1>4. Waiting' = {}
  BY <1>3 DEF Waiting, At
<1>5. Single'
  <2>1. \A k \in copies' : k.uid \in stored'
    BY <1>2, <1>3, Zenon DEF HoldInv, Single
  <2>2. \A k, l \in copies' : k.uid = l.uid => k = l
    <3> TAKE k, l \in copies'
    <3> HAVE k.uid = l.uid
    <3>1. PICK m \in copies : /\ k.uid = m.uid
                              /\ k = [m EXCEPT !.place = "ready",
                                        !.id = (epoch + 1) * MaxMessages + m.uid]
      BY <1>3, Zenon
    <3>2. PICK n \in copies : /\ l.uid = n.uid
                              /\ l = [n EXCEPT !.place = "ready",
                                        !.id = (epoch + 1) * MaxMessages + n.uid]
      BY <1>3, Zenon
    <3>3. m = n
      BY <3>1, <3>2, Zenon DEF HoldInv, Single
    <3> QED
      BY <3>1, <3>2, <3>3, Zenon
  <2> QED
    BY <2>1, <2>2, Zenon DEF Single
<1> QED
  BY <1>1, <1>2, <1>4, <1>5 DEF HoldInv, Accounted

\* Every step keeps every message in flight with its one holder.
LEMMA EveryStepHolds == IndInv /\ HoldInv /\ [Next]_vars => HoldInv'
<1> SUFFICES ASSUME IndInv, HoldInv, [Next]_vars PROVE HoldInv'
  OBVIOUS
<1>1. CASE UNCHANGED vars
  <2>1. conn' = conn /\ stranded' = stranded /\ UNCHANGED contractVars
    BY <1>1 DEF vars, hist
  <2> QED
    BY <2>1, EngineAlone, NothingMoves, Zenon
<1>2. CASE Restart
  BY <1>2, RestartHolds
<1>3. ASSUME NEW c \in Conns, ClientNext(c) PROVE HoldInv'
  BY <1>3, ClientHolds
<1>4. ASSUME NEW c \in Conns, ServerNext(c) PROVE HoldInv'
  <2>1. CASE HandlePacket(c)
    BY <2>1, FirstHolds, PublishHolds, UnsubscribeHolds, PubAckHolds, Zenon DEF HandlePacket
  <2>2. CASE Breaks(c)
    BY <2>2, ClosesHolds DEF Breaks
  <2>3. ASSUME NEW q \in Queues, PollerConsumes(c, q) \/ PollerSends(c, q) PROVE HoldInv'
    BY <2>3, ConsumesHolds, SendsHolds
  <2>4. CASE Outgoing(c)
    BY <2>4, OutgoingHolds
  <2> QED
    BY <1>4, <2>1, <2>2, <2>3, <2>4, Zenon DEF ServerNext
<1> QED
  BY <1>1, <1>2, <1>3, <1>4, Zenon DEF Next

\* At first nothing is in flight.
LEMMA InitiallyHeld == Init => HoldInv
<1> SUFFICES ASSUME Init PROVE HoldInv
  OBVIOUS
<1>1. \A c \in Conns : conn[c] = Closed
  BY DEF Init
<1>2. \A c \in Conns : Apart(conn[c]) /\ TagsOf(conn[c]) = {}
  BY <1>1, ClosedHolds, Zenon
<1>3. copies = {} /\ stranded = {}
  BY DEF Init, ContractInit
<1> QED
  BY <1>2, <1>3 DEF HoldInv, Single, Accounted, Waiting, At

-----------------------------------------------------------------------------
(* Theorems *)

\* The initial state.
LEMMA Initially == Init => IndInv
<1> SUFFICES ASSUME Init PROVE IndInv
  OBVIOUS
<1>1. conn \in [Conns -> Connection] /\ \A c \in Conns : conn[c] = Closed
  BY ClosedFacts DEF Init
<1>2. TypeOK
  BY <1>1 DEF Init, ContractInit, TypeOK
<1>3. CopiesNamed /\ AckedWasProcessed
  BY DEF Init, ContractInit, CopiesNamed, AckedWasProcessed
<1>4. ConnInv
  BY <1>1, ClosedFacts DEF ConnInv
<1> QED
  BY <1>2, <1>3, <1>4 DEF IndInv

\* A step that changes nothing.
LEMMA Stutters ==
  ASSUME IndInv, UNCHANGED vars
  PROVE  IndInv'
<1>1. UNCHANGED <<conn, contractVars, hist>>
  BY DEF vars
<1>2. TypeOK'
  BY <1>1, Types, TypesHold DEF IndInv, contractVars, hist
<1>3. CopiesNamed' /\ AckedWasProcessed'
  BY <1>1 DEF IndInv, CopiesNamed, IdOf, AckedWasProcessed, contractVars, hist
<1>4. ConnInv'
  BY <1>1, Zenon DEF IndInv, ConnInv, NamedIn, Names, IdOf, Numbering, contractVars, hist
<1> QED
  BY <1>2, <1>3, <1>4 DEF IndInv

\* Every step of a client or a connection keeps the invariant.
LEMMA EveryStep == IndInv /\ [Next]_vars => IndInv'
<1> SUFFICES ASSUME IndInv, [Next]_vars PROVE IndInv'
  OBVIOUS
<1>1. CASE UNCHANGED vars
  BY <1>1, Stutters
<1>2. CASE Restart
  BY <1>2, RestartStep
<1>3. ASSUME NEW c \in Conns, ClientNext(c) PROVE IndInv'
  <2>1. [type |-> "connect"] \in Packet
    BY DEF Packet
  <2>2. \A F \in SUBSET Queues : [type |-> "subscribe", filters |-> F] \in Packet
    BY DEF Packet
  <2>3. \A T \in SUBSET Queues : [type |-> "unsubscribe", topics |-> T] \in Packet
    BY DEF Packet
  <2>4. CASE Accepted(c)
    BY <2>4, AcceptedStep
  <2>5. CASE ClientSends(c, [type |-> "connect"])
    BY <2>1, <2>5, SendsStep
  <2>6. ASSUME NEW F \in SUBSET Queues, ClientSends(c, [type |-> "subscribe", filters |-> F])
        PROVE  IndInv'
    BY <2>2, <2>6, SendsStep
  <2>7. ASSUME NEW T \in SUBSET Queues, ClientSends(c, [type |-> "unsubscribe", topics |-> T])
        PROVE  IndInv'
    BY <2>3, <2>7, SendsStep
  <2>8. ASSUME NEW q \in Queues, ClientPublishes(c, q) PROVE IndInv'
    BY <2>8, PublishesStep
  <2>9. ASSUME NEW x \in conn[c].client, ClientPubAcks(c, x) PROVE IndInv'
    BY <2>9, PubAcksStep
  <2> QED
    BY <1>3, <2>4, <2>5, <2>6, <2>7, <2>8, <2>9, Zenon DEF ClientNext
<1>4. ASSUME NEW c \in Conns, ServerNext(c) PROVE IndInv'
  <2>1. CASE HandlePacket(c)
    BY <2>1, FirstStep, PublishStep, SubscribeStep, UnsubscribeStep, PubAckStep, Zenon
       DEF HandlePacket
  <2>2. CASE Breaks(c)
    BY <2>2, ClosesStep DEF Breaks
  <2>3. ASSUME NEW q \in Queues, PollerConsumes(c, q) \/ PollerSends(c, q) PROVE IndInv'
    BY <2>3, ConsumesStep, PollerSendsStep
  <2>4. CASE Outgoing(c)
    BY <2>4, OutgoingStep
  <2> QED
    BY <1>4, <2>1, <2>2, <2>3, <2>4, Zenon DEF ServerNext
<1> QED
  BY <1>1, <1>2, <1>3, <1>4, Zenon DEF Next

\* The inductive invariant: every tag a connection holds names its message,
\* and, until a packet id is reused, every PUBACK on its way stands for one
\* entry of the table that the client has processed.
THEOREM Invariance == Spec => []IndInv
BY Initially, EveryStep, PTL DEF Spec

\* The state of connections, channels and tables keeps its types, and the
\* packet ids that Outgoing hands out stay within their range.
THEOREM ConnectionTypes == Spec => []TypeOK
<1>1. IndInv => TypeOK
  BY DEF IndInv
<1> QED
  BY <1>1, Invariance, PTL

\* The ack that handle_client_packet passes to the engine for a PUBACK settles
\* a message that a client has processed, whatever the pollers, the channel,
\* other connections, broken connections and restarts of the daemon do, as
\* long as no packet id was given out twice.
THEOREM PubAckSettlesItsMessage == Spec => []AckedWasProcessed
<1>1. IndInv => AckedWasProcessed
  BY DEF IndInv
<1> QED
  BY <1>1, Invariance, PTL

InHand(c, t, p) == \E d \in conn[c].hand : d.tag = t /\ p = <<c, "hand", d>>

InChannel(c, t, p) ==
  \E i \in DOMAIN conn[c].channel : conn[c].channel[i].tag = t /\ p = <<c, "channel", i>>

InTable(c, t, p) == \E x \in conn[c].inflight : x.d.tag = t /\ p = <<c, "table", x>>

\* The places of a connection that hold a tag, by what kind they are.
LEMMA PlaceOf ==
  \A c, t, p : p \in Places(c, t) <=> InHand(c, t, p) \/ InChannel(c, t, p) \/ InTable(c, t, p)
BY Zenon DEF Places, InHand, InChannel, InTable

\* Each kind of place is one of the three kinds of tags.
LEMMA PlaceTags ==
  \A c, t :
    /\ (\E p : InHand(c, t, p)) <=> t \in HandTags(conn[c])
    /\ (\E p : InChannel(c, t, p)) <=> t \in ChannelTags(conn[c])
    /\ (\E p : InTable(c, t, p)) <=> t \in TableTags(conn[c])
<1> TAKE c, t
<1>1. (\E p : InHand(c, t, p)) <=> t \in HandTags(conn[c])
  BY Zenon DEF InHand, HandTags
<1>2. (\E p : InChannel(c, t, p)) <=> t \in ChannelTags(conn[c])
  BY Zenon DEF InChannel, ChannelTags
<1>3. (\E p : InTable(c, t, p)) <=> t \in TableTags(conn[c])
  BY Zenon DEF InTable, TableTags
<1> QED
  BY <1>1, <1>2, <1>3, Zenon

\* The account, place by place.
LEMMA OnePlace ==
  ASSUME HoldInv
  PROVE  OneHolder
<1>1. \A c \in Conns : \A t : (\E p : p \in Places(c, t)) <=> t \in TagsOf(conn[c])
  BY PlaceOf, PlaceTags, Zenon DEF TagsOf
<1>2. \A c \in Conns : \A t : \A p, o \in Places(c, t) : p = o
  <2> TAKE c \in Conns
  <2> TAKE t
  <2> TAKE p, o \in Places(c, t)
  <2>1. Apart(conn[c])
    BY DEF HoldInv
  <2>2. /\ InHand(c, t, p) \/ InChannel(c, t, p) \/ InTable(c, t, p)
        /\ InHand(c, t, o) \/ InChannel(c, t, o) \/ InTable(c, t, o)
    BY PlaceOf, Zenon
  <2>3. /\ InHand(c, t, p) => t \in HandTags(conn[c])
        /\ InChannel(c, t, p) => t \in ChannelTags(conn[c])
        /\ InTable(c, t, p) => t \in TableTags(conn[c])
        /\ InHand(c, t, o) => t \in HandTags(conn[c])
        /\ InChannel(c, t, o) => t \in ChannelTags(conn[c])
        /\ InTable(c, t, o) => t \in TableTags(conn[c])
    BY PlaceTags, Zenon
  <2>4. /\ ~(t \in HandTags(conn[c]) /\ t \in ChannelTags(conn[c]))
        /\ ~(t \in HandTags(conn[c]) /\ t \in TableTags(conn[c]))
        /\ ~(t \in ChannelTags(conn[c]) /\ t \in TableTags(conn[c]))
    BY <2>1, Zenon DEF Apart
  <2>5. CASE InHand(c, t, p) /\ InHand(c, t, o)
    BY <2>1, <2>5, Zenon DEF Apart, InHand
  <2>6. CASE InChannel(c, t, p) /\ InChannel(c, t, o)
    BY <2>1, <2>6, Zenon DEF Apart, InChannel
  <2>7. CASE InTable(c, t, p) /\ InTable(c, t, o)
    BY <2>1, <2>7, Zenon DEF Apart, InTable
  <2> QED
    BY <2>2, <2>3, <2>4, <2>5, <2>6, <2>7, Zenon
<1>3. Accounted
  BY DEF HoldInv
<1>4. ASSUME NEW m \in At("unacked")
      PROVE  Cardinality(UNION {Places(c, m.id) : c \in Conns})
               = IF m.id \in stranded THEN 0 ELSE 1
  <2> DEFINE t == m.id
             P == UNION {Places(c, t) : c \in Conns}
  <2>1. t \in Waiting
    BY Zenon DEF Waiting
  <2>2. \A p : p \in P <=> \E c \in Conns : p \in Places(c, t)
    BY Zenon
  <2>3. CASE t \in stranded
    <3>1. \A c \in Conns : t \notin TagsOf(conn[c])
      BY <1>3, <2>3, Zenon DEF Accounted
    <3>2. \A c \in Conns : \A p : p \notin Places(c, t)
      BY <1>1, <3>1, Zenon
    <3>3. \A p : p \notin P
      BY <2>2, <3>2, Zenon
    <3> HIDE DEF P
    <3>4. P = {}
      BY <3>3, Zenon
    <3>5. Cardinality(P) = 0
      BY <3>4, FS_EmptySet, Zenon
    <3> QED
      BY <2>3, <3>5 DEF P
  <2>4. CASE t \notin stranded
    <3>1. PICK c \in Conns : t \in TagsOf(conn[c])
      BY <1>3, <2>1, <2>4, Zenon DEF Accounted
    <3>2. \A b \in Conns : t \in TagsOf(conn[b]) => b = c
      BY <1>3, <3>1, Zenon DEF Accounted
    <3>3. PICK p : p \in Places(c, t)
      BY <1>1, <3>1, Zenon
    <3>4. \A o \in P : o = p
      <4> TAKE o \in P
      <4>1. PICK b \in Conns : o \in Places(b, t)
        BY <2>2, Zenon
      <4>2. b = c
        BY <1>1, <3>2, <4>1, Zenon
      <4>3. o \in Places(c, t)
        BY <4>1, <4>2, Zenon
      <4> HIDE DEF P
      <4> QED
        BY <1>2, <3>3, <4>3, Zenon
    <3>5. p \in P
      BY <2>2, <3>3, Zenon
    <3> HIDE DEF P
    <3>6. P = {p}
      BY <3>4, <3>5, Zenon
    <3>7. Cardinality(P) = 1
      BY <3>6, FS_Singleton, Zenon
    <3> QED
      BY <2>4, <3>7 DEF P
  <2> QED
    BY <2>3, <2>4
<1>5. ASSUME NEW c \in Conns
      PROVE  Tags(HeldBy(c)) \subseteq {m.id : m \in At("unacked")}
  BY <1>3, HeldTags, Zenon DEF Accounted, Waiting
<1> QED
  BY <1>4, <1>5, Zenon DEF OneHolder

\* A message that subscription_poller has consumed is in exactly one place, the
\* hand of its poller, the channel or the table of one connection, until its
\* PUBACK, an abort, a close or a reused packet id; for any number of
\* connections and queues, any room in the channel and any range of packet ids.
THEOREM HeldOnce == Spec => []OneHolder
<1>1. Init => IndInv /\ HoldInv
  BY Initially, InitiallyHeld
<1>2. (IndInv /\ HoldInv) /\ [Next]_vars => (IndInv /\ HoldInv)'
  BY EveryStep, EveryStepHolds
<1>3. IndInv /\ HoldInv => OneHolder
  BY OnePlace
<1> QED
  BY <1>1, <1>2, <1>3, PTL DEF Spec
=============================================================================
