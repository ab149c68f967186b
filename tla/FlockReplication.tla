-------------------------- MODULE FlockReplication ---------------------------
(*****************************************************************************)
(* What the replicas of a Flock agree on while no dedup window has passed    *)
(* and one node at most was restarted: the log decides which messages are    *)
(* stored and under which ids, so that a tag is of one message on every node.*)
(*****************************************************************************)
EXTENDS FlockProofs

Steady == WindowsOpen /\ Cardinality(restarted) <= 1

\* What a store s agrees on with the log up to i.  It knows the keys.
KeysKnown(s, i) ==
  i > 0 /\ Window(log) # None =>
    {d.key : d \in s.dedup}
      = {KeyOf(log, j) : j \in {k \in 1..i : Publishes(log, k)}} \ {None}

\* Its messages have the ids that the log gave them, or ids that only a node
\* that was restarted has; a tag that clients have is an id of their message.
IdsAgree(s) ==
  \A e \in s.msgs : /\ e.id < IdGap => Named(e.id, e.msg.uid)
                    /\ \A d \in handed : d.tag = e.id => d.uid = e.msg.uid

\* It has every message that it stored and that no client has acked.
Keeps(s, i) ==
  \A j \in 1..i : Publishes(log, j) =>
    \A k \in Chosen(log, j) : \/ log[j].msgs[k].uid \in acked
                              \/ log[j].msgs[k].uid \in Uids(s.msgs)

\* Node n, with the store s and b as its next id, has applied the log up to i.
Agrees(n, s, b, i) ==
  /\ KeysKnown(s, i) /\ IdsAgree(s) /\ Keeps(s, i)
  /\ n \notin restarted => b = Base(log, i)
  /\ n \in restarted => b >= IdGap

TagsAgree ==
  /\ \A d, e \in handed : d.tag = e.tag => d.uid = e.uid
  /\ \A d \in handed : IF d.tag < IdGap THEN Named(d.tag, d.uid)
                       ELSE \E n \in restarted : d.tag < node[n].nextId

StoredAt(i, u) == Publishes(log, i) /\ \E k \in Chosen(log, i) : log[i].msgs[k].uid = u

ConfirmedStored == \A u \in confirmed : \E i \in 1..Len(log) : StoredAt(i, u)

SteadyInv ==
  Steady => /\ \A n \in Nodes : Agrees(n, node[n].store, node[n].nextId, node[n].applied)
            /\ TagsAgree /\ ConfirmedStored

\* A set of at most one element.
LEMMA AtMostOne ==
  ASSUME NEW R, IsFiniteSet(R), Cardinality(R) <= 1, NEW x \in R
  PROVE  R = {x}
<1>1. Cardinality(R \ {x}) = Cardinality(R) - 1 /\ IsFiniteSet(R \ {x})
  BY FS_RemoveElement, Zenon
<1>2. Cardinality(R \ {x}) \in Nat /\ Cardinality(R) \in Nat
  BY <1>1, FS_CardinalityType
<1>3. Cardinality(R \ {x}) = 0
  BY <1>1, <1>2
<1>4. R \ {x} = {}
  BY <1>1, <1>3, FS_EmptySet
<1> QED
  BY <1>4

\* The slots of the log are few enough.
LEMMA SlotsInRange ==
  ASSUME FlockInv, NEW i \in 1..Len(log)
  PROVE  /\ i \in 1..MaxLog /\ i \in Nat \ {0} /\ i <= MaxLog
         /\ Slots(log, i) \in SUBSET (0..MaxUids)
         /\ Publishes(log, i) => /\ Slots(log, i) = Chosen(log, i)
                                 /\ Chosen(log, i) \subseteq 1..MaxUids
                                 /\ Chosen(log, i) \subseteq DOMAIN log[i].msgs
                                 /\ log[i].msgs \in Seq(Plain)
<1>0. LogInv /\ log \in Seq(Operation) /\ Len(log) \in Nat /\ Len(log) <= MaxLog
      /\ MaxLog \in Nat /\ MaxUids \in Nat
  <2>1. LogInv
    BY Zenon DEF FlockInv
  <2> QED
    BY <2>1, NodeFacts, LowestIsNode, Zenon
<1>1. i \in 1..MaxLog /\ i \in Nat \ {0} /\ i <= MaxLog
  BY <1>0
<1>2. log[i] \in Operation
  BY <1>0
<1>3. ASSUME Publishes(log, i)
      PROVE  /\ Slots(log, i) = Chosen(log, i)
             /\ Chosen(log, i) \subseteq 1..MaxUids
             /\ Chosen(log, i) \subseteq DOMAIN log[i].msgs
             /\ log[i].msgs \in Seq(Plain)
  <2>1. log[i].msgs \in Seq(Plain) /\ Len(log[i].msgs) \in 1..MaxUids
    BY <1>0, <1>2, <1>3, OperationFields DEF LogInv, Publishes
  <2>2. Chosen(log, i) \subseteq DOMAIN log[i].msgs
    BY DEF Chosen
  <2>3. DOMAIN log[i].msgs = 1..Len(log[i].msgs)
    BY <2>1
  <2>4. DOMAIN log[i].msgs \subseteq 1..MaxUids
    BY <1>0, <2>1, <2>3
  <2>5. Slots(log, i) = Chosen(log, i)
    BY <1>3, Zenon DEF Slots
  <2> QED
    BY <2>1, <2>2, <2>4, <2>5, Zenon
<1>4. Slots(log, i) \in SUBSET (0..MaxUids)
  <2>1. 1..MaxUids \subseteq 0..MaxUids /\ {0} \subseteq 0..MaxUids
    BY <1>0
  <2>2. CASE Publishes(log, i)
    BY <1>3, <2>1, <2>2, Zenon
  <2>3. CASE ~Publishes(log, i)
    <3>1. Slots(log, i) \subseteq {0}
      BY <2>3, Zenon DEF Slots
    <3> QED
      BY <2>1, <3>1, Zenon
  <2> QED
    BY <2>2, <2>3, Zenon
<1> QED
  BY <1>1, <1>3, <1>4, Zenon

\* The slot at i with the id, and the message that it is for.
NamedBy(i, k, id, u) ==
  /\ k \in Slots(log, i) /\ IdAt(log, i, k) = id
  /\ \/ Publishes(log, i) /\ log[i].msgs[k].uid = u
     \/ log[i].type = "nack" /\ \E d \in handed : d.tag = log[i].tag /\ d.uid = u

\* Every name comes from a slot.
LEMMA NameHasSlot ==
  ASSUME FlockInv, NEW id, NEW u
  PROVE  Named(id, u) <=> \E i \in 1..Len(log) : \E k : NamedBy(i, k, id, u)
<1>1. ASSUME NamedByPublish(log, id, u)
      PROVE  \E i \in 1..Len(log) : \E k : NamedBy(i, k, id, u)
  <2>1. PICK i \in 1..Len(log) : /\ Publishes(log, i)
                                 /\ \E k \in Chosen(log, i) : /\ IdAt(log, i, k) = id
                                                              /\ log[i].msgs[k].uid = u
    BY <1>1, Zenon DEF NamedByPublish
  <2>2. PICK k \in Chosen(log, i) : IdAt(log, i, k) = id /\ log[i].msgs[k].uid = u
    BY <2>1, Zenon
  <2>3. k \in Slots(log, i)
    BY <2>1, SlotsInRange, Zenon
  <2> QED
    BY <2>1, <2>2, <2>3, Zenon DEF NamedBy
<1>2. ASSUME NamedByNack(log, handed, id, u)
      PROVE  \E i \in 1..Len(log) : \E k : NamedBy(i, k, id, u)
  <2>1. PICK i \in 1..Len(log) : /\ log[i].type = "nack" /\ IdAt(log, i, 0) = id
                                 /\ \E d \in handed : d.tag = log[i].tag /\ d.uid = u
    BY <1>2, Zenon DEF NamedByNack
  <2>2. 0 \in Slots(log, i)
    BY <2>1 DEF Slots, Publishes
  <2> QED
    BY <2>1, <2>2, Zenon DEF NamedBy
<1>3. ASSUME NEW i \in 1..Len(log), NEW k, NamedBy(i, k, id, u)
      PROVE  Named(id, u)
  <2>1. CASE Publishes(log, i) /\ log[i].msgs[k].uid = u
    <3>1. k \in Chosen(log, i)
      BY <1>3, <2>1, SlotsInRange, Zenon DEF NamedBy
    <3> QED
      BY <1>3, <2>1, <3>1, Zenon DEF NamedBy, Named, NamedByPublish
  <2>2. CASE log[i].type = "nack" /\ \E d \in handed : d.tag = log[i].tag /\ d.uid = u
    <3>1. Slots(log, i) = {0}
      BY <2>2 DEF Slots, Publishes
    <3>2. k = 0
      BY <1>3, <3>1, Zenon DEF NamedBy
    <3> QED
      BY <1>3, <2>2, <3>2, Zenon DEF NamedBy, Named, NamedByNack
  <2> QED
    BY <1>3, <2>1, <2>2, Zenon DEF NamedBy
<1> QED
  BY <1>1, <1>2, <1>3, Zenon DEF Named

\* An id of the log is the id of one message.
LEMMA NamedOnce ==
  ASSUME FlockInv, TagsAgree, NEW id, NEW u, NEW v, Named(id, u), Named(id, v)
  PROVE  u = v
<1>1. PICK i \in 1..Len(log) : \E k : NamedBy(i, k, id, u)
  BY NameHasSlot, Zenon
<1>2. PICK k : NamedBy(i, k, id, u)
  BY <1>1, Zenon
<1>3. PICK j \in 1..Len(log) : \E l : NamedBy(j, l, id, v)
  BY NameHasSlot, Zenon
<1>4. PICK l : NamedBy(j, l, id, v)
  BY <1>3, Zenon
<1>5. /\ i \in 1..MaxLog /\ Slots(log, i) \in SUBSET (0..MaxUids)
      /\ j \in 1..MaxLog /\ Slots(log, j) \in SUBSET (0..MaxUids)
  BY SlotsInRange, Zenon
<1>6. k \in Slots(log, i) /\ l \in Slots(log, j) /\ IdAt(log, i, k) = IdAt(log, j, l)
  BY <1>2, <1>4, Zenon DEF NamedBy
<1>7. i = j /\ k = l
  BY <1>5, <1>6, IdInjective
<1>8. CASE Publishes(log, i) /\ log[i].msgs[k].uid = u
  <2>1. log[i].type # "nack"
    BY <1>8 DEF Publishes
  <2> QED
    BY <1>4, <1>7, <1>8, <2>1, Zenon DEF NamedBy
<1>9. CASE log[i].type = "nack" /\ \E d \in handed : d.tag = log[i].tag /\ d.uid = u
  <2>1. ~Publishes(log, i)
    BY <1>9 DEF Publishes
  <2>2. \E d \in handed : d.tag = log[i].tag /\ d.uid = v
    BY <1>4, <1>7, <2>1, Zenon DEF NamedBy
  <2> QED
    BY <1>9, <2>2, Zenon DEF TagsAgree
<1> QED
  BY <1>2, <1>8, <1>9, Zenon DEF NamedBy

\* An id that node n may give to the message u.
MayName(n, id, u) ==
  /\ id < IdGap => Named(id, u)
  /\ id >= IdGap => restarted \subseteq {n} /\ node[n].nextId <= id

\* A client that has such an id as a tag has it for this message.
LEMMA NewId ==
  ASSUME FlockInv, TagsAgree, NEW n \in Nodes, NEW id \in Nat, NEW u, MayName(n, id, u)
  PROVE  \A d \in handed : d.tag = id => d.uid = u
<1> SUFFICES ASSUME NEW d \in handed, d.tag = id PROVE d.uid = u
  OBVIOUS
<1>0. /\ id < IdGap => Named(id, u)
      /\ id >= IdGap => restarted \subseteq {n} /\ node[n].nextId <= id
  BY Zenon DEF MayName
<1>1. CASE id < IdGap
  BY <1>0, <1>1, NamedOnce, Zenon DEF TagsAgree
<1>2. CASE ~(id < IdGap)
  <2>1. IdGap \in Nat /\ node[n].nextId \in Nat
    BY NodeFacts, FlockAssumption
  <2>2. id >= IdGap
    BY <1>2, <2>1
  <2>3. PICK m \in restarted : id < node[m].nextId
    BY <1>2, Zenon DEF TagsAgree
  <2>4. m = n
    BY <1>0, <2>2, <2>3, Zenon
  <2> QED
    BY <1>0, <2>1, <2>2, <2>3, <2>4
<1> QED
  BY <1>1, <1>2, Zenon

\* The next id of a node that applies the entry at i.
LEMMA NextIdFollows ==
  ASSUME FlockInv, NEW n \in Nodes, NEW i \in 1..Len(log), NEW b \in Nat,
         n \notin restarted => b = Base(log, i - 1),
         n \in restarted => b >= IdGap
  PROVE  LET c == b + Cardinality(Slots(log, i))
         IN  (n \notin restarted => c = Base(log, i)) /\ (n \in restarted => c >= IdGap)
<1>1. /\ i \in Nat \ {0} /\ i <= MaxLog /\ Slots(log, i) \in SUBSET (0..MaxUids)
  BY SlotsInRange, Zenon
<1>2. /\ Cardinality(Slots(log, i)) \in Nat
      /\ Base(log, i) = Base(log, i - 1) + Cardinality(Slots(log, i))
  BY <1>1, BaseStep, Zenon
<1>3. IdGap \in Nat
  BY FlockAssumption
<1> QED
  BY <1>2, <1>3

\* What an entry that publishes nothing leaves.
LEMMA PublishesNothing ==
  ASSUME FlockInv, NEW n \in Nodes, NEW i \in 1..Len(log), i > 1, ~Publishes(log, i),
         NEW s, NEW b \in Nat, Agrees(n, s, b, i - 1),
         NEW w, w.dedup = s.dedup, IdsAgree(w), Uids(s.msgs) \subseteq Uids(w.msgs) \cup acked
  PROVE  Agrees(n, w, b + Cardinality(Slots(log, i)), i)
<1>0. i \in Nat /\ i - 1 > 0 /\ i > 0 /\ 1..i = 1..(i - 1) \cup {i}
  OBVIOUS
<1>1. KeysKnown(w, i)
  <2>1. {k \in 1..i : Publishes(log, k)} = {k \in 1..(i - 1) : Publishes(log, k)}
    BY <1>0, Zenon
  <2> QED
    BY <1>0, <2>1, Zenon DEF Agrees, KeysKnown
<1>2. Keeps(w, i)
  <2>1. ASSUME NEW j \in 1..i, Publishes(log, j), NEW k \in Chosen(log, j)
        PROVE  log[j].msgs[k].uid \in acked \/ log[j].msgs[k].uid \in Uids(w.msgs)
    <3>1. j \in 1..(i - 1)
      BY <1>0, <2>1, Zenon
    <3>2. log[j].msgs[k].uid \in acked \/ log[j].msgs[k].uid \in Uids(s.msgs)
      BY <2>1, <3>1, Zenon DEF Agrees, Keeps
    <3> QED
      BY <3>2, Zenon
  <2> QED
    BY <2>1, Zenon DEF Keeps
<1>3. /\ n \notin restarted => b = Base(log, i - 1)
      /\ n \in restarted => b >= IdGap
  BY Zenon DEF Agrees
<1>4. /\ n \notin restarted => b + Cardinality(Slots(log, i)) = Base(log, i)
      /\ n \in restarted => b + Cardinality(Slots(log, i)) >= IdGap
  BY <1>3, NextIdFollows, Zenon
<1> QED
  BY <1>1, <1>2, <1>4, Zenon DEF Agrees

\* Most operations take no id, and a nack takes one.
LEMMA FewSlots ==
  ASSUME NEW b \in Nat, NEW S
  PROVE  /\ S = {} => b + Cardinality(S) = b
         /\ S = {0} => b + Cardinality(S) = b + 1
<1>1. Cardinality({}) = 0 /\ Cardinality({0}) = 1
  BY FS_EmptySet, FS_Singleton, Zenon
<1>2. S = {} => Cardinality(S) = 0
  BY <1>1, Zenon
<1>3. S = {0} => Cardinality(S) = 1
  BY <1>1, Zenon
<1> QED
  BY <1>2, <1>3

\* The replica r follows the log at i: what it answers is what the log says.
Follows(n, r, i) ==
  /\ Agrees(n, r.store, r.nextId, i)
  /\ \A u \in r.stored : StoredAt(i, u)
  /\ \A o \in r.out : \E e \in r.store.msgs : o.tag = e.id /\ o.uid = e.msg.uid

\* An ack follows the log: what it removes is what the client has acked.
LEMMA AckFollows ==
  ASSUME FlockInv, NEW n \in Nodes, NEW i \in 1..Len(log), i > 1, log[i].type = "ack",
         NEW s, NEW b \in Nat, Agrees(n, s, b, i - 1),
         NEW r, AckResult(r, s, b, log[i].tag)
  PROVE  Follows(n, r, i)
<1>0. /\ r.store.msgs \subseteq s.msgs /\ r.nextId = b /\ r.stored = {} /\ r.out = {}
      /\ r.store.dedup = s.dedup
      /\ \A e \in s.msgs \ r.store.msgs : e.id = log[i].tag
  BY Zenon DEF AckResult
<1>1. ~Publishes(log, i) /\ Slots(log, i) = {}
  BY DEF Publishes, Slots
<1>2. IdsAgree(s)
  BY Zenon DEF Agrees
<1>3. IdsAgree(r.store)
  BY <1>0, <1>2, Zenon DEF IdsAgree
<1>4. PICK d \in handed : d.tag = log[i].tag /\ d.uid \in acked
  <2>1. UseInv
    BY Zenon DEF FlockInv
  <2> QED
    BY <2>1, Zenon DEF UseInv
<1>5. \A e \in s.msgs \ r.store.msgs : e.msg.uid \in acked
  BY <1>0, <1>2, <1>4, Zenon DEF IdsAgree
<1>6. Uids(s.msgs) \subseteq Uids(r.store.msgs) \cup acked
  BY <1>5, Zenon DEF Uids
<1>7. Agrees(n, r.store, b + Cardinality(Slots(log, i)), i)
  BY <1>0, <1>1, <1>3, <1>6, PublishesNothing, Zenon
<1>8. b + Cardinality(Slots(log, i)) = b
  BY <1>1, FewSlots, Zenon
<1> QED
  BY <1>0, <1>7, <1>8, Zenon DEF Follows

\* A consume follows the log: it moves messages and delivers them under the ids
\* that they have.
LEMMA ConsumeFollows ==
  ASSUME FlockInv, NEW n \in Nodes, NEW i \in 1..Len(log), i > 1, log[i].type = "consume",
         NEW s \in Store, NEW b \in Nat, Agrees(n, s, b, i - 1),
         NEW r, ConsumeResult(r, s, b, log[i].max)
  PROVE  Follows(n, r, i)
<1>0. /\ SameMessages(r.store, s) /\ r.nextId = b /\ r.stored = {}
      /\ r.store.dedup = s.dedup
      /\ r.out = {[tag |-> e.id, uid |-> e.msg.uid] : e \in FirstOf(s, log[i].max)}
  BY Zenon DEF ConsumeResult
<1>1. ~Publishes(log, i) /\ Slots(log, i) = {}
  BY DEF Publishes, Slots
<1>2. IdsAgree(s)
  BY Zenon DEF Agrees
<1>3. IdsAgree(r.store)
  <2>1. ASSUME NEW f \in r.store.msgs
        PROVE  /\ f.id < IdGap => Named(f.id, f.msg.uid)
               /\ \A d \in handed : d.tag = f.id => d.uid = f.msg.uid
    <3>1. PICK e \in s.msgs : e.id = f.id /\ e.msg = f.msg
      BY <1>0, Zenon DEF SameMessages
    <3> QED
      BY <1>2, <3>1, Zenon DEF IdsAgree
  <2> QED
    BY <2>1, Zenon DEF IdsAgree
<1>4. Uids(s.msgs) \subseteq Uids(r.store.msgs) \cup acked
  <2>1. ASSUME NEW e \in s.msgs PROVE e.msg.uid \in Uids(r.store.msgs)
    <3>1. PICK f \in r.store.msgs : e.id = f.id /\ e.msg = f.msg
      BY <1>0, Zenon DEF SameMessages
    <3> QED
      BY <3>1, Zenon DEF Uids
  <2> QED
    BY <2>1, Zenon DEF Uids
<1>5. Agrees(n, r.store, b + Cardinality(Slots(log, i)), i)
  BY <1>0, <1>1, <1>3, <1>4, PublishesNothing, Zenon
<1>6. b + Cardinality(Slots(log, i)) = b
  BY <1>1, FewSlots, Zenon
<1>7. ASSUME NEW o \in r.out
      PROVE  \E e \in r.store.msgs : o.tag = e.id /\ o.uid = e.msg.uid
  <2>1. PICK e \in FirstOf(s, log[i].max) : o = [tag |-> e.id, uid |-> e.msg.uid]
    BY <1>0, <1>7, Zenon
  <2>2. e \in s.msgs
    BY Zenon DEF FirstOf, In
  <2>3. PICK f \in r.store.msgs : e.id = f.id /\ e.msg = f.msg
    BY <1>0, <2>2, Zenon DEF SameMessages
  <2>4. o.tag = e.id /\ o.uid = e.msg.uid
    BY <2>1
  <2> QED
    BY <2>3, <2>4, Zenon
<1> QED
  BY <1>0, <1>5, <1>6, <1>7, Zenon DEF Follows

\* A nack follows the log: every node that was not restarted gives the message
\* the same new id.
LEMMA NackFollows ==
  ASSUME FlockInv, TagsAgree, Cardinality(restarted) <= 1,
         NEW n \in Nodes, NEW i \in 1..Len(log), i > 1, log[i].type = "nack",
         NEW s \in Store, NEW b \in Nat, b = node[n].nextId, Agrees(n, s, b, i - 1),
         NEW r, NackResult(r, s, b, log[i].tag)
  PROVE  Follows(n, r, i)
<1>0. /\ Returned(r.store, s, log[i].tag, b) /\ r.nextId = b + 1 /\ r.stored = {}
      /\ r.store.dedup = s.dedup /\ r.out = {}
  BY Zenon DEF NackResult
<1>1. ~Publishes(log, i) /\ Slots(log, i) = {0}
  BY DEF Publishes, Slots
<1>2. IdsAgree(s)
  BY Zenon DEF Agrees
<1>3. IdGap \in Nat
  BY FlockAssumption
<1>4. /\ i \in Nat \ {0} /\ i <= MaxLog /\ Slots(log, i) \in SUBSET (0..MaxUids)
      /\ MaxLog \in Nat /\ i - 1 \in Nat /\ i - 1 <= MaxLog
  <2>1. /\ i \in Nat \ {0} /\ i <= MaxLog /\ Slots(log, i) \in SUBSET (0..MaxUids)
    BY SlotsInRange, Zenon
  <2>2. MaxLog \in Nat
    BY FlockAssumption
  <2> QED
    BY <2>1, <2>2
<1>5. n \notin restarted => b = Base(log, i - 1) /\ b < IdGap
  BY <1>4, BaseBound, Zenon DEF Agrees
<1>6. IdAt(log, i, 0) = Base(log, i - 1)
  <2>1. {j \in Slots(log, i) : j < 0} = {}
    BY <1>1
  <2>2. Base(log, i - 1) \in Nat
    BY <1>4, BaseBound, Zenon
  <2>3. Cardinality({j \in Slots(log, i) : j < 0}) = 0
    BY <2>1, FS_EmptySet, Zenon
  <2>4. IdAt(log, i, 0) = Base(log, i - 1) + 0
    BY <2>3, Zenon DEF IdAt
  <2> QED
    BY <2>2, <2>4
<1>7. ASSUME NEW e \in s.msgs, e.id = log[i].tag
      PROVE  /\ b < IdGap => Named(b, e.msg.uid)
             /\ \A d \in handed : d.tag = b => d.uid = e.msg.uid
  <2>1. PICK d \in handed : d.tag = log[i].tag
    <3>1. UseInv
      BY Zenon DEF FlockInv
    <3> QED
      BY <3>1, Zenon DEF UseInv
  <2>2. d.uid = e.msg.uid
    BY <1>2, <1>7, <2>1, Zenon DEF IdsAgree
  <2>3. ASSUME b < IdGap PROVE Named(b, e.msg.uid)
    <3>1. n \notin restarted
      BY <1>3, <2>3 DEF Agrees
    <3>2. IdAt(log, i, 0) = b
      BY <1>5, <1>6, <3>1, Zenon
    <3> QED
      BY <2>1, <2>2, <3>2, Zenon DEF Named, NamedByNack
  <2>4. ASSUME b >= IdGap PROVE restarted \subseteq {n} /\ node[n].nextId <= b
    <3>1. n \in restarted
      BY <1>3, <1>5, <2>4
    <3>2. IsFiniteSet(restarted)
      BY Zenon DEF FlockInv
    <3>3. restarted = {n}
      BY <3>1, <3>2, AtMostOne, Zenon
    <3> QED
      BY <3>3
  <2> DEFINE u == e.msg.uid
  <2> HIDE DEF u
  <2>5. MayName(n, b, u)
    BY <2>3, <2>4, Zenon DEF u, MayName
  <2>6. \A f \in handed : f.tag = b => f.uid = u
    BY <2>5, NewId
  <2> QED
    BY <2>3, <2>6, Zenon DEF u
<1>8. IdsAgree(r.store) /\ Uids(s.msgs) \subseteq Uids(r.store.msgs) \cup acked
  <2>1. CASE r.store = s
    BY <1>2, <2>1, Zenon
  <2>2. CASE \E e \in In(s, "inflight", Q), f \in EntryType :
               /\ e.id = log[i].tag /\ f.id = b /\ f.msg.uid = e.msg.uid
               /\ r.store.msgs = (s.msgs \ {e}) \cup {f}
    <3>1. PICK e \in In(s, "inflight", Q), f \in EntryType :
               /\ e.id = log[i].tag /\ f.id = b /\ f.msg.uid = e.msg.uid
               /\ r.store.msgs = (s.msgs \ {e}) \cup {f}
      BY <2>2, Zenon
    <3>2. e \in s.msgs
      BY Zenon DEF In
    <3>3. /\ f.id < IdGap => Named(f.id, f.msg.uid)
          /\ \A d \in handed : d.tag = f.id => d.uid = f.msg.uid
      BY <1>7, <3>1, <3>2, Zenon
    <3>4. IdsAgree(r.store)
      BY <1>2, <3>1, <3>3, Zenon DEF IdsAgree
    <3>5. Uids(s.msgs) \subseteq Uids(r.store.msgs)
      BY <3>1 DEF Uids
    <3> QED
      BY <3>4, <3>5, Zenon
  <2> QED
    BY <1>0, <2>1, <2>2, Zenon DEF Returned
<1>9. Agrees(n, r.store, b + Cardinality(Slots(log, i)), i)
  BY <1>0, <1>1, <1>8, PublishesNothing, Zenon
<1>10. b + Cardinality(Slots(log, i)) = b + 1
  BY <1>1, FewSlots, Zenon
<1> QED
  BY <1>0, <1>9, <1>10, Zenon DEF Follows

\* The declaration follows the log: it is its first entry.
LEMMA DeclareFollows ==
  ASSUME FlockInv, NEW n \in Nodes, 1 \in 1..Len(log), log[1].type = "declare",
         NEW s, NEW b \in Nat, Agrees(n, s, b, 0),
         NEW r, DeclareResult(r, b, log[1].policy)
  PROVE  Follows(n, r, 1)
<1>0. /\ r.store.msgs = {} /\ r.store.dedup = {} /\ r.nextId = b /\ r.stored = {} /\ r.out = {}
  BY Zenon DEF DeclareResult
<1>1. ~Publishes(log, 1) /\ Slots(log, 1) = {}
  BY DEF Publishes, Slots
<1>2. \A j \in 1..1 : ~Publishes(log, j)
  BY <1>1
<1>3. KeysKnown(r.store, 1)
  <2>1. {k \in 1..1 : Publishes(log, k)} = {} /\ {d.key : d \in r.store.dedup} = {}
    BY <1>0, <1>2, Zenon
  <2>2. {KeyOf(log, j) : j \in {k \in 1..1 : Publishes(log, k)}} = {}
    BY <2>1, Zenon
  <2> QED
    BY <2>1, <2>2, Zenon DEF KeysKnown
<1>4. IdsAgree(r.store) /\ Keeps(r.store, 1)
  BY <1>0, <1>2, Zenon DEF IdsAgree, Keeps
<1>5. /\ n \notin restarted => b = Base(log, 1 - 1)
      /\ n \in restarted => b >= IdGap
  BY DEF Agrees
<1>6. /\ n \notin restarted => b + Cardinality(Slots(log, 1)) = Base(log, 1)
      /\ n \in restarted => b + Cardinality(Slots(log, 1)) >= IdGap
  BY <1>5, NextIdFollows, Zenon
<1>7. b + Cardinality(Slots(log, 1)) = b
  BY <1>1, FewSlots, Zenon
<1> QED
  <2>1. (n \notin restarted => b = Base(log, 1)) /\ (n \in restarted => b >= IdGap)
    BY <1>6, <1>7, Zenon
  <2>2. Agrees(n, r.store, b, 1)
    BY <1>3, <1>4, <2>1, Zenon DEF Agrees
  <2> QED
    BY <1>0, <2>2, Zenon DEF Follows

\* At t every dedup window that began is open.
Open(t) ==
  \A p \in Policies : p.dedup_window_secs # None => t < p.dedup_window_secs * MsPerSec

\* A batch of the log.
LEMMA BatchFacts ==
  ASSUME FlockInv, NEW i \in 1..Len(log), Publishes(log, i)
  PROVE  LET M == log[i].msgs
         IN  /\ i > 1 /\ log[1].policy \in Policies
             /\ M \in Seq(Plain) /\ Len(M) \in Nat /\ 1 \in DOMAIN M /\ DOMAIN M = 1..Len(M)
             /\ \A k \in DOMAIN M : M[k].dedup_key = KeyOf(log, i)
<1>0. LogInv /\ log \in Seq(Operation) /\ Len(log) \in Nat /\ MaxUids \in Nat
  <2>1. LogInv
    BY Zenon DEF FlockInv
  <2> QED
    BY <2>1, NodeFacts, LowestIsNode, Zenon
<1>1. 1 \in 1..Len(log) /\ i \in Nat
  BY <1>0
<1>2. log[1].type = "declare" /\ (log[i].type = "declare" <=> i = 1)
  BY <1>0, <1>1, Zenon DEF LogInv
<1>3. i > 1
  BY <1>1, <1>2 DEF Publishes
<1>4. log[1].policy \in Policies
  <2>1. log[1] \in Operation
    BY <1>0, <1>1
  <2> QED
    BY <1>2, <2>1, OperationFields, Zenon
<1>5. /\ log[i].msgs \in Seq(Plain) /\ Len(log[i].msgs) \in 1..MaxUids
      /\ \A k \in DOMAIN log[i].msgs : log[i].msgs[k].dedup_key = KeyOf(log, i)
  BY <1>0, SlotsInRange, Zenon DEF LogInv
<1>6. DOMAIN log[i].msgs = 1..Len(log[i].msgs) /\ Len(log[i].msgs) \in Nat
  BY <1>5
<1>7. 1 \in DOMAIN log[i].msgs
  BY <1>0, <1>5, <1>6
<1> QED
  BY <1>3, <1>4, <1>5, <1>6, <1>7, Zenon

\* While the windows are open a replica stores what the log says: its own
\* clock does not matter.
LEMMA StoredIsChosen ==
  ASSUME FlockInv, NEW i \in 1..Len(log), Publishes(log, i),
         NEW s \in Store, NEW b, Sound(s, b), PolicyOf(s, Q) = log[1].policy, KeysKnown(s, i - 1),
         NEW t \in Nat, Open(t)
  PROVE  Stored(s, Q, log[i].msgs, t) = Chosen(log, i)
<1> DEFINE M == log[i].msgs
           w == Window(log)
           key == KeyOf(log, i)
<1>1. /\ i > 1 /\ log[1].policy \in Policies
      /\ M \in Seq(Plain) /\ Len(M) \in Nat /\ 1 \in DOMAIN M /\ DOMAIN M = 1..Len(M)
      /\ \A k \in DOMAIN M : M[k].dedup_key = key
  BY BatchFacts, Zenon
<1>2. PolicyOf(s, Q).dedup_window_secs = w
  BY DEF Window
<1>3. w # None => w \in Nat /\ t < w * MsPerSec /\ w > 0
  <2>1. log[1].policy \in PolicyType
    BY <1>1, StoreAssumption
  <2>2. w \in Nat \cup {None}
    BY <2>1 DEF PolicyType, OptNat, Window
  <2>3. w # None => t < w * MsPerSec
    BY <1>1, Zenon DEF Open, Window
  <2>4. MsPerSec \in Nat \ {0}
    BY StoreAssumption
  <2> HIDE DEF w
  <2> QED
    BY <2>2, <2>3, <2>4
<1> HIDE DEF w, key
<1>4. ASSUME NEW k \in DOMAIN M, w # None, key # None
      PROVE  IsDuplicate(s, Q, M[k], t) <=> Repeated(log, i)
  <2>1. \A d \in s.dedup : d.queue = Q /\ d.at > t - w * MsPerSec
    <3>1. \A d \in s.dedup : d.queue = Q /\ d.at >= 0 /\ d.at \in Int
      BY DEF Sound, Store, DedupRecord
    <3>2. MsPerSec \in Nat /\ w * MsPerSec \in Nat
      BY <1>3, <1>4, StoreAssumption
    <3> QED
      BY <1>3, <1>4, <3>1, <3>2
  <2>2. IsDuplicate(s, Q, M[k], t) <=> \E d \in s.dedup : d.key = key
    BY <1>1, <1>2, <1>3, <1>4, <2>1, Zenon DEF IsDuplicate
  <2>3. i - 1 > 0
    BY <1>1
  <2>4. {d.key : d \in s.dedup}
          = {KeyOf(log, j) : j \in {l \in 1..(i - 1) : Publishes(log, l)}} \ {None}
    BY <1>4, <2>3, Zenon DEF KeysKnown, w
  <2>5. (\E d \in s.dedup : d.key = key)
          <=> \E j \in 1..(i - 1) : Publishes(log, j) /\ KeyOf(log, j) = key
    BY <1>4, <2>4, Zenon
  <2> QED
    BY <2>2, <2>5, Zenon DEF Repeated, key
<1> DEFINE Repeats(k) == /\ w # None /\ w > 0
                         /\ M[k].dedup_key # None
                         /\ \E j \in 1..(k - 1) : M[j].dedup_key = M[k].dedup_key
<1>5. Stored(s, Q, M, t) = {k \in DOMAIN M : ~IsDuplicate(s, Q, M[k], t) /\ ~Repeats(k)}
  BY <1>2, Zenon DEF Stored
<1>6. ASSUME NEW k \in DOMAIN M, w # None, key # None
      PROVE  Repeats(k) <=> k # 1
  <2>1. k \in Nat /\ (k # 1 => 1 \in 1..(k - 1)) /\ (k = 1 => 1..(k - 1) = {})
    BY <1>1
  <2>2. M[k].dedup_key = key /\ M[1].dedup_key = key
    BY <1>1, Zenon
  <2> QED
    BY <1>3, <1>6, <2>1, <2>2, Zenon
<1>7. ASSUME NEW k \in DOMAIN M, w = None \/ key = None
      PROVE  ~IsDuplicate(s, Q, M[k], t) /\ ~Repeats(k)
  BY <1>1, <1>2, <1>7, Zenon DEF IsDuplicate
<1>8. Chosen(log, i) = {k \in DOMAIN M : w = None \/ key = None \/ (k = 1 /\ ~Repeated(log, i))}
  BY Zenon DEF Chosen, w, key
<1> HIDE DEF Repeats, M
<1>9. \A k \in DOMAIN M : (~IsDuplicate(s, Q, M[k], t) /\ ~Repeats(k))
                            <=> (w = None \/ key = None \/ (k = 1 /\ ~Repeated(log, i)))
  BY <1>4, <1>6, <1>7, Zenon
<1>10. Stored(s, Q, M, t) = Chosen(log, i)
  BY <1>5, <1>8, <1>9, Zenon
<1> QED
  BY <1>10, Zenon DEF M

\* The records that a batch leaves are those of the keys that the log has by
\* then.
LEMMA KeysFollow ==
  ASSUME FlockInv, NEW i \in 1..Len(log), Publishes(log, i),
         NEW s \in Store, NEW b, Sound(s, b), PolicyOf(s, Q) = log[1].policy, KeysKnown(s, i - 1),
         NEW w, NEW t, Recorded(w, s, log[i].msgs, Chosen(log, i), t)
  PROVE  KeysKnown(w, i)
<1> SUFFICES ASSUME i > 0, Window(log) # None
             PROVE  {d.key : d \in w.dedup}
                      = {KeyOf(log, j) : j \in {k \in 1..i : Publishes(log, k)}} \ {None}
  BY Zenon DEF KeysKnown
<1> DEFINE M == log[i].msgs
           S == Chosen(log, i)
           key == KeyOf(log, i)
           Known == {KeyOf(log, j) : j \in {k \in 1..(i - 1) : Publishes(log, k)}}
           Last == {k \in S : \A j \in S : j > k => M[j].dedup_key # M[k].dedup_key}
           K == {m \in {M[k] : k \in Last} : m.dedup_key # None}
           Old == {d.key : d \in s.dedup}
           New == {m.dedup_key : m \in K}
<1>1. /\ i > 1 /\ 1 \in DOMAIN M /\ DOMAIN M = 1..Len(M) /\ Len(M) \in Nat
      /\ \A k \in DOMAIN M : M[k].dedup_key = key
  BY BatchFacts, Zenon
<1>2. Old = Known \ {None}
  <2>1. i - 1 > 0
    BY <1>1
  <2> QED
    BY <2>1, Zenon DEF KeysKnown
<1>3. {KeyOf(log, j) : j \in {k \in 1..i : Publishes(log, k)}} = Known \cup {key}
  <2>1. \A j : j \in 1..i <=> j \in 1..(i - 1) \/ j = i
    BY <1>1
  <2> QED
    BY <2>1, Zenon
<1>4. w.dedup = {d \in s.dedup : ~(d.queue = Q /\ \E m \in K : d.key = m.dedup_key)}
                  \cup {[queue |-> Q, key |-> m.dedup_key, at |-> t, by |-> m.uid] : m \in K}
  <2>1. PolicyOf(s, Q).dedup_window_secs # None
    BY Zenon DEF Window
  <2> QED
    BY <2>1, Zenon DEF Recorded
<1> HIDE DEF K
<1>5. {d.key : d \in w.dedup} = Old \cup New
  <2>1. \A d \in s.dedup : d.queue = Q
    BY Zenon DEF Sound
  <2>2. ASSUME NEW d \in w.dedup PROVE d.key \in Old \cup New
    BY <1>4
  <2>3. ASSUME NEW m \in K PROVE \E d \in w.dedup : d.key = m.dedup_key
    <3> DEFINE d == [queue |-> Q, key |-> m.dedup_key, at |-> t, by |-> m.uid]
    <3>1. d \in w.dedup
      BY <1>4, Zenon
    <3>2. d.key = m.dedup_key
      OBVIOUS
    <3> QED
      BY <3>1, <3>2, Zenon
  <2>4. ASSUME NEW d \in s.dedup PROVE \E c \in w.dedup : c.key = d.key
    <3>1. CASE \E m \in K : d.key = m.dedup_key
      BY <2>3, <3>1, Zenon
    <3>2. CASE ~\E m \in K : d.key = m.dedup_key
      BY <1>4, <3>2, Zenon
    <3> QED
      BY <3>1, <3>2, Zenon
  <2>5. {d.key : d \in w.dedup} \subseteq Old \cup New
    BY <2>2, Zenon
  <2>6. \A x \in New : x \in {d.key : d \in w.dedup}
    BY <2>3, Zenon
  <2>7. \A x \in Old : x \in {d.key : d \in w.dedup}
    BY <2>4, Zenon
  <2> QED
    BY <2>5, <2>6, <2>7, Zenon
<1>6. New \subseteq {key} \ {None}
  <2>1. S \subseteq DOMAIN M
    BY Zenon DEF Chosen
  <2>2. ASSUME NEW m \in K PROVE m.dedup_key = key /\ m.dedup_key # None
    <3>1. PICK k \in Last : m = M[k]
      BY <2>2, Zenon DEF K
    <3>2. M[k].dedup_key = key
      BY <1>1, <2>1, Zenon
    <3> QED
      BY <2>2, <3>1, <3>2, Zenon DEF K
  <2> QED
    BY <2>2, Zenon
<1>7. ASSUME key # None PROVE key \in Old \cup New
  <2>1. CASE Repeated(log, i)
    BY <1>2, <1>7, <2>1, Zenon DEF Repeated
  <2>2. CASE ~Repeated(log, i)
    <3>1. 1 \in S /\ \A k \in S : k = 1
      BY <1>1, <1>7, <2>2, Zenon DEF Chosen
    <3>2. 1 \in Last
      <4>1. \A j \in S : ~(j > 1)
        BY <3>1
      <4> QED
        BY <3>1, <4>1, Zenon
    <3>3. M[1] \in K /\ M[1].dedup_key = key
      BY <1>1, <1>7, <3>2, Zenon DEF K
    <3> QED
      BY <3>3, Zenon
  <2> QED
    BY <2>1, <2>2, Zenon
<1> HIDE DEF Old, New, Known, key
<1>8. Old \cup New = (Known \cup {key}) \ {None}
  BY <1>2, <1>6, <1>7
<1> QED
  BY <1>3, <1>5, <1>8, Zenon
\* The ids that a replica gives to the messages of a batch.
LEMMA BatchIds ==
  ASSUME FlockInv, TagsAgree, Cardinality(restarted) <= 1,
         NEW n \in Nodes, NEW i \in 1..Len(log), Publishes(log, i),
         NEW s \in Store, NEW b \in Nat, Sound(s, b), b = node[n].nextId, Agrees(n, s, b, i - 1),
         NEW f \in AddedSet(log[i].msgs, Chosen(log, i), b)
  PROVE  /\ f.id < IdGap => Named(f.id, f.msg.uid)
         /\ \A d \in handed : d.tag = f.id => d.uid = f.msg.uid
<1> DEFINE M == log[i].msgs
           S == Chosen(log, i)
<1>1. /\ i \in Nat \ {0} /\ i <= MaxLog /\ Slots(log, i) = S /\ S \in SUBSET (DOMAIN M)
      /\ M \in Seq(Plain)
  BY SlotsInRange, Zenon
<1>2. IdGap \in Nat
  BY FlockAssumption
<1>3. PICK k \in S : f = Added(M, S, b, k)
  BY Zenon DEF AddedSet
<1>4. f.id = b + Cardinality(Below(S, k)) /\ f.id >= b /\ f.msg = M[k]
  <2> HIDE DEF M, S
  <2>1. Numbered(M, S, b)
    BY <1>1, AddedEntries, Zenon
  <2> QED
    BY <1>3, <2>1, Zenon DEF Numbered
<1>5. f.id \in Nat
  <2>1. AddedSet(M, S, b) \subseteq EntryType
    <3> HIDE DEF M, S
    <3> QED
      BY <1>1, AddedEntries, Zenon
  <2> QED
    BY <2>1 DEF EntryType
<1>6. ASSUME f.id < IdGap PROVE Named(f.id, f.msg.uid)
  <2>1. n \notin restarted
    BY <1>2, <1>4, <1>5, <1>6 DEF Agrees
  <2>2. b = Base(log, i - 1)
    BY <2>1, Zenon DEF Agrees
  <2>3. f.id = IdAt(log, i, k)
    BY <1>1, <1>4, <2>2, Zenon DEF IdAt, Below
  <2> QED
    BY <1>4, <2>3, Zenon DEF Named, NamedByPublish
<1>7. ASSUME f.id >= IdGap PROVE restarted \subseteq {n} /\ node[n].nextId <= f.id
  <2>1. n \in restarted
    <3>1. SUFFICES ASSUME n \notin restarted PROVE FALSE
      BY Zenon
    <3>2. b = Base(log, i - 1)
      BY <3>1, Zenon DEF Agrees
    <3>3. f.id = IdAt(log, i, k)
      BY <1>1, <1>4, <3>2, Zenon DEF IdAt, Below
    <3>4. Slots(log, i) \in SUBSET (0..MaxUids)
      BY SlotsInRange, Zenon
    <3>5. IdAt(log, i, k) < Base(log, i)
      BY <1>1, <3>4, IdRange, Zenon
    <3>6. Base(log, i) < IdGap /\ Base(log, i) \in Nat
      BY <1>1, BaseBound, Zenon
    <3> QED
      BY <1>2, <1>5, <1>7, <3>3, <3>5, <3>6
  <2>2. IsFiniteSet(restarted)
    BY Zenon DEF FlockInv
  <2>3. restarted = {n}
    BY <2>1, <2>2, AtMostOne, Zenon
  <2> QED
    BY <1>4, <2>3
<1>8. MayName(n, f.id, f.msg.uid)
  BY <1>6, <1>7, Zenon DEF MayName
<1>9. \A d \in handed : d.tag = f.id => d.uid = f.msg.uid
  BY <1>5, <1>8, NewId
<1> QED
  BY <1>6, <1>9, Zenon

\* A publish follows the log.
LEMMA PublishFollows ==
  ASSUME FlockInv, TagsAgree, Cardinality(restarted) <= 1,
         NEW n \in Nodes, NEW i \in 1..Len(log), Publishes(log, i),
         NEW s \in Store, NEW b \in Nat, Sound(s, b), b = node[n].nextId, Agrees(n, s, b, i - 1),
         PolicyOf(s, Q) = log[1].policy,
         NEW t \in Nat, Open(t),
         NEW r, PublishResult(r, s, b, log[i].msgs, Stored(s, Q, log[i].msgs, t), t)
  PROVE  Follows(n, r, i)
<1> DEFINE M == log[i].msgs
           S == Chosen(log, i)
<1>1. /\ i \in Nat \ {0} /\ Slots(log, i) = S /\ S \in SUBSET (DOMAIN M) /\ M \in Seq(Plain)
  BY SlotsInRange, Zenon
<1>2. KeysKnown(s, i - 1) /\ IdsAgree(s) /\ Keeps(s, i - 1)
  BY Zenon DEF Agrees
<1>3. Stored(s, Q, M, t) = S
  BY <1>2, StoredIsChosen, Zenon
<1>4. PublishResult(r, s, b, M, S, t)
  BY <1>3, Zenon
<1>5. /\ r.nextId = b + Cardinality(S) /\ r.stored = {M[k].uid : k \in S} /\ r.out = {}
      /\ r.store.msgs = s.msgs \cup AddedSet(M, S, b)
      /\ Recorded(r.store, s, M, S, t)
  BY <1>4, Zenon DEF PublishResult
<1>6. KeysKnown(r.store, i)
  BY <1>2, <1>5, KeysFollow, Zenon
<1>7. IdsAgree(r.store)
  <2>1. \A f \in AddedSet(M, S, b) : /\ f.id < IdGap => Named(f.id, f.msg.uid)
                                     /\ \A d \in handed : d.tag = f.id => d.uid = f.msg.uid
    BY BatchIds
  <2> QED
    BY <1>2, <1>5, <2>1, Zenon DEF IdsAgree
<1>8. Keeps(r.store, i)
  <2>1. ASSUME NEW j \in 1..i, Publishes(log, j), NEW k \in Chosen(log, j)
        PROVE  log[j].msgs[k].uid \in acked \/ log[j].msgs[k].uid \in Uids(r.store.msgs)
    <3>1. CASE j = i
      <4>1. Added(M, S, b, k) \in r.store.msgs
        BY <1>5, <2>1, <3>1, Zenon DEF AddedSet
      <4>2. Added(M, S, b, k).msg = log[j].msgs[k]
        <5> HIDE DEF M, S
        <5>1. k \in S
          BY <2>1, <3>1, Zenon DEF S
        <5>2. Numbered(M, S, b)
          BY <1>1, AddedEntries, Zenon
        <5> QED
          BY <3>1, <5>1, <5>2, Zenon DEF M, Numbered
      <4> QED
        BY <4>1, <4>2, Zenon DEF Uids
    <3>2. CASE j # i
      <4>1. j \in 1..(i - 1)
        BY <1>1, <3>2
      <4>2. log[j].msgs[k].uid \in acked \/ log[j].msgs[k].uid \in Uids(s.msgs)
        BY <1>2, <2>1, <4>1, Zenon DEF Keeps
      <4> QED
        BY <1>5, <4>2, Zenon DEF Uids
    <3> QED
      BY <3>1, <3>2, Zenon
  <2> QED
    BY <2>1, Zenon DEF Keeps
<1>9. /\ n \notin restarted => r.nextId = Base(log, i)
      /\ n \in restarted => r.nextId >= IdGap
  <2>1. /\ n \notin restarted => b = Base(log, i - 1)
        /\ n \in restarted => b >= IdGap
    BY Zenon DEF Agrees
  <2>2. /\ n \notin restarted => b + Cardinality(Slots(log, i)) = Base(log, i)
        /\ n \in restarted => b + Cardinality(Slots(log, i)) >= IdGap
    BY <2>1, NextIdFollows, Zenon
  <2> QED
    BY <1>1, <1>5, <2>2, Zenon
<1>10. Agrees(n, r.store, r.nextId, i)
  BY <1>6, <1>7, <1>8, <1>9, Zenon DEF Agrees
<1>11. \A u \in r.stored : StoredAt(i, u)
  BY <1>5, Zenon DEF StoredAt
<1> QED
  BY <1>5, <1>10, <1>11, Zenon DEF Follows

\* A node that applies the next entry follows the log.
LEMMA ApplyFollows ==
  ASSUME FlockInv, TagsAgree, Cardinality(restarted) <= 1,
         NEW n \in Nodes, node[n].applied < Len(log), NEW now \in Nat, Open(now),
         Agrees(n, node[n].store, node[n].nextId, node[n].applied)
  PROVE  LET i == node[n].applied + 1
         IN  Follows(n, ApplyOperation(n, log[i], now), i)
<1> DEFINE i == node[n].applied + 1
           s == node[n].store
           b == node[n].nextId
           r == ApplyOperation(n, log[i], now)
<1>1. /\ s \in Store /\ b \in Nat /\ Sound(s, b) /\ node[n].applied \in Nat
  BY NodeFacts, Zenon
<1>2. /\ i \in 1..Len(log) /\ log[i] \in Operation
      /\ log[i].type = "declare" <=> i = 1
      /\ i # 1 => s.queues = {Q} /\ PolicyOf(s, Q) = log[1].policy
      /\ Outcome(r, log[i], s, b, now)
  BY ApplyOutcome, Zenon
<1>3. i - 1 = node[n].applied /\ (i # 1 => i > 1)
  BY <1>1
<1>4. Agrees(n, s, b, i - 1)
  BY <1>3, Zenon
<1>5. b = node[n].nextId
  OBVIOUS
<1> HIDE DEF i, s, b, r
<1>6. CASE log[i].type = "declare"
  <2>1. i = 1 /\ log[1].type = "declare" /\ DeclareResult(r, b, log[1].policy) /\ 1 \in 1..Len(log)
    BY <1>2, <1>6, Zenon DEF Outcome
  <2>2. i - 1 = 0
    BY <2>1
  <2>3. Agrees(n, s, b, 0)
    BY <1>4, <2>2, Zenon
  <2>4. Follows(n, r, 1)
    BY <1>1, <2>1, <2>3, DeclareFollows, Zenon
  <2> QED
    BY <2>1, <2>4, Zenon DEF i, r
<1>7. CASE log[i].type = "publish"
  <2>1. PublishResult(r, s, b, log[i].msgs, Stored(s, Q, log[i].msgs, now), now)
    BY <1>2, <1>7, Zenon DEF Outcome
  <2>2. Publishes(log, i) /\ i # 1
    BY <1>2, <1>7 DEF Publishes
  <2>3. Follows(n, r, i)
    BY <1>1, <1>2, <1>4, <1>5, <2>1, <2>2, PublishFollows, Zenon
  <2> QED
    BY <2>3, Zenon DEF i, r
<1>8. CASE log[i].type = "consume"
  <2>1. ConsumeResult(r, s, b, log[i].max) /\ i # 1
    BY <1>2, <1>8, Zenon DEF Outcome
  <2>2. Follows(n, r, i)
    BY <1>1, <1>2, <1>3, <1>4, <1>8, <2>1, ConsumeFollows, Zenon
  <2> QED
    BY <2>2, Zenon DEF i, r
<1>9. CASE log[i].type = "ack"
  <2>1. AckResult(r, s, b, log[i].tag) /\ i # 1
    BY <1>2, <1>9, Zenon DEF Outcome
  <2>2. Follows(n, r, i)
    BY <1>1, <1>2, <1>3, <1>4, <1>9, <2>1, AckFollows, Zenon
  <2> QED
    BY <2>2, Zenon DEF i, r
<1>10. CASE log[i].type = "nack"
  <2>1. NackResult(r, s, b, log[i].tag) /\ i # 1
    BY <1>2, <1>10, Zenon DEF Outcome
  <2>2. Follows(n, r, i)
    BY <1>1, <1>2, <1>3, <1>4, <1>5, <1>10, <2>1, NackFollows, Zenon
  <2> QED
    BY <2>2, Zenon DEF i, r
<1> QED
  BY <1>2, <1>6, <1>7, <1>8, <1>9, <1>10, Zenon DEF Outcome

\* The cluster was steady before it is.
LEMMA SteadyBefore ==
  ASSUME FlockInv, FlockInv', Steady', restarted \subseteq restarted',
         \A m \in Nodes : node[m].clock <= node'[m].clock
  PROVE  Steady /\ \A m \in Nodes : Open(node'[m].clock)
<1>1. \A m \in Nodes : node[m].clock \in Nat /\ node'[m].clock \in Nat
  <2>1. MaxTime \in Nat
    BY FlockAssumption
  <2>2. \A m \in Nodes : node[m].clock \in 0..MaxTime /\ node'[m].clock \in 0..MaxTime
    <3>1. node \in [Nodes -> NodeType] /\ node' \in [Nodes -> NodeType]
      BY Zenon DEF FlockInv, TypeOK, NodeType
    <3> QED
      BY <3>1 DEF NodeType
  <2> QED
    BY <2>1, <2>2
<1>2. ASSUME NEW p \in Policies, NEW m \in Nodes, p.dedup_window_secs # None
      PROVE  /\ node[m].clock < p.dedup_window_secs * MsPerSec
             /\ node'[m].clock < p.dedup_window_secs * MsPerSec
  <2>1. p.dedup_window_secs \in Nat /\ MsPerSec \in Nat
    BY <1>2, StoreAssumption DEF PolicyType, OptNat
  <2>2. node'[m].clock < p.dedup_window_secs * MsPerSec
    BY <1>2, Zenon DEF Steady, WindowsOpen
  <2>3. p.dedup_window_secs * MsPerSec \in Nat
    BY <2>1
  <2> QED
    BY <1>1, <2>2, <2>3
<1>3. Cardinality(restarted) <= 1
  <2>1. IsFiniteSet(restarted') /\ Cardinality(restarted') <= 1
    BY Zenon DEF FlockInv, Steady
  <2>2. Cardinality(restarted) <= Cardinality(restarted') /\ IsFiniteSet(restarted)
    BY <2>1, FS_Subset
  <2>3. Cardinality(restarted) \in Nat /\ Cardinality(restarted') \in Nat
    BY <2>1, <2>2, FS_CardinalityType
  <2> QED
    BY <2>1, <2>2, <2>3
<1> QED
  BY <1>2, <1>3, Zenon DEF Steady, WindowsOpen, Open

\* The state after a step that leaves the log alone: what the log up to now
\* says of the new stores, and where what is handed out comes from.
Delivering(n) ==
  /\ log' = log /\ acked' = acked /\ restarted' = restarted /\ handed \subseteq handed'
  /\ \A m \in Nodes : /\ Agrees(m, node'[m].store, node'[m].nextId, node'[m].applied)
                      /\ node[m].nextId <= node'[m].nextId
  /\ \A d \in handed' : \/ d \in handed
                        \/ \E e \in node'[n].store.msgs : d.tag = e.id /\ d.uid = e.msg.uid

\* Names are kept.
LEMMA NamesStay ==
  ASSUME log' = log, handed \subseteq handed', NEW id, NEW u, Named(id, u)
  PROVE  Named(id, u)'
<1>1. CASE NamedByPublish(log, id, u)
  BY <1>1, Zenon DEF Named
<1>2. CASE NamedByNack(log, handed, id, u)
  <2>1. NamedByNack(log, handed', id, u)
    BY <1>2, Zenon DEF NamedByNack
  <2> QED
    BY <2>1, Zenon DEF Named
<1> QED
  BY <1>1, <1>2, Zenon DEF Named

\* Only nodes that were restarted have ids beyond those of the log.
LEMMA BeyondLog ==
  ASSUME FlockInv, FlockInv', NEW n \in Nodes, Delivering(n), NEW m \in Nodes,
         NEW e \in node'[m].store.msgs
  PROVE  /\ e.id \in Nat /\ e.id < node'[m].nextId /\ node'[m].nextId \in Nat
         /\ ~(e.id < IdGap) => m \in restarted
<1>1. /\ node'[m].store \in Store /\ node'[m].nextId \in Nat
      /\ Sound(node'[m].store, node'[m].nextId) /\ node'[m].applied \in 0..MaxLog
  <2>1. node' \in [Nodes -> NodeType]
    BY Zenon DEF FlockInv, TypeOK, NodeType
  <2>2. Sound(node'[m].store, node'[m].nextId)
    BY Zenon DEF FlockInv, NodeInv
  <2> QED
    BY <2>1, <2>2 DEF NodeType
<1>2. e.id \in Nat /\ e.id < node'[m].nextId
  BY <1>1 DEF Store, EntryType, Sound
<1>3. MaxLog \in Nat /\ IdGap \in Nat /\ node'[m].applied \in Nat /\ node'[m].applied <= MaxLog
  BY <1>1, FlockAssumption
<1>4. ASSUME m \notin restarted PROVE e.id < IdGap
  <2>1. node'[m].nextId = Base(log, node'[m].applied)
    BY <1>4, Zenon DEF Delivering, Agrees
  <2>2. Base(log, node'[m].applied) < IdGap /\ Base(log, node'[m].applied) \in Nat
    BY <1>3, BaseBound, Zenon
  <2> QED
    BY <1>2, <1>3, <2>1, <2>2
<1> QED
  BY <1>1, <1>2, <1>4, Zenon

\* The new tags are the ids of their messages on every node.
LEMMA NewTags ==
  ASSUME FlockInv, FlockInv', TagsAgree, Cardinality(restarted) <= 1,
         NEW n \in Nodes, Delivering(n), NEW m \in Nodes,
         NEW e \in node'[n].store.msgs, NEW f \in node'[m].store.msgs, e.id = f.id
  PROVE  e.msg.uid = f.msg.uid
<1>1. CASE e.id < IdGap
  <2>1. IdsAgree(node'[n].store) /\ IdsAgree(node'[m].store)
    BY Zenon DEF Delivering, Agrees
  <2>2. Named(e.id, e.msg.uid) /\ Named(e.id, f.msg.uid)
    BY <1>1, <2>1, Zenon DEF IdsAgree
  <2> DEFINE id == e.id
             u == e.msg.uid
             v == f.msg.uid
  <2> HIDE DEF id, u, v
  <2>3. Named(id, u) /\ Named(id, v)
    BY <2>2, Zenon DEF id, u, v
  <2>4. u = v
    BY <2>3, NamedOnce, Zenon
  <2> QED
    BY <2>4, Zenon DEF u, v
<1>2. CASE ~(e.id < IdGap)
  <2>1. n \in restarted /\ m \in restarted
    BY <1>2, BeyondLog, Zenon
  <2>2. IsFiniteSet(restarted)
    BY Zenon DEF FlockInv
  <2>3. restarted = {n}
    BY <2>1, <2>2, AtMostOne, Zenon
  <2>4. m = n
    BY <2>1, <2>3, Zenon
  <2>5. Sound(node'[n].store, node'[n].nextId)
    BY Zenon DEF FlockInv, NodeInv
  <2> QED
    BY <2>4, <2>5, Zenon DEF Sound
<1> QED
  BY <1>1, <1>2, Zenon

\* What is handed out agrees with what was.
LEMMA TagsStay ==
  ASSUME FlockInv, FlockInv', TagsAgree, Cardinality(restarted) <= 1,
         NEW n \in Nodes, Delivering(n)
  PROVE  TagsAgree'
<1>1. \A d \in handed' : \/ d \in handed
                         \/ \E e \in node'[n].store.msgs : d.tag = e.id /\ d.uid = e.msg.uid
  BY Zenon DEF Delivering
<1>2. IdsAgree(node'[n].store)
  BY Zenon DEF Delivering, Agrees
<1>3. ASSUME NEW d \in handed', NEW c \in handed', d.tag = c.tag PROVE d.uid = c.uid
  <2>1. ASSUME NEW e \in node'[n].store.msgs, d.tag = e.id, d.uid = e.msg.uid
        PROVE  d.uid = c.uid
    <3>1. CASE c \in handed
      BY <1>2, <1>3, <2>1, <3>1, Zenon DEF IdsAgree
    <3>2. ASSUME NEW f \in node'[n].store.msgs, c.tag = f.id, c.uid = f.msg.uid
          PROVE  d.uid = c.uid
      <4>1. e.id = f.id
        BY <1>3, <2>1, <3>2, Zenon
      <4> QED
        BY <2>1, <3>2, <4>1, NewTags, Zenon
    <3> QED
      BY <1>1, <3>1, <3>2, Zenon
  <2>2. ASSUME d \in handed, NEW f \in node'[n].store.msgs, c.tag = f.id, c.uid = f.msg.uid
        PROVE  d.uid = c.uid
    BY <1>2, <1>3, <2>2, Zenon DEF IdsAgree
  <2>3. CASE d \in handed /\ c \in handed
    BY <1>3, <2>3, Zenon DEF TagsAgree
  <2> QED
    BY <1>1, <2>1, <2>2, <2>3, Zenon
<1>4. log' = log /\ handed \subseteq handed' /\ restarted' = restarted
  BY Zenon DEF Delivering
<1>5. ASSUME NEW d \in handed', d.tag < IdGap PROVE Named(d.tag, d.uid)'
  <2>1. Named(d.tag, d.uid)
    <3>1. CASE d \in handed
      BY <1>5, <3>1, Zenon DEF TagsAgree
    <3>2. ASSUME NEW e \in node'[n].store.msgs, d.tag = e.id, d.uid = e.msg.uid
          PROVE  Named(d.tag, d.uid)
      BY <1>2, <1>5, <3>2, Zenon DEF IdsAgree
    <3> QED
      BY <1>1, <3>1, <3>2, Zenon
  <2> DEFINE id == d.tag
             u == d.uid
  <2> HIDE DEF id, u
  <2>2. Named(id, u)
    BY <2>1, Zenon DEF id, u
  <2>3. Named(id, u)'
    BY <1>4, <2>2, NamesStay, Zenon
  <2> QED
    BY <2>3, Zenon DEF id, u
<1>6. ASSUME NEW d \in handed', ~(d.tag < IdGap)
      PROVE  \E m \in restarted' : d.tag < node'[m].nextId
  <2>1. CASE d \in handed
    <3>1. PICK m \in restarted : d.tag < node[m].nextId
      BY <1>6, <2>1, Zenon DEF TagsAgree
    <3>2. m \in Nodes /\ node[m].nextId \in Nat /\ d.tag \in Nat /\ restarted \subseteq Nodes
      <4>1. restarted \subseteq Nodes /\ handed \subseteq [tag : Nat, uid : Nat, at : 1..MaxLog]
        BY Zenon DEF FlockInv, TypeOK
      <4>2. m \in Nodes /\ d.tag \in Nat
        BY <2>1, <4>1
      <4> QED
        BY <4>1, <4>2, NodeFacts, Zenon
    <3>3. node[m].nextId <= node'[m].nextId
      BY <3>2, Zenon DEF Delivering
    <3>4. node'[m].nextId \in Nat
      <4>1. node' \in [Nodes -> NodeType]
        BY Zenon DEF FlockInv, TypeOK, NodeType
      <4> QED
        BY <3>2, <4>1 DEF NodeType
    <3>5. d.tag < node'[m].nextId
      BY <3>1, <3>2, <3>3, <3>4
    <3> QED
      BY <1>4, <3>5, Zenon
  <2>2. ASSUME NEW e \in node'[n].store.msgs, d.tag = e.id
        PROVE  \E m \in restarted' : d.tag < node'[m].nextId
    <3>1. n \in restarted /\ e.id < node'[n].nextId
      BY <1>6, <2>2, BeyondLog, Zenon
    <3> QED
      BY <1>4, <2>2, <3>1, Zenon
  <2> QED
    BY <1>1, <2>1, <2>2, Zenon
<1> QED
  BY <1>3, <1>5, <1>6, Zenon DEF TagsAgree

\* The replicas agree with what has been handed out.
LEMMA ReplicasStay ==
  ASSUME FlockInv, FlockInv', TagsAgree, Cardinality(restarted) <= 1,
         NEW n \in Nodes, Delivering(n), NEW m \in Nodes
  PROVE  Agrees(m, node[m].store, node[m].nextId, node[m].applied)'
<1>1. /\ log' = log /\ acked' = acked /\ restarted' = restarted /\ handed \subseteq handed'
      /\ Agrees(m, node'[m].store, node'[m].nextId, node'[m].applied)
  BY Zenon DEF Delivering
<1>2. IdsAgree(node'[m].store)
  BY <1>1, Zenon DEF Agrees
<1>3. ASSUME NEW f \in node'[m].store.msgs
      PROVE  /\ f.id < IdGap => Named(f.id, f.msg.uid)'
             /\ \A d \in handed' : d.tag = f.id => d.uid = f.msg.uid
  <2>1. ASSUME f.id < IdGap PROVE Named(f.id, f.msg.uid)'
    <3> DEFINE id == f.id
               u == f.msg.uid
    <3> HIDE DEF id, u
    <3>1. Named(id, u)
      BY <1>2, <2>1, Zenon DEF id, u, IdsAgree
    <3>2. Named(id, u)'
      BY <1>1, <3>1, NamesStay, Zenon
    <3> QED
      BY <3>2, Zenon DEF id, u
  <2>2. ASSUME NEW d \in handed', d.tag = f.id PROVE d.uid = f.msg.uid
    <3>1. CASE d \in handed
      BY <1>2, <2>2, <3>1, Zenon DEF IdsAgree
    <3>2. ASSUME NEW e \in node'[n].store.msgs, d.tag = e.id, d.uid = e.msg.uid
          PROVE  d.uid = f.msg.uid
      <4>1. e.id = f.id
        BY <2>2, <3>2, Zenon
      <4> QED
        BY <3>2, <4>1, NewTags, Zenon
    <3> QED
      BY <3>1, <3>2, Zenon DEF Delivering
  <2> QED
    BY <2>1, <2>2, Zenon
<1>4. (IdsAgree(node[m].store))'
  BY <1>3, Zenon DEF IdsAgree
<1>5. (KeysKnown(node[m].store, node[m].applied) /\ Keeps(node[m].store, node[m].applied))'
  BY <1>1, Zenon DEF Agrees, KeysKnown, Keeps
<1> QED
  BY <1>1, <1>4, <1>5, Zenon DEF Agrees

\* The application of an entry keeps the agreement.
LEMMA SteadyApply ==
  ASSUME FlockInv, FlockInv', SteadyInv, NEW n \in Nodes, Apply(n)
  PROVE  SteadyInv'
<1> SUFFICES ASSUME Steady'
             PROVE  /\ \A m \in Nodes : Agrees(m, node[m].store, node[m].nextId, node[m].applied)'
                    /\ TagsAgree' /\ ConfirmedStored'
  BY Zenon DEF SteadyInv
<1>1. PICK now \in Nat :
         LET i == node[n].applied + 1
             r == ApplyOperation(n, log[i], now)
         IN  /\ node[n].applied < Len(log) /\ now <= MaxTime /\ node[n].clock <= now
             /\ node' = [node EXCEPT ![n].store = r.store, ![n].nextId = r.nextId,
                                     ![n].applied = i, ![n].clock = now]
             /\ confirmed' = confirmed \/ confirmed' = confirmed \cup r.stored
             /\ \/ handed' = handed
                \/ handed' = handed \cup {[tag |-> d.tag, uid |-> d.uid, at |-> i] : d \in r.out}
             /\ UNCHANGED <<log, leader, since, initialized>>
             /\ UNCHANGED <<acked, restarted, faults, stillborn>>
  BY ApplyChanges, Zenon
<1> DEFINE i == node[n].applied + 1
           r == ApplyOperation(n, log[i], now)
           H == {[tag |-> d.tag, uid |-> d.uid, at |-> i] : d \in r.out}
<1>2. /\ node[n].applied < Len(log) /\ node[n].clock <= now
      /\ node' = [node EXCEPT ![n].store = r.store, ![n].nextId = r.nextId,
                              ![n].applied = i, ![n].clock = now]
      /\ confirmed' = confirmed \/ confirmed' = confirmed \cup r.stored
      /\ handed' = handed \/ handed' = handed \cup H
      /\ log' = log /\ acked' = acked /\ restarted' = restarted
  BY <1>1, Zenon
<1>3. i \in 1..Len(log) /\ node[n].nextId <= r.nextId
  BY <1>2, ApplyFacts, Zenon
<1> HIDE DEF i, r
<1>4. /\ node'[n].store = r.store /\ node'[n].nextId = r.nextId /\ node'[n].applied = i
      /\ node'[n].clock = now /\ \A m \in Nodes \ {n} : node'[m] = node[m]
  <2>1. node \in [Nodes -> NodeType]
    BY Zenon DEF FlockInv, TypeOK, NodeType
  <2> QED
    BY <1>2, <2>1 DEF NodeType
<1>5. \A m \in Nodes : node[m].nextId \in Nat /\ node[m].clock \in Nat
  <2>1. \A m \in Nodes : node[m].nextId \in Nat /\ node[m].clock \in 0..MaxTime /\ MaxTime \in Nat
    BY NodeFacts
  <2> QED
    BY <2>1
<1>6. \A m \in Nodes : node[m].nextId <= node'[m].nextId /\ node[m].clock <= node'[m].clock
  <2>1. ASSUME NEW m \in Nodes
        PROVE  node[m].nextId <= node'[m].nextId /\ node[m].clock <= node'[m].clock
    <3>1. CASE m = n
      BY <1>2, <1>3, <1>4, <3>1, Zenon
    <3>2. CASE m # n
      <4>1. node'[m] = node[m]
        BY <1>4, <3>2
      <4> QED
        BY <1>5, <4>1
    <3> QED
      BY <3>1, <3>2, Zenon
  <2> QED
    BY <2>1
<1>7. Steady /\ Open(now)
  <2>1. restarted \subseteq restarted'
    BY <1>2, Zenon
  <2> QED
    BY <1>4, <1>6, <2>1, SteadyBefore, Zenon
<1>8. /\ \A m \in Nodes : Agrees(m, node[m].store, node[m].nextId, node[m].applied)
      /\ TagsAgree /\ ConfirmedStored /\ Cardinality(restarted) <= 1
  BY <1>7, Zenon DEF SteadyInv, Steady
<1>9. Follows(n, r, i)
  BY <1>2, <1>7, <1>8, ApplyFollows, Zenon DEF i, r
<1>10. Delivering(n)
  <2>1. ASSUME NEW m \in Nodes
        PROVE  Agrees(m, node'[m].store, node'[m].nextId, node'[m].applied)
    <3>1. CASE m = n
      BY <1>4, <1>9, <3>1, Zenon DEF Follows
    <3>2. CASE m # n
      <4>1. node'[m] = node[m]
        BY <1>4, <3>2
      <4> QED
        BY <1>8, <4>1, Zenon
    <3> QED
      BY <3>1, <3>2, Zenon
  <2>2. ASSUME NEW d \in H
        PROVE  \E e \in node'[n].store.msgs : d.tag = e.id /\ d.uid = e.msg.uid
    <3>1. PICK o \in r.out : d = [tag |-> o.tag, uid |-> o.uid, at |-> i]
      BY <2>2, Zenon
    <3>2. d.tag = o.tag /\ d.uid = o.uid
      BY <3>1
    <3>3. PICK e \in r.store.msgs : o.tag = e.id /\ o.uid = e.msg.uid
      BY <1>9, <3>1, Zenon DEF Follows
    <3>4. e \in node'[n].store.msgs /\ d.tag = e.id /\ d.uid = e.msg.uid
      BY <1>4, <3>2, <3>3, Zenon
    <3> QED
      BY <3>4, Zenon
  <2> HIDE DEF H
  <2> QED
    BY <1>2, <1>6, <2>1, <2>2, Zenon DEF Delivering
<1>11. ConfirmedStored'
  <2>1. \A u \in confirmed' : \E j \in 1..Len(log) : StoredAt(j, u)
    BY <1>2, <1>3, <1>8, <1>9, Zenon DEF Follows, ConfirmedStored
  <2> QED
    BY <1>2, <2>1, Zenon DEF ConfirmedStored, StoredAt
<1> QED
  BY <1>8, <1>10, <1>11, TagsStay, ReplicasStay, Zenon

\* Steps that change phases only keep it.
LEMMA SteadyPhases ==
  ASSUME FlockInv, FlockInv', SteadyInv, OnlyPhases
  PROVE  SteadyInv'
<1> SUFFICES ASSUME Steady'
             PROVE  /\ \A m \in Nodes : Agrees(m, node[m].store, node[m].nextId, node[m].applied)'
                    /\ TagsAgree' /\ ConfirmedStored'
  BY Zenon DEF SteadyInv
<1>1. /\ log' = log /\ confirmed' = confirmed /\ handed' = handed /\ acked' = acked
      /\ restarted' = restarted
      /\ \A m \in Nodes : /\ node'[m].store = node[m].store /\ node'[m].nextId = node[m].nextId
                          /\ node'[m].applied = node[m].applied /\ node'[m].clock = node[m].clock
  BY Zenon DEF OnlyPhases
<1>2. \A m \in Nodes : node[m].nextId <= node'[m].nextId /\ node[m].clock <= node'[m].clock
  <2>1. \A m \in Nodes : node[m].nextId \in Nat /\ node[m].clock \in 0..MaxTime /\ MaxTime \in Nat
    BY NodeFacts
  <2> QED
    BY <1>1, <2>1
<1>3. Steady
  <2>1. restarted \subseteq restarted'
    BY <1>1, Zenon
  <2> QED
    BY <1>2, <2>1, SteadyBefore, Zenon
<1>4. /\ \A m \in Nodes : Agrees(m, node[m].store, node[m].nextId, node[m].applied)
      /\ TagsAgree /\ ConfirmedStored /\ Cardinality(restarted) <= 1
  BY <1>3, Zenon DEF SteadyInv, Steady
<1>5. Delivering(Lowest)
  <2>1. \A m \in Nodes : Agrees(m, node'[m].store, node'[m].nextId, node'[m].applied)
    BY <1>1, <1>4, Zenon
  <2> QED
    BY <1>1, <1>2, <2>1, Zenon DEF Delivering
<1>6. ConfirmedStored'
  BY <1>1, <1>4, Zenon DEF ConfirmedStored, StoredAt
<1>7. Lowest \in Nodes
  BY LowestIsNode
<1> QED
  BY <1>4, <1>5, <1>6, <1>7, TagsStay, ReplicasStay, Zenon

\* The entries of log L say the same in log M.
SaysSame(M, L) ==
  /\ Len(L) > 0 => Window(M) = Window(L)
  /\ \A i \in 1..Len(L) : /\ Publishes(M, i) = Publishes(L, i) /\ KeyOf(M, i) = KeyOf(L, i)
                          /\ Chosen(M, i) = Chosen(L, i) /\ Slots(M, i) = Slots(L, i)
                          /\ \A k : IdAt(M, i, k) = IdAt(L, i, k)
  /\ \A i \in 0..Len(L) : SlotsTo(M, i) = SlotsTo(L, i) /\ Base(M, i) = Base(L, i)

\* What the entries of a log say does not depend on later ones.
LEMMA Prefix ==
  ASSUME NEW L, NEW M, Len(L) \in Nat, \A i \in 1..Len(L) : M[i] = L[i]
  PROVE  SaysSame(M, L)
<1>1. \A i \in 1..Len(L) : 1 \in 1..Len(L) /\ \A j \in 1..(i - 1) : j \in 1..Len(L)
  OBVIOUS
<1>2. Len(L) > 0 => Window(M) = Window(L)
  <2>1. Len(L) > 0 => 1 \in 1..Len(L)
    OBVIOUS
  <2> QED
    BY <2>1, Zenon DEF Window
<1>3. ASSUME NEW i \in 1..Len(L)
      PROVE  /\ Publishes(M, i) = Publishes(L, i) /\ KeyOf(M, i) = KeyOf(L, i)
             /\ Chosen(M, i) = Chosen(L, i) /\ Slots(M, i) = Slots(L, i)
  <2>1. \A j \in 1..Len(L) : Publishes(M, j) = Publishes(L, j) /\ KeyOf(M, j) = KeyOf(L, j)
    BY Zenon DEF Publishes, KeyOf
  <2>2. Window(M) = Window(L)
    BY <1>1, Zenon DEF Window
  <2>3. Repeated(M, i) <=> Repeated(L, i)
    BY <1>1, <2>1, Zenon DEF Repeated
  <2>4. Chosen(M, i) = Chosen(L, i)
    BY <2>1, <2>2, <2>3, Zenon DEF Chosen
  <2>5. Slots(M, i) = Slots(L, i)
    BY <2>1, <2>4, Zenon DEF Slots
  <2> QED
    BY <2>1, <2>4, <2>5, Zenon
<1>4. ASSUME NEW i \in 0..Len(L) PROVE SlotsTo(M, i) = SlotsTo(L, i) /\ Base(M, i) = Base(L, i)
  <2> DEFINE U == 0..MaxUids
  <2> HIDE DEF U
  <2>1. \A s \in (1..i) \X U : s[1] \in 1..Len(L)
    OBVIOUS
  <2>2. \A s \in (1..i) \X U : Slots(M, s[1]) = Slots(L, s[1])
    BY <1>3, <2>1, Zenon
  <2>3. SlotsTo(M, i) = SlotsTo(L, i)
    BY <2>2, Zenon DEF SlotsTo, U
  <2> QED
    BY <2>3, Zenon DEF Base
<1>5. ASSUME NEW i \in 1..Len(L), NEW k PROVE IdAt(M, i, k) = IdAt(L, i, k)
  <2>1. i - 1 \in 0..Len(L)
    OBVIOUS
  <2> QED
    BY <1>3, <1>4, <2>1, Zenon DEF IdAt
<1> QED
  BY <1>2, <1>3, <1>4, <1>5, Zenon DEF SaysSame

\* A new entry of the log keeps the agreement.
LEMMA SteadySubmit ==
  ASSUME FlockInv, FlockInv', SteadyInv, NEW op \in Operation, log' = Append(log, op),
         node' = node, acked \subseteq acked', UNCHANGED <<confirmed, handed, restarted>>
  PROVE  SteadyInv'
<1> SUFFICES ASSUME Steady'
             PROVE  /\ \A m \in Nodes : Agrees(m, node[m].store, node[m].nextId, node[m].applied)'
                    /\ TagsAgree' /\ ConfirmedStored'
  BY Zenon DEF SteadyInv
<1>0. handed' = handed /\ restarted' = restarted /\ confirmed' = confirmed
  BY Zenon
<1>1. Steady
  BY <1>0, Zenon DEF Steady, WindowsOpen
<1>2. /\ \A m \in Nodes : Agrees(m, node[m].store, node[m].nextId, node[m].applied)
      /\ TagsAgree /\ ConfirmedStored
  BY <1>1, Zenon DEF SteadyInv
<1>3. /\ Len(log') = Len(log) + 1 /\ Len(log) \in Nat
      /\ \A i \in 1..Len(log) : log'[i] = log[i]
  BY Appended, Zenon DEF FlockInv
<1>4. \A i \in 1..Len(log) : i \in 1..Len(log')
  BY <1>3
<1>5. /\ Len(log) > 0 => Window(log') = Window(log)
      /\ \A i \in 1..Len(log) :
           /\ Publishes(log', i) = Publishes(log, i) /\ KeyOf(log', i) = KeyOf(log, i)
           /\ Chosen(log', i) = Chosen(log, i) /\ Slots(log', i) = Slots(log, i)
           /\ \A k : IdAt(log', i, k) = IdAt(log, i, k)
      /\ \A i \in 0..Len(log) : SlotsTo(log', i) = SlotsTo(log, i) /\ Base(log', i) = Base(log, i)
  <2>1. SaysSame(log', log)
    BY <1>3, Prefix, Zenon
  <2> QED
    BY <2>1, Zenon DEF SaysSame
<1>6. ASSUME NEW id, NEW u, Named(id, u) PROVE Named(id, u)'
  <2>1. CASE NamedByPublish(log, id, u)
    <3>1. PICK i \in 1..Len(log) :
            /\ Publishes(log, i)
            /\ \E k \in Chosen(log, i) : IdAt(log, i, k) = id /\ log[i].msgs[k].uid = u
      BY <2>1, Zenon DEF NamedByPublish
    <3>2. /\ Publishes(log', i) /\ i \in 1..Len(log')
          /\ \E k \in Chosen(log', i) : IdAt(log', i, k) = id /\ log'[i].msgs[k].uid = u
      BY <1>3, <1>4, <1>5, <3>1, Zenon
    <3>3. NamedByPublish(log', id, u)
      BY <3>2, Zenon DEF NamedByPublish
    <3> QED
      BY <3>3, Zenon DEF Named
  <2>2. CASE NamedByNack(log, handed, id, u)
    <3>1. NamedByNack(log', handed, id, u)
      BY <1>3, <1>4, <1>5, <2>2, Zenon DEF NamedByNack
    <3> QED
      BY <1>0, <3>1, Zenon DEF Named
  <2> QED
    BY <1>6, <2>1, <2>2, Zenon DEF Named
<1>7. TagsAgree'
  <2>1. ASSUME NEW d \in handed, d.tag < IdGap PROVE Named(d.tag, d.uid)'
    BY <1>2, <1>6, <2>1, Zenon DEF TagsAgree
  <2> QED
    BY <1>0, <1>2, <2>1, Zenon DEF TagsAgree
<1>8. ConfirmedStored'
  <2>1. ASSUME NEW u \in confirmed PROVE \E i \in 1..Len(log') : StoredAt(i, u)'
    <3>1. PICK i \in 1..Len(log) : StoredAt(i, u)
      BY <1>2, Zenon DEF ConfirmedStored
    <3>2. StoredAt(i, u)'
      BY <1>3, <1>5, <3>1, Zenon DEF StoredAt
    <3> QED
      BY <1>4, <3>2, Zenon
  <2> QED
    BY <1>0, <2>1, Zenon DEF ConfirmedStored
<1>9. ASSUME NEW m \in Nodes
      PROVE  Agrees(m, node[m].store, node[m].nextId, node[m].applied)'
  <2>1. Agrees(m, node[m].store, node[m].nextId, node[m].applied)
    BY <1>2, Zenon
  <2>2. /\ node[m].applied \in 0..Len(log) /\ \A j \in 1..node[m].applied : j \in 1..Len(log)
        /\ node[m].applied > 0 => Len(log) > 0
    <3>1. node[m].applied \in Nat /\ node[m].applied <= Len(log)
      BY NodeFacts, Zenon
    <3> QED
      BY <1>3, <3>1
  <2>3. (KeysKnown(node[m].store, node[m].applied))'
    <3>1. {j \in 1..node[m].applied : Publishes(log', j)}
            = {j \in 1..node[m].applied : Publishes(log, j)}
      BY <1>5, <2>2, Zenon
    <3>2. {KeyOf(log', j) : j \in {k \in 1..node[m].applied : Publishes(log, k)}}
            = {KeyOf(log, j) : j \in {k \in 1..node[m].applied : Publishes(log, k)}}
      BY <1>5, <2>2, Zenon
    <3>3. ASSUME node[m].applied > 0, Window(log') # None
          PROVE  {d.key : d \in node[m].store.dedup}
            = {KeyOf(log', j) : j \in {k \in 1..node[m].applied : Publishes(log', k)}} \ {None}
      <4>1. Window(log) # None
        BY <1>5, <2>2, <3>3, Zenon
      <4>2. {d.key : d \in node[m].store.dedup}
              = {KeyOf(log, j) : j \in {k \in 1..node[m].applied : Publishes(log, k)}} \ {None}
        BY <2>1, <3>3, <4>1, Zenon DEF Agrees, KeysKnown
      <4> QED
        BY <3>1, <3>2, <4>2, Zenon
    <3> QED
      BY <3>3, Zenon DEF KeysKnown
  <2>4. (IdsAgree(node[m].store))'
    <3>1. ASSUME NEW e \in node[m].store.msgs, e.id < IdGap PROVE Named(e.id, e.msg.uid)'
      BY <1>6, <2>1, <3>1, Zenon DEF Agrees, IdsAgree
    <3> QED
      BY <1>0, <2>1, <3>1, Zenon DEF Agrees, IdsAgree
  <2>5. (Keeps(node[m].store, node[m].applied))'
    <3>1. ASSUME NEW j \in 1..node[m].applied, Publishes(log', j), NEW k \in Chosen(log', j)
          PROVE  log'[j].msgs[k].uid \in acked' \/ log'[j].msgs[k].uid \in Uids(node[m].store.msgs)
      <4>1. Publishes(log, j) /\ k \in Chosen(log, j) /\ log'[j] = log[j]
        BY <1>3, <1>5, <2>2, <3>1, Zenon
      <4> QED
        BY <2>1, <4>1, Zenon DEF Agrees, Keeps
    <3> QED
      BY <3>1, Zenon DEF Keeps
  <2>6. m \notin restarted => node[m].nextId = Base(log', node[m].applied)
    BY <1>5, <2>1, <2>2, Zenon DEF Agrees
  <2> QED
    BY <1>0, <2>1, <2>3, <2>4, <2>5, <2>6, Zenon DEF Agrees
<1> QED
  BY <1>7, <1>8, <1>9, Zenon

\* Node n has been started with the store w and the next id c; what was in
\* flight has ids from base on.
Started(n, w, base, c) ==
  /\ node'[n].store = w /\ node'[n].nextId = c
  /\ node'[n].applied = node[n].applied /\ node'[n].clock = node[n].clock
  /\ \A m \in Nodes \ {n} : node'[m] = node[m]
  /\ restarted' = IF node[n].fresh THEN restarted ELSE restarted \cup {n}
  /\ log' = log /\ confirmed' = confirmed /\ handed' = handed /\ acked' = acked
  /\ w.dedup = node[n].store.dedup /\ Recovered(w, node[n].store, base)
  /\ node[n].nextId <= base /\ base <= c
  /\ IF node[n].fresh THEN c = node[n].nextId ELSE IdGap <= base

\* What a start does.
LEMMA StartFacts ==
  ASSUME FlockInv, NEW n \in Nodes, Start(n)
  PROVE  \E w \in Store, base \in Nat, c \in Nat : Started(n, w, base, c)
<1> DEFINE s == node[n].store
           I == Inflight(s)
           base == IF node[n].fresh THEN 0 ELSE Reopened(node[n].nextId)
           p == IF n = Lowest /\ IsFresh(n) THEN "starting" ELSE "up"
           w == Recover(s, I, I, base)
           c == base + Cardinality(I)
<1>1. /\ node' = [node EXCEPT ![n].phase = p, ![n].fresh = FALSE, ![n].store = w,
                              ![n].nextId = c]
      /\ restarted' = IF node[n].fresh THEN restarted ELSE restarted \cup {n}
      /\ log' = log /\ confirmed' = confirmed /\ handed' = handed /\ acked' = acked
  BY Zenon DEF Start, cluster
<1>2. s \in Store /\ node[n].nextId \in Nat /\ Sound(s, node[n].nextId) /\ NodeInv(n)
  BY NodeFacts, Zenon DEF FlockInv
<1>3. /\ base \in Nat /\ node[n].nextId <= base /\ (~node[n].fresh => IdGap <= base)
      /\ node[n].fresh => node[n].nextId = 0 /\ base = 0
  <2>1. node[n].fresh => node[n].nextId = 0
    BY <1>2, Zenon DEF NodeInv
  <2>2. /\ Reopened(node[n].nextId) \in Nat /\ node[n].nextId <= Reopened(node[n].nextId)
        /\ IdGap <= Reopened(node[n].nextId)
    BY <1>2, ReopenedBeyond, Zenon
  <2> QED
    BY <2>1, <2>2
<1> HIDE DEF base
<1>4. /\ w \in Store /\ w.dedup = s.dedup /\ Cardinality(I) \in Nat /\ Recovered(w, s, base)
  <2> HIDE DEF s
  <2> QED
    BY <1>2, <1>3, RecoverEffect, Zenon
<1>5. c \in Nat /\ base <= c
  BY <1>3, <1>4
<1>6. node[n].fresh => c = node[n].nextId
  <2> SUFFICES ASSUME node[n].fresh PROVE c = node[n].nextId
    OBVIOUS
  <2>1. s = EmptyStore
    BY <1>2, Zenon DEF NodeInv
  <2>2. I = {}
    BY <2>1 DEF EmptyStore, Inflight
  <2>3. Cardinality(I) = 0
    BY <2>2, FS_EmptySet, Zenon
  <2> HIDE DEF I
  <2> QED
    BY <1>3, <2>3
<1> HIDE DEF w, c, p, I
<1>7. /\ node'[n].store = w /\ node'[n].nextId = c /\ node'[n].applied = node[n].applied
      /\ node'[n].clock = node[n].clock
      /\ \A m \in Nodes \ {n} : node'[m] = node[m]
  <2>1. node \in [Nodes -> NodeType]
    BY Zenon DEF FlockInv, TypeOK, NodeType
  <2> QED
    BY <1>1, <2>1 DEF NodeType
<1>8. Started(n, w, base, c)
  BY <1>1, <1>3, <1>4, <1>5, <1>6, <1>7, Zenon DEF Started
<1> QED
  BY <1>3, <1>4, <1>5, <1>8, Zenon

\* A first start keeps the agreement: the store is empty.
LEMMA SteadyFirstStart ==
  ASSUME FlockInv, FlockInv', NEW n \in Nodes, node[n].fresh,
         NEW w \in Store, NEW base \in Nat, NEW c \in Nat, Started(n, w, base, c),
         \A m \in Nodes : Agrees(m, node[m].store, node[m].nextId, node[m].applied)
  PROVE  Delivering(n)
<1>1. /\ node'[n].store = w /\ node'[n].nextId = node[n].nextId
      /\ node'[n].applied = node[n].applied
      /\ \A m \in Nodes \ {n} : node'[m] = node[m]
      /\ restarted' = restarted /\ log' = log /\ handed' = handed /\ acked' = acked
      /\ w.dedup = node[n].store.dedup /\ Recovered(w, node[n].store, base)
  BY Zenon DEF Started
<1>2. \A m \in Nodes : node[m].nextId \in Nat
  BY NodeFacts
<1>3. node[n].store = EmptyStore
  <2>1. NodeInv(n)
    BY Zenon DEF FlockInv
  <2> QED
    BY <2>1, Zenon DEF NodeInv
<1>4. node[n].store.msgs = {}
  BY <1>3 DEF EmptyStore
<1>5. w.msgs = {}
  BY <1>1, <1>4, Zenon DEF Recovered
<1>6. Agrees(n, w, node[n].nextId, node[n].applied)
  BY <1>1, <1>4, <1>5, Zenon DEF Agrees, KeysKnown, IdsAgree, Keeps
<1>7. ASSUME NEW m \in Nodes
      PROVE  /\ Agrees(m, node'[m].store, node'[m].nextId, node'[m].applied)
             /\ node[m].nextId <= node'[m].nextId
  <2>1. CASE m = n
    <3>1. node'[m].nextId = node[m].nextId
      BY <1>1, <2>1, Zenon
    <3>2. node[m].nextId <= node'[m].nextId
      BY <1>2, <3>1
    <3> QED
      BY <1>1, <1>6, <2>1, <3>2, Zenon
  <2>2. CASE m # n
    <3>1. node'[m] = node[m]
      BY <1>1, <2>2
    <3>2. node[m].nextId <= node'[m].nextId
      BY <1>2, <3>1
    <3> QED
      BY <3>1, <3>2, Zenon
  <2> QED
    BY <2>1, <2>2, Zenon
<1> QED
  BY <1>1, <1>7, Zenon DEF Delivering

\* Another start keeps it, as long as no other node was restarted.
LEMMA SteadyRestart ==
  ASSUME FlockInv, FlockInv', NEW n \in Nodes, ~node[n].fresh, Cardinality(restarted') <= 1,
         NEW w \in Store, NEW base \in Nat, NEW c \in Nat, Started(n, w, base, c),
         \A m \in Nodes : Agrees(m, node[m].store, node[m].nextId, node[m].applied),
         TagsAgree
  PROVE  /\ \A m \in Nodes : Agrees(m, node[m].store, node[m].nextId, node[m].applied)'
         /\ TagsAgree'
<1>1. /\ node'[n].store = w /\ node'[n].nextId = c /\ node'[n].applied = node[n].applied
      /\ \A m \in Nodes \ {n} : node'[m] = node[m]
      /\ restarted' = restarted \cup {n}
      /\ log' = log /\ handed' = handed /\ acked' = acked
      /\ w.dedup = node[n].store.dedup /\ Recovered(w, node[n].store, base)
      /\ node[n].nextId <= base /\ base <= c /\ IdGap <= base
  BY Zenon DEF Started
<1>2. restarted' = {n} /\ restarted \subseteq {n}
  <2>1. IsFiniteSet(restarted') /\ n \in restarted'
    BY <1>1, Zenon DEF FlockInv
  <2> DEFINE R == restarted'
  <2> HIDE DEF R
  <2>2. R = {n}
    BY <2>1, AtMostOne, Zenon DEF R
  <2> QED
    BY <1>1, <2>2, Zenon DEF R
<1>3. IdGap \in Nat /\ node[n].nextId \in Nat
  BY NodeFacts, FlockAssumption
<1>4. \A id, u : Named(id, u)' <=> Named(id, u)
  BY <1>1, Zenon DEF Named
<1>5. ASSUME NEW f \in w.msgs
      PROVE  /\ f.id < IdGap => Named(f.id, f.msg.uid)
             /\ \A d \in handed : d.tag = f.id => d.uid = f.msg.uid
  <2>1. CASE f \in node[n].store.msgs
    BY <2>1, Zenon DEF Agrees, IdsAgree
  <2>2. CASE base <= f.id
    <3>1. f.id \in Nat
      BY DEF Store, EntryType
    <3>2. ~(f.id < IdGap) /\ node[n].nextId <= f.id
      BY <1>1, <1>3, <2>2, <3>1
    <3>3. MayName(n, f.id, f.msg.uid)
      BY <1>2, <3>2, Zenon DEF MayName
    <3>4. \A d \in handed : d.tag = f.id => d.uid = f.msg.uid
      BY <3>1, <3>3, NewId
    <3> QED
      BY <3>2, <3>4, Zenon
  <2> QED
    BY <1>1, <2>1, <2>2, Zenon DEF Recovered
<1>6. Agrees(n, node[n].store, node[n].nextId, node[n].applied)'
  <2>1. (IdsAgree(node[n].store))'
    BY <1>1, <1>4, <1>5, Zenon DEF IdsAgree
  <2>2. (KeysKnown(node[n].store, node[n].applied))'
    <3>1. KeysKnown(node[n].store, node[n].applied)
      BY Zenon DEF Agrees
    <3>2. KeysKnown(w, node[n].applied)
      BY <1>1, <3>1, Zenon DEF KeysKnown
    <3> QED
      BY <1>1, <3>2, Zenon DEF KeysKnown
  <2>3. (Keeps(node[n].store, node[n].applied))'
    <3>1. Keeps(node[n].store, node[n].applied) /\ Uids(node[n].store.msgs) \subseteq Uids(w.msgs)
      BY <1>1, Zenon DEF Agrees, Recovered
    <3>2. Keeps(w, node[n].applied)
      BY <3>1, Zenon DEF Keeps
    <3> QED
      BY <1>1, <3>2, Zenon DEF Keeps
  <2>4. c >= IdGap
    BY <1>1, <1>3
  <2> QED
    BY <1>1, <1>2, <2>1, <2>2, <2>3, <2>4, Zenon DEF Agrees
<1>7. ASSUME NEW m \in Nodes, m # n
      PROVE  Agrees(m, node[m].store, node[m].nextId, node[m].applied)'
  <2>1. node'[m] = node[m] /\ m \notin restarted /\ m \notin restarted'
    BY <1>1, <1>2, <1>7
  <2>2. (IdsAgree(node[m].store))'
    BY <1>1, <1>4, <2>1, Zenon DEF Agrees, IdsAgree
  <2>3. KeysKnown(node[m].store, node[m].applied) /\ Keeps(node[m].store, node[m].applied)
    BY Zenon DEF Agrees
  <2>4. (KeysKnown(node[m].store, node[m].applied))'
    BY <1>1, <2>1, <2>3, Zenon DEF KeysKnown
  <2>5. (Keeps(node[m].store, node[m].applied))'
    BY <1>1, <2>1, <2>3, Zenon DEF Keeps
  <2> QED
    BY <1>1, <2>1, <2>2, <2>4, <2>5, Zenon DEF Agrees
<1>8. TagsAgree'
  <2>1. ASSUME NEW d \in handed, ~(d.tag < IdGap)
        PROVE  d.tag < c
    <3>1. d.tag < node[n].nextId
      BY <1>2, <2>1, Zenon DEF TagsAgree
    <3>2. d.tag \in Nat
      <4>1. handed \subseteq [tag : Nat, uid : Nat, at : 1..MaxLog]
        BY Zenon DEF FlockInv, TypeOK
      <4> QED
        BY <4>1
    <3> QED
      BY <1>1, <1>3, <3>1, <3>2
  <2> QED
    BY <1>1, <1>2, <1>4, <2>1, Zenon DEF TagsAgree
<1> QED
  BY <1>6, <1>7, <1>8, Zenon

\* A start keeps the agreement.
LEMMA SteadyStart ==
  ASSUME FlockInv, FlockInv', SteadyInv, NEW n \in Nodes, Start(n)
  PROVE  SteadyInv'
<1> SUFFICES ASSUME Steady'
             PROVE  /\ \A m \in Nodes : Agrees(m, node[m].store, node[m].nextId, node[m].applied)'
                    /\ TagsAgree' /\ ConfirmedStored'
  BY Zenon DEF SteadyInv
<1>1. PICK w \in Store, base \in Nat, c \in Nat : Started(n, w, base, c)
  BY StartFacts, Zenon
<1>2. /\ node'[n].clock = node[n].clock /\ \A m \in Nodes \ {n} : node'[m] = node[m]
      /\ log' = log /\ confirmed' = confirmed /\ restarted \subseteq restarted'
  BY <1>1, Zenon DEF Started
<1>3. \A m \in Nodes : node[m].clock <= node'[m].clock
  <2>1. \A m \in Nodes : node[m].clock \in 0..MaxTime /\ MaxTime \in Nat
    BY NodeFacts
  <2>2. \A m \in Nodes : node'[m].clock = node[m].clock
    BY <1>2
  <2> QED
    BY <2>1, <2>2
<1>4. Steady
  BY <1>2, <1>3, SteadyBefore, Zenon
<1>5. /\ \A m \in Nodes : Agrees(m, node[m].store, node[m].nextId, node[m].applied)
      /\ TagsAgree /\ ConfirmedStored /\ Cardinality(restarted) <= 1
      /\ Cardinality(restarted') <= 1
  BY <1>4, Zenon DEF SteadyInv, Steady
<1>6. ConfirmedStored'
  BY <1>2, <1>5, Zenon DEF ConfirmedStored, StoredAt
<1>7. CASE node[n].fresh
  <2>1. Delivering(n)
    BY <1>1, <1>5, <1>7, SteadyFirstStart, Zenon
  <2> QED
    BY <1>5, <1>6, <2>1, TagsStay, ReplicasStay, Zenon
<1>8. CASE ~node[n].fresh
  BY <1>1, <1>5, <1>6, <1>8, SteadyRestart, Zenon
<1> QED
  BY <1>7, <1>8, Zenon

\* At first there is nothing to agree on.
LEMMA InitialSteady == Init => SteadyInv
<1> SUFFICES ASSUME Init PROVE SteadyInv
  OBVIOUS
<1>1. /\ confirmed = {} /\ handed = {} /\ restarted = {}
      /\ \A n \in Nodes : /\ node[n].store = EmptyStore /\ node[n].nextId = 0
                          /\ node[n].applied = 0
  BY DEF Init, NewNode
<1>2. EmptyStore.msgs = {}
  BY DEF EmptyStore
<1>3. ~(0 > 0) /\ 1..0 = {}
  OBVIOUS
<1>4. Base(log, 0) = 0
  <2>1. SlotsTo(log, 0) = {}
    BY <1>3 DEF SlotsTo
  <2> QED
    BY <2>1, FS_EmptySet, Zenon DEF Base
<1>5. KeysKnown(EmptyStore, 0) /\ IdsAgree(EmptyStore) /\ Keeps(EmptyStore, 0)
  BY <1>2, <1>3, Zenon DEF KeysKnown, IdsAgree, Keeps
<1>6. ASSUME NEW n \in Nodes PROVE Agrees(n, node[n].store, node[n].nextId, node[n].applied)
  BY <1>1, <1>4, <1>5, Zenon DEF Agrees
<1>7. TagsAgree /\ ConfirmedStored
  BY <1>1, Zenon DEF TagsAgree, ConfirmedStored
<1> QED
  BY <1>6, <1>7, Zenon DEF SteadyInv

\* Every step keeps the agreement.
LEMMA SteadyStep == FlockInv /\ FlockInv' /\ SteadyInv /\ [Next]_vars => SteadyInv'
<1> SUFFICES ASSUME FlockInv, FlockInv', SteadyInv, [Next]_vars PROVE SteadyInv'
  OBVIOUS
<1>1. ASSUME OnlyPhases PROVE SteadyInv'
  BY <1>1, SteadyPhases, Zenon
<1>2. CASE UNCHANGED vars
  BY <1>1, <1>2, PhaseSteps, Zenon
<1>3. CASE Handler
  <2>1. PICK op : Submits(op)
    BY <1>3, HandlersFit, Zenon
  <2>2. /\ op \in Operation /\ log' = Append(log, op) /\ node' = node /\ acked \subseteq acked'
        /\ UNCHANGED <<confirmed, handed, restarted>>
    BY <2>1, Zenon DEF Submits, Fitting
  <2> QED
    BY <2>2, SteadySubmit, Zenon
<1>4. ASSUME NEW n \in Nodes, Apply(n) PROVE SteadyInv'
  BY <1>4, SteadyApply, Zenon
<1>5. ASSUME NEW n \in Nodes, Start(n) PROVE SteadyInv'
  BY <1>5, SteadyStart, Zenon
<1>6. ASSUME NEW n \in Nodes, Initialize(n) \/ Stop(n) \/ Elect(n) PROVE SteadyInv'
  BY <1>1, <1>6, PhaseSteps, Zenon
<1> QED
  BY <1>2, <1>3, <1>4, <1>5, <1>6, Zenon DEF Next, Handler

\* The agreement holds in every reachable state.
THEOREM ReplicasAgree == Spec => []SteadyInv
BY FlockAlways, InitialSteady, SteadyStep, PTL DEF Spec

\* A message that the agreement accounts for is in every store that has
\* applied its publish.
LEMMA AgreedIsReplicated ==
  ASSUME FlockInv, SteadyInv
  PROVE  ReplicatedIfSteady
<1> SUFFICES ASSUME Steady PROVE ReplicatedEverywhere
  BY Zenon DEF ReplicatedIfSteady, Steady
<1> SUFFICES ASSUME NEW u \in confirmed \ acked, NEW n \in Nodes,
                    NEW i \in 1..node[n].applied, u \in UidsIn(log[i])
             PROVE  u \in Uids(node[n].store.msgs)
  BY Zenon DEF ReplicatedEverywhere
<1>1. ConfirmedStored /\ Keeps(node[n].store, node[n].applied)
  BY Zenon DEF SteadyInv, Agrees
<1>2. PICK j \in 1..Len(log) : StoredAt(j, u)
  BY <1>1, Zenon DEF ConfirmedStored
<1>3. PICK k \in Chosen(log, j) : log[j].msgs[k].uid = u
  BY <1>2, Zenon DEF StoredAt
<1>4. Publishes(log, j) /\ k \in DOMAIN log[j].msgs
  BY <1>2, <1>3, SlotsInRange, Zenon DEF StoredAt
<1>5. Publishes(log, i) /\ \E l \in DOMAIN log[i].msgs : log[i].msgs[l].uid = u
  BY Zenon DEF UidsIn, Publishes
<1>6. i \in 1..Len(log)
  <2>1. node[n].applied \in Nat /\ node[n].applied <= Len(log) /\ Len(log) \in Nat
    BY NodeFacts, Zenon
  <2> QED
    BY <2>1
<1>7. i = j
  BY <1>3, <1>4, <1>5, <1>6, Zenon DEF FlockInv, LogInv
<1> QED
  BY <1>1, <1>3, <1>4, <1>7, Zenon DEF Keeps

\* As long as one node at most was ever restarted and no dedup window has
\* passed, a message whose publish was confirmed and that no client has acked
\* is in the store of every node that has applied its publish: acks and
\* nacks, which name messages by node-local ids, hit the same message everywhere.
THEOREM SteadyReplication == Spec => []ReplicatedIfSteady
<1>1. FlockInv /\ SteadyInv => ReplicatedIfSteady
  BY AgreedIsReplicated
<1> QED
  BY <1>1, FlockAlways, ReplicasAgree, PTL
==============================================================================
